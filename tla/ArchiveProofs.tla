--------------------------- MODULE ArchiveProofs ---------------------------
(***************************************************************************)
(* FlatfileArchive implements Archive, for every set of partitions and     *)
(* processes, every interleaving of their steps and any number of deaths;  *)
(* and the audit that grades it and what the other jobs leave warns before *)
(* history expires.                                                        *)
(***************************************************************************)
EXTENDS FlatfileArchive, CoverageAudit, SequenceTheorems, TLAPS

\* A file changed in one field is a file still.
LEMMA EntryReplaced ==
  ASSUME NEW S, NEW s \in Seq(S), NEW i, NEW v, i \in 1..Len(s) => v \in S
  PROVE  [s EXCEPT ![i] = v] \in Seq(S)
<1> DEFINE t == [s EXCEPT ![i] = v]
<1>1. PICK n \in Nat : s \in [1..n -> S]
  BY SeqDef
<1>2. Len(s) = n
  BY <1>1
<1>3. t \in [1..n -> S]
  BY <1>1, <1>2
<1> QED
  BY <1>3, SeqDef

LEMMA FileRewritten ==
  ASSUME file \in Seq(FileRec), NEW i
  PROVE  [file EXCEPT ![i].whole = TRUE] \in Seq(FileRec)
<1>1. i \in 1..Len(file) => [file[i] EXCEPT !.whole = TRUE] \in FileRec
  <2>1. i \in 1..Len(file) => file[i] \in FileRec
    OBVIOUS
  <2> QED
    BY <2>1 DEF FileRec
<1> QED
  BY <1>1, EntryReplaced

LEMMA FileMoved ==
  ASSUME file \in Seq(FileRec), NEW i, NEW a \in {"quarantine", "pruned"}
  PROVE  [file EXCEPT ![i].at = a] \in Seq(FileRec)
<1>1. i \in 1..Len(file) => [file[i] EXCEPT !.at = a] \in FileRec
  <2>1. i \in 1..Len(file) => file[i] \in FileRec
    OBVIOUS
  <2> QED
    BY <2>1 DEF FileRec
<1> QED
  BY <1>1, EntryReplaced

\* No step of the jobs takes a variable out of its type.
LEMMA TypeStep == TypeOK /\ [Next]_vars => TypeOK'
<1> SUFFICES ASSUME TypeOK, [Next]_vars PROVE TypeOK'
  OBVIOUS
<1>2. TypeOK'
  <2> USE ArchiveAssumption DEF TypeOK
  <2>1. ASSUME NEW p \in Procs, NEW k \in Keys, NEW m \in Modes, StartPull(p, k, m)
        PROVE  TypeOK'
    <3>1. PICK at \in {"head", "filter"} : Launch(p, k, m, at, {})
      BY <2>1 DEF StartPull
    <3> QED BY <3>1 DEF Launch, rawVars
  <2>2. ASSUME NEW p \in Procs, NEW k \in Keys, "reconcile" \in Modes, StartReconcile(p, k)
        PROVE  TypeOK'
    <3>1. RowsIn(InClean(k)) \in SUBSET Nat
      <4>1. \A i \in Created : file[i] \in FileRec
        BY DEF Created
      <4>2. \A i \in Created : file[i].rows \subseteq Nat
        BY <4>1 DEF FileRec
      <4> QED
        BY <4>2 DEF RowsIn, InClean
    <3> QED
      BY <2>2, <3>1 DEF StartReconcile, Launch, rawVars
  <2>3. ASSUME NEW p \in Procs, HeadMiss(p) PROVE TypeOK'
    BY <2>3 DEF HeadMiss, Goto, rawVars
  <2>4. ASSUME NEW p \in Procs, BeginDownload(p) PROVE TypeOK'
    BY <2>4 DEF BeginDownload, Goto
  <2>5. ASSUME NEW p \in Procs, EndDownload(p) PROVE TypeOK'
    BY <2>5, SMTT(30) DEF EndDownload, Goto, rawVars
  <2>6. ASSUME NEW p \in Procs, Filter(p) PROVE TypeOK'
    <3>1. InClean(key[p]) \subseteq Nat
      BY DEF InClean, Created
    <3>2. pc' = [pc EXCEPT ![p] = "write"] \/ pc' = [pc EXCEPT ![p] = "idle"]
      BY <2>6 DEF Filter, Goto
    <3>3. \E S \in SUBSET Nat : prior' = [prior EXCEPT ![p] = S] \/ prior' = prior
      <4> DEFINE own == {i \in InClean(key[p]) : file[i].by = "flatfile_pull"}
      <4>1. own \in SUBSET Nat /\ {} \in SUBSET Nat
        BY <3>1
      <4> QED
        BY <2>6, <4>1 DEF Filter
    <3>4. UNCHANGED <<rawVars, file, manifest, flock, index, mode, key, rows, mine,
                      copy, runs, crashes, tangled, overtaken>>
      BY <2>6 DEF Filter
    <3>5. prior' \in [Procs -> SUBSET Nat]
      BY <3>3
    <3> QED
      BY <3>2, <3>4, <3>5 DEF rawVars
  <2>7. ASSUME NEW p \in Procs, Glob(p) PROVE TypeOK'
    <3>1. InClean(key[p]) \subseteq Nat
      BY DEF InClean, Created
    <3> QED
      BY <2>7, <3>1 DEF Glob, Goto, rawVars
  <2>8. ASSUME NEW p \in Procs, BeginWrite(p) PROVE TypeOK'
    <3>1. Written(p) \in SUBSET Nat /\ Job(mode[p]) \in {"flatfile_pull", "reconcile"}
      BY DEF Written, Job
    <3>2. file' \in Seq(FileRec)
      BY <2>8, <3>1 DEF BeginWrite, FileRec
    <3> QED
      BY <2>8, <3>2 DEF BeginWrite, Goto, rawVars
  <2>9. ASSUME NEW p \in Procs, EndWrite(p) PROVE TypeOK'
    <3>1. file' \in Seq(FileRec)
      BY <2>9, FileRewritten DEF EndWrite
    <3> QED
      BY <2>9, <3>1 DEF EndWrite, Goto, rawVars
  <2>10. ASSUME NEW p \in Procs, Quarantine(p) PROVE TypeOK'
    <3>1. file' \in Seq(FileRec)
      <4>1. PICK i \in prior[p] : file' = IF file[i].at = "clean"
                      THEN [file EXCEPT ![i].at = "quarantine"] ELSE file
        BY <2>10 DEF Quarantine
      <4>2. [file EXCEPT ![i].at = "quarantine"] \in Seq(FileRec)
        BY FileMoved
      <4> QED
        BY <4>1, <4>2
    <3> QED
      BY <2>10, <3>1 DEF Quarantine, rawVars
  <2>11. ASSUME NEW p \in Procs, EndQuarantine(p) PROVE TypeOK'
    BY <2>11 DEF EndQuarantine, Goto, rawVars
  <2>12. ASSUME NEW p \in Procs, ReadManifest(p) PROVE TypeOK'
    BY <2>12 DEF ReadManifest, Goto, rawVars
  <2>13. ASSUME NEW p \in Procs, ReplaceManifest(p) PROVE TypeOK'
    BY <2>13 DEF ReplaceManifest, Goto, rawVars, Entry
  <2>14. ASSUME NEW p \in Procs, Crash(p) PROVE TypeOK'
    BY <2>14 DEF Crash, Goto, rawVars
  <2>15. CASE PruneStart
    BY <2>15 DEF PruneStart, rawVars, procVars
  <2>16. ASSUME NEW k \in Keys, PruneFlatfile(k) PROVE TypeOK'
    BY <2>16 DEF PruneFlatfile, procVars
  <2>17. ASSUME NEW i \in Created, PruneQuarantine(i) PROVE TypeOK'
    <3>1. file' \in Seq(FileRec)
      BY <2>17, FileMoved DEF PruneQuarantine
    <3> QED
      BY <2>17, <3>1 DEF PruneQuarantine, rawVars, procVars
  <2>18. CASE UNCHANGED vars
    BY <2>18 DEF vars, rawVars, procVars
  <2> QED
    BY <2>1, <2>2, <2>3, <2>4, <2>5, <2>6, <2>7, <2>8, <2>9, <2>10, <2>11,
       <2>12, <2>13, <2>14, <2>15, <2>16, <2>17, <2>18 DEF Next, Step
<1> QED
  BY <1>2

\* Every variable keeps its type, whatever runs beside what and dies where.
THEOREM TypeCorrect == Spec => []TypeOK
<1>1. Init => TypeOK
  BY ArchiveAssumption DEF Init, TypeOK
<1>2. QED
  BY <1>1, TypeStep, PTL DEF Spec

-----------------------------------------------------------------------------
(***************************************************************************)
(* The inductive invariant.  That a file moved aside has a stand-in is not *)
(* inductive on its own: a file may be moved while the only newer one is   *)
(* still being written, unless the list a process moves from is older than *)
(* the file it wrote and that file is complete.                            *)
(***************************************************************************)
Complete(k) == \E i \in Created : file[i].key = k /\ file[i].whole

\* Files hold rows unless their partition keeps none.
FilesHold == \A i \in Created : file[i].key \notin Blank => file[i].rows # {}

\* reconcile has rows to write.
ReconcileHolds == \A p \in Procs : mode[p] = "reconcile" => rows[p] # {}

\* What a process lists for quarantine are existing files of its partition ...
PriorListed == \A p \in Procs : pc[p] \in {"write", "writing", "quarantine"} =>
    \A i \in prior[p] : i \in Created /\ file[i].key = key[p]

\* ... all older than the file it wrote, which is complete once it moves them.
MineNewer == \A p \in Procs :
    /\ pc[p] \in {"writing", "quarantine", "lock", "record"} =>
         /\ mine[p] \in Created
         /\ file[mine[p]].key = key[p]
    /\ pc[p] \in {"writing", "quarantine"} => \A i \in prior[p] : i < mine[p]
    /\ pc[p] \in {"quarantine", "lock", "record"} => file[mine[p]].whole

\* The copy a process edits under the flock is the manifest.
CopyCurrent == \A p \in Procs :
    pc[p] = "record" => flock = p /\ copy[p] = manifest

ManifestComplete == \A k \in Keys :
    /\ manifest[k] # None => Complete(k)
    /\ manifest[k] = "kept" => k \notin Blank

IndexComplete == \A k \in index : k \notin Blank /\ Complete(k)

\* What is moved out of a partition has a newer, complete file in its place.
StandsIn == \A i \in Created : file[i].at # "clean" =>
    \E j \in InClean(file[i].key) : j > i /\ Holds(j, file[i].key)

IInv == /\ TypeOK
        /\ FilesHold
        /\ ReconcileHolds
        /\ PriorListed
        /\ MineNewer
        /\ CopyCurrent
        /\ ManifestComplete
        /\ IndexComplete
        /\ StandsIn

-----------------------------------------------------------------------------
\* What every step leaves of the files there were.
FilesKept ==
    /\ Created \subseteq Created'
    /\ \A i \in Created :
         /\ file'[i].key = file[i].key
         /\ file'[i].rows = file[i].rows
         /\ file[i].whole => file'[i].whole

\* A complete file stays one.
LEMMA CompleteStable == FilesKept => \A k \in Keys : Complete(k) => Complete(k)'
  BY DEF FilesKept, Complete

\* Each action that changes a file adds one or changes one in place.
LEMMA Appended ==
  ASSUME TypeOK, TypeOK', NEW p \in Procs, BeginWrite(p)
  PROVE  /\ FilesKept
         /\ Created' = Created \cup {Len(file) + 1}
         /\ \A i \in Created : file'[i] = file[i]
         /\ file'[Len(file) + 1] =
              [key |-> key[p], by |-> Job(mode[p]), whole |-> FALSE,
               at |-> "clean", rows |-> Written(p)]
<1> DEFINE new == [key |-> key[p], by |-> Job(mode[p]), whole |-> FALSE,
                   at |-> "clean", rows |-> Written(p)]
<1>1. file \in Seq(FileRec) /\ file' = Append(file, new) /\ Len(file) \in Nat
  BY DEF TypeOK, BeginWrite
<1>2. Len(file') = Len(file) + 1
  BY <1>1
<1>3. Created' = Created \cup {Len(file) + 1}
  BY <1>1, <1>2 DEF Created
<1>4. \A i \in Created : file'[i] = file[i]
  BY <1>1 DEF Created
<1>5. file'[Len(file) + 1] = new
  BY <1>1
<1> QED
  BY <1>3, <1>4, <1>5 DEF FilesKept

\* EndWrite, a quarantine move and a prune leave all other files alone.
LEMMA Changed ==
  ASSUME TypeOK, NEW i \in Created,
         \/ file' = [file EXCEPT ![i].whole = TRUE]
         \/ \E a \in {"quarantine", "pruned"} : file' = [file EXCEPT ![i].at = a]
  PROVE  /\ FilesKept
         /\ Created' = Created
         /\ \A j \in Created : j # i => file'[j] = file[j]
<1>1. file \in Seq(FileRec) /\ Len(file) \in Nat
  BY DEF TypeOK
<1>2. Len(file') = Len(file)
  BY <1>1 DEF Created
<1>3. \A j \in Created : j # i => file'[j] = file[j]
  BY <1>1 DEF Created
<1>4. file[i] \in FileRec
  BY <1>1 DEF Created
<1>5. /\ file'[i].key = file[i].key
      /\ file'[i].rows = file[i].rows
      /\ file[i].whole => file'[i].whole
  BY <1>1, <1>4 DEF Created, FileRec
<1> QED
  BY <1>2, <1>3, <1>5 DEF FilesKept, Created

\* A step that leaves the files alone leaves what is said of files alone.
LEMMA FilesSame ==
  UNCHANGED file => /\ FilesHold => FilesHold'
                    /\ StandsIn => StandsIn'
                    /\ \A k \in Keys : Complete(k) => Complete(k)'
                    /\ Created' = Created
  BY DEF FilesHold, StandsIn, InClean, Holds, Complete, Created

LEMMA InvInit == Init => IInv
<1> SUFFICES ASSUME Init PROVE IInv
  OBVIOUS
<1>1. TypeOK
  BY ArchiveAssumption DEF Init, TypeOK
<1>2. FilesHold /\ StandsIn
  BY DEF Init, FilesHold, StandsIn, Created
<1>3. ReconcileHolds /\ PriorListed /\ MineNewer /\ CopyCurrent
  BY DEF Init, ReconcileHolds, PriorListed, MineNewer, CopyCurrent
<1>4. ManifestComplete /\ IndexComplete
  BY ArchiveAssumption DEF Init, ManifestComplete, IndexComplete
<1> QED
  BY <1>1, <1>2, <1>3, <1>4 DEF IInv

LEMMA InvStep == IInv /\ [Next]_vars => IInv'
<1> SUFFICES ASSUME IInv, [Next]_vars PROVE IInv'
  OBVIOUS
<1> USE ArchiveAssumption
<1>t. TypeOK /\ TypeOK'
  BY TypeStep DEF IInv
<1>1. ASSUME NEW p \in Procs, NEW k \in Keys, NEW m \in Modes, StartPull(p, k, m)
     PROVE  IInv'
  <2>0. PICK at \in {"head", "filter"} : Launch(p, k, m, at, {})
    BY <1>1 DEF StartPull
  <2>1. FilesHold' /\ StandsIn' /\ ManifestComplete' /\ IndexComplete'
    BY <2>0, <1>t, FilesSame DEF IInv, ManifestComplete, IndexComplete, TypeOK, Launch
  <2>2. ReconcileHolds' /\ CopyCurrent'
    BY <1>1, <2>0, <1>t DEF StartPull, Launch, IInv, ReconcileHolds, CopyCurrent, TypeOK
  <2>3. PriorListed' /\ MineNewer'
    BY <2>0, <1>t, FilesSame DEF Launch, IInv, PriorListed, MineNewer, TypeOK
  <2> QED
    BY <1>t, <2>1, <2>2, <2>3 DEF IInv
<1>2. ASSUME NEW p \in Procs, NEW k \in Keys, StartReconcile(p, k)
     PROVE  IInv'
  <2>1. FilesHold' /\ StandsIn' /\ ManifestComplete' /\ IndexComplete'
    BY <1>2, <1>t, FilesSame
    DEF StartReconcile, IInv, ManifestComplete, IndexComplete, TypeOK, Launch
  <2>2. ReconcileHolds' /\ CopyCurrent'
    BY <1>2, <1>t DEF StartReconcile, Launch, IInv, ReconcileHolds, CopyCurrent, TypeOK
  <2>3. PriorListed' /\ MineNewer'
    BY <1>2, <1>t, FilesSame DEF StartReconcile, Launch, IInv, PriorListed, MineNewer, TypeOK
  <2> QED
    BY <1>t, <2>1, <2>2, <2>3 DEF IInv
<1>3. ASSUME NEW p \in Procs, HeadMiss(p) PROVE IInv'
  <2>1. FilesHold' /\ StandsIn' /\ ManifestComplete' /\ IndexComplete'
    BY <1>3, <1>t, FilesSame
    DEF HeadMiss, IInv, ManifestComplete, IndexComplete, TypeOK
  <2>2. ReconcileHolds' /\ CopyCurrent'
    BY <1>3, <1>t DEF HeadMiss, Goto, IInv, ReconcileHolds, CopyCurrent, TypeOK
  <2>3. PriorListed' /\ MineNewer'
    BY <1>3, <1>t, FilesSame DEF HeadMiss, Goto, IInv, PriorListed, MineNewer, TypeOK
  <2> QED
    BY <1>t, <2>1, <2>2, <2>3 DEF IInv
<1>4. ASSUME NEW p \in Procs, BeginDownload(p) PROVE IInv'
  <2>1. FilesHold' /\ StandsIn' /\ ManifestComplete' /\ IndexComplete'
    BY <1>4, <1>t, FilesSame
    DEF BeginDownload, IInv, ManifestComplete, IndexComplete, TypeOK
  <2>2. ReconcileHolds' /\ CopyCurrent'
    BY <1>4, <1>t DEF BeginDownload, Goto, IInv, ReconcileHolds, CopyCurrent, TypeOK
  <2>3. PriorListed' /\ MineNewer'
    BY <1>4, <1>t, FilesSame DEF BeginDownload, Goto, IInv, PriorListed, MineNewer, TypeOK
  <2> QED
    BY <1>t, <2>1, <2>2, <2>3 DEF IInv
<1>5. ASSUME NEW p \in Procs, EndDownload(p) PROVE IInv'
  <2>1. FilesHold' /\ StandsIn' /\ ManifestComplete' /\ IndexComplete'
    BY <1>5, <1>t, FilesSame
    DEF EndDownload, IInv, ManifestComplete, IndexComplete, TypeOK
  <2>2. ReconcileHolds' /\ CopyCurrent'
    BY <1>5, <1>t DEF EndDownload, Goto, IInv, ReconcileHolds, CopyCurrent, TypeOK
  <2>3. PriorListed' /\ MineNewer'
    BY <1>5, <1>t, FilesSame DEF EndDownload, Goto, IInv, PriorListed, MineNewer, TypeOK
  <2> QED
    BY <1>t, <2>1, <2>2, <2>3 DEF IInv
<1>6. ASSUME NEW p \in Procs, Filter(p) PROVE IInv'
  <2>1. FilesHold' /\ StandsIn' /\ ManifestComplete' /\ IndexComplete'
    BY <1>6, <1>t, FilesSame DEF Filter, IInv, ManifestComplete, IndexComplete, TypeOK
  <2>2. ReconcileHolds' /\ CopyCurrent'
    BY <1>6, <1>t DEF Filter, Goto, IInv, ReconcileHolds, CopyCurrent, TypeOK
  <2>3. /\ UNCHANGED <<file, key, mine>>
        /\ \A q \in Procs : q # p => pc'[q] = pc[q] /\ prior'[q] = prior[q]
        /\ pc'[p] \in {"idle", "write"}
        /\ pc'[p] = "write" => prior'[p] \subseteq InClean(key[p])
    BY <1>6, <1>t DEF Filter, Goto, TypeOK
  <2>4. Created' = Created
    BY <2>3, FilesSame
  <2>5. PriorListed'
    BY <2>3, <2>4 DEF IInv, PriorListed, InClean
  <2>6. MineNewer'
    BY <2>3, <2>4 DEF IInv, MineNewer
  <2> QED
    BY <1>t, <2>1, <2>2, <2>5, <2>6 DEF IInv
<1>7. ASSUME NEW p \in Procs, Glob(p) PROVE IInv'
  <2>1. FilesHold' /\ StandsIn' /\ ManifestComplete' /\ IndexComplete'
    BY <1>7, <1>t, FilesSame
    DEF Glob, IInv, ManifestComplete, IndexComplete, TypeOK
  <2>2. ReconcileHolds' /\ CopyCurrent'
    BY <1>7, <1>t DEF Glob, Goto, IInv, ReconcileHolds, CopyCurrent, TypeOK
  <2>3. PriorListed' /\ MineNewer'
    BY <1>7, <1>t, FilesSame DEF Glob, Goto, IInv, PriorListed, MineNewer, TypeOK, InClean
  <2> QED
    BY <1>t, <2>1, <2>2, <2>3 DEF IInv
<1>8. ASSUME NEW p \in Procs, BeginWrite(p) PROVE IInv'
  <2> DEFINE e == Len(file) + 1
  <2>0. /\ pc[p] = "write"
        /\ pc' = [pc EXCEPT ![p] = "writing"]
        /\ mine' = [mine EXCEPT ![p] = e]
        /\ key' = key /\ prior' = prior
    BY <1>8 DEF BeginWrite, Goto
  <2>1. /\ FilesKept /\ Created' = Created \cup {e} /\ e \in Nat
        /\ \A i \in Created : file'[i] = file[i] /\ i < e
        /\ file'[e] = [key |-> key[p], by |-> Job(mode[p]), whole |-> FALSE,
                       at |-> "clean", rows |-> Written(p)]
    <3>1. e \in Nat /\ \A i \in Created : i < e
      BY <1>t DEF TypeOK, Created
    <3> QED
      BY <1>t, <1>8, <3>1, Appended
  <2>2. FilesHold'
    <3>1. key[p] \notin Blank => Written(p) # {}
      BY DEF Written, IInv, ReconcileHolds
    <3> QED
      BY <2>1, <3>1 DEF IInv, FilesHold
  <2>3. StandsIn'
    BY <2>1 DEF IInv, StandsIn, InClean, Holds
  <2>4. ReconcileHolds' /\ CopyCurrent'
    BY <1>8, <1>t DEF BeginWrite, Goto, IInv, ReconcileHolds, CopyCurrent, TypeOK
  <2>5. PriorListed'
    BY <1>t, <2>0, <2>1 DEF IInv, PriorListed, TypeOK
  <2>6. MineNewer'
    <3>1. /\ pc'[p] = "writing" /\ mine'[p] = e
          /\ \A i \in prior[p] : i \in Created
      BY <1>t, <2>0 DEF IInv, PriorListed, TypeOK
    <3>2. \A q \in Procs : q # p => pc'[q] = pc[q] /\ mine'[q] = mine[q]
      BY <1>t, <2>0 DEF TypeOK
    <3> SUFFICES ASSUME NEW q \in Procs
                 PROVE  /\ pc'[q] \in {"writing", "quarantine", "lock", "record"} =>
                             mine'[q] \in Created' /\ file'[mine'[q]].key = key[q]
                        /\ pc'[q] \in {"writing", "quarantine"} =>
                             \A i \in prior[q] : i < mine'[q]
                        /\ pc'[q] \in {"quarantine", "lock", "record"} =>
                             file'[mine'[q]].whole
      BY <2>0 DEF MineNewer
    <3>3. CASE q = p
      BY <2>1, <3>1, <3>3
    <3>4. CASE q # p
      BY <2>1, <3>2, <3>4 DEF IInv, MineNewer
    <3> QED
      BY <3>3, <3>4
  <2>7. ManifestComplete' /\ IndexComplete'
    BY <1>8, <1>t, <2>1, CompleteStable
    DEF BeginWrite, IInv, ManifestComplete, IndexComplete, TypeOK
  <2> QED
    BY <1>t, <2>2, <2>3, <2>4, <2>5, <2>6, <2>7 DEF IInv
<1>9. ASSUME NEW p \in Procs, EndWrite(p) PROVE IInv'
  <2> DEFINE e == mine[p]
  <2>1. e \in Created
    BY <1>9 DEF EndWrite, IInv, MineNewer
  <2>2. /\ FilesKept /\ Created' = Created
        /\ \A j \in Created : j # e => file'[j] = file[j]
    BY <1>t, <1>9, <2>1, Changed DEF EndWrite
  <2>3. file'[e].whole = TRUE /\ file'[e].at = file[e].at
    BY <1>t, <1>9, <2>1 DEF EndWrite, TypeOK, Created, FileRec
  <2>4. FilesHold'
    BY <2>2 DEF IInv, FilesHold, FilesKept
  <2>5. StandsIn'
    BY <2>2, <2>3 DEF IInv, StandsIn, InClean, Holds, FilesKept
  <2>6. ReconcileHolds' /\ CopyCurrent'
    BY <1>9, <1>t DEF EndWrite, Goto, IInv, ReconcileHolds, CopyCurrent, TypeOK
  <2>7. PriorListed'
    BY <1>9, <1>t, <2>2 DEF EndWrite, Goto, IInv, PriorListed, FilesKept, TypeOK
  <2>8. MineNewer'
    BY <1>9, <1>t, <2>2, <2>3 DEF EndWrite, Goto, IInv, MineNewer, FilesKept, TypeOK
  <2>9. ManifestComplete' /\ IndexComplete'
    BY <1>9, <1>t, <2>2, CompleteStable
    DEF EndWrite, IInv, ManifestComplete, IndexComplete, TypeOK
  <2> QED
    BY <1>t, <2>4, <2>5, <2>6, <2>7, <2>8, <2>9 DEF IInv
<1>10. ASSUME NEW p \in Procs, Quarantine(p) PROVE IInv'
  <2>1. PICK i \in prior[p] :
          /\ file' = IF file[i].at = "clean"
                       THEN [file EXCEPT ![i].at = "quarantine"] ELSE file
          /\ prior' = [prior EXCEPT ![p] = @ \ {i}]
    BY <1>10 DEF Quarantine
  <2>2. /\ i \in Created /\ mine[p] \in Created /\ i < mine[p]
        /\ file[i].key = key[p] /\ file[mine[p]].key = key[p] /\ file[mine[p]].whole
    BY <1>10 DEF Quarantine, IInv, PriorListed, MineNewer
  <2>3. /\ FilesKept /\ Created' = Created
        /\ \A j \in Created : j # i => file'[j] = file[j]
    BY <1>t, <2>1, <2>2, Changed DEF FilesKept, Created
  <2>4. FilesHold'
    BY <2>3 DEF IInv, FilesHold, FilesKept
  \* The file p wrote stands in for i, or the newer one that stands in for it does.
  <2>5. StandsIn'
    <3>1. PICK w \in InClean(key[p]) : w > i /\ Holds(w, key[p])
      <4>1. CASE file[mine[p]].at = "clean"
        <5>1. Holds(mine[p], key[p])
          BY <2>2 DEF IInv, FilesHold, Holds
        <5> QED
          BY <4>1, <5>1, <2>2 DEF InClean
      <4>2. CASE file[mine[p]].at # "clean"
        <5>1. PICK j \in InClean(key[p]) : j > mine[p] /\ Holds(j, key[p])
          BY <4>2, <2>2 DEF IInv, StandsIn
        <5>2. j > i
          BY <5>1, <2>2 DEF InClean, Created
        <5> QED
          BY <5>1, <5>2
      <4> QED
        BY <4>1, <4>2
    <3> SUFFICES ASSUME NEW x \in Created, file'[x].at # "clean"
                 PROVE  \E j \in Created : /\ file'[j].key = file'[x].key
                                          /\ file'[j].at = "clean"
                                          /\ j > x /\ Holds(j, file[x].key)'
      BY <2>3 DEF StandsIn, InClean
    <3>2. /\ w \in Created /\ w > i /\ file'[w] = file[w]
          /\ file[w].key = key[p] /\ file[w].at = "clean"
          /\ file[w].whole /\ (key[p] \notin Blank => file[w].rows # {})
      BY <3>1, <2>2, <2>3 DEF InClean, Holds, Created
    <3>3. CASE x = i
      <4>1. file'[i].key = key[p]
        BY <2>2, <2>3 DEF FilesKept
      <4> QED
        BY <3>2, <3>3, <4>1 DEF Holds
    <3>4. CASE x # i
      <4>1. file'[x] = file[x]
        BY <2>3, <3>4
      <4>2. PICK j \in Created : /\ file[j].key = file[x].key /\ file[j].at = "clean"
                                /\ j > x /\ Holds(j, file[x].key)
        BY <4>1 DEF IInv, StandsIn, InClean
      <4>3. CASE j # i
        BY <4>1, <4>2, <4>3, <2>3 DEF Holds
      <4>4. CASE j = i
        <5>1. w > x /\ file[x].key = key[p]
          BY <3>2, <4>2, <4>4, <2>2 DEF Created
        <5> QED
          BY <3>2, <4>1, <5>1 DEF Holds
      <4> QED
        BY <4>3, <4>4
    <3> QED
      BY <3>3, <3>4
  <2>6. ReconcileHolds' /\ CopyCurrent'
    BY <1>10, <1>t DEF Quarantine, IInv, ReconcileHolds, CopyCurrent, TypeOK
  <2>7. PriorListed'
    BY <1>10, <1>t, <2>1, <2>3 DEF Quarantine, IInv, PriorListed, FilesKept, TypeOK
  <2>8. MineNewer'
    BY <1>10, <1>t, <2>1, <2>3 DEF Quarantine, IInv, MineNewer, FilesKept, TypeOK
  <2>9. ManifestComplete' /\ IndexComplete'
    BY <1>10, <1>t, <2>3, CompleteStable
    DEF Quarantine, IInv, ManifestComplete, IndexComplete, TypeOK
  <2> QED
    BY <1>t, <2>4, <2>5, <2>6, <2>7, <2>8, <2>9 DEF IInv
<1>11. ASSUME NEW p \in Procs, EndQuarantine(p) PROVE IInv'
  <2>1. FilesHold' /\ StandsIn' /\ ManifestComplete' /\ IndexComplete'
    BY <1>11, <1>t, FilesSame
    DEF EndQuarantine, IInv, ManifestComplete, IndexComplete, TypeOK
  <2>2. ReconcileHolds' /\ CopyCurrent'
    BY <1>11, <1>t DEF EndQuarantine, Goto, IInv, ReconcileHolds, CopyCurrent, TypeOK
  <2>3. PriorListed' /\ MineNewer'
    BY <1>11, <1>t, FilesSame DEF EndQuarantine, Goto, IInv, PriorListed, MineNewer, TypeOK
  <2> QED
    BY <1>t, <2>1, <2>2, <2>3 DEF IInv
<1>12. ASSUME NEW p \in Procs, ReadManifest(p) PROVE IInv'
  <2>1. FilesHold' /\ StandsIn' /\ ManifestComplete' /\ IndexComplete'
    BY <1>12, <1>t, FilesSame
    DEF ReadManifest, IInv, ManifestComplete, IndexComplete, TypeOK
  <2>2. ReconcileHolds' /\ CopyCurrent'
    BY <1>12, <1>t DEF ReadManifest, Goto, IInv, ReconcileHolds, CopyCurrent, TypeOK
  <2>3. PriorListed' /\ MineNewer'
    BY <1>12, <1>t, FilesSame DEF ReadManifest, Goto, IInv, PriorListed, MineNewer, TypeOK
  <2> QED
    BY <1>t, <2>1, <2>2, <2>3 DEF IInv
<1>13. ASSUME NEW p \in Procs, ReplaceManifest(p) PROVE IInv'
  <2>1. FilesHold' /\ StandsIn'
    BY <1>13, FilesSame DEF ReplaceManifest, IInv
  <2>2. flock = p /\ copy[p] = manifest /\ Complete(key[p])
    BY <1>13 DEF ReplaceManifest, IInv, CopyCurrent, MineNewer, Complete
  <2>3. ReconcileHolds' /\ CopyCurrent'
    BY <1>13, <1>t, <2>2
    DEF ReplaceManifest, Goto, IInv, ReconcileHolds, CopyCurrent, TypeOK
  <2>4. PriorListed' /\ MineNewer'
    BY <1>13, <1>t, FilesSame
    DEF ReplaceManifest, Goto, IInv, PriorListed, MineNewer, TypeOK
  <2>5. ManifestComplete'
    BY <1>13, <1>t, <2>2, FilesSame DEF ReplaceManifest, IInv, ManifestComplete, TypeOK
  <2>6. IndexComplete'
    BY <1>13, <1>t, FilesSame DEF ReplaceManifest, IInv, IndexComplete, TypeOK
  <2> QED
    BY <1>t, <2>1, <2>3, <2>4, <2>5, <2>6 DEF IInv
<1>14. ASSUME NEW p \in Procs, Crash(p) PROVE IInv'
  <2>1. FilesHold' /\ StandsIn' /\ ManifestComplete' /\ IndexComplete'
    BY <1>14, <1>t, FilesSame
    DEF Crash, IInv, ManifestComplete, IndexComplete, TypeOK
  <2>2. ReconcileHolds' /\ CopyCurrent'
    BY <1>14, <1>t DEF Crash, Goto, IInv, ReconcileHolds, CopyCurrent, TypeOK
  <2>3. PriorListed' /\ MineNewer'
    BY <1>14, <1>t, FilesSame DEF Crash, Goto, IInv, PriorListed, MineNewer, TypeOK
  <2> QED
    BY <1>t, <2>1, <2>2, <2>3 DEF IInv
<1>15. CASE PruneStart
  <2>1. FilesHold' /\ StandsIn' /\ ManifestComplete' /\ IndexComplete'
    BY <1>15, <1>t, FilesSame
    DEF PruneStart, IInv, ManifestComplete, IndexComplete, TypeOK
  <2>2. ReconcileHolds' /\ CopyCurrent'
    BY <1>15, <1>t DEF PruneStart, procVars, IInv, ReconcileHolds, CopyCurrent, TypeOK
  <2>3. PriorListed' /\ MineNewer'
    BY <1>15, <1>t, FilesSame DEF PruneStart, procVars, IInv, PriorListed, MineNewer, TypeOK
  <2> QED
    BY <1>t, <2>1, <2>2, <2>3 DEF IInv
<1>16. ASSUME NEW k \in Keys, PruneFlatfile(k) PROVE IInv'
  <2>1. FilesHold' /\ StandsIn' /\ ManifestComplete' /\ IndexComplete'
    BY <1>16, <1>t, FilesSame
    DEF PruneFlatfile, IInv, ManifestComplete, IndexComplete, TypeOK
  <2>2. ReconcileHolds' /\ CopyCurrent'
    BY <1>16, <1>t DEF PruneFlatfile, procVars, IInv, ReconcileHolds, CopyCurrent, TypeOK
  <2>3. PriorListed' /\ MineNewer'
    BY <1>16, <1>t, FilesSame DEF PruneFlatfile, procVars, IInv, PriorListed, MineNewer, TypeOK
  <2> QED
    BY <1>t, <2>1, <2>2, <2>3 DEF IInv
<1>17. ASSUME NEW i \in Created, PruneQuarantine(i) PROVE IInv'
  <2>1. /\ FilesKept /\ Created' = Created
        /\ \A j \in Created : j # i => file'[j] = file[j]
    BY <1>t, <1>17, Changed DEF PruneQuarantine
  <2>2. file[i].at # "clean"
    BY <1>17 DEF PruneQuarantine
  <2>3. FilesHold'
    BY <2>1 DEF IInv, FilesHold, FilesKept
  <2>4. StandsIn'
    <3> SUFFICES ASSUME NEW x \in Created, file'[x].at # "clean"
                 PROVE  \E j \in Created : /\ file'[j].key = file'[x].key
                                          /\ file'[j].at = "clean"
                                          /\ j > x /\ Holds(j, file[x].key)'
      BY <2>1 DEF StandsIn, InClean
    <3>1. file[x].at # "clean" /\ file'[x].key = file[x].key
      BY <2>1, <2>2 DEF FilesKept
    <3>2. PICK j \in Created : /\ file[j].key = file[x].key /\ file[j].at = "clean"
                              /\ j > x /\ Holds(j, file[x].key)
      BY <3>1 DEF IInv, StandsIn, InClean
    <3> QED
      BY <2>1, <2>2, <3>1, <3>2 DEF Holds
  <2>5. ReconcileHolds' /\ CopyCurrent'
    BY <1>17, <1>t DEF PruneQuarantine, procVars, IInv, ReconcileHolds, CopyCurrent, TypeOK
  <2>6. PriorListed' /\ MineNewer'
    BY <1>17, <1>t, <2>1
    DEF PruneQuarantine, procVars, IInv, PriorListed, MineNewer, FilesKept, TypeOK
  <2>7. ManifestComplete' /\ IndexComplete'
    BY <1>17, <1>t, <2>1, CompleteStable
    DEF PruneQuarantine, IInv, ManifestComplete, IndexComplete, TypeOK
  <2> QED
    BY <1>t, <2>3, <2>4, <2>5, <2>6, <2>7 DEF IInv
<1>18. CASE UNCHANGED vars
  <2>1. FilesHold' /\ StandsIn' /\ ManifestComplete' /\ IndexComplete'
    BY <1>18, <1>t, FilesSame
    DEF vars, IInv, ManifestComplete, IndexComplete, TypeOK
  <2>2. ReconcileHolds' /\ CopyCurrent'
    BY <1>18, <1>t DEF vars, procVars, IInv, ReconcileHolds, CopyCurrent, TypeOK
  <2>3. PriorListed' /\ MineNewer'
    BY <1>18, <1>t, FilesSame DEF vars, procVars, IInv, PriorListed, MineNewer, TypeOK
  <2> QED
    BY <1>t, <2>1, <2>2, <2>3 DEF IInv
<1> QED
  BY <1>1, <1>2, <1>3, <1>4, <1>5, <1>6, <1>7, <1>8, <1>9, <1>10, <1>11, <1>12,
     <1>13, <1>14, <1>15, <1>16, <1>17, <1>18
  DEF Next, Step
-----------------------------------------------------------------------------
\* The inductive invariant holds in every reachable state.
THEOREM Invariance == Spec => []IInv
  BY InvInit, InvStep, PTL DEF Spec

\* A complete file of a partition, wherever it went, means readable rows.
LEMMA CompleteIsLanded == IInv => \A k \in Keys : Complete(k) <=> Landed(k)
<1> SUFFICES ASSUME IInv, NEW k \in Keys PROVE Complete(k) <=> Landed(k)
  OBVIOUS
<1>1. ASSUME Landed(k) PROVE Complete(k)
  BY <1>1 DEF Landed, Holds, InClean, Complete
<1>2. ASSUME Complete(k) PROVE Landed(k)
  <2>1. PICK i \in Created : file[i].key = k /\ file[i].whole
    BY <1>2 DEF Complete
  <2>2. CASE file[i].at = "clean"
    BY <2>1, <2>2 DEF IInv, FilesHold, Landed, Holds, InClean
  <2>3. CASE file[i].at # "clean"
    BY <2>1, <2>3 DEF IInv, StandsIn, Landed
  <2> QED
    BY <2>2, <2>3
<1> QED
  BY <1>1, <1>2

\* Every partition on prune_raw.sh's list, however old the list, still holds
\* the rows for which its raw file is deleted.
THEOREM PruneIsSafe == Spec => []PruneNeverDeletesTheOnlyCopy
<1>1. IInv => PruneNeverDeletesTheOnlyCopy
  <2> SUFFICES ASSUME IInv, NEW k \in index
               PROVE  \E i \in InClean(k) : file[i].whole /\ file[i].rows # {}
    BY DEF PruneNeverDeletesTheOnlyCopy
  <2>1. k \in Keys /\ k \notin Blank /\ Landed(k)
    BY CompleteIsLanded DEF IInv, TypeOK, IndexComplete
  <2> QED
    BY <2>1 DEF Landed, Holds
<1> QED
  BY <1>1, Invariance, PTL

(***************************************************************************)
(* That the stand-in has the rows.  Where reconcile lists no file but      *)
(* those it read, what a run is about to move is carried by what it wrote: *)
(* a rewrite by what reconcile read, a pull by its younger number.  Being  *)
(* carried is transitive, so it survives the move of a stand-in itself.    *)
(***************************************************************************)
\* A pull's file has that pull's rows.
PullsOwn == \A i \in Created : file[i].by = "flatfile_pull" =>
    file[i].rows = IF file[i].key \in Blank THEN {} ELSE {i}

\* What a run that has yet to write will move: what it read, or older pulls.
ListedRead == \A p \in Procs : pc[p] = "write" => \A i \in prior[p] :
    IF mode[p] = "reconcile"
    THEN key[p] \in overtaken \/ file[i].rows \subseteq rows[p]
    ELSE file[i].by = "flatfile_pull"

\* What a run that has written will move is in what it wrote.
MineCarries == \A p \in Procs : pc[p] \in {"writing", "quarantine"} =>
    \A i \in prior[p] : key[p] \in overtaken \/ Carries(mine[p], i)

\* Only reconcile lists by Glob, only a pull by Filter.
ModeFits == \A p \in Procs :
    /\ pc[p] = "glob" => mode[p] = "reconcile"
    /\ pc[p] \in {"head", "download", "filter"} => mode[p] # "reconcile"

CarryInv == /\ PullsOwn /\ ModeFits
            /\ ListedRead /\ MineCarries
            /\ QuarantineSuperseded

LEMMA CarryInit == Init => CarryInv
  BY DEF Init, CarryInv, PullsOwn, ModeFits, ListedRead, MineCarries, QuarantineSuperseded, Created

LEMMA CarriesTransitive ==
  ASSUME TypeOK, NEW h \in Created, NEW i \in Created, NEW j \in Created,
         Carries(j, i), Carries(i, h)
  PROVE  Carries(j, h)
<1>1. /\ file[h].rows \subseteq Nat /\ file[i].rows \subseteq Nat
      /\ file[j].rows \subseteq Nat
  <2>1. \A x \in Created : file[x] \in FileRec
    BY DEF TypeOK, Created
  <2> QED
    BY <2>1 DEF FileRec
<1> SUFFICES ASSUME NEW r \in file[h].rows PROVE \E s \in file[j].rows : r <= s
  BY DEF Carries
<1>2. PICK s \in file[i].rows : r <= s
  BY DEF Carries
<1>3. PICK t \in file[j].rows : s <= t
  BY <1>2 DEF Carries
<1>4. r \in Nat /\ s \in Nat /\ t \in Nat /\ r <= t
  BY <1>1, <1>2, <1>3
<1> QED
  BY <1>4

\* What the files say and where they are, and the windows, stay or grow.
SameStanding ==
    /\ Created' = Created /\ overtaken \subseteq overtaken'
    /\ \A i \in Created :
         /\ file'[i].key = file[i].key /\ file'[i].by = file[i].by
         /\ file'[i].rows = file[i].rows
         /\ file[i].whole => file'[i].whole
         /\ file'[i].at = "clean" <=> file[i].at = "clean"

\* A run that a step leaves as it is, or no further than before its listing, or
\* that completes its write.
RunsOn(q) ==
    \/ /\ pc'[q] \notin {"write", "writing", "quarantine"}
       /\ pc'[q] = "glob" => mode'[q] = "reconcile"
       /\ pc'[q] \in {"head", "download", "filter"} => mode'[q] # "reconcile"
    \/ /\ pc'[q] = pc[q] \/ (pc[q] = "writing" /\ pc'[q] = "quarantine")
       /\ mode'[q] = mode[q] /\ key'[q] = key[q] /\ rows'[q] = rows[q]
       /\ prior'[q] = prior[q] /\ mine'[q] = mine[q]

\* A step that moves no file.
LEMMA CarryStays ==
  ASSUME IInv, CarryInv, SameStanding, \A q \in Procs : RunsOn(q)
  PROVE  CarryInv'
<1>0. ModeFits'
  BY DEF CarryInv, ModeFits, RunsOn
<1>1. PullsOwn'
  BY DEF CarryInv, PullsOwn, SameStanding
<1>2. ListedRead'
  <2> SUFFICES ASSUME NEW q \in Procs, pc'[q] = "write", NEW i \in prior'[q]
               PROVE  IF mode'[q] = "reconcile"
                      THEN key'[q] \in overtaken' \/ file'[i].rows \subseteq rows'[q]
                      ELSE file'[i].by = "flatfile_pull"
    BY DEF ListedRead
  <2>1. /\ pc[q] = "write" /\ mode'[q] = mode[q] /\ key'[q] = key[q]
        /\ i \in prior[q] /\ rows'[q] = rows[q]
    BY DEF RunsOn
  <2>2. i \in Created
    BY <2>1 DEF IInv, PriorListed
  <2> QED
    BY <2>1, <2>2 DEF CarryInv, ListedRead, SameStanding
<1>3. MineCarries'
  <2> SUFFICES ASSUME NEW q \in Procs, pc'[q] \in {"writing", "quarantine"},
                      NEW i \in prior'[q]
               PROVE  \/ key'[q] \in overtaken'
                      \/ \A r \in file'[i].rows : \E s \in file'[mine'[q]].rows : r <= s
    BY DEF MineCarries, Carries
  <2>1. /\ pc[q] \in {"writing", "quarantine"} /\ key'[q] = key[q] /\ i \in prior[q]
        /\ mine'[q] = mine[q]
    BY DEF RunsOn
  <2>2. i \in Created /\ mine[q] \in Created
    BY <2>1 DEF IInv, PriorListed, MineNewer
  <2> QED
    BY <2>1, <2>2 DEF CarryInv, MineCarries, SameStanding, Carries
<1>4. QuarantineSuperseded'
  <2> SUFFICES ASSUME NEW i \in Created', file'[i].at # "clean"
               PROVE  \E j \in InClean(file[i].key)' :
                         Supersedes(j, i)' /\ (Carries(j, i)' \/ file'[i].key \in overtaken')
    BY DEF QuarantineSuperseded
  <2>1. i \in Created /\ file[i].at # "clean" /\ file'[i].key = file[i].key
    BY DEF SameStanding
  <2>2. PICK j \in InClean(file[i].key) :
            Supersedes(j, i) /\ (Carries(j, i) \/ file[i].key \in overtaken)
    BY <2>1 DEF CarryInv, QuarantineSuperseded
  <2>3. j \in Created /\ j \in InClean(file[i].key)'
    BY <2>1, <2>2 DEF InClean, SameStanding
  <2>4. Supersedes(j, i)' /\ (Carries(j, i)' \/ file'[i].key \in overtaken')
    BY <2>1, <2>2, <2>3 DEF Supersedes, Holds, Carries, SameStanding
  <2> QED
    BY <2>3, <2>4
<1> QED
  BY <1>0, <1>1, <1>2, <1>3, <1>4 DEF CarryInv

LEMMA StandingSame ==
  ASSUME UNCHANGED file, overtaken \subseteq overtaken' PROVE SameStanding
  BY DEF SameStanding, Created

LEMMA CarryStep == IInv /\ CarryInv /\ [Next]_vars => CarryInv'
<1> SUFFICES ASSUME IInv, CarryInv, [Next]_vars PROVE CarryInv'
  OBVIOUS
<1> USE ArchiveAssumption
<1>t. TypeOK /\ TypeOK'
  BY TypeStep DEF IInv
<1>f. \A i \in Created : file[i] \in FileRec
  BY <1>t DEF TypeOK, Created
\* Steps that leave the files alone, and the run nowhere near its quarantine.
<1>1. ASSUME NEW p \in Procs, NEW k, NEW m, NEW at \in {"head", "filter", "glob"}, NEW rs,
             Launch(p, k, m, at, rs), at = "glob" <=> m = "reconcile"
      PROVE  CarryInv'
  <2>1. SameStanding
    BY <1>1, StandingSame DEF Launch
  <2>2. \A q \in Procs : RunsOn(q)
    BY <1>1, <1>t DEF Launch, TypeOK, RunsOn
  <2> QED
    BY <2>1, <2>2, CarryStays
<1>2. ASSUME NEW p \in Procs,
             NEW at \in {"idle", "download", "filter", "lock", "record"},
             pc' = [pc EXCEPT ![p] = at],
             at \in {"download", "filter"} => mode[p] # "reconcile",
             UNCHANGED <<file, mode, key, prior, rows, mine, overtaken>>
      PROVE  CarryInv'
  <2>1. SameStanding
    BY <1>2, StandingSame
  <2>2. \A q \in Procs : RunsOn(q)
    BY <1>2, <1>t DEF TypeOK, RunsOn
  <2> QED
    BY <2>1, <2>2, CarryStays
<1>3. ASSUME UNCHANGED <<pc, mode, key, prior, rows, mine, overtaken>>, SameStanding
      PROVE  CarryInv'
  <2>1. \A q \in Procs : RunsOn(q)
    BY <1>3 DEF RunsOn
  <2> QED
    BY <1>3, <2>1, CarryStays
\* The run that lists: the others, and the files, are left alone.
<1>4. ASSUME NEW p \in Procs, pc' = [pc EXCEPT ![p] = "write"],
             UNCHANGED <<file, mode, key, rows, mine>>, overtaken \subseteq overtaken',
             NEW S, prior' = [prior EXCEPT ![p] = S],
             S \subseteq Created,
             \A i \in S : IF mode[p] = "reconcile"
                          THEN key[p] \in overtaken' \/ file[i].rows \subseteq rows[p]
                          ELSE file[i].by = "flatfile_pull"
      PROVE  CarryInv'
  <2>0. SameStanding
    BY <1>4, StandingSame
  <2>1. /\ pc'[p] = "write" /\ prior'[p] = S
        /\ \A q \in Procs : q # p => pc'[q] = pc[q] /\ prior'[q] = prior[q]
    BY <1>4, <1>t DEF TypeOK
  <2>2. PullsOwn'
    BY <2>0 DEF CarryInv, PullsOwn, SameStanding
  <2>3. ModeFits'
    BY <1>4, <2>1 DEF CarryInv, ModeFits
  <2>4. ListedRead'
    BY <1>4, <2>1 DEF CarryInv, ListedRead
  <2>5. MineCarries'
    <3> SUFFICES ASSUME NEW q \in Procs, pc'[q] \in {"writing", "quarantine"},
                        NEW i \in prior'[q]
                 PROVE  \/ key'[q] \in overtaken'
                        \/ \A r \in file'[i].rows : \E s \in file'[mine'[q]].rows : r <= s
      BY DEF MineCarries, Carries
    <3>1. q # p /\ pc[q] \in {"writing", "quarantine"} /\ i \in prior[q]
      BY <2>1
    <3> QED
      BY <1>4, <3>1 DEF CarryInv, MineCarries, Carries
  <2>6. QuarantineSuperseded'
    BY <1>4 DEF CarryInv, QuarantineSuperseded, Created, InClean, Supersedes, Holds, Carries
  <2> QED
    BY <2>2, <2>3, <2>4, <2>5, <2>6 DEF CarryInv
<1>5. ASSUME NEW p \in Procs, Filter(p) PROVE CarryInv'
  <2>0. UNCHANGED <<file, mode, key, rows, mine, overtaken>>
    BY <1>5 DEF Filter
  <2>1. CASE raw[key[p]] = "whole"
    <3> DEFINE S == IF mode[p] = "replace"
                    THEN {i \in InClean(key[p]) : file[i].by = "flatfile_pull"} ELSE {}
    <3>1. pc' = [pc EXCEPT ![p] = "write"] /\ prior' = [prior EXCEPT ![p] = S]
      BY <1>5, <2>1 DEF Filter, Goto
    <3>2. mode[p] # "reconcile"
      BY <1>5 DEF Filter, CarryInv, ModeFits
    <3>3. S \subseteq Created /\ \A i \in S : file[i].by = "flatfile_pull"
      BY DEF InClean
    <3> HIDE DEF S
    <3> QED
      BY <1>4, <2>0, <3>1, <3>2, <3>3
  <2>2. CASE raw[key[p]] # "whole"
    <3>1. pc' = [pc EXCEPT ![p] = "idle"] /\ UNCHANGED prior
      BY <1>5, <2>2 DEF Filter, Goto
    <3> QED
      BY <1>2, <2>0, <3>1
  <2> QED
    BY <2>1, <2>2
<1>6. ASSUME NEW p \in Procs, Glob(p) PROVE CarryInv'
  <2> DEFINE S == InClean(key[p])
  <2>1. /\ pc' = [pc EXCEPT ![p] = "write"] /\ prior' = [prior EXCEPT ![p] = S]
        /\ UNCHANGED <<file, mode, key, rows, mine>>
        /\ overtaken' = IF RowsIn(S) \subseteq rows[p] THEN overtaken
                        ELSE overtaken \cup {key[p]}
    BY <1>6 DEF Glob, Goto
  <2>2. mode[p] = "reconcile"
    BY <1>6 DEF Glob, CarryInv, ModeFits
  <2>3. S \subseteq Created /\ \A i \in S : file[i].rows \subseteq RowsIn(S)
    BY DEF InClean, RowsIn
  <2> HIDE DEF S
  <2>4. \A i \in S : key[p] \in overtaken' \/ file[i].rows \subseteq rows[p]
    BY <2>1, <2>3
  <2>5. overtaken \subseteq overtaken'
    BY <2>1
  <2> QED
    BY <1>4, <2>1, <2>2, <2>3, <2>4, <2>5
\* What is written carries what was listed: reconcile writes what it read, a
\* pull its own rows, and its number is the highest.
<1>7. ASSUME NEW p \in Procs, BeginWrite(p) PROVE CarryInv'
  <2> DEFINE e == Len(file) + 1
  <2>0. /\ pc[p] = "write"
        /\ pc' = [pc EXCEPT ![p] = "writing"]
        /\ mine' = [mine EXCEPT ![p] = e]
        /\ UNCHANGED <<mode, key, prior, rows, overtaken>>
    BY <1>7 DEF BeginWrite, Goto
  <2>1. /\ Created' = Created \cup {e} /\ e \in Nat
        /\ \A i \in Created : file'[i] = file[i] /\ i < e
        /\ file'[e] = [key |-> key[p], by |-> Job(mode[p]), whole |-> FALSE,
                       at |-> "clean", rows |-> Written(p)]
    <3>1. e \in Nat /\ \A i \in Created : i < e
      BY <1>t DEF TypeOK, Created
    <3> QED
      BY <1>t, <1>7, <3>1, Appended
  <2>a. Written(p) = IF mode[p] = "reconcile" THEN rows[p]
                     ELSE IF key[p] \in Blank THEN {} ELSE {e}
    BY DEF Written
  <2> HIDE DEF e
  <2>2. /\ pc'[p] = "writing" /\ mine'[p] = e
        /\ \A q \in Procs : q # p => pc'[q] = pc[q] /\ mine'[q] = mine[q]
    BY <1>t, <2>0 DEF TypeOK
  <2>3. PullsOwn'
    BY <2>1, <2>a DEF CarryInv, PullsOwn, Job
  <2>4. ModeFits' /\ ListedRead'
    <3>1. \A q \in Procs : pc[q] = "write" => \A i \in prior[q] : i \in Created
      BY DEF IInv, PriorListed
    <3> QED
      BY <2>0, <2>1, <2>2, <3>1 DEF CarryInv, ModeFits, ListedRead
  <2>5. MineCarries'
    <3> SUFFICES ASSUME NEW q \in Procs, pc'[q] \in {"writing", "quarantine"},
                        NEW i \in prior[q], key[q] \notin overtaken
                 PROVE  \A r \in file'[i].rows : \E s \in file'[mine'[q]].rows : r <= s
      BY <2>0 DEF MineCarries, Carries
    <3>1. CASE q # p
      <4>1. i \in Created /\ mine[q] \in Created /\ Carries(mine[q], i)
        BY <2>2, <3>1 DEF IInv, PriorListed, MineNewer, CarryInv, MineCarries
      <4> QED
        BY <2>1, <2>2, <3>1, <4>1 DEF Carries
    <3>2. CASE q = p
      <4>1. i \in Created /\ file[i].key = key[p]
        BY <2>0, <3>2 DEF IInv, PriorListed
      <4>2. file'[i].rows = file[i].rows /\ file'[mine'[p]].rows = Written(p)
        BY <2>1, <2>2, <4>1
      <4>3. file[i].rows \subseteq Nat
        BY <1>f, <4>1 DEF FileRec
      <4>4. CASE mode[p] = "reconcile"
        <5>1. file[i].rows \subseteq Written(p)
          BY <2>0, <2>a, <3>2, <4>4 DEF CarryInv, ListedRead
        <5>2. \A r \in file[i].rows : r <= r
          BY <4>3
        <5> QED
          BY <3>2, <4>2, <5>1, <5>2
      <4>5. CASE mode[p] # "reconcile"
        <5>1. file[i].rows = IF key[p] \in Blank THEN {} ELSE {i}
          BY <2>0, <3>2, <4>1, <4>5 DEF CarryInv, ListedRead, PullsOwn
        <5>2. i <= e
          BY <2>1, <4>1 DEF Created
        <5> QED
          BY <2>a, <3>2, <4>2, <4>5, <5>1, <5>2
      <4> QED
        BY <4>4, <4>5
    <3> QED
      BY <3>1, <3>2
  <2>6. QuarantineSuperseded'
    <3> SUFFICES ASSUME NEW i \in Created', file'[i].at # "clean"
                 PROVE  \E j \in InClean(file[i].key)' :
                          Supersedes(j, i)' /\ (Carries(j, i)' \/ file'[i].key \in overtaken')
      BY DEF QuarantineSuperseded
    <3>1. i \in Created /\ file'[i] = file[i]
      BY <2>1
    <3>2. PICK j \in InClean(file[i].key) :
              Supersedes(j, i) /\ (Carries(j, i) \/ file[i].key \in overtaken)
      BY <3>1 DEF CarryInv, QuarantineSuperseded
    <3>3. j \in Created /\ file'[j] = file[j] /\ j \in InClean(file[i].key)'
      BY <2>1, <3>1, <3>2 DEF InClean
    <3>4. Supersedes(j, i)' /\ (Carries(j, i)' \/ file'[i].key \in overtaken')
      BY <2>0, <3>1, <3>2, <3>3 DEF Supersedes, Holds, Carries
    <3> QED
      BY <3>3, <3>4
  <2> QED
    BY <2>3, <2>4, <2>5, <2>6 DEF CarryInv
<1>8. ASSUME NEW p \in Procs, EndWrite(p) PROVE CarryInv'
  <2>1. mine[p] \in Created
    BY <1>8 DEF EndWrite, IInv, MineNewer
  <2>2. /\ FilesKept /\ Created' = Created
        /\ \A j \in Created : j # mine[p] => file'[j] = file[j]
    BY <1>t, <1>8, <2>1, Changed DEF EndWrite
  <2>3. file'[mine[p]].by = file[mine[p]].by /\ file'[mine[p]].at = file[mine[p]].at
    BY <1>t, <1>8, <2>1 DEF EndWrite, TypeOK, Created, FileRec
  <2>4. SameStanding
    BY <1>8, <2>2, <2>3 DEF SameStanding, FilesKept, EndWrite
  <2>5. \A q \in Procs : RunsOn(q)
    BY <1>8, <1>t DEF EndWrite, Goto, RunsOn, TypeOK
  <2> QED
    BY <2>4, <2>5, CarryStays
\* The file p wrote stands in for i, or the newer one that stands in for it does.
<1>9. ASSUME NEW p \in Procs, Quarantine(p) PROVE CarryInv'
  <2>1. PICK i \in prior[p] :
          /\ file' = IF file[i].at = "clean"
                       THEN [file EXCEPT ![i].at = "quarantine"] ELSE file
          /\ prior' = [prior EXCEPT ![p] = @ \ {i}]
    BY <1>9 DEF Quarantine
  <2>2. /\ i \in Created /\ mine[p] \in Created /\ i < mine[p]
        /\ file[i].key = key[p] /\ file[mine[p]].key = key[p] /\ file[mine[p]].whole
    BY <1>9 DEF Quarantine, IInv, PriorListed, MineNewer
  <2>3. /\ FilesKept /\ Created' = Created
        /\ \A j \in Created : j # i => file'[j] = file[j]
    BY <1>t, <2>1, <2>2, Changed DEF FilesKept, Created
  <2>4. file'[i].by = file[i].by
    BY <1>t, <2>1, <2>2 DEF TypeOK, Created, FileRec
  <2>5. UNCHANGED <<pc, mode, key, rows, mine, overtaken>>
    BY <1>9 DEF Quarantine
  <2>6. \A q \in Procs : prior'[q] \subseteq prior[q]
    BY <1>t, <2>1 DEF TypeOK
  <2>7. PullsOwn' /\ ModeFits'
    BY <2>3, <2>4, <2>5 DEF CarryInv, PullsOwn, ModeFits, FilesKept
  <2>8. ListedRead'
    <3> SUFFICES ASSUME NEW q \in Procs, pc[q] = "write", NEW x \in prior[q]
                 PROVE  IF mode[q] = "reconcile"
                        THEN key[q] \in overtaken \/ file'[x].rows \subseteq rows[q]
                        ELSE file'[x].by = "flatfile_pull"
      BY <2>5, <2>6 DEF ListedRead
    <3>1. x \in Created
      BY DEF IInv, PriorListed
    <3> QED
      BY <2>3, <2>4, <3>1 DEF CarryInv, ListedRead, FilesKept
  <2>9. MineCarries'
    <3> SUFFICES ASSUME NEW q \in Procs, pc[q] \in {"writing", "quarantine"},
                        NEW x \in prior[q], key[q] \notin overtaken
                 PROVE  \A r \in file'[x].rows : \E s \in file'[mine[q]].rows : r <= s
      BY <2>5, <2>6 DEF MineCarries, Carries
    <3>1. x \in Created /\ mine[q] \in Created /\ Carries(mine[q], x)
      BY DEF IInv, PriorListed, MineNewer, CarryInv, MineCarries
    <3> QED
      BY <2>3, <3>1 DEF FilesKept, Carries
  <2>10. PICK w \in InClean(key[p]) :
            w > i /\ Holds(w, key[p]) /\ (Carries(w, i) \/ key[p] \in overtaken)
    <3>0. Carries(mine[p], i) \/ key[p] \in overtaken
      BY <1>9 DEF Quarantine, CarryInv, MineCarries
    <3>1. CASE file[mine[p]].at = "clean"
      <4>1. Holds(mine[p], key[p])
        BY <2>2 DEF IInv, FilesHold, Holds
      <4> QED
        BY <3>0, <3>1, <4>1, <2>2 DEF InClean
    <3>2. CASE file[mine[p]].at # "clean"
      <4>1. PICK j \in InClean(key[p]) :
                Supersedes(j, mine[p]) /\ (Carries(j, mine[p]) \/ key[p] \in overtaken)
        BY <3>2, <2>2 DEF CarryInv, QuarantineSuperseded
      <4>2. j > i /\ Holds(j, key[p])
        BY <4>1, <2>2 DEF InClean, Created, Supersedes
      <4>3. Carries(j, i) \/ key[p] \in overtaken
        BY <1>t, <2>2, <3>0, <4>1, CarriesTransitive DEF InClean
      <4> QED
        BY <4>1, <4>2, <4>3
    <3> QED
      BY <3>1, <3>2
  <2>11. QuarantineSuperseded'
    <3> SUFFICES ASSUME NEW x \in Created, file'[x].at # "clean"
                 PROVE  \E j \in InClean(file[x].key)' :
                          Supersedes(j, x)' /\ (Carries(j, x)' \/ file'[x].key \in overtaken')
      BY <2>3 DEF QuarantineSuperseded
    <3>0. \A j \in Created : file'[j].rows = file[j].rows /\ file'[j].key = file[j].key
      BY <2>3 DEF FilesKept
    <3>w. w \in Created /\ w # i /\ file'[w] = file[w] /\ file[w].key = key[p]
      BY <2>2, <2>3, <2>10 DEF InClean, Created
    <3>1. ASSUME NEW j \in Created, j # i, j \in InClean(file[x].key), Supersedes(j, x),
                 Carries(j, x) \/ file[x].key \in overtaken
          PROVE  \E l \in InClean(file[x].key)' :
                   Supersedes(l, x)' /\ (Carries(l, x)' \/ file'[x].key \in overtaken')
      <4>1. file'[j] = file[j] /\ j \in Created'
        BY <2>3, <3>1
      <4>2. j \in InClean(file[x].key)'
        BY <3>0, <3>1, <4>1 DEF InClean
      <4>3. Supersedes(j, x)' /\ (Carries(j, x)' \/ file'[x].key \in overtaken')
        BY <2>5, <3>0, <3>1, <4>1 DEF Supersedes, Holds, Carries
      <4> QED
        BY <4>2, <4>3
    <3>2. CASE x = i
      <4>1. file[x].key = key[p] /\ Supersedes(w, x)
        BY <2>2, <2>10, <3>2 DEF Supersedes
      <4> QED
        BY <2>10, <3>1, <3>2, <3>w, <4>1
    <3>3. CASE x # i
      <4>1. file[x].at # "clean"
        BY <2>3, <3>3
      <4>2. PICK j \in InClean(file[x].key) :
                Supersedes(j, x) /\ (Carries(j, x) \/ file[x].key \in overtaken)
        BY <4>1 DEF CarryInv, QuarantineSuperseded
      <4>3. CASE j # i
        BY <3>1, <4>2, <4>3 DEF InClean
      <4>4. CASE j = i
        <5>1. file[x].key = key[p]
          BY <2>2, <4>2, <4>4 DEF InClean
        <5>2. Supersedes(w, x)
          BY <2>2, <2>10, <3>w, <4>2, <4>4, <5>1 DEF Supersedes, Created
        <5>3. Carries(w, x) \/ file[x].key \in overtaken
          BY <1>t, <2>2, <2>10, <3>w, <4>2, <4>4, <5>1, CarriesTransitive
        <5> QED
          BY <2>10, <3>1, <3>w, <5>1, <5>2, <5>3
      <4> QED
        BY <4>3, <4>4
    <3> QED
      BY <3>2, <3>3
  <2> QED
    BY <2>7, <2>8, <2>9, <2>11 DEF CarryInv
<1>10. ASSUME NEW i \in Created, PruneQuarantine(i) PROVE CarryInv'
  <2>1. /\ FilesKept /\ Created' = Created
        /\ \A j \in Created : j # i => file'[j] = file[j]
    BY <1>t, <1>10, Changed DEF PruneQuarantine
  <2>2. /\ file'[i].by = file[i].by /\ file'[i].at = "pruned"
        /\ file[i].at = "quarantine"
    BY <1>t, <1>10 DEF PruneQuarantine, TypeOK, Created, FileRec
  <2>3. SameStanding
    BY <1>10, <2>1, <2>2 DEF SameStanding, FilesKept, PruneQuarantine
  <2> QED
    BY <1>3, <1>10, <2>3 DEF PruneQuarantine, procVars
<1>11. ASSUME NEW p \in Procs, NEW k \in Keys, NEW m \in Modes, StartPull(p, k, m)
       PROVE  CarryInv'
  BY <1>1, <1>11 DEF StartPull
<1>12. ASSUME NEW p \in Procs, NEW k \in Keys, StartReconcile(p, k) PROVE CarryInv'
  BY <1>1, <1>12 DEF StartReconcile
<1>13. ASSUME NEW p \in Procs, HeadMiss(p) \/ EndQuarantine(p) \/ ReadManifest(p)
                               \/ ReplaceManifest(p) \/ Crash(p)
       PROVE  CarryInv'
  <2>1. CASE HeadMiss(p) \/ ReplaceManifest(p) \/ Crash(p)
    <3>1. pc' = [pc EXCEPT ![p] = "idle"]
      BY <2>1 DEF HeadMiss, ReplaceManifest, Crash, Goto
    <3> QED
      BY <1>2, <2>1, <3>1 DEF HeadMiss, ReplaceManifest, Crash
  <2>2. CASE EndQuarantine(p)
    <3>1. PICK at \in {"idle", "lock"} : pc' = [pc EXCEPT ![p] = at]
      BY <2>2 DEF EndQuarantine, Goto
    <3> QED
      BY <1>2, <2>2, <3>1 DEF EndQuarantine
  <2>3. CASE ReadManifest(p)
    <3>1. pc' = [pc EXCEPT ![p] = "record"]
      BY <2>3 DEF ReadManifest, Goto
    <3> QED
      BY <1>2, <2>3, <3>1 DEF ReadManifest
  <2> QED
    BY <1>13, <2>1, <2>2, <2>3
<1>14. ASSUME NEW p \in Procs, BeginDownload(p) \/ EndDownload(p) PROVE CarryInv'
  <2>1. PICK at \in {"download", "filter"} : pc' = [pc EXCEPT ![p] = at]
    BY <1>14 DEF BeginDownload, EndDownload, Goto
  <2>2. mode[p] # "reconcile"
    BY <1>14 DEF BeginDownload, EndDownload, CarryInv, ModeFits
  <2> QED
    BY <1>2, <1>14, <2>1, <2>2 DEF BeginDownload, EndDownload
<1>15. CASE PruneStart \/ (\E k \in Keys : PruneFlatfile(k)) \/ UNCHANGED vars
  <2>1. UNCHANGED <<pc, mode, key, prior, rows, mine, overtaken, file>>
    BY <1>15 DEF PruneStart, PruneFlatfile, vars, procVars
  <2> QED
    BY <1>3, <2>1, StandingSame
<1> QED
  BY <1>5, <1>6, <1>7, <1>8, <1>9, <1>10, <1>11, <1>12, <1>13, <1>14, <1>15 DEF Next, Step

LEMMA CarryInvariance == Spec => []CarryInv
  BY CarryInit, CarryStep, Invariance, PTL DEF Spec

\* Nothing leaves a partition before a newer, complete file stands in for it, and
\* that file has its rows unless reconcile listed what it had not read:
\* quarantine_prior runs after the write, on a list made before it.
THEOREM QuarantineIsSafe == Spec => []QuarantineSuperseded
<1>1. CarryInv => QuarantineSuperseded
  BY DEF CarryInv
<1> QED
  BY <1>1, CarryInvariance, PTL

-----------------------------------------------------------------------------
\* The steps that change a file or the manifest.
LEMMA FileSteps ==
  ASSUME [Next]_vars
  PROVE  \/ UNCHANGED <<file, manifest>>
         \/ \E p \in Procs : \/ BeginWrite(p) \/ EndWrite(p) \/ Quarantine(p)
                             \/ ReplaceManifest(p)
         \/ \E i \in Created : PruneQuarantine(i)
  BY DEF Next, Step, vars, StartPull, StartReconcile, Launch, HeadMiss, BeginDownload,
         EndDownload, Filter, Glob, EndQuarantine, ReadManifest, Crash, PruneStart,
         PruneFlatfile

\* The only steps the archive's readers can tell: a write ends, and a
\* manifest entry is added.
LEMMA StepMaps ==
  ASSUME IInv, IInv', [Next]_vars
  PROVE  [A!Next]_(A!vars)
<1> USE ArchiveAssumption
<1> DEFINE landed   == {k \in Keys : Landed(k)}
           recorded == {k \in Keys : manifest[k] # None}
<1>t. TypeOK /\ TypeOK'
  BY DEF IInv
<1>0. landed = {k \in Keys : Complete(k)} /\ landed' = {k \in Keys : Complete(k)'}
  <2>1. (\A k \in Keys : Complete(k) <=> Landed(k))'
    BY CompleteIsLanded, PTL
  <2> QED
    BY <2>1, CompleteIsLanded
<1>1. ASSUME UNCHANGED <<file, manifest>> PROVE UNCHANGED (A!vars)
  <2>1. landed' = landed
    BY <1>1, <1>0 DEF Complete, Created
  <2> QED
    BY <1>1, <2>1 DEF A!vars
<1>2. ASSUME NEW p \in Procs, BeginWrite(p) PROVE UNCHANGED (A!vars)
  <2> DEFINE e == Len(file) + 1
  <2>0. /\ Created' = Created \cup {e} /\ ~file'[e].whole
        /\ \A i \in Created : file'[i] = file[i]
    <3>1. /\ Created' = Created \cup {e}
          /\ \A i \in Created : file'[i] = file[i]
          /\ file'[e] = [key |-> key[p], by |-> Job(mode[p]), whole |-> FALSE,
                         at |-> "clean", rows |-> Written(p)]
      BY <1>2, <1>t, Appended
    <3> QED
      BY <3>1
  <2>1. \A k \in Keys : Complete(k)' <=> Complete(k)
    BY <2>0 DEF Complete
  <2>2. landed' = landed
    BY <2>1, <1>0
  <2> QED
    BY <1>2, <2>2 DEF A!vars, BeginWrite
<1>3. ASSUME NEW p \in Procs, NEW k \in Keys, k = key[p], EndWrite(p) PROVE A!Land(k)
  <2>1. mine[p] \in Created /\ file[mine[p]].key = key[p] /\ key[p] \in Keys
    BY <1>3, <1>t DEF EndWrite, IInv, MineNewer, TypeOK
  <2>2. /\ FilesKept /\ Created' = Created
        /\ \A j \in Created : j # mine[p] => file'[j] = file[j]
    BY <1>3, <1>t, <2>1, Changed DEF EndWrite
  <2>3. file'[mine[p]].whole
    BY <1>3, <1>t, <2>1 DEF EndWrite, TypeOK, Created, FileRec
  <2>4. \A l \in Keys : Complete(l)' <=> Complete(l) \/ l = key[p]
    BY <2>1, <2>2, <2>3 DEF Complete, FilesKept
  <2>5. landed' = landed \cup {key[p]}
    BY <2>1, <2>4, <1>0
  <2> QED
    BY <1>3, <2>5 DEF A!Land, EndWrite
<1>4. ASSUME NEW p \in Procs, NEW k \in Keys, k = key[p], ReplaceManifest(p) PROVE A!Record(k)
  <2>1. /\ copy[p] = manifest /\ Complete(key[p]) /\ key[p] \in Keys
    BY <1>4, <1>t DEF ReplaceManifest, IInv, CopyCurrent, MineNewer, Complete, TypeOK
  <2>2. landed' = landed /\ key[p] \in landed
    BY <1>4, <1>0, <2>1, FilesSame DEF ReplaceManifest, Complete
  <2>3. recorded' = recorded \cup {key[p]}
    BY <1>4, <1>t, <2>1 DEF ReplaceManifest, TypeOK
  <2> QED
    BY <1>4, <2>2, <2>3 DEF A!Record
<1>5. ASSUME NEW i \in Created, NEW a \in {"quarantine", "pruned"},
             file' = [file EXCEPT ![i].at = a], UNCHANGED manifest
      PROVE  UNCHANGED (A!vars)
  <2>1. /\ FilesKept /\ Created' = Created
        /\ \A j \in Created : j # i => file'[j] = file[j]
    BY <1>5, <1>t, Changed
  <2>2. file'[i].whole = file[i].whole
    BY <1>5, <1>t DEF TypeOK, Created, FileRec
  <2>3. \A k \in Keys : Complete(k)' <=> Complete(k)
    BY <2>1, <2>2 DEF Complete, FilesKept
  <2>4. landed' = landed
    BY <2>3, <1>0
  <2> QED
    BY <1>5, <2>4 DEF A!vars
<1>6. ASSUME NEW p \in Procs, Quarantine(p) PROVE UNCHANGED (A!vars)
  <2>1. PICK i \in prior[p] : file' = IF file[i].at = "clean"
                      THEN [file EXCEPT ![i].at = "quarantine"] ELSE file
    BY <1>6 DEF Quarantine
  <2>2. i \in Created /\ manifest' = manifest
    BY <1>6 DEF Quarantine, IInv, PriorListed
  <2> QED
    BY <2>1, <2>2, <1>1, <1>5
<1>7. ASSUME NEW i \in Created, PruneQuarantine(i) PROVE UNCHANGED (A!vars)
  BY <1>7, <1>5 DEF PruneQuarantine
<1>8. ASSUME NEW p \in Procs, EndWrite(p) \/ ReplaceManifest(p) PROVE A!Next
  <2>1. PICK k \in Keys : k = key[p]
    BY <1>t DEF TypeOK
  <2>2. A!Land(k) \/ A!Record(k)
    BY <1>8, <1>3, <1>4, <2>1
  <2> QED
    BY <2>1, <2>2 DEF A!Next
<1> QED
  BY <1>1, <1>2, <1>6, <1>7, <1>8, FileSteps

\* The archive implements its abstract specification: readable partitions stay
\* readable, and the manifest records only those and loses no entry.
THEOREM Refinement == Spec => ArchiveSpec
<1>1. Init => A!Init
  BY DEF Init, A!Init, Landed, InClean, Created
<1>2. IInv /\ IInv' /\ [Next]_vars => [A!Next]_(A!vars)
  BY StepMaps
<1> QED
  BY <1>1, <1>2, Invariance, PTL DEF Spec, ArchiveSpec, A!Spec
-----------------------------------------------------------------------------
(***************************************************************************)
(* Why a partition outside the known causes counts each row once.          *)
(* OnlyKnownDoubleCounts speaks of partitions at rest and is not           *)
(* inductive: what holds there must be carried through a run, from the     *)
(* state its start saw, over the write that briefly doubles the rows, to   *)
(* the end of its quarantine.                                              *)
(***************************************************************************)
Unwritten(p) == pc[p] \in {"head", "download", "filter", "glob", "write"}
Writes(p)    == pc[p] \in {"writing", "quarantine", "lock", "record"}

AtMostOne(S) == \A r, s \in S : r = s

\* Two runs met on a partition only if it is tangled.
Alone == \A p, q \in Procs :
    Active(p) /\ Active(q) /\ p # q /\ key[p] = key[q] => key[p] \in tangled

\* Unless a run is past the opening of its output, a partition counts its rows
\* once, and has files only if the manifest lists it.
Settled(k)  == ReadsOnce(k) /\ (InClean(k) # {} => manifest[k] # None)
Undisturbed == \A k \in Keys \ tangled :
    (\A p \in Procs : key[p] = k => ~Writes(p)) => Settled(k)

\* A run that has not opened its output: a first pull finds nothing, and what
\* replaces the files of an untangled partition lists every one of them.
Prepared(p) ==
    /\ mode[p] \in {"pull", "force"} => InClean(key[p]) = {}
    /\ mode[p] = "replace" => \A i \in InClean(key[p]) : file[i].by = "flatfile_pull"
    /\ mode[p] = "reconcile" => manifest[key[p]] # None /\ AtMostOne(rows[p])
    /\ pc[p] = "write" => prior[p] = InClean(key[p])
Preparing == \A p \in Procs : Unwritten(p) =>
    /\ mine[p] = 0
    /\ pc[p] = "glob" => mode[p] = "reconcile"
    /\ pc[p] \in {"head", "download", "filter"} => mode[p] # "reconcile"
    /\ key[p] \notin tangled => Prepared(p)

\* A run that has: its own file, and those it has yet to quarantine, are all
\* there is.
Covered(p) ==
    /\ InClean(key[p]) \subseteq prior[p] \cup {mine[p]}
    /\ AtMostOne(file[mine[p]].rows)
    /\ mode[p] = "reconcile" => manifest[key[p]] # None
Writing == \A p \in Procs : Writes(p) =>
    /\ mine[p] # 0
    /\ pc[p] \in {"lock", "record"} => prior[p] = {} /\ mode[p] # "reconcile"
    /\ key[p] \notin tangled => Covered(p)

CountInv == Alone /\ Undisturbed /\ Preparing /\ Writing

LEMMA CountInit == Init => CountInv
  BY ArchiveAssumption
  DEF Init, CountInv, Alone, Undisturbed, Preparing, Writing, Settled, ReadsOnce,
      Unwritten, Writes, Active, InClean, Created

\* What readers of the partitions can tell apart is left alone.
SameView ==
    /\ \A k \in Keys : InClean(k)' = InClean(k)
    /\ \A i \in Created : file'[i].rows = file[i].rows /\ file'[i].by = file[i].by

LEMMA SameFiles == UNCHANGED file => SameView
  BY DEF SameView, InClean, Created

LEMMA SameSettled ==
  ASSUME SameView, NEW k \in Keys, manifest[k] # None => manifest'[k] # None, Settled(k)
  PROVE  Settled(k)'
<1>1. InClean(k)' = InClean(k) /\ InClean(k) \subseteq Created
  BY DEF SameView, InClean
<1>2. \A i \in InClean(k) : file'[i].rows = file[i].rows
  BY <1>1 DEF SameView
<1> QED
  BY <1>1, <1>2 DEF Settled, ReadsOnce

\* The manifest loses no entry.
LEMMA ManifestKept ==
  ASSUME IInv, [Next]_vars
  PROVE  \A k \in Keys : manifest[k] # None => manifest'[k] # None
<1>1. ASSUME NEW p \in Procs, ReplaceManifest(p)
      PROVE  \A k \in Keys : manifest[k] # None => manifest'[k] # None
  <2>1. copy[p] = manifest /\ manifest \in [Keys -> Entry \cup {None}] /\ key[p] \in Keys
    BY <1>1 DEF ReplaceManifest, IInv, CopyCurrent, TypeOK
  <2> QED
    BY <1>1, <2>1, ArchiveAssumption DEF ReplaceManifest
<1>2. ASSUME NEW p \in Procs, BeginWrite(p) \/ EndWrite(p) \/ Quarantine(p)
      PROVE  UNCHANGED manifest
  BY <1>2 DEF BeginWrite, EndWrite, Quarantine
<1> QED
  BY <1>1, <1>2, FileSteps DEF PruneQuarantine

\* A partition no run is past opening its output in, before or after a step
\* that leaves the files alone, stays settled.
LEMMA StaysUndisturbed ==
  ASSUME CountInv, SameView, tangled \subseteq tangled',
         \A k \in Keys : manifest[k] # None => manifest'[k] # None,
         NEW k \in Keys, k \notin tangled', \A p \in Procs : key[p] = k => ~Writes(p)
  PROVE  Settled(k)'
<1>1. Settled(k)
  BY DEF CountInv, Undisturbed
<1> QED
  BY <1>1, SameSettled

LEMMA FilesTyped == TypeOK => \A i \in Created : file[i] \in FileRec
  BY DEF TypeOK, Created

LEMMA CountStep == IInv /\ CountInv /\ [Next]_vars => CountInv'
<1> SUFFICES ASSUME IInv, CountInv, [Next]_vars PROVE CountInv'
  OBVIOUS
<1> USE ArchiveAssumption
<1>t. TypeOK /\ TypeOK'
  BY TypeStep DEF IInv
<1>m. \A k \in Keys : manifest[k] # None => manifest'[k] # None
  BY ManifestKept
\* A run starts: alone on its partition, or the partition is tangled.
<1>1. ASSUME NEW p \in Procs, NEW k \in Keys, NEW m \in Modes \cup {"reconcile"},
             NEW at \in {"head", "filter", "glob"}, NEW rs \in SUBSET Nat,
             Launch(p, k, m, at, rs),
             at = "glob" <=> m = "reconcile",
             m = "pull" => manifest[k] = None,
             m = "reconcile" => rs = RowsIn(InClean(k)) /\ InClean(k) # {}
      PROVE  CountInv'
  <2>1. /\ pc[p] = "idle" /\ pc'[p] = at /\ mode'[p] = m /\ key'[p] = k
        /\ rows'[p] = rs /\ mine'[p] = 0
        /\ \A q \in Procs : q # p =>
             /\ pc'[q] = pc[q] /\ mode'[q] = mode[q] /\ key'[q] = key[q]
             /\ prior'[q] = prior[q] /\ rows'[q] = rows[q] /\ mine'[q] = mine[q]
        /\ UNCHANGED <<file, manifest>>
        /\ tangled \subseteq tangled' /\ (Tangles(p, k, m) => k \in tangled')
    BY <1>1, <1>t DEF Launch, Active, TypeOK
  <2>2. SameView
    BY <2>1, SameFiles
  <2>3. Alone'
    BY <2>1 DEF CountInv, Alone, Active, Tangles
  <2>4. Undisturbed'
    <3> SUFFICES ASSUME NEW l \in Keys, l \notin tangled',
                        \A q \in Procs : key'[q] = l => ~Writes(q)'
                 PROVE  Settled(l)'
      BY DEF Undisturbed
    <3>1. \A q \in Procs : key[q] = l => ~Writes(q)
      BY <2>1 DEF Writes
    <3> QED
      BY <1>m, <2>1, <2>2, <3>1, StaysUndisturbed
  <2>5. ASSUME k \notin tangled' PROVE Prepared(p)'
    <3>1. /\ \A q \in Procs : key[q] = k => ~Writes(q)
          /\ m = "force" => InClean(k) = {}
          /\ m = "replace" => \A i \in InClean(k) : file[i].by # "reconcile"
      BY <2>1, <2>5 DEF Tangles, Active, Writes
    <3>2. Settled(k)
      BY <2>1, <2>5, <3>1 DEF CountInv, Undisturbed
    <3>3. m \in {"pull", "force"} => InClean(k) = {}
      BY <1>1, <3>1, <3>2 DEF Settled
    <3>4. m = "reconcile" => manifest[k] # None /\ AtMostOne(rs)
      BY <1>1, <3>2 DEF Settled, ReadsOnce, RowsIn, AtMostOne
    <3>5. \A i \in InClean(k) : file[i].by \in {"flatfile_pull", "reconcile"}
      BY <1>t, FilesTyped DEF InClean, FileRec
    <3>6. m = "replace" => \A i \in InClean(k) : file[i].by = "flatfile_pull"
      BY <3>1, <3>5
    <3>7. InClean(k)' = InClean(k) /\ pc'[p] # "write"
      BY <2>1, <2>2 DEF SameView
    <3> QED
      BY <2>1, <3>3, <3>4, <3>6, <3>7 DEF Prepared
  <2>6. Preparing'
    <3> SUFFICES ASSUME NEW q \in Procs, Unwritten(q)'
                 PROVE  /\ mine'[q] = 0
                        /\ pc'[q] = "glob" => mode'[q] = "reconcile"
                        /\ pc'[q] \in {"head", "download", "filter"} =>
                             mode'[q] # "reconcile"
                        /\ key'[q] \notin tangled' => Prepared(q)'
      BY DEF Preparing
    <3>1. CASE q = p
      BY <1>1, <2>1, <2>5, <3>1
    <3>2. CASE q # p
      <4>1. Unwritten(q) /\ key[q] \in Keys /\ InClean(key[q])' = InClean(key[q])
        BY <1>t, <2>1, <2>2, <3>2 DEF Unwritten, SameView, TypeOK
      <4> QED
        BY <2>1, <3>2, <4>1 DEF CountInv, Preparing, Prepared
    <3> QED
      BY <3>1, <3>2
  <2>7. Writing'
    <3> SUFFICES ASSUME NEW q \in Procs, Writes(q)'
                 PROVE  /\ mine'[q] # 0
                        /\ pc'[q] \in {"lock", "record"} =>
                             prior'[q] = {} /\ mode'[q] # "reconcile"
                        /\ key'[q] \notin tangled' => Covered(q)'
      BY DEF Writing
    <3>1. q # p /\ Writes(q) /\ key[q] \in Keys
      BY <1>t, <2>1 DEF Writes, TypeOK
    <3>2. InClean(key[q])' = InClean(key[q])
      BY <2>1, <2>2, <3>1 DEF SameView
    <3> QED
      BY <2>1, <3>1, <3>2 DEF CountInv, Writing, Covered
  <2> QED
    BY <2>3, <2>4, <2>6, <2>7 DEF CountInv
<1>2. ASSUME NEW p \in Procs, NEW k \in Keys, NEW m \in Modes, StartPull(p, k, m)
      PROVE  CountInv'
  <2>1. PICK at \in {"head", "filter"} : Launch(p, k, m, at, {})
    BY <1>2 DEF StartPull
  <2>2. m # "reconcile" /\ (m = "pull" => manifest[k] = None)
    BY <1>2 DEF StartPull
  <2> QED
    BY <1>1, <2>1, <2>2
<1>3. ASSUME NEW p \in Procs, NEW k \in Keys, StartReconcile(p, k)
      PROVE  CountInv'
  <2> DEFINE rs == RowsIn(InClean(k))
  <2>1. Launch(p, k, "reconcile", "glob", rs) /\ InClean(k) # {}
    BY <1>3 DEF StartReconcile, RowsIn
  <2>2. rs \in SUBSET Nat
    <3>1. \A i \in InClean(k) : file[i].rows \subseteq Nat
      BY <1>t, FilesTyped DEF InClean, FileRec
    <3> QED
      BY <3>1 DEF RowsIn
  <2> QED
    BY <1>1, <2>1, <2>2
\* A step that leaves the files alone, and the run where it was or before its
\* output.
<1>4. ASSUME NEW p \in Procs, SameView, UNCHANGED <<mode, key, rows, mine>>,
             tangled \subseteq tangled',
             \A q \in Procs : q # p => pc'[q] = pc[q] /\ prior'[q] = prior[q],
             Active(p)' => Active(p),
             Writes(p) /\ ~Writes(p)' =>
               key[p] \in tangled' \/ \A k \in Keys : k = key[p] => Settled(k)',
             Unwritten(p)' =>
               /\ Unwritten(p)
               /\ pc'[p] = "glob" => pc[p] = "glob"
               /\ pc'[p] \in {"head", "download", "filter"} =>
                    pc[p] \in {"head", "download", "filter"}
               /\ key[p] \notin tangled /\ pc'[p] = "write" =>
                    prior'[p] = InClean(key[p]),
             Writes(p)' =>
               /\ Writes(p)
               /\ UNCHANGED prior
               /\ pc'[p] \in {"lock", "record"} => prior[p] = {} /\ mode[p] # "reconcile"
      PROVE  CountInv'
  <2>1. Alone'
    BY <1>4 DEF CountInv, Alone, Active
  <2>2. Undisturbed'
    <3> SUFFICES ASSUME NEW l \in Keys, l \notin tangled',
                        \A q \in Procs : key'[q] = l => ~Writes(q)'
                 PROVE  Settled(l)'
      BY DEF Undisturbed
    <3>1. CASE key[p] = l /\ Writes(p)
      BY <1>4, <3>1
    <3>2. CASE ~(key[p] = l /\ Writes(p))
      <4>1. \A q \in Procs : key[q] = l => ~Writes(q)
        BY <1>4, <3>2 DEF Writes
      <4> QED
        BY <1>4, <1>m, <4>1, StaysUndisturbed
    <3> QED
      BY <3>1, <3>2
  <2>3. \A q \in Procs : key[q] \in Keys /\ InClean(key[q])' = InClean(key[q])
    BY <1>4, <1>t DEF SameView, TypeOK
  <2>4. \A q \in Procs : \A i \in InClean(key[q]) : file'[i].by = file[i].by
    BY <1>4 DEF SameView, InClean
  <2>5. Preparing'
    <3> SUFFICES ASSUME NEW q \in Procs, Unwritten(q)'
                 PROVE  /\ mine[q] = 0
                        /\ pc'[q] = "glob" => mode[q] = "reconcile"
                        /\ pc'[q] \in {"head", "download", "filter"} =>
                             mode[q] # "reconcile"
                        /\ key[q] \notin tangled' => Prepared(q)'
      BY <1>4 DEF Preparing
    <3>1. Unwritten(q)
      BY <1>4 DEF Unwritten
    <3>2. ASSUME key[q] \notin tangled' PROVE Prepared(q)'
      <4>1. Prepared(q) /\ key[q] \notin tangled
        BY <1>4, <3>1, <3>2 DEF CountInv, Preparing
      <4>2. pc'[q] = "write" => prior'[q] = InClean(key[q])
        BY <1>4, <4>1 DEF Prepared
      <4> QED
        BY <1>4, <1>m, <2>3, <2>4, <4>1, <4>2 DEF Prepared
    <3> QED
      BY <1>4, <3>1, <3>2 DEF CountInv, Preparing
  <2>6. Writing'
    <3> SUFFICES ASSUME NEW q \in Procs, Writes(q)'
                 PROVE  /\ mine[q] # 0
                        /\ pc'[q] \in {"lock", "record"} =>
                             prior'[q] = {} /\ mode[q] # "reconcile"
                        /\ key[q] \notin tangled' => Covered(q)'
      BY <1>4 DEF Writing
    <3>1. Writes(q) /\ prior'[q] = prior[q]
      BY <1>4 DEF Writes
    <3>2. mine[q] \in Created
      BY <3>1 DEF IInv, MineNewer, Writes
    <3>3. file'[mine[q]].rows = file[mine[q]].rows
      BY <1>4, <3>2 DEF SameView
    <3> QED
      BY <1>4, <1>m, <2>3, <3>1, <3>3 DEF CountInv, Writing, Covered
  <2> QED
    BY <2>1, <2>2, <2>5, <2>6 DEF CountInv
<1>5. ASSUME NEW p \in Procs,
             HeadMiss(p) \/ BeginDownload(p) \/ EndDownload(p) \/ Filter(p) \/ Glob(p)
      PROVE  CountInv'
  <2>1. /\ UNCHANGED <<file, mode, key, rows, mine, tangled>>
        /\ Unwritten(p) /\ ~Writes(p) /\ Active(p) /\ ~Writes(p)'
        /\ \A q \in Procs : q # p => pc'[q] = pc[q] /\ prior'[q] = prior[q]
    BY <1>5, <1>t DEF HeadMiss, BeginDownload, EndDownload, Filter, Glob, Goto, TypeOK,
                      Unwritten, Writes, Active
  <2>2. \/ pc'[p] = "idle"
        \/ pc[p] = "head" /\ pc'[p] = "download"
        \/ pc[p] = "download" /\ pc'[p] = "filter"
        \/ (Filter(p) \/ Glob(p)) /\ pc'[p] = "write"
    BY <1>5, <1>t DEF HeadMiss, BeginDownload, EndDownload, Filter, Glob, Goto, TypeOK
  <2>3. ASSUME key[p] \notin tangled, pc'[p] = "write" PROVE prior'[p] = InClean(key[p])
    <3>1. CASE Glob(p)
      BY <1>t, <3>1 DEF Glob, TypeOK
    <3>2. CASE Filter(p)
      <4>1. /\ prior'[p] = IF mode[p] = "replace"
                             THEN {i \in InClean(key[p]) : file[i].by = "flatfile_pull"}
                             ELSE {}
            /\ pc[p] = "filter"
        BY <1>t, <2>3, <3>2 DEF Filter, Goto, TypeOK
      <4>2. mode[p] # "reconcile" /\ Prepared(p)
        BY <2>3, <4>1 DEF CountInv, Preparing, Unwritten
      <4>3. mode[p] \in {"pull", "replace", "force"}
        BY <1>t, <4>2 DEF TypeOK
      <4> QED
        BY <4>1, <4>2, <4>3 DEF Prepared
    <3> QED
      BY <1>5, <2>2, <2>3, <3>1, <3>2
  <2>4. SameView
    BY <2>1, SameFiles
  <2>5. Unwritten(p)' =>
               /\ pc'[p] = "glob" => pc[p] = "glob"
               /\ pc'[p] \in {"head", "download", "filter"} =>
                    pc[p] \in {"head", "download", "filter"}
    BY <2>2 DEF Unwritten
  <2> QED
    BY <1>4, <2>1, <2>3, <2>4, <2>5
<1>6. ASSUME NEW p \in Procs, BeginWrite(p) PROVE CountInv'
  <2> DEFINE e == Len(file) + 1
             k == key[p]
  <2>0. /\ pc[p] = "write" /\ pc'[p] = "writing" /\ mine'[p] = e
        /\ UNCHANGED <<manifest, mode, key, prior, rows, tangled>>
        /\ \A q \in Procs : q # p => pc'[q] = pc[q] /\ mine'[q] = mine[q]
    BY <1>6, <1>t DEF BeginWrite, Goto, TypeOK
  <2>1. /\ Created' = Created \cup {e} /\ e \in Nat /\ e # 0
        /\ \A i \in Created : file'[i] = file[i]
        /\ file'[e].key = k /\ file'[e].rows = Written(p)
    <3>1. e \in Nat /\ e # 0
      BY <1>t DEF TypeOK
    <3>2. /\ Created' = Created \cup {e}
          /\ \A i \in Created : file'[i] = file[i]
          /\ file'[e] = [key |-> key[p], by |-> Job(mode[p]), whole |-> FALSE,
                         at |-> "clean", rows |-> Written(p)]
      BY <1>6, <1>t, Appended
    <3> QED
      BY <3>1, <3>2
  <2>2. InClean(k)' \subseteq InClean(k) \cup {e}
    BY <2>0, <2>1 DEF InClean
  <2>3. \A l \in Keys : l # k => InClean(l)' = InClean(l)
    BY <1>t, <2>1, SMTT(30) DEF InClean, Created, TypeOK
  <2>4. \A q \in Procs : q # p /\ Active(q) /\ key[q] = k => k \in tangled
    BY <2>0 DEF CountInv, Alone, Active
  <2>5. Alone'
    BY <2>0 DEF CountInv, Alone, Active
  <2>6. Undisturbed'
    <3> SUFFICES ASSUME NEW l \in Keys, l \notin tangled,
                        \A q \in Procs : key[q] = l => ~Writes(q)'
                 PROVE  Settled(l)'
      BY <2>0 DEF Undisturbed
    <3>1. l # k /\ \A q \in Procs : key[q] = l => ~Writes(q)
      BY <2>0 DEF Writes
    <3>2. Settled(l)
      BY <3>1 DEF CountInv, Undisturbed
    <3>3. \A i \in InClean(l) : file'[i] = file[i]
      BY <2>1 DEF InClean
    <3> QED
      BY <2>0, <2>3, <3>1, <3>2, <3>3 DEF Settled, ReadsOnce
  <2>7. Preparing'
    <3> SUFFICES ASSUME NEW q \in Procs, Unwritten(q)'
                 PROVE  /\ mine'[q] = 0
                        /\ pc'[q] = "glob" => mode[q] = "reconcile"
                        /\ pc'[q] \in {"head", "download", "filter"} =>
                             mode[q] # "reconcile"
                        /\ key[q] \notin tangled => Prepared(q)'
      BY <2>0 DEF Preparing
    <3>1. q # p /\ Unwritten(q) /\ Active(q) /\ key[q] \in Keys
      BY <1>t, <2>0 DEF Unwritten, Active, TypeOK
    <3>2. ASSUME key[q] \notin tangled PROVE Prepared(q)'
      <4>1. key[q] # k /\ InClean(key[q])' = InClean(key[q])
        BY <2>0, <2>3, <2>4, <3>1, <3>2
      <4>2. \A i \in InClean(key[q]) : file'[i] = file[i]
        BY <2>1 DEF InClean
      <4> QED
        BY <2>0, <3>1, <3>2, <4>1, <4>2 DEF CountInv, Preparing, Prepared
    <3> QED
      BY <2>0, <3>1, <3>2 DEF CountInv, Preparing
  <2>8. k \notin tangled => Covered(p)'
    <3> SUFFICES ASSUME k \notin tangled PROVE Covered(p)'
      OBVIOUS
    <3>1. Prepared(p) /\ mode[p] \in {"pull", "replace", "force", "reconcile"}
      BY <1>t, <2>0 DEF CountInv, Preparing, Unwritten, TypeOK
    <3>2. InClean(k)' \subseteq prior[p] \cup {e}
      BY <2>0, <2>2, <3>1 DEF Prepared
    <3>3. AtMostOne(Written(p))
      BY <3>1 DEF Prepared, Written, AtMostOne
    <3> QED
      BY <2>0, <2>1, <3>1, <3>2, <3>3 DEF Covered, Prepared
  <2>9. Writing'
    <3> SUFFICES ASSUME NEW q \in Procs, Writes(q)'
                 PROVE  /\ mine'[q] # 0
                        /\ pc'[q] \in {"lock", "record"} =>
                             prior[q] = {} /\ mode[q] # "reconcile"
                        /\ key[q] \notin tangled => Covered(q)'
      BY <2>0 DEF Writing
    <3>1. CASE q = p
      BY <2>0, <2>1, <2>8, <3>1
    <3>2. CASE q # p
      <4>1. Writes(q) /\ Active(q) /\ key[q] \in Keys
        BY <1>t, <2>0, <3>2 DEF Writes, Active, TypeOK
      <4>2. mine[q] \in Created /\ file'[mine[q]] = file[mine[q]]
        BY <2>1, <4>1 DEF IInv, MineNewer, Writes
      <4>3. key[q] \notin tangled => InClean(key[q])' = InClean(key[q])
        BY <2>0, <2>3, <2>4, <3>2, <4>1
      <4> QED
        BY <2>0, <3>2, <4>1, <4>2, <4>3 DEF CountInv, Writing, Covered
    <3> QED
      BY <3>1, <3>2
  <2> QED
    BY <2>5, <2>6, <2>7, <2>9 DEF CountInv
<1>7. ASSUME NEW i \in Created,
             \/ file' = [file EXCEPT ![i].whole = TRUE]
             \/ file[i].at # "clean" /\ file' = [file EXCEPT ![i].at = "pruned"]
      PROVE  SameView
  <2>1. /\ Created' = Created
        /\ \A j \in Created : j # i => file'[j] = file[j]
    BY <1>7, <1>t, Changed
  <2>2. file[i] \in FileRec /\ file \in Seq(FileRec)
    BY <1>t, FilesTyped DEF TypeOK
  <2>3. /\ file'[i].key = file[i].key /\ file'[i].by = file[i].by
        /\ file'[i].rows = file[i].rows
        /\ file'[i].at = "clean" <=> file[i].at = "clean"
    BY <1>7, <2>2 DEF FileRec, Created
  <2> QED
    BY <2>1, <2>3 DEF SameView, InClean
<1>8. ASSUME NEW p \in Procs, EndWrite(p) PROVE CountInv'
  <2>1. mine[p] \in Created
    BY <1>8 DEF EndWrite, IInv, MineNewer
  <2>2. SameView
    BY <1>7, <1>8, <2>1 DEF EndWrite
  <2>3. /\ UNCHANGED <<mode, key, prior, rows, mine, tangled>>
        /\ pc[p] = "writing" /\ pc'[p] = "quarantine"
        /\ \A q \in Procs : q # p => pc'[q] = pc[q]
    BY <1>8, <1>t DEF EndWrite, Goto, TypeOK
  <2> QED
    BY <1>4, <2>2, <2>3 DEF Active, Writes, Unwritten
\* A file that a run moves out is one it lists.
<1>9. ASSUME NEW p \in Procs, Quarantine(p) PROVE CountInv'
  <2>1. PICK i \in prior[p] :
          /\ file' = IF file[i].at = "clean"
                       THEN [file EXCEPT ![i].at = "quarantine"] ELSE file
          /\ prior' = [prior EXCEPT ![p] = @ \ {i}]
    BY <1>9 DEF Quarantine
  <2>2. /\ pc[p] = "quarantine" /\ UNCHANGED <<manifest, pc, mode, key, rows, mine, tangled>>
        /\ prior'[p] = prior[p] \ {i}
        /\ \A q \in Procs : q # p => prior'[q] = prior[q]
    BY <1>9, <1>t, <2>1 DEF Quarantine, TypeOK
  <2>3. i \in Created /\ file[i].key = key[p] /\ file[i] \in FileRec
    BY <1>9, <1>t, FilesTyped DEF Quarantine, IInv, PriorListed
  <2>4. /\ FilesKept /\ Created' = Created
        /\ \A j \in Created : j # i => file'[j] = file[j]
    BY <1>t, <2>1, <2>3, Changed DEF FilesKept, Created
  <2>5. file'[i].at # "clean" /\ file'[i].by = file[i].by
    BY <1>t, <2>1, <2>3 DEF TypeOK, FileRec, Created
  <2>6. \A l \in Keys : InClean(l)' = InClean(l) \ {i}
    BY <2>4, <2>5 DEF InClean, FilesKept
  <2>7. \A l \in Keys : l # key[p] => InClean(l)' = InClean(l)
    BY <2>3, <2>6 DEF InClean
  <2>8. \A q \in Procs : q # p /\ Active(q) /\ key[q] = key[p] => key[p] \in tangled
    BY <2>2 DEF CountInv, Alone, Active
  <2>9. \A j \in Created : file'[j].rows = file[j].rows /\ file'[j].by = file[j].by
    BY <2>4, <2>5 DEF FilesKept
  <2>10. Alone'
    BY <2>2 DEF CountInv, Alone, Active
  <2>11. Undisturbed'
    <3> SUFFICES ASSUME NEW l \in Keys, l \notin tangled,
                        \A q \in Procs : key[q] = l => ~Writes(q)
                 PROVE  Settled(l)'
      BY <2>2 DEF Undisturbed, Writes
    <3>1. l # key[p] /\ InClean(l)' = InClean(l) /\ InClean(l) \subseteq Created
      BY <2>2, <2>7 DEF Writes, InClean
    <3>2. Settled(l)
      BY DEF CountInv, Undisturbed
    <3>3. \A j \in InClean(l) : file'[j].rows = file[j].rows
      BY <2>9, <3>1
    <3> QED
      BY <2>2, <3>1, <3>2, <3>3 DEF Settled, ReadsOnce
  <2>12. Preparing'
    <3> SUFFICES ASSUME NEW q \in Procs, Unwritten(q), key[q] \notin tangled
                 PROVE  Prepared(q)'
      BY <2>2 DEF CountInv, Preparing, Unwritten
    <3>1. q # p /\ Active(q) /\ key[q] \in Keys
      BY <1>t, <2>2 DEF Unwritten, Active, TypeOK
    <3>2. key[q] # key[p] /\ InClean(key[q])' = InClean(key[q])
      BY <2>2, <2>7, <2>8, <3>1
    <3>3. \A j \in InClean(key[q]) : file'[j].by = file[j].by
      BY <2>9 DEF InClean
    <3> QED
      BY <2>2, <3>1, <3>2, <3>3 DEF CountInv, Preparing, Prepared
  <2>13. Writing'
    <3> SUFFICES ASSUME NEW q \in Procs, Writes(q)
                 PROVE  /\ pc[q] \in {"lock", "record"} => prior'[q] = {}
                        /\ key[q] \notin tangled => Covered(q)'
      BY <2>2 DEF CountInv, Writing, Writes
    <3>1. mine[q] \in Created /\ key[q] \in Keys /\ Active(q)
      BY <1>t DEF IInv, MineNewer, Writes, TypeOK, Active
    <3>2. file'[mine[q]].rows = file[mine[q]].rows
      BY <2>9, <3>1
    <3>3. pc[q] \in {"lock", "record"} => prior'[q] = {}
      BY <2>2 DEF CountInv, Writing
    <3>4. ASSUME key[q] \notin tangled PROVE Covered(q)'
      <4>1. Covered(q)
        BY <3>4 DEF CountInv, Writing
      <4>2. InClean(key[q])' = InClean(key[q]) \ {i}
        BY <2>2, <2>6, <3>1
      <4>3. CASE q = p
        BY <2>2, <3>2, <4>1, <4>2, <4>3 DEF Covered
      <4>4. CASE q # p
        BY <2>2, <3>2, <4>1, <4>2, <4>4 DEF Covered
      <4> QED
        BY <4>3, <4>4
    <3> QED
      BY <3>3, <3>4
  <2> QED
    BY <2>10, <2>11, <2>12, <2>13 DEF CountInv
\* A run ends with its own file alone in the partition, and listed.
<1>10. ASSUME NEW p \in Procs, NEW k \in Keys, k = key[p], k \notin tangled, Writes(p),
              prior[p] = {}, SameView, manifest'[k] # None
       PROVE  Settled(k)'
  <2>1. Covered(p)
    BY <1>10 DEF CountInv, Writing
  <2>2. InClean(k) \subseteq {mine[p]} /\ AtMostOne(file[mine[p]].rows)
    BY <1>10, <2>1 DEF Covered
  <2>3. InClean(k)' = InClean(k) /\ InClean(k) \subseteq {mine[p]}
    BY <1>10, <2>2 DEF SameView
  <2>4. \A i \in InClean(k) : i \in Created /\ file'[i].rows = file[mine[p]].rows
    BY <1>10, <2>3 DEF SameView, InClean
  <2> QED
    BY <1>10, <2>2, <2>3, <2>4 DEF Settled, ReadsOnce, AtMostOne
<1>11. ASSUME NEW p \in Procs, EndQuarantine(p) PROVE CountInv'
  <2>1. /\ UNCHANGED <<file, manifest, mode, key, prior, rows, mine, tangled>>
        /\ pc[p] = "quarantine" /\ prior[p] = {}
        /\ pc'[p] = IF mode[p] = "reconcile" THEN "idle" ELSE "lock"
        /\ \A q \in Procs : q # p => pc'[q] = pc[q]
    BY <1>11, <1>t DEF EndQuarantine, Goto, TypeOK
  <2>2. SameView
    BY <2>1, SameFiles
  <2>3. ASSUME ~Writes(p)', NEW k \in Keys, k = key[p], k \notin tangled
        PROVE  Settled(k)'
    <3>1. Writes(p) /\ mode[p] = "reconcile"
      BY <2>1, <2>3 DEF Writes
    <3>2. manifest'[k] # None
      BY <2>1, <2>3, <3>1 DEF CountInv, Writing, Covered
    <3> QED
      BY <1>10, <2>1, <2>2, <2>3, <3>1, <3>2
  <2> QED
    BY <1>4, <2>1, <2>2, <2>3 DEF Active, Writes, Unwritten
<1>12. ASSUME NEW p \in Procs, ReadManifest(p) PROVE CountInv'
  <2>1. /\ UNCHANGED <<file, mode, key, prior, rows, mine, tangled>>
        /\ pc[p] = "lock" /\ pc'[p] = "record"
        /\ \A q \in Procs : q # p => pc'[q] = pc[q]
    BY <1>12, <1>t DEF ReadManifest, Goto, TypeOK
  <2>2. SameView
    BY <2>1, SameFiles
  <2>3. prior[p] = {} /\ mode[p] # "reconcile"
    BY <2>1 DEF CountInv, Writing, Writes
  <2> QED
    BY <1>4, <2>1, <2>2, <2>3 DEF Active, Writes, Unwritten
<1>13. ASSUME NEW p \in Procs, ReplaceManifest(p) PROVE CountInv'
  <2>1. /\ UNCHANGED <<file, mode, key, prior, rows, mine, tangled>>
        /\ pc[p] = "record" /\ pc'[p] = "idle"
        /\ \A q \in Procs : q # p => pc'[q] = pc[q]
    BY <1>13, <1>t DEF ReplaceManifest, Goto, TypeOK
  <2>2. SameView
    BY <2>1, SameFiles
  <2>3. manifest'[key[p]] # None
    <3>1. copy[p] \in [Keys -> Entry \cup {None}] /\ key[p] \in Keys
      BY <1>t DEF TypeOK
    <3> QED
      BY <1>13, <3>1 DEF ReplaceManifest
  <2>4. Writes(p) /\ prior[p] = {}
    BY <2>1 DEF CountInv, Writing, Writes
  <2>5. ASSUME NEW k \in Keys, k = key[p], k \notin tangled PROVE Settled(k)'
    BY <1>10, <2>2, <2>3, <2>4, <2>5
  <2> QED
    BY <1>4, <2>1, <2>2, <2>5 DEF Active, Writes, Unwritten
\* A run that dies past the opening of its output tangles its partition.
<1>14. ASSUME NEW p \in Procs, Crash(p) PROVE CountInv'
  <2>1. /\ UNCHANGED <<file, mode, key, prior, rows, mine>>
        /\ Active(p) /\ pc'[p] = "idle"
        /\ tangled \subseteq tangled' /\ (mine[p] # 0 => key[p] \in tangled')
        /\ \A q \in Procs : q # p => pc'[q] = pc[q]
    BY <1>14, <1>t DEF Crash, Goto, TypeOK
  <2>2. SameView
    BY <2>1, SameFiles
  <2>3. Writes(p) => key[p] \in tangled'
    BY <2>1 DEF CountInv, Writing
  <2> QED
    BY <1>4, <2>1, <2>2, <2>3 DEF Active, Writes, Unwritten
<1>15. ASSUME SameView, UNCHANGED <<procVars, tangled>> PROVE CountInv'
  <2>1. ASSUME NEW p \in Procs PROVE CountInv'
    BY <1>4, <1>15, <2>1 DEF procVars, CountInv, Preparing, Prepared, Writing, Active,
                             Unwritten, Writes
  <2>2. CASE Procs = {}
    <3>1. Undisturbed'
      BY <1>m, <1>15, <2>2, StaysUndisturbed DEF Undisturbed
    <3> QED
      BY <2>2, <3>1 DEF CountInv, Alone, Preparing, Writing
  <2> QED
    BY <2>1, <2>2
<1>16. ASSUME UNCHANGED <<file, procVars, tangled>> PROVE CountInv'
  BY <1>15, <1>16, SameFiles
<1>17. ASSUME NEW i \in Created, PruneQuarantine(i) PROVE CountInv'
  BY <1>7, <1>15, <1>17 DEF PruneQuarantine
<1>18. CASE PruneStart \/ UNCHANGED vars
  BY <1>16, <1>18 DEF PruneStart, vars
<1>19. ASSUME NEW k \in Keys, PruneFlatfile(k) PROVE CountInv'
  BY <1>16, <1>19 DEF PruneFlatfile
<1> QED
  BY <1>2, <1>3, <1>5, <1>6, <1>8, <1>9, <1>11, <1>12, <1>13, <1>14, <1>17, <1>18, <1>19
  DEF Next, Step

LEMMA CountInvariance == Spec => []CountInv
  BY CountInit, CountStep, Invariance, PTL DEF Spec

\* At rest, a partition no known cause has tangled counts each row once: a
\* first pull finds it empty, and a rewrite or reconcile lists, after reading
\* and before writing, all that its own file replaces.
THEOREM DoubleCountsAreKnown == Spec => []OnlyKnownDoubleCounts
<1>1. CountInv => OnlyKnownDoubleCounts
  BY DEF CountInv, Undisturbed, Settled, OnlyKnownDoubleCounts, AtRest, Active, Writes
<1> QED
  BY <1>1, CountInvariance, PTL

-----------------------------------------------------------------------------
(***************************************************************************)
(* CoverageAudit: days around a date.                                      *)
(***************************************************************************)
\* Days without closures have sessions among them.
LEMMA WeekdayNear == \A d \in Int : Weekday(d - 1) \/ Weekday(d - 2) \/ Weekday(d - 3)
  BY DEF Weekday

LEMMA MaxOfInterval ==
    ASSUME NEW d \in Int, NEW S, S \subseteq d - 7 .. d - 1, S # {}
    PROVE  Max(S) \in S
<1> DEFINE P(x) == \A y \in S : x >= y
<1>1. \E x \in S : P(x)
  <2>1. \A x \in S : x \in d - 7 .. d - 1
    OBVIOUS
  <2> DEFINE T(k) == \E x \in S : x = d - k
  <2>2. CASE T(1)
    BY <2>1, <2>2
  <2>3. CASE ~T(1) /\ T(2)
    BY <2>1, <2>3
  <2>4. CASE ~T(1) /\ ~T(2) /\ T(3)
    BY <2>1, <2>4
  <2>5. CASE ~T(1) /\ ~T(2) /\ ~T(3) /\ T(4)
    BY <2>1, <2>5
  <2>6. CASE ~T(1) /\ ~T(2) /\ ~T(3) /\ ~T(4) /\ T(5)
    BY <2>1, <2>6
  <2>7. CASE ~T(1) /\ ~T(2) /\ ~T(3) /\ ~T(4) /\ ~T(5) /\ T(6)
    BY <2>1, <2>7
  <2>8. CASE ~T(1) /\ ~T(2) /\ ~T(3) /\ ~T(4) /\ ~T(5) /\ ~T(6)
    <3>1. \A x \in S : x = d - 7
      BY <2>1, <2>8
    <3>2. PICK x \in S : x = d - 7
      BY <3>1
    <3> QED
      BY <3>1, <3>2
  <2> QED
    BY <2>2, <2>3, <2>4, <2>5, <2>6, <2>7, <2>8
<1>2. Max(S) = CHOOSE x \in S : P(x)
  BY DEF Max
<1> QED
  BY <1>1, <1>2

LEMMA TradingDayNear ==
    ASSUME cal \in Calendars, NEW d \in Int, d <= LastDay + 1
    PROVE  \E e \in d - 7 .. d - 1 : Weekday(e) /\ e \notin cal.closed
<1> USE AuditAssumption
<1>1. CASE d >= 2
  <2>1. d \in 2..LastDay + 1
    BY <1>1
  <2> QED
    BY <2>1, ZenonT(40) DEF Weekday
<1>2. CASE d < 2
  <2>1. \A e \in d - 7 .. d - 1 : e \notin cal.closed
    BY <1>2
  <2>2. /\ d - 1 \in d - 7 .. d - 1 /\ d - 2 \in d - 7 .. d - 1 /\ d - 3 \in d - 7 .. d - 1
    OBVIOUS
  <2> QED
    BY <2>1, <2>2, WeekdayNear, ZenonT(40)
<1> QED
  BY <1>1, <1>2

LEMMA PreviousIsBefore ==
    ASSUME cal \in Calendars, NEW d \in Int, d <= LastDay + 1
    PROVE  /\ PreviousTradingDay(d) \in d - 7 .. d - 1
           /\ PreviousSession(d) \in d - 7 .. d - 1
<1>1. PICK e \in d - 7 .. d - 1 : Weekday(e) /\ e \notin cal.closed
  BY TradingDayNear
<1>2. e \in {x \in d - 7 .. d - 1 : IsTradingDay(x)}
  BY <1>1 DEF IsTradingDay, StillListed
<1>3. e \in {x \in d - 7 .. d - 1 : IsSession(x)}
  BY <1>1 DEF IsSession
<1> HIDE DEF IsTradingDay, IsSession
<1>4. PreviousTradingDay(d) \in {x \in d - 7 .. d - 1 : IsTradingDay(x)}
  <2> DEFINE S == {x \in d - 7 .. d - 1 : IsTradingDay(x)}
  <2>1. S \subseteq d - 7 .. d - 1 /\ S # {}
    BY <1>2
  <2> HIDE DEF S
  <2>2. Max(S) \in S
    BY <2>1, MaxOfInterval
  <2> QED
    BY <2>2 DEF S, PreviousTradingDay
<1>5. PreviousSession(d) \in {x \in d - 7 .. d - 1 : IsSession(x)}
  <2> DEFINE S == {x \in d - 7 .. d - 1 : IsSession(x)}
  <2>1. S \subseteq d - 7 .. d - 1 /\ S # {}
    BY <1>3
  <2> HIDE DEF S
  <2>2. Max(S) \in S
    BY <2>1, MaxOfInterval
  <2> QED
    BY <2>2 DEF S, PreviousSession
<1> QED
  BY <1>4, <1>5

-----------------------------------------------------------------------------
(***************************************************************************)
(* Partitions.                                                             *)
(***************************************************************************)
Writers == DOMAIN Output \cup {"flatfile_pull", "sweep", "backfill_underlying"}
FilesFormed(files) == files \in Seq(ToSet(files)) /\ \A f \in ToSet(files) : f.by \in Writers
PartTyped ==
    /\ part = [d \in Days |-> [ds \in DATASETS |-> part[d][ds]]]
    /\ \A d \in Days, ds \in DATASETS : FilesFormed(part[d][ds])

\* A sequence is one of its own elements.
LEMMA Rescoped ==
    ASSUME NEW S, NEW T, NEW s \in Seq(S), \A i \in 1..Len(s) : s[i] \in T
    PROVE  s \in Seq(T)
<1>1. PICK n \in Nat : s \in [1..n -> S]
  BY SeqDef
<1>2. Len(s) = n
  BY <1>1
<1>3. s \in [1..n -> T]
  BY <1>1, <1>2
<1> QED
  BY <1>3, SeqDef

LEMMA NoFilesFormed == FilesFormed(<<>>)
  BY DEF FilesFormed, ToSet

LEMMA FilesJoined ==
    ASSUME NEW s, NEW t, FilesFormed(s), FilesFormed(t)
    PROVE  FilesFormed(s \o t) /\ (s \o t = <<>> => s = <<>> /\ t = <<>>)
<1> DEFINE S == ToSet(s) \cup ToSet(t)
<1>1. s \in Seq(S) /\ t \in Seq(S)
  BY DEF FilesFormed, ToSet
<1>2. s \o t \in Seq(S) /\ Len(s \o t) = Len(s) + Len(t)
  BY <1>1
<1>3. \A i \in 1..Len(s \o t) : (s \o t)[i] \in S
  BY <1>2
<1>4. DOMAIN (s \o t) = 1..Len(s \o t)
  BY <1>2
<1>5. s \o t \in Seq(ToSet(s \o t))
  <2> DEFINE u == s \o t
  <2>1. u \in Seq(S) /\ DOMAIN u = 1..Len(u)
    BY <1>2, <1>4
  <2>2. \A i \in 1..Len(u) : u[i] \in ToSet(u)
    BY <2>1 DEF ToSet
  <2> HIDE DEF u, S
  <2> QED
    BY <2>1, <2>2, Rescoped DEF u
<1>6. \A f \in ToSet(s \o t) : f \in S
  BY <1>3, <1>4 DEF ToSet
<1>7. s \o t = <<>> => s = <<>> /\ t = <<>>
  BY <1>1, <1>2
<1> QED
  BY <1>5, <1>6, <1>7 DEF FilesFormed

LEMMA OneFileTyped ==
    ASSUME NEW f, f.by \in Writers PROVE FilesFormed(<<f>>) /\ <<f>> # <<>>
  BY DEF FilesFormed, ToSet

LEMMA TwoFilesFormed ==
    ASSUME NEW f, f.by \in Writers PROVE FilesFormed(<<f, f>>)
  BY DEF FilesFormed, ToSet

LEMMA FileAppended ==
    ASSUME NEW s, FilesFormed(s), NEW f, f.by \in Writers
    PROVE  FilesFormed(Append(s, f)) /\ Append(s, f) # <<>>
<1>1. s \in Seq(ToSet(s) \cup {f}) /\ f \in ToSet(s) \cup {f}
  BY DEF FilesFormed, ToSet
<1>2. Append(s, f) = s \o <<f>>
  BY <1>1
<1>3. FilesFormed(<<f>>) /\ <<f>> # <<>>
  BY OneFileTyped
<1> QED
  BY <1>2, <1>3, FilesJoined
-----------------------------------------------------------------------------
(***************************************************************************)
(* Types are kept.  Empty partitions are where a hole in the history is:   *)
(* no step makes one.                                                      *)
(***************************************************************************)
ClockTyped  == day \in Days /\ slot \in 1..Len(Timetable) /\ cal \in Calendars
KeptTyped   == kept \in [Days -> [FLATFILES -> {NoRow, 0, Rows}]]
StampsTyped == stamps \in [Days -> SUBSET ((0..1439) \X EXPECTED_ROOTS)]
CurveTyped  == curve \in Int /\ curve < day /\ curveTorn \in BOOLEAN
FaultsTyped ==
    /\ down \in {"none", "flatfile_pull", "rates_sync", "backfill_underlying"}
                  \cup DOMAIN Output \cup SWEEP_OUTAGE
    /\ faults \in 0..MaxFaults
Verdicts(S) == \A f \in S : f[2] \in {"WARN", "FAIL"}
ReportTyped ==
    /\ gaps \subseteq Days /\ flagged \subseteq Days
    /\ report.of \in {0} \cup Days /\ Verdicts(report.findings)
Typed == /\ ClockTyped /\ PartTyped /\ KeptTyped /\ StampsTyped /\ CurveTyped
         /\ FaultsTyped /\ ReportTyped

\* No partition that has files loses them.
NothingLost == \A d \in Days, ds \in DATASETS : part'[d][ds] = <<>> => part[d][ds] = <<>>

LEMMA JobsAre ==
    /\ DOMAIN Output = {"contracts_sync", "ws_minute_bars", "trades_watchlist",
                        "underlying_bars", "grouped_daily", "reconcile", "rv_forecast",
                        "surface"}
    /\ \A job \in DOMAIN Output : Output[job] \in DATASETS
  BY DEF Output, DATASETS, PARTITIONS, FLATFILES, UNDERLYING

LEMMA TimetableLength == Len(Timetable) \in Nat \ {0}
<1>1. Timetable \in Seq((0..1438) \X STRING) /\ Timetable # <<>>
  BY AuditAssumption
<1> QED
  BY <1>1

LEMMA TimetableIs ==
    /\ Len(Timetable) \in Nat \ {0}
    /\ \A i \in 1..Len(Timetable) : Timetable[i][1] \in 0..1438 /\ Timetable[i][2] \in STRING
<1>1. Timetable \in Seq((0..1438) \X STRING) /\ Timetable # <<>>
  BY AuditAssumption
<1>2. \A i \in 1..Len(Timetable) : Timetable[i] \in (0..1438) \X STRING
  BY <1>1
<1>3. \A x \in (0..1438) \X STRING : x[1] \in 0..1438 /\ x[2] \in STRING
  OBVIOUS
<1>4. Len(Timetable) \in Nat \ {0}
  BY TimetableLength
<1>5. ASSUME NEW i \in 1..Len(Timetable)
      PROVE  Timetable[i][1] \in 0..1438 /\ Timetable[i][2] \in STRING
  <2>1. Timetable[i] \in (0..1438) \X STRING
    BY <1>2, SMTT(30)
  <2> QED
    BY <1>3, <2>1, SMTT(30)
<1> QED
  BY <1>4, <1>5, ZenonT(30)

LEMMA TurnTyped ==
    ASSUME ClockTyped, Turn
    PROVE  ClockTyped' /\ day <= day' /\ day' <= day + 1
  BY TimetableIs, AuditAssumption DEF ClockTyped, Turn, Days

LEMMA TargetIs ==
    ASSUME ClockTyped, NEW job \in DOMAIN Output \cup {"flatfile_pull"}, Due(job)
    PROVE  Target(job) \in Days /\ day - 7 <= Target(job) /\ Target(job) <= day
<1>1. day \in Int /\ day <= LastDay + 1 /\ day <= LastDay
  BY AuditAssumption DEF ClockTyped, Days
<1>2. PreviousTradingDay(day) \in day - 7 .. day - 1
  BY <1>1, PreviousIsBefore DEF ClockTyped
<1>3. CASE job \in SameDay
  BY <1>1, <1>3 DEF Target, ClockTyped
<1>4. CASE job \notin SameDay
  <2>1. PreviousTradingDay(day) >= 1
    BY <1>4, JobsAre DEF Due, SameDay
  <2>2. Target(job) = PreviousTradingDay(day)
    BY <1>4 DEF Target
  <2> HIDE DEF PreviousTradingDay
  <2> QED
    BY <1>1, <1>2, <2>1, <2>2, AuditAssumption DEF Days
<1> QED
  BY <1>3, <1>4

LEMMA LandTyped ==
    ASSUME PartTyped, NEW job \in DOMAIN Output, NEW d \in Days, NEW f, f.by \in Writers,
           Land(job, d, f)
    PROVE  PartTyped' /\ NothingLost
<1> DEFINE ds0 == Output[job]
           new == IF job \in Replacing THEN <<f>> ELSE Append(part[d][ds0], f)
<1>1. ds0 \in DATASETS
  BY JobsAre
<1>2. FilesFormed(part[d][ds0])
  BY <1>1 DEF PartTyped
<1>3. FilesFormed(new) /\ new # <<>>
  BY <1>2, OneFileTyped, FileAppended
<1>4. part' = [e \in Days |-> [ds \in DATASETS |->
                  IF e = d /\ ds = ds0 THEN new ELSE part[e][ds]]]
  BY <1>1 DEF Land, PartTyped
<1> HIDE DEF new, ds0
<1>5. \A e \in Days, ds \in DATASETS :
          part'[e][ds] = IF e = d /\ ds = ds0 THEN new ELSE part[e][ds]
  BY <1>4
<1>6. part' = [e \in Days |-> [ds \in DATASETS |-> part'[e][ds]]]
  BY <1>4, <1>5
<1> QED
  BY <1>3, <1>5, <1>6 DEF PartTyped, NothingLost

LEMMA PullTyped ==
    ASSUME PartTyped, KeptTyped, NEW got, Pull(got), Target("flatfile_pull") \in Days,
           \A ds \in FLATFILES : FilesFormed(got[ds].files) /\ got[ds].rows \in {NoRow, 0, Rows}
    PROVE  /\ PartTyped' /\ KeptTyped' /\ NothingLost
           /\ \A e \in Days : e # Target("flatfile_pull") => kept'[e] = kept[e]
<1> DEFINE d   == Target("flatfile_pull")
           due == {ds \in FLATFILES : kept[d][ds] = NoRow}
           new(ds) == IF ds \in due THEN part[d][ds] \o got[ds].files ELSE part[d][ds]
           row(ds) == IF ds \in due THEN got[ds].rows ELSE kept[d][ds]
<1>1. \A ds \in DATASETS : FilesFormed(part[d][ds])
  BY DEF PartTyped
<1>2. \A ds \in DATASETS : FilesFormed(new(ds)) /\ (new(ds) = <<>> => part[d][ds] = <<>>)
  <2> SUFFICES ASSUME NEW ds \in DATASETS
               PROVE  FilesFormed(new(ds)) /\ (new(ds) = <<>> => part[d][ds] = <<>>)
    OBVIOUS
  <2>1. CASE ds \in due
    BY <1>1, <2>1, FilesJoined
  <2>2. CASE ds \notin due
    BY <1>1, <2>2
  <2> QED
    BY <2>1, <2>2
<1>3. /\ part' = [e \in Days |-> [ds \in DATASETS |-> IF e = d THEN new(ds) ELSE part[e][ds]]]
      /\ kept' = [kept EXCEPT ![d] = [ds \in FLATFILES |-> row(ds)]]
  <2>1. part' = [part EXCEPT ![d] = [ds \in DATASETS |-> new(ds)]]
    BY DEF Pull
  <2>2. kept' = [kept EXCEPT ![d] = [ds \in FLATFILES |-> row(ds)]]
    BY DEF Pull
  <2> HIDE DEF d, due, new
  <2> QED
    BY <2>1, <2>2 DEF PartTyped
<1>4. \A ds \in FLATFILES : row(ds) \in {NoRow, 0, Rows}
  BY DEF KeptTyped
<1>5. d \in Days
  OBVIOUS
<1> HIDE DEF d, due, new, row
<1>6. /\ part' = [e \in Days |-> [ds \in DATASETS |-> part'[e][ds]]]
      /\ \A e \in Days, ds \in DATASETS : part'[e][ds] = IF e = d THEN new(ds) ELSE part[e][ds]
  BY <1>3
<1>7. PartTyped' /\ NothingLost
  BY <1>2, <1>6 DEF PartTyped, NothingLost
<1>8. KeptTyped' /\ \A e \in Days : e # d => kept'[e] = kept[e]
  BY <1>3, <1>4, <1>5 DEF KeptTyped
<1> QED
  BY <1>7, <1>8 DEF d

LEMMA PulledTyped ==
    \A ds \in FLATFILES : /\ FilesFormed(Pulled(ds).files) /\ Pulled(ds).rows \in {NoRow, 0, Rows}
                          /\ \A bad \in BadlyPulled(ds) : /\ FilesFormed(bad.files)
                                                         /\ bad.rows \in {NoRow, 0, Rows}
<1> SUFFICES ASSUME NEW ds \in FLATFILES
             PROVE  /\ FilesFormed(Pulled(ds).files) /\ Pulled(ds).rows \in {NoRow, 0, Rows}
                    /\ \A bad \in BadlyPulled(ds) : /\ FilesFormed(bad.files)
                                                   /\ bad.rows \in {NoRow, 0, Rows}
  OBVIOUS
<1> DEFINE f == File("flatfile_pull", ds)
<1>1. /\ f.by \in Writers /\ [f EXCEPT !.rows = Torn].by \in Writers
      /\ [f EXCEPT !.rows = Rows - 1].by \in Writers
  BY DEF File, Writers
<1>2. /\ FilesFormed(<<f>>) /\ FilesFormed(<<f, f>>) /\ FilesFormed(<<[f EXCEPT !.rows = Torn]>>)
      /\ FilesFormed(<<[f EXCEPT !.rows = Rows - 1]>>) /\ FilesFormed(<<>>)
  BY <1>1, OneFileTyped, TwoFilesFormed, NoFilesFormed
<1>3. Pulled(ds) = [rows |-> Rows, files |-> <<f>>]
  BY DEF Pulled
<1>4. \A bad \in BadlyPulled(ds) :
          /\ bad.files \in {<<>>, <<f, f>>, <<[f EXCEPT !.rows = Torn]>>,
                            <<[f EXCEPT !.rows = Rows - 1]>>}
          /\ bad.rows \in {NoRow, 0, Rows}
  BY DEF BadlyPulled
<1> HIDE DEF f
<1> QED
  BY <1>2, <1>3, <1>4

\* What a step leaves behind.
KeptKnown == \A d \in Days : d < day - 7 => kept'[d] = kept[d]
Goes      == Typed' /\ NothingLost /\ KeptKnown /\ flagged \subseteq flagged'

LEMMA BoxStays ==
    ASSUME Typed, UNCHANGED <<part, kept>>
    PROVE  PartTyped' /\ KeptTyped' /\ NothingLost /\ KeptKnown
  BY DEF Typed, PartTyped, KeptTyped, NothingLost, KeptKnown, FilesFormed

LEMMA StopTyped ==
    ASSUME Typed,
           NEW job \in {"flatfile_pull", "rates_sync", "backfill_underlying"} \cup DOMAIN Output
    PROVE  /\ Works(job) /\ UNCHANGED faults => FaultsTyped'
           /\ Misses(job) => FaultsTyped'
           /\ Fault /\ UNCHANGED down => FaultsTyped'
  BY AuditAssumption DEF Typed, FaultsTyped, Works, Misses, Fault

LEMMA RestStays ==
    ASSUME Typed, Turn
    PROVE  /\ ClockTyped' /\ (UNCHANGED stamps => StampsTyped')
           /\ (UNCHANGED <<curve, curveTorn>> => CurveTyped')
           /\ (UNCHANGED <<gaps, flagged, report>> => ReportTyped' /\ flagged \subseteq flagged')
           /\ (UNCHANGED <<down, faults>> => FaultsTyped')
<1>1. ClockTyped' /\ day <= day' /\ day \in Int /\ day' \in Int
  BY TurnTyped DEF Typed, ClockTyped, Days
<1> QED
  BY <1>1 DEF Typed, StampsTyped, CurveTyped, ReportTyped, FaultsTyped

LEMMA RunGoes ==
    ASSUME Typed, NEW job \in DOMAIN Output, Run(job) PROVE Goes
<1>1. Turn /\ Due(job) /\ Works(job)
      /\ UNCHANGED <<kept, stamps, gaps, curve, curveTorn, faults, report, flagged>>
  BY DEF Run, Fires
<1>2. Target(job) \in Days
  BY <1>1, TargetIs DEF Typed
<1>3. PartTyped' /\ NothingLost
  <2>1. CASE Readable(job, Target(job))
    <3>1. Land(job, Target(job), Rewritten(job, Target(job)))
      BY <2>1 DEF Run
    <3>2. Rewritten(job, Target(job)).by \in Writers
      BY DEF Rewritten, File, Writers
    <3> QED
      BY <1>2, <3>1, <3>2, LandTyped DEF Typed
  <2>2. CASE ~Readable(job, Target(job))
    <3>1. UNCHANGED part
      BY <2>2 DEF Run
    <3> QED
      BY <1>1, <3>1, BoxStays
  <2> QED
    BY <2>1, <2>2
<1>4. KeptTyped' /\ KeptKnown
  BY <1>1 DEF Typed, KeptTyped, KeptKnown
<1>5. FaultsTyped'
  BY <1>1, StopTyped
<1> QED
  BY <1>1, <1>3, <1>4, <1>5, RestStays DEF Typed, Goes

LEMMA MissGoes ==
    ASSUME Typed, NEW job \in DOMAIN Output, Miss(job) PROVE Goes
<1>1. Turn /\ Misses(job) /\ UNCHANGED <<box, report, flagged>>
  BY DEF Miss, Fires
<1>2. FaultsTyped'
  BY <1>1, StopTyped
<1>3. UNCHANGED <<part, kept, stamps, gaps, curve, curveTorn, report, flagged>>
  BY <1>1 DEF box
<1> QED
  BY <1>1, <1>2, <1>3, BoxStays, RestStays DEF Typed, Goes

LEMMA SpoilGoes ==
    ASSUME Typed, NEW job \in DOMAIN Output, Spoil(job) PROVE Goes
<1>1. /\ Turn /\ Due(job) /\ Fault
      /\ UNCHANGED <<kept, stamps, gaps, curve, curveTorn, down, report, flagged>>
  BY DEF Spoil, Fires
<1>2. PICK f \in Spoilt(job) : Land(job, Target(job), f)
  BY DEF Spoil
<1>3. f.by \in Writers
  <2>1. f.by = job
    BY DEF Spoilt, File
  <2> QED
    BY <2>1 DEF Writers
<1>4. PartTyped' /\ NothingLost
  BY <1>1, <1>2, <1>3, TargetIs, LandTyped DEF Typed
<1>5. KeptTyped' /\ KeptKnown
  BY <1>1 DEF Typed, KeptTyped, KeptKnown
<1>6. FaultsTyped'
  BY <1>1, StopTyped
<1> QED
  BY <1>1, <1>4, <1>5, <1>6, RestStays DEF Typed, Goes

LEMMA GapsGoes ==
    ASSUME Typed, Gaps PROVE Goes
<1> DEFINE job == "ws_minute_bars"
           f   == File(job, Output.ws_minute_bars)
<1>1. /\ Turn /\ Fault /\ Land(job, day, f) /\ gaps' = gaps \cup {day}
      /\ UNCHANGED <<kept, stamps, curve, curveTorn, down, report, flagged>>
  BY DEF Gaps, Fires
<1>2. job \in DOMAIN Output /\ f.by \in Writers /\ day \in Days
  BY JobsAre DEF File, Writers, Typed, ClockTyped
<1>3. PartTyped' /\ NothingLost
  <2> HIDE DEF f, job
  <2> QED
    BY <1>1, <1>2, LandTyped DEF Typed
<1>4. KeptTyped' /\ KeptKnown
  BY <1>1 DEF Typed, KeptTyped, KeptKnown
<1>5. FaultsTyped'
  BY <1>1, <1>2, StopTyped
<1>6. ReportTyped' /\ flagged \subseteq flagged'
  BY <1>1, <1>2 DEF Typed, ReportTyped
<1> QED
  BY <1>1, <1>3, <1>4, <1>5, <1>6, RestStays DEF Typed, Goes

LEMMA SweepGoes ==
    ASSUME Typed, Sweep PROVE Goes
<1> DEFINE f == File("sweep", "forwards")
<1>1. /\ Turn /\ Now("sweep") /\ UNCHANGED <<kept, gaps, curve, curveTorn, report, flagged>>
      /\ day \in Days
  BY DEF Sweep, Fires, Typed, ClockTyped
<1>2. PICK lost \in SUBSET EXPECTED_ROOTS :
        /\ stamps' = [stamps EXCEPT ![day] =
                         @ \cup {<<Minute + Lag, r>> : r \in EXPECTED_ROOTS \ lost}]
        /\ \/ UNCHANGED part
           \/ /\ part[day]["forwards"] = <<>>
              /\ part' = [part EXCEPT ![day]["forwards"] = <<f>>]
  <2> DEFINE lost == CASE down' = "sweep" -> EXPECTED_ROOTS
                       [] down' = "SPX"   -> {"SPX"}
                       [] OTHER           -> {}
  <2>1. lost \in SUBSET EXPECTED_ROOTS
    BY DEF EXPECTED_ROOTS
  <2>2. /\ stamps' = [stamps EXCEPT ![day] =
                         @ \cup {<<Minute + Lag, r>> : r \in EXPECTED_ROOTS \ lost}]
        /\ part' = IF lost = EXPECTED_ROOTS \/ part[day]["forwards"] # <<>> THEN part
                   ELSE [part EXCEPT ![day]["forwards"] = <<f>>]
    BY DEF Sweep
  <2> HIDE DEF lost, f
  <2> QED
    BY <2>1, <2>2
<1>3. Minute + Lag \in 0..1439
  <2>1. slot \in 1..Len(Timetable)
    BY DEF Typed, ClockTyped
  <2>2. Minute \in 0..1438
    <3>1. Timetable[slot][1] \in 0..1438
      BY <2>1, TimetableIs, ZenonT(30)
    <3> QED
      BY <3>1, SMTT(30) DEF Minute
  <2> QED
    BY <2>2 DEF Lag
<1>4. StampsTyped'
  <2> DEFINE add == {<<Minute + Lag, r>> : r \in EXPECTED_ROOTS \ lost}
  <2>1. add \in SUBSET ((0..1439) \X EXPECTED_ROOTS)
    BY <1>3
  <2>2. stamps' = [stamps EXCEPT ![day] = @ \cup add]
    BY <1>2
  <2> HIDE DEF add
  <2> QED
    BY <1>1, <2>1, <2>2 DEF Typed, StampsTyped
<1>5. PartTyped' /\ NothingLost
  <2>1. CASE UNCHANGED part
    BY <1>1, <2>1, BoxStays
  <2>2. CASE part' = [part EXCEPT ![day]["forwards"] = <<f>>]
    <3>1. f.by \in Writers /\ "forwards" \in DATASETS
      BY DEF File, Writers, DATASETS, PARTITIONS
    <3>2. FilesFormed(<<f>>) /\ <<f>> # <<>>
      BY <3>1, OneFileTyped
    <3> DEFINE new == <<f>>
    <3>3. FilesFormed(new) /\ new # <<>> /\ part' = [part EXCEPT ![day]["forwards"] = new]
      BY <2>2, <3>2
    <3> HIDE DEF new
    <3>4. part' = [e \in Days |-> [ds \in DATASETS |->
                      IF e = day /\ ds = "forwards" THEN new ELSE part[e][ds]]]
      BY <1>1, <3>1, <3>3 DEF Typed, PartTyped
    <3>5. \A e \in Days, ds \in DATASETS :
              part'[e][ds] = IF e = day /\ ds = "forwards" THEN new ELSE part[e][ds]
      BY <3>4
    <3>6. part' = [e \in Days |-> [ds \in DATASETS |-> part'[e][ds]]]
      BY <3>4, <3>5
    <3> QED
      BY <3>3, <3>5, <3>6 DEF Typed, PartTyped, NothingLost
  <2> QED
    BY <1>2, <2>1, <2>2
<1>6. KeptTyped' /\ KeptKnown
  BY <1>1 DEF Typed, KeptTyped, KeptKnown
<1>7. FaultsTyped'
  BY AuditAssumption DEF Sweep, Typed, FaultsTyped, Fault, SWEEP_OUTAGE
<1> QED
  BY <1>1, <1>4, <1>5, <1>6, <1>7, RestStays DEF Typed, Goes

LEMMA FlatfilePullGoes ==
    ASSUME Typed, FlatfilePull PROVE Goes
<1> DEFINE job == "flatfile_pull"
<1>1. /\ Turn /\ Due(job) /\ Works(job) /\ Pull([ds \in FLATFILES |-> Pulled(ds)])
      /\ UNCHANGED <<stamps, gaps, curve, curveTorn, faults, report, flagged>>
  BY DEF FlatfilePull, Fires
<1>2. Target(job) \in Days /\ day - 7 <= Target(job)
  BY <1>1, TargetIs DEF Typed
<1>3. /\ PartTyped' /\ KeptTyped' /\ NothingLost
      /\ \A e \in Days : e # Target(job) => kept'[e] = kept[e]
  <2> DEFINE got == [ds \in FLATFILES |-> Pulled(ds)]
  <2>1. \A ds \in FLATFILES : FilesFormed(got[ds].files) /\ got[ds].rows \in {NoRow, 0, Rows}
    BY PulledTyped
  <2>2. Pull(got)
    BY <1>1
  <2> HIDE DEF got
  <2> QED
    BY <1>2, <2>1, <2>2, PullTyped DEF Typed
<1>4. KeptKnown
  BY <1>2, <1>3 DEF KeptKnown, Days, Typed, ClockTyped
<1>5. FaultsTyped'
  BY <1>1, StopTyped
<1> QED
  BY <1>1, <1>3, <1>4, <1>5, RestStays DEF Typed, Goes

LEMMA FlatfileMissGoes ==
    ASSUME Typed, FlatfileMiss PROVE Goes
<1>1. /\ Turn /\ Misses("flatfile_pull")
      /\ UNCHANGED <<part, kept, stamps, gaps, curve, curveTorn, report, flagged>>
  BY DEF FlatfileMiss, Fires, box
<1>2. FaultsTyped'
  BY <1>1, StopTyped
<1> QED
  BY <1>1, <1>2, BoxStays, RestStays DEF Typed, Goes

LEMMA FlatfileSpoilGoes ==
    ASSUME Typed, FlatfileSpoil PROVE Goes
<1> DEFINE job == "flatfile_pull"
<1>1. /\ Turn /\ Due(job) /\ Fault
      /\ UNCHANGED <<stamps, gaps, curve, curveTorn, down, report, flagged>>
  BY DEF FlatfileSpoil, Fires
<1>2. Target(job) \in Days /\ day - 7 <= Target(job)
  BY <1>1, TargetIs DEF Typed
<1>3. PICK hit \in FLATFILES : \E bad \in BadlyPulled(hit) :
          Pull([ds \in FLATFILES |-> IF ds = hit THEN bad ELSE Pulled(ds)])
  BY DEF FlatfileSpoil
<1>4. PICK bad \in BadlyPulled(hit) :
          Pull([ds \in FLATFILES |-> IF ds = hit THEN bad ELSE Pulled(ds)])
  BY <1>3
<1>5. /\ PartTyped' /\ KeptTyped' /\ NothingLost
      /\ \A e \in Days : e # Target(job) => kept'[e] = kept[e]
  <2> DEFINE got == [ds \in FLATFILES |-> IF ds = hit THEN bad ELSE Pulled(ds)]
  <2>1. \A ds \in FLATFILES : FilesFormed(got[ds].files) /\ got[ds].rows \in {NoRow, 0, Rows}
    BY PulledTyped
  <2>2. Pull(got)
    BY <1>4
  <2> HIDE DEF got
  <2> QED
    BY <1>2, <2>1, <2>2, PullTyped DEF Typed
<1>6. KeptKnown
  BY <1>2, <1>5 DEF KeptKnown, Days, Typed, ClockTyped
<1>7. FaultsTyped'
  BY <1>1, StopTyped
<1> QED
  BY <1>1, <1>5, <1>6, <1>7, RestStays DEF Typed, Goes

LEMMA RatesGoes ==
    ASSUME Typed, RatesSync \/ RatesMiss \/ RatesTorn PROVE Goes
<1>1. Turn /\ UNCHANGED <<part, kept, stamps, gaps, report, flagged>>
  BY DEF RatesSync, RatesMiss, RatesTorn, Fires, box
<1>2. FaultsTyped'
  BY StopTyped DEF RatesSync, RatesMiss, RatesTorn
<1>3. CurveTyped'
  <2>1. day <= day' /\ day \in Int /\ day' \in Int /\ day <= LastDay + 1 /\ LastDay \in Int
    BY <1>1, TurnTyped, AuditAssumption DEF Typed, ClockTyped, Days
  <2>2. CASE RatesSync
    <3> DEFINE d == PreviousSession(day)
    <3>1. d \in day - 7 .. day - 1
      BY <2>1, PreviousIsBefore DEF Typed, ClockTyped
    <3> HIDE DEF d
    <3>2. d \in Int /\ d <= LastDay + 1
      BY <2>1, <3>1
    <3>3. PreviousSession(d) \in d - 7 .. d - 1
      BY <3>2, PreviousIsBefore DEF Typed, ClockTyped
    <3>4. curve' = PreviousSession(d) /\ UNCHANGED curveTorn
      BY <2>2 DEF RatesSync, d
    <3> QED
      BY <2>1, <3>1, <3>3, <3>4 DEF Typed, CurveTyped
  <2>3. CASE RatesMiss
    BY <2>1, <2>3 DEF RatesMiss, box, Typed, CurveTyped
  <2>4. CASE RatesTorn
    BY <2>1, <2>4 DEF RatesTorn, Typed, CurveTyped
  <2> QED
    BY <2>2, <2>3, <2>4
<1> QED
  BY <1>1, <1>2, <1>3, BoxStays, RestStays DEF Typed, Goes

LEMMA BackfillGoes ==
    ASSUME Typed, Backfill PROVE Goes
<1> DEFINE f(ds) == File("backfill_underlying", ds)
           known == {e \in WindowSessions(day - 1) : \E ds \in UNDERLYING : part[e][ds] = <<>>}
           work  == {e \in known : Cardinality({c \in known : c < e}) < MaxSessions}
           Fills(e, ds) == e \in work /\ ds \in UNDERLYING /\ Served(ds) /\ part[e][ds] = <<>>
           new(e, ds) == IF Fills(e, ds) THEN <<f(ds)>> ELSE part[e][ds]
<1>1. /\ Turn /\ Works("backfill_underlying")
      /\ part' = [e \in Days |-> [ds \in DATASETS |-> new(e, ds)]]
      /\ UNCHANGED <<kept, stamps, gaps, curve, curveTorn, faults, report, flagged>>
  BY DEF Backfill, Fires
<1>2. ASSUME NEW e \in Days, NEW ds \in DATASETS
      PROVE  FilesFormed(new(e, ds)) /\ (new(e, ds) = <<>> => part[e][ds] = <<>>)
  <2>1. f(ds).by \in Writers
    BY DEF File, Writers
  <2>2. FilesFormed(<<f(ds)>>) /\ <<f(ds)>> # <<>>
    BY <2>1, OneFileTyped
  <2>3. FilesFormed(part[e][ds])
    BY DEF Typed, PartTyped
  <2> HIDE DEF f, Fills
  <2> QED
    BY <2>2, <2>3
<1> HIDE DEF new
<1>3. /\ part' = [e \in Days |-> [ds \in DATASETS |-> part'[e][ds]]]
      /\ \A e \in Days, ds \in DATASETS : part'[e][ds] = new(e, ds)
  BY <1>1
<1>4. PartTyped' /\ NothingLost
  BY <1>2, <1>3 DEF PartTyped, NothingLost
<1>5. KeptTyped' /\ KeptKnown
  BY <1>1 DEF Typed, KeptTyped, KeptKnown
<1>6. FaultsTyped'
  BY <1>1, StopTyped
<1> QED
  BY <1>1, <1>4, <1>5, <1>6, RestStays DEF Typed, Goes

LEMMA BackfillMissGoes ==
    ASSUME Typed, BackfillMiss PROVE Goes
<1>1. /\ Turn /\ Misses("backfill_underlying")
      /\ UNCHANGED <<part, kept, stamps, gaps, curve, curveTorn, report, flagged>>
  BY DEF BackfillMiss, Fires, box
<1>2. FaultsTyped'
  BY <1>1, StopTyped
<1> QED
  BY <1>1, <1>2, BoxStays, RestStays DEF Typed, Goes

LEMMA IdleGoes ==
    ASSUME Typed, Idle PROVE Goes
<1>1. Turn /\ UNCHANGED <<part, kept, stamps, gaps, curve, curveTorn, down, faults, report, flagged>>
  BY DEF Idle, box
<1> QED
  BY <1>1, BoxStays, RestStays DEF Typed, Goes

LEMMA FindingVerdicts ==
    ASSUME NEW name, NEW bad, NEW v \in {"WARN", "FAIL"} PROVE Verdicts(Finding(name, v, bad))
  BY DEF Verdicts, Finding

LEMMA ChecksGiveVerdicts == ASSUME NEW d PROVE Verdicts(RunChecks(d))
<1>1. Verdicts(CheckSnapshots(d))
  <2> DEFINE got(r) == {t \in SweepStamps(d, r) : InWindow(d, t)}
             few(r) == 100 * Cardinality(got(r)) < MinRatio * ExpectedSweeps(d)
             noPre  == \E r \in EXPECTED_ROOTS : \A t \in SweepStamps(d, r) : ~IsPreopen(d, t)
             noEod  == \E r \in EXPECTED_ROOTS : \A t \in SweepStamps(d, r) : ~IsEod(d, t)
  <2>1. CheckSnapshots(d) =
            (UNION {Finding("snapshots", "FAIL", few(r)) : r \in EXPECTED_ROOTS})
            \cup (UNION {Finding("snapshots", "WARN", ~few(r) /\ WideGap(got(r))) :
                            r \in EXPECTED_ROOTS})
            \cup Finding("snapshots_preopen", "FAIL", noPre)
            \cup Finding("snapshots_eod", "FAIL", noEod)
    BY DEF CheckSnapshots
  <2> HIDE DEF got, few, noPre, noEod
  <2> QED
    BY <2>1 DEF Verdicts, Finding
<1>2. Verdicts(CheckFlatfiles(d))
  BY DEF CheckFlatfiles, Verdicts, Finding
<1>3. Verdicts(CheckPartitions(d))
  BY DEF CheckPartitions, Verdicts, Finding
<1>4. Verdicts(CheckVolSurface(d)) /\ Verdicts(CheckRvForecast(d))
  BY DEF CheckVolSurface, CheckRvForecast, Verdicts, Finding
<1>5. Verdicts(CheckUnderlyingCoverage(d)) /\ Verdicts(CheckWebsocket(d)) /\ Verdicts(CheckRateCurve(d))
  BY DEF CheckUnderlyingCoverage, CheckWebsocket, CheckRateCurve, Verdicts, Finding
<1>6. Verdicts(CheckUnderlyingWindow(d))
  BY DEF CheckUnderlyingWindow, Verdicts, Finding
<1> QED
  BY <1>1, <1>2, <1>3, <1>4, <1>5, <1>6 DEF RunChecks, Verdicts

LEMMA GradedIs ==
    ASSUME ClockTyped, Due("coverage_audit")
    PROVE  LastCompletedSession(Minute) \in Days
<1> DEFINE d == PreviousTradingDay(day)
<1>1. day \in Int /\ day <= LastDay + 1 /\ day <= LastDay /\ LastDay \in Int
  BY AuditAssumption DEF ClockTyped, Days
<1>2. d \in day - 7 .. day - 1
  BY <1>1, PreviousIsBefore DEF ClockTyped
<1> HIDE DEF d
<1>3. PreviousTradingDay(d) \in d - 7 .. d - 1
  <2>1. d \in Int /\ d <= LastDay + 1
    BY <1>1, <1>2
  <2> QED
    BY <2>1, PreviousIsBefore DEF ClockTyped
<1>4. LastCompletedSession(Minute) \in {d, PreviousTradingDay(d)}
  BY DEF LastCompletedSession, d
<1>5. LastCompletedSession(Minute) >= 1
  BY DEF Due, SameDay
<1> QED
  BY <1>1, <1>2, <1>3, <1>4, <1>5 DEF Days

LEMMA AuditGoes ==
    ASSUME Typed, Audit PROVE Goes
<1>1. /\ Turn /\ Due("coverage_audit") /\ UNCHANGED <<part, kept, stamps, gaps, curve, curveTorn, down, faults>>
  BY DEF Audit, Fires, box
<1> DEFINE d == LastCompletedSession(Minute)
<1>2. d \in Days
  BY <1>1, GradedIs DEF Typed
<1>3. report' = [of |-> d, findings |-> RunChecks(d)] /\ flagged' = flagged \cup Expiring(d)
  BY DEF Audit
<1> HIDE DEF d
<1>4. Expiring(d) \subseteq Days
  BY DEF Expiring, MissingSessions, WindowSessions
<1>5. ReportTyped' /\ flagged \subseteq flagged'
  BY <1>1, <1>2, <1>3, <1>4, ChecksGiveVerdicts DEF Typed, ReportTyped
<1> QED
  BY <1>1, <1>5, BoxStays, RestStays DEF Typed, Goes

LEMMA AuditTypeInit == AuditInit => Typed
<1> SUFFICES ASSUME AuditInit PROVE Typed
  OBVIOUS
<1>1. ClockTyped
  BY TimetableLength, AuditAssumption DEF AuditInit, ClockTyped, Days
<1>2. PartTyped /\ KeptTyped /\ StampsTyped
  <2>1. \A d \in Days, ds \in DATASETS : part[d][ds] = <<>>
    BY DEF AuditInit
  <2>2. part = [d \in Days |-> [ds \in DATASETS |-> part[d][ds]]]
    BY DEF AuditInit
  <2> QED
    BY <2>1, <2>2, NoFilesFormed DEF AuditInit, PartTyped, KeptTyped, StampsTyped
<1>3. CurveTyped
  <2> DEFINE b == PreviousSession(1)
             c == PreviousSession(b)
  <2>1. LastDay \in Nat /\ cal \in Calendars /\ day = 1
    BY AuditAssumption DEF AuditInit
  <2>2. b \in Int /\ b < 1 /\ b <= LastDay + 1
    BY <2>1, PreviousIsBefore
  <2> HIDE DEF b
  <2>3. c \in Int /\ c < 1 /\ c <= LastDay + 1
    <3>1. c \in b - 7 .. b - 1
      BY <2>1, <2>2, PreviousIsBefore
    <3> QED
      BY <2>1, <2>2, <3>1
  <2> HIDE DEF c
  <2>4. PreviousSession(c) \in c - 7 .. c - 1
    BY <2>1, <2>3, PreviousIsBefore
  <2>5. curve = PreviousSession(c) /\ curveTorn = FALSE
    BY DEF AuditInit, b, c
  <2>6. PreviousSession(c) \in Int /\ PreviousSession(c) < 1
    BY <2>3, <2>4
  <2>7. curve \in Int /\ curve < day /\ curveTorn \in BOOLEAN
    BY <2>1, <2>5, <2>6
  <2> QED
    BY <2>7 DEF CurveTyped
<1>4. FaultsTyped /\ ReportTyped
  BY AuditAssumption DEF AuditInit, FaultsTyped, ReportTyped, Verdicts
<1> QED
  BY <1>1, <1>2, <1>3, <1>4 DEF Typed

LEMMA AuditGoesOn == Typed /\ AuditNext => Goes
  BY RunGoes, MissGoes, SpoilGoes, GapsGoes, SweepGoes, FlatfilePullGoes, FlatfileMissGoes,
     FlatfileSpoilGoes, RatesGoes, BackfillGoes, BackfillMissGoes, IdleGoes, AuditGoes
  DEF AuditNext

LEMMA AuditTypeStep == Typed /\ [AuditNext]_auditVars => Typed'
<1> SUFFICES ASSUME Typed, [AuditNext]_auditVars PROVE Typed'
  OBVIOUS
<1>1. CASE AuditNext
  BY <1>1, AuditGoesOn DEF Goes
<1>2. CASE UNCHANGED auditVars
  <2>1. UNCHANGED <<part, kept, day, slot, cal, stamps, gaps, curve, curveTorn, down, faults,
                    report, flagged>>
    BY <1>2 DEF auditVars, clock, box
  <2>2. PartTyped' /\ KeptTyped'
    BY <2>1, BoxStays
  <2> QED
    BY <2>1, <2>2 DEF Typed, ClockTyped, StampsTyped, CurveTyped, FaultsTyped, ReportTyped
<1> QED
  BY <1>1, <1>2

\* The audit and what it grades keep their types.
THEOREM AuditTypes == AuditSpec => []AuditTypeOK
<1>1. Typed => AuditTypeOK
  <2> SUFFICES ASSUME Typed PROVE AuditTypeOK
    OBVIOUS
  <2>1. \A d \in Days, ds \in DATASETS : \A f \in ToSet(part[d][ds]) : f.by \in Writers
    BY DEF Typed, PartTyped, FilesFormed
  <2>2. \A d \in Days, ds \in FLATFILES : kept[d][ds] \in {NoRow, 0, Rows}
    BY DEF Typed, KeptTyped
  <2>3. \A d \in Days : stamps[d] \subseteq (0..1439) \X EXPECTED_ROOTS
    BY DEF Typed, StampsTyped
  <2> QED
    BY <2>1, <2>2, <2>3
    DEF AuditTypeOK, Typed, ClockTyped, CurveTyped, FaultsTyped, ReportTyped, Verdicts, Writers
<1> QED
  BY <1>1, AuditTypeInit, AuditTypeStep, PTL DEF AuditSpec

-----------------------------------------------------------------------------
(***************************************************************************)
(* Nothing expires unsaid.  A session is in the edge of the window on more *)
(* days than a weekend has, so that one noon audits it there, and by then  *)
(* its pull is history.                                                    *)
(***************************************************************************)
\* The Timetable has the audit of the noon.
AuditIsScheduled == \E i \in 1..Len(Timetable) : Timetable[i] = <<AUDIT, "coverage_audit">>
\* The edge outlasts a weekend and begins after a week and a day.
EdgeIsWide == EdgeDays >= 2 /\ Entitlement >= EdgeDays + 8

AuditSlot == CHOOSE i \in 1..Len(Timetable) : Timetable[i] = <<AUDIT, "coverage_audit">>
\* The noon of D has gone, and it was one to audit.
Audited(D)   == Weekday(D - 1) /\ (D < day \/ (D = day /\ slot > AuditSlot))
\* On D, d was in the edge of the window.
AtEdge(d, D) == D - Entitlement <= d /\ d <= D - Entitlement + EdgeDays
Hole(d)      == kept[d]["option_trades"] # NoRow /\ \E ds \in UNDERLYING : part[d][ds] = <<>>
ExpiryInv    == \A d, D \in Days : Audited(D) /\ AtEdge(d, D) /\ Hole(d) => d \in flagged

\* The audit of a day flags the holes at its edge.
LEMMA AuditFlags ==
    ASSUME EdgeIsWide, Typed, AuditNext, Weekday(day - 1), Now("coverage_audit"), Minute = AUDIT,
           NEW d \in Days, AtEdge(d, day), Hole(d)
    PROVE  d \in flagged'
<1> DEFINE g == PreviousTradingDay(day)
<1>1. /\ day \in 1..LastDay /\ LastDay \in Nat /\ d \in Int /\ d >= 1
      /\ Entitlement \in Nat /\ EdgeDays \in Nat
  BY AuditAssumption DEF Typed, ClockTyped, Days
<1>2. g \in day - 7 .. day - 1
  BY <1>1, PreviousIsBefore DEF Typed, ClockTyped
<1>3. LastCompletedSession(Minute) = g
  BY DEF LastCompletedSession, AUDIT, PIPELINE_DONE
<1> HIDE DEF g
<1>4. d <= g /\ WindowStart <= d /\ d <= Edge
  BY <1>1, <1>2 DEF EdgeIsWide, AtEdge, WindowStart, Edge
<1>5. Due("coverage_audit")
  <2>1. g >= 1
    BY <1>1, <1>2, <1>4
  <2>2. LastCompletedSession(Minute) >= 1
    BY <1>3, <2>1
  <2> QED
    BY <2>2 DEF Due, SameDay
<1>6. Audit
  BY <1>5, JobsAre DEF AuditNext, Idle, Gaps, Sweep, FlatfilePull, FlatfileMiss, FlatfileSpoil,
     RatesSync, RatesMiss, RatesTorn, Backfill, BackfillMiss, Run, Miss, Spoil, Fires, Now
<1>7. d \in Expiring(g)
  <2>1. d \in WindowSessions(g)
    BY <1>4 DEF WindowSessions, Hole
  <2>2. \E ds \in UNDERLYING : d \in MissingSessions(ds, WindowSessions(g))
    BY <2>1 DEF MissingSessions, Hole
  <2>3. ~(WindowStart > g)
    BY <1>1, <1>2, <1>4 DEF WindowStart
  <2> QED
    BY <1>4, <2>2, <2>3 DEF Expiring
<1> QED
  BY <1>3, <1>6, <1>7 DEF Audit

LEMMA ExpiryStep ==
    ASSUME EdgeIsWide, AuditIsScheduled, Typed, ExpiryInv, [AuditNext]_auditVars
    PROVE  ExpiryInv'
<1>1. CASE UNCHANGED auditVars
  BY <1>1 DEF auditVars, clock, box, ExpiryInv, Audited, Hole
<1>2. CASE AuditNext
  <2>1. Goes /\ Turn
    <3>1. Turn
      BY <1>2 DEF AuditNext, Idle, Gaps, Sweep, FlatfilePull, FlatfileMiss, FlatfileSpoil,
         RatesSync, RatesMiss, RatesTorn, Backfill, BackfillMiss, Audit, Run, Miss, Spoil, Fires
    <3> QED
      BY <1>2, <3>1, AuditGoesOn
  <2>2. AuditSlot \in 1..Len(Timetable) /\ Timetable[AuditSlot] = <<AUDIT, "coverage_audit">>
    BY DEF AuditIsScheduled, AuditSlot
  <2>3. /\ day \in Int /\ slot \in 1..Len(Timetable) /\ Len(Timetable) \in Nat /\ AuditSlot \in Int
        /\ Entitlement \in Nat /\ EdgeDays \in Nat
    BY <2>2, TimetableLength, AuditAssumption, SMTT(30) DEF Typed, ClockTyped, Days
  <2> SUFFICES ASSUME NEW d \in Days, NEW D \in Days, Audited(D)', AtEdge(d, D), Hole(d)'
               PROVE  d \in flagged'
    BY DEF ExpiryInv, AtEdge
  <2>4. d \in Int /\ D \in Int
    BY DEF Days
  <2>5. Weekday(D - 1) /\ (Audited(D) \/ (D = day /\ slot = AuditSlot))
    <3>1. Weekday(D - 1)
      BY DEF Audited, Weekday
    <3>2. D < day' \/ (D = day' /\ slot' > AuditSlot)
      BY DEF Audited
    <3>3. CASE slot < Len(Timetable) /\ slot' = slot + 1 /\ day' = day
      BY <2>3, <2>4, <3>1, <3>2, <3>3 DEF Audited
    <3>4. CASE slot = Len(Timetable) /\ slot' = 1 /\ day' = day + 1
      BY <2>2, <2>3, <2>4, <3>1, <3>2, <3>4 DEF Audited
    <3> QED
      BY <2>1, <3>3, <3>4 DEF Turn
  <2>6. D <= day
    BY <2>3, <2>4, <2>5 DEF Audited
  <2>7. Hole(d)
    <3>1. d < day - 7
      BY <2>3, <2>4, <2>6 DEF AtEdge, EdgeIsWide
    <3>2. kept'[d] = kept[d]
      BY <2>1, <3>1 DEF Goes, KeptKnown
    <3>3. PICK ds \in UNDERLYING : part'[d][ds] = <<>>
      BY DEF Hole
    <3>4. ds \in DATASETS
      BY DEF DATASETS
    <3>5. part[d][ds] = <<>>
      BY <2>1, <3>3, <3>4 DEF Goes, NothingLost
    <3> QED
      BY <3>2, <3>5 DEF Hole
  <2>8. CASE Audited(D)
    BY <2>1, <2>7, <2>8 DEF ExpiryInv, Goes
  <2>9. CASE D = day /\ slot = AuditSlot
    <3>1. Minute = AUDIT /\ Now("coverage_audit")
      BY <2>2, <2>9 DEF Minute, Now
    <3>2. Weekday(day - 1) /\ AtEdge(d, day)
      BY <2>5, <2>9
    <3> QED
      BY <1>2, <2>7, <3>1, <3>2, AuditFlags
  <2> QED
    BY <2>5, <2>8, <2>9
<1> QED
  BY <1>1, <1>2

LEMMA ExpiryInit == AuditIsScheduled /\ AuditInit => ExpiryInv
  BY DEF AuditInit, ExpiryInv, Hole, FLATFILES

\* Where the noon's audit is scheduled and the edge is wide, no session's
\* underlying bars age out of the entitlement without an audit having failed
\* over that session, whatever stops or comes out wrong and however the
\* calendar falls.  (check_underlying_window)
THEOREM NothingExpiresUnsaid ==
    ASSUME AuditIsScheduled, EdgeIsWide PROVE AuditSpec => []NoSilentExpiry
<1>1. Typed /\ ExpiryInv => NoSilentExpiry
  <2> SUFFICES ASSUME Typed, ExpiryInv, NEW d \in Days, d < day - Entitlement, Hole(d)
               PROVE  d \in flagged
    BY DEF NoSilentExpiry, Hole
  <2>1. /\ d \in Int /\ d >= 1 /\ day \in Int /\ day <= LastDay /\ LastDay \in Nat
        /\ Entitlement \in Nat /\ EdgeDays \in Nat
    BY AuditAssumption DEF Typed, ClockTyped, Days
  <2> DEFINE E == d + Entitlement
  <2>2. Weekday(E - 1) \/ Weekday(E - 2) \/ Weekday(E - 3)
    BY <2>1, WeekdayNear
  <2>3. PICK D \in {E, E - 1, E - 2} : Weekday(D - 1)
    <3>1. E - 1 - 1 = E - 2 /\ E - 2 - 1 = E - 3
      BY <2>1
    <3> QED
      BY <2>2, <3>1
  <2>4. D \in Days /\ D < day /\ AtEdge(d, D)
    BY <2>1, <2>3 DEF Days, EdgeIsWide, AtEdge
  <2> QED
    BY <2>3, <2>4 DEF ExpiryInv, Audited
<1>2. AuditInit => Typed /\ ExpiryInv
  BY AuditTypeInit, ExpiryInit
<1>3. Typed /\ ExpiryInv /\ [AuditNext]_auditVars => (Typed /\ ExpiryInv)'
  BY AuditTypeStep, ExpiryStep
<1> QED
  BY <1>1, <1>2, <1>3, PTL DEF AuditSpec
=============================================================================
