-------------------------- MODULE FlatfileArchive --------------------------
(***************************************************************************)
(* The flat-file archive: the parquet files of clean/<dataset>/dt=<date>,  *)
(* the raw csv.gz they are filtered from, the manifest that records what   *)
(* landed, and the processes that change them: flatfile_pull (plain,       *)
(* --replace, --force-download), reconcile and prune_raw.sh.  Any number   *)
(* of them overlap: the lock of cronjob.sh is taken by scheduled runs      *)
(* only, and by job name, so repair.sh, refilter.sh, backfill.sh workers   *)
(* and reconcile run beside each other.  A process may die at any step: a  *)
(* kill, a power loss, or an exception such as a full disk.                *)
(***************************************************************************)
EXTENDS Naturals, Sequences, FiniteSets

CONSTANTS Keys,        \* (dataset, date) partitions
          Reconciled,  \* those of option_minute_bars, which reconcile rewrites
          Blank,       \* those whose vendor file keeps no row after filtering
          Procs,       \* processes
          Modes,       \* what processes are started as
          None,        \* no process, no manifest entry
          MaxRuns,     \* bound: runs started, each writes at most one file
          MaxCrashes   \* bound: processes that die midway

ASSUME ArchiveAssumption ==
    /\ Keys # {}
    /\ Reconciled \subseteq Keys
    /\ Blank \subseteq Keys
    /\ Modes \subseteq {"pull", "replace", "force", "reconcile"}
    /\ None \notin Procs \cup {"empty", "kept"}
    /\ MaxRuns \in Nat
    /\ MaxCrashes \in Nat

VARIABLES
    raw,       \* raw/flatfiles: "none", "torn" while or after a cut write, "whole"
    writer,    \* the process whose open() last truncated the raw file
    file,      \* the parquet files, numbered in order of creation
    manifest,  \* _meta/flatfile_manifest.json: what each entry says was kept
    flock,     \* holder of the flock on flatfile_manifest.lock
    index,     \* prune_raw.sh's list of entries with rows kept, read once
    pc, mode, key, prior, rows, mine, copy, \* each process's position and locals
    runs, crashes,                          \* counters the bounds cap
    tangled,   \* history: partitions met by a cause of double counting
    overtaken  \* history: partitions where reconcile listed a file it had not read

rawVars  == <<raw, writer>>
procVars == <<pc, mode, key, prior, rows, mine, copy>>
vars == <<rawVars, file, manifest, flock, index, procVars, runs, crashes, tangled,
          overtaken>>

Entry == {"empty", "kept"}          \* rows_kept = 0, rows_kept > 0

\* A parquet file: its partition, the job in its name, whether the write is
\* complete, where it is, and the pulls whose filtered rows were copied into
\* it (a reconcile copies rows that pulls wrote; a blank pull adds none).
FileRec == [key : Keys, by : {"flatfile_pull", "reconcile"}, whole : BOOLEAN,
            at : {"clean", "quarantine", "pruned"}, rows : SUBSET Nat]

Created    == 1..Len(file)
InClean(k) == {i \in Created : file[i].key = k /\ file[i].at = "clean"}
RowsIn(S)  == UNION {file[i].rows : i \in S}
Active(p)  == pc[p] # "idle"

\* reuse_local: the local csv.gz matches the manifest's md5, so a rewrite
\* neither asks the vendor nor downloads.
Reusable(m, k) == m = "replace" /\ raw[k] = "whole" /\ manifest[k] # None

\* The ways a run can leave a partition counting rows more than once.
Tangles(p, k, m) ==
    \/ \E q \in Procs \ {p} : Active(q) /\ key[q] = k
    \/ m = "force" /\ InClean(k) # {}
    \/ m = "replace" /\ \E i \in InClean(k) : file[i].by = "reconcile"

Init ==
    /\ raw = [k \in Keys |-> "none"]
    /\ writer = [k \in Keys |-> None]
    /\ file = <<>>
    /\ manifest = [k \in Keys |-> None]
    /\ flock = None
    /\ index = {}
    /\ pc = [p \in Procs |-> "idle"]
    /\ mode = [p \in Procs |-> "pull"]
    /\ key = [p \in Procs |-> CHOOSE k \in Keys : TRUE]
    /\ prior = [p \in Procs |-> {}]
    /\ rows = [p \in Procs |-> {}]
    /\ mine = [p \in Procs |-> 0]
    /\ copy = [p \in Procs |-> [k \in Keys |-> None]]
    /\ runs = 0
    /\ crashes = 0
    /\ tangled = {}
    /\ overtaken = {}

Launch(p, k, m, at, rs) ==
    /\ ~Active(p) /\ runs < MaxRuns
    /\ runs' = runs + 1
    /\ pc' = [pc EXCEPT ![p] = at]
    /\ mode' = [mode EXCEPT ![p] = m]
    /\ key' = [key EXCEPT ![p] = k]
    /\ rows' = [rows EXCEPT ![p] = rs]
    /\ prior' = [prior EXCEPT ![p] = {}]
    /\ mine' = [mine EXCEPT ![p] = 0]
    /\ tangled' = IF Tangles(p, k, m) THEN tangled \cup {k} ELSE tangled
    /\ UNCHANGED <<rawVars, file, manifest, flock, index, copy, crashes, overtaken>>

\* Mutant of StartPull: the already-landed early return is gone.
StartPullRepeat(p, k, m) ==
    /\ m # "reconcile"
    /\ \/ Launch(p, k, m, "head", {})
       \/ Reusable(m, k) /\ Launch(p, k, m, "filter", {})

\* flatfile_pull enters _pull_dataset for k: a plain run of a partition the
\* manifest lists returns at once, which changes nothing. What is reusable is
\* reused, unless --force-download is given with --replace.
StartPull(p, k, m) ==
    /\ m # "reconcile"
    /\ m = "pull" => manifest[k] = None
    /\ \/ Launch(p, k, m, "head", {})
       \/ Reusable(m, k) /\ Launch(p, k, m, "filter", {})

\* reconcile reads the whole partition; an unreadable file raises, and a
\* partition without flat-file rows is skipped.
StartReconcile(p, k) ==
    /\ k \in Reconciled
    /\ \A i \in InClean(k) : file[i].whole
    /\ RowsIn(InClean(k)) # {}
    /\ Launch(p, k, "reconcile", "glob", RowsIn(InClean(k)))

Goto(p, at) == pc' = [pc EXCEPT ![p] = at]

\* HEAD finds no object and the run gives up: late, absent or not entitled.
\* Waiting for publication repeats the HEAD and changes nothing.
HeadMiss(p) ==
    /\ pc[p] = "head"
    /\ Goto(p, "idle")
    /\ UNCHANGED <<rawVars, file, manifest, flock, index, mode, key, prior, rows,
                   mine, copy, runs, crashes, tangled, overtaken>>

\* HEAD finds it; _download opens the destination, truncating it.
BeginDownload(p) ==
    /\ pc[p] = "head"
    /\ raw' = [raw EXCEPT ![key[p]] = "torn"]
    /\ writer' = [writer EXCEPT ![key[p]] = p]
    /\ Goto(p, "download")
    /\ UNCHANGED <<file, manifest, flock, index, mode, key, prior, rows, mine, copy,
                   runs, crashes, tangled, overtaken>>

\* The last chunk. Under a writer that truncated the file meanwhile, it has a
\* hole until that one ends; pruned meanwhile, it has no name.
EndDownload(p) ==
    /\ pc[p] = "download"
    /\ IF writer[key[p]] = p
         THEN /\ raw' = [raw EXCEPT ![key[p]] = "whole"]
              /\ writer' = [writer EXCEPT ![key[p]] = None]
         ELSE UNCHANGED rawVars
    /\ Goto(p, "filter")
    /\ UNCHANGED <<file, manifest, flock, index, mode, key, prior, rows, mine, copy,
                   runs, crashes, tangled, overtaken>>

\* gzip test and filter, then the list of this job's earlier output, which
\* only --replace takes. A torn or missing raw file raises.
Filter(p) ==
    /\ pc[p] = "filter"
    /\ IF raw[key[p]] = "whole"
         THEN /\ Goto(p, "write")
              /\ prior' = [prior EXCEPT ![p] =
                    IF mode[p] = "replace"
                      THEN {i \in InClean(key[p]) : file[i].by = "flatfile_pull"}
                      ELSE {}]
         ELSE Goto(p, "idle") /\ UNCHANGED prior
    /\ UNCHANGED <<rawVars, file, manifest, flock, index, mode, key, rows, mine, copy,
                   runs, crashes, tangled, overtaken>>

\* reconcile lists every parquet of the partition, some time after reading it:
\* one that landed between is listed all the same.
Glob(p) ==
    /\ pc[p] = "glob"
    /\ prior' = [prior EXCEPT ![p] = InClean(key[p])]
    /\ overtaken' = IF RowsIn(InClean(key[p])) \subseteq rows[p] THEN overtaken
                    ELSE overtaken \cup {key[p]}
    /\ Goto(p, "write")
    /\ UNCHANGED <<rawVars, file, manifest, flock, index, mode, key, rows, mine, copy,
                   runs, crashes, tangled>>

Job(m) == IF m = "reconcile" THEN "reconcile" ELSE "flatfile_pull"

\* Mutant of Written: of rows it read twice, reconcile keeps the older copy.
WrittenOldest(p) == IF mode[p] = "reconcile"
                    THEN {r \in rows[p] : \A s \in rows[p] : r <= s}
                    ELSE IF key[p] \in Blank THEN {} ELSE {Len(file) + 1}

\* What a run writes: reconcile the rows it read, a pull its own.
Written(p) == IF mode[p] = "reconcile" THEN rows[p]
              ELSE IF key[p] \in Blank THEN {} ELSE {Len(file) + 1}

\* write_clean(_table) opens the final name ...
BeginWrite(p) ==
    /\ pc[p] = "write"
    /\ file' = Append(file, [key |-> key[p], by |-> Job(mode[p]), whole |-> FALSE,
                             at |-> "clean", rows |-> Written(p)])
    /\ mine' = [mine EXCEPT ![p] = Len(file) + 1]
    /\ Goto(p, "writing")
    /\ UNCHANGED <<rawVars, manifest, flock, index, mode, key, prior, rows, copy, runs,
                   crashes, tangled, overtaken>>

\* ... and completes it, wherever another process has moved it meanwhile.
EndWrite(p) ==
    /\ pc[p] = "writing"
    /\ file' = [file EXCEPT ![mine[p]].whole = TRUE]
    /\ Goto(p, "quarantine")
    /\ UNCHANGED <<rawVars, manifest, flock, index, mode, key, prior, rows, mine, copy,
                   runs, crashes, tangled, overtaken>>

\* quarantine_prior moves the listed files one at a time; one that is gone is
\* passed over.
Quarantine(p) ==
    /\ pc[p] = "quarantine"
    /\ \E i \in prior[p] :
         /\ file' = IF file[i].at = "clean"
                      THEN [file EXCEPT ![i].at = "quarantine"] ELSE file
         /\ prior' = [prior EXCEPT ![p] = @ \ {i}]
    /\ UNCHANGED <<rawVars, manifest, flock, index, pc, mode, key, rows, mine, copy,
                   runs, crashes, tangled, overtaken>>

EndQuarantine(p) ==
    /\ pc[p] = "quarantine" /\ prior[p] = {}
    /\ Goto(p, IF mode[p] = "reconcile" THEN "idle" ELSE "lock")
    /\ UNCHANGED <<rawVars, file, manifest, flock, index, mode, key, prior, rows, mine,
                   copy, runs, crashes, tangled, overtaken>>

\* Mutant of ReadManifest: reads without waiting for the flock.
ReadManifestUnlocked(p) ==
    /\ pc[p] = "lock"
    /\ flock' = p
    /\ copy' = [copy EXCEPT ![p] = manifest]
    /\ Goto(p, "record")
    /\ UNCHANGED <<rawVars, file, manifest, index, mode, key, prior, rows, mine, runs,
                   crashes, tangled, overtaken>>

\* _update_manifest, under its flock: read the file ...
ReadManifest(p) ==
    /\ pc[p] = "lock"
    /\ flock = None
    /\ flock' = p
    /\ copy' = [copy EXCEPT ![p] = manifest]
    /\ Goto(p, "record")
    /\ UNCHANGED <<rawVars, file, manifest, index, mode, key, prior, rows, mine, runs,
                   crashes, tangled, overtaken>>

\* ... and rename the edited copy over it.
ReplaceManifest(p) ==
    /\ pc[p] = "record"
    /\ manifest' = [copy[p] EXCEPT ![key[p]] =
                      IF key[p] \in Blank THEN "empty" ELSE "kept"]
    /\ flock' = None
    /\ Goto(p, "idle")
    /\ UNCHANGED <<rawVars, file, index, mode, key, prior, rows, mine, copy, runs,
                   crashes, tangled, overtaken>>

\* A process dies. The kernel drops its flock; its files stay as they are.
Crash(p) ==
    /\ Active(p) /\ crashes < MaxCrashes
    /\ crashes' = crashes + 1
    /\ Goto(p, "idle")
    /\ flock' = IF flock = p THEN None ELSE flock
    /\ tangled' = IF mine[p] # 0 THEN tangled \cup {key[p]} ELSE tangled
    /\ UNCHANGED <<rawVars, file, manifest, index, mode, key, prior, rows, mine, copy,
                   runs, overtaken>>

\* Mutant of PruneStart: any manifest entry counts as parsed.
PruneStartAny ==
    /\ index' = {k \in Keys : manifest[k] # None}
    /\ UNCHANGED <<rawVars, file, manifest, flock, procVars, runs, crashes, tangled,
                   overtaken>>

\* prune_raw.sh reads the manifest once ...
PruneStart ==
    /\ index' = {k \in Keys : manifest[k] = "kept"}
    /\ UNCHANGED <<rawVars, file, manifest, flock, procVars, runs, crashes, tangled,
                   overtaken>>

\* ... then deletes old raw flat files its list shows were parsed, and old
\* quarantine batches.
PruneFlatfile(k) ==
    /\ k \in index
    /\ raw' = [raw EXCEPT ![k] = "none"]
    /\ writer' = [writer EXCEPT ![k] = None]
    /\ UNCHANGED <<file, manifest, flock, index, procVars, runs, crashes, tangled,
                   overtaken>>

PruneQuarantine(i) ==
    /\ file[i].at = "quarantine"
    /\ file' = [file EXCEPT ![i].at = "pruned"]
    /\ UNCHANGED <<rawVars, manifest, flock, index, procVars, runs, crashes, tangled,
                   overtaken>>

Step(p) ==
    \/ HeadMiss(p) \/ BeginDownload(p) \/ EndDownload(p) \/ Filter(p) \/ Glob(p)
    \/ BeginWrite(p) \/ EndWrite(p) \/ Quarantine(p) \/ EndQuarantine(p)
    \/ ReadManifest(p) \/ ReplaceManifest(p)

Next ==
    \/ \E p \in Procs :
         \/ \E k \in Keys : \/ \E m \in Modes : StartPull(p, k, m)
                            \/ "reconcile" \in Modes /\ StartReconcile(p, k)
         \/ Step(p)
         \/ Crash(p)
    \/ PruneStart
    \/ \E k \in Keys : PruneFlatfile(k)
    \/ \E i \in Created : PruneQuarantine(i)

Spec == Init /\ [][Next]_vars
-----------------------------------------------------------------------------
TypeOK ==
    /\ raw \in [Keys -> {"none", "torn", "whole"}]
    /\ writer \in [Keys -> Procs \cup {None}]
    /\ file \in Seq(FileRec)
    /\ manifest \in [Keys -> Entry \cup {None}]
    /\ flock \in Procs \cup {None}
    /\ index \subseteq Keys
    /\ pc \in [Procs -> {"idle", "head", "download", "filter", "glob", "write",
                         "writing", "quarantine", "lock", "record"}]
    /\ mode \in [Procs -> Modes \cup {"pull"}]
    /\ key \in [Procs -> Keys]
    /\ prior \in [Procs -> SUBSET Nat]
    /\ rows \in [Procs -> SUBSET Nat]
    /\ mine \in [Procs -> Nat]
    /\ copy \in [Procs -> [Keys -> Entry \cup {None}]]
    /\ runs \in 0..MaxRuns
    /\ crashes \in 0..MaxCrashes
    /\ tangled \subseteq Keys
    /\ overtaken \subseteq Keys
-----------------------------------------------------------------------------
\* A whole-partition read of k finds the vendor's rows (or, for a file that
\* keeps none, the table that says so).
Holds(i, k) == /\ file[i].key = k
               /\ file[i].whole
               /\ k \notin Blank => file[i].rows # {}
Landed(k)   == \E i \in InClean(k) : Holds(i, k)

\* Each row kept by the filter is in the partition once.
ReadsOnce(k) == \A i, j \in InClean(k) :
                  \A r \in file[i].rows, s \in file[j].rows : i = j /\ r = s

AtRest(k) == \A p \in Procs : Active(p) => key[p] # k

\* File j has the rows of file i: each of them, or a later pull of the same
\* vendor file, which --replace lands in its stead.
Carries(j, i) == \A r \in file[i].rows : \E s \in file[j].rows : r <= s

Supersedes(j, i) == j > i /\ Holds(j, file[i].key)

\* What is moved out of a partition has a stand-in there: a newer file, complete
\* and with its rows.  prune_raw.sh deletes quarantined files on the strength of
\* this (prune_raw.sh:17-19: "by construction, the copy that replaced it is in
\* clean/").  One window is excepted: where reconcile listed a file that landed
\* after it had read the partition, a newer and complete file is all there is.
QuarantineSuperseded ==
    \A i \in Created : file[i].at # "clean" =>
        \E j \in InClean(file[i].key) :
            Supersedes(j, i) /\ (Carries(j, i) \/ file[i].key \in overtaken)

\* prune_raw.sh works from a list it read earlier; whatever ran since, every
\* partition on it still holds the rows its raw file is deleted for (its
\* header: "a failed pull can never lead to deleting the only copy").
PruneNeverDeletesTheOnlyCopy ==
    \A k \in index : \E i \in InClean(k) : file[i].whole /\ file[i].rows # {}

\* At rest, a partition counts rows twice only if runs overlapped on it, one
\* died after opening its output, --force-download rewrote it without
\* --replace, or --replace met the output of reconcile.
OnlyKnownDoubleCounts ==
    \A k \in Keys : AtRest(k) /\ k \notin tangled => ReadsOnce(k)

\* The archive keeps the promises of Archive: partitions stay readable, the
\* manifest lists only readable ones and loses no entry to a concurrent update.
A == INSTANCE Archive WITH landed   <- {k \in Keys : Landed(k)},
                           recorded <- {k \in Keys : manifest[k] # None}
ArchiveSpec == A!Spec

\* "By construction, the copy that replaced it is in clean/", without exception:
\* reconcile reads, a rewrite lands, reconcile lists and moves the rewrite too.
\* The code does not keep this: TLC refutes it, and no run repeats it.
ReplacedCopyIsInClean ==
    \A i \in Created : file[i].at # "clean" =>
        \E j \in InClean(file[i].key) : Supersedes(j, i) /\ Carries(j, i)

\* What coverage_audit's check_flatfiles reports of a partition: an entry with
\* rows kept and, unless reconcile rewrites it, as many rows as the entry says
\* in the files of flatfile_pull.
AuditGreen(k) ==
    LET own == {i \in InClean(k) : file[i].by = "flatfile_pull"}
    IN  /\ manifest[k] = "kept"
        /\ k \notin Reconciled =>
              /\ \A i \in own : file[i].whole
              /\ \E i \in own : own = {i}

\* A partition at rest that the audit passes counts each row once: the audit
\* leaves minute bars to reconcile, whose quarantine is said to prevent
\* duplicates there (coverage_audit.py:136).
\* The code does not keep this: TLC refutes it, and no run repeats it.
GreenMeansCountedOnce == \A k \in Keys : AtRest(k) /\ AuditGreen(k) => ReadsOnce(k)
=============================================================================
