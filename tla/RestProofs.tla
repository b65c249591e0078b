----------------------------- MODULE RestProofs -----------------------------
(***************************************************************************)
(* The REST side, for any number of callers, contracts, dates, days,       *)
(* deaths and faults: what DayAggsCheckpoint's resumed sweep lands; that   *)
(* the bucket the requests are drawn from, SharedTokenBucket, keeps its    *)
(* rate and a stamped wait its claim; and what the jobs of AppendingSyncs  *)
(* file, and their readers choose.  The three share no variable.           *)
(***************************************************************************)
EXTENDS DayAggsCheckpoint, SharedTokenBucket, AppendingSyncs,
        FiniteSetTheorems, WellFoundedInduction, TLAPS

(***************************************************************************)
(* DayAggsCheckpoint.                                                      *)
(***************************************************************************)

\* A run has passed the contracts before idx, and has done them.
Position ==
    /\ pc = "sweep" => \A t \in Tickers : t < idx => t \in done
    /\ pc \in {"append", "save"} => \A t \in Tickers : t <= idx => t \in done
    /\ pc = "land" => \A t \in Tickers : t \in done

\* Whatever is done and traded is among the records ...
Recorded == pc \in {"sweep", "append", "save", "land"} =>
    \A b \in Due(date) : b[1] \in done => records[b] > 0

\* ... and in the sidecar or waiting to be appended to it.
Appended ==
    /\ pc \in {"sweep", "append", "save"} =>
         \A b \in Due(date) : b[1] \in done => b \in pending \/ lines[b] > 0
    /\ pc = "save" => pending = {}

\* The checkpoint claims no contract whose bar the sidecar lacks.
Backed ==
    /\ ckpt # None =>
         \A b \in Due(ckpt.date) : b[1] \in ckpt.done => lines[b] > 0
    /\ pc = "unlink_partial" => ckpt = None

GapInv == SweepTypeOK /\ Position /\ Recorded /\ Appended /\ Backed

LEMMA SweepTypeStep == SweepTypeOK /\ [SweepNext]_sweepVars => SweepTypeOK'
<1> SUFFICES ASSUME SweepTypeOK, [SweepNext]_sweepVars PROVE SweepTypeOK'
  OBVIOUS
<1> USE SweepAssumption DEF SweepTypeOK
<1>1. ASSUME NEW d \in Dates, StartSweep(d) PROVE SweepTypeOK'
  <2>1. Resumes(d) => ckpt.done \subseteq Tickers
    BY DEF Resumes
  <2>2. Loaded \in [Bars -> Nat]
    BY DEF Loaded
  <2> QED
    BY <1>1, <2>1, <2>2 DEF StartSweep, onDisk, NoBars, Tickers
<1>2. CASE Fetch
  <2> DEFINE bar == {<<idx, date>>} \cap Traded
  <2>1. bar \subseteq Bars /\ Plus(records, bar) \in [Bars -> Nat]
    BY DEF Plus
  <2>2. /\ done' \subseteq Tickers /\ records' \in [Bars -> Nat] /\ pending' \subseteq Bars
    BY <1>2, <2>1 DEF Fetch
  <2>3. idx' \in Tickers /\ pc' \in {"sweep", "append"}
    <3>1. ~BatchEnds => idx # Total
      BY DEF BatchEnds
    <3> QED
      BY <1>2, <3>1 DEF Fetch, Tickers
  <2> QED
    BY <1>2, <2>2, <2>3 DEF Fetch, onDisk
<1>3. CASE AppendBars
  BY <1>3 DEF AppendBars, Extended, Plus
<1>4. CASE Save
  BY <1>4 DEF Save, Advance, Tickers
<1>5. CASE Land
  BY <1>5 DEF Land, onDisk
<1>6. CASE UnlinkCheckpoint
  BY <1>6 DEF UnlinkCheckpoint
<1>7. CASE UnlinkPartial
  BY <1>7 DEF UnlinkPartial, NoBars
<1>8. CASE Crash
  BY <1>8 DEF Crash, Died
<1>9. CASE CrashAppending
  BY <1>9 DEF CrashAppending, Died, Plus
<1>10. CASE UNCHANGED sweepVars
  BY <1>10 DEF sweepVars
<1> QED
  BY <1>1, <1>2, <1>3, <1>4, <1>5, <1>6, <1>7, <1>8, <1>9, <1>10 DEF SweepNext

LEMMA SweepTypeInit == SweepInit => SweepTypeOK
<1> SUFFICES ASSUME SweepInit PROVE SweepTypeOK
  OBVIOUS
<1>1. NoBars \in [Bars -> Nat]
  BY DEF NoBars
<1>2. 1 \in Tickers
  BY SweepAssumption DEF Tickers
<1>3. crashes \in 0..MaxCrashes
  BY SweepAssumption DEF SweepInit
<1>4. ckpt \in [date : Dates, done : SUBSET Tickers] \cup {None}
  BY DEF SweepInit
<1>5. spoiled \in BOOLEAN /\ done \subseteq Tickers /\ pending \subseteq Bars
  BY DEF SweepInit
<1>6. lines \in [Bars -> Nat] /\ records \in [Bars -> Nat] /\ idx \in Tickers
  BY <1>1, <1>2 DEF SweepInit
<1> QED
  BY <1>3, <1>4, <1>5, <1>6 DEF SweepInit, SweepTypeOK

LEMMA GapInit == SweepInit => GapInv
  BY SweepTypeInit, SweepAssumption
  DEF SweepInit, GapInv, Position, Recorded, Appended, Backed

LEMMA DueIsBars == \A d \in Dates : Due(d) \subseteq Bars /\ \A b \in Due(d) : b[1] \in Tickers
  BY SweepAssumption DEF Due, Bars

LEMMA GapStep == GapInv /\ [SweepNext]_sweepVars => GapInv'
<1> SUFFICES ASSUME GapInv, [SweepNext]_sweepVars PROVE GapInv'
  OBVIOUS
<1> USE SweepAssumption
<1>1. SweepTypeOK /\ SweepTypeOK' /\ Position /\ Recorded /\ Appended /\ Backed
  BY SweepTypeStep DEF GapInv
<1>2. \A d \in Dates : Due(d) \subseteq Bars /\ \A b \in Due(d) : b[1] \in Tickers
  BY DueIsBars
<1>3. ASSUME NEW d \in Dates, StartSweep(d) PROVE GapInv'
  <2>1. CASE Resumes(d)
    <3>1. /\ ckpt # None /\ ckpt.date = d /\ done' = ckpt.done
          /\ records' = Loaded /\ date' = d /\ idx' = 1 /\ pc' = "sweep"
          /\ ckpt' = ckpt /\ lines' = lines
      BY <1>3, <2>1 DEF StartSweep, Resumes, onDisk
    <3>2. \A b \in Due(d) : b[1] \in ckpt.done => lines[b] > 0 /\ Loaded[b] > 0
      BY <1>1, <1>2, <3>1 DEF Backed, Loaded
    <3>3. Position' /\ Recorded' /\ Appended' /\ Backed'
      BY <1>1, <3>1, <3>2 DEF Position, Recorded, Appended, Backed, Tickers
    <3> QED
      BY <1>1, <3>3 DEF GapInv
  <2>2. CASE ~Resumes(d)
    <3>1. /\ done' = {} /\ idx' = 1 /\ pc' = "sweep" /\ ckpt' = ckpt /\ lines' = lines
      BY <1>3, <2>2 DEF StartSweep, onDisk
    <3>2. Position' /\ Recorded' /\ Appended' /\ Backed'
      BY <1>1, <3>1 DEF Position, Recorded, Appended, Backed, Tickers
    <3> QED
      BY <1>1, <3>2 DEF GapInv
  <2> QED
    BY <2>1, <2>2
<1>4. CASE Fetch
  <2> DEFINE bar == {<<idx, date>>} \cap Traded
  <2>1. /\ pc = "sweep" /\ UNCHANGED <<ckpt, lines, date>>
        /\ done' = done \cup {idx} /\ idx \in Tickers /\ date \in Dates
    BY <1>4, <1>1 DEF Fetch, onDisk, SweepTypeOK
  <2>2. Position'
    <3>1. \A t \in Tickers : t <= idx => t \in done'
      BY <1>1, <2>1 DEF Position, Tickers
    <3>2. \/ pc' = "append" /\ idx' = idx
          \/ pc' = "sweep" /\ idx' = idx + 1
      <4>1. CASE BatchEnds
        BY <1>4, <4>1 DEF Fetch
      <4>2. CASE ~BatchEnds
        BY <1>4, <2>1, <4>2 DEF Fetch
      <4> QED
        BY <4>1, <4>2
    <3> QED
      BY <3>1, <3>2, <2>1 DEF Position, Tickers
  <2>3. \A b \in Due(date) : b[1] \in done' => records'[b] > 0 /\ (b \in pending' \/ lines[b] > 0)
    <3> SUFFICES ASSUME NEW b \in Due(date), b[1] \in done'
                 PROVE  records'[b] > 0 /\ (b \in pending' \/ lines[b] > 0)
      OBVIOUS
    <3>1. b \in Bars /\ records[b] \in Nat
      BY <1>2, <1>1, <2>1 DEF SweepTypeOK
    <3>2. CASE b[1] \in done
      BY <1>4, <1>1, <2>1, <3>1, <3>2 DEF Fetch, Recorded, Appended, Plus
    <3>3. CASE b[1] \notin done
      <4>1. b = <<idx, date>> /\ b \in Traded /\ idx \notin done
        BY <2>1, <3>3 DEF Due
      <4>2. b \in bar
        BY <4>1
      <4> QED
        BY <1>4, <3>1, <4>1, <4>2 DEF Fetch, Plus
    <3> QED
      BY <3>2, <3>3
  <2>4. pc' \in {"sweep", "append"}
    BY <1>4, <2>1 DEF Fetch
  <2>5. Recorded' /\ Appended' /\ Backed'
    BY <1>1, <2>1, <2>3, <2>4 DEF Recorded, Appended, Backed
  <2> QED
    BY <1>1, <2>2, <2>5 DEF GapInv
<1>5. CASE AppendBars
  <2>1. /\ UNCHANGED <<ckpt, date, idx, done, records>> /\ pc = "append" /\ pc' = "save"
        /\ pending' = {} /\ lines' = Plus(lines, pending)
    BY <1>5 DEF AppendBars
  <2>2. \A b \in Bars : /\ lines[b] > 0 \/ b \in pending => lines'[b] > 0
    BY <1>1, <2>1 DEF Plus, SweepTypeOK
  <2>3. Position' /\ Recorded'
    BY <1>1, <2>1 DEF Position, Recorded
  <2>4. Appended'
    BY <1>1, <1>2, <2>1, <2>2 DEF Appended, SweepTypeOK
  <2>5. Backed'
    BY <1>1, <1>2, <2>1, <2>2 DEF Backed, SweepTypeOK
  <2> QED
    BY <1>1, <2>3, <2>4, <2>5 DEF GapInv
<1>6. CASE Save
  <2>1. /\ UNCHANGED <<lines, date, done, records, pending>>
        /\ pc = "save" /\ ckpt' = [date |-> date, done |-> done]
        /\ \/ pc' = "land" /\ idx = Total
           \/ pc' = "sweep" /\ idx' = idx + 1
    BY <1>6 DEF Save, Advance
  <2>2. Position'
    BY <1>1, <2>1 DEF Position, Tickers, SweepTypeOK
  <2>3. Recorded' /\ Appended'
    BY <1>1, <2>1 DEF Recorded, Appended
  <2>4. Backed'
    BY <1>1, <2>1 DEF Backed, Appended
  <2> QED
    BY <1>1, <2>2, <2>3, <2>4 DEF GapInv
<1>7. CASE Land
  BY <1>7, <1>1 DEF Land, onDisk, GapInv, Position, Recorded, Appended, Backed
<1>8. CASE UnlinkCheckpoint
  BY <1>8, <1>1 DEF UnlinkCheckpoint, GapInv, Position, Recorded, Appended, Backed
<1>9. CASE UnlinkPartial
  BY <1>9, <1>1 DEF UnlinkPartial, GapInv, Position, Recorded, Appended, Backed
<1>10. CASE Crash
  BY <1>10, <1>1 DEF Crash, Died, GapInv, Position, Recorded, Appended, Backed
<1>11. CASE CrashAppending
  <2>1. ckpt' = ckpt /\ pc' = "idle"
    BY <1>11 DEF CrashAppending, Died
  <2>2. \A b \in Bars : lines[b] > 0 => lines'[b] > 0
    BY <1>11, <1>1 DEF CrashAppending, Plus, SweepTypeOK
  <2>3. Backed'
    BY <1>1, <1>2, <2>1, <2>2 DEF Backed, SweepTypeOK
  <2> QED
    BY <1>1, <2>1, <2>3 DEF GapInv, Position, Recorded, Appended
<1>12. CASE UNCHANGED sweepVars
  BY <1>12, <1>1 DEF sweepVars, GapInv, Position, Recorded, Appended, Backed
<1> QED
  BY <1>3, <1>4, <1>5, <1>6, <1>7, <1>8, <1>9, <1>10, <1>11, <1>12 DEF SweepNext

\* A sweep that lands has every bar of its date, whatever died before.
THEOREM SweepHasNoGap == SweepSpec => []NoSilentGap
<1>1. GapInv => NoSilentGap
  BY DueIsBars DEF GapInv, SweepTypeOK, Position, Recorded, NoSilentGap
<1> QED
  BY <1>1, GapInit, GapStep, PTL DEF SweepSpec

\* Every variable keeps its type.
THEOREM SweepTypes == SweepSpec => []SweepTypeOK
  BY SweepTypeInit, SweepTypeStep, PTL DEF SweepSpec

-----------------------------------------------------------------------------
\* How often a bar is counted that belongs, or does not.
Count(belongs) == IF belongs THEN 1 ELSE 0

\* Until a cause of repeated bars is met, the sidecar holds what the checkpoint
\* claims, and a run's records and sidecar what it has done, once each.
ExactInv ==
    /\ sidecar = "none" => lines = NoBars
    /\ pc = "save" => pending = {}
    /\ ~spoiled =>
         /\ sidecar \in {"none", "whole"}
         /\ ckpt # None /\ sidecar = "whole" /\ pc # "save" =>
              \A b \in Bars : lines[b] = Count(b \in Due(ckpt.date) /\ b[1] \in ckpt.done)
         /\ pc \in {"sweep", "append", "save", "land"} =>
              \A b \in Bars : records[b] = Count(b \in Due(date) /\ b[1] \in done)
         /\ pc \in {"sweep", "append", "save"} =>
              /\ \A b \in Bars :
                   lines[b] = Count(b \in Due(date) /\ b[1] \in done /\ b \notin pending)
              /\ \A b \in pending : b \in Due(date) /\ b[1] \in done

LEMMA ExactInit == SweepInit => ExactInv
  BY DEF SweepInit, ExactInv

LEMMA ExactStep == SweepTypeOK /\ ExactInv /\ [SweepNext]_sweepVars => ExactInv'
<1> SUFFICES ASSUME SweepTypeOK, ExactInv, [SweepNext]_sweepVars PROVE ExactInv'
  OBVIOUS
<1> USE SweepAssumption
<1>1. ASSUME NEW d \in Dates, StartSweep(d) PROVE ExactInv'
  <2>1. /\ pc = "idle" /\ pc' = "sweep" /\ date' = d /\ pending' = {}
        /\ ckpt' = ckpt /\ sidecar' = sidecar /\ lines' = lines
        /\ ~spoiled' => ~spoiled /\ (Resumes(d) \/ sidecar = "none")
    BY <1>1 DEF StartSweep, onDisk
  <2>2. CASE Resumes(d)
    <3>1. /\ ckpt # None /\ ckpt.date = d /\ done' = ckpt.done /\ records' = Loaded
      BY <1>1, <2>2 DEF StartSweep, Resumes
    <3>2. ~spoiled' => /\ \A b \in Bars : lines[b] = Count(b \in Due(d) /\ b[1] \in ckpt.done)
                       /\ sidecar = "whole"
      BY <2>1, <2>2, <3>1 DEF ExactInv, Resumes
    <3>3. ~spoiled' => \A b \in Bars : Loaded[b] = Count(b \in Due(d) /\ b[1] \in ckpt.done)
      BY <3>2 DEF Loaded, Count
    <3> QED
      BY <2>1, <3>1, <3>2, <3>3 DEF ExactInv
  <2>3. CASE ~Resumes(d)
    <3>1. done' = {} /\ records' = NoBars
      BY <1>1, <2>3 DEF StartSweep
    <3>2. ~spoiled' => sidecar = "none" /\ lines = NoBars
      BY <2>1, <2>3 DEF ExactInv
    <3> QED
      BY <2>1, <3>1, <3>2 DEF ExactInv, NoBars, Count
  <2> QED
    BY <2>2, <2>3
<1>2. CASE Fetch
  <2> DEFINE bar == {<<idx, date>>} \cap Traded
  <2>1. /\ pc = "sweep" /\ pc' \in {"sweep", "append"}
        /\ UNCHANGED <<ckpt, sidecar, lines, date, spoiled>>
        /\ done' = done \cup {idx} /\ idx \in Tickers /\ date \in Dates
    BY <1>2 DEF Fetch, onDisk, SweepTypeOK
  <2>2. CASE idx \in done
    <3>1. UNCHANGED <<done, records, pending>>
      BY <1>2, <2>2 DEF Fetch
    <3> QED
      BY <2>1, <3>1 DEF ExactInv
  <2>3. CASE idx \notin done
    <3>1. records' = Plus(records, bar) /\ pending' = pending \cup bar
      BY <1>2, <2>3 DEF Fetch
    <3>2. \A b \in Bars : b \in bar <=> b \in Due(date) /\ b[1] = idx
      BY <2>1 DEF Due, Bars
    <3>3. ASSUME ~spoiled, NEW b \in Bars
          PROVE  /\ records'[b] = Count(b \in Due(date) /\ b[1] \in done')
                 /\ lines[b] = Count(b \in Due(date) /\ b[1] \in done' /\ b \notin pending')
      <4>1. /\ records[b] = Count(b \in Due(date) /\ b[1] \in done)
            /\ lines[b] = Count(b \in Due(date) /\ b[1] \in done /\ b \notin pending)
            /\ b \in pending => b[1] \in done
        BY <2>1, <3>3 DEF ExactInv
      <4>2. records'[b] = IF b \in bar THEN records[b] + 1 ELSE records[b]
        BY <3>1 DEF Plus
      <4>3. CASE b \in bar
        BY <2>1, <2>3, <3>1, <3>2, <4>1, <4>2, <4>3 DEF Count
      <4>4. CASE b \notin bar
        BY <2>1, <2>3, <3>1, <3>2, <4>1, <4>2, <4>4 DEF Count
      <4> QED
        BY <4>3, <4>4
    <3>4. ~spoiled => \A b \in pending' : b \in Due(date) /\ b[1] \in done'
      BY <2>1, <3>1, <3>2 DEF ExactInv, Bars, Due
    <3>5. /\ (sidecar = "none" => lines = NoBars)
          /\ ~spoiled => /\ sidecar \in {"none", "whole"}
                         /\ ckpt # None /\ sidecar = "whole" => \A b \in Bars :
                              lines[b] = Count(b \in Due(ckpt.date) /\ b[1] \in ckpt.done)
      BY <2>1 DEF ExactInv
    <3> QED
      BY <2>1, <3>3, <3>4, <3>5 DEF ExactInv
  <2> QED
    BY <2>2, <2>3
<1>3. CASE AppendBars
  <2>1. /\ UNCHANGED <<ckpt, date, idx, done, records, spoiled>>
        /\ pc = "append" /\ pc' = "save" /\ pending' = {} /\ lines' = Plus(lines, pending)
        /\ pending = {} => sidecar' = sidecar
        /\ pending # {} => sidecar' = Extended
    BY <1>3 DEF AppendBars
  <2>2. /\ ~spoiled => sidecar' \in {"none", "whole"}
        /\ sidecar' = "none" => sidecar = "none" /\ pending = {}
    BY <2>1 DEF ExactInv, Extended
  <2>3. sidecar' = "none" => lines' = NoBars
    BY <2>1, <2>2 DEF ExactInv, Plus, NoBars
  <2>4. ASSUME ~spoiled, NEW b \in Bars
        PROVE  lines'[b] = Count(b \in Due(date) /\ b[1] \in done)
    <3>1. /\ lines[b] = Count(b \in Due(date) /\ b[1] \in done /\ b \notin pending)
          /\ b \in pending => b \in Due(date) /\ b[1] \in done
      BY <2>1, <2>4 DEF ExactInv
    <3>2. lines'[b] = IF b \in pending THEN lines[b] + 1 ELSE lines[b]
      BY <2>1 DEF Plus
    <3> QED
      BY <3>1, <3>2 DEF Count
  <2> QED
    BY <2>1, <2>2, <2>3, <2>4 DEF ExactInv
<1>4. CASE Save
  <2>1. /\ UNCHANGED <<sidecar, lines, date, done, records, pending, spoiled>>
        /\ pc = "save" /\ ckpt' = [date |-> date, done |-> done]
        /\ pc' \in {"land", "sweep"}
    BY <1>4 DEF Save, Advance
  <2>2. pending = {}
    BY <2>1 DEF ExactInv
  <2> QED
    BY <2>1, <2>2 DEF ExactInv
<1>5. CASE Land
  BY <1>5 DEF Land, onDisk, ExactInv
<1>6. CASE UnlinkCheckpoint
  BY <1>6 DEF UnlinkCheckpoint, ExactInv
<1>7. CASE UnlinkPartial
  BY <1>7 DEF UnlinkPartial, ExactInv
<1>8. CASE Crash
  BY <1>8 DEF Crash, Died, ExactInv
<1>9. CASE CrashAppending
  <2>1. /\ pc' = "idle" /\ spoiled' = TRUE /\ sidecar' # "none"
    BY <1>9 DEF CrashAppending, Died
  <2> QED
    BY <2>1 DEF ExactInv
<1>10. CASE UNCHANGED sweepVars
  BY <1>10 DEF sweepVars, ExactInv
<1> QED
  BY <1>1, <1>2, <1>3, <1>4, <1>5, <1>6, <1>7, <1>8, <1>9, <1>10 DEF SweepNext

\* Unless one of the two named causes was met, a sweep lands each bar of its
\* date once and nothing else.
THEOREM SweepIsExact == SweepSpec => []ExactUnlessSpoiled
<1>1. GapInv /\ ExactInv => ExactUnlessSpoiled
  <2> SUFFICES ASSUME GapInv, ExactInv, pc = "land", ~spoiled, NEW b \in Bars
               PROVE  records[b] = IF b \in Due(date) THEN 1 ELSE 0
    BY DEF ExactUnlessSpoiled
  <2>1. b \in Due(date) => b[1] \in done
    BY DueIsBars DEF GapInv, SweepTypeOK, Position
  <2> QED
    BY <2>1 DEF ExactInv, Count
<1>2. GapInv => SweepTypeOK
  BY DEF GapInv
<1> QED
  BY <1>1, <1>2, GapInit, GapStep, ExactInit, ExactStep, PTL DEF SweepSpec
-----------------------------------------------------------------------------
(***************************************************************************)
(* SharedTokenBucket: the bucket keeps its rate, and a stamped wait its    *)
(* claim, for any sizes of bucket, reserve, claim and clock step.          *)
(***************************************************************************)

\* The file never shows more than the bucket in real time holds.
Covered == Have <= credit

\* A sleeper is never later than the scheduler's lag; a stamped one sleeps one
\* tick, and the claim in the file outlives that sleep.
ClaimHeld ==
    /\ \A c \in waiting : nap[c] >= 0 - Lag
    /\ \A c \in owed : nap[c] <= 1 /\ file = "state" /\ claim >= Claim - 1 + nap[c]

BInv == BucketTypeOK /\ Covered /\ ClaimHeld

LEMMA HaveRange == BucketTypeOK => Have \in 0..Burst
  BY BucketAssumption DEF BucketTypeOK, Have, MinOf, MaxOf

\* A write restarts the clock on the tokens it stores.
LEMMA HaveWritten ==
  ASSUME NEW t \in 0..Burst, NEW k, Write(t, k)
  PROVE  Have' = t
  BY BucketAssumption DEF Write, Have, MinOf, MaxOf

LEMMA ClaimRange == BucketTypeOK => LiveClaim \in Int /\ Past \in Int
  BY BucketAssumption DEF BucketTypeOK, LiveClaim, Past, MinOf

LEMMA HeldInit == BucketInit => BInv
<1> SUFFICES ASSUME BucketInit PROVE BInv
  OBVIOUS
<1>1. Past \in Int
  BY BucketAssumption DEF Past
<1>2. BucketTypeOK
  BY <1>1, BucketAssumption DEF BucketInit, BucketTypeOK
<1>3. Covered
  BY BucketAssumption DEF BucketInit, Covered, Have
<1>4. ClaimHeld
  BY DEF BucketInit, ClaimHeld
<1> QED
  BY <1>2, <1>3, <1>4 DEF BInv

LEMMA HeldStep == BInv /\ [BucketNext]_bucketVars => BInv'
<1> SUFFICES ASSUME BInv, [BucketNext]_bucketVars PROVE BInv'
  OBVIOUS
<1> USE BucketAssumption
<1>1. /\ BucketTypeOK /\ Covered /\ ClaimHeld
      /\ Have \in 0..Burst /\ LiveClaim \in Int /\ Past \in Int
  BY HaveRange, ClaimRange DEF BInv
<1>2. ASSUME NEW c \in Callers, Request(c) PROVE BInv'
  <2>1. BucketTypeOK'
    BY <1>2, <1>1 DEF Request, BucketTypeOK
  <2>2. Covered'
    BY <1>2, <1>1 DEF Request, Covered, Have
  <2>3. ClaimHeld'
    BY <1>2, <1>1 DEF Request, ClaimHeld, BucketTypeOK
  <2> QED
    BY <2>1, <2>2, <2>3 DEF BInv
<1>3. ASSUME NEW c \in Callers, Park(c) PROVE BInv'
  <2>1. BucketTypeOK'
    BY <1>3, <1>1 DEF Park, Write, BucketTypeOK, MinOf
  <2>2. Covered'
    BY <1>3, <1>1, HaveWritten DEF Park, Covered
  <2>3. c \notin owed
    BY <1>3, <1>1 DEF Park, BucketTypeOK
  <2>4. ClaimHeld'
    BY <1>3, <1>1, <2>3
    DEF Park, Write, Awake, ClaimHeld, BucketTypeOK, MinOf, LiveClaim
  <2> QED
    BY <2>1, <2>2, <2>4 DEF BInv
<1>4. ASSUME NEW c \in Callers, Grant(c) PROVE BInv'
  <2>1. Have - 1 \in 0..Burst
    BY <1>4, <1>1 DEF Grant, Floor
  <2>2. BucketTypeOK'
    BY <1>4, <1>1, <2>1 DEF Grant, Write, BucketTypeOK
  <2>3. Covered'
    BY <1>4, <1>1, <2>1, HaveWritten DEF Grant, Covered, BucketTypeOK
  <2>4. ClaimHeld'
    BY <1>4, <1>1 DEF Grant, Write, ClaimHeld, BucketTypeOK, MinOf, LiveClaim
  <2> QED
    BY <2>2, <2>3, <2>4 DEF BInv
<1>5. ASSUME NEW c \in Callers, Wait(c) PROVE BInv'
  <2>1. BucketTypeOK'
    BY <1>5, <1>1 DEF Wait, Write, Awake, Floor, BucketTypeOK, Callers
  <2>2. Covered'
    BY <1>5, <1>1, HaveWritten DEF Wait, Covered
  <2>3. ClaimHeld'
    <3>1. CASE c \in Low
      \* Only an expired claim lets a LOW caller this far, so nobody is owed.
      <4>1. owed = {}
        BY <1>5, <1>1, <3>1, ClaimOutlastsSleep
        DEF Wait, MayDraw, ClaimHeld, LiveClaim, MinOf, BucketTypeOK
      <4> QED
        BY <1>5, <1>1, <3>1, <4>1 DEF Wait, Awake, Floor, ClaimHeld, BucketTypeOK
    <3>2. CASE c \notin Low
      <4>1. Have = 0 /\ Floor(c) = 0
        BY <1>5, <1>1, <3>2 DEF Wait, Floor
      <4>2. /\ nap' = [nap EXCEPT ![c] = 1] /\ owed' = owed \cup {c}
            /\ file' = "state" /\ claim' = Claim /\ waiting' = waiting
        BY <1>5, <3>2, <4>1 DEF Wait, Write
      <4> QED
        BY <1>1, <4>2 DEF ClaimHeld, BucketTypeOK
    <3> QED
      BY <3>1, <3>2
  <2> QED
    BY <2>1, <2>2, <2>3 DEF BInv
<1>6. ASSUME NEW c \in Callers, Die(c) PROVE BInv'
  <2>1. BucketTypeOK'
    BY <1>6, <1>1 DEF Die, BucketTypeOK
  <2>2. Covered'
    BY <1>6, <1>1 DEF Die, Covered, Have
  <2>3. ClaimHeld'
    BY <1>6, <1>1 DEF Die, ClaimHeld
  <2> QED
    BY <2>1, <2>2, <2>3 DEF BInv
<1>7. ASSUME NEW c \in Callers, DieWriting(c) PROVE BInv'
  <2>1. BucketTypeOK'
    BY <1>7, <1>1 DEF DieWriting, Upset, BucketTypeOK
  <2>2. Covered'
    BY <1>7, <1>1 DEF DieWriting, Upset, Covered, Have
  <2>3. ClaimHeld'
    BY <1>7, <1>1 DEF DieWriting, Upset, ClaimHeld
  <2> QED
    BY <2>1, <2>2, <2>3 DEF BInv
<1>8. ASSUME NEW d \in ((0 - Jump)..Jump) \ {0}, StepClock(d) PROVE BInv'
  <2>1. BucketTypeOK'
    BY <1>8, <1>1 DEF StepClock, Upset, BucketTypeOK, MinOf, MaxOf
  <2>2. Covered'
    BY <1>8, <1>1 DEF StepClock, Upset, Covered, Have, MinOf, MaxOf, BucketTypeOK
  <2>3. ClaimHeld'
    BY <1>8, <1>1 DEF StepClock, Upset, ClaimHeld
  <2> QED
    BY <2>1, <2>2, <2>3 DEF BInv
<1>9. CASE Tick
  <2>1. BucketTypeOK'
    BY <1>9, <1>1 DEF Tick, BucketTypeOK, MinOf, MaxOf
  <2>2. Covered'
    BY <1>9, <1>1 DEF Tick, Covered, Have, MinOf, MaxOf, BucketTypeOK
  <2>3. ClaimHeld'
    BY <1>9, <1>1 DEF Tick, ClaimHeld, BucketTypeOK, MaxOf, Callers
  <2> QED
    BY <2>1, <2>2, <2>3 DEF BInv
<1>10. CASE UNCHANGED bucketVars
  BY <1>10, <1>1 DEF bucketVars, BInv, BucketTypeOK, Covered, Have, ClaimHeld
<1> QED
  BY <1>2, <1>3, <1>4, <1>5, <1>6, <1>7, <1>8, <1>9, <1>10 DEF BucketNext, Attempt

THEOREM BucketInvariance == BucketSpec => []BInv
  BY HeldInit, HeldStep, PTL DEF BucketSpec

\* All callers of all processes together draw no more than one bucket of Burst
\* tokens refilled in real time allows.
THEOREM RateIsKept == BucketSpec => []WithinAllowance
<1>1. BInv => WithinAllowance
  BY HaveRange, BucketAssumption DEF BInv, Covered, WithinAllowance, BucketTypeOK
<1> QED
  BY <1>1, BucketInvariance, PTL

\* While a NORMAL caller's stamped wait lasts, LOW callers find a live claim.
THEOREM PreemptionIsSustained == BucketSpec => []ClaimCoversWaiters
<1>1. BInv => ClaimCoversWaiters
  BY ClaimOutlastsSleep, BucketAssumption
  DEF BInv, ClaimHeld, ClaimCoversWaiters, LiveClaim, MinOf, BucketTypeOK
<1> QED
  BY <1>1, BucketInvariance, PTL

\* Every variable keeps its type.
THEOREM BucketTypes == BucketSpec => []BucketTypeOK
<1>1. BInv => BucketTypeOK
  BY DEF BInv
<1> QED
  BY <1>1, BucketInvariance, PTL
-----------------------------------------------------------------------------
(***************************************************************************)
(* AppendingSyncs.  The newest and the oldest of a set of dates.           *)
(***************************************************************************)
LEMMA LeastOf ==
    ASSUME NEW T, T \subseteq Nat, T # {}
    PROVE  \E m \in T : \A n \in T : m <= n
<1>1. PICK m \in T : \A n \in T : <<n, m>> \notin OpToRel(<, Nat)
  BY WFMin, NatLessThanWellFounded, Zenon
<1>2. ASSUME NEW n \in T PROVE ~(n < m)
  <2>1. n \in Nat /\ m \in Nat
    OBVIOUS
  <2> SUFFICES ASSUME n < m PROVE FALSE
    OBVIOUS
  <2> QED
    BY <1>1, <2>1, Zenon DEF OpToRel
<1>3. \A n \in T : m <= n
  BY <1>2
<1> QED
  BY <1>3

LEMMA GreatestIs ==
    ASSUME NEW S, S \subseteq Int, NEW m \in S, \A x \in S : x <= m
    PROVE  Max(S) = m
<1>1. \A x \in S : m >= x
  OBVIOUS
<1> DEFINE g == Max(S)
<1>2. g \in S /\ \A x \in S : g >= x
  BY <1>1 DEF Max
<1>3. g = m
  <2> HIDE DEF g
  <2> QED
    BY <1>2
<1> QED
  BY <1>3

LEMMA MaxIsGreatest ==
    ASSUME NEW S, NEW a \in Int, NEW b \in Int, S \subseteq a..b, S # {}
    PROVE  Max(S) \in S /\ \A x \in S : x <= Max(S)
<1> DEFINE T == {n \in Nat : b - n \in S}
<1>1. T \subseteq Nat /\ T # {}
  <2>1. PICK x \in S : TRUE
    OBVIOUS
  <2>2. b - x \in Nat /\ b - (b - x) = x
    BY <2>1
  <2> QED
    BY <2>1, <2>2
<1>2. PICK m \in T : \A n \in T : m <= n
  <2> HIDE DEF T
  <2> QED
    BY <1>1, LeastOf
<1>3. \A x \in S : b - x \in T /\ x \in Int
  OBVIOUS
<1>4. m \in Nat /\ b - m \in S
  OBVIOUS
<1>5. ASSUME NEW x \in S PROVE x <= b - m
  <2>1. b - x \in T /\ x \in Int
    BY <1>3
  <2> HIDE DEF T
  <2>2. m <= b - x
    BY <1>2, <2>1
  <2> QED
    BY <1>4, <2>1, <2>2
<1> HIDE DEF T
<1> QED
  <2> DEFINE g == b - m
  <2>1. g \in S /\ \A x \in S : x <= g
    BY <1>4, <1>5
  <2> HIDE DEF g
  <2> QED
    BY <2>1, <1>3, GreatestIs

LEMMA LastIndex ==
    ASSUME NEW n \in Int, NEW S, S \subseteq 1..n, S # {}
    PROVE  Max(S) \in S /\ \A x \in S : x <= Max(S)
<1>1. 1 \in Int
  OBVIOUS
<1> QED
  BY <1>1, MaxIsGreatest

LEMMA MinIsLeast ==
    ASSUME NEW S, NEW a \in Int, NEW b \in Int, S \subseteq a..b, S # {}
    PROVE  Min(S) \in S /\ \A x \in S : Min(S) <= x
<1> DEFINE T == {n \in Nat : a + n \in S}
<1>1. T \subseteq Nat /\ T # {}
  <2>1. PICK x \in S : TRUE
    OBVIOUS
  <2>2. x - a \in Nat /\ a + (x - a) = x
    BY <2>1
  <2> QED
    BY <2>1, <2>2
<1>2. PICK m \in T : \A n \in T : m <= n
  <2> HIDE DEF T
  <2> QED
    BY <1>1, LeastOf
<1>3. \A x \in S : x - a \in T /\ x \in Int
  OBVIOUS
<1>4. m \in Nat /\ a + m \in S
  OBVIOUS
<1>5. ASSUME NEW x \in S PROVE a + m <= x
  <2>1. x - a \in T /\ x \in Int
    BY <1>3
  <2> HIDE DEF T
  <2>2. m <= x - a
    BY <1>2, <2>1
  <2> QED
    BY <1>4, <2>1, <2>2
<1> HIDE DEF T
<1> QED
  <2> DEFINE l == a + m
  <2>1. l \in S /\ \A x \in S : l <= x
    BY <1>4, <1>5
  <2> HIDE DEF l
  <2> QED
    BY <2>1, <1>3 DEF Min

(***************************************************************************)
(* Types.                                                                  *)
(***************************************************************************)
SourceSet == {"treasury_yields", "inflation"}

LEMMA SourcesAre == ToSet(SOURCES) = SourceSet /\ SourceSet \subseteq Datasets
  BY DEF ToSet, SOURCES, SourceSet, Datasets

\* The underlyings, and what stands in their place for the other jobs.
Name == STRING \cup {"SPY", "none"} \cup Scopes

\* The datasets each job writes.
DatasetsOf(j) ==
    IF j = "contracts_sync" THEN {"contracts", "contracts_expired"}
    ELSE IF j = "dividends_sync" THEN {"dividends", "splits"}
    ELSE IF j = "rates_sync" THEN SourceSet
    ELSE {"ibkr_executions"}

RunOf == [at : RunState, todo : Seq(DatasetsOf(job) \X Name), rows : SUBSET Int,
          base : SUBSET Int, full : BOOLEAN, cur : [SourceSet -> Int],
          done : SUBSET Datasets, landed : BOOLEAN, dt : Days,
          asked : Days \cup {AnyDate}, polls : Nat]
FileOf == [by : Name, rows : SUBSET Int, of : Procs \cup {"none"}]

RunTyped  == run \in [Procs -> RunOf]
PartTyped == part \in [Datasets -> [Days -> Seq(FileOf)]]
RestTyped ==
    /\ job \in Jobs /\ day \in Days /\ due \in 0..2 /\ tries \in 0..(StartLimitBurst - 1)
    /\ cursor \in [SourceSet -> Int] /\ typed \subseteq Days
    /\ hands \in 0..MaxHands /\ faults \in 0..MaxFaults
Typed == RunTyped /\ PartTyped /\ RestTyped

LEMMA TypedOK == Typed => TypeOK
<1> SUFFICES ASSUME Typed PROVE TypeOK
  OBVIOUS
<1>1. \A p \in Procs : run[p].at \in RunState /\ run[p].full \in BOOLEAN
  BY DEF Typed, RunTyped, RunOf
<1>2. ASSUME NEW ds \in Datasets, NEW d \in Days, NEW f \in ToSet(part[ds][d])
      PROVE  f.of \in Procs \cup {"none"} /\ f.rows \subseteq Int
  <2>1. part[ds][d] \in Seq(FileOf)
    BY DEF Typed, PartTyped
  <2>2. f \in FileOf
    BY <2>1 DEF ToSet
  <2> QED
    BY <2>2 DEF FileOf
<1> QED
  BY <1>1, <1>2, SourcesAre DEF Typed, RestTyped, TypeOK

LEMMA DatasetsOfJob == \A j : DatasetsOf(j) \subseteq Datasets
  BY SourcesAre DEF DatasetsOf, Datasets

LEMMA IdleTyped == Idle \in RunOf
<1>1. 1 \in Days /\ Never \in Int
  BY ReferenceAssumption DEF Days, Never
<1> QED
  BY <1>1, SourcesAre DEF Idle, RunOf, RunState, AnyDate

LEMMA FailedTyped == [Idle EXCEPT !.at = "failed"] \in RunOf
  BY IdleTyped DEF RunOf, RunState

LEMMA StartingTyped ==
    ASSUME Typed, NEW todo \in Seq(DatasetsOf(job) \X Name), NEW full \in BOOLEAN
    PROVE  Starting(todo, full) \in RunOf
<1>1. Idle \in RunOf /\ cursor \in [SourceSet -> Int] /\ day \in Days
  BY IdleTyped DEF Typed, RestTyped
<1> QED
  BY <1>1 DEF Starting, RunOf, RunState

(***************************************************************************)
(* The items of the runs.                                                  *)
(***************************************************************************)
LEMMA Kinds ==
    ASSUME NEW e \in BOOLEAN, NEW l \in BOOLEAN
    PROVE  LET live  == IF l THEN <<"contracts">> ELSE <<>>
               kinds == live \o IF e THEN <<"contracts_expired">> ELSE <<>>
           IN /\ kinds \in Seq({"contracts", "contracts_expired"})
              /\ Len(kinds) \in 0..2
              /\ \A k \in 1..Len(kinds) : kinds[k] = "contracts" => l
<1> DEFINE live  == IF l THEN <<"contracts">> ELSE <<>>
           exp   == IF e THEN <<"contracts_expired">> ELSE <<>>
           S == {"contracts", "contracts_expired"}
<1>1. live \in Seq(S) /\ Len(live) \in 0..1 /\ \A k \in 1..Len(live) : live[k] = "contracts" => l
  <2>1. CASE l
    BY <2>1
  <2>2. CASE ~l
    <3>1. live = <<>> /\ Len(live) = 0
      BY <2>2
    <3> QED BY <3>1
  <2> QED
    BY <2>1, <2>2
<1>2. exp \in Seq(S) /\ Len(exp) \in 0..1 /\ \A k \in 1..Len(exp) : exp[k] # "contracts"
  <2>1. CASE e
    BY <2>1
  <2>2. CASE ~e
    <3>1. exp = <<>> /\ Len(exp) = 0
      BY <2>2
    <3> QED BY <3>1
  <2> QED
    BY <2>1, <2>2
<1> HIDE DEF live, exp, S
<1> DEFINE kinds == live \o exp
<1>3. kinds \in Seq(S) /\ Len(kinds) = Len(live) + Len(exp)
  BY <1>1, <1>2
<1>4. ASSUME NEW k \in 1..Len(kinds) PROVE kinds[k] = "contracts" => l
  <2>1. CASE k <= Len(live)
    BY <1>1, <1>2, <1>3, <2>1
  <2>2. CASE k > Len(live)
    BY <1>1, <1>2, <1>3, <2>2
  <2> QED
    BY <1>1, <1>2, <1>3, <2>1, <2>2
<1> HIDE DEF kinds
<1>5. kinds \in Seq(S) /\ Len(kinds) \in 0..2 /\ \A k \in 1..Len(kinds) : kinds[k] = "contracts" => l
  BY <1>1, <1>2, <1>3, <1>4
<1> QED
  BY <1>5 DEF kinds, live, exp, S

LEMMA ContractItemsTyped ==
    ASSUME NEW list \in Seq(Name), NEW expired \in BOOLEAN, NEW force \in BOOLEAN
    PROVE  /\ ContractItems(list, expired, force) \in
                 Seq({"contracts", "contracts_expired"} \X Name)
           /\ \A i \in DOMAIN ContractItems(list, expired, force) :
                 ContractItems(list, expired, force)[i][1] = "contracts" =>
                     SyncLive(expired, force)
<1> DEFINE live  == IF SyncLive(expired, force) THEN <<"contracts">> ELSE <<>>
           kinds == live \o IF expired THEN <<"contracts_expired">> ELSE <<>>
           n     == Len(kinds)
           all   == [i \in 1..(n * Len(list)) |->
                        <<kinds[1 + ((i - 1) % n)], list[1 + ((i - 1) \div n)]>>]
<1>1. /\ kinds \in Seq({"contracts", "contracts_expired"}) /\ n \in 0..2
      /\ \A k \in 1..n : kinds[k] = "contracts" => SyncLive(expired, force)
  BY Kinds
<1> HIDE DEF kinds
<1>2. ASSUME NEW i \in 1..(n * Len(list))
      PROVE  1 + ((i - 1) % n) \in 1..n /\ 1 + ((i - 1) \div n) \in 1..Len(list)
  <2>1. CASE n = 0
    BY <1>1, <2>1
  <2>2. CASE n = 1
    BY <1>1, <2>2
  <2>3. CASE n = 2
    BY <1>1, <2>3
  <2> QED
    BY <1>1, <2>1, <2>2, <2>3
<1>3. n * Len(list) \in Nat
  BY <1>1
<1>4. ASSUME NEW i \in 1..(n * Len(list))
      PROVE  /\ all[i] \in {"contracts", "contracts_expired"} \X Name
             /\ all[i][1] = kinds[1 + ((i - 1) % n)]
  BY <1>1, <1>2
<1>5. ContractItems(list, expired, force) = all
  BY DEF ContractItems, kinds
<1>6. all \in Seq({"contracts", "contracts_expired"} \X Name)
      /\ DOMAIN all = 1..(n * Len(list))
  BY <1>3, <1>4
<1>7. ASSUME NEW i \in DOMAIN all, all[i][1] = "contracts" PROVE SyncLive(expired, force)
  BY <1>1, <1>2, <1>4, <1>6, <1>7
<1> HIDE DEF all
<1> QED
  BY <1>5, <1>6, <1>7

LEMMA DividendItemsTyped == DividendItems \in Seq({"dividends", "splits"} \X Name)
  BY DEF DividendItems, Name

LEMMA FlexItemsTyped ==
    ASSUME NEW scope \in Scopes PROVE FlexItems(scope) \in Seq({"ibkr_executions"} \X Name)
<1>1. scope \in Name
  BY DEF Name
<1>2. <<"ibkr_executions", scope>> \in {"ibkr_executions"} \X Name
  BY <1>1
<1> QED
  BY <1>2 DEF FlexItems

LEMMA RateItemsTyped == RateItems \in Seq(SourceSet \X Name)
  BY DEF RateItems, SOURCES, SourceSet, Name
LEMMA NamesMore == Seq(STRING) \subseteq Seq(Name)
  BY DEF Name

LEMMA TimedTyped ==
    ASSUME NEW scope \in Scopes PROVE Timed(scope) \in Seq(DatasetsOf(job) \X Name)
<1>1. Underlyings \in Seq(Name)
  BY ReferenceAssumption, NamesMore
<1>2. CASE job = "contracts_sync"
  <2>1. Timed(scope) = ContractItems(Underlyings, day \notin Weekdays, FALSE)
    BY <1>2 DEF Timed
  <2> QED
    BY <1>1, <1>2, <2>1, ContractItemsTyped DEF DatasetsOf
<1>3. CASE job = "dividends_sync"
  <2>1. Timed(scope) = DividendItems
    BY <1>3 DEF Timed
  <2> QED
    BY <1>3, <2>1, DividendItemsTyped DEF DatasetsOf
<1>4. CASE job = "rates_sync"
  <2>1. Timed(scope) = RateItems
    BY <1>4 DEF Timed
  <2> QED
    BY <1>4, <2>1, RateItemsTyped DEF DatasetsOf
<1>5. CASE job \notin {"contracts_sync", "dividends_sync", "rates_sync"}
  <2>1. Timed(scope) = FlexItems(scope)
    BY <1>5 DEF Timed
  <2> QED
    BY <1>5, <2>1, FlexItemsTyped DEF DatasetsOf
<1> QED
  BY <1>2, <1>3, <1>4, <1>5

\* The live contracts among the unit's items belong to a session.
LEMMA TimedLive ==
    ASSUME NEW scope \in Scopes
    PROVE  \A i \in DOMAIN Timed(scope) :
              Timed(scope)[i][1] = "contracts" => day \in Sessions
<1>1. Underlyings \in Seq(Name)
  BY ReferenceAssumption, NamesMore
<1> SUFFICES ASSUME NEW i \in DOMAIN Timed(scope), Timed(scope)[i][1] = "contracts"
             PROVE  day \in Sessions
  OBVIOUS
<1>2. CASE job = "contracts_sync"
  <2>1. Timed(scope) = ContractItems(Underlyings, day \notin Weekdays, FALSE)
    BY <1>2 DEF Timed
  <2>2. SyncLive(day \notin Weekdays, FALSE)
    BY <1>1, <2>1, ContractItemsTyped
  <2> QED
    BY <2>2 DEF SyncLive, IsTradingDay
<1>3. CASE job # "contracts_sync"
  <2>1. Timed(scope) \in Seq(DatasetsOf(job) \X Name)
    BY TimedTyped
  <2>2. Timed(scope)[i][1] \in DatasetsOf(job)
    BY <2>1
  <2> QED
    BY <1>3, <2>2 DEF DatasetsOf, SourceSet
<1> QED
  BY <1>2, <1>3
-----------------------------------------------------------------------------
(***************************************************************************)
(* Types are kept.                                                         *)
(***************************************************************************)
Ready(p) == run[p].at \notin {"idle", "failed", "fetch"} => run[p].todo # <<>>
TypeInv  == Typed /\ \A p \in Procs : Ready(p)

LEMMA TypeInit == Init => TypeInv
<1> SUFFICES ASSUME Init PROVE TypeInv
  OBVIOUS
<1> USE ReferenceAssumption
<1>1. day \in Days
  <2>1. 1 <= LastDay
    OBVIOUS
  <2> QED
    BY <2>1 DEF Init, Days
<1>2. RestTyped
  <2>1. TimersOf(1) \in 0..2
    BY DEF TimersOf
  <2> QED
    BY <1>1, <2>1, SourcesAre DEF Init, RestTyped, Never, Days
<1>3. RunTyped
  BY <1>2, IdleTyped DEF Init, RunTyped
<1>4. PartTyped
  BY DEF Init, PartTyped
<1> QED
  BY <1>2, <1>3, <1>4 DEF TypeInv, Typed, Ready, Init, Idle

LEMMA RunChanges ==
    ASSUME TypeInv, UNCHANGED job, NEW p \in Procs, NEW r \in RunOf,
           r.at \notin {"idle", "failed", "fetch"} => r.todo # <<>>,
           run' = [run EXCEPT ![p] = r]
    PROVE  RunTyped' /\ \A q \in Procs : Ready(q)'
<1>1. run' \in [Procs -> RunOf] /\ RunOf' = RunOf
  BY DEF TypeInv, Typed, RunTyped, RunOf
<1>2. ASSUME NEW q \in Procs PROVE Ready(q)'
  BY DEF Ready, TypeInv, Typed, RunTyped
<1> QED
  BY <1>1, <1>2 DEF RunTyped

LEMMA PartKept ==
    ASSUME TypeInv, UNCHANGED part PROVE PartTyped'
  BY DEF TypeInv, Typed, PartTyped

\* The item a run is at.
LEMMA ItemTyped ==
    ASSUME TypeInv, NEW p \in Procs, run[p].todo # <<>>
    PROVE  /\ Item(p) \in DatasetsOf(job) \X Name /\ Item(p)[1] \in Datasets
           /\ Item(p) = run[p].todo[1] /\ 1 \in DOMAIN run[p].todo
           /\ Item(p)[1] \in DatasetsOf(job) /\ Item(p)[2] \in Name
           /\ Tail(run[p].todo) \in Seq(DatasetsOf(job) \X Name)
<1>1. run[p].todo \in Seq(DatasetsOf(job) \X Name)
  BY DEF TypeInv, Typed, RunTyped, RunOf
<1>2. Item(p) = run[p].todo[1] /\ 1 \in DOMAIN run[p].todo
  BY <1>1 DEF Item
<1>3. Item(p) \in DatasetsOf(job) \X Name /\ Tail(run[p].todo) \in Seq(DatasetsOf(job) \X Name)
  BY <1>1, <1>2
<1> QED
  BY <1>2, <1>3, DatasetsOfJob

\* The steps that start a run.
LEMMA StartTyped ==
    ASSUME TypeInv, UNCHANGED <<job, part>>, RestTyped', Start
    PROVE  TypeInv'
<1>0. PICK scope \in Scopes :
        run' = [run EXCEPT !["unit"] = IF Gated(day \notin Weekdays) THEN Idle
                                       ELSE Starting(Timed(scope), FALSE)]
  BY DEF Start
<1>1. /\ Starting(Timed(scope), FALSE) \in RunOf
      /\ Starting(Timed(scope), FALSE).at = "fetch"
  BY TimedTyped, StartingTyped DEF TypeInv, Starting, Idle
<1>2. Idle \in RunOf /\ Idle.at = "idle"
  BY IdleTyped DEF Idle
<1>3. RunTyped' /\ \A q \in Procs : Ready(q)'
  BY <1>0, <1>1, <1>2, RunChanges DEF Procs
<1> QED
  BY <1>3, PartKept DEF TypeInv, Typed

LEMMA HandTyped == ASSUME TypeInv, Hand PROVE TypeInv'
<1> USE ReferenceAssumption
<1>1. ASSUME NEW r \in RunOf, r.at = "fetch", run' = [run EXCEPT !["shell"] = r]
      PROVE  RunTyped' /\ \A q \in Procs : Ready(q)'
  BY <1>1, RunChanges DEF Procs, Hand
<1>2. /\ hands' \in 0..MaxHands /\ UNCHANGED <<job, day, due, tries, part, cursor, faults>>
  BY DEF Hand, TypeInv, Typed, RestTyped
<1>3. ASSUME NEW list \in ByHand, NEW expired \in BOOLEAN, NEW force \in BOOLEAN,
             HandContracts(list, expired, force)
      PROVE  TypeInv'
  <2> DEFINE todo == ContractItems(list, expired, force)
  <2>1. todo \in Seq(DatasetsOf(job) \X Name)
    BY <1>3, ContractItemsTyped, NamesMore DEF DatasetsOf, HandContracts
  <2>2. Starting(todo, FALSE) \in RunOf /\ Starting(todo, FALSE).at = "fetch"
    BY <2>1, StartingTyped DEF TypeInv, Starting, Idle
  <2>3. typed' \subseteq Days
    BY <1>3 DEF HandContracts, TypeInv, Typed, RestTyped
  <2> QED
    BY <1>1, <1>2, <1>3, <2>2, <2>3, PartKept DEF HandContracts, TypeInv, Typed, RestTyped
<1>4. CASE HandDividends
  <2>1. DividendItems \in Seq(DatasetsOf(job) \X Name)
    BY <1>4, DividendItemsTyped DEF DatasetsOf, HandDividends
  <2>2. Starting(DividendItems, FALSE) \in RunOf /\ Starting(DividendItems, FALSE).at = "fetch"
    BY <2>1, StartingTyped DEF TypeInv, Starting, Idle
  <2> QED
    BY <1>1, <1>2, <1>4, <2>2, PartKept DEF HandDividends, TypeInv, Typed, RestTyped
<1>5. ASSUME NEW asked \in Days \cup {AnyDate}, NEW scope \in Scopes,
             HandFlex(asked, scope)
      PROVE  TypeInv'
  <2>1. FlexItems(scope) \in Seq(DatasetsOf(job) \X Name)
    BY <1>5, FlexItemsTyped DEF DatasetsOf, HandFlex
  <2> DEFINE r == [Starting(FlexItems(scope), FALSE) EXCEPT !.asked = asked]
  <2>2. Starting(FlexItems(scope), FALSE) \in RunOf /\ Starting(FlexItems(scope), FALSE).at = "fetch"
    BY <2>1, StartingTyped DEF TypeInv, Starting, Idle
  <2>3. r \in RunOf /\ r.at = "fetch"
    BY <2>2 DEF RunOf
  <2>4. run' = [run EXCEPT !["shell"] = r] /\ UNCHANGED typed
    BY <1>5 DEF HandFlex
  <2> HIDE DEF r
  <2> QED
    BY <1>1, <1>2, <2>3, <2>4, PartKept DEF TypeInv, Typed, RestTyped
<1> QED
  BY <1>3, <1>4, <1>5 DEF Hand

LEMMA HandFullTyped == ASSUME TypeInv, HandFull PROVE TypeInv'
<1>1. RateItems \in Seq(DatasetsOf(job) \X Name)
  BY RateItemsTyped DEF DatasetsOf, HandFull
<1>2. Starting(RateItems, TRUE) \in RunOf /\ Starting(RateItems, TRUE).at = "fetch"
  BY <1>1, StartingTyped DEF TypeInv, Starting, Idle
<1>3. RunTyped' /\ \A q \in Procs : Ready(q)'
  BY <1>2, RunChanges DEF Procs, HandFull
<1> QED
  BY <1>3, PartKept DEF HandFull, TypeInv, Typed, RestTyped

\* The steps of a run, each as what becomes of the run.
LEMMA ListTyped == ASSUME TypeInv, NEW p \in Procs, FetchList(p) PROVE TypeInv'
<1> DEFINE ds == Item(p)[1]
           answer == CASE ds = "dividends" -> Events
                       [] ds = "splits"    -> {}
                       [] OTHER            -> Listing(Item(p)[2])
           r == [run[p] EXCEPT !.rows = answer,
                               !.at = IF job = "contracts_sync" THEN "baseline" ELSE "open"]
<1>1. run[p] \in RunOf /\ day \in Int /\ due \in Int /\ run[p].todo # <<>>
  BY ReferenceAssumption DEF TypeInv, Typed, RunTyped, RestTyped, Days, FetchList
<1>2. Events \subseteq Int /\ Listing(Item(p)[2]) \subseteq Int
  BY <1>1 DEF Events, Listing, Elapsed
<1>3. answer \subseteq Int
  BY <1>2
<1>4. run' = [run EXCEPT ![p] = r] /\ UNCHANGED <<job, part>>
  BY DEF FetchList, Steady, Quiet
<1> HIDE DEF answer
<1>5. r \in RunOf /\ r.todo # <<>>
  BY <1>1, <1>3 DEF RunOf, RunState
<1> HIDE DEF r
<1>6. RunTyped' /\ \A q \in Procs : Ready(q)'
  BY <1>4, <1>5, RunChanges
<1>7. RestTyped'
  BY DEF FetchList, Steady, Quiet, TypeInv, Typed, RestTyped
<1> QED
  BY <1>4, <1>6, <1>7, PartKept DEF TypeInv, Typed

LEMMA SendTyped == ASSUME TypeInv, NEW p \in Procs, FlexSend(p) PROVE TypeInv'
<1> DEFINE r == [run[p] EXCEPT !.at = "poll"]
<1>1. run[p] \in RunOf /\ run[p].todo # <<>>
  BY DEF TypeInv, Typed, RunTyped, FlexSend
<1>2. r \in RunOf /\ r.todo # <<>>
  BY <1>1 DEF RunOf, RunState
<1>3. run' = [run EXCEPT ![p] = r] /\ UNCHANGED <<job, part>>
  BY DEF FlexSend, Goto, Steady, Quiet
<1> HIDE DEF r
<1>4. RunTyped' /\ \A q \in Procs : Ready(q)'
  BY <1>2, <1>3, RunChanges
<1>5. RestTyped'
  BY DEF FlexSend, Steady, Quiet, TypeInv, Typed, RestTyped
<1> QED
  BY <1>3, <1>4, <1>5, PartKept DEF TypeInv, Typed

LEMMA GeneratingTyped == ASSUME TypeInv, NEW p \in Procs, FlexGenerating(p) PROVE TypeInv'
<1> DEFINE n == run[p].polls + 1
           r == IF n = POLL_TRIES THEN [Idle EXCEPT !.at = "failed"]
                ELSE [run[p] EXCEPT !.polls = n]
<1>1. run[p] \in RunOf /\ run[p].todo # <<>> /\ run[p].polls \in Nat
  BY DEF TypeInv, Typed, RunTyped, FlexGenerating, Ready, RunOf
<1>2. [run[p] EXCEPT !.polls = n] \in RunOf
  BY <1>1, SMTT(30) DEF RunOf
<1>3. r \in RunOf /\ (r.at # "failed" => r.todo # <<>>)
  BY <1>1, <1>2, FailedTyped DEF Idle
<1>4. run' = [run EXCEPT ![p] = r] /\ UNCHANGED <<job, part>>
  BY DEF FlexGenerating, Steady, Quiet
<1> HIDE DEF r
<1>5. RunTyped' /\ \A q \in Procs : Ready(q)'
  BY <1>3, <1>4, RunChanges
<1>6. RestTyped'
  BY DEF FlexGenerating, Steady, Quiet, TypeInv, Typed, RestTyped
<1> QED
  BY <1>4, <1>5, <1>6, PartKept DEF TypeInv, Typed

\* The days a statement may be of.
LEMMA PeriodsAreDays == ASSUME day \in Days PROVE Periods \subseteq Days
<1> DEFINE S == {d \in Days : d = 1 \/ (d \in Sessions /\ d < day)}
<1>1. S \subseteq 1..LastDay /\ 1 \in S
  BY ReferenceAssumption DEF Days
<1>2. Max(S) \in S
  <2> HIDE DEF S
  <2>1. LastDay \in Int /\ S # {}
    BY <1>1, ReferenceAssumption
  <2> QED
    BY <1>1, <2>1, LastIndex
<1> QED
  BY <1>2 DEF Periods

LEMMA PeriodsPast == ASSUME day \in Days PROVE \A d \in Periods : d <= day
<1> DEFINE S == {d \in Days : d = 1 \/ (d \in Sessions /\ d < day)}
<1>1. S \subseteq 1..LastDay /\ 1 \in S
  BY ReferenceAssumption DEF Days
<1>2. Max(S) \in S
  <2> HIDE DEF S
  <2>1. LastDay \in Int /\ S # {}
    BY <1>1, ReferenceAssumption
  <2> QED
    BY <1>1, <2>1, LastIndex
<1> QED
  BY <1>2 DEF Periods, Days

LEMMA ReadyTyped ==
    ASSUME TypeInv, NEW p \in Procs, NEW to \in Periods, NEW named \in BOOLEAN,
           FlexReady(p, to, named)
    PROVE  TypeInv'
<1> DEFINE dt == FlexDate(to, run[p].asked)
           got  == ParseTrades(Statement(to), Item(p)[2])
           rows == IF named \/ got = {} THEN got ELSE {Null}
           r == IF dt = 0 \/ ~CheckParsed(rows) THEN [Idle EXCEPT !.at = "failed"]
                ELSE IF rows = {} THEN [run[p] EXCEPT !.at = "fetch", !.todo = <<>>]
                ELSE [run[p] EXCEPT !.at = "open", !.dt = dt, !.rows = rows]
<1>1. run[p] \in RunOf /\ run[p].todo # <<>> /\ to \in Days /\ to \in Int
  BY PeriodsAreDays DEF TypeInv, Typed, RunTyped, RestTyped, FlexReady, Ready, Days
<1>2. rows \subseteq Int
  <2>1. Theirs(to) \in Int
    BY <1>1, ReferenceAssumption DEF Theirs, Never
  <2>2. Statement(to) \subseteq Int
    BY <1>1, <2>1 DEF Statement
  <2>3. ParseTrades(Statement(to), Item(p)[2]) \subseteq Int
    BY <2>2 DEF ParseTrades
  <2> QED
    BY <2>3 DEF Null
<1>3. dt \in Days \cup {0}
  BY <1>1 DEF FlexDate
<1>4. run' = [run EXCEPT ![p] = r] /\ UNCHANGED <<job, part>>
  BY DEF FlexReady, Quiet
<1> HIDE DEF rows, dt
<1>5. [run[p] EXCEPT !.at = "fetch", !.todo = <<>>] \in RunOf
  <2> DEFINE T == Seq(DatasetsOf(job) \X Name)
  <2>1. <<>> \in T
    OBVIOUS
  <2> HIDE DEF T
  <2> QED
    BY <1>1, <2>1 DEF RunOf, RunState, T
<1>6. dt # 0 => [run[p] EXCEPT !.at = "open", !.dt = dt, !.rows = rows] \in RunOf
  BY <1>1, <1>2, <1>3 DEF RunOf, RunState
<1>7. r \in RunOf /\ (r.at \notin {"failed", "fetch"} => r.todo # <<>>)
  BY <1>1, <1>5, <1>6, FailedTyped DEF Idle
<1> HIDE DEF r
<1>8. RunTyped' /\ \A q \in Procs : Ready(q)'
  BY <1>4, <1>7, RunChanges
<1>9. RestTyped'
  <2>1. faults' \in 0..MaxFaults
    BY ReferenceAssumption, SMTT(30) DEF FlexReady, TypeInv, Typed, RestTyped
  <2> QED
    BY <2>1 DEF FlexReady, Quiet, TypeInv, Typed, RestTyped
<1> QED
  BY <1>4, <1>8, <1>9, PartKept DEF TypeInv, Typed

\* The rows of a page are dates.
LEMMA NewestOf == ASSUME NEW S, NEW n PROVE Newest(S, n) \subseteq S
  BY DEF Newest

LEMMA PublishedRange ==
    ASSUME day \in Days
    PROVE  Published \subseteq (1 - History)..(day - 1) /\ Published \subseteq Int
  BY ReferenceAssumption DEF Published, Days

\* The dates a run of rates_sync has yet to be given.
Below(p, ds) == {d \in Published : d < Before(run[p], ds)}

\* What a page holds, and how far down it takes the cursor of --full.
LEMMA PageIs ==
    ASSUME TypeInv, NEW p \in Procs, run[p].todo # <<>>, job = "rates_sync", NEW n,
           NEW ds, ds = Item(p)[1],
           NEW rows, rows = Newest(Below(p, ds), n), rows # {}
    PROVE  /\ ds \in SourceSet /\ rows \subseteq Below(p, ds) /\ Below(p, ds) \subseteq Published
           /\ rows \subseteq Int /\ run[p].cur[ds] \in Int
           /\ run[p].full =>
                 LET low == Min({run[p].cur[ds]} \cup rows) IN
                 /\ low \in rows /\ low < run[p].cur[ds]
                 /\ \A x \in rows : low <= x
<1> USE ReferenceAssumption
<1>1. ds \in SourceSet
  BY ItemTyped DEF DatasetsOf
<1>2. rows \subseteq Below(p, ds) /\ Below(p, ds) \subseteq Published
  BY NewestOf DEF Below
<1>3. day \in Days /\ day \in Int /\ run[p].cur[ds] \in Int
  <2>1. day \in Days /\ day \in Int
    BY DEF TypeInv, Typed, RestTyped, Days
  <2>2. run[p].cur \in [SourceSet -> Int]
    BY DEF TypeInv, Typed, RunTyped, RunOf
  <2> QED
    BY <1>1, <2>1, <2>2
<1>4. Published \subseteq (1 - History)..(day - 1) /\ Published \subseteq Int
  BY <1>3, PublishedRange
<1>5. ASSUME run[p].full
      PROVE  LET low == Min({run[p].cur[ds]} \cup rows) IN
             low \in rows /\ low < run[p].cur[ds] /\ \A x \in rows : low <= x
  <2> DEFINE c == run[p].cur[ds]
             S == {c} \cup rows
             low == Min(S)
  <2>1. \A x \in rows : x < c
    BY <1>2, <1>5 DEF Before, Below
  <2>2. PICK y \in rows : TRUE
    OBVIOUS
  <2>3. History \in Int /\ c \in Int /\ day \in Int
    BY <1>3
  <2>4. \A x \in rows : x \in Int /\ 1 - History <= x /\ x < c
    <3>1. \A x \in rows : x \in (1 - History)..(day - 1)
      BY <1>2, <1>4
    <3> HIDE DEF c
    <3> QED
      BY <2>1, <2>3, <3>1
  <2>5. S \subseteq (1 - History)..c /\ S # {} /\ 1 - History \in Int /\ c \in Int
    <3>1. \A x \in S : x \in Int /\ 1 - History <= x /\ x <= c
      <4> HIDE DEF c
      <4>1. 1 - History <= c
        BY <2>2, <2>3, <2>4
      <4> QED
        BY <2>3, <2>4, <4>1
    <3> HIDE DEF c
    <3>2. S # {}
      BY <2>2
    <3> HIDE DEF S
    <3> QED
      BY <2>3, <3>1, <3>2
  <2>6. low \in S /\ \A x \in S : low <= x
    <3> HIDE DEF S, c
    <3> QED
      BY <2>5, MinIsLeast
  <2>7. low <= y /\ y < c /\ y \in Int /\ c \in Int /\ low \in Int
    BY <1>2, <1>4, <2>1, <2>2, <2>5, <2>6
  <2>8. low < c /\ low # c
    <3> HIDE DEF low, c
    <3> QED
      BY <2>7
  <2>9. low \in rows /\ \A x \in rows : low <= x
    BY <2>6, <2>8
  <2> QED
    BY <2>8, <2>9
<1> QED
  BY <1>1, <1>2, <1>3, <1>4, <1>5

\* What becomes of a run that asks for rates: it holds a page, or is done with
\* the dataset.
Page(p, pages) == Newest(Below(p, Item(p)[1]), pages * PAGE)
Holds(p, pages, r) ==
    /\ Page(p, pages) # {} /\ r.at = "open" /\ r.todo = run[p].todo
    /\ r.rows = Page(p, pages)
    /\ \A e \in SourceSet \ {Item(p)[1]} : r.cur[e] = run[p].cur[e]
    /\ r.cur[Item(p)[1]] = IF run[p].full THEN Min({run[p].cur[Item(p)[1]]} \cup r.rows)
                           ELSE run[p].cur[Item(p)[1]]
Passes(p, r) == r.at = "fetch" /\ r.todo = Tail(run[p].todo) /\ r.cur = run[p].cur

LEMMA RatesRun ==
    ASSUME TypeInv, NEW p \in Procs, NEW pages, FetchRates(p, pages)
    PROVE  \E r \in RunOf :
              /\ run' = [run EXCEPT ![p] = r] /\ r.dt = run[p].dt /\ r.full = run[p].full
              /\ Holds(p, pages, r) \/ Passes(p, r)
<1> DEFINE ds == Item(p)[1]
           rest == Below(p, ds)
           n == pages * PAGE
           rows == Newest(rest, n)
           low == Min({run[p].cur[ds]} \cup rows)
           c == IF run[p].full THEN low ELSE run[p].cur[ds]
           left == [run[p] EXCEPT !.rows = rows, !.cur[ds] = c, !.at = "open"]
           over(D) == [run[p] EXCEPT !.todo = Tail(@), !.done = D]
<1>1. /\ run[p] \in RunOf /\ run[p].todo # <<>> /\ run[p].at = "fetch"
      /\ job = "rates_sync"
  BY DEF TypeInv, Typed, RunTyped, FetchRates
<1>2. ASSUME rows # {}
      PROVE  /\ left \in RunOf /\ left.at = "open" /\ left.todo = run[p].todo
             /\ left.rows = rows /\ left.dt = run[p].dt /\ left.full = run[p].full
             /\ \A e \in SourceSet \ {ds} : left.cur[e] = run[p].cur[e]
             /\ left.cur[ds] = c
  <2>1. ds \in SourceSet /\ rows \subseteq Int /\ c \in Int
    <3>1. /\ ds \in SourceSet /\ rows \subseteq Int /\ run[p].cur[ds] \in Int
          /\ run[p].full => low \in rows
      <4>1. ds = Item(p)[1] /\ rows = Newest(Below(p, ds), n)
        OBVIOUS
      <4> HIDE DEF ds, rows, n
      <4> QED
        BY <1>1, <1>2, <4>1, PageIs, ZenonT(40)
    <3> QED
      BY <3>1
  <2> HIDE DEF c, rows, ds
  <2> QED
    BY <1>1, <2>1 DEF RunOf, RunState
<1>3. Tail(run[p].todo) \in Seq(DatasetsOf(job) \X Name) /\ ds \in Datasets
  BY <1>1, ItemTyped
<1>4. ASSUME NEW D \in SUBSET Datasets
      PROVE  /\ over(D) \in RunOf /\ over(D).at = "fetch" /\ over(D).dt = run[p].dt
             /\ over(D).todo = Tail(run[p].todo) /\ over(D).cur = run[p].cur
             /\ over(D).full = run[p].full
  BY <1>1, <1>3 DEF RunOf
<1>5. CASE rows # {}
  <2>1. run' = [run EXCEPT ![p] = left]
    BY <1>5, <1>1 DEF FetchRates, RunOf, Below
  <2>2. c = IF run[p].full THEN Min({run[p].cur[ds]} \cup rows) ELSE run[p].cur[ds]
    OBVIOUS
  <2> HIDE DEF left, c
  <2> QED
    BY <1>2, <1>5, <2>1, <2>2 DEF Holds, Page
<1>6. CASE rows = {}
  <2> DEFINE D == IF run[p].full /\ pages > 0 /\ rest = {} /\ run[p].cur[ds] # Never
                  THEN run[p].done \cup {ds} ELSE run[p].done
  <2>1. D \in SUBSET Datasets
    BY <1>1, <1>3 DEF RunOf
  <2>2. run' = [run EXCEPT ![p] = over(D)]
    BY <1>6 DEF FetchRates, Below
  <2> HIDE DEF over, D
  <2> QED
    BY <1>4, <2>1, <2>2 DEF Passes
<1> QED
  BY <1>5, <1>6

LEMMA RatesTyped ==
    ASSUME TypeInv, NEW p \in Procs, NEW pages, FetchRates(p, pages) PROVE TypeInv'
<1>1. PICK r \in RunOf : run' = [run EXCEPT ![p] = r] /\ (r.at # "fetch" => r.todo # <<>>)
  <2>1. run[p].todo # <<>>
    BY DEF FetchRates
  <2> QED
    BY <2>1, RatesRun DEF Holds, Passes
<1>2. UNCHANGED <<job, part>>
  BY DEF FetchRates, Steady, Quiet
<1>3. RunTyped' /\ \A q \in Procs : Ready(q)'
  BY <1>1, <1>2, RunChanges
<1>4. RestTyped'
  BY DEF FetchRates, Steady, Quiet, TypeInv, Typed, RestTyped
<1> QED
  BY <1>2, <1>3, <1>4, PartKept DEF TypeInv, Typed

\* A reader gives back numbers.
LEMMA NewestFiles ==
    ASSUME TypeInv, NEW ds \in Datasets, NEW d \in Days,
           NEW u \in DOMAIN FilesByUnderlying(ds, d)
    PROVE  \E i \in DOMAIN part[ds][d] :
              /\ part[ds][d][i].by = u /\ FilesByUnderlying(ds, d)[u] = part[ds][d][i]
              /\ \A j \in DOMAIN part[ds][d] : part[ds][d][j].by = u => j <= i
              /\ part[ds][d][i].rows \subseteq Int
<1> DEFINE files == part[ds][d]
           S == {i \in DOMAIN files : files[i].by = u}
<1>1. files \in Seq(FileOf)
  BY DEF TypeInv, Typed, PartTyped
<1>2. DOMAIN files = 1..Len(files) /\ Len(files) \in Int
      /\ \A i \in DOMAIN files : files[i] \in FileOf
  BY <1>1
<1>3. DOMAIN FilesByUnderlying(ds, d) = {files[i].by : i \in DOMAIN files}
      /\ FilesByUnderlying(ds, d)[u] = files[Max(S)]
  BY DEF FilesByUnderlying
<1>4. S \subseteq 1..Len(files) /\ S # {}
  BY <1>2, <1>3
<1>5. Max(S) \in S /\ \A j \in S : j <= Max(S)
  <2> HIDE DEF S, files
  <2> QED
    BY <1>2, <1>4, LastIndex
<1> QED
  BY <1>2, <1>3, <1>5 DEF FileOf

LEMMA ReadTyped ==
    ASSUME TypeInv, NEW ds \in Datasets, NEW d \in Days, NEW u
    PROVE  ReadAsof(ds, d, u) \subseteq Int
<1>1. Torn \subseteq Int
  BY ReferenceAssumption DEF Torn, NoDate
<1>2. ASSUME u \in DOMAIN FilesByUnderlying(ds, d)
      PROVE  FilesByUnderlying(ds, d)[u].rows \subseteq Int
  BY <1>2, NewestFiles
<1> QED
  BY <1>1, <1>2 DEF ReadAsof

LEMMA TickersTyped ==
    ASSUME TypeInv, NEW ds \in Datasets, NEW u PROVE PreviousTickers(ds, u) \subseteq Int
<1> DEFINE named == {d \in Partitions(ds) :
                       d <= day /\ u \in DOMAIN FilesByUnderlying(ds, d)}
           holds == {d \in named : ReadAsof(ds, d, u) # {}}
<1>1. holds \subseteq 1..LastDay /\ LastDay \in Int
  BY ReferenceAssumption DEF Partitions, Days
<1>2. PreviousTickers(ds, u) = IF holds = {} THEN {} ELSE ReadAsof(ds, Max(holds), u)
  BY DEF PreviousTickers
<1>3. holds # {} => Max(holds) \in Days
  <2> HIDE DEF holds
  <2> QED
    BY <1>1, LastIndex DEF Days
<1> HIDE DEF holds
<1> QED
  BY <1>2, <1>3, ReadTyped

LEMMA BaselineTyped == ASSUME TypeInv, NEW p \in Procs, Baseline(p) PROVE TypeInv'
<1> DEFINE base == PreviousTickers(Item(p)[1], Item(p)[2])
           r == IF base = Torn THEN [Idle EXCEPT !.at = "failed"]
                ELSE [run[p] EXCEPT !.base = base, !.at = "open"]
<1>1. run[p] \in RunOf /\ run[p].todo # <<>> /\ Item(p)[1] \in Datasets
  <2>1. run[p] \in RunOf /\ run[p].todo # <<>>
    BY DEF TypeInv, Typed, RunTyped, Baseline, Ready
  <2> QED
    BY <2>1, ItemTyped
<1>2. base \subseteq Int
  BY <1>1, TickersTyped
<1>3. run' = [run EXCEPT ![p] = r] /\ UNCHANGED <<job, part>>
  BY DEF Baseline, Steady, Quiet
<1> HIDE DEF base
<1>4. [run[p] EXCEPT !.base = base, !.at = "open"] \in RunOf
  BY <1>1, <1>2 DEF RunOf, RunState
<1>5. r \in RunOf /\ (r.at # "failed" => r.todo # <<>>)
  BY <1>1, <1>4, FailedTyped DEF Idle
<1> HIDE DEF r
<1>6. RunTyped' /\ \A q \in Procs : Ready(q)'
  BY <1>3, <1>5, RunChanges
<1>7. RestTyped'
  BY DEF Baseline, Steady, Quiet, TypeInv, Typed, RestTyped
<1> QED
  BY <1>3, <1>6, <1>7, PartKept DEF TypeInv, Typed

LEMMA OpenTyped == ASSUME TypeInv, NEW p \in Procs, Open(p) PROVE TypeInv'
<1> DEFINE ds == Item(p)[1]
           d  == run[p].dt
           f  == [by |-> Item(p)[2], rows |-> Torn, of |-> p]
           r  == [run[p] EXCEPT !.at = "finish"]
<1>1. run[p] \in RunOf /\ run[p].todo # <<>> /\ d \in Days
  BY DEF TypeInv, Typed, RunTyped, Open, Ready, RunOf
<1>2. ds \in Datasets /\ Item(p)[2] \in Name
  BY <1>1, ItemTyped
<1>3. f \in FileOf
  BY <1>2, ReferenceAssumption DEF FileOf, Torn, NoDate
<1>4. part' = [part EXCEPT ![ds][d] = Append(@, f)]
  BY DEF Open
<1> HIDE DEF f, ds, d
<1>5. PartTyped'
  <2>1. part \in [Datasets -> [Days -> Seq(FileOf)]]
    BY DEF TypeInv, Typed, PartTyped
  <2>2. Append(part[ds][d], f) \in Seq(FileOf)
    BY <1>1, <1>2, <1>3, <2>1
  <2> QED
    BY <1>4, <2>1, <2>2 DEF PartTyped
<1>6. r \in RunOf /\ r.todo # <<>> /\ run' = [run EXCEPT ![p] = r] /\ UNCHANGED job
  BY <1>1 DEF RunOf, RunState, Open, Goto, Steady, Quiet
<1> HIDE DEF r
<1>7. RunTyped' /\ \A q \in Procs : Ready(q)'
  BY <1>6, RunChanges
<1>8. RestTyped'
  BY DEF Open, Steady, Quiet, TypeInv, Typed, RestTyped
<1> QED
  BY <1>5, <1>7, <1>8 DEF TypeInv, Typed

LEMMA FinishTyped == ASSUME TypeInv, NEW p \in Procs, Finish(p) PROVE TypeInv'
<1> DEFINE ds == Item(p)[1]
           d  == run[p].dt
           mine == Max({i \in DOMAIN part[ds][d] : part[ds][d][i].of = p})
           r  == [run[p] EXCEPT !.at = "fetch", !.todo = Tail(@), !.base = {},
                                !.landed = TRUE, !.rows = {}]
<1>1. run[p] \in RunOf /\ run[p].todo # <<>> /\ d \in Days /\ run[p].rows \subseteq Int
  BY DEF TypeInv, Typed, RunTyped, Finish, Ready, RunOf
<1>2. ds \in Datasets /\ Tail(run[p].todo) \in Seq(DatasetsOf(job) \X Name)
  BY <1>1, ItemTyped
<1>3. part' = [part EXCEPT ![ds][d][mine] = [@ EXCEPT !.rows = run[p].rows, !.of = "none"]]
  BY DEF Finish
<1> HIDE DEF mine, ds, d
<1>4. PartTyped'
  <2>1. part \in [Datasets -> [Days -> Seq(FileOf)]]
    BY DEF TypeInv, Typed, PartTyped
  <2> DEFINE s == part[ds][d]
             t == [s EXCEPT ![mine] = [@ EXCEPT !.rows = run[p].rows, !.of = "none"]]
  <2>2. s \in Seq(FileOf)
    BY <1>1, <1>2, <2>1
  <2>3. t \in Seq(FileOf)
    <3>1. s \in [1..Len(s) -> FileOf] /\ Len(s) \in Nat
      BY <2>2
    <3>2. \A f \in FileOf : [f EXCEPT !.rows = run[p].rows, !.of = "none"] \in FileOf
      BY <1>1 DEF FileOf
    <3> HIDE DEF s
    <3>3. t \in [1..Len(s) -> FileOf]
      BY <3>1, <3>2
    <3> HIDE DEF t
    <3> QED
      BY <3>1, <3>3
  <2>4. part' = [part EXCEPT ![ds][d] = t]
    BY <1>3
  <2> HIDE DEF t
  <2> QED
    BY <2>1, <2>3, <2>4 DEF PartTyped
<1>5. r \in RunOf /\ r.at = "fetch" /\ run' = [run EXCEPT ![p] = r] /\ UNCHANGED job
  BY <1>1, <1>2 DEF RunOf, RunState, Finish, Steady, Quiet
<1> HIDE DEF r
<1>6. RunTyped' /\ \A q \in Procs : Ready(q)'
  BY <1>5, RunChanges
<1>7. RestTyped'
  BY DEF Finish, Steady, Quiet, TypeInv, Typed, RestTyped
<1> QED
  BY <1>4, <1>6, <1>7 DEF TypeInv, Typed

LEMMA EndTyped == ASSUME TypeInv, NEW p \in Procs, End(p) PROVE TypeInv'
<1> DEFINE r == IF job = "rates_sync" /\ ~run[p].landed /\ run[p].done = {}
                THEN [Idle EXCEPT !.at = "failed"] ELSE Idle
<1>1. r \in RunOf /\ r.at \in {"idle", "failed"}
  BY IdleTyped, FailedTyped DEF Idle
<1>2. run' = [run EXCEPT ![p] = r] /\ UNCHANGED <<job, part>>
  BY DEF End, Quiet
<1> HIDE DEF r
<1>3. RunTyped' /\ \A q \in Procs : Ready(q)'
  BY <1>1, <1>2, RunChanges
<1>4. RestTyped'
  <2>1. cursor' \in [SourceSet -> Int]
    BY DEF End, TypeInv, Typed, RunTyped, RunOf, RestTyped
  <2> QED
    BY <2>1 DEF End, Quiet, TypeInv, Typed, RestTyped
<1> QED
  BY <1>2, <1>3, <1>4, PartKept DEF TypeInv, Typed

LEMMA StopTyped ==
    ASSUME TypeInv, NEW p \in Procs, Fault(p) \/ GiveUp(p) PROVE TypeInv'
<1>1. PICK r \in {Idle, [Idle EXCEPT !.at = "failed"]} : run' = [run EXCEPT ![p] = r]
  BY DEF Fault, GiveUp
<1>2. r \in RunOf /\ r.at \in {"idle", "failed"}
  <2>1. CASE r = Idle
    BY <2>1, IdleTyped DEF Idle
  <2>2. CASE r = [Idle EXCEPT !.at = "failed"]
    BY <2>2, FailedTyped DEF Idle
  <2> QED
    BY <2>1, <2>2
<1>3. UNCHANGED <<job, part>>
  BY DEF Fault, GiveUp, Steady, Quiet
<1>4. RunTyped' /\ \A q \in Procs : Ready(q)'
  BY <1>1, <1>2, <1>3, RunChanges
<1>5. RestTyped'
  BY ReferenceAssumption DEF Fault, GiveUp, Steady, Quiet, TypeInv, Typed, RestTyped
<1> QED
  BY <1>3, <1>4, <1>5, PartKept DEF TypeInv, Typed

LEMMA ClockTyped == ASSUME TypeInv, Timer \/ Restart \/ Tomorrow PROVE TypeInv'
<1> USE ReferenceAssumption
<1>1. CASE Timer
  <2>1. RestTyped'
    BY <1>1 DEF Timer, TypeInv, Typed, RestTyped
  <2> QED
    BY <1>1, <2>1, StartTyped DEF Timer
<1>2. CASE Restart
  <2>1. RestTyped'
    BY <1>2 DEF Restart, TypeInv, Typed, RestTyped
  <2> QED
    BY <1>2, <2>1, StartTyped DEF Restart
<1>3. CASE Tomorrow
  <2>1. day' \in Days /\ due' \in 0..2
    BY <1>3, SMTT(30) DEF Tomorrow, Days, TimersOf, TypeInv, Typed, RestTyped
  <2>2. RestTyped'
    BY <1>3, <2>1 DEF Tomorrow, TypeInv, Typed, RestTyped
  <2>3. RunTyped' /\ \A q \in Procs : Ready(q)'
    BY <1>3 DEF Tomorrow, TypeInv, Typed, RunTyped, RunOf, Ready
  <2> QED
    BY <1>3, <2>2, <2>3, PartKept DEF Tomorrow, TypeInv, Typed
<1> QED
  BY <1>1, <1>2, <1>3

LEMMA TypeStep == TypeInv /\ [Next]_vars => TypeInv'
<1> SUFFICES ASSUME TypeInv, [Next]_vars PROVE TypeInv'
  OBVIOUS
<1>1. CASE UNCHANGED vars
  BY <1>1 DEF vars, TypeInv, Typed, RunTyped, PartTyped, RestTyped, RunOf, Ready
<1>2. CASE \E p \in Procs :
              \/ FetchList(p) \/ FlexSend(p) \/ FlexGenerating(p)
              \/ (\E to \in Periods, named \in BOOLEAN : FlexReady(p, to, named))
              \/ (\E n \in 0..Quota : FetchRates(p, n))
              \/ Baseline(p) \/ Open(p) \/ Finish(p) \/ End(p) \/ Fault(p) \/ GiveUp(p)
  BY <1>2, ListTyped, SendTyped, GeneratingTyped, ReadyTyped, RatesTyped,
     BaselineTyped, OpenTyped, FinishTyped, EndTyped, StopTyped
<1> QED
  BY <1>1, <1>2, ClockTyped, HandTyped, HandFullTyped DEF Next

LEMMA TypeInvariance == Spec => []TypeInv
<1> QED
  BY TypeInit, TypeStep, PTL DEF Spec

\* The state of the appending jobs keeps its types.
THEOREM AppendingTypes == Spec => []TypeOK
<1>1. TypeInv => TypeOK
  BY TypedOK DEF TypeInv
<1> QED
  BY <1>1, TypeInvariance, PTL

-----------------------------------------------------------------------------
(***************************************************************************)
(* What a run has in hand and what the files say.                          *)
(***************************************************************************)
Listings == {"contracts", "contracts_expired"}

\* The fills of a day, of the account or of all of them.
Filled(scope, d, rows) ==
    rows # {} /\ rows \subseteq IF scope = "account" THEN {d} ELSE {d, Theirs(d)}

\* What a whole file of a dataset, of an underlying and of a day, says.
Said(ds, by, d, rows) ==
    /\ ds \in Listings => rows \subseteq Nat /\ (rows = {} <=> by \in Unlisted)
    /\ ds = "dividends" => rows = 1..(d + 1)
    /\ ds = "splits" => rows = {}
    /\ ds = "ibkr_executions" => Filled(by, d, rows)
    /\ ds \in SourceSet => rows # {} /\ rows \subseteq (1 - History)..(d - 1)

Active(p)  == run[p].at \notin {"idle", "failed"}
Fetched(p) == run[p].at \in {"baseline", "open", "finish"}

\* The newest file a run has open is of the item it is at.
Mine(p) ==
    \E i \in DOMAIN part[Item(p)[1]][run[p].dt] :
        LET files == part[Item(p)[1]][run[p].dt] IN
        /\ files[i].of = p /\ files[i].by = Item(p)[2]
        /\ \A j \in DOMAIN files : files[j].of = p => j <= i

\* A run is of today, a statement of its day; its live contracts are of a
\* session, or of a day somebody forced; what it fetched is of its item.
RunOK(p) ==
    Active(p) =>
    /\ run[p].dt <= day
    /\ job # "ibkr_executions" => run[p].dt = day
    /\ \A i \in DOMAIN run[p].todo :
           run[p].todo[i][1] = "contracts" => run[p].dt \in Sessions \cup typed
    /\ run[p].at # "fetch" => run[p].todo # <<>>
    /\ run[p].at = "poll" => job = "ibkr_executions"
    /\ Fetched(p) => Said(Item(p)[1], Item(p)[2], run[p].dt, run[p].rows)
    /\ run[p].at = "finish" => Mine(p)

\* No partition is of a day to come; a file is torn, or says what it should.
FilesOK(ds, d) ==
    /\ d > day => part[ds][d] = <<>>
    /\ \A i \in DOMAIN part[ds][d] :
           \/ part[ds][d][i].rows = Torn
           \/ /\ part[ds][d][i].of = "none"
              /\ Said(ds, part[ds][d][i].by, d, part[ds][d][i].rows)
    /\ ds = "contracts" /\ part[ds][d] # <<>> => d \in Sessions \cup typed

FileInv == (\A p \in Procs : RunOK(p)) /\ (\A ds \in Datasets, d \in Days : FilesOK(ds, d))

LEMMA FileInit == Init => FileInv
<1> SUFFICES ASSUME Init PROVE FileInv
  OBVIOUS
<1>1. \A p \in Procs : RunOK(p)
  BY DEF Init, RunOK, Active, Idle
<1>2. \A ds \in Datasets, d \in Days : part[ds][d] = <<>>
  BY DEF Init
<1>3. \A ds \in Datasets, d \in Days : FilesOK(ds, d)
  BY <1>2 DEF FilesOK
<1> QED
  BY <1>1, <1>3 DEF FileInv

LEMMA RunKept ==
    ASSUME NEW q \in Procs, RunOK(q), run'[q] = run[q], UNCHANGED <<job, day>>,
           typed \subseteq typed', run[q].at = "finish" => Mine(q)'
    PROVE  RunOK(q)'
<1>1. Item(q)' = Item(q) /\ Active(q)' = Active(q) /\ Fetched(q)' = Fetched(q)
  BY DEF Item, Active, Fetched
<1> QED
  BY <1>1 DEF RunOK

LEMMA MineKept ==
    ASSUME NEW q \in Procs, RunOK(q), run[q].at = "finish", run'[q] = run[q],
           part'[Item(q)[1]][run[q].dt] = part[Item(q)[1]][run[q].dt]
    PROVE  Mine(q)'
<1>1. Mine(q) /\ Item(q)' = Item(q)
  BY DEF RunOK, Active, Item
<1> QED
  BY <1>1 DEF Mine

LEMMA FilesKept ==
    ASSUME NEW ds, NEW d \in Days, FilesOK(ds, d), part'[ds][d] = part[ds][d],
           day \in Days, day' \in Days, day <= day', typed \subseteq typed'
    PROVE  FilesOK(ds, d)'
<1>1. d > day' => d > day
  BY ReferenceAssumption DEF Days
<1> QED
  BY <1>1 DEF FilesOK

\* The steps that write nothing.
LEMMA QuietFiles ==
    ASSUME TypeInv, FileInv, UNCHANGED <<job, day, part>>, typed \subseteq typed',
           NEW p \in Procs, \A q \in Procs \ {p} : run'[q] = run[q], RunOK(p)'
    PROVE  FileInv'
<1>1. ASSUME NEW q \in Procs PROVE RunOK(q)'
  <2>1. CASE q = p
    BY <2>1
  <2>2. CASE q # p
    <3>1. RunOK(q) /\ run'[q] = run[q]
      BY <2>2 DEF FileInv
    <3>2. run[q].at = "finish" => Mine(q)'
      BY <3>1, MineKept
    <3> QED
      BY <3>1, <3>2, RunKept
  <2> QED
    BY <2>1, <2>2
<1>2. ASSUME NEW ds \in Datasets, NEW d \in Days PROVE FilesOK(ds, d)'
  <2>1. FilesOK(ds, d) /\ day \in Days /\ day <= day'
    BY ReferenceAssumption DEF FileInv, TypeInv, Typed, RestTyped, Days
  <2> QED
    BY <2>1, FilesKept
<1> QED
  BY <1>1, <1>2 DEF FileInv

\* Nothing is asked of a run that is over.
LEMMA OverFiles ==
    ASSUME TypeInv, FileInv, UNCHANGED <<job, day, part, typed>>,
           NEW p \in Procs, NEW r \in RunOf, r.at \in {"idle", "failed"},
           run' = [run EXCEPT ![p] = r]
    PROVE  FileInv'
<1>1. run'[p] = r /\ \A q \in Procs \ {p} : run'[q] = run[q]
  BY DEF TypeInv, Typed, RunTyped
<1>2. RunOK(p)'
  BY <1>1 DEF RunOK, Active
<1> QED
  BY <1>1, <1>2, QuietFiles

\* The steps that start a run.
LEMMA BeginFiles ==
    ASSUME TypeInv, FileInv, UNCHANGED <<job, day, part>>, typed \subseteq typed',
           NEW p \in Procs, NEW r \in RunOf, run' = [run EXCEPT ![p] = r],
           r.at = "fetch", r.dt = day,
           \A i \in DOMAIN r.todo : r.todo[i][1] = "contracts" => day \in Sessions \cup typed'
    PROVE  FileInv'
<1>1. run'[p] = r /\ \A q \in Procs \ {p} : run'[q] = run[q]
  BY DEF TypeInv, Typed, RunTyped
<1>2. day \in Int
  BY DEF TypeInv, Typed, RestTyped, Days
<1>3. RunOK(p)'
  BY <1>1, <1>2 DEF RunOK, Active, Fetched
<1> QED
  BY <1>1, <1>3, QuietFiles

LEMMA StartFiles ==
    ASSUME TypeInv, FileInv, UNCHANGED <<job, day, part, typed>>, Start PROVE FileInv'
<1>0. PICK scope \in Scopes :
        run' = [run EXCEPT !["unit"] = IF Gated(day \notin Weekdays) THEN Idle
                                       ELSE Starting(Timed(scope), FALSE)]
  BY DEF Start
<1> DEFINE r == Starting(Timed(scope), FALSE)
<1>1. r \in RunOf /\ r.at = "fetch" /\ r.dt = day /\ r.todo = Timed(scope)
  BY TimedTyped, StartingTyped DEF TypeInv, Starting, Idle
<1>2. "unit" \in Procs /\ Idle.at \in {"idle", "failed"}
  BY DEF Procs, Idle
<1> HIDE DEF r
<1>3. CASE run' = [run EXCEPT !["unit"] = r]
  BY <1>1, <1>2, <1>3, BeginFiles, TimedLive
<1>4. CASE run' = [run EXCEPT !["unit"] = Idle]
  <2> DEFINE i == Idle
  <2>1. i \in RunOf /\ i.at \in {"idle", "failed"} /\ run' = [run EXCEPT !["unit"] = i]
    BY <1>2, <1>4, IdleTyped
  <2> HIDE DEF i
  <2> QED
    BY <1>2, <2>1, OverFiles
<1> QED
  BY <1>0, <1>3, <1>4 DEF r

LEMMA NoContracts ==
    ASSUME NEW T, "contracts" \notin T, NEW todo \in Seq(T \X Name), NEW i \in DOMAIN todo
    PROVE  todo[i][1] # "contracts"
<1>1. todo[i] \in T \X Name
  OBVIOUS
<1>2. todo[i][1] \in T
  BY <1>1
<1> QED
  BY <1>2

LEMMA HandFiles == ASSUME TypeInv, FileInv, Hand PROVE FileInv'
<1>1. UNCHANGED <<job, day, part>> /\ "shell" \in Procs
  BY DEF Hand, Procs
<1>2. ASSUME NEW list \in ByHand, NEW expired \in BOOLEAN, NEW force \in BOOLEAN,
             HandContracts(list, expired, force)
      PROVE  FileInv'
  <2> DEFINE todo == ContractItems(list, expired, force)
             r == Starting(todo, FALSE)
  <2>1. /\ todo \in Seq(DatasetsOf(job) \X Name)
        /\ \A i \in DOMAIN todo : todo[i][1] = "contracts" => SyncLive(expired, force)
    BY <1>2, ContractItemsTyped, NamesMore, ReferenceAssumption DEF DatasetsOf, HandContracts
  <2>2. r \in RunOf /\ r.at = "fetch" /\ r.dt = day /\ r.todo = todo
    BY <2>1, StartingTyped DEF TypeInv, Starting, Idle
  <2>3. run' = [run EXCEPT !["shell"] = r] /\ typed \subseteq typed'
        /\ (force => day \in typed')
    BY <1>2 DEF HandContracts
  <2>4. \A i \in DOMAIN todo : todo[i][1] = "contracts" => day \in Sessions \cup typed'
    BY <2>1, <2>3 DEF SyncLive, IsTradingDay
  <2> HIDE DEF r, todo
  <2> QED
    BY <1>1, <2>2, <2>3, <2>4, BeginFiles
<1>3. CASE HandDividends
  <2> DEFINE r == Starting(DividendItems, FALSE)
  <2>1. DividendItems \in Seq(DatasetsOf(job) \X Name)
    BY <1>3, DividendItemsTyped DEF DatasetsOf, HandDividends
  <2>2. r \in RunOf /\ r.at = "fetch" /\ r.dt = day /\ r.todo = DividendItems
    BY <2>1, StartingTyped DEF TypeInv, Starting, Idle
  <2>3. run' = [run EXCEPT !["shell"] = r] /\ typed \subseteq typed'
    BY <1>3 DEF HandDividends
  <2> HIDE DEF r
  <2>4. \A i \in DOMAIN r.todo : r.todo[i][1] # "contracts"
    BY <2>2, DividendItemsTyped, NoContracts
  <2> HIDE DEF r
  <2> QED
    BY <1>1, <2>2, <2>3, <2>4, BeginFiles
<1>4. ASSUME NEW asked \in Days \cup {AnyDate}, NEW scope \in Scopes,
             HandFlex(asked, scope)
      PROVE  FileInv'
  <2> DEFINE s == Starting(FlexItems(scope), FALSE)
             r == [s EXCEPT !.asked = asked]
  <2>1. FlexItems(scope) \in Seq(DatasetsOf(job) \X Name)
    BY <1>4, FlexItemsTyped DEF DatasetsOf, HandFlex
  <2>2. s \in RunOf /\ s.at = "fetch" /\ s.dt = day /\ s.todo = FlexItems(scope)
    BY <2>1, StartingTyped DEF TypeInv, Starting, Idle
  <2> HIDE DEF s
  <2>3. r \in RunOf /\ r.at = "fetch" /\ r.dt = day /\ r.todo = FlexItems(scope)
    BY <2>2 DEF RunOf
  <2>4. run' = [run EXCEPT !["shell"] = r] /\ typed \subseteq typed'
    BY <1>4 DEF HandFlex, s
  <2>5. \A i \in DOMAIN r.todo : r.todo[i][1] # "contracts"
    BY <2>3 DEF FlexItems
  <2> HIDE DEF r
  <2> QED
    BY <1>1, <2>3, <2>4, <2>5, BeginFiles
<1> QED
  BY <1>2, <1>3, <1>4 DEF Hand

LEMMA HandFullFiles == ASSUME TypeInv, FileInv, HandFull PROVE FileInv'
<1> DEFINE r == Starting(RateItems, TRUE)
<1>1. RateItems \in Seq(DatasetsOf(job) \X Name)
  BY RateItemsTyped DEF DatasetsOf, HandFull
<1>2. r \in RunOf /\ r.at = "fetch" /\ r.dt = day /\ r.todo = RateItems
  BY <1>1, StartingTyped DEF TypeInv, Starting, Idle
<1>3. run' = [run EXCEPT !["shell"] = r] /\ UNCHANGED <<job, day, part, typed>>
      /\ "shell" \in Procs
  BY DEF HandFull, Procs
<1> HIDE DEF r
<1>4. \A i \in DOMAIN r.todo : r.todo[i][1] # "contracts"
  BY <1>2, RateItemsTyped, NoContracts DEF SourceSet
<1> QED
  BY <1>2, <1>3, <1>4, BeginFiles

\* A run that goes on, with the same items or with one less.
LEMMA GoOnFiles ==
    ASSUME TypeInv, FileInv, UNCHANGED <<job, day, part, typed>>,
           NEW p \in Procs, run[p].at \notin {"idle", "failed"},
           NEW r \in RunOf, run' = [run EXCEPT ![p] = r],
           r.todo = run[p].todo \/ (run[p].todo # <<>> /\ r.todo = Tail(run[p].todo))
                                \/ r.todo = <<>>,
           r.dt = run[p].dt,
           r.at = "fetch"
    PROVE  FileInv'
<1>1. run'[p] = r /\ \A q \in Procs \ {p} : run'[q] = run[q]
  BY DEF TypeInv, Typed, RunTyped
<1>2. RunOK(p) /\ Active(p)
  BY DEF FileInv, Active
<1>3. \A i \in DOMAIN r.todo : r.todo[i][1] = "contracts" => r.dt \in Sessions \cup typed
  <2>1. CASE r.todo = run[p].todo
    BY <1>2, <2>1 DEF RunOK
  <2>2. CASE run[p].todo # <<>> /\ r.todo = Tail(run[p].todo)
    <3>1. run[p].todo \in Seq(DatasetsOf(job) \X Name)
      BY DEF TypeInv, Typed, RunTyped, RunOf
    <3>2. \A i \in DOMAIN r.todo : i + 1 \in DOMAIN run[p].todo /\ r.todo[i] = run[p].todo[i + 1]
      BY <2>2, <3>1
    <3> QED
      BY <1>2, <3>2 DEF RunOK
  <2>3. CASE r.todo = <<>>
    BY <2>3
  <2> QED
    BY <2>1, <2>2, <2>3
<1>4. RunOK(p)'
  BY <1>1, <1>2, <1>3 DEF RunOK, Active, Fetched
<1> QED
  BY <1>1, <1>4, QuietFiles

\* A run that has something in hand.
LEMMA HoldFiles ==
    ASSUME TypeInv, FileInv, UNCHANGED <<job, day, part, typed>>,
           NEW p \in Procs, run[p].at \notin {"idle", "failed"}, run[p].todo # <<>>,
           NEW r \in RunOf, run' = [run EXCEPT ![p] = r],
           r.todo = run[p].todo, r.at \in {"baseline", "open"},
           r.dt <= day, job # "ibkr_executions" => r.dt = day,
           job = "ibkr_executions" \/ r.dt = run[p].dt,
           Said(Item(p)[1], Item(p)[2], r.dt, r.rows)
    PROVE  FileInv'
<1>1. run'[p] = r /\ \A q \in Procs \ {p} : run'[q] = run[q]
  BY DEF TypeInv, Typed, RunTyped
<1>2. RunOK(p) /\ Active(p) /\ Item(p)' = Item(p)
  BY <1>1 DEF FileInv, Active, Item
<1>3. \A i \in DOMAIN r.todo : r.todo[i][1] = "contracts" => r.dt \in Sessions \cup typed
  <2>1. CASE job = "ibkr_executions"
    <3>1. r.todo \in Seq({"ibkr_executions"} \X Name)
      BY <2>1 DEF RunOf, DatasetsOf
    <3> QED
      BY <3>1, NoContracts
  <2>2. CASE r.dt = run[p].dt
    BY <1>2, <2>2 DEF RunOK
  <2> QED
    BY <2>1, <2>2
<1>4. RunOK(p)'
  BY <1>1, <1>2, <1>3 DEF RunOK, Active, Fetched, Said
<1> QED
  BY <1>1, <1>4, QuietFiles

LEMMA ListFiles == ASSUME TypeInv, FileInv, NEW p \in Procs, FetchList(p) PROVE FileInv'
<1> DEFINE ds == Item(p)[1]
           answer == CASE ds = "dividends" -> Events
                       [] ds = "splits"    -> {}
                       [] OTHER            -> Listing(Item(p)[2])
           r == [run[p] EXCEPT !.rows = answer,
                               !.at = IF job = "contracts_sync" THEN "baseline" ELSE "open"]
<1>1. /\ run[p] \in RunOf /\ run[p].at = "fetch" /\ run[p].todo # <<>>
      /\ job \in {"contracts_sync", "dividends_sync"}
      /\ UNCHANGED <<job, day, part, typed>> /\ run' = [run EXCEPT ![p] = r]
  BY DEF TypeInv, Typed, RunTyped, FetchList, Steady, Quiet
<1>2. day \in Nat /\ day >= 1 /\ due \in 0..2
  BY ReferenceAssumption DEF TypeInv, Typed, RestTyped, Days
<1>3. run[p].dt = day
  BY <1>1 DEF FileInv, RunOK, Active
<1>4. \A u : Listing(u) \subseteq Nat /\ (Listing(u) = {} <=> u \in Unlisted)
  <2> DEFINE tick == 2 * day - due
  <2>1. tick \in Nat /\ tick \in tick..(tick + Elapsed - 1)
        /\ tick..(tick + Elapsed - 1) \subseteq Nat
    BY <1>2 DEF Elapsed
  <2>2. \A u : Listing(u) = IF u \in Unlisted THEN {} ELSE tick..(tick + Elapsed - 1)
    BY DEF Listing
  <2> HIDE DEF tick
  <2> QED
    BY <2>1, <2>2
<1>5. ds \in IF job = "contracts_sync" THEN Listings ELSE {"dividends", "splits"}
  BY <1>1, ItemTyped DEF DatasetsOf, Listings
<1>6. Said(ds, Item(p)[2], day, answer)
  <2>1. CASE ds \in Listings
    <3>1. answer = Listing(Item(p)[2])
      BY <2>1 DEF Listings
    <3> HIDE DEF answer
    <3> QED
      BY <1>4, <2>1, <3>1 DEF Said, Listings, SourceSet
  <2>2. CASE ds = "dividends"
    BY <2>2 DEF Said, Listings, SourceSet, Events
  <2>3. CASE ds = "splits"
    BY <2>3 DEF Said, Listings, SourceSet
  <2> QED
    BY <1>5, <2>1, <2>2, <2>3
<1>7. answer \subseteq Int
  BY <1>2, <1>4 DEF Events
<1> HIDE DEF answer
<1>8. /\ r \in RunOf /\ r.todo = run[p].todo /\ r.dt = day /\ r.rows = answer
      /\ r.at \in {"baseline", "open"}
  BY <1>1, <1>3, <1>7 DEF RunOf, RunState
<1> HIDE DEF r
<1>9. Said(Item(p)[1], Item(p)[2], r.dt, r.rows)
  BY <1>6, <1>8
<1>10. r.dt <= day /\ r.dt = run[p].dt
  BY <1>2, <1>3, <1>8
<1> QED
  BY <1>1, <1>8, <1>9, <1>10, HoldFiles

LEMMA SendFiles == ASSUME TypeInv, FileInv, NEW p \in Procs, FlexSend(p) PROVE FileInv'
<1> DEFINE r == [run[p] EXCEPT !.at = "poll"]
<1>1. /\ run[p] \in RunOf /\ run[p].at = "fetch" /\ run[p].todo # <<>>
      /\ UNCHANGED <<job, day, part, typed>> /\ run' = [run EXCEPT ![p] = r]
      /\ job = "ibkr_executions"
  BY DEF TypeInv, Typed, RunTyped, FlexSend, Goto, Steady, Quiet
<1>2. /\ r.at = "poll" /\ r.todo = run[p].todo /\ r.dt = run[p].dt
  BY <1>1 DEF RunOf
<1> HIDE DEF r
<1>3. run'[p] = r /\ \A q \in Procs \ {p} : run'[q] = run[q]
  BY <1>1 DEF TypeInv, Typed, RunTyped
<1>4. RunOK(p) /\ Active(p)
  BY <1>1 DEF FileInv, Active
<1>5. RunOK(p)'
  BY <1>1, <1>2, <1>3, <1>4 DEF RunOK, Active, Fetched
<1> QED
  BY <1>1, <1>3, <1>5, QuietFiles

LEMMA GeneratingFiles ==
    ASSUME TypeInv, FileInv, NEW p \in Procs, FlexGenerating(p) PROVE FileInv'
<1> DEFINE n == run[p].polls + 1
           r == [run[p] EXCEPT !.polls = n]
           f == [Idle EXCEPT !.at = "failed"]
<1>1. /\ run[p] \in RunOf /\ run[p].at = "poll"
      /\ UNCHANGED <<job, day, part, typed>>
      /\ run' = [run EXCEPT ![p] = IF n = POLL_TRIES THEN f ELSE r]
  BY DEF TypeInv, Typed, RunTyped, FlexGenerating, Steady, Quiet
<1>2. r.at = "poll" /\ r.todo = run[p].todo /\ r.dt = run[p].dt
  BY <1>1 DEF RunOf
<1>3. f \in RunOf /\ f.at \in {"idle", "failed"}
  BY FailedTyped DEF Idle
<1> HIDE DEF r, f, n
<1>4. CASE n = POLL_TRIES
  <2>1. run' = [run EXCEPT ![p] = f]
    BY <1>1, <1>4
  <2> QED
    BY <1>1, <1>3, <2>1, OverFiles
<1>5. CASE n # POLL_TRIES
  <2>1. run'[p] = r /\ \A q \in Procs \ {p} : run'[q] = run[q]
    BY <1>1, <1>5 DEF TypeInv, Typed, RunTyped
  <2>2. RunOK(p) /\ Active(p)
    BY <1>1 DEF FileInv, Active
  <2>3. RunOK(p)'
    BY <1>1, <1>2, <2>1, <2>2 DEF RunOK, Active, Fetched
  <2> QED
    BY <1>1, <2>1, <2>3, QuietFiles
<1> QED
  BY <1>4, <1>5

\* A statement that is filed is filed under its day, with the fills of that day.
LEMMA StatementIs ==
    ASSUME NEW to \in Days, NEW asked, NEW named \in BOOLEAN, NEW scope, NEW rows,
           LET got == ParseTrades(Statement(to), scope)
           IN  rows = IF named \/ got = {} THEN got ELSE {Null},
           FlexDate(to, asked) # 0, CheckParsed(rows), rows # {}
    PROVE  FlexDate(to, asked) = to /\ Filled(scope, to, rows)
<1>1. rows = ParseTrades(Statement(to), scope)
  BY DEF CheckParsed
<1>2. FlexDate(to, asked) = to
  BY DEF FlexDate
<1>3. rows \subseteq {to, Theirs(to)}
  BY <1>1 DEF ParseTrades, Statement
<1>4. ASSUME scope = "account" PROVE rows \subseteq {to}
  <2>1. Theirs(to) \notin Days
    BY ReferenceAssumption DEF Theirs, Never, Days
  <2> QED
    BY <1>1, <1>3, <1>4, <2>1 DEF ParseTrades
<1> QED
  BY <1>2, <1>3, <1>4 DEF Filled

LEMMA ReadyFiles ==
    ASSUME TypeInv, FileInv, NEW p \in Procs, NEW to \in Periods, NEW named \in BOOLEAN,
           FlexReady(p, to, named)
    PROVE  FileInv'
<1> DEFINE dt == FlexDate(to, run[p].asked)
           got  == ParseTrades(Statement(to), Item(p)[2])
           rows == IF named \/ got = {} THEN got ELSE {Null}
           f == [Idle EXCEPT !.at = "failed"]
           e == [run[p] EXCEPT !.at = "fetch", !.todo = <<>>]
           r == [run[p] EXCEPT !.at = "open", !.dt = dt, !.rows = rows]
<1>1. /\ run[p] \in RunOf /\ run[p].at = "poll" /\ run[p].todo # <<>>
      /\ UNCHANGED <<job, day, part, typed>> /\ job = "ibkr_executions"
      /\ run' = [run EXCEPT ![p] = IF dt = 0 \/ ~CheckParsed(rows) THEN f
                                   ELSE IF rows = {} THEN e ELSE r]
  BY DEF TypeInv, Typed, RunTyped, Ready, FlexReady, Quiet, FileInv, RunOK, Active
<1>2. day \in Days /\ to \in Days /\ to \in Int /\ to <= day
  <2>1. day \in Days
    BY DEF TypeInv, Typed, RestTyped
  <2> QED
    BY <2>1, PeriodsPast, PeriodsAreDays DEF Days
<1>3. f \in RunOf /\ f.at \in {"idle", "failed"}
  BY FailedTyped DEF Idle
<1>4. CASE dt = 0 \/ ~CheckParsed(rows)
  <2>1. run' = [run EXCEPT ![p] = f]
    BY <1>1, <1>4
  <2> HIDE DEF f
  <2> QED
    BY <1>1, <1>3, <2>1, OverFiles
<1>5. CASE dt # 0 /\ CheckParsed(rows) /\ rows = {}
  <2>1. run' = [run EXCEPT ![p] = e]
    BY <1>1, <1>5
  <2>2. e \in RunOf /\ e.todo = <<>> /\ e.at = "fetch" /\ e.dt = run[p].dt
    <3> DEFINE T == Seq(DatasetsOf(job) \X Name)
    <3>1. <<>> \in T
      OBVIOUS
    <3> HIDE DEF T
    <3> QED
      BY <1>1, <3>1 DEF RunOf, RunState, T
  <2> HIDE DEF e
  <2> QED
    BY <1>1, <2>1, <2>2, GoOnFiles
<1>6. CASE dt # 0 /\ CheckParsed(rows) /\ rows # {}
  <2>1. run' = [run EXCEPT ![p] = r]
    BY <1>1, <1>6
  <2>2. dt = to /\ Filled(Item(p)[2], to, rows)
    <3>1. PICK scope, all : scope = Item(p)[2] /\ all = rows
      OBVIOUS
    <3>2. LET few == ParseTrades(Statement(to), scope)
          IN  all = IF named \/ few = {} THEN few ELSE {Null}
      BY <3>1
    <3> HIDE DEF rows, got
    <3> QED
      BY <1>2, <1>6, <3>1, <3>2, StatementIs
  <2>3. rows \subseteq Int
    <3>1. Theirs(to) \in Int
      BY <1>2, ReferenceAssumption DEF Theirs, Never
    <3> HIDE DEF rows
    <3> QED
      BY <1>2, <2>2, <3>1 DEF Filled
  <2> HIDE DEF rows, dt
  <2>6. /\ r \in RunOf /\ r.todo = run[p].todo /\ r.at = "open" /\ r.dt = to
        /\ r.rows = rows
    BY <1>1, <1>2, <2>2, <2>3 DEF RunOf, RunState
  <2>4. Item(p)[1] = "ibkr_executions"
    BY <1>1, ItemTyped DEF DatasetsOf
  <2>5. Said(Item(p)[1], Item(p)[2], r.dt, r.rows)
    BY <2>2, <2>4, <2>6 DEF Said, Listings, SourceSet
  <2> HIDE DEF r
  <2> QED
    BY <1>1, <1>2, <2>1, <2>5, <2>6, HoldFiles
<1> QED
  BY <1>4, <1>5, <1>6

LEMMA RatesFiles ==
    ASSUME TypeInv, FileInv, NEW p \in Procs, NEW pages, FetchRates(p, pages) PROVE FileInv'
<1>1. /\ run[p] \in RunOf /\ run[p].todo # <<>> /\ run[p].at = "fetch"
      /\ job = "rates_sync" /\ UNCHANGED <<job, day, part, typed>>
  BY DEF TypeInv, Typed, RunTyped, FetchRates, Steady, Quiet
<1>2. PICK r \in RunOf : /\ run' = [run EXCEPT ![p] = r] /\ r.dt = run[p].dt
                         /\ Holds(p, pages, r) \/ Passes(p, r)
  BY RatesRun
<1>3. day \in Days /\ day \in Int /\ run[p].dt = day
  BY <1>1 DEF TypeInv, Typed, RestTyped, Days, FileInv, RunOK, Active
<1>4. CASE Passes(p, r)
  BY <1>1, <1>2, <1>4, GoOnFiles DEF Passes
<1>5. CASE Holds(p, pages, r)
  <2>1. Page(p, pages) # {} /\ r.at = "open" /\ r.todo = run[p].todo /\ r.rows = Page(p, pages)
    BY <1>5 DEF Holds
  <2>2. Item(p)[1] \in SourceSet /\ r.rows \subseteq Published /\ r.rows # {}
    <3>1. \A n : Newest(Below(p, Item(p)[1]), n) \subseteq Published
      BY NewestOf DEF Below
    <3> QED
      BY <1>1, <2>1, <3>1, ItemTyped DEF Page, DatasetsOf
  <2>3. r.rows \subseteq (1 - History)..(day - 1)
    BY <1>3, <2>2, PublishedRange
  <2>4. Said(Item(p)[1], Item(p)[2], r.dt, r.rows)
    BY <1>2, <1>3, <2>2, <2>3 DEF Said, Listings, SourceSet
  <2>5. r.dt <= day /\ r.dt = day
    BY <1>2, <1>3
  <2> QED
    BY <1>1, <1>2, <2>1, <2>4, <2>5, HoldFiles
<1> QED
  BY <1>2, <1>4, <1>5

LEMMA BaselineFiles == ASSUME TypeInv, FileInv, NEW p \in Procs, Baseline(p) PROVE FileInv'
<1> DEFINE base == PreviousTickers(Item(p)[1], Item(p)[2])
           f == [Idle EXCEPT !.at = "failed"]
           r == [run[p] EXCEPT !.base = base, !.at = "open"]
<1>1. /\ run[p] \in RunOf /\ run[p].at = "baseline" /\ run[p].todo # <<>>
      /\ UNCHANGED <<job, day, part, typed>> /\ Item(p)[1] \in Datasets
      /\ run' = [run EXCEPT ![p] = IF base = Torn THEN f ELSE r]
  <2>1. /\ run[p] \in RunOf /\ run[p].at = "baseline" /\ run[p].todo # <<>>
        /\ UNCHANGED <<job, day, part, typed>>
        /\ run' = [run EXCEPT ![p] = IF base = Torn THEN f ELSE r]
    BY DEF TypeInv, Typed, RunTyped, Ready, Baseline, Steady, Quiet
  <2> QED
    BY <2>1, ItemTyped
<1>2. base \subseteq Int
  BY <1>1, TickersTyped
<1> HIDE DEF base
<1>3. /\ r \in RunOf /\ r.todo = run[p].todo /\ r.dt = run[p].dt /\ r.rows = run[p].rows
      /\ r.at = "open"
  BY <1>1, <1>2 DEF RunOf, RunState
<1>4. f \in RunOf /\ f.at \in {"idle", "failed"}
  BY FailedTyped DEF Idle
<1> HIDE DEF r, f
<1>5. CASE base = Torn
  <2>1. run' = [run EXCEPT ![p] = f]
    BY <1>1, <1>5
  <2> QED
    BY <1>1, <1>4, <2>1, OverFiles
<1>6. CASE base # Torn
  <2>1. run' = [run EXCEPT ![p] = r]
    BY <1>1, <1>6
  <2>2. /\ Said(Item(p)[1], Item(p)[2], r.dt, r.rows)
        /\ r.dt <= day /\ (job # "ibkr_executions" => r.dt = day)
    BY <1>1, <1>3 DEF FileInv, RunOK, Active, Fetched
  <2> QED
    BY <1>1, <1>3, <2>1, <2>2, HoldFiles
<1> QED
  BY <1>5, <1>6

LEMMA StopFiles ==
    ASSUME TypeInv, FileInv, NEW p \in Procs, End(p) \/ Fault(p) \/ GiveUp(p) PROVE FileInv'
<1>1. PICK r \in {Idle, [Idle EXCEPT !.at = "failed"]} : run' = [run EXCEPT ![p] = r]
  BY DEF End, Fault, GiveUp
<1>2. r \in RunOf /\ r.at \in {"idle", "failed"}
  <2>1. CASE r = Idle
    BY <2>1, IdleTyped DEF Idle
  <2>2. CASE r = [Idle EXCEPT !.at = "failed"]
    BY <2>2, FailedTyped DEF Idle
  <2> QED
    BY <2>1, <2>2
<1>3. UNCHANGED <<job, day, part, typed>>
  BY DEF End, Fault, GiveUp, Steady, Quiet
<1> QED
  BY <1>1, <1>2, <1>3, OverFiles

\* The steps that write change one partition: Open adds the file n to it, Finish
\* makes the file m whole.
Writes(ds, d) ==
    /\ ds \in Datasets /\ d \in Days
    /\ \A e \in Datasets, x \in Days : e # ds \/ x # d => part'[e][x] = part[e][x]
Opens(p, ds, d, n) ==
    /\ n \in Nat /\ DOMAIN part[ds][d] = 1..n /\ DOMAIN part'[ds][d] = 1..(n + 1)
    /\ \A i \in DOMAIN part[ds][d] : part'[ds][d][i] = part[ds][d][i]
    /\ part'[ds][d][n + 1].by = Item(p)[2] /\ part'[ds][d][n + 1].rows = Torn
    /\ part'[ds][d][n + 1].of = p
Completes(p, ds, d, m) ==
    /\ m \in DOMAIN part[ds][d] /\ DOMAIN part'[ds][d] = DOMAIN part[ds][d]
    /\ part[ds][d][m].of = p /\ part[ds][d][m].rows = Torn
    /\ part[ds][d][m].by = Item(p)[2]
    /\ \A i \in DOMAIN part[ds][d] \ {m} : part'[ds][d][i] = part[ds][d][i]
    /\ part'[ds][d][m].by = Item(p)[2] /\ part'[ds][d][m].of = "none"
    /\ part'[ds][d][m].rows = run[p].rows

LEMMA OpenEffect ==
    ASSUME TypeInv, FileInv, NEW p \in Procs, Open(p),
           NEW ds, ds = Item(p)[1], NEW d, d = run[p].dt
    PROVE  Writes(ds, d) /\ \E n : Opens(p, ds, d, n)
<1>1. /\ run[p] \in RunOf /\ run[p].at = "open" /\ run[p].todo # <<>>
  BY DEF TypeInv, Typed, RunTyped, Ready, Open
<1>2. ds \in Datasets /\ d \in Days /\ Item(p)[2] \in Name
  BY <1>1, ItemTyped DEF RunOf
<1>3. part \in [Datasets -> [Days -> Seq(FileOf)]]
  BY DEF TypeInv, Typed, PartTyped
<1> DEFINE f == [by |-> Item(p)[2], rows |-> Torn, of |-> p]
           s == part[ds][d]
<1>4. f \in FileOf
  BY <1>2, ReferenceAssumption DEF FileOf, Torn, NoDate
<1>5. s \in Seq(FileOf)
  BY <1>2, <1>3
<1>6. part' = [part EXCEPT ![ds][d] = Append(@, f)]
  BY DEF Open
<1>7. f.by = Item(p)[2] /\ f.rows = Torn /\ f.of = p
  OBVIOUS
<1> HIDE DEF f
<1>8. \A e \in Datasets, x \in Days : e # ds \/ x # d => part'[e][x] = part[e][x]
  BY <1>2, <1>3, <1>6
<1>9. part'[ds][d] = Append(s, f)
  BY <1>2, <1>3, <1>6
<1>10. /\ DOMAIN s = 1..Len(s) /\ DOMAIN Append(s, f) = 1..(Len(s) + 1) /\ Len(s) \in Nat
       /\ \A i \in DOMAIN s : Append(s, f)[i] = s[i]
       /\ Append(s, f)[Len(s) + 1] = f
  <2> HIDE DEF s
  <2> QED
    BY <1>4, <1>5
<1>11. part'[ds][d][Len(part[ds][d]) + 1] = f
  BY <1>9, <1>10
<1>12. /\ DOMAIN part[ds][d] = 1..Len(part[ds][d]) /\ Len(part[ds][d]) \in Nat
       /\ DOMAIN part'[ds][d] = 1..(Len(part[ds][d]) + 1)
       /\ \A i \in DOMAIN part[ds][d] : part'[ds][d][i] = part[ds][d][i]
  BY <1>9, <1>10
<1>13. Opens(p, ds, d, Len(part[ds][d]))
  BY <1>7, <1>11, <1>12 DEF Opens
<1>14. Writes(ds, d)
  BY <1>2, <1>8 DEF Writes
<1> QED
  BY <1>13, <1>14

\* What Finish changes: the file it opened, and nothing else.
LEMMA FinishEffect ==
    ASSUME TypeInv, FileInv, NEW p \in Procs, Finish(p),
           NEW ds, ds = Item(p)[1], NEW d, d = run[p].dt
    PROVE  Writes(ds, d) /\ \E m : Completes(p, ds, d, m)
<1>1. /\ run[p] \in RunOf /\ run[p].at = "finish" /\ run[p].todo # <<>>
  BY DEF TypeInv, Typed, RunTyped, Ready, Finish
<1>2. ds \in Datasets /\ d \in Days /\ Item(p)[2] \in Name
  BY <1>1, ItemTyped DEF RunOf
<1>3. part \in [Datasets -> [Days -> Seq(FileOf)]]
  BY DEF TypeInv, Typed, PartTyped
<1> DEFINE s == part[ds][d]
           S == {i \in DOMAIN s : s[i].of = p}
<1>4. s \in Seq(FileOf) /\ DOMAIN s = 1..Len(s) /\ DOMAIN s \subseteq Int
      /\ \A i \in DOMAIN s : s[i] \in FileOf
  <2>1. s \in Seq(FileOf)
    BY <1>2, <1>3
  <2> HIDE DEF s
  <2> QED
    BY <2>1
<1>5. PICK m \in DOMAIN s : /\ s[m].of = p /\ s[m].by = Item(p)[2]
                            /\ \A j \in DOMAIN s : s[j].of = p => j <= m
  BY <1>1 DEF FileInv, RunOK, Active, Mine
<1>6. Max(S) = m
  <2>1. S \subseteq Int /\ m \in S /\ \A x \in S : x <= m
    <3> HIDE DEF s
    <3> QED
      BY <1>4, <1>5
  <2> HIDE DEF S
  <2> QED
    BY <2>1, GreatestIs
<1>7. s[m].rows = Torn /\ s[m] \in FileOf
  <2>1. FilesOK(ds, d) /\ p # "none"
    BY <1>2 DEF FileInv, Procs
  <2>2. s[m].rows = Torn \/ s[m].of = "none"
    BY <1>5, <2>1 DEF FilesOK
  <2> HIDE DEF s
  <2> QED
    BY <1>4, <1>5, <2>1, <2>2
<1> DEFINE f == [s[m] EXCEPT !.rows = run[p].rows, !.of = "none"]
<1>8. part' = [part EXCEPT ![ds][d][m] = f]
  <2>1. part' = [part EXCEPT ![ds][d][Max(S)] =
                    [@ EXCEPT !.rows = run[p].rows, !.of = "none"]]
    BY DEF Finish
  <2> HIDE DEF S
  <2> QED
    BY <1>2, <1>3, <1>6, <2>1
<1>9. f.by = Item(p)[2] /\ f.of = "none" /\ f.rows = run[p].rows
  BY <1>5, <1>7 DEF FileOf
<1> HIDE DEF f
<1>10. \A e \in Datasets, x \in Days : e # ds \/ x # d => part'[e][x] = part[e][x]
  BY <1>2, <1>3, <1>8
<1>11. part'[ds][d] = [s EXCEPT ![m] = f]
  BY <1>2, <1>3, <1>8
<1>12. /\ DOMAIN [s EXCEPT ![m] = f] = DOMAIN s /\ [s EXCEPT ![m] = f][m] = f
       /\ \A i \in DOMAIN s \ {m} : [s EXCEPT ![m] = f][i] = s[i]
  BY <1>5
<1>13. Completes(p, ds, d, m)
  BY <1>5, <1>7, <1>9, <1>11, <1>12 DEF Completes
<1>14. Writes(ds, d)
  BY <1>2, <1>10 DEF Writes
<1> QED
  BY <1>13, <1>14

LEMMA OpenFiles == ASSUME TypeInv, FileInv, NEW p \in Procs, Open(p) PROVE FileInv'
<1> DEFINE ds == Item(p)[1]
           d  == run[p].dt
<1>1. /\ run[p] \in RunOf /\ run[p].at = "open" /\ run[p].todo # <<>>
      /\ UNCHANGED <<job, day, typed>>
      /\ \A q \in Procs \ {p} : run'[q] = run[q]
      /\ run'[p].at = "finish" /\ run'[p].dt = d /\ run'[p].todo = run[p].todo
      /\ run'[p].rows = run[p].rows
  BY DEF TypeInv, Typed, RunTyped, RunOf, Ready, Open, Goto, Steady, Quiet
<1>2. ds = Item(p)[1] /\ d = run[p].dt
  OBVIOUS
<1>3. Writes(ds, d) /\ \E n : Opens(p, ds, d, n)
  <2> HIDE DEF ds, d
  <2> QED
    BY <1>2, OpenEffect
<1>4. PICK n : Opens(p, ds, d, n)
  BY <1>3
<1>5. /\ ds \in Datasets /\ d \in Days
      /\ \A e \in Datasets, x \in Days : e # ds \/ x # d => part'[e][x] = part[e][x]
      /\ \A i \in DOMAIN part[ds][d] : part'[ds][d][i] = part[ds][d][i]
  BY <1>4, <1>3 DEF Writes, Opens
<1>6. /\ n \in Nat /\ DOMAIN part[ds][d] = 1..n /\ DOMAIN part'[ds][d] = 1..(n + 1)
      /\ part'[ds][d][n + 1].by = Item(p)[2] /\ part'[ds][d][n + 1].rows = Torn
      /\ part'[ds][d][n + 1].of = p
  BY <1>4 DEF Opens
<1>7. PICK new : new = n + 1
  OBVIOUS
<1>8. /\ DOMAIN part'[ds][d] = DOMAIN part[ds][d] \cup {new} /\ new \notin DOMAIN part[ds][d]
      /\ \A i \in DOMAIN part'[ds][d] : i <= new
      /\ part'[ds][d][new].by = Item(p)[2] /\ part'[ds][d][new].rows = Torn
      /\ part'[ds][d][new].of = p
  <2>1. 1..(n + 1) = (1..n) \cup {new} /\ new \notin 1..n /\ \A i \in 1..(n + 1) : i <= new
    BY <1>6, <1>7
  <2> QED
    BY <1>6, <1>7, <2>1
<1>9. RunOK(p) /\ Active(p) /\ Item(p)' = Item(p)
  BY <1>1 DEF FileInv, Active, Item
<1>10. Mine(p)'
  <2> QED
    BY <1>1, <1>8, <1>9 DEF Mine
<1>11. RunOK(p)'
  BY <1>1, <1>9, <1>10 DEF RunOK, Active, Fetched
<1>12. ASSUME NEW q \in Procs \ {p}, run[q].at = "finish" PROVE Mine(q)'
  <2> DEFINE e == Item(q)[1]
             x == run[q].dt
  <2>1. RunOK(q) /\ run'[q] = run[q] /\ run[q] \in RunOf /\ run[q].todo # <<>>
    BY <1>1, <1>12 DEF FileInv, TypeInv, Typed, RunTyped, Ready
  <2>2. e \in Datasets /\ x \in Days /\ Item(q)' = Item(q)
    BY <2>1, ItemTyped DEF RunOf, Item
  <2>3. CASE e # ds \/ x # d
    BY <1>5, <1>12, <2>1, <2>2, <2>3, MineKept
  <2>4. CASE e = ds /\ x = d
    <3>1. PICK i \in DOMAIN part[ds][d] :
              /\ part[ds][d][i].of = q /\ part[ds][d][i].by = Item(q)[2]
              /\ \A j \in DOMAIN part[ds][d] : part[ds][d][j].of = q => j <= i
      BY <1>12, <2>1, <2>4 DEF RunOK, Active, Mine
    <3>2. i \in DOMAIN part'[ds][d] /\ part'[ds][d][i] = part[ds][d][i]
      BY <1>5, <1>8
    <3>3. ASSUME NEW j \in DOMAIN part'[ds][d], part'[ds][d][j].of = q PROVE j <= i
      <4>1. j # new
        BY <1>8, <3>3
      <4>2. j \in DOMAIN part[ds][d] /\ part[ds][d][j].of = q
        BY <1>5, <1>8, <3>3, <4>1
      <4> QED
        BY <3>1, <4>2
    <3> HIDE DEF ds, d
    <3> QED
      BY <2>1, <2>2, <2>4, <3>1, <3>2, <3>3 DEF Mine
  <2> QED
    BY <2>3, <2>4
<1>13. ASSUME NEW q \in Procs PROVE RunOK(q)'
  <2>1. CASE q = p
    BY <1>11, <2>1
  <2>2. CASE q # p
    BY <1>1, <1>12, <2>2, RunKept DEF FileInv
  <2> QED
    BY <2>1, <2>2
<1>14. ASSUME NEW e \in Datasets, NEW x \in Days PROVE FilesOK(e, x)'
  <2>1. FilesOK(e, x) /\ day \in Days /\ day' = day /\ day <= day' /\ x \in Int /\ day \in Int
    BY <1>1 DEF FileInv, TypeInv, Typed, RestTyped, Days
  <2>2. CASE e # ds \/ x # d
    BY <1>1, <1>5, <2>1, <2>2, FilesKept
  <2>3. CASE e = ds /\ x = d
    <3>1. ds = "contracts" => d \in Sessions \cup typed
      BY <1>1, <1>9, ItemTyped DEF RunOK
    <3>2. d <= day
      BY <1>9 DEF RunOK
    <3>3. \A i \in DOMAIN part'[ds][d] : i = new \/ i \in DOMAIN part[ds][d]
      BY <1>8
    <3> HIDE DEF ds, d
    <3>4. \A i \in DOMAIN part'[ds][d] :
             \/ part'[ds][d][i].rows = Torn
             \/ /\ part'[ds][d][i].of = "none"
                /\ Said(ds, part'[ds][d][i].by, d, part'[ds][d][i].rows)
      BY <1>5, <1>8, <2>1, <2>3, <3>3 DEF FilesOK
    <3>5. ~(d > day')
      BY <2>1, <2>3, <3>2
    <3> QED
      BY <1>1, <2>3, <3>1, <3>4, <3>5 DEF FilesOK, Said
  <2> QED
    BY <2>2, <2>3
<1> QED
  BY <1>13, <1>14 DEF FileInv

LEMMA FinishFiles == ASSUME TypeInv, FileInv, NEW p \in Procs, Finish(p) PROVE FileInv'
<1> DEFINE ds == Item(p)[1]
           d  == run[p].dt
<1>1. /\ run[p] \in RunOf /\ run[p].at = "finish" /\ run[p].todo # <<>>
      /\ UNCHANGED <<job, day, typed>>
      /\ \A q \in Procs \ {p} : run'[q] = run[q]
      /\ run'[p].at = "fetch" /\ run'[p].dt = d /\ run'[p].todo = Tail(run[p].todo)
  BY ZenonT(40) DEF TypeInv, Typed, RunTyped, RunOf, Ready, Finish, Steady, Quiet
<1>2. Writes(ds, d) /\ \E m : Completes(p, ds, d, m)
  <2>1. ds = Item(p)[1] /\ d = run[p].dt
    OBVIOUS
  <2> HIDE DEF ds, d
  <2> QED
    BY <2>1, FinishEffect
<1>3. PICK m : Completes(p, ds, d, m)
  BY <1>2
<1>4. /\ ds \in Datasets /\ d \in Days
      /\ \A e \in Datasets, x \in Days : e # ds \/ x # d => part'[e][x] = part[e][x]
      /\ DOMAIN part'[ds][d] = DOMAIN part[ds][d]
  BY <1>3, <1>2 DEF Writes, Completes
<1>5. /\ m \in DOMAIN part[ds][d]
      /\ part[ds][d][m].of = p /\ part[ds][d][m].rows = Torn
      /\ \A i \in DOMAIN part[ds][d] \ {m} : part'[ds][d][i] = part[ds][d][i]
      /\ part'[ds][d][m].by = Item(p)[2] /\ part'[ds][d][m].of = "none"
      /\ part'[ds][d][m].rows = run[p].rows
  BY <1>3 DEF Completes
<1>6. RunOK(p) /\ Active(p)
  BY <1>1 DEF FileInv, Active
<1>7. RunOK(p)'
  <2>1. run[p].todo \in Seq(DatasetsOf(job) \X Name)
    BY <1>1 DEF RunOf
  <2>2. \A i \in DOMAIN Tail(run[p].todo) :
            i + 1 \in DOMAIN run[p].todo /\ Tail(run[p].todo)[i] = run[p].todo[i + 1]
    BY <1>1, <2>1
  <2>3. \A i \in DOMAIN run'[p].todo :
            run'[p].todo[i][1] = "contracts" => d \in Sessions \cup typed
    BY <1>1, <1>6, <2>2 DEF RunOK
  <2> QED
    BY <1>1, <1>6, <2>3 DEF RunOK, Active, Fetched
<1>8. ASSUME NEW q \in Procs \ {p}, run[q].at = "finish" PROVE Mine(q)'
  <2> DEFINE e == Item(q)[1]
             x == run[q].dt
  <2>1. RunOK(q) /\ run'[q] = run[q] /\ run[q] \in RunOf /\ run[q].todo # <<>>
    BY <1>1, <1>8 DEF FileInv, TypeInv, Typed, RunTyped, Ready
  <2>2. e \in Datasets /\ x \in Days /\ Item(q)' = Item(q)
    BY <2>1, ItemTyped DEF RunOf, Item
  <2>3. CASE e # ds \/ x # d
    BY <1>4, <1>8, <2>1, <2>2, <2>3, MineKept
  <2>4. CASE e = ds /\ x = d
    <3>1. PICK i \in DOMAIN part[ds][d] :
              /\ part[ds][d][i].of = q /\ part[ds][d][i].by = Item(q)[2]
              /\ \A j \in DOMAIN part[ds][d] : part[ds][d][j].of = q => j <= i
      BY <1>8, <2>1, <2>4 DEF RunOK, Active, Mine
    <3>2. i \in DOMAIN part'[ds][d] /\ part'[ds][d][i] = part[ds][d][i]
      BY <1>4, <1>5, <3>1
    <3>3. ASSUME NEW j \in DOMAIN part'[ds][d], part'[ds][d][j].of = q PROVE j <= i
      <4>1. j # m
        BY <1>5, <3>3 DEF Procs
      <4>2. j \in DOMAIN part[ds][d] /\ part[ds][d][j].of = q
        BY <1>4, <1>5, <3>3, <4>1
      <4> QED
        BY <3>1, <4>2
    <3> HIDE DEF ds, d
    <3> QED
      BY <2>1, <2>2, <2>4, <3>1, <3>2, <3>3 DEF Mine
  <2> QED
    BY <2>3, <2>4
<1>9. ASSUME NEW q \in Procs PROVE RunOK(q)'
  <2>1. CASE q = p
    BY <1>7, <2>1
  <2>2. CASE q # p
    BY <1>1, <1>8, <2>2, RunKept DEF FileInv
  <2> QED
    BY <2>1, <2>2
<1>10. ASSUME NEW e \in Datasets, NEW x \in Days PROVE FilesOK(e, x)'
  <2>1. FilesOK(e, x) /\ day \in Days /\ day' = day /\ day <= day' /\ x \in Int /\ day \in Int
    BY <1>1 DEF FileInv, TypeInv, Typed, RestTyped, Days
  <2>2. CASE e # ds \/ x # d
    BY <1>1, <1>4, <2>1, <2>2, FilesKept
  <2>3. CASE e = ds /\ x = d
    <3>1. ds = "contracts" => d \in Sessions \cup typed
      BY <1>1, <1>6, ItemTyped DEF RunOK
    <3>2. d <= day /\ Said(ds, Item(p)[2], d, run[p].rows)
      BY <1>1, <1>6 DEF RunOK, Fetched
    <3> HIDE DEF ds, d
    <3>3. \A i \in DOMAIN part'[ds][d] :
             \/ part'[ds][d][i].rows = Torn
             \/ /\ part'[ds][d][i].of = "none"
                /\ Said(ds, part'[ds][d][i].by, d, part'[ds][d][i].rows)
      BY <1>4, <1>5, <2>1, <2>3, <3>2 DEF FilesOK
    <3>4. ~(d > day')
      BY <2>1, <2>3, <3>2
    <3> QED
      BY <1>1, <2>3, <3>1, <3>3, <3>4 DEF FilesOK, Said
  <2> QED
    BY <2>2, <2>3
<1> QED
  BY <1>9, <1>10 DEF FileInv

LEMMA TomorrowFiles == ASSUME TypeInv, FileInv, Tomorrow PROVE FileInv'
<1>1. /\ day \in Days /\ day' = day + 1 /\ day' \in Days /\ day <= day'
      /\ UNCHANGED <<run, part, typed>> /\ \A p \in Procs : run[p].at = "idle"
  BY ReferenceAssumption DEF Tomorrow, TypeInv, Typed, RestTyped, Days
<1>2. \A p \in Procs : RunOK(p)'
  BY <1>1 DEF RunOK, Active
<1>3. ASSUME NEW ds \in Datasets, NEW d \in Days PROVE FilesOK(ds, d)'
  BY <1>1, FilesKept DEF FileInv
<1> QED
  BY <1>2, <1>3 DEF FileInv

LEMMA FileStep == TypeInv /\ FileInv /\ [Next]_vars => FileInv'
<1> SUFFICES ASSUME TypeInv, FileInv, [Next]_vars PROVE FileInv'
  OBVIOUS
<1>1. CASE UNCHANGED vars
  <2>1. UNCHANGED <<job, day, run, part, typed>> /\ day \in Days /\ day <= day'
    BY <1>1 DEF vars, TypeInv, Typed, RestTyped, Days
  <2>2. ASSUME NEW q \in Procs PROVE RunOK(q)'
    BY <2>1, RunKept, MineKept DEF FileInv
  <2>3. ASSUME NEW ds \in Datasets, NEW d \in Days PROVE FilesOK(ds, d)'
    BY <2>1, FilesKept DEF FileInv
  <2> QED
    BY <2>2, <2>3 DEF FileInv
<1>2. CASE Timer \/ Restart
  <2>1. UNCHANGED <<job, day, part, typed>> /\ Start
    BY <1>2 DEF Timer, Restart
  <2> QED
    BY <2>1, StartFiles
<1>3. CASE \E p \in Procs :
              \/ FetchList(p) \/ FlexSend(p) \/ FlexGenerating(p)
              \/ (\E to \in Periods, named \in BOOLEAN : FlexReady(p, to, named))
              \/ (\E n \in 0..Quota : FetchRates(p, n))
              \/ Baseline(p) \/ Open(p) \/ Finish(p) \/ End(p) \/ Fault(p) \/ GiveUp(p)
  BY <1>3, ListFiles, SendFiles, GeneratingFiles, ReadyFiles, RatesFiles,
     BaselineFiles, OpenFiles, FinishFiles, StopFiles
<1> QED
  BY <1>1, <1>2, <1>3, HandFiles, HandFullFiles, TomorrowFiles DEF Next

LEMMA FileInvariance == Spec => [](TypeInv /\ FileInv)
<1>1. Init => TypeInv /\ FileInv
  BY TypeInit, FileInit
<1>2. TypeInv /\ FileInv /\ [Next]_vars => (TypeInv /\ FileInv)'
  BY TypeStep, FileStep
<1> QED
  BY <1>1, <1>2, PTL DEF Spec

\* Live contracts are filed under sessions, or days somebody typed --force, and
\* fills under the day of their statement, the account's alone when one is set,
\* for any days, items, runs by hand, faults and deaths.  (contracts_sync.main, ibkr_executions._main_fn)
THEOREM FilesAreOfTheirDay == Spec => []FiledUnderTheirDay
<1>1. TypeInv /\ FileInv => FiledUnderTheirDay
  <2> SUFFICES ASSUME TypeInv, FileInv, NEW d \in Days
               PROVE  /\ part["contracts"][d] # <<>> => d \in Sessions \cup typed
                      /\ \A f \in ToSet(part["ibkr_executions"][d]) :
                            f.rows = Torn \/ Filled(f.by, d, f.rows)
    BY DEF FiledUnderTheirDay, Filled
  <2>1. "contracts" \in Datasets /\ "ibkr_executions" \in Datasets
    BY DEF Datasets
  <2>2. part["contracts"][d] # <<>> => d \in Sessions \cup typed
    BY <2>1 DEF FileInv, FilesOK
  <2>3. ASSUME NEW f \in ToSet(part["ibkr_executions"][d])
        PROVE  f.rows = Torn \/ Filled(f.by, d, f.rows)
    <3>1. PICK i \in DOMAIN part["ibkr_executions"][d] : f = part["ibkr_executions"][d][i]
      BY <2>3 DEF ToSet
    <3> QED
      BY <2>1, <3>1 DEF FileInv, FilesOK, Said
  <2> QED
    BY <2>2, <2>3
<1> QED
  BY <1>1, FileInvariance, PTL

-----------------------------------------------------------------------------
(***************************************************************************)
(* The dates landed.  They are never lost, so the curve of a day is never  *)
(* taken back.                                                             *)
(***************************************************************************)
DatesLanded(ds) == UNION {Landed(ds, d) : d \in Days}

LEMMA InDates ==
    ASSUME TypeInv, NEW ds \in Datasets, NEW c
    PROVE  c \in DatesLanded(ds) <=>
             \E d \in Days : \E i \in DOMAIN part[ds][d] :
                c \in part[ds][d][i].rows /\ c > NoDate
<1>1. \A d \in Days : ToSet(part[ds][d]) = {part[ds][d][i] : i \in DOMAIN part[ds][d]}
  BY DEF ToSet
<1>2. ASSUME NEW d \in Days
      PROVE  c \in Landed(ds, d) <=>
               \E i \in DOMAIN part[ds][d] : c \in part[ds][d][i].rows /\ c > NoDate
  <2> DEFINE Says == {f.rows : f \in ToSet(part[ds][d])}
  <2>1. Landed(ds, d) = {x \in UNION Says : x > NoDate}
    BY DEF Landed
  <2>2. c \in UNION Says <=> \E i \in DOMAIN part[ds][d] : c \in part[ds][d][i].rows
    BY <1>1
  <2> HIDE DEF Says
  <2> QED
    BY <2>1, <2>2
<1> DEFINE All == {Landed(ds, d) : d \in Days}
<1>3. c \in UNION All <=> \E d \in Days : c \in Landed(ds, d)
  OBVIOUS
<1>4. DatesLanded(ds) = UNION All
  BY DEF DatesLanded
<1> HIDE DEF All
<1> QED
  BY <1>2, <1>3, <1>4

LEMMA DatesAre ==
    TypeInv => \A ds \in Datasets : \A c :
        c \in DatesLanded(ds) <=> \E d \in Days : \E i \in DOMAIN part[ds][d] :
                             c \in part[ds][d][i].rows /\ c > NoDate
  BY InDates

LEMMA DatesNext ==
    TypeInv' => \A ds \in Datasets : \A c :
        c \in DatesLanded(ds)' <=> \E d \in Days : \E i \in DOMAIN part'[ds][d] :
                              c \in part'[ds][d][i].rows /\ c > NoDate
<1>1. (TypeInv => \A ds \in Datasets : \A c :
        c \in DatesLanded(ds) <=> \E d \in Days : \E i \in DOMAIN part[ds][d] :
                             c \in part[ds][d][i].rows /\ c > NoDate)'
  BY DatesAre, PTL
<1> QED
  BY <1>1 DEF NoDate, Datasets, Days

\* The dates landed of a series are from before today.
LEMMA DatesRange ==
    ASSUME TypeInv, FileInv, NEW ds \in SourceSet
    PROVE  DatesLanded(ds) \subseteq (1 - History)..(day - 1)
<1> SUFFICES ASSUME NEW c \in DatesLanded(ds) PROVE c \in (1 - History)..(day - 1)
  OBVIOUS
<1>1. ds \in Datasets
  BY SourcesAre
<1>2. PICK d \in Days : \E i \in DOMAIN part[ds][d] :
               c \in part[ds][d][i].rows /\ c > NoDate
  BY <1>1, InDates
<1>3. PICK i \in DOMAIN part[ds][d] : c \in part[ds][d][i].rows /\ c > NoDate
  BY <1>2
<1>4. FilesOK(ds, d) /\ d <= day /\ day \in Int /\ d \in Int
  <2>1. FilesOK(ds, d) /\ day \in Int /\ d \in Int
    BY <1>1 DEF FileInv, TypeInv, Typed, RestTyped, Days
  <2>2. part[ds][d] # <<>>
    BY <1>3
  <2> QED
    BY <2>1, <2>2 DEF FilesOK
<1>5. part[ds][d][i].rows # Torn
  BY <1>3, ReferenceAssumption DEF Torn, NoDate
<1>6. part[ds][d][i].rows \subseteq (1 - History)..(d - 1)
  BY <1>4, <1>5 DEF FilesOK, Said
<1>7. c \in (1 - History)..(d - 1)
  BY <1>3, <1>6
<1> QED
  BY <1>4, <1>7, ReferenceAssumption

LEMMA OpenDates ==
    ASSUME TypeInv, TypeInv', FileInv, NEW p \in Procs, Open(p), NEW ds \in Datasets
    PROVE  DatesLanded(ds)' = DatesLanded(ds)
<1> DEFINE e == Item(p)[1]
           x == run[p].dt
<1>1. e = Item(p)[1] /\ x = run[p].dt
  OBVIOUS
<1> HIDE DEF e, x
<1>2. Writes(e, x) /\ \E n : Opens(p, e, x, n)
  BY <1>1, OpenEffect
<1>3. PICK n : Opens(p, e, x, n)
  BY <1>2
<1>4. /\ e \in Datasets /\ x \in Days
      /\ \A b \in Datasets, d \in Days : b # e \/ d # x => part'[b][d] = part[b][d]
      /\ \A i \in DOMAIN part[e][x] : part'[e][x][i] = part[e][x][i]
  BY <1>2, <1>3 DEF Writes, Opens
<1>5. /\ n \in Nat /\ DOMAIN part[e][x] = 1..n /\ DOMAIN part'[e][x] = 1..(n + 1)
      /\ part'[e][x][n + 1].rows = Torn
  BY <1>3 DEF Opens
<1>6. DOMAIN part'[e][x] = DOMAIN part[e][x] \cup {n + 1}
  BY <1>5
<1>7. \A c : ~(c \in Torn /\ c > NoDate)
  BY ReferenceAssumption DEF Torn, NoDate
<1>8. ASSUME NEW c PROVE c \in DatesLanded(ds)' <=> c \in DatesLanded(ds)
  <2>1. c \in DatesLanded(ds) <=> \E d \in Days : \E i \in DOMAIN part[ds][d] :
                c \in part[ds][d][i].rows /\ c > NoDate
    BY InDates
  <2>2. c \in DatesLanded(ds)' <=> \E d \in Days : \E i \in DOMAIN part'[ds][d] :
                c \in part'[ds][d][i].rows /\ c > NoDate
    BY DatesNext
  <2>3. ASSUME NEW d \in Days
        PROVE  (\E i \in DOMAIN part'[ds][d] : c \in part'[ds][d][i].rows /\ c > NoDate)
               <=> (\E i \in DOMAIN part[ds][d] : c \in part[ds][d][i].rows /\ c > NoDate)
    <3>1. CASE ds # e \/ d # x
      BY <1>4, <3>1
    <3>2. CASE ds = e /\ d = x
      BY <1>4, <1>5, <1>6, <1>7, <3>2
    <3> QED
      BY <3>1, <3>2
  <2> QED
    BY <2>1, <2>2, <2>3
<1> QED
  BY <1>8

LEMMA FinishDates ==
    ASSUME TypeInv, TypeInv', FileInv, NEW p \in Procs, Finish(p), NEW ds \in Datasets
    PROVE  DatesLanded(ds)' = DatesLanded(ds) \cup
             IF ds = Item(p)[1] THEN {c \in run[p].rows : c > NoDate} ELSE {}
<1> DEFINE e == Item(p)[1]
           x == run[p].dt
<1>1. e = Item(p)[1] /\ x = run[p].dt
  OBVIOUS
<1> HIDE DEF e, x
<1>2. Writes(e, x) /\ \E m : Completes(p, e, x, m)
  BY <1>1, FinishEffect
<1>3. PICK m : Completes(p, e, x, m)
  BY <1>2
<1>4. /\ e \in Datasets /\ x \in Days /\ m \in DOMAIN part[e][x]
      /\ \A b \in Datasets, d \in Days : b # e \/ d # x => part'[b][d] = part[b][d]
      /\ DOMAIN part'[e][x] = DOMAIN part[e][x]
  BY <1>2, <1>3 DEF Writes, Completes
<1>5. /\ part[e][x][m].rows = Torn /\ part'[e][x][m].rows = run[p].rows
      /\ \A i \in DOMAIN part[e][x] \ {m} : part'[e][x][i] = part[e][x][i]
  BY <1>3 DEF Completes
<1>6. \A c : ~(c \in Torn /\ c > NoDate)
  BY ReferenceAssumption DEF Torn, NoDate
<1>7. ASSUME NEW c
      PROVE  c \in DatesLanded(ds)' <=>
               c \in DatesLanded(ds) \/ (ds = e /\ c \in run[p].rows /\ c > NoDate)
  <2>1. c \in DatesLanded(ds) <=> \E d \in Days : \E i \in DOMAIN part[ds][d] :
                c \in part[ds][d][i].rows /\ c > NoDate
    BY InDates
  <2>2. c \in DatesLanded(ds)' <=> \E d \in Days : \E i \in DOMAIN part'[ds][d] :
                c \in part'[ds][d][i].rows /\ c > NoDate
    BY DatesNext
  <2>3. ASSUME NEW d \in Days
        PROVE  (\E i \in DOMAIN part'[ds][d] : c \in part'[ds][d][i].rows /\ c > NoDate)
               <=> \/ \E i \in DOMAIN part[ds][d] : c \in part[ds][d][i].rows /\ c > NoDate
                   \/ ds = e /\ d = x /\ c \in run[p].rows /\ c > NoDate
    <3>1. CASE ds # e \/ d # x
      BY <1>4, <3>1
    <3>2. CASE ds = e /\ d = x
      BY <1>4, <1>5, <1>6, <3>2
    <3> QED
      BY <3>1, <3>2
  <2> QED
    BY <1>4, <2>1, <2>2, <2>3
<1>8. \A c : c \in (IF ds = e THEN {y \in run[p].rows : y > NoDate} ELSE {})
                <=> ds = e /\ c \in run[p].rows /\ c > NoDate
  OBVIOUS
<1> QED
  BY <1>1, <1>7, <1>8

\* The other steps land nothing.
LEMMA QuietDates ==
    ASSUME UNCHANGED part PROVE \A ds : DatesLanded(ds)' = DatesLanded(ds)
  BY DEF DatesLanded, Landed

LEMMA PartSteps ==
    ASSUME [Next]_vars
    PROVE  UNCHANGED part \/ \E p \in Procs : Open(p) \/ Finish(p)
  BY ZenonT(40) DEF Next, vars, Timer, Restart, Hand, HandFull, Tomorrow, FetchList, FlexSend,
         FlexGenerating, FlexReady, FetchRates, Baseline, End, Fault, GiveUp,
         Steady, Quiet

LEMMA DatesGrow ==
    ASSUME TypeInv, TypeInv', FileInv, [Next]_vars, NEW ds \in Datasets
    PROVE  DatesLanded(ds) \subseteq DatesLanded(ds)'
  BY PartSteps, QuietDates, OpenDates, FinishDates

LEMMA DayGrows == ASSUME TypeInv, [Next]_vars PROVE day \in Int /\ day' \in Int /\ day <= day'
<1>1. day \in Int
  BY DEF TypeInv, Typed, RestTyped, Days
<1>2. UNCHANGED day \/ Tomorrow
  <2>1. CASE UNCHANGED vars
    BY <2>1 DEF vars
  <2>2. CASE Timer \/ Restart \/ HandFull
    BY <2>2 DEF Timer, Restart, HandFull
  <2>3. CASE Hand
    BY <2>3 DEF Hand
  <2>4. ASSUME NEW p \in Procs,
               \/ FetchList(p) \/ FlexSend(p) \/ FlexGenerating(p)
               \/ \E to \in Periods, named \in BOOLEAN : FlexReady(p, to, named)
               \/ \E n \in 0..Quota : FetchRates(p, n)
               \/ Baseline(p) \/ Open(p) \/ Finish(p) \/ End(p) \/ Fault(p) \/ GiveUp(p)
        PROVE  UNCHANGED day
    BY <2>4 DEF FetchList, FlexSend, FlexGenerating, FlexReady, FetchRates, Baseline,
         Open, Finish, End, Fault, GiveUp, Steady, Quiet
  <2> QED
    BY <2>1, <2>2, <2>3, <2>4 DEF Next
<1>3. Tomorrow => day' = day + 1
  BY DEF Tomorrow
<1> QED
  BY <1>1, <1>2, <1>3

\* What LoadCurve answers of any set of dates: the newest not after want.
CurveOf(want, c) ==
    LET old == {x \in DatesLanded("treasury_yields") : x <= want} IN
    /\ old \subseteq Int
    /\ old = {} => c = NoDate
    /\ old # {} => c \in old /\ \A x \in old : x <= c

LEMMA CurveIs ==
    ASSUME TypeInv, FileInv, NEW want \in Int
    PROVE  CurveOf(want, LoadCurve(want))
<1> DEFINE D == DatesLanded("treasury_yields")
           old == {c \in D : c <= want}
<1>1. D \subseteq (1 - History)..(day - 1)
  BY DatesRange DEF SourceSet
<1>2. LoadCurve(want) = IF old = {} THEN NoDate ELSE Max(old)
  BY DEF LoadCurve, DatesLanded
<1>3. 1 - History \in Int /\ day - 1 \in Int
  BY ReferenceAssumption DEF TypeInv, Typed, RestTyped, Days
<1>4. old \subseteq (1 - History)..(day - 1) /\ old \subseteq Int
  <2>1. old \subseteq D
    OBVIOUS
  <2> HIDE DEF D, old
  <2> QED
    BY <1>1, <1>3, <2>1
<1>5. old # {} => Max(old) \in old /\ \A c \in old : c <= Max(old)
  <2> HIDE DEF old
  <2> QED
    BY <1>3, <1>4, MaxIsGreatest
<1> QED
  BY <1>2, <1>4, <1>5 DEF CurveOf

LEMMA CurveSays ==
    TypeInv /\ FileInv => \A w \in Int : CurveOf(w, LoadCurve(w))
  BY CurveIs

LEMMA CurveStep ==
    ASSUME TypeInv, TypeInv', FileInv, FileInv', [Next]_vars
    PROVE  LoadCurve(day)' >= LoadCurve(day)
<1> DEFINE old == {c \in DatesLanded("treasury_yields") : c <= day}
           new == {c \in DatesLanded("treasury_yields")' : c <= day'}
           was == LoadCurve(day)
           is  == LoadCurve(day)'
<1>1. day \in Int /\ day' \in Int /\ day <= day'
  BY DayGrows
<1>2. /\ old \subseteq Int
      /\ old = {} => was = NoDate
      /\ old # {} => was \in old /\ \A c \in old : c <= was
  BY <1>1, CurveIs DEF CurveOf
<1>3. /\ new \subseteq Int
      /\ new = {} => is = NoDate
      /\ new # {} => is \in new /\ \A c \in new : c <= is
  <2>1. (\A w \in Int : CurveOf(w, LoadCurve(w)))'
    BY CurveSays, PTL
  <2>2. \A w \in Int :
           /\ {x \in DatesLanded("treasury_yields")' : x <= w} \subseteq Int
           /\ {x \in DatesLanded("treasury_yields")' : x <= w} = {} => LoadCurve(w)' = NoDate
           /\ {x \in DatesLanded("treasury_yields")' : x <= w} # {} =>
                 /\ LoadCurve(w)' \in {x \in DatesLanded("treasury_yields")' : x <= w}
                 /\ \A x \in {y \in DatesLanded("treasury_yields")' : y <= w} : x <= LoadCurve(w)'
    BY <2>1 DEF CurveOf, NoDate
  <2> QED
    BY <1>1, <2>2
<1>4. "treasury_yields" \in Datasets
  BY SourcesAre DEF SourceSet
<1>5. old \subseteq new
  BY <1>1, <1>2, <1>4, DatesGrow
<1>6. NoDate \in Int /\ \A c \in new : c > NoDate
  <2>1. \A c \in DatesLanded("treasury_yields")' : c > NoDate
    BY <1>4, DatesNext
  <2> QED
    BY <2>1, ReferenceAssumption DEF NoDate
<1> HIDE DEF old, new, was, is
<1>7. is >= was
  <2>1. CASE new = {}
    BY <1>2, <1>3, <1>5, <1>6, <2>1
  <2>2. CASE new # {} /\ old = {}
    <3>1. was = NoDate /\ is \in new /\ is \in Int
      BY <1>2, <1>3, <2>2
    <3>2. is > NoDate
      BY <1>6, <3>1
    <3> QED
      BY <1>6, <3>1, <3>2
  <2>3. CASE old # {}
    BY <1>2, <1>3, <1>5, <2>3
  <2> QED
    BY <2>1, <2>2, <2>3
<1> QED
  BY <1>7 DEF was, is

\* The curve of today is never replaced by an older one, whatever lands.
\* (_load_curve_cached, rates_sync --full)
THEOREM CurvesNeverAge == Spec => CurveNeverAges
<1>1. TypeInv /\ TypeInv' /\ FileInv /\ FileInv' /\ [Next]_vars
         => [LoadCurve(day)' >= LoadCurve(day)]_vars
  BY CurveStep
<1> QED
  BY <1>1, FileInvariance, PTL DEF Spec, CurveNeverAges

-----------------------------------------------------------------------------
(***************************************************************************)
(* The readers choose the last that landed.                                *)
(***************************************************************************)
LEMMA LastIs ==
    ASSUME TypeInv, NEW ds \in Datasets, NEW u, NEW m \in Days, NEW i \in Whole(ds, u, m),
           \A j \in Whole(ds, u, m) : j <= i,
           \A d \in Days : Whole(ds, u, d) # {} => d <= m
    PROVE  LastLanded(ds, u) = part[ds][m][i].rows
<1> DEFINE days == {d \in Days : Whole(ds, u, d) # {}}
<1>1. m \in days /\ days \subseteq Int /\ \A d \in days : d <= m
  BY DEF Days
<1>2. Max(days) = m
  <2> HIDE DEF days
  <2> QED
    BY <1>1, GreatestIs
<1>3. Whole(ds, u, m) \subseteq Int
  <2>1. part[ds][m] \in Seq(FileOf)
    BY DEF TypeInv, Typed, PartTyped
  <2>2. DOMAIN part[ds][m] = 1..Len(part[ds][m])
    BY <2>1
  <2> QED
    BY <2>2 DEF Whole
<1>4. Max(Whole(ds, u, m)) = i
  BY <1>3, GreatestIs
<1>5. LastLanded(ds, u) =
        IF days = {} THEN {} ELSE part[ds][Max(days)][Max(Whole(ds, u, Max(days)))].rows
  BY DEF LastLanded
<1>6. days # {}
  BY <1>1
<1> HIDE DEF days
<1> QED
  BY <1>2, <1>4, <1>5, <1>6

LEMMA NoneLanded ==
    ASSUME NEW ds, NEW u, \A d \in Days : Whole(ds, u, d) = {}
    PROVE  LastLanded(ds, u) = {}
<1> DEFINE days == {d \in Days : Whole(ds, u, d) # {}}
<1>1. days = {}
  OBVIOUS
<1>2. LastLanded(ds, u) =
        IF days = {} THEN {} ELSE part[ds][Max(days)][Max(Whole(ds, u, Max(days)))].rows
  BY DEF LastLanded
<1> QED
  BY <1>1, <1>2

\* The newest file of an underlying, when it is whole, is the last whole one.
LEMMA NewestWhole ==
    ASSUME TypeInv, NEW ds \in Datasets, NEW d \in Days,
           NEW u \in DOMAIN FilesByUnderlying(ds, d),
           FilesByUnderlying(ds, d)[u].rows # Torn
    PROVE  \E i \in Whole(ds, u, d) :
              /\ part[ds][d][i].rows = FilesByUnderlying(ds, d)[u].rows
              /\ \A j \in Whole(ds, u, d) : j <= i
<1>1. PICK i \in DOMAIN part[ds][d] :
              /\ part[ds][d][i].by = u /\ FilesByUnderlying(ds, d)[u] = part[ds][d][i]
              /\ \A j \in DOMAIN part[ds][d] : part[ds][d][j].by = u => j <= i
  BY NewestFiles
<1> QED
  BY <1>1 DEF Whole

\* A whole file is of a day that came, its partition names its underlying,
\* and a listing is empty only of an underlying the vendor does not list.
LEMMA WholeNamed ==
    ASSUME TypeInv, FileInv, NEW ds \in Datasets, NEW d \in Days, NEW u,
           NEW i \in Whole(ds, u, d)
    PROVE  /\ d \in Partitions(ds) /\ d <= day /\ u \in DOMAIN FilesByUnderlying(ds, d)
           /\ Said(ds, u, d, part[ds][d][i].rows)
<1>1. i \in DOMAIN part[ds][d] /\ part[ds][d][i].by = u /\ part[ds][d][i].rows # Torn
  BY DEF Whole
<1>2. FilesOK(ds, d)
  BY DEF FileInv
<1>3. part[ds][d] # <<>> /\ d \in Int /\ day \in Int
  BY <1>1 DEF TypeInv, Typed, RestTyped, Days
<1>4. DOMAIN FilesByUnderlying(ds, d) = {part[ds][d][j].by : j \in DOMAIN part[ds][d]}
  BY DEF FilesByUnderlying
<1> QED
  BY <1>1, <1>2, <1>3, <1>4 DEF FilesOK, Partitions

\* What ReadAsof gives of a partition that names the underlying.
LEMMA ReadIs ==
    ASSUME NEW ds, NEW d, NEW u \in DOMAIN FilesByUnderlying(ds, d),
           ReadAsof(ds, d, u) # Torn
    PROVE  /\ ReadAsof(ds, d, u) = FilesByUnderlying(ds, d)[u].rows
           /\ FilesByUnderlying(ds, d)[u].rows # Torn
  BY DEF ReadAsof

LEMMA TickersAreLast ==
    ASSUME TypeInv, FileInv, NEW ds \in Listings, NEW u
    PROVE  PreviousTickers(ds, u) \in {Torn, LastLanded(ds, u)}
<1> DEFINE named == {d \in Partitions(ds) :
                       d <= day /\ u \in DOMAIN FilesByUnderlying(ds, d)}
           holds == {d \in named : ReadAsof(ds, d, u) # {}}
<1>1. ds \in Datasets
  BY DEF Listings, Datasets
<1>2. PreviousTickers(ds, u) = IF holds = {} THEN {} ELSE ReadAsof(ds, Max(holds), u)
  BY DEF PreviousTickers
<1>3. holds \subseteq 1..LastDay /\ LastDay \in Int /\ holds \subseteq Days
  BY ReferenceAssumption DEF Partitions, Days
<1>4. Torn # {}
  BY DEF Torn
\* A day with a whole file that reads empty: the vendor lists nothing.
<1>5. ASSUME NEW d \in Days, Whole(ds, u, d) # {}, d \notin holds
      PROVE  u \in Unlisted
  <2>1. PICK i \in Whole(ds, u, d) : TRUE
    BY <1>5
  <2>2. d \in named
    BY <1>1, <2>1, WholeNamed
  <2>3. ReadAsof(ds, d, u) = {}
    BY <1>5, <2>2
  <2>4. FilesByUnderlying(ds, d)[u].rows = {} /\ FilesByUnderlying(ds, d)[u].rows # Torn
    BY <1>4, <2>2, <2>3, ReadIs
  <2>5. PICK k \in Whole(ds, u, d) :
               part[ds][d][k].rows = FilesByUnderlying(ds, d)[u].rows
    BY <1>1, <2>2, <2>4, NewestWhole
  <2> QED
    BY <1>1, <2>4, <2>5, WholeNamed DEF Said
<1>6. CASE holds = {}
  <2>1. CASE \A d \in Days : Whole(ds, u, d) = {}
    BY <1>2, <1>6, <2>1, NoneLanded
  <2>2. CASE ~ \A d \in Days : Whole(ds, u, d) = {}
    <3> DEFINE days == {d \in Days : Whole(ds, u, d) # {}}
    <3>1. days \subseteq 1..LastDay /\ days # {} /\ days \subseteq Days
      BY <2>2 DEF Days
    <3>2. Max(days) \in days /\ \A d \in days : d <= Max(days)
      <4> HIDE DEF days
      <4> QED
        BY <1>3, <3>1, LastIndex
    <3>3. PICK m \in Days : Whole(ds, u, m) # {} /\ \A d \in Days : Whole(ds, u, d) # {} => d <= m
      BY <3>2
    <3>4. u \in Unlisted
      BY <1>5, <1>6, <3>3
    <3>5. part[ds][m] \in Seq(FileOf)
      BY <1>1 DEF TypeInv, Typed, PartTyped
    <3>6. Whole(ds, u, m) \subseteq 1..Len(part[ds][m]) /\ Len(part[ds][m]) \in Int
      BY <3>5 DEF Whole
    <3>7. Max(Whole(ds, u, m)) \in Whole(ds, u, m)
          /\ \A j \in Whole(ds, u, m) : j <= Max(Whole(ds, u, m))
      BY <3>3, <3>6, LastIndex
    <3>8. PICK i \in Whole(ds, u, m) : \A j \in Whole(ds, u, m) : j <= i
      BY <3>7
    <3>9. LastLanded(ds, u) = part[ds][m][i].rows
      BY <1>1, <3>3, <3>8, LastIs
    <3>10. part[ds][m][i].rows = {}
      BY <1>1, <3>4, <3>8, WholeNamed DEF Said
    <3> QED
      BY <1>2, <1>6, <3>9, <3>10
  <2> QED
    BY <2>1, <2>2
<1>7. CASE holds # {}
  <2>1. Max(holds) \in holds /\ \A d \in holds : d <= Max(holds)
    <3> HIDE DEF holds
    <3> QED
      BY <1>3, <1>7, LastIndex
  <2>2. PICK h \in holds : h = Max(holds) /\ \A d \in holds : d <= h
    BY <2>1
  <2>3. h \in Days /\ u \in DOMAIN FilesByUnderlying(ds, h) /\ ReadAsof(ds, h, u) # {}
        /\ PreviousTickers(ds, u) = ReadAsof(ds, h, u)
    BY <1>2, <1>3, <1>7, <2>2
  <2>4. CASE ReadAsof(ds, h, u) = Torn
    BY <2>3, <2>4
  <2>5. CASE ReadAsof(ds, h, u) # Torn
    <3>1. /\ ReadAsof(ds, h, u) = FilesByUnderlying(ds, h)[u].rows
          /\ FilesByUnderlying(ds, h)[u].rows # Torn
      BY <2>3, <2>5, ReadIs
    <3>2. PICK i \in Whole(ds, u, h) :
              /\ part[ds][h][i].rows = FilesByUnderlying(ds, h)[u].rows
              /\ \A j \in Whole(ds, u, h) : j <= i
      BY <1>1, <2>3, <3>1, NewestWhole
    <3>3. u \notin Unlisted
      BY <1>1, <2>3, <3>1, <3>2, WholeNamed DEF Said
    <3>4. \A d \in Days : Whole(ds, u, d) # {} => d <= h
      BY <1>5, <2>2, <3>3
    <3>5. LastLanded(ds, u) = part[ds][h][i].rows
      BY <1>1, <2>3, <3>2, <3>4, LastIs
    <3> QED
      BY <2>3, <3>1, <3>2, <3>5
  <2> QED
    BY <2>4, <2>5
<1> QED
  BY <1>6, <1>7

LEMMA ContractsAreLast ==
    ASSUME TypeInv, FileInv, NEW u \in DOMAIN LatestContracts(day)
    PROVE  LatestContracts(day)[u].rows \in {Torn, LastLanded("contracts", u)}
<1> DEFINE past == {e \in Partitions("contracts") : e <= day}
           e == LatestPartition("contracts", day)
<1>1. "contracts" \in Datasets
  BY DEF Datasets
<1>2. past # {}
  BY DEF LatestContracts
<1>3. past \subseteq 1..LastDay /\ LastDay \in Int /\ past \subseteq Days
  BY ReferenceAssumption DEF Partitions, Days
<1>4. e = Max(past)
  BY DEF LatestPartition
<1>5. e \in past /\ \A d \in past : d <= e
  <2> HIDE DEF past
  <2> QED
    BY <1>2, <1>3, <1>4, LastIndex
<1>6. LatestContracts(day) = FilesByUnderlying("contracts", e)
  BY <1>2 DEF LatestContracts
<1>7. e \in Days
  BY <1>3, <1>5
<1>8. CASE FilesByUnderlying("contracts", e)[u].rows # Torn
  <2>1. \A d \in Days : Whole("contracts", u, d) # {} => d <= e
    BY <1>1, <1>5, WholeNamed
  <2> HIDE DEF e
  <2>2. PICK i \in Whole("contracts", u, e) :
              /\ part["contracts"][e][i].rows = FilesByUnderlying("contracts", e)[u].rows
              /\ \A j \in Whole("contracts", u, e) : j <= i
    BY <1>1, <1>6, <1>7, <1>8, NewestWhole
  <2> QED
    BY <1>1, <1>6, <1>7, <2>1, <2>2, LastIs
<1> QED
  BY <1>6, <1>8

LEMMA DividendsAreWhole ==
    ASSUME TypeInv, FileInv
    PROVE  LoadDividends(day) = << >> \/
               UNION {Landed("dividends", d) : d \in Days} \subseteq DOMAIN LoadDividends(day)
<1> DEFINE ds   == "dividends"
           past == {e \in Partitions(ds) : e <= day}
           e    == LatestPartition(ds, day)
           files == part[ds][e]
           All  == UNION {files[i].rows : i \in DOMAIN files}
<1>1. ds \in Datasets /\ day \in Int
  BY DEF Datasets, TypeInv, Typed, RestTyped, Days
<1>2. ASSUME NEW d \in Partitions(ds) PROVE d \in Days /\ d \in Int /\ d <= day
  <2>1. d \in Days /\ d \in Int /\ part[ds][d] # <<>>
    BY DEF Partitions, Days
  <2>2. FilesOK(ds, d)
    BY <1>1, <2>1 DEF FileInv
  <2> QED
    BY <1>1, <2>1, <2>2 DEF FilesOK
<1> SUFFICES ASSUME LoadDividends(day) # << >> 
             PROVE  DatesLanded(ds) \subseteq DOMAIN LoadDividends(day)
  BY DEF DatesLanded
<1>3. Partitions(ds) # {}
  BY DEF LoadDividends
<1>4. past # {} /\ \E d \in Partitions(ds) : d <= day
  BY <1>2, <1>3
<1>5. LoadDividends(day) = ReadPartition(ds, e)
  BY <1>3, <1>4 DEF LoadDividends
<1>6. e \in past /\ \A d \in past : d <= e
  <2>1. past \subseteq 1..LastDay /\ LastDay \in Int /\ e = Max(past)
    BY ReferenceAssumption DEF Partitions, Days, LatestPartition
  <2> HIDE DEF past, e
  <2> QED
    BY <1>4, <2>1, LastIndex
<1>7. e \in Days /\ e \in Int /\ files # <<>> /\ files \in Seq(FileOf)
  <2>1. e \in Days /\ e \in Int /\ files # <<>>
    BY <1>2, <1>6 DEF Partitions
  <2> QED
    BY <1>1, <2>1 DEF TypeInv, Typed, PartTyped
<1> HIDE DEF e
<1>8. \A i \in DOMAIN files : files[i].rows # Torn
  BY <1>5 DEF ReadPartition
<1>9. DOMAIN LoadDividends(day) = All
  BY <1>5, <1>8 DEF ReadPartition
<1>10. \A i \in DOMAIN files : files[i].rows = 1..(e + 1)
  BY <1>1, <1>7, <1>8 DEF FileInv, FilesOK, Said
<1>11. 1 \in DOMAIN files
  <2> HIDE DEF files
  <2> QED
    BY <1>7
<1>12. ASSUME NEW c \in DatesLanded(ds) PROVE c \in 1..(e + 1)
  <2>1. PICK d \in Days : \E i \in DOMAIN part[ds][d] :
               c \in part[ds][d][i].rows /\ c > NoDate
    BY <1>1, InDates
  <2>2. PICK i \in DOMAIN part[ds][d] : c \in part[ds][d][i].rows /\ c > NoDate
    BY <2>1
  <2>3. part[ds][d][i].rows # Torn /\ part[ds][d] # <<>>
    BY <2>2, ReferenceAssumption DEF Torn, NoDate
  <2>4. part[ds][d][i].rows = 1..(d + 1)
    BY <1>1, <2>3 DEF FileInv, FilesOK, Said
  <2>5. d \in Partitions(ds)
    BY <2>3 DEF Partitions
  <2>6. d \in Int /\ d <= e
    BY <1>2, <1>6, <2>5
  <2> QED
    BY <1>7, <2>2, <2>4, <2>6
<1>13. \A c \in 1..(e + 1) : c \in All
  BY <1>10, <1>11
<1> QED
  BY <1>9, <1>12, <1>13

\* The readers that choose among files choose the last that landed: the diff's
\* baseline is the last listing of its underlying, a universe holds the last
\* listing of all it names, a dividend stream every event that landed.
\* (_previous_tickers, latest_contracts, load_dividends)
THEOREM LastLandingsAreRead == Spec => []LastLandingIsRead
<1>1. TypeInv /\ FileInv => LastLandingIsRead
  BY TickersAreLast, ContractsAreLast, DividendsAreWhole DEF LastLandingIsRead, Listings
<1> QED
  BY <1>1, FileInvariance, PTL

-----------------------------------------------------------------------------
(***************************************************************************)
(* The history: what is landed and what a run holds of a series, and the   *)
(* oldest date it has gone down to.  P is what is published.               *)
(***************************************************************************)
\* What a run holds of a series and has not landed.
Pend(p, ds) ==
    IF run[p].at \in {"open", "finish"} /\ Item(p)[1] = ds THEN run[p].rows ELSE {}

\* Some date of S is not older than the day before the first.
Recent(S) == History > 0 /\ S # {} => \E x \in S : x >= 0
\* From c up to its newest date S has all that is published.
Contig(P, c, S)  == \A d \in P, x \in S : c <= d /\ d <= x => d \in S
Reached(P, c, S) == c # Never => S # {} /\ Contig(P, c, S)
\* What a daily run holds goes back to the first day.
Window(P, S) == S # {} => Recent(S) /\ \A d \in P : d >= 1 => d \in S

\* D landed, c the cursor saved; U held by the unit, H by the shell; full says
\* whether the shell walks the history, and cur how far down it is.
HistIs(P, D, c, U, H, full, cur) ==
    /\ Recent(D) /\ Reached(P, c, D) /\ Window(P, U) /\ (full \/ Window(P, H))
    /\ full => /\ cur <= c /\ \A x \in H : x < c
               /\ Recent(D \cup H) /\ Reached(P, cur, D \cup H)

HistOK(ds) ==
    HistIs(Published, DatesLanded(ds), cursor[ds], Pend("unit", ds), Pend("shell", ds),
           run["shell"].full, run["shell"].cur[ds])

\* Only runs by hand walk the history.
HistInv ==
    /\ ~run["unit"].full /\ \A ds \in SourceSet : HistOK(ds)
    /\ \A p \in Procs : run[p].at = "baseline" => job = "contracts_sync"

\* The weekdays before the last day fit in a page.
PageReachesBack == Cardinality({d \in Weekdays : d < LastDay}) <= PAGE

LEMMA WindowJoins ==
    ASSUME NEW P \in SUBSET Int, \A d \in P : d >= 1 - History,
           NEW D \in SUBSET Int, NEW W \in SUBSET Int, NEW c \in Int,
           Recent(D), Reached(P, c, D), Window(P, W)
    PROVE  Recent(D \cup W) /\ Reached(P, c, D \cup W)
<1> USE ReferenceAssumption
<1>1. CASE W = {}
  <2>1. D \cup W = D
    BY <1>1
  <2> QED
    BY <2>1
<1>2. CASE W # {}
  <2>1. Recent(W) /\ \A d \in P : d >= 1 => d \in W
    BY <1>2 DEF Window
  <2>2. Recent(D \cup W)
    BY <1>2, <2>1 DEF Recent
  <2>3. ASSUME c # Never PROVE D \cup W # {} /\ Contig(P, c, D \cup W)
    <3>1. D # {} /\ Contig(P, c, D)
      BY <2>3 DEF Reached
    <3>2. ASSUME NEW d \in P, NEW x \in D \cup W, c <= d, d <= x PROVE d \in D \cup W
      <4>1. CASE d >= 1
        BY <2>1, <4>1
      <4>2. CASE d < 1
        <5>1. History > 0
          BY <4>2
        <5>2. PICK y \in D : y >= 0
          BY <3>1, <5>1 DEF Recent
        <5> QED
          BY <3>1, <3>2, <4>2, <5>2 DEF Contig
      <4> QED
        BY <4>1, <4>2
    <3> QED
      BY <3>1, <3>2 DEF Contig
  <2> QED
    BY <2>2, <2>3 DEF Reached
<1> QED
  BY <1>1, <1>2

\* The newest n of a set hold what is newer than any of them.
LEMMA NewestUp ==
    ASSUME NEW S, IsFiniteSet(S), S \subseteq Int, NEW n \in Int,
           NEW x \in Newest(S, n), NEW d \in S, x <= d
    PROVE  d \in Newest(S, n)
<1> DEFINE A == {e \in S : e > d}
           B == {e \in S : e > x}
<1>1. x \in S /\ Cardinality(B) < n
  BY DEF Newest
<1>2. A \subseteq B /\ IsFiniteSet(B)
  <2>1. ASSUME NEW e \in A PROVE e \in B
    <3>1. e \in S /\ e \in Int /\ d \in Int /\ x \in Int /\ e > d
      BY <1>1
    <3>2. e > x
      BY <3>1
    <3> QED
      BY <3>1, <3>2
  <2>2. B \subseteq S
    OBVIOUS
  <2> HIDE DEF A, B
  <2> QED
    BY <2>1, <2>2, FS_Subset
<1>3. Cardinality(A) <= Cardinality(B) /\ Cardinality(A) \in Nat /\ Cardinality(B) \in Nat
  <2> HIDE DEF A, B
  <2> QED
    BY <1>2, FS_Subset, FS_CardinalityType
<1>4. Cardinality(A) < n
  <2> HIDE DEF A, B
  <2> QED
    BY <1>1, <1>3
<1> QED
  BY <1>4 DEF Newest

LEMMA PublishedFinite ==
    ASSUME day \in Days
    PROVE  IsFiniteSet(Published) /\ Published \subseteq Int
           /\ (\A d \in Published : d >= 1 - History /\ d <= day - 1)
           /\ (History > 0 => 0 \in Published)
<1>1. 1 - History \in Int /\ day - 1 \in Int /\ History \in Nat /\ day \in Int /\ day >= 1
  BY ReferenceAssumption DEF Days
<1>2. IsFiniteSet((1 - History)..(day - 1))
  BY <1>1, FS_Interval
<1>3. Published \subseteq (1 - History)..(day - 1)
  BY PublishedRange
<1>4. IsFiniteSet(Published)
  BY <1>2, <1>3, FS_Subset
<1> QED
  BY <1>1, <1>3, <1>4 DEF Published

\* A daily page goes back to the first day.
LEMMA DailyPage ==
    ASSUME PageReachesBack, day \in Days
    PROVE  Window(Published, Newest(Published, PAGE))
<1> DEFINE N == Newest(Published, PAGE)
           Since == {d \in Published : d >= 1}
           Earlier == {d \in Weekdays : d < LastDay}
<1>1. IsFiniteSet(Published) /\ Published \subseteq Int
      /\ (\A d \in Published : d <= day - 1) /\ (History > 0 => 0 \in Published)
  BY PublishedFinite
<1>2. Since \subseteq Earlier /\ LastDay \in Int /\ Weekdays \subseteq 1..LastDay /\ PAGE \in Nat
      /\ PAGE > 0
  BY <1>1, ReferenceAssumption DEF Published, Days
<1>3. Cardinality(Since) <= PAGE /\ IsFiniteSet(Since) /\ Cardinality(Since) \in Nat
  <2>1. IsFiniteSet(1..LastDay)
    BY <1>2, FS_Interval
  <2>2. Earlier \subseteq 1..LastDay
    BY <1>2
  <2>3. IsFiniteSet(Earlier)
    BY <2>1, <2>2, FS_Subset
  <2>4. Cardinality(Earlier) <= PAGE
    BY DEF PageReachesBack
  <2> HIDE DEF Since, Earlier
  <2> QED
    BY <1>2, <2>3, <2>4, FS_Subset, FS_CardinalityType
<1>4. ASSUME NEW d \in Since PROVE d \in N
  <2> DEFINE A == {e \in Published : e > d}
  <2>1. d \in Published /\ d \in Int /\ d >= 1
    BY <1>1
  <2>2. A \subseteq Since /\ d \notin A /\ d \in Published
    <3>1. ASSUME NEW e \in A PROVE e \in Since
      <4>1. e \in Published /\ e \in Int /\ e > d
        BY <1>1
      <4>2. e >= 1
        BY <2>1, <4>1
      <4> QED
        BY <4>1, <4>2
    <3>2. d \notin A
      BY <2>1
    <3> HIDE DEF A, Since
    <3> QED
      BY <2>1, <3>1, <3>2
  <2>3. A \subseteq Since \ {d} /\ Cardinality(Since \ {d}) = Cardinality(Since) - 1
        /\ IsFiniteSet(Since \ {d})
    <3> HIDE DEF Since, A
    <3> QED
      BY <1>3, <2>2, FS_RemoveElement
  <2>4. Cardinality(A) <= Cardinality(Since) - 1 /\ Cardinality(A) \in Nat
    <3> HIDE DEF Since, A
    <3> QED
      BY <2>3, FS_Subset, FS_CardinalityType
  <2>5. Cardinality(A) < PAGE
    <3> HIDE DEF Since, A
    <3> QED
      BY <1>2, <1>3, <2>4
  <2> QED
    BY <2>2, <2>5 DEF Newest
<1>5. Recent(N)
  <2>1. CASE Since # {}
    <3>1. PICK d \in Since : TRUE
      BY <2>1
    <3>2. d \in N /\ d >= 0
      BY <1>1, <1>4, <3>1
    <3> QED
      BY <3>2 DEF Recent
  <2>2. CASE Since = {} /\ History > 0
    <3>1. {e \in Published : e > 0} = {}
      <4> SUFFICES ASSUME NEW e \in Published, e > 0 PROVE FALSE
        OBVIOUS
      <4>1. e \in Int /\ e >= 1
        BY <1>1
      <4> QED
        BY <2>2, <4>1
    <3>2. 0 \in N
      BY <1>1, <1>2, <2>2, <3>1, FS_EmptySet DEF Newest
    <3> QED
      BY <3>2 DEF Recent
  <2> QED
    BY <2>1, <2>2 DEF Recent
<1> QED
  BY <1>4, <1>5 DEF Window

\* A page of --full joins what is landed down to its oldest date.
LEMMA FullPage ==
    ASSUME day \in Days, NEW D \in SUBSET Int, \A x \in D : x <= day - 1, NEW c \in Int,
           Recent(D), Reached(Published, c, D), NEW n \in Int,
           NEW B, B = {d \in Published : d < c}, NEW N, N = Newest(B, n), N # {},
           NEW low \in N, \A x \in N : low <= x
    PROVE  Recent(D \cup N) /\ Reached(Published, low, D \cup N)
<1>1. /\ IsFiniteSet(Published) /\ Published \subseteq Int /\ day \in Int
      /\ \A d \in Published : d <= day - 1
      /\ (History > 0 => 0 \in Published)
      /\ day < Never /\ Never \in Int /\ Never > 0
  BY PublishedFinite, ReferenceAssumption DEF Days, Never
<1>2. B \subseteq Published /\ IsFiniteSet(B) /\ B \subseteq Int /\ N \subseteq B
  <2>1. B \subseteq Published
    OBVIOUS
  <2> QED
    BY <1>1, <2>1, FS_Subset, NewestOf
<1>3. \A x \in N, d \in B : x <= d => d \in N
  BY <1>2, NewestUp
<1>4. ASSUME NEW d \in Published, NEW x \in D \cup N, low <= d, d <= x PROVE d \in D \cup N
  <2>1. CASE d < c
    BY <1>2, <1>3, <1>4, <2>1
  <2>2. CASE d >= c
    <3>1. x \notin N
      BY <1>1, <1>2, <1>4, <2>2
    <3>2. c # Never
      BY <1>1, <1>4, <2>2
    <3> QED
      BY <1>4, <2>2, <3>1, <3>2 DEF Reached, Contig
  <2> QED
    BY <1>1, <2>1, <2>2
<1>5. Recent(D \cup N)
  <2>1. CASE D # {}
    BY <2>1 DEF Recent
  <2>2. CASE D = {} /\ History > 0
    <3>1. c = Never
      BY <2>2 DEF Reached
    <3>2. 0 \in B
      BY <1>1, <2>2, <3>1
    <3>3. CASE low >= 0
      BY <3>3 DEF Recent
    <3>4. CASE low < 0
      <4>1. 0 \in N
        BY <1>2, <1>3, <3>2, <3>4
      <4> QED
        BY <4>1 DEF Recent
    <3> QED
      BY <1>2, <3>3, <3>4
  <2> QED
    BY <2>1, <2>2 DEF Recent
<1> QED
  BY <1>4, <1>5 DEF Reached, Contig

\* What the state gives of a series.
LEMMA HistFacts ==
    ASSUME TypeInv, FileInv, NEW ds \in SourceSet
    PROVE  /\ Published \in SUBSET Int /\ (\A d \in Published : d >= 1 - History)
           /\ DatesLanded(ds) \in SUBSET Int /\ (\A x \in DatesLanded(ds) : x <= day - 1)
           /\ cursor[ds] \in Int /\ day \in Days
           /\ \A p \in Procs : run[p].cur[ds] \in Int
<1>1. day \in Days /\ day - 1 \in Int /\ 1 - History \in Int
  BY ReferenceAssumption DEF TypeInv, Typed, RestTyped, Days
<1>2. DatesLanded(ds) \subseteq (1 - History)..(day - 1)
  BY DatesRange
<1>3. DatesLanded(ds) \in SUBSET Int /\ \A x \in DatesLanded(ds) : x <= day - 1
  <2> DEFINE D == DatesLanded(ds)
  <2> HIDE DEF D
  <2>1. D \subseteq (1 - History)..(day - 1)
    BY <1>2 DEF D
  <2>2. D \in SUBSET Int /\ \A x \in D : x <= day - 1
    BY <1>1, <2>1
  <2> QED
    BY <2>2 DEF D
<1>4. cursor[ds] \in Int /\ \A p \in Procs : run[p].cur[ds] \in Int
  BY DEF TypeInv, Typed, RestTyped, RunTyped, RunOf
<1> QED
  BY <1>1, <1>3, <1>4, PublishedFinite

\* What a run holds of a series is of rates_sync, and typed.
LEMMA PendTyped ==
    ASSUME TypeInv, NEW p \in Procs, NEW ds \in SourceSet
    PROVE  Pend(p, ds) \in SUBSET Int /\ (Pend(p, ds) # {} => job = "rates_sync")
<1>1. Pend(p, ds) \in SUBSET Int
  BY DEF Pend, TypeInv, Typed, RunTyped, RunOf
<1>2. ASSUME Pend(p, ds) # {} PROVE job = "rates_sync"
  <2>1. run[p].at \in {"open", "finish"} /\ Item(p)[1] = ds
    BY <1>2 DEF Pend
  <2>2. run[p].todo # <<>>
    BY <2>1 DEF TypeInv, Ready
  <2>3. ds \in DatasetsOf(job)
    BY <2>1, <2>2, ItemTyped
  <2> QED
    BY <2>3 DEF DatasetsOf, SourceSet
<1> QED
  BY <1>1, <1>2

LEMMA PendOther ==
    ASSUME NEW q, run'[q] = run[q], NEW ds PROVE Pend(q, ds)' = Pend(q, ds)
  BY DEF Pend, Item

LEMMA NoPend ==
    ASSUME NEW q, run'[q].at \notin {"open", "finish"}, NEW ds PROVE Pend(q, ds)' = {}
  BY DEF Pend

LEMMA PendRates ==
    TypeInv => \A q \in Procs, e \in SourceSet : Pend(q, e) # {} => job = "rates_sync"
  BY PendTyped

LEMMA PendNext ==
    ASSUME TypeInv', job' # "rates_sync", NEW p \in Procs, NEW ds \in SourceSet
    PROVE  Pend(p, ds)' = {}
<1>1. (TypeInv => \A q \in Procs, e \in SourceSet : Pend(q, e) # {} => job = "rates_sync")'
  BY PendRates, PTL
<1> QED
  BY <1>1 DEF Procs, SourceSet

\* What is published of a day stays as it is while the day does.
LEMMA SamePublished == ASSUME UNCHANGED day PROVE Published' = Published
  BY DEF Published

LEMMA HistHolds ==
    ASSUME ~run'["unit"].full, \A p \in Procs : run'[p].at = "baseline" => job' = "contracts_sync",
           \A ds \in SourceSet :
             HistIs(Published', DatesLanded(ds)', cursor'[ds], Pend("unit", ds)', Pend("shell", ds)',
                    run'["shell"].full, run'["shell"].cur[ds])
    PROVE  HistInv'
  BY DEF HistInv, HistOK

LEMMA EmptyWindow == \A P : Window(P, {})
  BY DEF Window

\* A process that starts over or ends holds nothing.
LEMMA StoppedHist ==
    ASSUME HistInv, UNCHANGED <<job, day, part, cursor>>, NEW p \in Procs,
           \A q \in Procs \ {p} : run'[q] = run[q],
           ~run'[p].full, run'[p].at \notin {"baseline", "open", "finish"}
    PROVE  HistInv'
<1>1. Published' = Published /\ \A ds \in SourceSet : DatesLanded(ds)' = DatesLanded(ds)
  BY SamePublished, QuietDates
<1>2. ASSUME NEW ds \in SourceSet
      PROVE  HistIs(Published', DatesLanded(ds)', cursor'[ds], Pend("unit", ds)', Pend("shell", ds)',
                    run'["shell"].full, run'["shell"].cur[ds])
  <2>1. HistOK(ds)
    BY DEF HistInv
  <2>2. Pend(p, ds)' = {} /\ \A q \in Procs \ {p} : Pend(q, ds)' = Pend(q, ds)
    BY NoPend, PendOther
  <2>3. CASE p = "unit"
    <3>1. "shell" \in Procs \ {p}
      BY <2>3 DEF Procs
    <3> QED
      BY <1>1, <2>1, <2>2, <2>3, <3>1, EmptyWindow DEF HistOK, HistIs
  <2>4. CASE p = "shell"
    <3>1. "unit" \in Procs \ {p}
      BY <2>4 DEF Procs
    <3> QED
      BY <1>1, <2>1, <2>2, <2>4, <3>1, EmptyWindow DEF HistOK, HistIs
  <2> QED
    BY <2>3, <2>4 DEF Procs
<1>3. ~run'["unit"].full
  BY DEF HistInv, Procs
<1>4. \A q \in Procs : run'[q].at = "baseline" => job' = "contracts_sync"
  BY DEF HistInv
<1> QED
  BY <1>2, <1>3, <1>4, HistHolds

\* A process that holds what it held, and goes down no further.
LEMMA KeptHist ==
    ASSUME HistInv, UNCHANGED <<job, day, cursor>>, NEW p \in Procs,
           \A ds \in SourceSet : DatesLanded(ds)' = DatesLanded(ds) /\ Pend(p, ds)' = Pend(p, ds),
           \A q \in Procs \ {p} : run'[q] = run[q],
           run'[p].full = run[p].full, run'[p].cur = run[p].cur,
           run'[p].at = "baseline" => job = "contracts_sync"
    PROVE  HistInv'
<1>1. Published' = Published
  BY SamePublished
<1>2. ASSUME NEW ds \in SourceSet
      PROVE  HistIs(Published', DatesLanded(ds)', cursor'[ds], Pend("unit", ds)', Pend("shell", ds)',
                    run'["shell"].full, run'["shell"].cur[ds])
  <2>1. HistOK(ds)
    BY DEF HistInv
  <2>2. \A q \in Procs : /\ Pend(q, ds)' = Pend(q, ds)
                         /\ run'[q].full = run[q].full /\ run'[q].cur = run[q].cur
    BY PendOther
  <2> QED
    BY <1>1, <2>1, <2>2 DEF HistOK, Procs
<1>3. ~run'["unit"].full
  BY DEF HistInv, Procs
<1>4. \A q \in Procs : run'[q].at = "baseline" => job' = "contracts_sync"
  BY DEF HistInv
<1> QED
  BY <1>2, <1>3, <1>4, HistHolds

LEMMA HistInit == Init => HistInv
<1> SUFFICES ASSUME Init PROVE HistInv
  OBVIOUS
<1>1. \A p \in Procs : run[p] = Idle
  BY DEF Init
<1>2. \A p \in Procs : run[p].at = "idle" /\ run[p].full = FALSE
  BY <1>1 DEF Idle
<1>3. ASSUME NEW ds \in SourceSet PROVE HistOK(ds)
  <2>1. DatesLanded(ds) = {}
    <3>1. \A d \in Days : part[ds][d] = <<>>
      BY SourcesAre DEF Init
    <3>2. \A d \in Days : ToSet(part[ds][d]) = {}
      BY <3>1 DEF ToSet
    <3>3. \A d \in Days : Landed(ds, d) = {}
      BY <3>2 DEF Landed
    <3> QED
      BY <3>3 DEF DatesLanded
  <2>2. Pend("unit", ds) = {} /\ Pend("shell", ds) = {}
    BY <1>2 DEF Pend, Procs
  <2>3. cursor[ds] = Never /\ ~run["shell"].full
    BY <1>2, SourcesAre DEF Init, Procs
  <2> QED
    BY <2>1, <2>2, <2>3, EmptyWindow DEF HistOK, HistIs, Recent, Reached
<1> QED
  BY <1>2, <1>3 DEF HistInv, Procs

\* The steps of the jobs that keep no history.
LEMMA OtherJobHist ==
    ASSUME TypeInv, TypeInv', HistInv, job # "rates_sync", UNCHANGED <<job, day, part, cursor>>,
           NEW p \in Procs, \A q \in Procs \ {p} : run'[q] = run[q],
           run'[p].full = run[p].full, run'[p].cur = run[p].cur,
           run'[p].at = "baseline" => job = "contracts_sync"
    PROVE  HistInv'
<1>1. \A ds \in SourceSet : DatesLanded(ds)' = DatesLanded(ds)
  BY QuietDates
<1>2. ASSUME NEW ds \in SourceSet PROVE Pend(p, ds)' = Pend(p, ds)
  <2>1. Pend(p, ds) = {}
    BY PendTyped
  <2>2. Pend(p, ds)' = {}
    BY PendNext
  <2> QED
    BY <2>1, <2>2
<1> QED
  BY <1>1, <1>2, KeptHist

LEMMA ListHist ==
    ASSUME TypeInv, TypeInv', HistInv, NEW p \in Procs, FetchList(p) PROVE HistInv'
<1>1. /\ run \in [Procs -> RunOf] /\ UNCHANGED <<job, day, part, cursor>> /\ job # "rates_sync"
      /\ \A q \in Procs \ {p} : run'[q] = run[q]
  BY DEF TypeInv, Typed, RunTyped, FetchList, Steady, Quiet
<1>2. /\ run'[p].full = run[p].full /\ run'[p].cur = run[p].cur
      /\ run'[p].at = "baseline" => job = "contracts_sync"
  BY <1>1 DEF FetchList, RunOf
<1> QED
  BY <1>1, <1>2, OtherJobHist

LEMMA SendHist ==
    ASSUME TypeInv, TypeInv', HistInv, NEW p \in Procs, FlexSend(p) PROVE HistInv'
<1>1. /\ run \in [Procs -> RunOf] /\ UNCHANGED <<job, day, part, cursor>> /\ job # "rates_sync"
      /\ \A q \in Procs \ {p} : run'[q] = run[q]
      /\ run'[p].full = run[p].full /\ run'[p].cur = run[p].cur /\ run'[p].at = "poll"
  BY DEF TypeInv, Typed, RunTyped, RunOf, FlexSend, Goto, Steady, Quiet
<1> QED
  BY <1>1, OtherJobHist

LEMMA GeneratingHist ==
    ASSUME TypeInv, TypeInv', FileInv, HistInv, NEW p \in Procs, FlexGenerating(p)
    PROVE  HistInv'
<1> DEFINE n == run[p].polls + 1
<1>1. /\ run \in [Procs -> RunOf] /\ UNCHANGED <<job, day, part, cursor>>
      /\ run[p].at = "poll" /\ \A q \in Procs \ {p} : run'[q] = run[q]
  BY DEF TypeInv, Typed, RunTyped, FlexGenerating, Steady, Quiet
<1>2. job # "rates_sync"
  BY <1>1 DEF FileInv, RunOK, Active
<1>3. CASE n = POLL_TRIES
  <2>1. run'[p] = [Idle EXCEPT !.at = "failed"]
    BY <1>1, <1>3 DEF FlexGenerating
  <2> QED
    BY <1>1, <2>1, StoppedHist DEF Idle
<1>4. CASE n # POLL_TRIES
  <2>1. run'[p] = [run[p] EXCEPT !.polls = n]
    BY <1>1, <1>4 DEF FlexGenerating
  <2>2. run'[p].full = run[p].full /\ run'[p].cur = run[p].cur /\ run'[p].at = "poll"
    BY <1>1, <2>1 DEF RunOf
  <2> QED
    BY <1>1, <1>2, <2>2, OtherJobHist
<1> QED
  BY <1>3, <1>4

LEMMA ReadyHist ==
    ASSUME TypeInv, TypeInv', FileInv, HistInv, NEW p \in Procs, NEW to, NEW named,
           FlexReady(p, to, named)
    PROVE  HistInv'
<1> DEFINE dt == FlexDate(to, run[p].asked)
           got  == ParseTrades(Statement(to), Item(p)[2])
           rows == IF named \/ got = {} THEN got ELSE {Null}
<1>1. /\ run \in [Procs -> RunOf] /\ UNCHANGED <<job, day, part, cursor>>
      /\ run[p].at = "poll" /\ \A q \in Procs \ {p} : run'[q] = run[q]
  BY DEF TypeInv, Typed, RunTyped, FlexReady, Quiet
<1>2. job # "rates_sync"
  BY <1>1 DEF FileInv, RunOK, Active
<1>3. run'[p] = IF dt = 0 \/ ~CheckParsed(rows) THEN [Idle EXCEPT !.at = "failed"]
                ELSE IF rows = {} THEN [run[p] EXCEPT !.at = "fetch", !.todo = <<>>]
                ELSE [run[p] EXCEPT !.at = "open", !.dt = dt, !.rows = rows]
  BY <1>1 DEF FlexReady
<1> HIDE DEF dt, rows
<1>4. CASE run'[p] = [Idle EXCEPT !.at = "failed"]
  BY <1>1, <1>4, StoppedHist DEF Idle
<1>5. CASE \/ run'[p] = [run[p] EXCEPT !.at = "fetch", !.todo = <<>>]
           \/ run'[p] = [run[p] EXCEPT !.at = "open", !.dt = dt, !.rows = rows]
  <2>1. run'[p].full = run[p].full /\ run'[p].cur = run[p].cur /\ run'[p].at # "baseline"
    BY <1>1, <1>5 DEF RunOf
  <2> QED
    BY <1>1, <1>2, <2>1, OtherJobHist
<1> QED
  BY <1>3, <1>4, <1>5

LEMMA BaselineHist ==
    ASSUME TypeInv, TypeInv', HistInv, NEW p \in Procs, Baseline(p) PROVE HistInv'
<1> DEFINE base == PreviousTickers(Item(p)[1], Item(p)[2])
<1>1. /\ run \in [Procs -> RunOf] /\ UNCHANGED <<job, day, part, cursor>>
      /\ run[p].at = "baseline" /\ \A q \in Procs \ {p} : run'[q] = run[q]
      /\ run'[p] = IF base = Torn THEN [Idle EXCEPT !.at = "failed"]
                   ELSE [run[p] EXCEPT !.base = base, !.at = "open"]
  BY DEF TypeInv, Typed, RunTyped, Baseline, Steady, Quiet
<1>2. job # "rates_sync"
  BY <1>1 DEF HistInv
<1> HIDE DEF base
<1>3. CASE base = Torn
  BY <1>1, <1>3, StoppedHist DEF Idle
<1>4. CASE base # Torn
  <2>1. run'[p].full = run[p].full /\ run'[p].cur = run[p].cur /\ run'[p].at = "open"
    BY <1>1, <1>4 DEF RunOf
  <2> QED
    BY <1>1, <1>2, <2>1, OtherJobHist
<1> QED
  BY <1>3, <1>4

\* The runs that start, and those that stop.
LEMMA StartHist ==
    ASSUME TypeInv, HistInv, UNCHANGED <<job, day, part, cursor>>, Start PROVE HistInv'
<1>1. /\ \A q \in Procs \ {"unit"} : run'[q] = run[q]
      /\ run'["unit"] = Idle \/ \E scope \in Scopes : run'["unit"] = Starting(Timed(scope), FALSE)
      /\ "unit" \in Procs
  BY DEF TypeInv, Typed, RunTyped, Start, Procs
<1>2. ~run'["unit"].full /\ run'["unit"].at \notin {"baseline", "open", "finish"}
  <2>1. CASE run'["unit"] = Idle
    BY <2>1 DEF Idle
  <2>2. CASE \E scope \in Scopes : run'["unit"] = Starting(Timed(scope), FALSE)
    BY <2>2 DEF Idle, Starting
  <2> QED
    BY <1>1, <2>1, <2>2
<1> QED
  BY <1>1, <1>2, StoppedHist

LEMMA HandHist == ASSUME TypeInv, HistInv, Hand PROVE HistInv'
<1>1. ASSUME NEW todo, run' = [run EXCEPT !["shell"] = Starting(todo, FALSE)]
      PROVE  HistInv'
  <2>1. /\ \A q \in Procs \ {"shell"} : run'[q] = run[q]
        /\ run'["shell"] = Starting(todo, FALSE) /\ "shell" \in Procs
        /\ UNCHANGED <<job, day, part, cursor>>
    BY <1>1 DEF TypeInv, Typed, RunTyped, Procs, Hand
  <2>2. ~run'["shell"].full /\ run'["shell"].at \notin {"baseline", "open", "finish"}
    BY <2>1 DEF Idle, Starting
  <2> QED
    BY <2>1, <2>2, StoppedHist
<1>2. ASSUME NEW asked, NEW scope, HandFlex(asked, scope) PROVE HistInv'
  <2>1. /\ \A q \in Procs \ {"shell"} : run'[q] = run[q]
        /\ run'["shell"] = [Starting(FlexItems(scope), FALSE) EXCEPT !.asked = asked]
        /\ "shell" \in Procs /\ UNCHANGED <<job, day, part, cursor>>
    BY <1>2 DEF TypeInv, Typed, RunTyped, Procs, Hand, HandFlex
  <2>2. ~run'["shell"].full /\ run'["shell"].at \notin {"baseline", "open", "finish"}
    BY <2>1 DEF Idle, Starting
  <2> QED
    BY <2>1, <2>2, StoppedHist
<1> QED
  BY <1>1, <1>2 DEF Hand, HandContracts, HandDividends

LEMMA StopHist ==
    ASSUME TypeInv, HistInv, NEW p \in Procs, Fault(p) \/ GiveUp(p) PROVE HistInv'
<1>1. /\ \A q \in Procs \ {p} : run'[q] = run[q]
      /\ run'[p] \in {Idle, [Idle EXCEPT !.at = "failed"]}
      /\ UNCHANGED <<job, day, part, cursor>>
  BY DEF TypeInv, Typed, RunTyped, Fault, GiveUp, Steady, Quiet
<1>2. ~run'[p].full /\ run'[p].at \notin {"baseline", "open", "finish"}
  BY <1>1 DEF Idle
<1> QED
  BY <1>1, <1>2, StoppedHist

\* The name of a file is there, and the run holds what it held.
LEMMA OpenHist ==
    ASSUME TypeInv, TypeInv', FileInv, HistInv, NEW p \in Procs, Open(p) PROVE HistInv'
<1>1. /\ run \in [Procs -> RunOf] /\ UNCHANGED <<job, day, cursor>>
      /\ run[p].at = "open" /\ \A q \in Procs \ {p} : run'[q] = run[q]
      /\ run'[p] = [run[p] EXCEPT !.at = "finish"]
  BY DEF TypeInv, Typed, RunTyped, Open, Goto, Steady, Quiet
<1>2. run'[p].full = run[p].full /\ run'[p].cur = run[p].cur /\ run'[p].at = "finish"
      /\ run'[p].todo = run[p].todo /\ run'[p].rows = run[p].rows
  BY <1>1 DEF RunOf
<1>3. ASSUME NEW ds \in SourceSet PROVE DatesLanded(ds)' = DatesLanded(ds) /\ Pend(p, ds)' = Pend(p, ds)
  <2>1. DatesLanded(ds)' = DatesLanded(ds)
    BY OpenDates, SourcesAre
  <2>2. Pend(p, ds)' = Pend(p, ds)
    BY <1>1, <1>2 DEF Pend, Item
  <2> QED
    BY <2>1, <2>2
<1> QED
  BY <1>1, <1>2, <1>3, KeptHist

(***************************************************************************)
(* What the steps of rates_sync make of a series.                          *)
(***************************************************************************)
LEMMA BeginFull ==
    ASSUME NEW P, NEW D, NEW c \in Int, NEW U, NEW H, NEW f, NEW k, HistIs(P, D, c, U, H, f, k)
    PROVE  HistIs(P, D, c, U, {}, TRUE, c)
<1>1. D \cup {} = D
  OBVIOUS
<1> QED
  BY <1>1 DEF HistIs

LEMMA EndFull ==
    ASSUME NEW P, NEW D, NEW c, NEW U, NEW k, NEW j, HistIs(P, D, c, U, {}, TRUE, k)
    PROVE  HistIs(P, D, k, U, {}, FALSE, j)
<1>1. D \cup {} = D
  OBVIOUS
<1> QED
  BY <1>1, EmptyWindow DEF HistIs

LEMMA MorePublished ==
    ASSUME NEW P, NEW Q, NEW D, NEW c, NEW f, NEW k, HistIs(P, D, c, {}, {}, f, k),
           \A d \in Q \ P : \A x \in D : ~(d <= x)
    PROVE  HistIs(Q, D, c, {}, {}, f, k)
<1>1. D \cup {} = D
  OBVIOUS
<1>2. \A i : Reached(P, i, D) => Reached(Q, i, D)
  BY DEF Reached, Contig
<1> QED
  BY <1>1, <1>2, EmptyWindow DEF HistIs

LEMMA UnitLands ==
    ASSUME NEW P \in SUBSET Int, \A d \in P : d >= 1 - History,
           NEW D \in SUBSET Int, NEW c \in Int, NEW U \in SUBSET Int, NEW H \in SUBSET Int,
           NEW f \in BOOLEAN, NEW k \in Int, HistIs(P, D, c, U, H, f, k)
    PROVE  HistIs(P, D \cup U, c, {}, H, f, k)
<1>1. Window(P, U)
  BY DEF HistIs
<1>2. Recent(D \cup U) /\ Reached(P, c, D \cup U)
  BY <1>1, WindowJoins DEF HistIs
<1>3. ASSUME f PROVE Recent((D \cup U) \cup H) /\ Reached(P, k, (D \cup U) \cup H)
  <2>1. (D \cup U) \cup H = (D \cup H) \cup U /\ D \cup H \in SUBSET Int
    OBVIOUS
  <2>2. Recent(D \cup H) /\ Reached(P, k, D \cup H)
    BY <1>3 DEF HistIs
  <2>3. Recent((D \cup H) \cup U) /\ Reached(P, k, (D \cup H) \cup U)
    BY <1>1, <2>1, <2>2, WindowJoins
  <2> QED
    BY <2>1, <2>3
<1> QED
  BY <1>2, <1>3, EmptyWindow DEF HistIs

LEMMA ShellLands ==
    ASSUME NEW P \in SUBSET Int, \A d \in P : d >= 1 - History,
           NEW D \in SUBSET Int, NEW c \in Int, NEW U \in SUBSET Int, NEW H \in SUBSET Int,
           NEW f \in BOOLEAN, NEW k \in Int, HistIs(P, D, c, U, H, f, k)
    PROVE  HistIs(P, D \cup H, c, U, {}, f, k)
<1>1. (D \cup H) \cup {} = D \cup H
  OBVIOUS
<1>2. CASE ~f
  <2>1. Recent(D \cup H) /\ Reached(P, c, D \cup H)
    BY <1>2, WindowJoins DEF HistIs
  <2> QED
    BY <1>2, <2>1, EmptyWindow DEF HistIs
<1>3. CASE f
  <2>1. /\ \A x \in H : x < c
        /\ Recent(D \cup H) /\ Reached(P, k, D \cup H) /\ k <= c /\ Reached(P, c, D)
    BY <1>3 DEF HistIs
  <2>2. Reached(P, c, D \cup H)
    <3> SUFFICES ASSUME c # Never PROVE D \cup H # {} /\ Contig(P, c, D \cup H)
      BY DEF Reached
    <3>1. D # {} /\ Contig(P, c, D)
      BY <2>1 DEF Reached
    <3>2. ASSUME NEW d \in P, NEW x \in D \cup H, c <= d, d <= x PROVE d \in D \cup H
      <4>1. x \notin H
        BY <2>1, <3>2
      <4> QED
        BY <3>1, <3>2, <4>1 DEF Contig
    <3> QED
      BY <3>1, <3>2 DEF Contig
  <2> QED
    BY <1>1, <1>3, <2>1, <2>2, EmptyWindow DEF HistIs
<1> QED
  BY <1>2, <1>3

LEMMA HandFullHist == ASSUME TypeInv, FileInv, HistInv, HandFull PROVE HistInv'
<1>1. /\ run'["unit"] = run["unit"] /\ run'["shell"] = Starting(RateItems, TRUE)
      /\ UNCHANGED <<job, day, part, cursor>>
  BY DEF TypeInv, Typed, RunTyped, Procs, HandFull
<1>2. run'["shell"].full = TRUE /\ run'["shell"].at = "fetch" /\ run'["shell"].cur = cursor
  BY <1>1 DEF Starting, Idle
<1>3. Published' = Published /\ \A ds \in SourceSet : DatesLanded(ds)' = DatesLanded(ds)
  BY <1>1, SamePublished, QuietDates
<1>4. ASSUME NEW ds \in SourceSet
      PROVE  HistIs(Published', DatesLanded(ds)', cursor'[ds], Pend("unit", ds)', Pend("shell", ds)',
                    run'["shell"].full, run'["shell"].cur[ds])
  <2>1. HistOK(ds) /\ cursor[ds] \in Int
    BY HistFacts DEF HistInv
  <2>2. Pend("shell", ds)' = {} /\ Pend("unit", ds)' = Pend("unit", ds)
    BY <1>1, <1>2, NoPend, PendOther
  <2>3. HistIs(Published, DatesLanded(ds), cursor[ds], Pend("unit", ds), {}, TRUE, cursor[ds])
    BY <2>1, BeginFull DEF HistOK
  <2> QED
    BY <1>1, <1>2, <1>3, <2>2, <2>3
<1>5. \A p \in Procs : run'[p].at = "baseline" => job' = "contracts_sync"
  BY <1>1, <1>2 DEF HistInv, Procs
<1>6. ~run'["unit"].full
  BY <1>1 DEF HistInv
<1> QED
  BY <1>4, <1>5, <1>6, HistHolds

LEMMA TomorrowHist == ASSUME TypeInv, FileInv, HistInv, Tomorrow PROVE HistInv'
<1>1. /\ UNCHANGED <<job, run, part, cursor>> /\ day' = day + 1 /\ day \in Int
      /\ \A p \in Procs : run[p].at = "idle"
  BY DEF TypeInv, Typed, RestTyped, Days, Tomorrow
<1>2. \A d \in Published' \ Published : d = day
  BY <1>1, ReferenceAssumption DEF Published
<1>3. ASSUME NEW ds \in SourceSet
      PROVE  HistIs(Published', DatesLanded(ds)', cursor'[ds], Pend("unit", ds)', Pend("shell", ds)',
                    run'["shell"].full, run'["shell"].cur[ds])
  <2>1. HistOK(ds) /\ DatesLanded(ds)' = DatesLanded(ds)
    BY <1>1, QuietDates DEF HistInv
  <2>2. \A p \in Procs : Pend(p, ds) = {} /\ Pend(p, ds)' = {}
    BY <1>1 DEF Pend
  <2>3. \A x \in DatesLanded(ds) : x \in Int /\ x <= day - 1
    BY HistFacts
  <2>4. \A d \in Published' \ Published : \A x \in DatesLanded(ds) : ~(d <= x)
    BY <1>1, <1>2, <2>3
  <2>5. HistIs(Published', DatesLanded(ds), cursor[ds], {}, {}, run["shell"].full,
               run["shell"].cur[ds])
    BY <2>1, <2>2, <2>4, MorePublished DEF HistOK, Procs
  <2> QED
    BY <1>1, <2>1, <2>2, <2>5 DEF Procs
<1>4. ~run'["unit"].full /\ \A p \in Procs : run'[p].at = "baseline" => job' = "contracts_sync"
  BY <1>1 DEF HistInv
<1> QED
  BY <1>3, <1>4, HistHolds

LEMMA EndHist == ASSUME TypeInv, HistInv, NEW p \in Procs, End(p) PROVE HistInv'
<1>1. /\ \A q \in Procs \ {p} : run'[q] = run[q]
      /\ run'[p] \in {Idle, [Idle EXCEPT !.at = "failed"]}
      /\ UNCHANGED <<job, day, part>> /\ run[p].at = "fetch"
      /\ cursor' = IF run[p].full THEN run[p].cur ELSE cursor
  BY DEF TypeInv, Typed, RunTyped, End, Quiet
<1>2. ~run'[p].full /\ run'[p].at \notin {"baseline", "open", "finish"}
  BY <1>1 DEF Idle
<1>3. CASE ~run[p].full
  BY <1>1, <1>2, <1>3, StoppedHist
<1>4. CASE run[p].full
  <2>1. p = "shell" /\ run'["unit"] = run["unit"]
    BY <1>1, <1>4 DEF HistInv, Procs
  <2>2. Published' = Published /\ \A ds \in SourceSet : DatesLanded(ds)' = DatesLanded(ds)
    BY <1>1, SamePublished, QuietDates
  <2>3. ASSUME NEW ds \in SourceSet
        PROVE  HistIs(Published', DatesLanded(ds)', cursor'[ds], Pend("unit", ds)',
                      Pend("shell", ds)', run'["shell"].full, run'["shell"].cur[ds])
    <3>1. Pend("shell", ds) = {} /\ Pend("shell", ds)' = {}
      BY <1>1, <1>2, <2>1 DEF Pend
    <3>2. Pend("unit", ds)' = Pend("unit", ds)
      BY <2>1, PendOther
    <3>3. HistIs(Published, DatesLanded(ds), cursor[ds], Pend("unit", ds), {}, TRUE,
                 run["shell"].cur[ds])
      BY <1>4, <2>1, <3>1 DEF HistInv, HistOK, Procs
    <3>4. HistIs(Published, DatesLanded(ds), run["shell"].cur[ds], Pend("unit", ds), {}, FALSE,
                 run'["shell"].cur[ds])
      BY <3>3, EndFull
    <3>5. cursor'[ds] = run["shell"].cur[ds] /\ run'["shell"].full = FALSE
      BY <1>1, <1>2, <1>4, <2>1 DEF Idle
    <3> QED
      BY <2>2, <3>1, <3>2, <3>4, <3>5
  <2>4. ~run'["unit"].full /\ \A q \in Procs : run'[q].at = "baseline" => job' = "contracts_sync"
    BY <1>1, <1>2, <2>1 DEF HistInv, Procs
  <2> QED
    BY <2>3, <2>4, HistHolds
<1> QED
  BY <1>3, <1>4

LEMMA FinishHist ==
    ASSUME TypeInv, TypeInv', FileInv, HistInv, NEW p \in Procs, Finish(p) PROVE HistInv'
<1>1. /\ run \in [Procs -> RunOf] /\ UNCHANGED <<job, day, cursor>> /\ run[p].at = "finish"
      /\ \A q \in Procs \ {p} : run'[q] = run[q]
  BY DEF TypeInv, Typed, RunTyped, Finish, Steady, Quiet
<1>2. run'[p].full = run[p].full /\ run'[p].cur = run[p].cur /\ run'[p].at = "fetch"
  <2>1. run[p] \in RunOf
    BY <1>1
  <2>2. run' = [run EXCEPT ![p].at = "fetch", ![p].todo = Tail(@), ![p].base = {},
                          ![p].landed = TRUE, ![p].rows = {}]
    BY DEF Finish
  <2>3. run'[p] = [run[p] EXCEPT !.at = "fetch", !.todo = Tail(@), !.base = {},
                                 !.landed = TRUE, !.rows = {}]
    BY <1>1, <2>2
  <2> QED
    BY <2>1, <2>3 DEF RunOf
<1>3. Published' = Published
  BY <1>1, SamePublished
<1>4. ASSUME NEW ds \in SourceSet PROVE DatesLanded(ds)' = DatesLanded(ds) \cup Pend(p, ds)
  <2>1. ds \in Datasets
    BY SourcesAre
  <2>2. DatesLanded(ds)' = DatesLanded(ds) \cup
             IF ds = Item(p)[1] THEN {c \in run[p].rows : c > NoDate} ELSE {}
    BY <2>1, FinishDates
  <2>3. CASE ds = Item(p)[1]
    <3>1. Pend(p, ds) = run[p].rows
      BY <1>1, <2>3 DEF Pend
    <3>2. run[p].rows \subseteq (1 - History)..(run[p].dt - 1)
      BY <1>1, <2>3 DEF FileInv, RunOK, Active, Fetched, Said
    <3>3. \A c \in run[p].rows : c > NoDate
      BY <3>2, ReferenceAssumption DEF NoDate
    <3>4. {c \in run[p].rows : c > NoDate} = run[p].rows
      BY <3>3
    <3> QED
      BY <2>2, <2>3, <3>1, <3>4
  <2>4. CASE ds # Item(p)[1]
    BY <2>2, <2>4 DEF Pend
  <2> QED
    BY <2>3, <2>4
<1>5. ASSUME NEW ds \in SourceSet
      PROVE  HistIs(Published', DatesLanded(ds)', cursor'[ds], Pend("unit", ds)', Pend("shell", ds)',
                    run'["shell"].full, run'["shell"].cur[ds])
  <2>1. HistOK(ds)
    BY DEF HistInv
  <2>2. Pend(p, ds)' = {} /\ \A q \in Procs \ {p} : Pend(q, ds)' = Pend(q, ds)
    BY <1>1, <1>2, NoPend, PendOther
  <2>3. /\ Published \in SUBSET Int /\ (\A d \in Published : d >= 1 - History)
        /\ DatesLanded(ds) \in SUBSET Int /\ cursor[ds] \in Int
        /\ run["shell"].cur[ds] \in Int /\ run["shell"].full \in BOOLEAN
    BY <1>1, HistFacts DEF Procs, RunOf
  <2>4. Pend("unit", ds) \in SUBSET Int /\ Pend("shell", ds) \in SUBSET Int
    BY PendTyped DEF Procs
  <2>5. run'["shell"].full = run["shell"].full /\ run'["shell"].cur = run["shell"].cur
    BY <1>1, <1>2 DEF Procs
  <2>6. CASE p = "unit"
    <3>1. HistIs(Published, DatesLanded(ds) \cup Pend("unit", ds), cursor[ds], {},
                 Pend("shell", ds), run["shell"].full, run["shell"].cur[ds])
      BY <2>1, <2>3, <2>4, UnitLands DEF HistOK
    <3>2. Pend("unit", ds)' = {} /\ Pend("shell", ds)' = Pend("shell", ds)
      BY <2>2, <2>6 DEF Procs
    <3> QED
      BY <1>1, <1>3, <1>4, <2>5, <2>6, <3>1, <3>2
  <2>7. CASE p = "shell"
    <3>1. HistIs(Published, DatesLanded(ds) \cup Pend("shell", ds), cursor[ds], Pend("unit", ds),
                 {}, run["shell"].full, run["shell"].cur[ds])
      BY <2>1, <2>3, <2>4, ShellLands DEF HistOK
    <3>2. Pend("shell", ds)' = {} /\ Pend("unit", ds)' = Pend("unit", ds)
      BY <2>2, <2>7 DEF Procs
    <3> QED
      BY <1>1, <1>3, <1>4, <2>5, <2>7, <3>1, <3>2
  <2> QED
    BY <2>6, <2>7 DEF Procs
<1>6. ~run'["unit"].full /\ \A q \in Procs : run'[q].at = "baseline" => job' = "contracts_sync"
  BY <1>1, <1>2 DEF HistInv, Procs
<1> QED
  BY <1>5, <1>6, HistHolds

GoesDown(p, ds, rows, low) ==
    /\ rows \subseteq Below(p, ds) /\ rows \subseteq Int
    /\ low \in rows /\ low < run[p].cur[ds] /\ \A x \in rows : low <= x

LEMMA FullPageIs ==
    ASSUME TypeInv, NEW p \in Procs, run[p].todo # <<>>, job = "rates_sync", run[p].full,
           NEW n, NEW ds, ds = Item(p)[1],
           NEW rows, rows = Newest(Below(p, ds), n), rows # {},
           NEW low, low = Min({run[p].cur[ds]} \cup rows)
    PROVE  GoesDown(p, ds, rows, low)
<1>1. rows \subseteq Below(p, ds) /\ rows \subseteq Int
  BY PageIs, Zenon
<1>2. low \in rows /\ low < run[p].cur[ds] /\ \A x \in rows : low <= x
  BY PageIs, Zenon
<1> QED
  BY <1>1, <1>2 DEF GoesDown

\* A page of a series, of a daily run and of --full.
LEMMA PageHist ==
    ASSUME PageReachesBack, TypeInv, FileInv, HistInv, NEW p \in Procs,
           NEW pages \in Nat, FetchRates(p, pages), NEW r \in RunOf, Holds(p, pages, r),
           NEW ds \in SourceSet, ds = Item(p)[1]
    PROVE  /\ ~run[p].full => Window(Published, r.rows) /\ r.cur[ds] = run[p].cur[ds]
           /\ run[p].full => p = "shell" /\
                HistIs(Published, DatesLanded(ds), cursor[ds], Pend("unit", ds), r.rows, TRUE,
                       r.cur[ds])
<1>1. /\ run[p].at = "fetch" /\ run[p].todo # <<>> /\ job = "rates_sync"
      /\ run[p].full \/ pages = 1
  BY DEF FetchRates
<1>2. r.rows # {} /\ r.rows = Newest(Below(p, ds), pages * PAGE)
      /\ r.cur[ds] = IF run[p].full THEN Min({run[p].cur[ds]} \cup r.rows) ELSE run[p].cur[ds]
  BY DEF Holds, Page
<1>3. /\ day \in Days /\ DatesLanded(ds) \in SUBSET Int /\ (\A x \in DatesLanded(ds) : x <= day - 1)
      /\ cursor[ds] \in Int /\ run[p].cur[ds] \in Int
  BY HistFacts
<1>4. ASSUME ~run[p].full PROVE Window(Published, r.rows)
  <2>1. \A d \in Published : d < Never
    BY <1>3, PublishedFinite, ReferenceAssumption DEF Never, Days
  <2>2. Below(p, ds) = Published
    BY <1>4, <2>1 DEF Below, Before
  <2>3. pages * PAGE = PAGE
    BY <1>1, <1>4, ReferenceAssumption
  <2> QED
    BY <1>2, <1>3, <2>2, <2>3, DailyPage
<1>5. ASSUME run[p].full
      PROVE  p = "shell" /\ HistIs(Published, DatesLanded(ds), cursor[ds], Pend("unit", ds), r.rows,
                                   TRUE, r.cur[ds])
  <2>1. p = "shell"
    BY <1>5 DEF HistInv, Procs
  <2>2. Pend("shell", ds) = {}
    BY <1>1, <2>1 DEF Pend
  <2>3. HistIs(Published, DatesLanded(ds), cursor[ds], Pend("unit", ds), {}, TRUE, run[p].cur[ds])
    BY <1>5, <2>1, <2>2 DEF HistInv, HistOK
  <2>4. /\ r.rows \subseteq Below(p, ds) /\ r.rows \subseteq Int
        /\ r.cur[ds] \in r.rows /\ r.cur[ds] < run[p].cur[ds]
        /\ \A x \in r.rows : r.cur[ds] <= x
    <3> DEFINE n   == pages * PAGE
               N   == r.rows
               low == Min({run[p].cur[ds]} \cup N)
    <3>1. ds = Item(p)[1] /\ N = Newest(Below(p, ds), n) /\ N # {} /\ r.cur[ds] = low
          /\ low = Min({run[p].cur[ds]} \cup N)
      BY <1>2, <1>5
    <3> HIDE DEF n, N, low
    <3>2. GoesDown(p, ds, N, low)
      BY <1>1, <1>5, <3>1, FullPageIs
    <3> QED
      BY <3>1, <3>2 DEF N, GoesDown
  <2>5. DatesLanded(ds) \cup {} = DatesLanded(ds)
    OBVIOUS
  <2>6. /\ Recent(DatesLanded(ds)) /\ Reached(Published, run[p].cur[ds], DatesLanded(ds))
        /\ run[p].cur[ds] <= cursor[ds]
    BY <2>3, <2>5 DEF HistIs
  <2>7. Below(p, ds) = {d \in Published : d < run[p].cur[ds]}
    BY <1>5 DEF Below, Before
  <2>8. pages * PAGE \in Int
    BY ReferenceAssumption
  <2>9. /\ Recent(DatesLanded(ds) \cup r.rows)
        /\ Reached(Published, r.cur[ds], DatesLanded(ds) \cup r.rows)
    <3> DEFINE n == pages * PAGE
               c == run[p].cur[ds]
               B == Below(p, ds)
               N == r.rows
               low == r.cur[ds]
               D == DatesLanded(ds)
    <3>1. /\ n \in Int /\ c \in Int /\ B = {d \in Published : d < c} /\ N = Newest(B, n)
          /\ N # {} /\ low \in N /\ (\A x \in N : low <= x)
          /\ Recent(D) /\ Reached(Published, c, D)
          /\ D \in SUBSET Int /\ \A x \in D : x <= day - 1
      BY <1>2, <1>3, <2>4, <2>6, <2>7, <2>8
    <3> HIDE DEF n, c, B, N, low, D
    <3>2. Recent(D \cup N) /\ Reached(Published, low, D \cup N)
      BY <1>3, <3>1, FullPage
    <3> QED
      BY <3>2 DEF D, N, low
  <2>10. /\ r.cur[ds] <= cursor[ds] /\ \A x \in r.rows : x < cursor[ds]
    <3>1. ASSUME NEW x \in r.rows PROVE x < cursor[ds]
      <4>1. x \in Int /\ x < run[p].cur[ds]
        BY <2>4, <2>7
      <4> QED
        BY <1>3, <2>6, <4>1
    <3>2. r.cur[ds] \in Int
      BY <2>4
    <3> QED
      BY <1>3, <2>4, <2>6, <3>1, <3>2
  <2> QED
    BY <2>1, <2>3, <2>9, <2>10 DEF HistIs
<1> QED
  BY <1>2, <1>4, <1>5

LEMMA RatesHist ==
    ASSUME PageReachesBack, TypeInv, FileInv, HistInv, NEW p \in Procs,
           NEW pages \in Nat, FetchRates(p, pages)
    PROVE  HistInv'
<1>1. PICK r \in RunOf :
              /\ run' = [run EXCEPT ![p] = r] /\ r.dt = run[p].dt /\ r.full = run[p].full
              /\ Holds(p, pages, r) \/ Passes(p, r)
  BY RatesRun
<1>2. /\ run'[p] = r /\ \A q \in Procs \ {p} : run'[q] = run[q]
      /\ UNCHANGED <<job, day, part, cursor>> /\ run[p].at = "fetch" /\ run[p].todo # <<>>
      /\ job = "rates_sync"
  BY <1>1 DEF TypeInv, Typed, RunTyped, FetchRates, Steady, Quiet
<1>3. Published' = Published /\ \A ds \in SourceSet : DatesLanded(ds)' = DatesLanded(ds)
  BY <1>2, SamePublished, QuietDates
<1>4. \A ds \in SourceSet : Pend(p, ds) = {}
  BY <1>2 DEF Pend
<1>5. CASE Passes(p, r)
  <2>1. r.cur = run[p].cur /\ r.full = run[p].full /\ r.at = "fetch"
    BY <1>1, <1>5 DEF Passes
  <2>2. \A ds \in SourceSet : Pend(p, ds)' = {}
    BY <1>2, <2>1 DEF Pend
  <2> QED
    BY <1>2, <1>3, <1>4, <2>1, <2>2, KeptHist
<1>6. CASE Holds(p, pages, r)
  <2>1. /\ r.at = "open" /\ r.todo = run[p].todo /\ r.full = run[p].full
        /\ \A e \in SourceSet \ {Item(p)[1]} : r.cur[e] = run[p].cur[e]
    BY <1>1, <1>6 DEF Holds
  <2>2. Item(p)' = Item(p)
    BY <1>2, <2>1 DEF Item
  <2>3. \A ds \in SourceSet : Pend(p, ds)' = IF ds = Item(p)[1] THEN r.rows ELSE {}
    BY <1>2, <2>1, <2>2 DEF Pend
  <2>4. ASSUME NEW ds \in SourceSet
        PROVE  HistIs(Published', DatesLanded(ds)', cursor'[ds], Pend("unit", ds)',
                      Pend("shell", ds)', run'["shell"].full, run'["shell"].cur[ds])
    <3>1. HistOK(ds) /\ \A q \in Procs \ {p} : Pend(q, ds)' = Pend(q, ds)
      BY <1>2, PendOther DEF HistInv
    <3>2. CASE ds # Item(p)[1]
      <4>1. \A q \in Procs : /\ Pend(q, ds)' = Pend(q, ds) /\ run'[q].full = run[q].full
                             /\ run'[q].cur[ds] = run[q].cur[ds]
        BY <1>2, <1>4, <2>1, <2>3, <3>1, <3>2
      <4> QED
        BY <1>2, <1>3, <3>1, <4>1 DEF HistOK, Procs
    <3>3. CASE ds = Item(p)[1]
      <4>1. Pend(p, ds)' = r.rows
        BY <2>3, <3>3
      <4>2. CASE run[p].full
        <5>1. p = "shell" /\ HistIs(Published, DatesLanded(ds), cursor[ds], Pend("unit", ds), r.rows,
                                    TRUE, r.cur[ds])
          BY <1>6, <3>3, <4>2, PageHist
        <5>2. Pend("unit", ds)' = Pend("unit", ds) /\ run'["shell"] = r /\ r.full = TRUE
          BY <1>2, <2>1, <3>1, <4>2, <5>1 DEF Procs
        <5> QED
          BY <1>2, <1>3, <4>1, <5>1, <5>2
      <4>3. CASE ~run[p].full
        <5>1. Window(Published, r.rows) /\ r.cur[ds] = run[p].cur[ds]
          BY <1>6, <3>3, <4>3, PageHist
        <5>2. CASE p = "unit"
          <6>1. /\ Pend("shell", ds)' = Pend("shell", ds) /\ run'["shell"] = run["shell"]
                /\ Pend("unit", ds)' = r.rows
            BY <1>2, <3>1, <4>1, <5>2 DEF Procs
          <6> QED
            BY <1>2, <1>3, <3>1, <5>1, <6>1 DEF HistOK, HistIs
        <5>3. CASE p = "shell"
          <6>1. /\ Pend("unit", ds)' = Pend("unit", ds) /\ ~run'["shell"].full
                /\ Pend("shell", ds)' = r.rows
            BY <1>2, <2>1, <3>1, <4>1, <4>3, <5>3 DEF Procs
          <6> QED
            BY <1>2, <1>3, <3>1, <5>1, <6>1 DEF HistOK, HistIs
        <5> QED
          BY <5>2, <5>3 DEF Procs
      <4> QED
        BY <4>2, <4>3
    <3> QED
      BY <3>2, <3>3
  <2>5. ~run'["unit"].full /\ \A q \in Procs : run'[q].at = "baseline" => job' = "contracts_sync"
    BY <1>2, <2>1 DEF HistInv, Procs
  <2> QED
    BY <2>4, <2>5, HistHolds
<1> QED
  BY <1>1, <1>5, <1>6

LEMMA HistStep ==
    ASSUME PageReachesBack, TypeInv, TypeInv', FileInv, HistInv, [Next]_vars
    PROVE  HistInv'
<1>1. CASE UNCHANGED vars
  <2>1. UNCHANGED <<job, day, run, part, cursor>>
    BY <1>1 DEF vars
  <2>2. \A ds \in SourceSet :
           DatesLanded(ds)' = DatesLanded(ds) /\ Pend("unit", ds)' = Pend("unit", ds)
    BY <2>1, QuietDates, PendOther
  <2>3. "unit" \in Procs
    BY DEF Procs
  <2>4. run'["unit"].at = "baseline" => job = "contracts_sync"
    BY <2>1, <2>3 DEF HistInv
  <2> QED
    BY <2>1, <2>2, <2>3, <2>4, KeptHist
<1>2. CASE Timer \/ Restart
  BY <1>2, StartHist DEF Timer, Restart
<1>3. ASSUME NEW p \in Procs,
             \/ FetchList(p) \/ FlexSend(p) \/ FlexGenerating(p)
             \/ (\E to \in Periods, named \in BOOLEAN : FlexReady(p, to, named))
             \/ (\E n \in 0..Quota : FetchRates(p, n))
             \/ Baseline(p) \/ Open(p) \/ Finish(p) \/ End(p) \/ Fault(p) \/ GiveUp(p)
      PROVE  HistInv'
  <2>1. \A n \in 0..Quota : n \in Nat
    BY ReferenceAssumption
  <2> QED
    BY <1>3, <2>1, ListHist, SendHist, GeneratingHist, ReadyHist, RatesHist, BaselineHist,
       OpenHist, FinishHist, EndHist, StopHist
<1> QED
  BY <1>1, <1>2, <1>3, HandHist, HandFullHist, TomorrowHist DEF Next

\* The history that --full walks has no hole between its cursor and the newest
\* date landed, whatever 429 and deaths cut short, so long as the newest page
\* reaches back over the days of the behaviour. (rates_sync._main_fn)
THEOREM HistoryIsContiguous ==
    ASSUME PageReachesBack PROVE Spec => []HistoryContiguous
<1>1. TypeInv /\ FileInv /\ HistInv => HistoryContiguous
  <2> SUFFICES ASSUME TypeInv, FileInv, HistInv, NEW ds \in SourceSet, cursor[ds] # Never
               PROVE  /\ DatesLanded(ds) # {}
                      /\ \A d \in Published :
                            cursor[ds] <= d /\ d <= Max(DatesLanded(ds)) => d \in DatesLanded(ds)
    BY SourcesAre DEF HistoryContiguous, DatesLanded
  <2>1. DatesLanded(ds) # {} /\ Contig(Published, cursor[ds], DatesLanded(ds))
    BY DEF HistInv, HistOK, HistIs, Reached
  <2>2. DatesLanded(ds) \subseteq (1 - History)..(day - 1) /\ 1 - History \in Int /\ day - 1 \in Int
    BY DatesRange, ReferenceAssumption, SMTT(30) DEF TypeInv, Typed, RestTyped, Days
  <2>3. Max(DatesLanded(ds)) \in DatesLanded(ds)
    BY <2>1, <2>2, MaxIsGreatest
  <2> QED
    BY <2>1, <2>3 DEF Contig
<1>2. TypeInv /\ FileInv /\ HistInv /\ TypeInv' /\ [Next]_vars => HistInv'
  BY HistStep
<1> QED
  BY <1>1, <1>2, HistInit, FileInvariance, PTL DEF Spec
=============================================================================
