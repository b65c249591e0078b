------------------------- MODULE DayAggsCheckpoint -------------------------
(***************************************************************************)
(* eod_dayaggs_rest's full-universe sweep: one REST call per contract, a   *)
(* checkpoint (a JSON file replaced whole) and a sidecar of fetched bars   *)
(* (appended to) every PROGRESS_EVERY contracts, so that a run for the     *)
(* same date picks up where one that died left off.                        *)
(*                                                                         *)
(* One run at a time (cronjob.sh's lock); it may die anywhere, and the     *)
(* next may be for another date.  --watchlist and --dry-run runs keep no   *)
(* checkpoint and are left out.                                            *)
(***************************************************************************)
EXTENDS Naturals

CONSTANTS Dates,       \* run dates
          Total,       \* contracts, numbered in the order they are fetched
          Every,       \* PROGRESS_EVERY
          Traded,      \* the (contract, date) pairs the vendor has a bar for
          None,        \* no checkpoint
          MaxCrashes   \* bound: runs that die

Tickers == 1..Total
Bars    == Tickers \X Dates

ASSUME SweepAssumption ==
    /\ Total \in Nat \ {0} /\ Every \in Nat \ {0}
    /\ Traded \subseteq Bars
    /\ None \notin [date : Dates, done : SUBSET Tickers]
    /\ MaxCrashes \in Nat

VARIABLES
    ckpt,     \* dayaggs_checkpoint.json: None or the date and the tickers done
    sidecar,  \* dayaggs_partial.jsonl: "none", "whole", "unended" (all lines
              \* but no final newline), "torn" (a line that does not parse)
    lines,    \* how often each bar is in it
    pc, date, idx, done, records, pending,  \* the run: position and locals
    crashes,
    spoiled   \* history: a cause of repeated or foreign bars was met

onDisk    == <<ckpt, sidecar, lines>>
sweepVars == <<ckpt, sidecar, lines, pc, date, idx, done, records, pending, crashes, spoiled>>

NoBars == [b \in Bars |-> 0]
Plus(count, S) == [b \in Bars |-> IF b \in S THEN count[b] + 1 ELSE count[b]]

SweepInit ==
    /\ ckpt = None /\ sidecar = "none" /\ lines = NoBars
    /\ pc = "idle" /\ date \in Dates /\ idx = 1
    /\ done = {} /\ records = NoBars /\ pending = {}
    /\ crashes = 0 /\ spoiled = FALSE

\* Mutant of Resumes: the checkpoint's date is not looked at.
ResumesAnyDate(d) == ckpt # None /\ sidecar \in {"whole", "unended"}

\* _load_checkpoint takes the position over: the checkpoint is of this date
\* and every line of the sidecar parses. Otherwise the run starts over.
Resumes(d) == ckpt # None /\ ckpt.date = d /\ sidecar \in {"whole", "unended"}

\* The lines of the contracts done; the others were appended by a run that
\* died before it saved.
Loaded == [b \in Bars |-> IF b[1] \in ckpt.done THEN lines[b] ELSE 0]

StartSweep(d) ==
    /\ pc = "idle"
    /\ date' = d /\ idx' = 1 /\ pending' = {} /\ pc' = "sweep"
    /\ done' = IF Resumes(d) THEN ckpt.done ELSE {}
    /\ records' = IF Resumes(d) THEN Loaded ELSE NoBars
    /\ spoiled' = (spoiled \/ (~Resumes(d) /\ sidecar # "none"))
    /\ UNCHANGED <<onDisk, crashes>>

\* After every Every-th contract, and the last, the position is saved.
BatchEnds == idx % Every = 0 \/ idx = Total

\* One contract: not asked for again if done; a 404 or an empty answer is done.
Fetch ==
    /\ pc = "sweep"
    /\ LET bar == {<<idx, date>>} \cap Traded IN
         IF idx \in done THEN UNCHANGED <<done, records, pending>>
         ELSE /\ done' = done \cup {idx}
              /\ records' = Plus(records, bar)
              /\ pending' = pending \cup bar
    /\ IF BatchEnds
         THEN pc' = "append" /\ UNCHANGED idx
         ELSE idx' = idx + 1 /\ UNCHANGED pc
    /\ UNCHANGED <<onDisk, date, crashes, spoiled>>

\* What appending makes of the sidecar: a line added to one that does not end
\* spoils both.
Extended == IF sidecar \in {"unended", "torn"} THEN "torn" ELSE "whole"

\* Mutant of AppendBars: the bars stay in memory until the sweep is over.
AppendNothing ==
    /\ pc = "append"
    /\ pc' = "save"
    /\ UNCHANGED <<onDisk, date, idx, done, records, pending, crashes, spoiled>>

\* _append_partial_bars: nothing to append does not create the file.
AppendBars ==
    /\ pc = "append"
    /\ lines' = Plus(lines, pending)
    /\ sidecar' = IF pending = {} THEN sidecar ELSE Extended
    /\ pending' = {}
    /\ pc' = "save"
    /\ UNCHANGED <<ckpt, date, idx, done, records, crashes, spoiled>>

Advance == IF idx = Total THEN pc' = "land" /\ UNCHANGED idx
                          ELSE pc' = "sweep" /\ idx' = idx + 1

\* _save_checkpoint: a temporary file renamed over the old one.
Save ==
    /\ pc = "save"
    /\ ckpt' = [date |-> date, done |-> done]
    /\ Advance
    /\ UNCHANGED <<sidecar, lines, date, done, records, pending, crashes, spoiled>>

\* write_raw and write_clean of all records, if any.
Land ==
    /\ pc = "land"
    /\ pc' = "unlink"
    /\ UNCHANGED <<onDisk, date, idx, done, records, pending, crashes, spoiled>>

\* _clear_checkpoint: the checkpoint first ...
UnlinkCheckpoint ==
    /\ pc = "unlink"
    /\ ckpt' = None
    /\ pc' = "unlink_partial"
    /\ UNCHANGED <<sidecar, lines, date, idx, done, records, pending, crashes, spoiled>>

\* ... then the sidecar.
UnlinkPartial ==
    /\ pc = "unlink_partial"
    /\ sidecar' = "none" /\ lines' = NoBars
    /\ pc' = "idle" /\ spoiled' = FALSE
    /\ UNCHANGED <<ckpt, date, idx, done, records, pending, crashes>>

Died == /\ crashes < MaxCrashes
        /\ crashes' = crashes + 1
        /\ pc' = "idle"
        /\ UNCHANGED <<ckpt, date, idx, done, records, pending>>

\* Killed, out of memory, or a request that fails for good.
Crash ==
    /\ pc # "idle" /\ Died
    /\ spoiled' = (spoiled \/ pc = "save")
    /\ UNCHANGED <<sidecar, lines>>

\* Killed while appending: the bars up to the n-th contract are there, and the
\* file ends after a line, before its newline, or within the next one.
CrashAppending ==
    /\ pc = "append" /\ pending # {} /\ Died
    /\ \E n \in Tickers, end \in {"whole", "unended", "torn"} :
         LET S == {b \in pending : b[1] <= n} IN
         /\ S # {} \/ end = "torn"
         /\ lines' = Plus(lines, S)
         /\ sidecar' = IF Extended = "torn" THEN "torn" ELSE end
    /\ spoiled' = TRUE

SweepNext ==
    \/ \E d \in Dates : StartSweep(d)
    \/ Fetch \/ AppendBars \/ Save \/ Land \/ UnlinkCheckpoint \/ UnlinkPartial
    \/ Crash \/ CrashAppending

SweepSpec == SweepInit /\ [][SweepNext]_sweepVars
-----------------------------------------------------------------------------
SweepTypeOK ==
    /\ ckpt \in [date : Dates, done : SUBSET Tickers] \cup {None}
    /\ sidecar \in {"none", "whole", "unended", "torn"}
    /\ lines \in [Bars -> Nat]
    /\ pc \in {"idle", "sweep", "append", "save", "land", "unlink", "unlink_partial"}
    /\ date \in Dates
    /\ idx \in Tickers
    /\ done \subseteq Tickers
    /\ records \in [Bars -> Nat]
    /\ pending \subseteq Bars
    /\ crashes \in 0..MaxCrashes
    /\ spoiled \in BOOLEAN

Due(d) == Traded \cap (Tickers \X {d})

\* What a sweep lands has every bar the vendor has for its date, wherever the
\* runs before it died and whichever dates they were for ("wrongly skipping
\* one is a silent gap").
NoSilentGap == pc = "land" => \A b \in Due(date) : records[b] > 0

\* It has each of them once, and nothing of another date, unless a run died
\* while or after appending bars and before saving the checkpoint, or started
\* over on the sidecar another one left.
ExactUnlessSpoiled ==
    pc = "land" /\ ~spoiled =>
        \A b \in Bars : records[b] = IF b \in Due(date) THEN 1 ELSE 0

\* "Anything missing, corrupt, or written for a different date yields empty
\* state": no bar of another date is landed.
\* The code does not keep this: TLC refutes it, and no run repeats it.
NoForeignBars == pc = "land" => \A b \in Bars \ Due(date) : records[b] = 0
=============================================================================
