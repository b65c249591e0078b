---------------------------- MODULE SnapshotSweep ----------------------------
(***************************************************************************)
(* snapshot_sweep inside run_job: one thread per chain fetches it and      *)
(* lands its own files; chains fail one by one, and only a sweep that lost *)
(* all of them raises. Every other action is JobRun's. --dry-run, which    *)
(* lands nothing and pings the job's own check alone, is left out, as is   *)
(* the rare forwards-less chain.                                           *)
(***************************************************************************)
EXTENDS JobRun

CONSTANT Chains      \* underlyings

ASSUME ChainsAssumption == Chains # {}

VARIABLES
    chain,     \* each thread: "fetch", "half" landed, "done" or "failed"
    first,     \* failures[0]: the first exception to be appended
    landed,    \* option_snapshots files of each chain, this run
    late       \* history: chains that failed after landing theirs

sweep     == <<chain, first, landed, late>>
sweepVars == <<vars, sweep>>

Fresh  == [c \in Chains |-> "fetch"]
Failures == {c \in Chains : chain[c] = "failed"}
AllIn  == \A c \in Chains : chain[c] \in {"done", "failed"}
Idle   == [c \in Chains |-> 0]

SweepInit == Init /\ chain = Fresh /\ first = None /\ landed = Idle /\ late = {}

\* A run leaves nothing behind; an attempt begins with nothing swept.
Keep == IF pc' = "off" THEN /\ chain' = Fresh /\ first' = None
                            /\ landed' = Idle /\ late' = {}
                       ELSE UNCHANGED sweep

SweepOpens == /\ Open
              /\ chain' = Fresh /\ first' = None
              /\ UNCHANGED <<landed, late>>
-----------------------------------------------------------------------------
\* A chain is fetched whole and its option_snapshots written.
LandChain(c) ==
    /\ pc = "main" /\ chain[c] = "fetch"
    /\ chain' = [chain EXCEPT ![c] = "half"]
    /\ landed' = [landed EXCEPT ![c] = @ + 1]
    /\ UNCHANGED <<vars, first, late>>

\* Its forwards are written and its line is logged.
FinishChain(c) ==
    /\ pc = "main" /\ chain[c] = "half"
    /\ chain' = [chain EXCEPT ![c] = "done"]
    /\ UNCHANGED <<vars, first, landed, late>>

\* It fails: its requests, for now or for good; or a write, for good.
FailChain(c, e) ==
    /\ pc = "main"
    /\ \/ chain[c] = "fetch" /\ e \in {"retryable", "fatal"}
       \/ chain[c] = "half"  /\ e = "fatal"
    /\ chain' = [chain EXCEPT ![c] = "failed"]
    /\ first' = IF Failures = {} THEN e ELSE first
    /\ late' = IF chain[c] = "half" THEN late \cup {c} ELSE late
    /\ UNCHANGED <<vars, landed>>

\* Mutant of LostSweep: one bad chain kills the run.
LostAny == AllIn /\ Failures # {}

\* Every chain failed: an outage.
LostSweep == AllIn /\ Failures = Chains

\* It raises the first failure, which says whether run_job tries again.
SweepRaises == /\ LostSweep /\ MainRaises(first)
               /\ UNCHANGED sweep

\* Mutant of SweepPings: the ping goes to the job's own check.
SweepPingsJob == /\ AllIn /\ Failures = {} /\ extra = "none"
                 /\ pc = "main" /\ Ping("ok") /\ extra' = "clean"
                 /\ UNCHANGED <<unit, starts, proc, alert, truth, undone, sweep>>

\* No chain failed: the all-chains check is pinged, and main returns.
SweepPings == /\ AllIn /\ Failures = {} /\ extra = "none" /\ MainPings
              /\ UNCHANGED sweep

\* Otherwise it returns without.
SweepReturns == /\ AllIn /\ ~LostSweep
                /\ Failures = {} => extra = "clean"
                /\ MainReturns
                /\ UNCHANGED sweep

\* The lines its main logs are about chains that failed.
SweepLogRaises == /\ pc = "main" => AllIn /\ Failures # {}
                  /\ LogRaises
                  /\ UNCHANGED sweep

\* Leaving the pool waits for its threads, Ctrl-C or not.
SweepInterrupt == /\ pc = "main" => AllIn
                  /\ Interrupt
                  /\ Keep
-----------------------------------------------------------------------------
Sweep == \/ SweepRaises \/ SweepPings \/ SweepReturns
         \/ \E c \in Chains : \/ LandChain(c) \/ FinishChain(c)
                              \/ \E e \in Exc : FailChain(c, e)

SameJob == /\ \/ Begin \/ SkipDay \/ SkipExtras \/ Report \/ Close
              \/ Backoff \/ Retry \/ Fail \/ FailExit
           /\ Keep

Around  == /\ Systemd \/ BeginFails \/ HandlerRaises \/ Kill
           /\ Keep

SweepNext == SweepOpens \/ SameJob \/ Sweep \/ Around \/ SweepLogRaises \/ SweepInterrupt

SweepSpec == SweepInit /\ [][SweepNext]_sweepVars

\* A run that is not disturbed goes on, and so do systemd and its timers.
SweepFairness ==
    /\ WF_sweepVars(SweepOpens \/ SameJob \/ Sweep)
    /\ WF_sweepVars(Alert /\ UNCHANGED sweep)
    /\ \A u \in Scheduled :
         WF_sweepVars((Fire(u) \/ Restart(u) \/ Elapse(u)) /\ UNCHANGED sweep)
    /\ \A u \in Units : WF_sweepVars((Acquire(u) \/ Skip(u)) /\ UNCHANGED sweep)
SweepLiveSpec == SweepSpec /\ SweepFairness
-----------------------------------------------------------------------------
SweepTypeOK ==
    /\ TypeOK
    /\ chain \in [Chains -> {"fetch", "half", "done", "failed"}]
    /\ first \in Exc \cup {None}
    /\ landed \in [Chains -> 0..MaxAttempts]
    /\ late \subseteq Chains

\* "Duplicate snapshot rows are not repairable after the fact": a run that is
\* tried again lands no chain twice, except one that failed after landing its
\* snapshot while every other chain failed too.
RetryLandsOnce == \A c \in Chains \ late : landed[c] <= 1

\* The all-chains check is green for a run that landed every chain, all of
\* them in its last attempt, or for a holiday.
AllChainsMeansAll == extra = "clean" => \A c \in Chains : chain[c] = "done"

\* A sweep is a job: what run_job promises of every job holds of it.
JobSpec == Spec

\* "Retrying is safe precisely here: every chain failed, so nothing landed for
\* the retry to duplicate."
\* The code does not keep this: TLC refutes it, and no run repeats it.
NothingLandedBeforeRetry == pc = "backoff" => \A c \in Chains : landed[c] = 0
=============================================================================
