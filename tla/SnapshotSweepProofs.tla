------------------------- MODULE SnapshotSweepProofs -------------------------
(***************************************************************************)
(* What run_job, cronjob.sh and systemd promise of every job (Spec), that  *)
(* a sweep is such a job, and what a sweep adds to it.                     *)
(***************************************************************************)
EXTENDS SnapshotSweep, TLAPS

USE JobAssumption, ChainsAssumption DEF JobAssumption, ChainsAssumption
-----------------------------------------------------------------------------
(* The job. *)

\* Types, and a retry only below the limit; the flags apart.
Flags == alert \in BOOLEAN /\ lost \in BOOLEAN
Sorts ==
    /\ unit \in [Units -> {"inactive", "boot", "running", "waiting", "failed"}]
    /\ starts \in [Units -> 0..Burst]
    /\ lock \in Units \cup {None}
    /\ lock = None <=> pc = "off"
    /\ pc \in {"off", "boot", "gate", "main", "skip", "ended", "closing", "caught",
               "backoff", "failing"}
    /\ exc \in Exc \cup {None}
    /\ attempt \in 0..MaxAttempts
    /\ pc = "backoff" => attempt < MaxAttempts
    /\ check \in {"new", "start", "ok", "fail"}
    /\ extra \in {"none", "clean", "skipped"}
    /\ truth \in {"ok", "bad"}
    /\ undone \subseteq Restartable
    /\ faults \in 0..MaxFaults
JobTypes == Sorts /\ Flags

\* A verdict of success is sent only for work done; a failure before /start
\* is remembered by an alert or by a restart.
Green == /\ pc \in {"skip", "ended", "closing"} => truth = "ok"
         /\ GreenIsTrue

JobInv == JobTypes /\ Green

\* Every step of a job keeps the types.
LEMMA SortsStep == Sorts /\ [Next]_vars => Sorts'
<1> SUFFICES ASSUME Sorts, [Next]_vars PROVE Sorts'
  OBVIOUS
<1> USE DEF Sorts, Exc
<1>1. CASE Begin BY <1>1 DEF Begin, Ping, Fault, proc
<1>2. CASE Open \/ SkipDay \/ SkipExtras \/ Report
  BY <1>2 DEF Open, SkipDay, SkipExtras, Report, Goto, Ping, Fault
<1>3. CASE Close
  <2>1. unit' \in [Units -> {"inactive", "boot", "running", "waiting", "failed"}]
    BY <1>3 DEF Close
  <2>2. undone' \subseteq Restartable BY <1>3 DEF Close
  <2> QED BY <1>3, <2>1, <2>2 DEF Close, Gone
<1>4. CASE Backoff \/ Retry \/ Fail
  BY <1>4 DEF Backoff, Retry, Fail, Goto, Again, Ping, Fault
<1>5. CASE MainPings BY <1>5 DEF MainPings, proc
<1>6. CASE MainReturns BY <1>6 DEF MainReturns, Goto
<1>7. ASSUME NEW e \in Exc \ {"interrupt"}, MainRaises(e) PROVE Sorts'
  BY <1>7 DEF MainRaises, Raise, Goto
<1>8. CASE LogRaises BY <1>8 DEF LogRaises, Raise, Goto, Fault
<1>9. CASE Alert BY <1>9 DEF Alert, Ping, Fault, proc
<1>10. ASSUME NEW u \in Units, Launch(u),
              UNCHANGED <<proc, check, extra, truth, lost, faults>>
       PROVE  Sorts'
  <2>1. CASE u \in Restartable /\ starts[u] = Burst
    BY <1>10, <2>1 DEF Launch, proc
  <2>2. CASE ~(u \in Restartable /\ starts[u] = Burst)
    BY <1>10, <2>2 DEF Launch, proc
  <2> QED BY <2>1, <2>2
<1>11. ASSUME NEW u \in Units, Fire(u) \/ Restart(u) PROVE Sorts'
  BY <1>10, <1>11 DEF Fire, Restart
<1>12. ASSUME NEW u \in Units, Elapse(u) \/ Acquire(u) \/ Skip(u) PROVE Sorts'
  BY <1>12 DEF Elapse, Acquire, Skip, proc
<1>13. ASSUME Failed, faults' \in 0..MaxFaults PROVE Sorts'
  <2>1. unit' \in [Units -> {"inactive", "boot", "running", "waiting", "failed"}]
    BY <1>13 DEF Failed, Unhappy
  <2>2. undone' \subseteq Restartable BY <1>13 DEF Failed
  <2>3. truth' \in {"ok", "bad"} BY <1>13 DEF Failed
  <2>4. lock' = None /\ pc' = "off" /\ exc' = None /\ attempt' = 0 /\ extra' = "none"
        /\ starts' = starts /\ check' = check
    BY <1>13 DEF Failed, Gone
  <2> QED BY <1>13, <2>1, <2>2, <2>3, <2>4
<1>14. CASE FailExit \/ BeginFails \/ HandlerRaises \/ Kill
  <2>1. Failed /\ faults' \in 0..MaxFaults
    BY <1>14 DEF FailExit, BeginFails, HandlerRaises, Kill, Fault
  <2> QED BY <2>1, <1>13
<1>15. CASE Interrupt
  <2>1. faults' \in 0..MaxFaults BY <1>15 DEF Interrupt, Fault
  <2>2. CASE Failed BY <2>1, <2>2, <1>13
  <2>3. lock \in Units BY <1>15 DEF Interrupt
  <2>4. lock # None BY <2>3, JobAssumption DEF JobAssumption
  <2>5. CASE Raise("interrupt") BY <2>1, <2>3, <2>4, <2>5 DEF Raise, Goto
  <2> QED BY <1>15, <2>2, <2>5 DEF Interrupt
<1>16. CASE UNCHANGED vars BY <1>16 DEF vars, proc
<1> QED
  BY <1>1, <1>2, <1>3, <1>4, <1>5, <1>6, <1>7, <1>8, <1>9, <1>11, <1>12, <1>14,
     <1>15, <1>16
  DEF Next, Plumbing, Main, Systemd, Mishap

LEMMA FlagsStep == Flags /\ [Next]_vars => Flags'
<1> SUFFICES ASSUME Flags, [Next]_vars PROVE Flags'
  OBVIOUS
<1> USE DEF Flags
<1>1. CASE Begin BY <1>1 DEF Begin, Ping
<1>2. CASE Open \/ SkipDay \/ SkipExtras \/ Report
  BY <1>2 DEF Open, SkipDay, SkipExtras, Report, Goto, Ping
<1>3. CASE Close BY <1>3 DEF Close, Gone
<1>4. CASE Backoff \/ Retry \/ Fail
  BY <1>4 DEF Backoff, Retry, Fail, Goto, Ping
<1>5. CASE Main
  BY <1>5 DEF Main, MainPings, MainReturns, MainRaises, Raise, Goto
<1>6. CASE LogRaises BY <1>6 DEF LogRaises, Raise, Goto
<1>7. CASE Alert BY <1>7 DEF Alert, Ping
<1>8. ASSUME NEW u \in Units, Fire(u) \/ Restart(u) PROVE Flags'
  BY <1>8 DEF Fire, Restart, Launch
<1>9. ASSUME NEW u \in Units, Elapse(u) \/ Acquire(u) \/ Skip(u) PROVE Flags'
  BY <1>9 DEF Elapse, Acquire, Skip
<1>10. ASSUME Failed PROVE Flags'
  <2>1. alert' \in BOOLEAN BY <1>10 DEF Failed, Unhappy
  <2>2. lost' \in BOOLEAN BY <1>10 DEF Failed
  <2> QED BY <2>1, <2>2
<1>11. CASE FailExit \/ BeginFails \/ HandlerRaises \/ Kill
  BY <1>10, <1>11 DEF FailExit, BeginFails, HandlerRaises, Kill
<1>12. CASE Interrupt BY <1>10, <1>12 DEF Interrupt, Raise, Goto
<1>13. CASE UNCHANGED vars BY <1>13 DEF vars
<1> QED
  BY <1>1, <1>2, <1>3, <1>4, <1>5, <1>6, <1>7, <1>8, <1>9, <1>11, <1>12, <1>13
  DEF Next, Plumbing, Systemd, Mishap

\* A job that fails says so before it can be green for less than work done.
LEMMA GreenStep == JobInv /\ [Next]_vars => Green'
<1> SUFFICES ASSUME JobInv, [Next]_vars PROVE Green'
  OBVIOUS
<1> USE DEF JobInv, Green, GreenIsTrue
<1>1. CASE Begin BY <1>1 DEF Begin, Ping, proc
<1>2. CASE Open \/ SkipDay \/ SkipExtras \/ Report
  BY <1>2 DEF Open, SkipDay, SkipExtras, Report, Goto, Ping
<1>3. CASE Close BY <1>3 DEF Close, Gone
<1>4. CASE Backoff \/ Retry \/ Fail
  BY <1>4 DEF Backoff, Retry, Fail, Goto, Ping
<1>5. CASE MainPings BY <1>5 DEF MainPings, proc
<1>6. CASE MainReturns BY <1>6 DEF MainReturns, Goto
<1>7. ASSUME NEW e \in Exc \ {"interrupt"}, MainRaises(e) PROVE Green'
  BY <1>7 DEF MainRaises, Raise, Goto
<1>8. CASE LogRaises BY <1>8 DEF LogRaises, Raise, Goto
<1>9. CASE Alert BY <1>9 DEF Alert, Ping, proc
<1>10. ASSUME NEW u \in Units, Fire(u) \/ Restart(u) PROVE Green'
  <2>1. CASE u \in Restartable /\ starts[u] = Burst
    BY <1>10, <2>1 DEF Fire, Restart, Launch, proc
  <2>2. CASE ~(u \in Restartable /\ starts[u] = Burst)
    BY <1>10, <2>2 DEF Fire, Restart, Launch, proc
  <2> QED BY <2>1, <2>2
<1>11. ASSUME NEW u \in Units, Elapse(u) \/ Acquire(u) \/ Skip(u) PROVE Green'
  BY <1>11 DEF Elapse, Acquire, Skip, proc
<1>12. ASSUME Failed PROVE Green'
  <2>1. pc' = "off" BY <1>12 DEF Failed, Gone
  <2>2. CASE pc = "boot" /\ lock \in Scheduled
    <3>1. alert' \/ undone' # {} BY <1>12, <2>2 DEF Failed, Unhappy
    <3> QED BY <2>1, <3>1
  <2>3. CASE ~(pc = "boot" /\ lock \in Scheduled)
    <3>1. truth' = truth /\ check' = check /\ lost' = lost /\ undone \subseteq undone'
      BY <1>12, <2>3 DEF Failed
    <3>2. alert => alert' BY <1>12 DEF Failed, Unhappy
    <3> QED BY <2>1, <3>1, <3>2
  <2> QED BY <2>2, <2>3
<1>13. CASE FailExit \/ BeginFails \/ HandlerRaises \/ Kill
  BY <1>12, <1>13 DEF FailExit, BeginFails, HandlerRaises, Kill
<1>14. CASE Interrupt
  <2>1. CASE Raise("interrupt") BY <2>1 DEF Raise, Goto
  <2> QED BY <1>12, <1>14, <2>1 DEF Interrupt
<1>15. CASE UNCHANGED vars BY <1>15 DEF vars, proc
<1> QED
  BY <1>1, <1>2, <1>3, <1>4, <1>5, <1>6, <1>7, <1>8, <1>9, <1>10, <1>11, <1>13,
     <1>14, <1>15
  DEF Next, Plumbing, Main, Systemd, Mishap

\* Whatever the job does in main, its invariant holds.
THEOREM JobInvariance == Spec => []JobInv
<1>1. Init => JobInv
  <2> SUFFICES ASSUME Init PROVE JobInv
    OBVIOUS
  <2>1. Sorts BY DEF Init, Sorts, Exc
  <2>2. Flags BY DEF Init, Flags
  <2>3. Green BY DEF Init, Green, GreenIsTrue
  <2> QED BY <2>1, <2>2, <2>3 DEF JobInv, JobTypes
<1>2. JobInv /\ [Next]_vars => JobInv'
  BY SortsStep, FlagsStep, GreenStep DEF JobInv, JobTypes
<1> QED BY <1>1, <1>2, PTL DEF Spec

\* A job's check is green only for work done: cli.run_job, cronjob.sh and the
\* units' OnFailure hooks, for any job.
THEOREM GreenTells == Spec => []GreenIsTrue
<1>1. JobInv => GreenIsTrue BY DEF JobInv, Green
<1> QED BY <1>1, JobInvariance, PTL
-----------------------------------------------------------------------------
(* The sweep is a job. *)

\* The first failure is known once there is one.
FirstKnown == Failures # {} => first \in {"retryable", "fatal"}

\* So is it after every step: of failures only FailChain makes more, and only
\* the start of an attempt, or the end of a run, makes none.
LEMMA FirstStep == FirstKnown /\ [SweepNext]_sweepVars => FirstKnown'
<1> SUFFICES ASSUME FirstKnown, [SweepNext]_sweepVars PROVE FirstKnown'
  OBVIOUS
<1> USE DEF FirstKnown, Failures, sweep
<1>1. CASE SweepOpens BY <1>1 DEF SweepOpens, Fresh
<1>2. CASE UNCHANGED sweep BY <1>2
<1>3. CASE Keep BY <1>2, <1>3 DEF Keep, Fresh
<1>4. ASSUME NEW c \in Chains, LandChain(c) \/ FinishChain(c) PROVE FirstKnown'
  <2>1. first' = first BY <1>4 DEF LandChain, FinishChain
  <2>2. PICK v \in {"half", "done"} : chain' = [chain EXCEPT ![c] = v]
    BY <1>4 DEF LandChain, FinishChain
  <2>3. ASSUME NEW d \in Chains, chain'[d] = "failed" PROVE chain[d] = "failed"
    <3>1. CASE d = c
      <4>1. chain[c] \in {"fetch", "half"} BY <1>4 DEF LandChain, FinishChain
      <4> QED BY <2>2, <2>3, <3>1, <4>1
    <3>2. CASE d # c BY <2>2, <2>3, <3>2
    <3> QED BY <3>1, <3>2
  <2> QED BY <2>1, <2>3
<1>5. ASSUME NEW c \in Chains, NEW e \in Exc, FailChain(c, e) PROVE FirstKnown'
  BY <1>5 DEF FailChain
<1> QED
  BY <1>1, <1>2, <1>3, <1>4, <1>5
  DEF SweepNext, SameJob, Around, Sweep, SweepLogRaises, SweepInterrupt, SweepRaises,
      SweepPings, SweepReturns, sweepVars

\* Each step of a sweep is a step of a job, or nothing to it.
LEMMA SweepStep == FirstKnown /\ [SweepNext]_sweepVars => [Next]_vars
<1> SUFFICES ASSUME FirstKnown, [SweepNext]_sweepVars PROVE [Next]_vars
  OBVIOUS
<1>1. CASE SweepOpens BY <1>1 DEF SweepOpens, Next, Plumbing
<1>2. CASE SameJob BY <1>2 DEF SameJob, Next, Plumbing
<1>3. CASE Around BY <1>3 DEF Around, Next, Mishap
<1>4. CASE SweepLogRaises \/ SweepInterrupt
  BY <1>4 DEF SweepLogRaises, SweepInterrupt, Next, Mishap
<1>5. CASE SweepRaises
  <2>1. first \in Exc \ {"interrupt"}
    BY <1>5 DEF SweepRaises, LostSweep, FirstKnown, Exc
  <2> QED BY <1>5, <2>1 DEF SweepRaises, Next, Main
<1>6. CASE SweepPings \/ SweepReturns
  BY <1>6 DEF SweepPings, SweepReturns, Next, Main
<1>7. ASSUME NEW c \in Chains, NEW e \in Exc,
             LandChain(c) \/ FinishChain(c) \/ FailChain(c, e)
      PROVE  [Next]_vars
  BY <1>7 DEF LandChain, FinishChain, FailChain
<1>8. CASE UNCHANGED sweepVars BY <1>8 DEF sweepVars
<1> QED
  <2>1. Exc # {} BY DEF Exc
  <2> QED BY <1>1, <1>2, <1>3, <1>4, <1>5, <1>6, <1>7, <1>8, <2>1 DEF SweepNext, Sweep

LEMMA FirstAlways == SweepSpec => []FirstKnown
<1>1. SweepInit => FirstKnown BY DEF SweepInit, FirstKnown, Failures, Fresh
<1> QED BY <1>1, FirstStep, PTL DEF SweepSpec

\* A sweep is a job: retried, reported and restarted as run_job has it.
THEOREM SweepIsAJob == SweepSpec => JobSpec
<1>1. SweepInit => Init BY DEF SweepInit
<1> QED BY <1>1, SweepStep, FirstAlways, PTL DEF SweepSpec, JobSpec, Spec

\* So its check is green only for sweeps that were done.
THEOREM SweepGreenTells == SweepSpec => []GreenIsTrue
<1> QED BY SweepIsAJob, GreenTells, PTL DEF JobSpec
-----------------------------------------------------------------------------
(* What a sweep lands. *)

\* A thread is at a known place, and a run lands a chain once an attempt.
Counts ==
    /\ chain \in [Chains -> {"fetch", "half", "done", "failed"}]
    /\ first \in Exc \cup {None}
    /\ landed \in [Chains -> Nat]
    /\ late \subseteq Chains
    /\ \A c \in Chains : landed[c] <= attempt
    /\ pc \in {"off", "boot"} => attempt = 0
    /\ pc = "gate" => \A c \in Chains : landed[c] < attempt
    /\ pc = "main" => \A c \in Chains : chain[c] = "fetch" => landed[c] < attempt

NothingLanded == \A c \in Chains \ late : landed[c] = 0

\* Between attempts nothing is landed that did not fail late; in one, what its
\* threads landed.
Once ==
    /\ pc \in {"off", "boot", "gate", "backoff"} => NothingLanded
    /\ pc = "caught" /\ exc = "retryable" => NothingLanded
    /\ pc = "main" => \A c \in Chains \ late :
                        chain[c] \in {"fetch", "failed"} => landed[c] = 0
    /\ RetryLandsOnce

\* No attempt follows the one that pinged.
Clean ==
    extra = "clean" =>
        /\ \A c \in Chains : chain[c] = "done"
        /\ pc \in {"main", "ended", "closing", "caught", "failing"}
        /\ pc = "caught" => exc # "retryable"

LandInv == Counts /\ Once /\ Clean

\* A run that is over leaves nothing.
LEMMA OverStep ==
    ASSUME Keep, pc' = "off", attempt' = 0, extra' # "clean" PROVE LandInv'
<1>1. chain' = Fresh /\ first' = None /\ landed' = Idle /\ late' = {}
  BY DEF Keep
<1>2. Counts' BY <1>1 DEF Counts, Fresh, Idle, Exc
<1>3. Once' BY <1>1 DEF Once, NothingLanded, RetryLandsOnce, Idle
<1>4. Clean' BY DEF Clean
<1> QED BY <1>2, <1>3, <1>4 DEF LandInv

\* Nor does one that leaves everything as it is change anything.
LEMMA SameStep ==
    ASSUME LandInv, UNCHANGED sweep, UNCHANGED <<pc, exc, attempt, extra>> PROVE LandInv'
BY DEF LandInv, Counts, Once, NothingLanded, RetryLandsOnce, Clean, sweep

\* An attempt that has ended and will have no other keeps what it landed.
LEMMA LeaveStep ==
    ASSUME LandInv, UNCHANGED sweep, UNCHANGED attempt,
           pc' \in {"skip", "ended", "closing", "caught", "failing"},
           pc' = "caught" => exc' # "retryable",
           extra' = extra \/ extra' # "clean",
           pc' = "skip" => extra' # "clean"
    PROVE  LandInv'
<1>1. Counts' BY DEF LandInv, Counts, sweep
<1>2. Once' BY DEF LandInv, Once, RetryLandsOnce, sweep
<1>3. Clean' BY DEF LandInv, Clean, sweep
<1> QED BY <1>1, <1>2, <1>3 DEF LandInv

LEMMA PlumbingStep ==
    ASSUME JobInv, FirstKnown, LandInv, SameJob PROVE LandInv'
<1> USE DEF JobInv, JobTypes, Sorts
<1>1. CASE Begin
  <2>1. /\ pc = "boot" /\ pc' = "gate" /\ attempt' = 1 /\ extra' = extra
        /\ UNCHANGED sweep
    BY <1>1 DEF Begin, SameJob, Keep
  <2>2. Counts' BY <2>1 DEF LandInv, Counts, sweep
  <2>3. Once' BY <2>1 DEF LandInv, Once, NothingLanded, RetryLandsOnce, sweep
  <2>4. Clean' BY <2>1 DEF LandInv, Clean, sweep
  <2> QED BY <2>2, <2>3, <2>4 DEF LandInv
<1>2. CASE SkipDay \/ SkipExtras \/ Report \/ Fail
  <2>1. pc' # "off" BY <1>2 DEF SkipDay, SkipExtras, Report, Fail, Goto
  <2>2. UNCHANGED sweep BY <2>1 DEF SameJob, Keep
  <2>3. pc' = "skip" => extra' # "clean"
    BY <1>2 DEF SkipDay, SkipExtras, Report, Fail, Goto, LandInv, Clean
  <2> QED
    BY <1>2, <2>2, <2>3, LeaveStep DEF SkipDay, SkipExtras, Report, Fail, Goto
<1>3. CASE Close \/ FailExit
  <2>1. pc' = "off" /\ attempt' = 0 /\ extra' = "none"
    BY <1>3 DEF Close, FailExit, Failed, Gone
  <2> QED BY <2>1, OverStep DEF SameJob
<1>4. CASE Backoff
  <2>1. /\ pc = "caught" /\ exc = "retryable" /\ pc' = "backoff"
        /\ UNCHANGED <<exc, attempt, extra>> /\ UNCHANGED sweep
    BY <1>4 DEF Backoff, Again, Goto, SameJob, Keep
  <2>2. Counts' BY <2>1 DEF LandInv, Counts, sweep
  <2>3. Once' BY <2>1 DEF LandInv, Once, NothingLanded, RetryLandsOnce, sweep
  <2>4. Clean' BY <2>1 DEF LandInv, Clean, sweep
  <2> QED BY <2>2, <2>3, <2>4 DEF LandInv
<1>5. CASE Retry
  <2>1. /\ pc = "backoff" /\ pc' = "gate" /\ attempt' = attempt + 1
        /\ extra' = extra /\ UNCHANGED sweep
    BY <1>5 DEF Retry, Goto, SameJob, Keep
  <2>2. Counts' BY <2>1 DEF LandInv, Counts, sweep
  <2>3. Once' BY <2>1 DEF LandInv, Once, NothingLanded, RetryLandsOnce, sweep
  <2>4. Clean' BY <2>1 DEF LandInv, Clean, sweep
  <2> QED BY <2>2, <2>3, <2>4 DEF LandInv
<1> QED BY <1>1, <1>2, <1>3, <1>4, <1>5 DEF SameJob

LEMMA AroundStep ==
    ASSUME JobInv, LandInv, Around PROVE LandInv'
<1>1. ASSUME Failed PROVE LandInv'
  <2>1. pc' = "off" /\ attempt' = 0 /\ extra' = "none" BY <1>1 DEF Failed, Gone
  <2> QED BY <2>1, OverStep DEF Around
<1>2. CASE BeginFails \/ HandlerRaises \/ Kill
  BY <1>1, <1>2 DEF BeginFails, HandlerRaises, Kill
<1>3. ASSUME UNCHANGED <<pc, exc, attempt, extra>> PROVE LandInv'
  <2>1. CASE pc = "off"
    BY <1>3, <2>1, OverStep DEF Around, LandInv, Counts, Clean
  <2>2. CASE pc # "off" BY <1>3, <2>2, SameStep DEF Around, Keep
  <2> QED BY <2>1, <2>2
<1>4. ASSUME NEW u \in Units, Acquire(u) PROVE LandInv'
  <2>1. pc' = "boot" /\ UNCHANGED <<exc, attempt, extra>> BY <1>4 DEF Acquire
  <2>2. UNCHANGED sweep BY <2>1 DEF Around, Keep
  <2>3. pc = "off" BY <1>4 DEF Acquire, JobInv, JobTypes, Sorts
  <2>4. Counts' BY <2>1, <2>2, <2>3 DEF LandInv, Counts, sweep
  <2>5. Once'
    BY <2>1, <2>2, <2>3 DEF LandInv, Once, NothingLanded, RetryLandsOnce, sweep
  <2>6. Clean' BY <2>1, <2>2, <2>3 DEF LandInv, Clean, sweep
  <2> QED BY <2>4, <2>5, <2>6 DEF LandInv
<1>5. ASSUME NEW u \in Units, \/ Fire(u) \/ Restart(u) \/ Elapse(u) \/ Skip(u)
      PROVE  LandInv'
  BY <1>3, <1>5 DEF Fire, Restart, Elapse, Skip, proc
<1>6. CASE Alert BY <1>3, <1>6 DEF Alert, proc
<1> QED BY <1>2, <1>4, <1>5, <1>6 DEF Around, Systemd

LEMMA ThreadStep ==
    ASSUME JobInv, FirstKnown, LandInv,
           NEW c \in Chains, NEW e \in Exc,
           LandChain(c) \/ FinishChain(c) \/ FailChain(c, e)
    PROVE  LandInv'
<1> USE DEF LandInv
<1>0. pc = "main" /\ UNCHANGED <<pc, exc, attempt, extra>> /\ attempt \in Nat
      /\ chain[c] # "done"
  BY DEF LandChain, FinishChain, FailChain, vars, proc, JobInv, JobTypes, Sorts
<1>1. Clean' BY <1>0 DEF Clean
<1>2. CASE LandChain(c)
  <2>1. Counts' BY <1>0, <1>2 DEF Counts, LandChain
  <2>2. Once' BY <1>0, <1>2 DEF Once, RetryLandsOnce, LandChain, Counts
  <2> QED BY <1>1, <2>1, <2>2
<1>3. CASE FinishChain(c)
  <2>1. Counts' BY <1>0, <1>3 DEF Counts, FinishChain
  <2>2. Once' BY <1>0, <1>3 DEF Once, RetryLandsOnce, FinishChain, Counts
  <2> QED BY <1>1, <2>1, <2>2
<1>4. CASE FailChain(c, e)
  <2>1. Counts' BY <1>0, <1>4 DEF Counts, FailChain
  <2>2. Once'
    <3> USE DEF Once, RetryLandsOnce, Counts
    <3>1. CASE chain[c] = "half" BY <1>0, <1>4, <3>1 DEF FailChain
    <3>2. CASE chain[c] = "fetch" BY <1>0, <1>4, <3>2 DEF FailChain
    <3> QED BY <1>4, <3>1, <3>2 DEF FailChain
  <2> QED BY <1>1, <2>1, <2>2
<1> QED BY <1>2, <1>3, <1>4

LEMMA SweepStepLands ==
    ASSUME JobInv, FirstKnown, LandInv,
           SweepOpens \/ Sweep \/ SweepLogRaises \/ SweepInterrupt
    PROVE  LandInv'
<1>1. CASE SweepOpens
  <2>1. /\ pc = "gate" /\ pc' = "main" /\ UNCHANGED <<exc, attempt, extra, landed, late>>
        /\ chain' = Fresh /\ first' = None
    BY <1>1 DEF SweepOpens, Open, Goto
  <2>2. Counts' BY <2>1 DEF LandInv, Counts, Fresh
  <2>3. Once' BY <2>1 DEF LandInv, Once, NothingLanded, RetryLandsOnce, Fresh
  <2>4. Clean' BY <2>1 DEF LandInv, Clean
  <2> QED BY <2>2, <2>3, <2>4 DEF LandInv
<1>2. CASE SweepRaises
  <2>1. /\ pc = "main" /\ pc' = "caught" /\ exc' = first /\ UNCHANGED <<attempt, extra>>
        /\ UNCHANGED sweep /\ Failures = Chains
    BY <1>2 DEF SweepRaises, LostSweep, MainRaises, Raise, Goto
  <2>2. \A c \in Chains : chain[c] = "failed" BY <2>1 DEF Failures
  <2>3. Counts' BY <2>1 DEF LandInv, Counts, sweep
  <2>4. Once' BY <2>1, <2>2 DEF LandInv, Once, NothingLanded, RetryLandsOnce, sweep
  <2>5. Clean' BY <2>1, <2>2 DEF LandInv, Clean, sweep
  <2> QED BY <2>3, <2>4, <2>5 DEF LandInv
<1>3. CASE SweepPings
  <2>1. /\ pc = "main" /\ UNCHANGED <<pc, exc, attempt>> /\ UNCHANGED sweep
        /\ AllIn /\ Failures = {}
    BY <1>3 DEF SweepPings, MainPings, proc
  <2>2. \A c \in Chains : chain[c] = "done" BY <2>1 DEF AllIn, Failures
  <2>3. Counts' BY <2>1 DEF LandInv, Counts, sweep
  <2>4. Once' BY <2>1 DEF LandInv, Once, RetryLandsOnce, sweep
  <2>5. Clean' BY <2>1, <2>2 DEF LandInv, Clean, sweep
  <2> QED BY <2>3, <2>4, <2>5 DEF LandInv
<1>4. CASE SweepReturns
  BY <1>4, LeaveStep DEF SweepReturns, MainReturns, Goto
<1>5. CASE SweepInterrupt
  <2>1. CASE Raise("interrupt")
    <3>1. pc' = "caught" /\ exc' = "interrupt" /\ UNCHANGED <<attempt, extra>>
      BY <2>1 DEF Raise, Goto
    <3>2. UNCHANGED sweep BY <1>5, <3>1 DEF SweepInterrupt, Keep
    <3> QED BY <3>1, <3>2, LeaveStep
  <2>2. CASE Failed
    <3>1. pc' = "off" /\ attempt' = 0 /\ extra' = "none" BY <2>2 DEF Failed, Gone
    <3> QED BY <1>5, <3>1, OverStep DEF SweepInterrupt
  <2> QED BY <1>5, <2>1, <2>2 DEF SweepInterrupt, Interrupt
<1>6. ASSUME NEW c \in Chains, LandChain(c) \/ FinishChain(c) PROVE LandInv'
  <2>1. "fatal" \in Exc BY DEF Exc
  <2> QED BY <1>6, <2>1, ThreadStep
<1>7. ASSUME NEW c \in Chains, NEW e \in Exc, FailChain(c, e) PROVE LandInv'
  BY <1>7, ThreadStep
<1>8. CASE SweepLogRaises
  <2>1. pc' = "caught" /\ exc' = "fatal" /\ UNCHANGED <<attempt, extra>>
    BY <1>8 DEF SweepLogRaises, LogRaises, Raise, Goto
  <2>2. UNCHANGED sweep BY <1>8 DEF SweepLogRaises
  <2> QED BY <2>1, <2>2, LeaveStep
<1> QED BY <1>1, <1>2, <1>3, <1>4, <1>5, <1>6, <1>7, <1>8 DEF Sweep

\* The invariant of a sweep.
THEOREM SweepInvariance == SweepSpec => [](JobInv /\ FirstKnown /\ LandInv)
<1>1. SweepInit => LandInv
  <2> SUFFICES ASSUME SweepInit PROVE LandInv
    OBVIOUS
  <2>1. Counts BY DEF SweepInit, Init, Counts, Fresh, Idle
  <2>2. Once BY DEF SweepInit, Init, Once, NothingLanded, RetryLandsOnce, Idle
  <2>3. Clean BY DEF SweepInit, Init, Clean
  <2> QED BY <2>1, <2>2, <2>3 DEF LandInv
<1>2. JobInv /\ FirstKnown /\ LandInv /\ [SweepNext]_sweepVars => LandInv'
  <2> SUFFICES ASSUME JobInv, FirstKnown, LandInv, [SweepNext]_sweepVars PROVE LandInv'
    OBVIOUS
  <2>1. CASE UNCHANGED sweepVars
    BY <2>1, SameStep DEF sweepVars, vars, proc
  <2> QED
    BY <2>1, PlumbingStep, AroundStep, SweepStepLands DEF SweepNext
<1>3. SweepSpec => []JobInv BY SweepIsAJob, JobInvariance, PTL DEF JobSpec
<1> QED BY <1>1, <1>2, <1>3, FirstAlways, PTL DEF SweepSpec

\* A sweep that is tried again lands no chain twice that failed before landing.
THEOREM SweepLandsOnce == SweepSpec => []RetryLandsOnce
<1>1. LandInv => RetryLandsOnce BY DEF LandInv, Once
<1> QED BY <1>1, SweepInvariance, PTL

\* The all-chains ping attests every chain.
THEOREM AllChainsPingIsTrue == SweepSpec => []AllChainsMeansAll
<1>1. LandInv => AllChainsMeansAll BY DEF LandInv, Clean, AllChainsMeansAll
<1> QED BY <1>1, SweepInvariance, PTL

\* The types of a sweep: no chain lands more often than there are attempts.
THEOREM SweepTypes == SweepSpec => []SweepTypeOK
<1>1. JobInv /\ LandInv => SweepTypeOK
  <2> SUFFICES ASSUME JobInv, LandInv PROVE SweepTypeOK
    OBVIOUS
  <2>1. landed \in [Chains -> 0..MaxAttempts]
    BY DEF JobInv, JobTypes, Sorts, LandInv, Counts
  <2>2. TypeOK BY DEF JobInv, JobTypes, Sorts, Flags, TypeOK
  <2> QED BY <2>1, <2>2 DEF LandInv, Counts, SweepTypeOK
<1> QED BY <1>1, SweepInvariance, PTL
=============================================================================
