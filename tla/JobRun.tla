------------------------------- MODULE JobRun -------------------------------
(***************************************************************************)
(* One job under its systemd units, cronjob.sh and run_job: the units      *)
(* that share its lock and its Healthchecks check (the minute and the      *)
(* --eod sweep, the daily and the --expired contracts), and runs by hand.  *)
(* Pings are best effort; a process may be killed anywhere; a log line may *)
(* fail to be written (a full disk).  What the job itself does is one step *)
(* here, to be refined.                                                    *)
(***************************************************************************)
EXTENDS Naturals

CONSTANTS Units,        \* what runs the job: its units, and a shell
          Scheduled,    \* the units: a timer, an OnFailure hook
          Restartable,  \* those with Restart=on-failure
          Burst,        \* StartLimitBurst
          MaxAttempts,  \* JOB_MAX_ATTEMPTS
          None,         \* nobody
          MaxFaults     \* bound: lost pings, kills, failed writes, interrupts

ASSUME JobAssumption ==
    /\ Restartable \subseteq Scheduled /\ Scheduled \subseteq Units
    /\ None \notin Units
    /\ Burst \in Nat \ {0}
    /\ MaxAttempts \in Nat \ {0}
    /\ MaxFaults \in Nat

Exc == {"retryable", "fatal", "interrupt"}

VARIABLES
    unit,      \* systemd's view; "boot": cronjob.sh is at the lock
    starts,    \* starts counted against the limit
    lock,      \* whose process holds /tmp/massive-<job>.lock
    pc, exc, attempt, \* that process: position in run_job, what it caught
    check,     \* the last ping the job's check received
    extra,     \* the extra check: pinged by this run's main, or as skipped
    alert,     \* massive-alert@<check> is queued
    truth,     \* history: "ok" once the job's last run did its work
    lost,      \* history: the last ping did not arrive
    undone,    \* history: units whose failed run systemd has not made good yet,
               \* by a run that succeeds or by giving up aloud
    faults

proc == <<lock, pc, exc, attempt>>
vars == <<unit, starts, proc, check, extra, alert, truth, lost,
          undone, faults>>

Init ==
    /\ unit = [u \in Units |-> "inactive"]
    /\ starts = [u \in Units |-> 0]
    /\ lock = None /\ pc = "off" /\ exc = None /\ attempt = 0
    /\ check = "new" /\ extra = "none" /\ alert = FALSE
    /\ truth = "ok" /\ lost = FALSE
    /\ undone = {} /\ faults = 0

Fault == faults < MaxFaults /\ faults' = faults + 1

\* ping: best effort, never raises.
Ping(s) ==
    \/ check' = s /\ lost' = FALSE /\ UNCHANGED faults
    \/ Fault /\ lost' = TRUE /\ UNCHANGED check
-----------------------------------------------------------------------------
\* systemd. A start beyond the limit fails the unit, which queues its alert.
Launch(u) ==
    IF u \in Restartable /\ starts[u] = Burst
    THEN /\ unit' = [unit EXCEPT ![u] = "failed"]
         /\ alert' = TRUE /\ undone' = undone \ {u}
         /\ UNCHANGED starts
    ELSE /\ unit' = [unit EXCEPT ![u] = "boot"]
         /\ starts' = IF u \in Restartable THEN [starts EXCEPT ![u] = @ + 1] ELSE starts
         /\ UNCHANGED <<alert, undone>>

\* Its timer fires (to no effect on a unit that is running or waiting), or
\* somebody runs the job by hand.
Fire(u) ==
    /\ unit[u] \in {"inactive", "failed"}
    /\ Launch(u)
    /\ UNCHANGED <<proc, check, extra, truth, lost, faults>>

\* RestartSec after a failure.
Restart(u) ==
    /\ unit[u] = "waiting"
    /\ Launch(u)
    /\ UNCHANGED <<proc, check, extra, truth, lost, faults>>

\* StartLimitIntervalSec passes: it is wider than a streak of restarts.
Elapse(u) ==
    /\ unit[u] \in {"inactive", "failed"} /\ starts[u] > 0
    /\ starts' = [starts EXCEPT ![u] = 0]
    /\ UNCHANGED <<unit, proc, check, extra, alert, truth, lost, faults, undone>>

\* The alert unit pings /fail.
Alert ==
    /\ alert /\ alert' = FALSE
    /\ Ping("fail")
    /\ UNCHANGED <<unit, starts, proc, extra, truth, undone>>
-----------------------------------------------------------------------------
\* cronjob.sh: flock -n.
Acquire(u) ==
    /\ unit[u] = "boot" /\ lock = None
    /\ unit' = [unit EXCEPT ![u] = "running"]
    /\ lock' = u /\ pc' = "boot"
    /\ UNCHANGED <<starts, exc, attempt, check, extra, alert, truth, lost, faults, undone>>

\* job_skipped, exit 0.
Skip(u) ==
    /\ unit[u] = "boot" /\ lock # None
    /\ unit' = [unit EXCEPT ![u] = "inactive"]
    /\ UNCHANGED <<starts, proc, check, extra, alert, truth, lost, faults, undone>>

\* Mutant of Unhappy: OnFailure is not set.
UnhappyUnheard(u) ==
    /\ unit' = [unit EXCEPT ![u] = IF u \in Restartable THEN "waiting"
                                   ELSE IF u \in Scheduled THEN "failed" ELSE "inactive"]
    /\ UNCHANGED alert

\* What systemd makes of a run that exits non-zero or is killed.
Unhappy(u) ==
    /\ unit' = [unit EXCEPT ![u] = IF u \in Restartable THEN "waiting"
                                   ELSE IF u \in Scheduled THEN "failed" ELSE "inactive"]
    /\ alert' = (alert \/ u \in Scheduled \ Restartable)

Gone ==
    /\ lock' = None /\ pc' = "off" /\ exc' = None /\ attempt' = 0
    /\ extra' = "none"
    /\ UNCHANGED starts

\* A scheduled run that ends before /start did not do its work; one by hand
\* never was a run.
Failed ==
    /\ Unhappy(lock) /\ Gone
    /\ undone' = undone \cup ({lock} \cap Restartable)
    /\ truth' = IF pc = "boot" /\ lock \in Scheduled THEN "bad" ELSE truth
    /\ UNCHANGED <<check, lost>>
-----------------------------------------------------------------------------
\* run_job, up to the /start ping; the settings, or the log, may not open.
Begin ==
    /\ pc = "boot" /\ pc' = "gate"
    /\ attempt' = 1
    /\ truth' = "bad"
    /\ Ping("start")
    /\ UNCHANGED <<unit, starts, lock, exc, extra, alert, undone>>

BeginFails == pc = "boot" /\ Fault /\ Failed

Goto(at) == /\ pc' = at
            /\ UNCHANGED <<unit, starts, lock, alert, undone>>

\* require_trading_day lets the job run (or --force does) ...
Open == pc = "gate" /\ Goto("main")
        /\ UNCHANGED <<exc, attempt, check, extra, truth, lost, faults>>

\* Mutant of SkipDay: no ping from a run that does not reach main.
SkipDayUnsaid ==
    /\ pc = "gate" /\ Goto("skip")
    /\ truth' = "ok"
    /\ UNCHANGED <<exc, attempt, check, extra, lost, faults>>

\* ... or exits 0, on a holiday: the check is settled, then the extra ones.
SkipDay ==
    /\ pc = "gate" /\ Goto("skip")
    /\ Ping("ok") /\ truth' = "ok"
    /\ UNCHANGED <<exc, attempt, extra>>

SkipExtras == /\ pc = "skip" /\ Goto("closing")
              /\ extra' = "skipped"
              /\ UNCHANGED <<exc, attempt, check, truth, lost, faults>>

\* What a job may do: ping its extra check, return, or raise.
MainPings == /\ pc = "main" /\ extra' = "clean"
             /\ UNCHANGED <<unit, starts, proc, check, alert, truth, lost,
                            faults, undone>>

MainReturns == /\ pc = "main" /\ Goto("ended")
               /\ truth' = "ok"
               /\ UNCHANGED <<exc, attempt, check, extra, lost, faults>>

Raise(e) == /\ Goto("caught") /\ exc' = e
            /\ UNCHANGED <<attempt, check, extra, truth, lost>>

MainRaises(e) == pc = "main" /\ Raise(e) /\ UNCHANGED faults

\* job_start, job_end or a line of the job's own cannot be logged.
LogRaises == pc \in {"gate", "main", "ended"} /\ Fault /\ Raise("fatal")

\* job_end is logged and the success ping sent.
Report ==
    /\ pc = "ended" /\ Goto("closing")
    /\ Ping("ok")
    /\ UNCHANGED <<exc, attempt, extra, truth>>

Close ==
    /\ pc = "closing" /\ Gone
    /\ unit' = [unit EXCEPT ![lock] = "inactive"]
    /\ undone' = undone \ {lock}
    /\ UNCHANGED <<check, alert, truth, lost, faults>>
-----------------------------------------------------------------------------
Again == exc = "retryable" /\ attempt < MaxAttempts

\* The handler: back off and try again ...
Backoff == /\ pc = "caught" /\ Again /\ Goto("backoff")
           /\ UNCHANGED <<exc, attempt, check, extra, truth, lost, faults>>

Retry == /\ pc = "backoff" /\ Goto("gate")
         /\ attempt' = attempt + 1 /\ exc' = None
         /\ UNCHANGED <<check, extra, truth, lost, faults>>

\* ... or log, ping /fail and exit 1.
Fail ==
    /\ pc = "caught" /\ ~Again /\ Goto("failing")
    /\ Ping("fail")
    /\ UNCHANGED <<exc, attempt, extra, truth>>

FailExit == pc = "failing" /\ Failed /\ UNCHANGED faults

\* An exception in the handler, whose own log line fails, ends the process.
HandlerRaises == pc = "caught" /\ Fault /\ Failed

\* Ctrl-C on a run by hand: caught around main and the success ping, not in
\* the handlers, nor in their sleep.
Interrupt ==
    /\ lock \in Units \ Scheduled /\ Fault
    /\ \/ pc \in {"gate", "main", "ended"} /\ Raise("interrupt")
       \/ pc = "closing" /\ extra # "skipped" /\ Raise("interrupt")
       \/ pc \notin {"gate", "main", "ended"} /\ Failed

\* Out of memory, power.
Kill == lock # None /\ Fault /\ Failed
-----------------------------------------------------------------------------
Plumbing == \/ Begin \/ Open \/ SkipDay \/ SkipExtras \/ Report \/ Close
            \/ Backoff \/ Retry \/ Fail \/ FailExit
Main     == \/ MainPings \/ MainReturns
            \/ \E e \in Exc \ {"interrupt"} : MainRaises(e)
Systemd  == \/ Alert
            \/ \E u \in Units : \/ Fire(u) \/ Restart(u) \/ Elapse(u)
                               \/ Acquire(u) \/ Skip(u)
Mishap   == BeginFails \/ LogRaises \/ HandlerRaises \/ Kill

Next == Plumbing \/ Main \/ Systemd \/ Mishap \/ Interrupt

Spec == Init /\ [][Next]_vars
-----------------------------------------------------------------------------
TypeOK ==
    /\ unit \in [Units -> {"inactive", "boot", "running", "waiting", "failed"}]
    /\ starts \in [Units -> 0..Burst]
    /\ lock \in Units \cup {None}
    /\ pc \in {"off", "boot", "gate", "main", "skip", "ended", "closing", "caught",
               "backoff", "failing"}
    /\ exc \in Exc \cup {None}
    /\ attempt \in 0..MaxAttempts
    /\ check \in {"new", "start", "ok", "fail"}
    /\ extra \in {"none", "clean", "skipped"}
    /\ alert \in BOOLEAN /\ lost \in BOOLEAN
    /\ truth \in {"ok", "bad"}
    /\ undone \subseteq Restartable
    /\ faults \in 0..MaxFaults

\* A green check means that the job's last run did its work (or had none to
\* do), whichever units ran, restarted, gave up or skipped each other, and
\* wherever they were killed: unless the last ping was lost, an alert is about
\* to be sent, or a unit's failed run is not made good (RetriedOrGivenUp).
GreenIsTrue ==
    check = "ok" /\ ~lost /\ ~alert /\ undone = {} => truth = "ok"

\* "Must not leave the check hung": a check that is started gets a verdict, at
\* the latest from a later run.
VerdictArrives == check = "start" ~> check # "start"

\* "A failure retries instead of waiting" for the next tick, until the start
\* limit fails the unit: one whose run failed does not come to rest.
\* The code does not keep this: TLC refutes it, and no run repeats it.
RetriedOrGivenUp == \A u \in undone : unit[u] # "inactive"
=============================================================================
