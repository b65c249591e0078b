------------------------------ MODULE WsCapture ------------------------------
(***************************************************************************)
(* One run of ws_minute_bars: the supervisor that keeps a subscription     *)
(* alive until the window closes, its reader, the writer thread that       *)
(* drains the queue into hourly files, and main, which stops the writer    *)
(* and settles the job's check by itself (it does not go through run_job). *)
(* A write, a log line or a close may fail on a full disk; an operator may *)
(* press Ctrl-C and the process may be killed.                             *)
(*                                                                         *)
(* A frame carries one bar.  The queue is unbounded and first in, first    *)
(* out; which bar is taken first matters to nothing here.  A reconnect     *)
(* after a silence that was never ACKed is Disconnect; the liveness ping,  *)
(* and pings that do not arrive, are left out.                             *)
(***************************************************************************)
EXTENDS Naturals

CONSTANTS Bars,       \* AM events of the session
          MaxFaults   \* bound: failed writes and logs, lost frames, Ctrl-C, kills

ASSUME CaptureAssumption == MaxFaults \in Nat

VARIABLES
    pc,       \* main: position; "off" once the process is gone
    exc,      \* the exception main is in the course of
    verdict,  \* what settle decided; "none" until settled
    told,     \* the terminal ping that was posted
    code,     \* exit code; "signal" for a run that was killed
    over,     \* now >= deadline
    w,        \* the writer thread
    fh,       \* it has a file open
    stale,    \* that file is of an earlier hour
    at,       \* where each bar is
    wrote,    \* rows_written > 0
    erred,    \* errors > 0
    torn,     \* a truncated .gz is in the directory
    faults

main   == <<exc, verdict, told, code>>
disk   == <<fh, stale, wrote, erred, torn>>
vars   == <<pc, main, over, w, disk, at, faults>>

Capturing == {"connect", "reading", "drop", "wait"}

Missed == {"missed", "logged", "unlogged"} \* not received: since gap_from, in a
                                           \* ws_gap, or before gap_from and in none

Init ==
    /\ pc = "boot" /\ exc = "none" /\ verdict = "none" /\ told = "none" /\ code = "none"
    /\ over \in BOOLEAN
    /\ w = "new" /\ fh = FALSE /\ stale = FALSE
    /\ at = [b \in Bars |-> "feed"]
    /\ wrote = FALSE /\ erred = FALSE /\ torn = FALSE
    /\ faults = 0

Fault == faults < MaxFaults /\ faults' = faults + 1

Where(s)   == {b \in Bars : at[b] \in s}
Move(B, s) == at' = [b \in Bars |-> IF b \in B THEN s ELSE at[b]]

WindowCloses == /\ ~over /\ over' = TRUE
                /\ UNCHANGED <<pc, main, w, disk, at, faults>>
-----------------------------------------------------------------------------
\* The feed: a bar reaches the queue, or is lost on the wire, or nobody is
\* subscribed.
Arrive(b) == /\ pc = "reading" /\ at[b] = "feed"
             /\ Move({b}, "queue")
             /\ UNCHANGED <<pc, main, over, w, disk, faults>>

Miss(b) == /\ at[b] = "feed"
           /\ \/ pc \in Capturing \ {"reading"} /\ UNCHANGED faults
              \/ pc = "reading" /\ Fault
           /\ Move({b}, "missed")
           /\ UNCHANGED <<pc, main, over, w, disk>>
-----------------------------------------------------------------------------
\* The supervisor has slept: at the top of its loop, gap_from is the time now.
Wake ==
    /\ pc = "wait"
    /\ IF over THEN pc' = "stopping" /\ UNCHANGED at
               ELSE pc' = "connect" /\ Move(Where({"missed"}), "unlogged")
    /\ UNCHANGED <<main, over, w, disk, faults>>

\* Connect, authenticate and subscribe ...
Subscribe == /\ pc = "connect" /\ pc' = "reading"
             /\ UNCHANGED <<main, over, w, disk, at, faults>>

\* ... or the key is refused: _FatalAuth ...
AuthFails == /\ pc = "connect" /\ pc' = "stopping" /\ exc' = "auth"
             /\ UNCHANGED <<verdict, told, code, over, w, disk, at, faults>>

\* ... or any other failure, a log line's included.
ConnectFails == /\ pc = "connect" /\ pc' = "drop"
                /\ UNCHANGED <<main, over, w, disk, at, faults>>

Disconnect == /\ pc = "reading" /\ pc' = "drop"
              /\ UNCHANGED <<main, over, w, disk, at, faults>>

ReadToTheEnd == /\ pc = "reading" /\ over /\ pc' = "stopping"
                /\ UNCHANGED <<main, over, w, disk, at, faults>>

\* The handlers' end: at the deadline leave; otherwise ws_gap, and sleep.
LogGap ==
    /\ pc = "drop"
    /\ IF over THEN pc' = "stopping" /\ UNCHANGED at
               ELSE pc' = "wait" /\ Move(Where({"missed"}), "logged")
    /\ UNCHANGED <<main, over, w, disk, faults>>

\* One of their log lines fails.
LogGapRaises == /\ pc = "drop" /\ Fault
                /\ pc' = "stopping" /\ exc' = "crash"
                /\ UNCHANGED <<verdict, told, code, over, w, disk, at>>
-----------------------------------------------------------------------------
\* _close: flush and close the file, gzip it, unlink the plain one, log.
Closes == /\ Move(Where({"buffer", "open"}), "kept")
          /\ fh' = FALSE /\ stale' = FALSE
          /\ UNCHANGED torn

\* It fails, at the flush (and fh stays set), at the gzip or the log line, or
\* at the unlink; an item in hand is given up.
CloseRaises(item) ==
    /\ fh /\ Fault
    /\ \/ \E lost \in SUBSET Where({"buffer"}) :
            at' = [b \in Bars |-> IF b \in lost \cup item THEN "lost"
                                  ELSE IF at[b] = "buffer" THEN "open" ELSE at[b]]
          /\ UNCHANGED <<fh, stale, torn>>
       \/ \E copies \in {"kept", "twice"} :
            /\ at' = [b \in Bars |-> IF b \in item THEN "lost"
                                     ELSE IF at[b] \in {"buffer", "open"} THEN copies
                                     ELSE at[b]]
            /\ fh' = FALSE /\ stale' = FALSE
            /\ torn' \in IF copies = "kept" THEN {torn, TRUE} ELSE {torn}

\* The writer thread. The hour turns, as it sees it, between two items.
HourPasses == /\ w = "idle" /\ fh /\ ~stale
              /\ stale' = TRUE
              /\ UNCHANGED <<pc, main, over, w, fh, at, wrote, erred, torn, faults>>

Take(b) == /\ w = "idle" /\ at[b] = "queue"
           /\ Move({b}, "hand") /\ w' = "busy"
           /\ UNCHANGED <<pc, main, over, disk, faults>>

Rotate == /\ w = "busy" /\ fh /\ stale
          /\ Closes
          /\ UNCHANGED <<pc, main, over, w, wrote, erred, faults>>

Open == /\ w = "busy" /\ ~fh
        /\ fh' = TRUE
        /\ UNCHANGED <<pc, main, over, w, stale, at, wrote, erred, torn, faults>>

\* The row is written; what is buffered may reach the disk with it.
Write == /\ w = "busy" /\ fh /\ ~stale
         /\ \/ Move(Where({"hand"}), "buffer")
            \/ Move(Where({"hand", "buffer"}), "open")
         /\ wrote' = TRUE /\ w' = "idle"
         /\ UNCHANGED <<pc, main, over, fh, stale, erred, torn, faults>>

\* The item whose write fails.
GivenUp == Where({"hand"})

\* Mutant of Errs: a failure of the log line ends the thread.
ErrsOut == erred' = TRUE /\ w' \in {"idle", "dead"} /\ UNCHANGED <<pc, main, over>>

\* The handler: count it, log if that is possible, drain on.
Errs == erred' = TRUE /\ w' = "idle" /\ UNCHANGED <<pc, main, over>>

RotateRaises == /\ w = "busy" /\ stale /\ CloseRaises(GivenUp) /\ Errs
                /\ UNCHANGED wrote

\* Before the file is there, or at the log line that says so.
OpenRaises == /\ w = "busy" /\ ~fh /\ Fault /\ Errs
              /\ Move(GivenUp, "lost")
              /\ fh' \in BOOLEAN
              /\ UNCHANGED <<stale, wrote, torn>>

\* Buffered rows may be lost too; the row itself may be kept, or counted.
WriteRaises ==
    /\ w = "busy" /\ fh /\ ~stale /\ Fault /\ Errs
    /\ \E lost \in SUBSET Where({"buffer"}), row \in {"lost", "buffer"} :
          at' = [b \in Bars |-> IF b \in lost THEN "lost"
                                ELSE IF b \in GivenUp THEN row ELSE at[b]]
    /\ wrote' \in {wrote, TRUE}
    /\ UNCHANGED <<fh, stale, torn>>

\* stop's sentinel, behind every bar.
Finish == /\ w = "idle" /\ pc \notin Capturing /\ Where({"queue"}) = {}
          /\ w' = "gone"
          /\ UNCHANGED <<pc, main, over, disk, at, faults>>
-----------------------------------------------------------------------------
\* main. The process goes, with what the writer has not put on disk.
Exit(c) ==
    /\ pc' = "off" /\ code' = c /\ fh' = FALSE /\ stale' = FALSE
    /\ w' = IF w = "new" THEN w ELSE "gone"
    /\ \E lost \in SUBSET Where({"buffer"}) :
          at' = [b \in Bars |-> IF b \in lost \cup Where({"queue", "hand"}) THEN "lost"
                                ELSE IF at[b] \in {"buffer", "open"} THEN "kept"
                                ELSE at[b]]
    /\ UNCHANGED <<told, over, wrote, erred, torn>>

\* settle: once.
Decide(v) ==
    IF verdict = "none" THEN verdict' = v /\ pc' = "tell"
                        ELSE pc' = "return" /\ UNCHANGED verdict

Raise(e, to) == pc' = to /\ exc' = e /\ UNCHANGED <<verdict, told, code>>

\* The /start ping.
Begin == /\ pc = "boot" /\ pc' = "try"
         /\ UNCHANGED <<main, over, w, disk, at, faults>>

\* require_trading_day exits 0 on a holiday; reading the contracts may fail.
Leave(e) == /\ pc = "try" /\ Raise(e, "caught")
            /\ UNCHANGED <<over, w, disk, at, faults>>

\* The window has closed for today; there is no contract universe.
NothingToDo == /\ pc = "try" /\ \E v \in {"ok", "fail"} : Decide(v)
               /\ UNCHANGED <<exc, told, code, over, w, disk, at, faults>>

\* The writer starts, and the capture.
Start == /\ pc = "try" /\ w' = "idle"
         /\ pc' = IF over THEN "stopping" ELSE "connect"
         /\ UNCHANGED <<main, over, disk, at, faults>>

\* writer.stop: queue.join returns.
Stop == /\ pc = "stopping" /\ w = "gone" /\ pc' = "closing"
        /\ UNCHANGED <<main, over, w, disk, at, faults>>

StopCloses == /\ pc = "closing" /\ Closes
              /\ pc' = IF exc = "none" THEN "report" ELSE "caught"
              /\ UNCHANGED <<main, over, w, wrote, erred, faults>>

\* What it raises takes the place of what was pending.
StopRaises == /\ pc = "closing" /\ CloseRaises({}) /\ Raise("crash", "caught")
              /\ UNCHANGED <<over, w, wrote, erred>>

\* Mutant of Good: rows are enough.
GoodEnough == wrote

Good == wrote /\ ~erred

\* job_end, and the verdict.
Report == /\ pc = "report" /\ Decide(IF Good THEN "ok" ELSE "fail")
          /\ UNCHANGED <<exc, told, code, over, w, disk, at, faults>>

\* The job_end line fails.
ReportRaises == /\ pc = "report" /\ Fault /\ Raise("crash", "caught")
                /\ UNCHANGED <<over, w, disk, at>>

\* The handlers: log and settle ...
Handle == /\ pc = "caught"
          /\ Decide(IF exc \in {"interrupt", "exit0"} THEN "ok" ELSE "fail")
          /\ UNCHANGED <<exc, told, code, over, w, disk, at, faults>>

\* ... unless the log line fails too.
HandlerRaises == /\ pc = "caught" /\ exc # "exit0" /\ Fault /\ Exit("1")
                 /\ UNCHANGED <<exc, verdict>>

Tell == /\ pc = "tell" /\ told' = verdict /\ pc' = "return"
        /\ UNCHANGED <<exc, verdict, code, over, w, disk, at, faults>>

Status == CASE exc \in {"interrupt", "exit0"} -> "0"
            [] exc \in {"auth", "crash"}      -> "1"
            [] OTHER -> IF verdict = "ok" THEN "0" ELSE "1"

Return == /\ pc = "return" /\ Exit(Status)
          /\ UNCHANGED <<exc, verdict, faults>>

InTry == \/ pc \in {"try", "stopping", "closing", "report"}
         \/ pc \in {"tell", "return"} /\ exc = "none"

\* Ctrl-C: the capture is cancelled and the writer stopped; elsewhere in main
\* it goes to its handler, the writer left as it is; in a handler it is the end.
Interrupt ==
    /\ Fault
    /\ \/ /\ pc \in Capturing /\ Raise("interrupt", "stopping")
          /\ UNCHANGED <<over, w, disk, at>>
       \/ /\ InTry /\ Raise("interrupt", "caught")
          /\ torn' \in IF pc = "closing" THEN {torn, TRUE} ELSE {torn}
          /\ UNCHANGED <<over, w, fh, stale, wrote, erred, at>>
       \/ /\ pc \notin Capturing \cup {"off"} /\ ~InTry
          /\ Exit("1") /\ exc' = "interrupt" /\ UNCHANGED verdict

Kill == /\ pc # "off" /\ Fault /\ Exit("signal")
        /\ UNCHANGED <<exc, verdict>>
-----------------------------------------------------------------------------
Feed       == \E b \in Bars : Arrive(b) \/ Miss(b)
Supervisor == \/ Wake \/ Subscribe \/ AuthFails \/ ConnectFails
              \/ ReadToTheEnd \/ LogGap
Writer     == \/ Rotate \/ Open \/ Write \/ Finish
              \/ \E b \in Bars : Take(b)
Main       == \/ Begin \/ NothingToDo \/ Start \/ Stop \/ StopCloses \/ Report
              \/ Handle \/ Tell \/ Return
              \/ \E e \in {"exit0", "crash"} : Leave(e)
Failure    == \/ Disconnect \/ LogGapRaises \/ RotateRaises \/ OpenRaises
              \/ WriteRaises \/ StopRaises \/ ReportRaises \/ HandlerRaises

Next == \/ Feed \/ Supervisor \/ Writer \/ Main \/ Failure
        \/ WindowCloses \/ HourPasses \/ Interrupt \/ Kill

Spec == Init /\ [][Next]_vars

\* Time passes, and each thread goes on as long as it can.
Fairness == WF_vars(WindowCloses) /\ WF_vars(Supervisor) /\ WF_vars(Writer) /\ WF_vars(Main)

LiveSpec == Spec /\ Fairness
-----------------------------------------------------------------------------
TypeOK ==
    /\ pc \in Capturing \cup {"boot", "try", "stopping", "closing", "report",
                              "caught", "tell", "return", "off"}
    /\ exc \in {"none", "auth", "interrupt", "exit0", "crash"}
    /\ verdict \in {"none", "ok", "fail"} /\ told \in {"none", verdict}
    /\ code \in {"none", "0", "1", "signal"}
    /\ over \in BOOLEAN
    /\ w \in {"new", "idle", "busy", "gone"}
    /\ at \in [Bars -> Missed \cup {"feed", "queue", "hand", "buffer", "open",
                                    "kept", "twice", "lost"}]
    /\ w # "busy" => Where({"hand"}) = {}
    /\ w = "busy" => \E b \in Bars : Where({"hand"}) = {b}
    /\ fh \in BOOLEAN /\ stale \in BOOLEAN
    /\ wrote \in BOOLEAN /\ erred \in BOOLEAN /\ torn \in BOOLEAN
    /\ faults \in 0..MaxFaults

\* A run that reports success, and that nobody interrupted, has every bar it
\* received in exactly one file that can be read whole; and one at least, if
\* it captured at all. Otherwise "a green ping would make a partially lost
\* capture indistinguishable from a clean run."
GreenIsComplete ==
    told = "ok" /\ exc # "interrupt" =>
        /\ ~torn
        /\ \A b \in Bars : at[b] \in Missed \cup {"feed", "kept"}
        /\ w # "new" => \E b \in Bars : at[b] = "kept"

\* The first verdict that is posted stands, whatever happens after it.
VerdictStands == [][told # "none" => told' = told]_vars

\* "The exit code agrees with" the ping: 0 if and only if success was posted.
ExitAgrees ==
    pc = "off" /\ exc # "interrupt" /\ code # "signal" => (code = "0" <=> told = "ok")

\* Every run ends: nothing it meets keeps stop() waiting for the queue.
RunEnds == <>(pc = "off")

\* "Each outage is logged as ws_gap": once subscribed, every bar that was
\* missed lies in a logged gap.
\* The code does not keep this: TLC refutes it, and no run repeats it.
OutagesLogged == pc = "reading" => Where({"unlogged"}) = {}
=============================================================================
