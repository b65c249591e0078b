--------------------------- MODULE WsCaptureProofs ---------------------------
(***************************************************************************)
(* What main tells of a capture, for any number of bars and of faults: the *)
(* state of main (Course) decides what may be told, the state of the bars  *)
(* (Shelf) what would be true, and Green joins the two.                    *)
(***************************************************************************)
EXTENDS WsCapture, TLAPS

USE CaptureAssumption DEF CaptureAssumption

Places == Missed \cup {"feed", "queue", "hand", "buffer", "open", "kept", "twice", "lost"}

\* The types of main, of the writer and its bars; the flags apart.
Sorts ==
    /\ pc \in Capturing \cup {"boot", "try", "stopping", "closing", "report",
                              "caught", "tell", "return", "off"}
    /\ exc \in {"none", "auth", "interrupt", "exit0", "crash"}
    /\ verdict \in {"none", "ok", "fail"} /\ told \in {"none", verdict}
    /\ code \in {"none", "0", "1", "signal"}
    /\ faults \in 0..MaxFaults
Shelves ==
    /\ w \in {"new", "idle", "busy", "gone"}
    /\ at \in [Bars -> Places]
    /\ w # "busy" => Where({"hand"}) = {}
    /\ w = "busy" => \E b \in Bars : Where({"hand"}) = {b}
Flags == /\ over \in BOOLEAN /\ fh \in BOOLEAN /\ stale \in BOOLEAN
         /\ wrote \in BOOLEAN /\ erred \in BOOLEAN /\ torn \in BOOLEAN

\* Until its end a run has decided nothing; what it decides and tells follows
\* from how it ended.
Before == Capturing \cup {"boot", "try", "stopping", "closing", "report"}
Course ==
    /\ pc \in Before => verdict = "none"
    /\ pc \in Before \ {"stopping", "closing"} => exc = "none"
    /\ pc = "caught" => exc # "none"
    /\ pc = "caught" /\ exc # "interrupt" => verdict = "none"
    /\ pc = "tell" => verdict # "none" /\ told = "none"
    /\ pc = "return" /\ exc # "interrupt" => verdict # "none" /\ told = verdict
    /\ exc \in {"auth", "crash"} => verdict \in {"none", "fail"}
    /\ exc = "exit0" => verdict \in {"none", "ok"}
    /\ ExitAgrees

\* What the writer has not finished, and what cannot be without it.
Damage == torn \/ Where({"twice", "lost"}) # {}
Shelf ==
    /\ w = "new" => /\ at = [b \in Bars |-> "feed"]
                    /\ ~fh /\ ~torn
    /\ pc \in {"boot", "try"} \/ exc = "exit0" => w = "new"
    /\ pc \in Capturing \cup {"stopping", "closing", "report"} => w # "new"
    /\ pc \in Capturing => w # "gone"
    /\ pc \in {"closing", "report"} => w = "gone"
    /\ w = "gone" => Where({"queue"}) = {}
    /\ ~fh => Where({"buffer", "open"}) = {}
    /\ pc = "report" => ~fh
    /\ pc # "off" /\ Damage => erred \/ exc \in {"interrupt", "crash"}
    /\ wrote => Where({"buffer", "open", "kept", "twice", "lost"}) # {}

\* A decision of success rests on a capture that is complete, or never was.
Green ==
    verdict = "ok" /\ exc # "interrupt" =>
        /\ w \in {"new", "gone"} /\ ~fh /\ ~Damage
        /\ w = "gone" => Where({"kept"}) # {}

Inv == Sorts /\ Shelves /\ Flags /\ Course /\ Shelf /\ Green
-----------------------------------------------------------------------------
(* Types. *)

LEMMA SortsStep == Sorts /\ [Next]_vars => Sorts'
<1> SUFFICES ASSUME Sorts, [Next]_vars PROVE Sorts'
  OBVIOUS
<1> USE DEF Sorts, Capturing
<1>1. CASE WindowCloses \/ HourPasses
  BY <1>1 DEF WindowCloses, HourPasses, main
<1>2. CASE Feed BY <1>2 DEF Feed, Arrive, Miss, Fault, main
<1>3. CASE Supervisor
  BY <1>3 DEF Supervisor, Wake, Subscribe, AuthFails, ConnectFails, ReadToTheEnd,
              LogGap, main
<1>4. CASE Writer
  BY <1>4 DEF Writer, Rotate, Open, Write, Finish, Take, main
<1>5. CASE Begin \/ Start \/ Stop \/ StopCloses
  BY <1>5 DEF Begin, Start, Stop, StopCloses, main
<1>6. CASE NothingToDo BY <1>6 DEF NothingToDo, Decide
<1>7. CASE Report BY <1>7 DEF Report, Decide
<1>8. CASE Handle BY <1>8 DEF Handle, Decide
<1>9. CASE Tell BY <1>9 DEF Tell
<1>10. CASE Return BY <1>10 DEF Return, Exit, Status
<1>11. ASSUME NEW e \in {"exit0", "crash"}, Leave(e) PROVE Sorts'
  BY <1>11 DEF Leave, Raise
<1>12. Fault => faults' \in 0..MaxFaults BY DEF Fault
<1>13. ASSUME NEW item, CloseRaises(item) PROVE Fault
  BY <1>13 DEF CloseRaises
<1>14. CASE Failure
  <2>1. CASE Disconnect \/ HandlerRaises
    BY <1>12, <2>1 DEF Disconnect, HandlerRaises, Exit, main
  <2>2. CASE LogGapRaises \/ ReportRaises
    BY <1>12, <2>2 DEF LogGapRaises, ReportRaises, Raise
  <2>3. CASE StopRaises BY <1>12, <1>13, <2>3 DEF StopRaises, Raise
  <2>4. CASE RotateRaises BY <1>12, <1>13, <2>4 DEF RotateRaises, Errs, main
  <2>5. CASE OpenRaises \/ WriteRaises
    BY <1>12, <2>5 DEF OpenRaises, WriteRaises, Errs, main
  <2> QED BY <1>14, <2>1, <2>2, <2>3, <2>4, <2>5 DEF Failure
<1>15. CASE Interrupt \/ Kill
  <2>1. faults' \in 0..MaxFaults BY <1>12, <1>15 DEF Interrupt, Kill
  <2>2. CASE Raise("interrupt", "stopping") \/ Raise("interrupt", "caught")
    BY <2>1, <2>2 DEF Raise
  <2>3. CASE \/ Exit("1") /\ exc' = "interrupt" /\ UNCHANGED verdict
             \/ Exit("signal") /\ UNCHANGED <<exc, verdict>>
    BY <2>1, <2>3 DEF Exit
  <2> QED BY <1>15, <2>2, <2>3 DEF Interrupt, Kill
<1>16. CASE UNCHANGED vars BY <1>16 DEF vars, main
<1> QED
  BY <1>1, <1>2, <1>3, <1>4, <1>5, <1>6, <1>7, <1>8, <1>9, <1>10, <1>11,
     <1>14, <1>15, <1>16 DEF Next, Main

LEMMA FlagsStep == Flags /\ [Next]_vars => Flags'
<1> SUFFICES ASSUME Flags, [Next]_vars PROVE Flags'
  OBVIOUS
<1> USE DEF Flags
<1>1. CASE WindowCloses \/ HourPasses
  BY <1>1 DEF WindowCloses, HourPasses, disk
<1>2. CASE Feed BY <1>2 DEF Feed, Arrive, Miss, disk
<1>3. CASE Supervisor
  BY <1>3 DEF Supervisor, Wake, Subscribe, AuthFails, ConnectFails, ReadToTheEnd,
              LogGap, disk
<1>4. CASE Writer
  BY <1>4 DEF Writer, Rotate, Closes, Open, Write, Finish, Take, disk
<1>5. CASE Main
  BY <1>5 DEF Main, Begin, NothingToDo, Start, Stop, StopCloses, Closes, Report,
              Handle, Tell, Return, Exit, Leave, disk
<1>6. ASSUME NEW item, CloseRaises(item)
      PROVE  fh' \in BOOLEAN /\ stale' \in BOOLEAN /\ torn' \in BOOLEAN
  BY <1>6 DEF CloseRaises
<1>7. CASE RotateRaises BY <1>6, <1>7 DEF RotateRaises, Errs
<1>8. CASE StopRaises BY <1>6, <1>8 DEF StopRaises
<1>9. CASE OpenRaises \/ WriteRaises
  BY <1>9 DEF OpenRaises, WriteRaises, Errs
<1>10. CASE Disconnect \/ LogGapRaises \/ ReportRaises
  BY <1>10 DEF Disconnect, LogGapRaises, ReportRaises, disk
<1>11. CASE HandlerRaises \/ Kill BY <1>11 DEF HandlerRaises, Kill, Exit
<1>12. CASE Interrupt BY <1>12 DEF Interrupt, Exit, disk
<1>13. CASE UNCHANGED vars BY <1>13 DEF vars, disk
<1> QED
  BY <1>1, <1>2, <1>3, <1>4, <1>5, <1>7, <1>8, <1>9, <1>10, <1>11, <1>12, <1>13
  DEF Next, Failure

LEMMA ShelvesStep == Shelves /\ Course /\ Shelf /\ [Next]_vars => Shelves'
<1> SUFFICES ASSUME Shelves, Course, Shelf, [Next]_vars PROVE Shelves'
  OBVIOUS
<1> USE DEF Shelves, Places, Missed
<1>1. CASE WindowCloses \/ HourPasses \/ Finish
  BY <1>1 DEF WindowCloses, HourPasses, Finish, Where
<1>2. CASE Feed BY <1>2 DEF Feed, Arrive, Miss, Where, Move
<1>3. CASE Supervisor
  BY <1>3 DEF Supervisor, Wake, Subscribe, AuthFails, ConnectFails, ReadToTheEnd,
              LogGap, Where, Move
<1>4. ASSUME NEW b \in Bars, Take(b) PROVE Shelves'
  BY <1>4 DEF Take, Where, Move
<1>5. CASE Rotate \/ Open BY <1>5 DEF Rotate, Closes, Open, Where, Move
<1>6. CASE Write BY <1>6 DEF Write, Where, Move
<1>7. CASE RotateRaises
  BY <1>7, ZenonT(40) DEF RotateRaises, CloseRaises, GivenUp, Errs, Where, Move
<1>8. CASE OpenRaises BY <1>8 DEF OpenRaises, GivenUp, Errs, Where, Move
<1>9. CASE WriteRaises BY <1>9 DEF WriteRaises, GivenUp, Errs, Where, Move
<1>10. CASE StopCloses BY <1>10 DEF StopCloses, Closes, Where, Move
<1>11. CASE StopRaises
  BY <1>11 DEF StopRaises, CloseRaises, Where, Move
<1>12. CASE Start BY <1>12 DEF Start, Shelf, Where
<1>13. CASE Begin \/ NothingToDo \/ Stop \/ Report \/ Handle \/ Tell
  BY <1>13 DEF Begin, NothingToDo, Stop, Report, Handle, Tell, Where
<1>14. ASSUME NEW e \in {"exit0", "crash"}, Leave(e) PROVE Shelves'
  BY <1>14 DEF Leave, Where
<1>15. ASSUME NEW c, Exit(c) PROVE Shelves'
  BY <1>15 DEF Exit, Where
<1>16. CASE Return \/ HandlerRaises \/ Kill
  BY <1>15, <1>16 DEF Return, HandlerRaises, Kill
<1>17. CASE Disconnect \/ LogGapRaises \/ ReportRaises
  BY <1>17 DEF Disconnect, LogGapRaises, ReportRaises, Where
<1>18. CASE Interrupt
  <2>1. CASE Exit("1") BY <2>1, <1>15
  <2>2. CASE UNCHANGED <<w, at>> BY <2>2 DEF Where
  <2> QED BY <1>18, <2>1, <2>2 DEF Interrupt
<1>19. CASE UNCHANGED vars BY <1>19 DEF vars, Where
<1> QED
  BY <1>1, <1>2, <1>3, <1>4, <1>5, <1>6, <1>7, <1>8, <1>9, <1>10, <1>11, <1>12,
     <1>13, <1>14, <1>16, <1>17, <1>18, <1>19 DEF Next, Writer, Main, Failure
-----------------------------------------------------------------------------
(* The course of main. *)

LEMMA CourseStep == Sorts /\ Course /\ Shelf /\ [Next]_vars => Course'
<1> SUFFICES ASSUME Sorts, Course, Shelf, [Next]_vars PROVE Course'
  OBVIOUS
<1> USE DEF Course, Sorts, ExitAgrees, Before, Capturing
<1>1. ASSUME UNCHANGED <<pc, main>> PROVE Course'
  BY <1>1 DEF main
<1>2. CASE WindowCloses \/ HourPasses \/ Feed \/ Writer
  BY <1>1, <1>2 DEF WindowCloses, HourPasses, Feed, Arrive, Miss, Writer, Rotate, Open,
                    Write, Finish, Take
<1>3. CASE RotateRaises \/ OpenRaises \/ WriteRaises
  <2>1. UNCHANGED <<pc, main>>
    BY <1>3 DEF RotateRaises, OpenRaises, WriteRaises, Errs
  <2> QED BY <1>1, <2>1
<1>4. CASE Wake \/ Subscribe \/ ConnectFails \/ ReadToTheEnd \/ LogGap \/ Disconnect
  BY <1>4 DEF Wake, Subscribe, ConnectFails, ReadToTheEnd, LogGap, Disconnect, main
<1>5. CASE AuthFails \/ LogGapRaises \/ ReportRaises
  BY <1>5 DEF AuthFails, LogGapRaises, ReportRaises, Raise
<1>6. CASE Begin \/ Start \/ Stop BY <1>6 DEF Begin, Start, Stop, main
<1>7. CASE StopCloses BY <1>7 DEF StopCloses, main
<1>8. CASE StopRaises BY <1>8 DEF StopRaises, Raise
<1>9. CASE NothingToDo BY <1>9 DEF NothingToDo, Decide
<1>10. CASE Report BY <1>10 DEF Report, Decide
<1>11. CASE Handle BY <1>11 DEF Handle, Decide
<1>12. CASE Tell BY <1>12 DEF Tell
<1>13. CASE Return BY <1>13 DEF Return, Exit, Status
<1>14. ASSUME NEW e \in {"exit0", "crash"}, Leave(e) PROVE Course'
  BY <1>14 DEF Leave, Raise
<1>15. CASE HandlerRaises BY <1>15 DEF HandlerRaises, Exit
<1>16. CASE Kill BY <1>16 DEF Kill, Exit
<1>17. CASE Interrupt
  <2>1. CASE Raise("interrupt", "stopping") /\ pc \in Capturing BY <2>1 DEF Raise
  <2>2. CASE Raise("interrupt", "caught") /\ InTry BY <2>2 DEF Raise, InTry
  <2>3. CASE Exit("1") /\ exc' = "interrupt" /\ UNCHANGED verdict BY <2>3 DEF Exit
  <2> QED BY <1>17, <2>1, <2>2, <2>3 DEF Interrupt
<1>18. CASE UNCHANGED vars BY <1>1, <1>18 DEF vars
<1> QED
  BY <1>2, <1>3, <1>4, <1>5, <1>6, <1>7, <1>8, <1>9, <1>10, <1>11, <1>12, <1>13,
     <1>14, <1>15, <1>16, <1>17, <1>18 DEF Next, Supervisor, Main, Failure
-----------------------------------------------------------------------------
(* The bars. *)

LEMMA ShelfStep ==
    Sorts /\ Shelves /\ Course /\ Shelf /\ [Next]_vars => Shelf'
<1> SUFFICES ASSUME Sorts, Shelves, Course, Shelf, [Next]_vars PROVE Shelf'
  OBVIOUS
<1> USE DEF Sorts, Shelves, Course, Before, Capturing, Shelf, Damage, Where
<1>1. CASE WindowCloses \/ HourPasses \/ Finish
  BY <1>1 DEF WindowCloses, HourPasses, Finish, main, disk
<1>2. ASSUME NEW b \in Bars, Arrive(b) \/ Miss(b) PROVE Shelf'
  <2>1. w # "new" /\ pc \in Capturing /\ UNCHANGED <<pc, main, w, disk>>
    BY <1>2 DEF Arrive, Miss
  <2>2. at[b] = "feed" /\ \E s \in {"queue", "missed"} : Move({b}, s) /\ (s = "queue" => pc = "reading")
    BY <1>2 DEF Arrive, Miss
  <2>3. ASSUME NEW S \in SUBSET {"buffer", "open", "kept", "twice", "lost"}
        PROVE  Where(S)' = Where(S)
    BY <2>2, <2>3 DEF Move
  <2> QED BY <2>1, <2>3 DEF main, disk
<1>3. CASE Wake \/ LogGap BY <1>3 DEF Wake, LogGap, Move, main, disk
<1>4. CASE Subscribe \/ ConnectFails \/ ReadToTheEnd \/ Disconnect \/ AuthFails
  BY <1>4 DEF Subscribe, ConnectFails, ReadToTheEnd, Disconnect, AuthFails, main, disk
<1>5. CASE LogGapRaises \/ ReportRaises
  BY <1>5 DEF LogGapRaises, ReportRaises, Raise, disk
<1>6. ASSUME NEW b \in Bars, Take(b) PROVE Shelf'
  BY <1>6 DEF Take, Move, main, disk
<1>7. CASE Rotate BY <1>7 DEF Rotate, Closes, Move, main
<1>8. CASE Open BY <1>8 DEF Open, main
<1>9. CASE Write BY <1>9 DEF Write, Move, main
<1>10. CASE RotateRaises
  BY <1>10 DEF RotateRaises, CloseRaises, GivenUp, Errs, main
<1>11. CASE OpenRaises BY <1>11 DEF OpenRaises, GivenUp, Errs, Move, main
<1>12. CASE WriteRaises BY <1>12 DEF WriteRaises, GivenUp, Errs, main
<1>13. CASE StopCloses BY <1>13 DEF StopCloses, Closes, Move, main
<1>14. CASE StopRaises BY <1>14 DEF StopRaises, CloseRaises, Raise
<1>15. CASE Begin \/ Start \/ Stop \/ Tell BY <1>15 DEF Begin, Start, Stop, Tell, main, disk
<1>16. CASE NothingToDo \/ Report \/ Handle
  BY <1>16 DEF NothingToDo, Report, Handle, Decide, disk
<1>17. ASSUME NEW e \in {"exit0", "crash"}, Leave(e) PROVE Shelf'
  BY <1>17 DEF Leave, Raise, disk
<1>18. ASSUME NEW c, Exit(c), exc' \in {exc, "interrupt"} PROVE Shelf'
  BY <1>18 DEF Exit
<1>19. CASE Return \/ HandlerRaises \/ Kill
  BY <1>18, <1>19 DEF Return, HandlerRaises, Kill
<1>20. CASE Interrupt
  <2>1. CASE Exit("1") /\ exc' = "interrupt" BY <1>18, <2>1
  <2>2. CASE Raise("interrupt", "stopping") /\ pc \in Capturing /\ UNCHANGED <<w, disk, at>>
    BY <2>2 DEF Raise, disk
  <2>3. CASE /\ Raise("interrupt", "caught") /\ InTry
             /\ torn' \in IF pc = "closing" THEN {torn, TRUE} ELSE {torn}
             /\ UNCHANGED <<w, fh, wrote, erred, at>>
    BY <2>3 DEF Raise, InTry
  <2> QED BY <1>20, <2>1, <2>2, <2>3 DEF Interrupt
<1>21. CASE UNCHANGED vars BY <1>21 DEF vars, main, disk
<1> QED
  BY <1>1, <1>2, <1>3, <1>4, <1>5, <1>6, <1>7, <1>8, <1>9, <1>10, <1>11, <1>12, <1>13,
     <1>14, <1>15, <1>16, <1>17, <1>19, <1>20, <1>21
  DEF Next, Feed, Supervisor, Writer, Main, Failure
-----------------------------------------------------------------------------
(* The verdict. *)

\* Who decides, who tells, and that a run once interrupted remains so (unless
\* the close that follows fails).
LEMMA Decisions ==
    Sorts /\ Course /\ [Next]_vars =>
        /\ \/ verdict' = verdict
           \/ verdict = "none" /\ (NothingToDo \/ Report \/ Handle)
        /\ exc = "interrupt" /\ pc # "closing" => exc' = "interrupt"
        /\ told' = told \/ Tell
BY ZenonT(40) DEF Sorts, Course, Before, Capturing, Next, Feed, Arrive, Miss, Supervisor, Wake,
       Subscribe, AuthFails, ConnectFails, ReadToTheEnd, LogGap, Writer, Rotate, Open,
       Write, Finish, Take, Main, Begin, NothingToDo, Start, Stop, StopCloses, Report,
       Handle, Tell, Return, Exit, Decide, Leave, Raise, Failure, Disconnect,
       LogGapRaises, RotateRaises, OpenRaises, WriteRaises, Errs, StopRaises,
       ReportRaises, HandlerRaises, WindowCloses, HourPasses, Interrupt, Kill, vars, main

\* Once a run is decided the capture is behind it: its bars stay where they are.
LEMMA GreenStep ==
    Inv /\ [Next]_vars => Green'
<1> SUFFICES ASSUME Inv, [Next]_vars PROVE Green'
  OBVIOUS
<1> USE DEF Inv, Sorts, Shelves, Course, Before, Capturing, Green
<1>1. ASSUME verdict = "none", verdict' = "none" PROVE Green'
  BY <1>1
<1>2. ASSUME verdict = "none", verdict' # "none" PROVE Green'
  <2>1. CASE NothingToDo
    BY <2>1 DEF NothingToDo, Shelf, Where, Damage, disk
  <2>2. CASE Report
    <3>1. exc = "none" /\ w = "gone" /\ ~fh BY <2>2 DEF Report, Shelf
    <3>2. UNCHANGED <<exc, w, fh, at, torn>> BY <2>2 DEF Report, disk
    <3>3. verdict' = "ok" => wrote /\ ~erred BY <1>2, <2>2 DEF Report, Decide, Good
    <3>4. verdict' = "ok" => ~Damage BY <3>1, <3>3, <2>2 DEF Shelf, Report
    <3>5. verdict' = "ok" => Where({"kept"}) # {}
      BY <3>1, <3>3, <3>4 DEF Shelf, Where, Damage
    <3> QED BY <3>1, <3>2, <3>4, <3>5 DEF Damage, Where
  <2>3. CASE Handle
    <3>1. verdict' = "ok" => exc \in {"interrupt", "exit0"}
      BY <1>2, <2>3 DEF Handle, Decide
    <3>2. UNCHANGED <<exc, w, fh, at, torn>> BY <2>3 DEF Handle, disk
    <3>3. exc = "exit0" => w = "new" /\ ~fh /\ ~Damage
      BY DEF Shelf, Damage, Where
    <3> QED BY <3>1, <3>2, <3>3 DEF Damage, Where
  <2> QED BY <1>2, <2>1, <2>2, <2>3, Decisions
<1>3. ASSUME verdict # "none" PROVE Green'
  <2>1. pc \in {"caught", "tell", "return", "off"} BY <1>3
  <2>2. SUFFICES ASSUME verdict = "ok", exc # "interrupt",
                        w \in {"new", "gone"}, ~fh, ~Damage,
                        w = "gone" => Where({"kept"}) # {},
                        verdict' = "ok", exc' # "interrupt"
                 PROVE  Green'
    <3>1. verdict' = verdict BY <2>1, <1>3, Decisions
    <3>2. exc = "interrupt" => exc' = "interrupt" BY <2>1, Decisions
    <3> QED BY <3>1, <3>2
  <2>3. ASSUME UNCHANGED <<w, fh, at, torn>> PROVE Green'
    BY <2>2, <2>3 DEF Damage, Where
  <2>4. ASSUME NEW c, Exit(c) PROVE Green'
    <3>1. Where({"queue", "hand", "buffer", "open"}) = {}
      BY <2>2 DEF Shelf, Where
    <3>2. at' = at BY <2>4, <3>1 DEF Exit, Where
    <3> QED BY <2>2, <2>4, <3>2 DEF Exit, Damage, Where
  <2>5. CASE Writer \/ HourPasses \/ RotateRaises \/ OpenRaises \/ WriteRaises
    BY <2>2, <2>5 DEF Writer, Rotate, Open, Write, Finish, Take, HourPasses,
                      RotateRaises, OpenRaises, WriteRaises
  <2>6. CASE Return \/ HandlerRaises \/ Kill
    BY <2>4, <2>6 DEF Return, HandlerRaises, Kill
  <2>7. CASE Interrupt BY <2>2, <2>7 DEF Interrupt, Raise
  <2>8. CASE Handle \/ Tell \/ WindowCloses \/ UNCHANGED vars
    BY <2>3, <2>8 DEF Handle, Tell, WindowCloses, vars, disk
  <2> QED
    BY <2>1, <2>5, <2>6, <2>7, <2>8
    DEF Next, Feed, Arrive, Miss, Supervisor, Wake, Subscribe, AuthFails, ConnectFails,
        ReadToTheEnd, LogGap, Main, Begin, NothingToDo, Start, Stop, StopCloses, Report,
        Leave, Failure, Disconnect, LogGapRaises, StopRaises, ReportRaises
<1> QED BY <1>1, <1>2, <1>3

LEMMA Invariance == Spec => []Inv
<1>1. Init => Inv
  <2> SUFFICES ASSUME Init PROVE Inv
    OBVIOUS
  <2> USE DEF Init
  <2>1. Sorts /\ Course /\ Green
    BY DEF Sorts, Course, ExitAgrees, Before, Capturing, Green
  <2>2. Shelves BY DEF Shelves, Places, Where
  <2>3. Flags BY DEF Flags
  <2>4. Shelf BY DEF Shelf, Capturing, Damage, Where
  <2> QED BY <2>1, <2>2, <2>3, <2>4 DEF Inv
<1>2. Inv /\ [Next]_vars => Inv'
  BY SortsStep, FlagsStep, ShelvesStep, CourseStep, ShelfStep, GreenStep DEF Inv
<1> QED BY <1>1, <1>2, PTL DEF Spec
-----------------------------------------------------------------------------
\* The state of a capture keeps its types; the writer has one bar in hand.
THEOREM CaptureTypes == Spec => []TypeOK
<1>1. Inv => TypeOK
  <2> SUFFICES ASSUME Sorts, Shelves, Flags PROVE TypeOK
    BY DEF Inv
  <2>1. at \in [Bars -> Missed \cup {"feed", "queue", "hand", "buffer", "open",
                                   "kept", "twice", "lost"}]
    BY DEF Shelves, Places
  <2> QED BY <2>1 DEF Sorts, Shelves, Flags, TypeOK
<1> QED BY <1>1, Invariance, PTL

\* A green ping stands for a complete capture (GreenIsComplete).
THEOREM GreenTells == Spec => []GreenIsComplete
<1>1. Inv => GreenIsComplete
  <2> SUFFICES ASSUME Inv, told = "ok", exc # "interrupt" PROVE GreenIsComplete
    BY DEF GreenIsComplete
  <2>1. /\ w \in {"new", "gone"} /\ ~fh /\ ~Damage
        /\ w = "gone" => Where({"kept"}) # {}
    BY DEF Inv, Sorts, Green
  <2>2. Where({"queue", "hand", "buffer", "open", "twice", "lost"}) = {}
    BY <2>1 DEF Inv, Shelves, Shelf, Damage, Where
  <2>3. \A b \in Bars : at[b] \in Missed \cup {"feed", "kept"}
    BY <2>2 DEF Inv, Shelves, Places, Where
  <2>4. w # "new" => \E b \in Bars : at[b] = "kept" BY <2>1 DEF Where
  <2> QED BY <2>1, <2>3, <2>4 DEF GreenIsComplete, Damage
<1> QED BY <1>1, Invariance, PTL

\* The exit code agrees with the ping (ExitAgrees).
THEOREM StatusTells == Spec => []ExitAgrees
<1>1. Inv => ExitAgrees BY DEF Inv, Course
<1> QED BY <1>1, Invariance, PTL

\* The first terminal ping stands (VerdictStands).
THEOREM OneVerdict == Spec => VerdictStands
<1>1. Inv /\ [Next]_vars => [told # "none" => told' = told]_vars
  <2> SUFFICES ASSUME Inv, [Next]_vars PROVE [told # "none" => told' = told]_vars
    OBVIOUS
  <2>1. CASE Tell BY <2>1 DEF Tell, Inv, Course
  <2>2. CASE told' = told BY <2>2
  <2>3. CASE UNCHANGED vars BY <2>3
  <2> QED BY <2>1, <2>2, <2>3, Decisions DEF Inv
<1> QED BY <1>1, Invariance, PTL DEF Spec, VerdictStands
=============================================================================
