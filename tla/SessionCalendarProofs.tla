----------------------- MODULE SessionCalendarProofs -----------------------
(***************************************************************************)
(* The safety properties of SessionCalendar, for every calendar and any    *)
(* number of syncs.                                                        *)
(***************************************************************************)
EXTENDS SessionCalendar, FiniteSetTheorems, WellFoundedInduction, TLAPS

SyncOf == [at : {"off", "raw", "list"}, date : Days \cup {0}, list : List]
CacheOf == [known : BOOLEAN, mtime : Nat, list : List]

LEMMA NoListTyped == NoList \in List
  BY DEF NoList, List

LEMMA UpcomingTyped == ASSUME TypeOK, today \in Days PROVE Upcoming \in List
  BY DEF TypeOK, Upcoming, List

LEMMA BeginTyped ==
    ASSUME TypeOK, NEW for \in {"gate", "holidays", "early"}, Begin(for)
    PROVE  call' \in Call
<1>1. {list} \in SUBSET List
  BY DEF TypeOK
<1> QED
  BY <1>1 DEF TypeOK, Begin, Call

LEMMA TypeInit == Init => TypeOK
<1> SUFFICES ASSUME Init PROVE TypeOK
  OBVIOUS
<1>1. /\ NoSync \in SyncOf /\ cache \in CacheOf /\ NoCall \in Call
  BY NoListTyped DEF Init, NoSync, SyncOf, CacheOf, NoCall, Call
<1>2. Nothing \in [Days -> Answer]
  BY DEF Nothing, Answer
<1>3. NotHeld \in [sessions : [Days -> Answer], hol : List]
  BY <1>2, NoListTyped DEF NotHeld
<1>4. NoCal \in [sessions : [Days -> Answer], hol : List, half : List,
                 from : Days \cup {1}, through : Days \cup {0}]
  BY <1>2, NoListTyped DEF NoCal
<1> QED
  BY <1>1, <1>2, <1>3, <1>4, NoListTyped, CalendarAssumption
     DEF Init, TypeOK, SyncOf, CacheOf

\* The day is one that comes, and a sync under way has a date.
Dated == /\ today >= 1 /\ (today <= LastDay \/ today = 1)
         /\ sync.at # "off" => sync.date \in Days

LEMMA TypeStep == TypeOK /\ Dated /\ [Next]_vars => TypeOK'
<1> SUFFICES ASSUME TypeOK, Dated, [Next]_vars PROVE TypeOK'
  OBVIOUS
<1> USE CalendarAssumption DEF TypeOK
<1>1. CASE Midnight
  BY <1>1 DEF Midnight, writerVars, readerVars
<1>2. ASSUME NEW d \in Days, Announce(d) PROVE TypeOK'
  BY <1>2 DEF Announce, writerVars, readerVars
<1>3. ASSUME NEW d \in Days, Attest(d) PROVE TypeOK'
  <2>1. attested' \in [Days -> Answer]
    BY <1>3 DEF Attest, Answer
  <2> QED
    BY <1>3, <2>1 DEF Attest, writerVars, readerVars
<1>4. ASSUME NEW d \in Days, SyncFetch(d) PROVE TypeOK'
  <2>1. Upcoming \in List
    <3>1. today \in Days
      BY <1>4 DEF Dated, Days
    <3> QED
      BY <3>1, UpcomingTyped
  <2>2. sync' \in SyncOf /\ syncs' \in 0..MaxSyncs
    BY <1>4, <2>1 DEF SyncFetch, SyncOf, Writes
  <2> QED
    BY <1>4, <2>2 DEF SyncFetch, readerVars, SyncOf
<1>5. ASSUME Written PROVE sync' \in SyncOf
  BY <1>5, NoListTyped DEF Written, Writes, NoSync, SyncOf
<1>6. CASE SyncRaw
  BY <1>5, <1>6 DEF SyncRaw, readerVars, SyncOf, Dated
<1>7. CASE SyncList
  BY <1>5, <1>7 DEF SyncList, readerVars, SyncOf, Call
<1>8. CASE SyncDies
  BY <1>8, NoListTyped DEF SyncDies, NoSync, readerVars
<1>9. CASE Gate
  BY <1>9, BeginTyped DEF Gate, writerVars, readerVars
<1>10. NoCall \in Call
  BY DEF NoCall, Call
<1>11. CASE Gated
  BY <1>10, <1>11 DEF Gated, writerVars, readerVars
<1>12. CASE Read
  BY <1>12 DEF Read, writerVars, Call
<1>13. NotHeld \in [sessions : [Days -> Answer], hol : List] /\ Nothing \in [Days -> Answer]
  BY NoListTyped DEF NotHeld, Nothing, Answer
<1>14. CASE Load
  BY <1>13, <1>14, BeginTyped DEF Load, writerVars
<1>15. CASE LoadHolidays
  BY <1>15, BeginTyped DEF LoadHolidays, writerVars
<1>16. CASE LoadRaw
  <2>1. NoCal \in [sessions : [Days -> Answer], hol : List, half : List,
                   from : Days \cup {1}, through : Days \cup {0}]
    BY <1>13, NoListTyped DEF NoCal
  <2> QED
    BY <1>10, <1>13, <1>16, <2>1 DEF LoadRaw, writerVars
<1>17. CASE UNCHANGED vars
  BY <1>17 DEF vars, writerVars, readerVars
<1> QED
  BY <1>1, <1>2, <1>3, <1>4, <1>6, <1>7, <1>8, <1>9, <1>11, <1>12, <1>14,
     <1>15, <1>16, <1>17 DEF Next

LEMMA DatedStep == TypeOK /\ Dated /\ [Next]_vars => Dated'
<1> SUFFICES ASSUME TypeOK, Dated, [Next]_vars PROVE Dated'
  OBVIOUS
<1> USE CalendarAssumption DEF TypeOK, Dated, Days
<1>1. CASE Midnight
  BY <1>1 DEF Midnight, writerVars
<1>2. ASSUME NEW d \in Days, Announce(d) \/ Attest(d) PROVE Dated'
  BY <1>2 DEF Announce, Attest, writerVars
<1>3. ASSUME NEW d \in Days, SyncFetch(d) PROVE Dated'
  BY <1>3 DEF SyncFetch, Writes
<1>4. CASE SyncRaw \/ SyncList \/ SyncDies
  BY <1>4 DEF SyncRaw, SyncList, SyncDies, Written, Writes, NoSync
<1>5. CASE Gate \/ Gated \/ Read \/ Load \/ LoadHolidays \/ LoadRaw
  BY <1>5 DEF Gate, Gated, Read, Load, LoadHolidays, LoadRaw, writerVars
<1>6. CASE UNCHANGED vars
  BY <1>6 DEF vars, writerVars
<1> QED
  BY <1>1, <1>2, <1>3, <1>4, <1>5, <1>6 DEF Next

LEMMA DatedInit == Init => Dated
  BY DEF Init, Dated, NoSync

\* The variables have their types.  (holidays_sync, market_gate,
\* load_session_calendar)
THEOREM TypeCorrect == Spec => []TypeOK
<1>1. Init => TypeOK /\ Dated
  BY TypeInit, DatedInit
<1>2. TypeOK /\ Dated /\ [Next]_vars => (TypeOK /\ Dated)'
  BY TypeStep, DatedStep
<1> QED
  BY <1>1, <1>2, PTL DEF Spec
-----------------------------------------------------------------------------
(***************************************************************************)
(* The cache.  A list kept under the mtime the file has now is what the    *)
(* file says; a call that reads has seen what the file says.               *)
(***************************************************************************)
Fresh == /\ cache.known => cache.mtime <= mtime
         /\ cache.known /\ cache.mtime = mtime => cache.list = list
         /\ call.at = "read" => call.stat <= mtime /\ list \in call.seen
         /\ call.at = "done" => cache.known /\ cache.list \in call.seen

LEMMA BeginFresh ==
    ASSUME TypeOK, Fresh, NEW for, Begin(for), cache' = cache, list' = list, mtime' = mtime
    PROVE  Fresh'
  BY DEF TypeOK, Fresh, Begin

LEMMA FreshInit == Init => Fresh
  BY DEF Init, Fresh, NoCall

LEMMA FreshStep == TypeOK /\ Fresh /\ [Next]_vars => Fresh'
<1> SUFFICES ASSUME TypeOK, Fresh, [Next]_vars PROVE Fresh'
  OBVIOUS
<1>1. CASE UNCHANGED <<list, mtime, cache, call>>
  BY <1>1 DEF Fresh
<1>2. CASE SyncList
  <2>1. mtime' = mtime + 1 /\ list' = sync.list /\ cache' = cache
    BY <1>2 DEF SyncList, readerVars
  <2>2. CASE call.at = "off"
    BY <1>2, <2>1, <2>2 DEF SyncList, TypeOK, Fresh
  <2>3. CASE call.at # "off"
    <3>1. call' = [call EXCEPT !.seen = @ \cup {sync.list}]
      BY <1>2, <2>3 DEF SyncList
    <3>2. /\ call'.at = call.at /\ call'.stat = call.stat
          /\ call'.seen = call.seen \cup {sync.list}
      BY <3>1 DEF TypeOK, Call
    <3> QED
      BY <2>1, <3>2 DEF TypeOK, Fresh, Call
  <2> QED
    BY <2>2, <2>3
<1>3. CASE Read
  <2>1. /\ cache' = [known |-> TRUE, mtime |-> call.stat, list |-> list]
        /\ call'.at = "done" /\ call'.seen = call.seen
        /\ list' = list /\ mtime' = mtime /\ call.at = "read"
    BY <1>3 DEF Read, TypeOK, Call, writerVars
  <2> QED
    BY <2>1 DEF Fresh
<1>4. CASE Gate \/ Load \/ LoadHolidays
  BY <1>4, BeginFresh DEF Gate, Load, LoadHolidays, writerVars, readerVars
<1>5. CASE Gated \/ LoadRaw
  BY <1>5 DEF Gated, LoadRaw, writerVars, readerVars, NoCall, Fresh
<1> QED
  BY <1>1, <1>2, <1>3, <1>4, <1>5
     DEF Next, vars, writerVars, readerVars, Midnight, Announce, Attest, SyncFetch,
         SyncRaw, SyncDies

\* What a call of _load_records returns is what the file held during the
\* call.
THEOREM Currency == Spec => []CallCurrent
<1>1. Init => TypeOK /\ Dated /\ Fresh
  BY TypeInit, DatedInit, FreshInit
<1>2. TypeOK /\ Dated /\ Fresh /\ [Next]_vars => (TypeOK /\ Dated /\ Fresh)'
  BY TypeStep, DatedStep, FreshStep
<1>3. Fresh => CallCurrent
  BY DEF Fresh, CallCurrent
<1> QED
  BY <1>1, <1>2, <1>3, PTL DEF Spec
-----------------------------------------------------------------------------
(***************************************************************************)
(* Answers.  Every list lists what had been announced from its day on, and *)
(* the raw partition of its day is there before the list is: the newest    *)
(* partition, from which a calendar starts, is no older than its lists.    *)
(***************************************************************************)
Formed(l) == /\ l.closed = {d \in l.known \cap Closures : d >= l.day}
             /\ l.early  = {d \in l.known \cap Halves : d >= l.day}
Backed(l) == Formed(l) /\ (l.day = 0 \/ l.day \in raw)
Honest(s) == \A d \in Days : /\ s[d] = "session" => d \notin Closures
                             /\ s[d] = "closed"  => d \in Closures

Settled == Honest(attested) /\ Honest(held.sessions) /\ Honest(cal.sessions)
Pending == /\ Formed(sync.list)
           /\ sync.at # "off" => sync.list.day = sync.date
           /\ sync.at = "list" => sync.date \in raw
Landed  == Backed(list) /\ Backed(cache.list) /\ Backed(held.hol)
Windowed == /\ Formed(cal.hol) /\ cal.hol.day <= cal.from
            /\ Formed(cal.half) /\ cal.half.day <= cal.from
Sourced == Settled /\ Pending /\ Landed /\ Windowed

LEMMA NothingKnown == Honest(Nothing) /\ Backed(NoList) /\ NoList.day = 0
  BY DEF Honest, Nothing, Backed, Formed, NoList

LEMMA SourcedInit == Init => Sourced
  BY NothingKnown
     DEF Init, Sourced, Settled, Pending, Landed, Windowed, Backed, NotHeld, NoCal, NoSync

LEMMA Sources ==
    ASSUME TypeOK, Dated, Sourced, Dates = {}, [Next]_vars
    PROVE  Sourced'
<1> USE CalendarAssumption
<1>1. CASE UNCHANGED <<attested, raw, list, sync, cache, held, cal>>
  BY <1>1 DEF Sourced, Settled, Pending, Landed, Windowed, Backed
<1>2. ASSUME NEW d \in Days, Attest(d) PROVE Sourced'
  <2>1. Honest(attested')
    BY <1>2 DEF Attest, Honest, Sourced, Settled, TypeOK
  <2>2. UNCHANGED <<raw, list, sync, cache, held, cal>>
    BY <1>2 DEF Attest, writerVars, readerVars
  <2> QED
    BY <2>1, <2>2 DEF Sourced, Settled, Pending, Landed, Windowed, Backed
<1>3. ASSUME NEW d \in Days, SyncFetch(d) PROVE Sourced'
  <2>1. /\ sync'.list = Upcoming /\ sync'.date = today /\ sync'.at = "raw"
        /\ UNCHANGED <<attested, raw, list, cache, held, cal>>
    BY <1>3 DEF SyncFetch, Writes, readerVars
  <2>2. Formed(Upcoming) /\ Upcoming.day = today
    BY DEF Formed, Upcoming
  <2> QED
    BY <2>1, <2>2 DEF Sourced, Settled, Pending, Landed, Windowed, Backed
<1>4. CASE SyncRaw
  <2>1. /\ raw' = raw \cup {sync.date} /\ sync' = [sync EXCEPT !.at = "list"]
        /\ UNCHANGED <<attested, list, cache, held, cal>>
    BY <1>4 DEF SyncRaw, Written, Writes, readerVars
  <2>2. /\ sync'.list = sync.list /\ sync'.date = sync.date /\ sync.at = "raw"
    BY <1>4, <2>1 DEF TypeOK, SyncRaw
  <2> QED
    BY <2>1, <2>2 DEF Sourced, Settled, Pending, Landed, Windowed, Backed
<1>5. CASE SyncList
  <2>1. /\ list' = sync.list /\ sync.at = "list" /\ sync' = NoSync
        /\ UNCHANGED <<attested, raw, cache, held, cal>>
    BY <1>5 DEF SyncList, Written, Writes, readerVars
  <2>2. Backed(sync.list)
    BY <2>1 DEF Sourced, Pending, Backed
  <2> QED
    BY <2>1, <2>2, NothingKnown
       DEF Sourced, Settled, Pending, Landed, Windowed, Backed, NoSync
<1>6. CASE SyncDies
  BY <1>6, NothingKnown
     DEF SyncDies, readerVars, Sourced, Settled, Pending, Landed, Windowed, Backed, NoSync
<1>7. CASE Read
  BY <1>7 DEF Read, writerVars, Sourced, Settled, Pending, Landed, Windowed, Backed
<1>8. CASE Load
  <2>1. /\ UNCHANGED <<attested, raw, list, sync, cache, cal>>
        /\ held'.hol = NoList /\ held'.sessions \in {attested, Nothing}
    BY <1>8 DEF Load, writerVars, NotHeld
  <2> QED
    BY <2>1, NothingKnown DEF Sourced, Settled, Pending, Landed, Windowed, Backed
<1>9. CASE LoadHolidays
  <2>1. /\ UNCHANGED <<attested, raw, list, sync, cache, cal>>
        /\ held'.hol = cache.list /\ held'.sessions = held.sessions
    BY <1>9 DEF LoadHolidays, writerVars, TypeOK
  <2> QED
    BY <2>1 DEF Sourced, Settled, Pending, Landed, Windowed, Backed
<1>10. CASE LoadRaw
  <2>1. /\ UNCHANGED <<attested, raw, list, sync, cache>> /\ held' = NotHeld
    BY <1>10 DEF LoadRaw, writerVars
  <2>2. Honest(cal'.sessions) /\ Windowed'
    <3>1. CASE cal' = NoCal
      BY <3>1, NothingKnown DEF NoCal, Windowed, Backed
    <3>2. CASE cal' # NoCal
      <4>1. PICK from, through \in Days :
               /\ IsLast(from, raw)
               /\ cal' = [sessions |-> held.sessions, hol |-> held.hol,
                          half |-> cache.list, from |-> from, through |-> through]
        BY <1>10, <3>2 DEF LoadRaw
      <4>2. \A l \in List : Backed(l) => l.day <= from
        BY <4>1 DEF Backed, IsLast, List, Days, TypeOK
      <4> QED
        BY <4>1, <4>2 DEF Sourced, Settled, Landed, Windowed, Backed, TypeOK
    <3> QED
      BY <3>1, <3>2
  <2> QED
    BY <2>1, <2>2, NothingKnown DEF Sourced, Settled, Pending, Landed, Backed, NotHeld
<1> QED
  BY <1>1, <1>2, <1>3, <1>4, <1>5, <1>6, <1>7, <1>8, <1>9, <1>10
     DEF Next, vars, writerVars, readerVars, Midnight, Announce, Gate, Gated

LEMMA SourcedSound == TypeOK /\ Sourced => AnswerSound
<1> SUFFICES ASSUME TypeOK, Sourced, NEW d \in Days
             PROVE /\ IsSession(cal, d) = "session" =>
                          d \notin Weekend /\ d \notin cal.hol.known \cap Closures
                   /\ IsSession(cal, d) = "closed"  => d \in Weekend \cup Closures
                   /\ IsEarlyClose(cal, d) = "no" => d \notin cal.half.known \cap Halves
                   /\ IsEarlyClose(cal, d) = "yes" => d \in Halves
  BY DEF AnswerSound
<1> USE CalendarAssumption
<1>1. /\ cal.hol \in List /\ cal.half \in List
      /\ cal.sessions[d] \in Answer /\ cal.from \in Nat /\ cal.through \in Nat
      /\ d \in Nat /\ cal.hol.day \in Nat /\ cal.half.day \in Nat
  BY DEF TypeOK, List, Days
<1>2. InWindow(cal, d) /\ d \in cal.hol.known \cap Closures => d \in cal.hol.closed
  BY <1>1 DEF InWindow, Sourced, Windowed, Formed
<1>3. InWindow(cal, d) /\ d \in cal.half.known \cap Halves => d \in cal.half.early
  BY <1>1 DEF InWindow, Sourced, Windowed, Formed
<1>4. IsSession(cal, d) = "session" =>
         d \notin Weekend /\ d \notin cal.hol.known \cap Closures
  BY <1>1, <1>2 DEF IsSession, Sourced, Settled, Honest, Answer
<1>5. IsSession(cal, d) = "closed" => d \in Weekend \cup Closures
  BY <1>1 DEF IsSession, Sourced, Settled, Honest, Answer, List
<1>6. d \in Halves /\ InWindow(cal, d) => IsSession(cal, d) = "session"
  BY <1>1 DEF IsSession, Sourced, Settled, Honest, Answer, List
<1>7. IsEarlyClose(cal, d) = "no" => d \notin cal.half.known \cap Halves
  BY <1>3, <1>6 DEF IsEarlyClose
<1>8. IsEarlyClose(cal, d) = "yes" => d \in Halves
  BY <1>1 DEF IsEarlyClose, List
<1> QED
  BY <1>4, <1>5, <1>7, <1>8

\* Where no sync is run under another day's date, a calendar that answers is
\* right as far as the vendor had told.
THEOREM Soundness == ASSUME Dates = {} PROVE Spec => []AnswerSound
<1>1. Init => TypeOK /\ Dated /\ Sourced
  BY TypeInit, DatedInit, SourcedInit
<1>2. TypeOK /\ Dated /\ Sourced /\ [Next]_vars => (TypeOK /\ Dated /\ Sourced)'
  BY TypeStep, DatedStep, Sources
<1>3. TypeOK /\ Sourced => AnswerSound
  BY SourcedSound
<1> QED
  BY <1>1, <1>2, <1>3, PTL DEF Spec
-----------------------------------------------------------------------------
(***************************************************************************)
(* Counts.  The loop of sessions_between adds one for a session and gives  *)
(* up at the first day it has no answer for; what it comes to is a         *)
(* cardinality, by the least day at which the two would differ.            *)
(***************************************************************************)
Tally(c, start, d) ==
    IF \E x \in (start + 1)..d : IsSession(c, x) = "raises" THEN Raises
    ELSE Cardinality({x \in (start + 1)..d : IsSession(c, x) = "session"})

Loop(c, start, end, count) ==
    count = [d \in start..end |->
                IF d = start THEN 0
                ELSE IF count[d - 1] = Raises \/ IsSession(c, d) = "raises" THEN Raises
                ELSE count[d - 1] + IF IsSession(c, d) = "session" THEN 1 ELSE 0]

LEMMA TallyStart ==
    ASSUME NEW c, NEW start \in Nat
    PROVE  Tally(c, start, start) = 0
<1>1. (start + 1)..start = {}
  OBVIOUS
<1>2. {x \in (start + 1)..start : IsSession(c, x) = "session"} = {}
  BY <1>1
<1> QED
  BY <1>1, <1>2, FS_EmptySet DEF Tally

\* The tally is zero or more, or it is refused.
LEMMA TallyCounts ==
    ASSUME NEW c, NEW start \in Nat, NEW d \in Nat
    PROVE  Tally(c, start, d) # Raises =>
               Tally(c, start, d) \in Nat
<1>1. /\ IsFiniteSet((start + 1)..d)
      /\ {x \in (start + 1)..d : IsSession(c, x) = "session"} \in SUBSET ((start + 1)..d)
  BY FS_Interval
<1>2. Cardinality({x \in (start + 1)..d : IsSession(c, x) = "session"}) \in Nat
  BY <1>1, FS_Subset, FS_CardinalityType
<1> QED
  BY <1>2 DEF Tally

LEMMA TallyGrows ==
    ASSUME NEW c, NEW start \in Nat, NEW d \in Nat, start < d
    PROVE  Tally(c, start, d) =
             IF Tally(c, start, d - 1) = Raises \/ IsSession(c, d) = "raises" THEN Raises
             ELSE Tally(c, start, d - 1) + IF IsSession(c, d) = "session" THEN 1 ELSE 0
<1> DEFINE S(e) == {x \in (start + 1)..e : IsSession(c, x) = "session"}
           R(e) == \E x \in (start + 1)..e : IsSession(c, x) = "raises"
<1>1. (start + 1)..d = ((start + 1)..(d - 1)) \cup {d} /\ d - 1 \in Nat
  OBVIOUS
<1>2. R(d) <=> R(d - 1) \/ IsSession(c, d) = "raises"
  BY <1>1
<1>3. IsFiniteSet(S(d - 1)) /\ Cardinality(S(d - 1)) \in Nat
  <2>1. /\ IsFiniteSet((start + 1)..(d - 1))
        /\ S(d - 1) \in SUBSET ((start + 1)..(d - 1))
    BY FS_Interval, <1>1
  <2> QED
    BY <2>1, FS_Subset, FS_CardinalityType
<1>4. ASSUME IsSession(c, d) = "session" PROVE Cardinality(S(d)) = Cardinality(S(d - 1)) + 1
  <2>1. d \notin S(d - 1)
    OBVIOUS
  <2>2. S(d) = S(d - 1) \cup {d}
    BY <1>1, <1>4
  <2> HIDE DEF S
  <2> QED
    BY <1>3, <2>1, <2>2, FS_AddElement
<1>5. ASSUME IsSession(c, d) # "session" PROVE S(d) = S(d - 1)
  BY <1>1, <1>5
<1>6. \A e : Tally(c, start, e) = IF R(e) THEN Raises ELSE Cardinality(S(e))
  BY DEF Tally
<1>7. Raises \notin Nat
  BY DEF Raises
<1> HIDE DEF S, R
<1>8. Tally(c, start, d) = IF R(d) THEN Raises ELSE Cardinality(S(d))
  BY <1>6
<1>9. Tally(c, start, d - 1) = IF R(d - 1) THEN Raises ELSE Cardinality(S(d - 1))
  BY <1>6
<1>10. CASE R(d)
  <2>1. Tally(c, start, d) = Raises
    BY <1>8, <1>10
  <2>2. Tally(c, start, d - 1) = Raises \/ IsSession(c, d) = "raises"
    BY <1>2, <1>9, <1>10
  <2> QED
    BY <2>1, <2>2
<1>11. CASE ~R(d) /\ IsSession(c, d) = "session"
  <2>1. ~R(d - 1) /\ Tally(c, start, d - 1) # Raises
    BY <1>2, <1>3, <1>7, <1>9, <1>11
  <2>2. Tally(c, start, d) = Tally(c, start, d - 1) + 1
    BY <1>4, <1>8, <1>9, <1>11, <2>1
  <2> QED
    BY <1>11, <2>1, <2>2
<1>12. CASE ~R(d) /\ IsSession(c, d) # "session"
  <2>1. ~R(d - 1) /\ Tally(c, start, d - 1) # Raises /\ IsSession(c, d) # "raises"
    BY <1>2, <1>3, <1>7, <1>9, <1>12
  <2>2. Tally(c, start, d) = Tally(c, start, d - 1)
    BY <1>5, <1>8, <1>9, <1>12, <2>1
  <2>3. Tally(c, start, d - 1) \in Nat
    BY <1>3, <1>9, <2>1
  <2> QED
    BY <1>12, <2>1, <2>2, <2>3
<1> QED
  BY <1>10, <1>11, <1>12

\* Whatever runs through the loop comes to the tally.
LEMMA LoopTallies ==
    ASSUME NEW c, NEW start \in Nat, NEW end \in Nat, NEW count, Loop(c, start, end, count)
    PROVE  \A d \in start..end : count[d] = Tally(c, start, d)
<1> DEFINE Wrong == {d \in start..end : count[d] # Tally(c, start, d)}
<1> SUFFICES ASSUME Wrong # {} PROVE FALSE
  OBVIOUS
<1>1. PICK m \in Wrong : \A d \in Wrong : <<d, m>> \notin OpToRel(<, Nat)
  <2>1. Wrong \subseteq Nat
    OBVIOUS
  <2> HIDE DEF Wrong
  <2> QED
    BY <2>1, WFMin, NatLessThanWellFounded, Zenon
<1>2. m \in start..end /\ m \in Nat
  OBVIOUS
<1>3. \A d \in Wrong : ~(d < m)
  <2> SUFFICES ASSUME NEW d \in Wrong, d < m PROVE FALSE
    OBVIOUS
  <2>1. d \in Nat
    OBVIOUS
  <2> HIDE DEF Wrong
  <2> QED
    BY <1>1, <1>2, <2>1, Zenon DEF OpToRel
<1>4. CASE m = start
  BY <1>2, <1>4, TallyStart DEF Loop
<1>5. CASE m # start
  <2>1. m - 1 \in start..end /\ start < m /\ m - 1 < m
    BY <1>2, <1>5
  <2>2. count[m - 1] = Tally(c, start, m - 1)
    BY <1>3, <2>1
  <2>3. count[m] =
          IF count[m - 1] = Raises \/ IsSession(c, m) = "raises" THEN Raises
          ELSE count[m - 1] + IF IsSession(c, m) = "session" THEN 1 ELSE 0
    BY <1>2, <1>5 DEF Loop
  <2>4. count[m] = Tally(c, start, m)
    BY <1>2, <2>1, <2>2, <2>3, TallyGrows
  <2> QED
    BY <2>4
<1> QED
  BY <1>4, <1>5

\* What the loop returns: a refusal where a day of the interval has no answer,
\* else the number of its days that are sessions.
LEMMA LoopReturns ==
    ASSUME NEW c, NEW start \in Nat, NEW end \in Nat, start <= end
    PROVE  SessionsBetween(c, start, end) = Tally(c, start, end)
<1> DEFINE tally == [d \in start..end |-> Tally(c, start, d)]
           found == CHOOSE count : Loop(c, start, end, count)
<1>1. Loop(c, start, end, tally)
  <2>1. ASSUME NEW d \in start..end
        PROVE  tally[d] =
                 IF d = start THEN 0
                 ELSE IF tally[d - 1] = Raises \/ IsSession(c, d) = "raises" THEN Raises
                 ELSE tally[d - 1] + IF IsSession(c, d) = "session" THEN 1 ELSE 0
    <3>1. CASE d = start
      BY <3>1, TallyStart
    <3>2. CASE d # start
      <4>1. d - 1 \in start..end /\ start < d /\ d \in Nat
        BY <3>2
      <4>2. tally[d - 1] = Tally(c, start, d - 1) /\ tally[d] = Tally(c, start, d)
        BY <4>1
      <4> HIDE DEF tally
      <4> QED
        BY <3>2, <4>1, <4>2, TallyGrows
    <3> QED
      BY <3>1, <3>2
  <2> QED
    BY <2>1 DEF Loop
<1>2. Loop(c, start, end, found)
  BY <1>1
<1>3. SessionsBetween(c, start, end) = found[end]
  BY DEF SessionsBetween, Loop
<1> HIDE DEF found
<1> QED
  BY <1>2, <1>3, LoopTallies

\* A day the calendar answers is a session just when nothing told it that the
\* market is closed.
LEMMA AnswersTold ==
    ASSUME TypeOK, Sourced, NEW d \in Days, IsSession(cal, d) # "raises"
    PROVE  IsSession(cal, d) = "session" <=> d \notin Told(cal)
<1> USE CalendarAssumption
<1>1. /\ cal.hol \in List /\ cal.sessions[d] \in Answer
      /\ cal.from \in Nat /\ cal.hol.day \in Nat /\ d \in Nat
  BY DEF TypeOK, List, Days
<1>2. IsSession(cal, d) = "session" =>
         d \notin Weekend /\ d \notin cal.hol.known \cap Closures
  BY SourcedSound DEF AnswerSound
<1>3. cal.hol.closed = {x \in cal.hol.known \cap Closures : x >= cal.hol.day}
  BY DEF Sourced, Windowed, Formed
<1> QED
  BY <1>1, <1>2, <1>3 DEF IsSession, Told, Answer

\* Where no sync is run under another day's date, the number of sessions that
\* sessions_between returns is the number of days nobody had told it were
\* closed, or it is refused.  (sessions_between)
THEOREM CountsAreExact == ASSUME Dates = {} PROVE Spec => []CountExact
<1>1. Init => TypeOK /\ Dated /\ Sourced
  BY TypeInit, DatedInit, SourcedInit
<1>2. TypeOK /\ Dated /\ Sourced /\ [Next]_vars => (TypeOK /\ Dated /\ Sourced)'
  BY TypeStep, DatedStep, Sources
<1>3. TypeOK /\ Sourced => CountExact
  <2> SUFFICES ASSUME TypeOK, Sourced, NEW s \in Days, NEW e \in Days, s <= e
               PROVE  SessionsBetween(cal, s, e) \in
                        {Raises, Cardinality({d \in (s + 1)..e : d \notin Told(cal)})}
    BY DEF CountExact
  <2>1. s \in Nat /\ e \in Nat /\ (s + 1)..e \subseteq Days
    BY CalendarAssumption DEF Days
  <2>2. SessionsBetween(cal, s, e) = Tally(cal, s, e)
    BY <2>1, LoopReturns
  <2>3. ASSUME ~\E x \in (s + 1)..e : IsSession(cal, x) = "raises"
        PROVE  {x \in (s + 1)..e : IsSession(cal, x) = "session"}
                 = {d \in (s + 1)..e : d \notin Told(cal)}
    BY <2>1, <2>3, AnswersTold
  <2> QED
    BY <2>2, <2>3 DEF Tally
<1> QED
  BY <1>1, <1>2, <1>3, PTL DEF Spec
=============================================================================
