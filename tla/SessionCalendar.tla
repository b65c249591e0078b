-------------------------- MODULE SessionCalendar --------------------------
(***************************************************************************)
(* The forward half of the session calendar.  holidays_sync fetches the    *)
(* vendor's upcoming closures, lands them raw and replaces holidays.json;  *)
(* every process reads that file through market_gate's cache; and          *)
(* load_session_calendar joins it with the attested history and with the   *)
(* newest raw partition, from which it takes the day of the fetch.  The    *)
(* one process here lives long, gates on the list, and loads calendars.    *)
(***************************************************************************)
EXTENDS Integers, FiniteSets

CONSTANTS LastDay,    \* bound: the last day that comes
          Weekend,    \* Saturdays and Sundays
          Closures,   \* the weekdays the market stays closed
          Halves,     \* the sessions that end at 13:00
          Dates,      \* the --date of a holidays_sync by hand
          MaxSyncs    \* bound: runs of holidays_sync

Days == 1..LastDay

ASSUME CalendarAssumption ==
    /\ LastDay \in Nat /\ MaxSyncs \in Nat
    /\ Weekend \subseteq Days
    /\ Closures \subseteq Days \ Weekend
    /\ Halves \subseteq Days \ (Weekend \cup Closures)
    /\ Dates \subseteq Days

VARIABLES
    today,        \* the day
    announced,    \* the closures and half days the vendor tells of so far
    attested,     \* trading_days.json, by day
    raw,          \* the raw/holidays/dt= partitions
    list, mtime,  \* holidays.json, and when it was replaced; 0: no file
    sync,         \* the holidays_sync under way: where it is, its date, its list
    syncs,        \* the counter MaxSyncs caps
    cache,        \* _holiday_cache: the list and the mtime it is kept under
    call,         \* the call of _load_records under way
    held,         \* what load_session_calendar has read so far
    cal           \* the calendar it built last

writerVars == <<raw, list, mtime, sync, syncs>>
readerVars == <<cache, held, cal>>
vars == <<today, announced, attested, writerVars, call, readerVars>>

\* A list of upcoming closures; day and known are history: the day it was
\* fetched, and all the vendor had announced by then.
NoList  == [closed |-> {}, early |-> {}, day |-> 0, known |-> {}]
List    == [closed : SUBSET Closures, early : SUBSET Halves, day : Days \cup {0},
            known : SUBSET (Closures \cup Halves)]
Answer  == {"session", "closed", "none"}
NoSync  == [at |-> "off", date |-> 0, list |-> NoList]
NoCall  == [for |-> "none", at |-> "off", stat |-> 0, seen |-> {}]
Nothing == [d \in Days |-> "none"]
NotHeld == [sessions |-> Nothing, hol |-> NoList]
NoCal   == [sessions |-> Nothing, hol |-> NoList, half |-> NoList,
            from |-> 1, through |-> 0]

Init ==
    /\ today = 1 /\ announced = {} /\ attested = Nothing
    /\ raw = {} /\ list = NoList /\ mtime = 0
    /\ sync = NoSync /\ syncs = 0
    /\ cache = [known |-> FALSE, mtime |-> 0, list |-> NoList]
    /\ call = NoCall /\ held = NotHeld /\ cal = NoCal
-----------------------------------------------------------------------------
Midnight == /\ today < LastDay /\ today' = today + 1
            /\ UNCHANGED <<announced, attested, writerVars, call, readerVars>>

Announce(d) ==
    /\ d \in (Closures \cup Halves) \ announced /\ d > today
    /\ announced' = announced \cup {d}
    /\ UNCHANGED <<today, attested, writerVars, call, readerVars>>

\* history_audit settles a past weekday (what it gets wrong: SessionHistory).
Attest(d) ==
    /\ d \in Days \ Weekend /\ d < today /\ attested[d] = "none"
    /\ attested' = [attested EXCEPT ![d] = IF d \in Closures THEN "closed" ELSE "session"]
    /\ UNCHANGED <<today, announced, writerVars, call, readerVars>>
-----------------------------------------------------------------------------
\* The vendor names what is ahead of the fetch.
Upcoming == [closed |-> {d \in announced \cap Closures : d >= today},
             early  |-> {d \in announced \cap Halves : d >= today},
             day    |-> today, known |-> announced]

\* The two writes in their order; mutant: the other order.
WritesSwapped == <<"list", "raw">>
Writes == <<"raw", "list">>
Written == sync' = IF sync.at = Writes[1] THEN [sync EXCEPT !.at = Writes[2]] ELSE NoSync

SyncFetch(date) ==
    /\ sync.at = "off" /\ syncs < MaxSyncs /\ syncs' = syncs + 1
    /\ date = today \/ date \in Dates
    /\ sync' = [at |-> Writes[1], date |-> date, list |-> Upcoming]
    /\ UNCHANGED <<today, announced, attested, raw, list, mtime, call, readerVars>>

SyncRaw ==
    /\ sync.at = "raw" /\ raw' = raw \cup {sync.date} /\ Written
    /\ UNCHANGED <<today, announced, attested, list, mtime, syncs, call, readerVars>>

SyncList ==
    /\ sync.at = "list" /\ list' = sync.list /\ mtime' = mtime + 1 /\ Written
    /\ call' = IF call.at = "off" THEN call
               ELSE [call EXCEPT !.seen = @ \cup {sync.list}]
    /\ UNCHANGED <<today, announced, attested, raw, syncs, readerVars>>

\* A failed request or write, or a death: neither is taken back.
SyncDies ==
    /\ sync.at # "off" /\ sync' = NoSync
    /\ UNCHANGED <<today, announced, attested, raw, list, mtime, syncs, call, readerVars>>
-----------------------------------------------------------------------------
\* _load_records: stat; on a mtime the cache does not have, read and cache.
Begin(for) == call' = [for |-> for, stat |-> mtime, seen |-> {list},
                       at |-> IF cache.known /\ cache.mtime = mtime THEN "done" ELSE "read"]

\* Mutant: the mtime is taken once the file has been read.
ReadThenStat ==
    /\ call.at = "read"
    /\ \E l \in call.seen : cache' = [known |-> TRUE, mtime |-> mtime, list |-> l]
    /\ call' = [call EXCEPT !.at = "done"]
    /\ UNCHANGED <<today, announced, attested, writerVars, held, cal>>

Read ==
    /\ call.at = "read"
    /\ cache' = [known |-> TRUE, mtime |-> call.stat, list |-> list]
    /\ call' = [call EXCEPT !.at = "done"]
    /\ UNCHANGED <<today, announced, attested, writerVars, held, cal>>

Returns(for) == call.at = "done" /\ call.for = for

\* A gate: is_trading_day, market_close_et, previous_trading_day.
Gate == /\ call.at = "off" /\ Begin("gate")
        /\ UNCHANGED <<today, announced, attested, writerVars, readerVars>>
Gated == /\ Returns("gate") /\ call' = NoCall
         /\ UNCHANGED <<today, announced, attested, writerVars, readerVars>>

\* load_calendar, which knows nothing while history_audit is rewriting it;
\* then load_holidays, load_early_closes and _newest_raw_partition.
Load ==
    /\ call.at = "off" /\ Begin("holidays")
    /\ held' \in {[NotHeld EXCEPT !.sessions = s] : s \in {attested, Nothing}}
    /\ UNCHANGED <<today, announced, attested, writerVars, cache, cal>>

LoadHolidays ==
    /\ Returns("holidays") /\ Begin("early")
    /\ held' = [held EXCEPT !.hol = cache.list]
    /\ UNCHANGED <<today, announced, attested, writerVars, cache, cal>>

IsLast(d, S) == d \in S /\ \A e \in S : e <= d
Records(hol, half) == hol.closed \cup half.early

\* Nothing is built without a record or without a raw partition.
LoadRaw ==
    /\ Returns("early") /\ call' = NoCall /\ held' = NotHeld
    /\ IF raw = {} \/ Records(held.hol, cache.list) = {} THEN cal' = NoCal
       ELSE \E from, through \in Days :
              /\ IsLast(from, raw) /\ IsLast(through, Records(held.hol, cache.list))
              /\ cal' = [sessions |-> held.sessions, hol |-> held.hol,
                         half |-> cache.list, from |-> from, through |-> through]
    /\ UNCHANGED <<today, announced, attested, writerVars, cache>>

Next ==
    \/ Midnight \/ (\E d \in Days : Announce(d) \/ Attest(d))
    \/ (\E d \in Days : SyncFetch(d)) \/ SyncRaw \/ SyncList \/ SyncDies
    \/ Gate \/ Gated \/ Read \/ Load \/ LoadHolidays \/ LoadRaw

Spec == Init /\ [][Next]_vars
-----------------------------------------------------------------------------
\* SessionCalendar.is_session, is_early_close and sessions_between.
InWindow(c, d)  == c.from <= d /\ d <= c.through

IsSession(c, d) ==
    IF d \in Weekend THEN "closed"
    ELSE IF c.sessions[d] # "none" THEN c.sessions[d]
    ELSE IF ~InWindow(c, d) THEN "raises"
    ELSE IF d \in c.hol.closed THEN "closed" ELSE "session"

IsEarlyClose(c, d) ==
    IF ~InWindow(c, d) THEN "raises"
    ELSE IF IsSession(c, d) = "session" /\ d \in c.half.early THEN "yes" ELSE "no"

Raises == -1

\* Mutant: the interval includes its first day.
SessionsBetweenClosed(c, start, end) ==
    LET count[d \in start..end] ==
          IF d = start THEN IF IsSession(c, d) = "session" THEN 1 ELSE 0
          ELSE IF count[d - 1] = Raises \/ IsSession(c, d) = "raises" THEN Raises
          ELSE count[d - 1] + IF IsSession(c, d) = "session" THEN 1 ELSE 0
    IN  count[end]

SessionsBetween(c, start, end) ==
    LET count[d \in start..end] ==
          IF d = start THEN 0
          ELSE IF count[d - 1] = Raises \/ IsSession(c, d) = "raises" THEN Raises
          ELSE count[d - 1] + IF IsSession(c, d) = "session" THEN 1 ELSE 0
    IN  count[end]
-----------------------------------------------------------------------------
Call == [for : {"none", "gate", "holidays", "early"}, at : {"off", "read", "done"},
         stat : Nat, seen : SUBSET List]

TypeOK ==
    /\ today \in Nat /\ announced \subseteq Closures \cup Halves
    /\ attested \in [Days -> Answer] /\ raw \subseteq Days
    /\ list \in List /\ mtime \in Nat /\ syncs \in 0..MaxSyncs
    /\ sync \in [at : {"off", "raw", "list"}, date : Days \cup {0}, list : List]
    /\ cache \in [known : BOOLEAN, mtime : Nat, list : List]
    /\ call \in Call
    /\ held \in [sessions : [Days -> Answer], hol : List]
    /\ cal \in [sessions : [Days -> Answer], hol : List, half : List,
                from : Days \cup {1}, through : Days \cup {0}]

\* What a call returns is what the file held at some moment of the call,
\* whatever a sync replaced while it ran and whatever was cached under which
\* mtime before.  (_load_records' stat, read and cache)
CallCurrent == call.at = "done" => cache.list \in call.seen

\* A calendar that answers is right as far as the vendor had told: it takes
\* no closure for a session, no session for a closure and no half day for a
\* full one that was announced when the list in hand was fetched.  A sync
\* that dies halfway, that runs while the calendar is loaded, and a closure
\* that has dropped off the window make it refuse instead.
\* (holidays_sync's raw partition before its list; load_session_calendar)
AnswerSound ==
    \A d \in Days :
        /\ IsSession(cal, d) = "session" => d \notin Weekend /\ d \notin cal.hol.known \cap Closures
        /\ IsSession(cal, d) = "closed"  => d \in Weekend \cup Closures
        /\ IsEarlyClose(cal, d) = "no" => d \notin cal.half.known \cap Halves
        /\ IsEarlyClose(cal, d) = "yes" => d \in Halves

\* A count is exact or it is refused.  (sessions_between)
Told(c) == Weekend \cup (c.hol.known \cap Closures) \cup {d \in Days : c.sessions[d] = "closed"}
CountExact ==
    \A s, e \in Days : s <= e =>
        SessionsBetween(cal, s, e) \in
            {Raises, Cardinality({d \in (s + 1)..e : d \notin Told(cal)})}

-----------------------------------------------------------------------------
\* What the documents say and the code does not keep: TLC refutes each, and no
\* run repeats it.

\* The window runs from the day "the holiday list was fetched" to "its last
\* record" (pricing/calendar.py:86): the list whose closures it applies.
WindowIsOneList == cal # NoCal => cal.half = cal.hol
=============================================================================
