--------------------------- MODULE SessionHistory ---------------------------
(***************************************************************************)
(* The archive over many days, and who notices its holes: flatfile_pull    *)
(* with its cutoff, its restarts and its sweep over recent days;           *)
(* history_audit with the calendar it accumulates in trading_days.json;    *)
(* and a vendor that publishes each session's files late, in any order.    *)
(* Days are weekdays, in order.  What a pull does to one partition is      *)
(* FlatfileArchive; here a pull of one file is two steps, the parquet and  *)
(* the manifest row.  --dry-run writes nothing and is left out.            *)
(***************************************************************************)
EXTENDS Naturals, FiniteSets

CONSTANTS LastDay,    \* bound: the last day that comes
          Sessions,   \* the days the market opens
          Listed,     \* closures holidays.json knows of when it is asked
          Datasets,   \* 1..n in the order of DATASETS; 1 is trades_v1
          Blank,      \* <<day, dataset>> whose file keeps no row
          Lookback,   \* BACKFILL_LOOKBACK
          ByHand,     \* bound: the --start and --end of hand-run audits
          MaxFaults   \* bound: kills, failed downloads, unanswered probes

Days   == 1..LastDay
Oracle == 1           \* ORACLE_DATASET, SESSION_ORACLE

ASSUME HistoryAssumption ==
    /\ LastDay \in Nat
    /\ Sessions \subseteq Days
    /\ Listed \subseteq Days \ Sessions
    /\ Datasets \subseteq Nat /\ Oracle \in Datasets
    /\ Blank \subseteq Days \X Datasets
    /\ Lookback \in Nat
    /\ ByHand \subseteq Days \X Days
    /\ MaxFaults \in Nat

VARIABLES
    today,            \* the day
    published,        \* <<day, dataset>> the vendor serves
    raw,              \* days with a raw/flatfiles/trades_v1/dt= directory
    part,             \* datasets whose clean partition has rows, by day
    manifest,         \* datasets in flatfile_manifest.json, by day
    todo,             \* the pull under way: what is left of it
    cal, torn,                     \* trading_days.json, cut by a death or not
    mem, cursor, until, bad,   \* the audit under way: its copy, its day (0 when
                      \* none is), its last day, its BAD days
    red,              \* days some audit has failed over
    faults,           \* the counter MaxFaults caps
    excused           \* history: sessions a probe took for closed

pullVars == <<raw, part, manifest, todo>>
calVars  == <<cal, torn>>
auditVars == <<mem, cursor, until, bad, red, excused>>
vars == <<today, published, pullVars, calVars, auditVars, faults>>

Answer == {"session", "closed", "unknown"}

Rows(d, i)     == IF <<d, i>> \in Blank THEN {} ELSE {i}
IsLast(d, S)   == d \in S /\ \A e \in S : e <= d
IsFirst(d, S)  == d \in S /\ \A e \in S : d <= e
\* previous_trading_day: holidays.json and weekends are all it knows.
IsPrevious(d)  == IsLast(d, {e \in Days \ Listed : e < today})
Before(x, y)   == x[1] < y[1] \/ (x[1] = y[1] /\ x[2] <= y[2])
IsNext(x)      == x \in todo /\ \A y \in todo : Before(x, y)
Fault          == faults < MaxFaults /\ faults' = faults + 1

Init ==
    /\ today = 1 /\ published = {}
    /\ raw = {} /\ part = [d \in Days |-> {}] /\ manifest = [d \in Days |-> {}]
    /\ todo = {}
    /\ cal = [d \in Days |-> "unknown"] /\ torn = FALSE
    /\ mem = [d \in Days |-> "unknown"]
    /\ cursor = 0 /\ until = 0 /\ bad = {} /\ red = {} /\ excused = {}
    /\ faults = 0
-----------------------------------------------------------------------------
Midnight == /\ today < LastDay /\ today' = today + 1
            /\ UNCHANGED <<published, pullVars, calVars, auditVars, faults>>

\* The vendor publishes a file of a session that is over, whenever it likes.
Publish(d, i) ==
    /\ d \in Sessions /\ d < today /\ <<d, i>> \notin published
    /\ published' = published \cup {<<d, i>>}
    /\ UNCHANGED <<today, pullVars, calVars, auditVars, faults>>

\* trades_watchlist lands trades of the session under way in option_trades.
Capture ==
    /\ today \in Sessions /\ Oracle \notin part[today]
    /\ part' = [part EXCEPT ![today] = @ \cup {Oracle}]
    /\ UNCHANGED <<today, published, raw, manifest, todo, calVars, auditVars, faults>>
-----------------------------------------------------------------------------
\* Mutant of Known: sessions are taken from the oracle dataset alone.
KnownByOracle(before)  == {d \in Days : d < before /\ Oracle \in manifest[d]}

\* incomplete_recent_days: of the last Lookback days before the target with
\* anything in the manifest, what each still lacks.
Known(before)  == {d \in Days : d < before /\ manifest[d] # {}}
Recent(before) == {d \in Known(before) :
                      Cardinality({e \in Known(before) : e > d}) < Lookback}
Incomplete(before) == {x \in Recent(before) \X Datasets : x[2] \notin manifest[x[1]]}

Launch(work) ==
    /\ todo = {} /\ todo' = {x \in work : x[2] \notin manifest[x[1]]}
    /\ UNCHANGED <<today, published, raw, part, manifest, calVars, auditVars, faults>>

\* The timer, a restart by the unit, or a run by hand without --date: the
\* sweep over recent days first, then the previous trading day.
PullDaily == \E d \in Days :
    IsPrevious(d) /\ Launch(Incomplete(d) \cup ({d} \X Datasets))

\* A run by hand for one day, without the sweep.
PullDate(d) == d < today /\ d \notin Listed /\ Launch({d} \X Datasets)

\* A 404.  An older day is ABSENT at once; the newest is waited for until
\* RETRY_UNTIL_ET, which comes whenever it likes, and is then LATE.
Missing(d, i) ==
    /\ IsNext(<<d, i>>) /\ <<d, i>> \notin published
    /\ todo' = todo \ {<<d, i>>}
    /\ UNCHANGED <<today, published, raw, part, manifest, calVars, auditVars, faults>>

\* Downloaded, filtered, written and recorded.
Land(d, i) ==
    /\ IsNext(<<d, i>>) /\ <<d, i>> \in published
    /\ raw' = IF i = Oracle THEN raw \cup {d} ELSE raw
    /\ part' = [part EXCEPT ![d] = @ \cup Rows(d, i)]
    /\ manifest' = [manifest EXCEPT ![d] = @ \cup {i}]
    /\ todo' = todo \ {<<d, i>>}
    /\ UNCHANGED <<today, published, calVars, auditVars, faults>>

\* A download, its gzip test, its parsing or a write fails, or the process is
\* killed, perhaps with the parquet there and no manifest row.  The exception
\* leaves _main, whichever day the file belongs to.
PullFails(d, i) ==
    /\ IsNext(<<d, i>>) /\ <<d, i>> \in published
    /\ Fault /\ todo' = {}
    /\ \/ UNCHANGED <<raw, part>>
       \/ /\ raw' = IF i = Oracle THEN raw \cup {d} ELSE raw
          /\ part' \in {part, [part EXCEPT ![d] = @ \cup Rows(d, i)]}
    /\ UNCHANGED <<today, published, manifest, calVars, auditVars>>
-----------------------------------------------------------------------------
AuditOff == /\ mem' = [d \in Days |-> "unknown"]
            /\ cursor' = 0 /\ until' = 0 /\ bad' = {}

\* load_calendar knows nothing when the file does not parse.
AuditBegins(first, last) ==
    /\ cursor = 0
    /\ cursor' = first /\ until' = last /\ bad' = {}
    /\ mem' = IF torn THEN [d \in Days |-> "unknown"] ELSE cal
    /\ UNCHANGED <<today, published, pullVars, calVars, red, excused, faults>>

\* The timer: from the oldest raw day to the previous trading day.
AuditWeekly == \E first \in raw, last \in Days :
    IsFirst(first, raw) /\ IsPrevious(last) /\ AuditBegins(first, last)
\* By hand: --start and --end.
AuditRange(first, last) == <<first, last>> \in ByHand /\ last < today /\ AuditBegins(first, last)

Turn == cursor # 0 /\ cursor <= until
Step == /\ cursor' = cursor + 1
        /\ UNCHANGED <<today, published, pullVars, calVars, until, red>>

\* Mutant of AuditPresent: a PARTIAL day does not override the calendar.
AuditPresentTimid ==
    /\ Turn /\ part[cursor] # {}
    /\ mem' = IF part[cursor] = Datasets \/ mem[cursor] = "unknown"
              THEN [mem EXCEPT ![cursor] = "session"] ELSE mem
    /\ bad' = IF part[cursor] = Datasets \/ mem[cursor] = "closed"
              THEN bad ELSE bad \cup {cursor}
    /\ UNCHANGED <<excused, faults>> /\ Step

\* Some dataset has rows: a session, complete or PARTIAL.
AuditPresent ==
    /\ Turn /\ part[cursor] # {}
    /\ mem' = [mem EXCEPT ![cursor] = "session"]
    /\ bad' = IF part[cursor] = Datasets THEN bad ELSE bad \cup {cursor}
    /\ UNCHANGED <<excused, faults>> /\ Step

\* Nothing there, and the calendar has an answer: GAP or HOLIDAY.
AuditKnown ==
    /\ Turn /\ part[cursor] = {} /\ mem[cursor] # "unknown"
    /\ bad' = IF mem[cursor] = "session" THEN bad \cup {cursor} ELSE bad
    /\ UNCHANGED <<mem, excused, faults>> /\ Step

\* Nothing there and no answer: HEAD decides, a 404 for good.
AuditProbe ==
    /\ Turn /\ part[cursor] = {} /\ mem[cursor] = "unknown"
    /\ LET there == <<cursor, Oracle>> \in published
       IN  /\ mem' = [mem EXCEPT ![cursor] = IF there THEN "session" ELSE "closed"]
           /\ bad' = IF there THEN bad \cup {cursor} ELSE bad
           /\ excused' = IF ~there /\ cursor \in Sessions
                         THEN excused \cup {cursor} ELSE excused
    /\ UNCHANGED faults /\ Step

\* Mutants of AuditUnanswered: any failure is a 404; None is cached too.
Unanswered(answer) ==
    /\ Turn /\ part[cursor] = {} /\ mem[cursor] = "unknown" /\ Fault
    /\ mem' = [mem EXCEPT ![cursor] = answer]
    /\ UNCHANGED <<bad, excused>> /\ Step
AuditUnansweredAsClosed == Unanswered("closed")
AuditUnansweredCached   == Unanswered("none")

\* A 403, a network failure or --offline: UNKNOWN, which fails nothing.
AuditUnanswered ==
    /\ Turn /\ part[cursor] = {} /\ mem[cursor] = "unknown" /\ Fault
    /\ UNCHANGED <<mem, bad, excused>> /\ Step

\* The calendar is saved; HistoryGapError if any day is BAD.
AuditEnds ==
    /\ cursor > until /\ AuditOff
    /\ cal' = mem /\ torn' = FALSE /\ red' = red \cup bad
    /\ UNCHANGED <<today, published, pullVars, excused, faults>>

\* save_calendar truncates the file and then writes it: a death between
\* leaves it cut.
AuditDies ==
    /\ cursor # 0 /\ Fault /\ AuditOff
    /\ torn' \in {torn} \cup (IF cursor > until THEN {TRUE} ELSE {})
    /\ UNCHANGED <<today, published, pullVars, cal, red, excused>>
-----------------------------------------------------------------------------
PullGoesOn  == \E d \in Days, i \in Datasets : Missing(d, i) \/ Land(d, i)
AuditGoesOn == AuditPresent \/ AuditKnown \/ AuditProbe \/ AuditEnds

Next ==
    \/ Midnight \/ Capture
    \/ \E d \in Days, i \in Datasets : Publish(d, i) \/ PullFails(d, i)
    \/ PullDaily \/ (\E d \in Days : PullDate(d)) \/ PullGoesOn
    \/ AuditWeekly \/ (\E f, l \in Days : AuditRange(f, l))
    \/ AuditGoesOn \/ AuditUnanswered \/ AuditDies

Spec == Init /\ [][Next]_vars

\* The timers fire whatever is done by hand in between, and a
\* run that is not killed goes on.
LiveSpec == Spec /\ WF_vars(PullGoesOn) /\ WF_vars(AuditGoesOn)
                 /\ SF_vars(PullDaily) /\ SF_vars(AuditWeekly)
-----------------------------------------------------------------------------
TypeOK ==
    /\ today \in Nat /\ published \subseteq Days \X Datasets
    /\ raw \subseteq Days
    /\ part \in [Days -> SUBSET Datasets] /\ manifest \in [Days -> SUBSET Datasets]
    /\ todo \subseteq Days \X Datasets
    /\ cal \in [Days -> Answer] /\ mem \in [Days -> Answer] /\ torn \in BOOLEAN
    /\ cursor \in Nat /\ until \in Nat
    /\ bad \subseteq Days /\ red \subseteq Days /\ excused \subseteq Days
    /\ faults \in 0..MaxFaults

\* What the calendar says of a past day is so: a session was one, and a day
\* is a holiday only if it was, or if its probe came before its publication.
\* Nobody is alarmed over a day the market was closed.  (history_audit's
\* probe, its override by rows on disk, its cache)
Honest(c, d) == /\ c[d] = "session" => d \in Sessions
                /\ c[d] = "closed"  => d \notin Sessions \/ d \in excused
CalendarHonest == /\ \A d \in Days : Honest(cal, d)
                  /\ red \subseteq Sessions

\* A day the weekly audit covers.
Covered(d) == /\ \E r \in raw : r <= d
              /\ \E e \in Days \ Listed : d <= e /\ e < today

\* The audit converges, whatever hand-run audits, torn calendars and pulls
\* under way do to it: a day with rows is a session for good, whatever was
\* cached; and a session with a hole is filled or failed over, unless a
\* probe excused it.  (audit_range, save_calendar)
AuditConverges == \A d \in Sessions :
    /\ (part[d] # {} /\ Covered(d)) ~> [](cal[d] = "session")
    /\ Covered(d) ~> (part[d] = Datasets \/ d \in red \/ d \in excused)

\* The days a daily pull promises to reach: its own, and of those before it
\* with any file landed the last Lookback.
Begun(d)   == manifest[d] # {}
Reached(d) == \E p \in Days :
    /\ IsPrevious(p) /\ d <= p
    /\ d = p \/ (Begun(d) /\ Cardinality({e \in (d+1)..(p-1) : Begun(e)}) < Lookback)

\* A file published after the cutoff is landed all the same, by a restart
\* or by a later day's sweep, as long as a pull reaches its day.
\* (incomplete_recent_days, _backfill)
LateFilesLand == \A d \in Sessions, i \in Datasets :
    (<<d, i>> \in published /\ Reached(d)) ~> (i \in manifest[d] \/ ~Reached(d))

-----------------------------------------------------------------------------
\* What the documents say and the code does not keep: TLC refutes each, and no
\* run repeats it.

\* "A 404 is a closed market" (history_audit.py:117): no session is cached
\* as a holiday.
NoSessionExcused == \A d \in Sessions : cal[d] # "closed"

\* The sweep "deliberately does not raise" (flatfile_pull.py:699): a file that
\* fails to land stops no pull of a later day.
SweepNeverMasksTarget ==
    [][\A d \in Days, i \in Datasets :
           PullFails(d, i) => \A y \in todo : y[1] <= d]_vars
=============================================================================
