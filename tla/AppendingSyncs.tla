---------------------------- MODULE AppendingSyncs ----------------------------
(***************************************************************************)
(* The jobs that append what a service lists: contracts_sync,              *)
(* dividends_sync, rates_sync and ibkr_executions, the partitions they     *)
(* write and the readers that choose among the files.  Each walks its      *)
(* items in order: fetch (Flex: ask, then poll), read the baseline of the  *)
(* contracts diff, write the clean file in place, log.  Nothing they write *)
(* is replaced: a run repeated leaves a second file.  The jobs share no    *)
(* dataset, so a behaviour follows one of them, with its unit and one run  *)
(* by hand at a time.  Numbers stand for contracts, ex-dates, curve dates  *)
(* and fills; raw files, --limit and --dry-run are left out.               *)
(***************************************************************************)
EXTENDS Integers, SequencesExt, FiniteSetsExt

CONSTANTS Weekdays,     \* the days 1..LastDay the Mon-Fri timers fire
          Sessions,     \* those the market is open
          Jobs,         \* the jobs a behaviour may follow
          Underlyings,  \* DEFAULT_UNDERLYINGS: in order
          ByHand,       \* the --underlying lists of a run by hand
          Unlisted,     \* underlyings the vendor lists no contract under
          History,      \* curve dates published before day 1
          PAGE, Quota,  \* rows a page, pages before /fed answers 429
          Fills,        \* the sessions with a fill on the account
          POLL_TRIES,   \* polls of a statement
          StartLimitBurst,  \* starts systemd gives the unit for one timer
          LastDay,      \* bound: the last day that comes
          MaxHands,     \* bound: runs by hand, those of --full apart
          MaxFaults     \* bound: vendor errors and deaths

ASSUME ReferenceAssumption ==
    /\ Weekdays \subseteq 1..LastDay /\ Sessions \subseteq Weekdays
    /\ Fills \subseteq Sessions
    /\ {History, PAGE, Quota, POLL_TRIES, StartLimitBurst} \subseteq Nat
    /\ {LastDay, MaxHands, MaxFaults} \subseteq Nat
    /\ PAGE > 0 /\ StartLimitBurst > 0 /\ LastDay > 0
    /\ Underlyings \in Seq(STRING) /\ ByHand \subseteq Seq(STRING)

VARIABLES
    job,      \* the job this behaviour follows
    day,      \* today
    due,      \* timers of today that have not fired
    tries,    \* starts left to the unit for its last timer
    run,      \* what the unit and the shell are doing
    part,     \* clean/<dataset>/dt=<day>: the files, oldest stamp first
    cursor,   \* rates_cursor.json: the oldest date landed, or Never
    typed,    \* history: days somebody typed --force
    hands, faults  \* the counters MaxHands and MaxFaults cap

vars == <<job, day, due, tries, run, part, cursor, typed, hands, faults>>

Procs    == {"unit", "shell"}
SOURCES  == <<"treasury_yields", "inflation">>
Datasets == {"contracts", "contracts_expired", "dividends", "splits",
             "ibkr_executions"} \cup ToSet(SOURCES)
Days     == 1..LastDay
Never    == LastDay + 1     \* later than any curve date
NoDate   == -1 - History    \* earlier than any
Torn     == {NoDate}        \* what a file that will not open says
Elapsed  == 2               \* bound: contracts listed at a time
Null     == 500             \* a fill parsed under names IBKR does not emit
AnyDate  == 0               \* no --date
Scopes   == {"account", "all"}  \* whether IBKR_ACCOUNT_ID is set for a run
-----------------------------------------------------------------------------
\* The vendor.  Every half day a contract is listed and another expires; a
\* dividend goes ex every day, declared the day before; a weekday's curve is
\* published by the next morning.
Listing(u) ==
    LET tick == 2 * day - due IN
    IF u \in Unlisted THEN {} ELSE tick .. tick + Elapsed - 1
Events     == 1..(day + 1)
Published  == {d \in (1 - History)..(day - 1) : d < 1 \/ d \in Weekdays}

\* The Flex query's saved period is the last business day, today's once its
\* statement is out; it lists the fills of every account, another one's too.
Periods      == {Max({d \in Days : d = 1 \/ (d \in Sessions /\ d < day)}), day}
Theirs(d)    == Never + d
Statement(d) == (IF d \in Fills THEN {d} ELSE {}) \cup {Theirs(d)}

\* is_trading_day, from the calendar of market_gate.
IsTradingDay(d) == d \in Sessions
-----------------------------------------------------------------------------
(***************************************************************************)
(* The readers.  A file: its underlying, what it says and whether it opens.*)
(***************************************************************************)
Partitions(ds) == {d \in Days : part[ds][d] # <<>>}
LatestPartition(ds, d) == Max({e \in Partitions(ds) : e <= d})

\* Newest stamp first by underlying: files are held in the order of stamps.
FilesByUnderlying(ds, d) ==
    LET files == part[ds][d]
        of(u) == {i \in DOMAIN files : files[i].by = u}
    IN  [u \in {files[i].by : i \in DOMAIN files} |-> files[Max(of(u))]]

\* read_asof opens the newest file of every underlying of the partition.
ReadAsof(ds, d, u) ==
    LET newest == FilesByUnderlying(ds, d) IN
    IF \E v \in DOMAIN newest : newest[v].rows = Torn THEN Torn
    ELSE IF u \in DOMAIN newest THEN newest[u].rows ELSE {}

\* Mutant of PreviousTickers: the newest partition, whoever is in it.
PreviousTickersOfNewest(ds, u) ==
    IF Partitions(ds) = {} THEN {} ELSE ReadAsof(ds, LatestPartition(ds, day), u)

\* Walk back to a partition that holds the underlying, whichever comes
\* first: its contracts, or a file that will not open.
PreviousTickers(ds, u) ==
    LET named == {d \in Partitions(ds) :
                    d <= day /\ u \in DOMAIN FilesByUnderlying(ds, d)}
        holds == {d \in named : ReadAsof(ds, d, u) # {}}
    IN  IF holds = {} THEN {} ELSE ReadAsof(ds, Max(holds), u)

\* latest_contracts: the newest partition's newest file by underlying.
LatestContracts(d) ==
    IF {e \in Partitions("contracts") : e <= d} = {} THEN << >>
    ELSE FilesByUnderlying("contracts", LatestPartition("contracts", d))

\* The rows of a whole partition: how often each event comes, or nothing
\* where a file will not open.
ReadPartition(ds, d) ==
    LET files == part[ds][d] IN
    IF \E i \in DOMAIN files : files[i].rows = Torn THEN << >>
    ELSE [e \in UNION {files[i].rows : i \in DOMAIN files} |->
              Cardinality({i \in DOMAIN files : e \in files[i].rows})]

LoadDividends(d) ==
    IF Partitions("dividends") = {} THEN << >>
    ELSE IF \E e \in Partitions("dividends") : e <= d
         THEN ReadPartition("dividends", LatestPartition("dividends", d))
         ELSE ReadPartition("dividends", Max(Partitions("dividends")))

\* pv_dividends sums every row that goes ex in (session, expiry].
PvDividends(session, expiry) ==
    LET rows == LoadDividends(session) IN
    MapThenSumSet(LAMBDA e : rows[e],
                  {e \in DOMAIN rows : session < e /\ e <= expiry})

Landed(ds, d) ==
    {c \in UNION {f.rows : f \in ToSet(part[ds][d])} : c > NoDate}

\* Mutant of LoadCurve: the newest partition with a curve old enough.
LoadCurveNewest(want) ==
    LET have == {d \in Days : \E c \in Landed("treasury_yields", d) : c <= want} IN
    IF have = {} THEN NoDate
    ELSE Max({c \in Landed("treasury_yields", Max(have)) : c <= want})

\* The newest date of any file of any partition, at or before want: a file
\* that will not open raises, so this is what the reader says when it speaks.
LoadCurve(want) ==
    LET dates == UNION {Landed("treasury_yields", d) : d \in Days}
        old   == {c \in dates : c <= want}
    IN  IF old = {} THEN NoDate ELSE Max(old)
-----------------------------------------------------------------------------
(***************************************************************************)
(* A run: the items left as <<dataset, underlying>>, the step it is at,    *)
(* what it fetched and the partition it is for, what it read as the        *)
(* baseline; for rates --full, the cursor it loaded and moves, the         *)
(* datasets complete, whether rows landed; for Flex, --date and the polls. *)
(***************************************************************************)
Idle == [at |-> "idle", todo |-> <<>>, rows |-> {}, base |-> {}, full |-> FALSE,
         cur |-> [ds \in ToSet(SOURCES) |-> Never], done |-> {}, landed |-> FALSE,
         dt |-> 1, asked |-> AnyDate, polls |-> 0]

Starting(todo, full) ==
    [Idle EXCEPT !.at = "fetch", !.todo = todo, !.full = full, !.dt = day,
                 !.cur = IF full THEN cursor ELSE @]

Item(p) == Head(run[p].todo)
Goto(p, label) == run' = [run EXCEPT ![p].at = label]

\* The pass over live contracts belongs to sessions, unless the caller typed
\* --force; the --force that --expired injects does not count.
SyncLive(expired, force)       == force \/ IsTradingDay(day)

\* Underlying by underlying: its live contracts, its expired ones, or both.
ContractItems(list, expired, force) ==
    LET live  == IF SyncLive(expired, force) THEN <<"contracts">> ELSE <<>>
        kinds == live \o IF expired THEN <<"contracts_expired">> ELSE <<>>
        n     == Len(kinds)
    IN  [i \in 1..(n * Len(list)) |->
             <<kinds[1 + ((i - 1) % n)], list[1 + ((i - 1) \div n)]>>]
DividendItems == << <<"dividends", "SPY">>, <<"splits", "SPY">> >>
FlexItems(scope) == << <<"ibkr_executions", scope>> >>
RateItems     == [i \in DOMAIN SOURCES |-> <<SOURCES[i], "none">>]

\* run_job's gate: not a session, no --force, nothing is done.
Gated(force) == ~force /\ ~IsTradingDay(day)

Timed(scope) ==
    CASE job = "contracts_sync" -> ContractItems(Underlyings, day \notin Weekdays, FALSE)
      [] job = "dividends_sync" -> DividendItems
      [] job = "rates_sync"     -> RateItems
      [] OTHER                  -> FlexItems(scope)

Start == \E scope \in Scopes :
    run' = [run EXCEPT !["unit"] = IF Gated(day \notin Weekdays) THEN Idle
                                   ELSE Starting(Timed(scope), FALSE)]

\* On Saturdays contracts_sync --expired, with the --force it injects.
Timer ==
    /\ due > 0 /\ run["unit"].at = "idle" /\ run["shell"].at = "idle"
    /\ due' = due - 1 /\ tries' = StartLimitBurst - 1
    /\ Start
    /\ UNCHANGED <<job, day, part, cursor, typed, hands, faults>>

\* Mutant: the burst is not asked.
RestartAlways ==
    /\ run["unit"].at = "failed"
    /\ tries' = tries - 1 /\ Start
    /\ UNCHANGED <<job, day, due, part, cursor, typed, hands, faults>>

Restart ==
    /\ run["unit"].at = "failed" /\ tries > 0
    /\ tries' = tries - 1 /\ Start
    /\ UNCHANGED <<job, day, due, part, cursor, typed, hands, faults>>

HandContracts(list, expired, force) ==
    /\ job = "contracts_sync" /\ ~Gated(expired \/ force)
    /\ run' = [run EXCEPT !["shell"] =
                   Starting(ContractItems(list, expired, force), FALSE)]
    /\ typed' = IF force THEN typed \cup {day} ELSE typed

HandDividends ==
    /\ job = "dividends_sync" /\ ~Gated(FALSE)
    /\ run' = [run EXCEPT !["shell"] = Starting(DividendItems, FALSE)]
    /\ UNCHANGED typed

\* --date d is gated by d's calendar, not today's.
HandFlex(asked, scope) ==
    /\ job = "ibkr_executions"
    /\ IsTradingDay(IF asked = AnyDate THEN day ELSE asked)
    /\ run' = [run EXCEPT !["shell"] =
                   [Starting(FlexItems(scope), FALSE) EXCEPT !.asked = asked]]
    /\ UNCHANGED typed

Hand ==
    /\ run["shell"].at = "idle" /\ hands < MaxHands /\ hands' = hands + 1
    /\ \/ \E list \in ByHand, expired, force \in BOOLEAN :
             HandContracts(list, expired, force)
       \/ HandDividends
       \/ \E asked \in Days \cup {AnyDate}, scope \in Scopes : HandFlex(asked, scope)
    /\ UNCHANGED <<job, day, due, tries, part, cursor, faults>>

\* "repeat --full to continue": as often as the history lacks a date.
HandFull ==
    /\ job = "rates_sync" /\ run["shell"].at = "idle" /\ ~Gated(FALSE)
    /\ \E ds \in ToSet(SOURCES) : cursor[ds] > 1 - History
    /\ run' = [run EXCEPT !["shell"] = Starting(RateItems, TRUE)]
    /\ UNCHANGED <<job, day, due, tries, part, cursor, typed, hands, faults>>
-----------------------------------------------------------------------------
Quiet == UNCHANGED <<job, day, due, tries, typed, hands>>
Steady == Quiet /\ UNCHANGED <<cursor, faults>>

FetchList(p) ==
    LET ds == Item(p)[1]
        answer == CASE ds = "dividends" -> Events
                    [] ds = "splits"    -> {}
                    [] OTHER            -> Listing(Item(p)[2])
    IN  /\ run[p].at = "fetch" /\ run[p].todo # <<>>
        /\ job \in {"contracts_sync", "dividends_sync"}
        /\ run' = [run EXCEPT ![p].rows = answer,
                              ![p].at = IF job = "contracts_sync"
                                        THEN "baseline" ELSE "open"]
        /\ Steady /\ UNCHANGED part

\* SendRequest gives a reference code.
FlexSend(p) ==
    /\ run[p].at = "fetch" /\ run[p].todo # <<>> /\ job = "ibkr_executions"
    /\ Goto(p, "poll") /\ Steady /\ UNCHANGED part

\* 1019, not ready: it is polled so many times and no more.
FlexGenerating(p) ==
    LET n == run[p].polls + 1 IN
    /\ run[p].at = "poll"
    /\ run' = [run EXCEPT ![p] = IF n = POLL_TRIES THEN [Idle EXCEPT !.at = "failed"]
                                 ELSE [@ EXCEPT !.polls = n]]
    /\ Steady /\ UNCHANGED part

\* Mutant: the statement is filed under the date that was asked for.
FlexDateAsked(to, asked) == IF asked = AnyDate THEN to ELSE asked
FlexDate(to, asked) == IF asked \in {AnyDate, to} THEN to ELSE 0
ParseTrades(rows, scope) == {e \in rows : scope = "account" => e \in Days}
CheckParsed(rows)   == rows = {} \/ rows # {Null}

\* The statement says which day it is of: a --date it does not match fails,
\* so does one whose every price came out null.  No fill, nothing to land.
\* (Left out: a statement without a period, and a period of several days.)
FlexReady(p, to, named) ==
    LET dt   == FlexDate(to, run[p].asked)
        got  == ParseTrades(Statement(to), Item(p)[2])
        rows == IF named \/ got = {} THEN got ELSE {Null}
    IN  /\ run[p].at = "poll"
        /\ named \/ faults < MaxFaults
        /\ faults' = IF named THEN faults ELSE faults + 1
        /\ run' = [run EXCEPT ![p] =
               IF dt = 0 \/ ~CheckParsed(rows) THEN [Idle EXCEPT !.at = "failed"]
               ELSE IF rows = {} THEN [@ EXCEPT !.at = "fetch", !.todo = <<>>]
               ELSE [@ EXCEPT !.at = "open", !.dt = dt, !.rows = rows]]
        /\ Quiet /\ UNCHANGED <<cursor, part>>

\* The newest of a set of dates.
Newest(S, n) == {d \in S : Cardinality({e \in S : e > d}) < n}

\* --full goes on below the cursor it loaded.
\* Mutant: it skips a date.
BeforeOff(r, ds)   == IF r.full THEN r.cur[ds] - 1 ELSE Never
Before(r, ds)      == IF r.full THEN r.cur[ds] ELSE Never

\* One page of the newest dates, or --full: pages down from the cursor until
\* 429.  A dataset with no row is passed over; done if it was walked before.
FetchRates(p, pages) ==
    LET r == run[p]
        ds == Item(p)[1]
        rest == {d \in Published : d < Before(r, ds)}
        rows == Newest(rest, pages * PAGE)
        left == [r EXCEPT !.rows = rows,
                    !.cur[ds] = IF r.full THEN Min({r.cur[ds]} \cup rows) ELSE @]
    IN  /\ r.at = "fetch" /\ r.todo # <<>> /\ job = "rates_sync"
        /\ r.full \/ pages = 1
        /\ run' = [run EXCEPT ![p] =
               IF rows # {} THEN [left EXCEPT !.at = "open"]
               ELSE [r EXCEPT !.todo = Tail(@),
                       !.done = IF r.full /\ pages > 0 /\ rest = {} /\ r.cur[ds] # Never
                                THEN @ \cup {ds} ELSE @]]
        /\ Steady /\ UNCHANGED part

\* The diff's baseline is read before anything is written: a run dies here
\* if a file of the partition will not open.
Baseline(p) ==
    LET base == PreviousTickers(Item(p)[1], Item(p)[2]) IN
    /\ run[p].at = "baseline"
    /\ run' = [run EXCEPT ![p] = IF base = Torn THEN [Idle EXCEPT !.at = "failed"]
                                 ELSE [@ EXCEPT !.base = base, !.at = "open"]]
    /\ Steady /\ UNCHANGED part

\* write_clean in place: the name is there before what it says.
Open(p) ==
    /\ run[p].at = "open"
    /\ part' = [part EXCEPT ![Item(p)[1]][run[p].dt] =
                    Append(@, [by |-> Item(p)[2], rows |-> Torn, of |-> p])]
    /\ Goto(p, "finish") /\ Steady

\* The file is whole, and the diff is logged.
Finish(p) ==
    LET files == part[Item(p)[1]][run[p].dt]
        mine  == Max({i \in DOMAIN files : files[i].of = p})
    IN  /\ run[p].at = "finish"
        /\ part' = [part EXCEPT ![Item(p)[1]][run[p].dt][mine] =
                        [@ EXCEPT !.rows = run[p].rows, !.of = "none"]]
        /\ run' = [run EXCEPT ![p].at = "fetch", ![p].todo = Tail(@), ![p].base = {},
                              ![p].landed = TRUE, ![p].rows = {}]
        /\ Steady

\* rates_sync saves its cursor last, and fails if it landed nothing at all.
End(p) ==
    LET r == run[p] IN
    /\ r.at = "fetch" /\ r.todo = <<>>
    /\ cursor' = IF r.full THEN r.cur ELSE cursor
    /\ run' = [run EXCEPT ![p] =
           IF job = "rates_sync" /\ ~r.landed /\ r.done = {}
           THEN [Idle EXCEPT !.at = "failed"] ELSE Idle]
    /\ Quiet /\ UNCHANGED <<part, faults>>

\* The vendor answers an error that retries do not cure, or the process is
\* killed, which may be halfway through a file.
Fault(p) ==
    /\ run[p].at \notin {"idle", "failed"} /\ faults < MaxFaults
    /\ faults' = faults + 1
    /\ run' = [run EXCEPT ![p] = [Idle EXCEPT !.at = "failed"]]
    /\ Quiet /\ UNCHANGED <<part, cursor>>

\* A failed run by hand is over; so is a unit out of starts.
GiveUp(p) ==
    /\ run[p].at = "failed"
    /\ p = "shell" \/ tries = 0
    /\ run' = [run EXCEPT ![p] = Idle]
    /\ Steady /\ UNCHANGED part

TimersOf(d) == CASE job = "contracts_sync" -> IF d \in Weekdays THEN 2 ELSE 1
                 [] OTHER                  -> IF d \in Weekdays THEN 1 ELSE 0

Tomorrow ==
    /\ due = 0 /\ day < LastDay /\ \A p \in Procs : run[p].at = "idle"
    /\ day' = day + 1 /\ due' = TimersOf(day + 1)
    /\ UNCHANGED <<job, tries, run, part, cursor, typed, hands, faults>>
-----------------------------------------------------------------------------
Init ==
    /\ job \in Jobs /\ day = 1 /\ due = TimersOf(1) /\ tries = 0
    /\ run = [p \in Procs |-> Idle]
    /\ part = [ds \in Datasets |-> [d \in Days |-> <<>>]]
    /\ cursor = [ds \in ToSet(SOURCES) |-> Never]
    /\ typed = {} /\ hands = 0 /\ faults = 0

Next ==
    \/ Timer \/ Restart \/ Hand \/ HandFull \/ Tomorrow
    \/ \E p \in Procs :
          \/ FetchList(p) \/ FlexSend(p) \/ FlexGenerating(p)
          \/ (\E to \in Periods, named \in BOOLEAN : FlexReady(p, to, named))
          \/ (\E n \in 0..Quota : FetchRates(p, n))
          \/ Baseline(p) \/ Open(p) \/ Finish(p) \/ End(p) \/ Fault(p) \/ GiveUp(p)

Spec == Init /\ [][Next]_vars
-----------------------------------------------------------------------------
RunState == {"idle", "failed", "fetch", "poll", "baseline", "open", "finish"}
TypeOK ==
    /\ job \in Jobs /\ day \in Days /\ due \in 0..2 /\ tries \in 0..(StartLimitBurst - 1)
    /\ \A p \in Procs : run[p].at \in RunState /\ run[p].full \in BOOLEAN
    /\ \A ds \in Datasets, d \in Days : \A f \in ToSet(part[ds][d]) :
           f.of \in Procs \cup {"none"} /\ f.rows \subseteq Int
    /\ cursor \in [ToSet(SOURCES) -> Int] /\ typed \subseteq Days
    /\ hands \in 0..MaxHands /\ faults \in 0..MaxFaults

\* The whole files of an underlying by day, and what the last of them says.
Whole(ds, u, d) ==
    {i \in DOMAIN part[ds][d] : part[ds][d][i].by = u /\ part[ds][d][i].rows # Torn}
LastLanded(ds, u) ==
    LET days == {d \in Days : Whole(ds, u, d) # {}} IN
    IF days = {} THEN {} ELSE part[ds][Max(days)][Max(Whole(ds, u, Max(days)))].rows

\* The readers that choose a file choose the last that landed: the diff's
\* baseline is the last listing of its underlying, however the passes of the
\* others share its partition; a universe has the last listing of all it
\* names; a dividend stream has every event that ever landed.
\* (_previous_tickers, latest_contracts, load_dividends)
LastLandingIsRead ==
    /\ \A ds \in {"contracts", "contracts_expired"}, u \in ToSet(Underlyings) :
           PreviousTickers(ds, u) \in {Torn, LastLanded(ds, u)}
    /\ \A u \in DOMAIN LatestContracts(day) :
           LatestContracts(day)[u].rows \in {Torn, LastLanded("contracts", u)}
    /\ LoadDividends(day) = << >> \/
           UNION {Landed("dividends", d) : d \in Days}
               \subseteq DOMAIN LoadDividends(day)

\* What is filed under a day is of that day.  Live contracts are filed under
\* sessions, or days somebody typed --force, never for the --force that
\* --expired injects; fills under the day of their statement, whatever --date
\* asked for, and those of a run with an account set are that account's.
\* (contracts_sync.main, _main_fn)
FiledUnderTheirDay == \A d \in Days :
    /\ part["contracts"][d] # <<>> => d \in Sessions \cup typed
    /\ \A f \in ToSet(part["ibkr_executions"][d]) :
           \/ f.rows = Torn
           \/ f.rows # {} /\ f.rows \subseteq IF f.by = "account" THEN {d} ELSE {d, Theirs(d)}

\* Between the cursor and the newest date landed there is no hole, whatever
\* 429 and deaths cut short: what --full passes over it never asks for again.
\* (rates_sync._main_fn, _save_cursor)
HistoryContiguous ==
    \A ds \in ToSet(SOURCES) :
        LET dates == UNION {Landed(ds, d) : d \in Days} IN
        cursor[ds] # Never =>
            /\ dates # {}
            /\ \A d \in Published : cursor[ds] <= d /\ d <= Max(dates) => d \in dates

\* History that --full lands in today's partition never takes the curve of
\* today back.  (_load_curve_cached)
CurveNeverAges == [][LoadCurve(day)' >= LoadCurve(day)]_vars

\* "One full-history SPY dividend snapshot" (spot.py:317): a dividend is in
\* the sum once.
DividendsCountedOnce ==
    \A s \in Days : \A e \in s..LastDay : PvDividends(s, e) <= e - s

=============================================================================
