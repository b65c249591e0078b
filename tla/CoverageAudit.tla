---------------------------- MODULE CoverageAudit ----------------------------
(***************************************************************************)
(* coverage_audit and the daily schedule it grades: every job at its       *)
(* minute, the partitions each leaves, the par curve that trails two       *)
(* sessions behind, the underlying history that expires, jobs that stop    *)
(* and files that come out wrong, and the audit's verdict over all of it.  *)
(* Day 0 is a Sunday; minutes are ET.  A partition is the sequence of its  *)
(* files; a file is its job, its rows (Torn: it will not open), the marks  *)
(* the audit looks for in it (roots, horizons) and the BLAS pin.  What was *)
(* captured before day 1 is complete, and audits of it are not modelled.   *)
(* check_disk, --dry-run and the wording of the report are left out.       *)
(***************************************************************************)
EXTENDS Integers, SequencesExt, FiniteSetsExt

CONSTANTS LastDay,      \* bound: the last day that comes
          Calendars,    \* [closed, half]: the closures and the early closes
          Timetable,    \* <<minute, job>> in order: deploy/schedule.json, a day's
          Interval,     \* SWEEP_INTERVAL_S, in minutes
          MaxSweepGap,  \* MAX_SWEEP_GAP_S, in minutes
          MinRatio,     \* SWEEP_MIN_RATIO, in percent
          Entitlement,  \* UNDERLYING_ENTITLEMENT_DAYS
          EdgeDays,     \* UNDERLYING_EDGE_DAYS
          MaxSessions,  \* --max-sessions of backfill_underlying
          MaxFaults     \* bound: jobs that stop, runs that come out wrong

ASSUME AuditAssumption ==
    /\ LastDay \in Nat \ {0} /\ MaxFaults \in Nat
    \* No closure runs through a week.
    /\ \A c \in Calendars : /\ c.closed \subseteq 1..LastDay /\ c.half \subseteq 1..LastDay
                             /\ \A d \in 2..LastDay + 1 : \E e \in d - 7 .. d - 1 :
                                   e % 7 \notin {0, 6} /\ e \notin c.closed
    \* A sweep's minute and the one it lands in are of one day.
    /\ Timetable \in Seq((0..1438) \X STRING) /\ Timetable # <<>>
    /\ {Interval, MaxSweepGap, MinRatio, Entitlement, EdgeDays, MaxSessions} \subseteq Nat
    /\ Interval > 0

VARIABLES
    day, slot,     \* the day, and the place in the Timetable
    cal,           \* the real closures and early closes
    part,          \* clean partitions: files by day and dataset
    kept,          \* flatfile_manifest.json: rows kept by day and dataset
    stamps,        \* option_snapshots: <<minute, root>> by day
    gaps,          \* days whose ws log has more than five ws_gap lines
    curve,         \* the newest treasury_yields row, a day
    curveTorn,     \* a treasury_yields file will not open
    down,          \* the job that has stopped, or "none"
    faults,        \* the counter MaxFaults caps
    report,        \* coverage.json: the day graded, and what is not PASS
    harm,          \* history: <<day, what>> that came out wrong
    missed,        \* history: rates runs missed in a row
    flagged        \* history: sessions a report called about to expire

clock == <<day, slot, cal>>
box   == <<part, kept, stamps, gaps, curve, curveTorn>>
auditVars  == <<clock, box, down, faults, report, harm, missed, flagged>>

Days  == 1..LastDay
Torn  == -1           \* the rows of a file that will not open
NoRow == -1           \* no manifest entry
Rows  == 2            \* bound: the rows of a whole file
Lag   == 1            \* minutes a sweep takes to write

OPTION_ROOTS    == {"SPY", "SPX", "SPXW"}
SURFACE_ROOTS   == {"SPX", "SPXW"}
RV_HORIZONS     == {3, 32}           \* bound: the shortest and the longest
EXPECTED_ROOTS  == {"SPY", "SPX"}    \* bound: VIX is swept with them
FLATFILES       == {"option_trades", "option_minute_bars", "option_day_bars"}
OWNED           == {"option_trades", "option_day_bars"}
PARTITIONS      == FLATFILES \cup {"contracts", "forwards"}
UNDERLYING      == {"underlying_minute_bars", "underlying_day_bars"}
DATASETS        == PARTITIONS \cup UNDERLYING
                     \cup {"vol_surface", "rv_forecast", "option_minute_bars_ws"}
OPEN == 570
REGULAR_CLOSE == 960
EARLY_CLOSE == 780
SWEEP_TAIL == 30
SWEEP_WRITE_GRACE == 2
SINGLETON_TOLERANCE == 10
PREOPEN == 545
EOD == 995
PIPELINE_DONE == 735
AUDIT == 750
RATE_WARN == 2
RATE_FAIL == 5

SWEEP_OUTAGE == {"sweep", "SPX"}     \* every root, or one endpoint's chain

\* The job that writes each dataset anew every day.
Output == [contracts_sync  |-> "contracts",
           ws_minute_bars  |-> "option_minute_bars_ws",
           trades_watchlist |-> "option_trades",
           underlying_bars |-> "underlying_minute_bars",
           grouped_daily   |-> "underlying_day_bars",
           reconcile       |-> "option_minute_bars",
           rv_forecast     |-> "rv_forecast",
           surface         |-> "vol_surface"]
Replacing == {"reconcile", "rv_forecast", "surface"}
SameDay   == {"contracts_sync", "ws_minute_bars", "trades_watchlist"}
Marks(ds) == CASE ds = "option_trades" -> OPTION_ROOTS
               [] ds = "vol_surface"   -> SURFACE_ROOTS
               [] ds = "rv_forecast"   -> RV_HORIZONS
               [] OTHER                -> {}
File(job, ds) == [by |-> job, rows |-> Rows, has |-> Marks(ds), pinned |-> TRUE]
-----------------------------------------------------------------------------
\* market_gate: weekends and what Sunday's holidays_sync left in the list.
Weekday(d)       == d % 7 \notin {0, 6}
StillListed(S)   == {c \in S : c >= day - (day % 7)}
IsTradingDay(d)  == Weekday(d) /\ d \notin StillListed(cal.closed)
PreviousTradingDay(d) == Max({e \in d - 7 .. d - 1 : IsTradingDay(e)})
MarketClose(d)   == IF d \in StillListed(cal.half) THEN EARLY_CLOSE ELSE REGULAR_CLOSE

\* The sessions that really are.
IsSession(d)     == Weekday(d) /\ d \notin cal.closed
PreviousSession(d) == Max({e \in d - 7 .. d - 1 : IsSession(e)})
-----------------------------------------------------------------------------
Finding(name, status, bad) == IF bad THEN {<<name, status>>} ELSE {}
Near(t, u) == t - u \in -SINGLETON_TOLERANCE .. SINGLETON_TOLERANCE

WindowEnd(d)      == MarketClose(d) + SWEEP_TAIL + SWEEP_WRITE_GRACE
ExpectedSweeps(d) == (MarketClose(d) + SWEEP_TAIL - OPEN) \div Interval + 1
SweepStamps(d, root) == {x[1] : x \in {y \in stamps[d] : y[2] = root}}

\* _classify_stamps: the order of its branches decides.
InWindow(d, t)  == OPEN <= t /\ t <= WindowEnd(d)
IsPreopen(d, t) == ~InWindow(d, t) /\ Near(t, PREOPEN)
IsPostClose(d, t) ==
    /\ ~InWindow(d, t) /\ ~IsPreopen(d, t)
    /\ d \in StillListed(cal.half)
    /\ WindowEnd(d) < t /\ t <= REGULAR_CLOSE + SWEEP_TAIL + SWEEP_WRITE_GRACE

\* Mutant of IsEod: the tolerance is asked before the early close.
IsEodFirst(d, t) == ~InWindow(d, t) /\ ~IsPreopen(d, t) /\ Near(t, EOD)

IsEod(d, t) ==
    ~InWindow(d, t) /\ ~IsPreopen(d, t) /\ ~IsPostClose(d, t) /\ Near(t, EOD)

WideGap(S) == \E t, u \in S : u - t > MaxSweepGap /\ \A w \in S : w <= t \/ u <= w

CheckSnapshots(d) ==
    LET seen(root) == SweepStamps(d, root)
        got(root)  == {t \in seen(root) : InWindow(d, t)}
        few(root)  == 100 * Cardinality(got(root)) < MinRatio * ExpectedSweeps(d)
        Lacks(Kind(_, _)) == \E r \in EXPECTED_ROOTS : \A t \in seen(r) : ~Kind(d, t)
    IN  (UNION {Finding("snapshots", "FAIL", few(r)) : r \in EXPECTED_ROOTS})
        \cup (UNION {Finding("snapshots", "WARN", ~few(r) /\ WideGap(got(r))) :
                        r \in EXPECTED_ROOTS})
        \cup Finding("snapshots_preopen", "FAIL", Lacks(IsPreopen))
        \cup Finding("snapshots_eod", "FAIL", Lacks(IsEod))

\* _partition_rows, and what _flatfile_partition_rows counts of it.
RowsOf(files) ==
    IF \E f \in ToSet(files) : f.rows = Torn THEN Torn
    ELSE FoldSeq(LAMBDA f, n : f.rows + n, 0, files)

\* Mutant of OwnFiles: the rows of every job are held against the manifest.
OwnFilesAll(d, ds) == part[d][ds]

OwnFiles(d, ds) == SelectSeq(part[d][ds], LAMBDA f : f.by = "flatfile_pull")

CheckFlatfiles(d) ==
    (UNION {Finding("flatfile", "FAIL", kept[d][ds] <= 0) : ds \in FLATFILES})
    \cup (UNION {Finding("flatfile_partition", "FAIL",
                         kept[d][ds] > 0 /\ RowsOf(OwnFiles(d, ds)) # kept[d][ds]) :
                     ds \in OWNED})

CheckPartitions(d) ==
    UNION {Finding(ds, "FAIL", RowsOf(part[d][ds]) <= 0) : ds \in PARTITIONS}

\* _partition_underlyings, and its like for tickers and horizons.
Found(d, ds) == UNION {f.has : f \in {g \in ToSet(part[d][ds]) : g.rows # Torn}}

CheckVolSurface(d) ==
    Finding("vol_surface", "FAIL", \/ RowsOf(part[d]["vol_surface"]) <= 0
                                   \/ ~(SURFACE_ROOTS \subseteq Found(d, "vol_surface")))

CheckRvForecast(d) ==
    LET files == ToSet(part[d]["rv_forecast"])
        bad   == \/ \E f \in files : f.rows = Torn
                 \/ ~(RV_HORIZONS \subseteq Found(d, "rv_forecast"))
    IN  Finding("rv_forecast", "FAIL", bad)
        \cup Finding("rv_forecast", "WARN", ~bad /\ \E f \in files : ~f.pinned)

CheckUnderlyingCoverage(d) ==
    LET roots == Found(d, "option_trades")
    IN  Finding("underlying", "FAIL", ~(OPTION_ROOTS \subseteq roots))
        \cup Finding("ticker_purity", "FAIL", ~(roots \subseteq OPTION_ROOTS))

WindowStart       == day - Entitlement
WindowSessions(d) == {e \in Days : kept[e]["option_trades"] # NoRow /\ WindowStart <= e /\ e <= d}
MissingSessions(ds, S) == {e \in S : part[e][ds] = <<>>}

\* Mutant of Edge: only what expires today is the last chance.
EdgeToday         == WindowStart

Edge              == WindowStart + EdgeDays

\* The sessions CheckUnderlyingWindow calls out as about to expire.
Expiring(d) == IF WindowStart > d THEN {}
               ELSE {e \in UNION {MissingSessions(ds, WindowSessions(d)) : ds \in UNDERLYING} :
                        e <= Edge}

CheckUnderlyingWindow(d) ==
    IF WindowStart > d \/ WindowSessions(d) = {} THEN {}
    ELSE LET missing == UNION {MissingSessions(ds, WindowSessions(d)) : ds \in UNDERLYING}
         IN  Finding("underlying_landed", "FAIL", \E ds \in UNDERLYING : part[d][ds] = <<>>)
             \cup Finding("underlying_window", "FAIL", Expiring(d) # {})
             \cup Finding("underlying_window", "WARN", missing # {} /\ Expiring(d) = {})

CheckWebsocket(d) ==
    LET files == part[d]["option_minute_bars_ws"]
    IN  Finding("websocket", "FAIL", files = <<>>)
        \cup Finding("websocket", "WARN", files # <<>> /\ d \in gaps)

\* previous_trading_day is stepped from the session down to the newest row.
NewestRow(d)  == IF curve <= d THEN curve ELSE PreviousSession(d + 1)

\* Mutant of Staleness: it is measured to the run, not to the newest row.
StalenessOfRun(d) == IF missed = 0 THEN 0 ELSE missed - 1

Staleness(d)  == Cardinality({e \in NewestRow(d) + 1 .. d : e = d \/ IsTradingDay(e)})

CheckRateCurve(d) ==
    Finding("rate_curve", "FAIL", curveTorn \/ Staleness(d) > RATE_FAIL)
    \cup Finding("rate_curve", "WARN", ~curveTorn /\ Staleness(d) \in RATE_WARN + 1 .. RATE_FAIL)

RunChecks(d) ==
    CheckSnapshots(d) \cup CheckFlatfiles(d) \cup CheckPartitions(d)
    \cup CheckVolSurface(d) \cup CheckRvForecast(d) \cup CheckUnderlyingCoverage(d)
    \cup CheckUnderlyingWindow(d) \cup CheckRateCurve(d) \cup CheckWebsocket(d)

\* The loop ends after one step back: the day before the newest is yesterday's.
LastCompletedSession(now) ==
    LET d == PreviousTradingDay(day)
    IN  IF d + 1 = day /\ now < PIPELINE_DONE THEN PreviousTradingDay(d) ELSE d
-----------------------------------------------------------------------------
Minute   == Timetable[slot][1]
Now(job) == Timetable[slot][2] = job
Fault    == faults < MaxFaults /\ faults' = faults + 1

\* The next instant of the Timetable, or the next day's first.
Turn == /\ \/ slot < Len(Timetable) /\ slot' = slot + 1 /\ day' = day
           \/ slot = Len(Timetable) /\ day < LastDay /\ slot' = 1 /\ day' = day + 1
        /\ UNCHANGED cal

\* The session a job works on: its own day, or the previous trading day's.
Target(job) == IF job \in SameDay THEN day ELSE PreviousTradingDay(day)

\* Whether the timer fires and the market gate lets the job through; a T-1 job
\* runs Tuesday to Saturday and passes the gate with its --date.
Due(job) ==
    CASE job = "backfill_underlying" -> TRUE
      [] job = "coverage_audit" -> /\ Minute = AUDIT => Weekday(day - 1)
                                   /\ LastCompletedSession(Minute) >= 1
      [] job \in SameDay \cup {"sweep", "rates_sync"} -> IsTradingDay(day)
      [] OTHER -> Weekday(day - 1) /\ PreviousTradingDay(day) >= 1

\* Not due, or nothing was pushed.
Idle == /\ \/ ~Due(Timetable[slot][2])
           \/ Now("coverage_audit") /\ Minute # AUDIT
        /\ Turn /\ UNCHANGED <<box, down, faults, report, harm, missed, flagged>>

Fires(job) == Now(job) /\ Due(job) /\ Turn

\* A stopped job may be back when it is next due.
Works(job) == down' = IF down = job THEN "none" ELSE down

\* It stops here, or is still stopped: no run, or one that dies before writing.
Misses(job) == \/ down = job /\ UNCHANGED <<down, faults>>
               \/ down = "none" /\ Fault /\ down' = job

\* reconcile rewrites what it can read, and does nothing when there is nothing.
Readable(job, d) == job = "reconcile" => RowsOf(part[d][Output[job]]) > 0
Rewritten(job, d)  == IF job = "reconcile"
                    THEN [File(job, Output[job]) EXCEPT !.rows = RowsOf(part[d][Output[job]])]
                    ELSE File(job, Output[job])
Land(job, d, f)  == part' = [part EXCEPT ![d][Output[job]] =
                                IF job \in Replacing THEN <<f>> ELSE Append(@, f)]

\* A daily job writes its partition.
Run(job) ==
    /\ Fires(job) /\ Works(job)
    /\ IF Readable(job, Target(job))
       THEN /\ Land(job, Target(job), Rewritten(job, Target(job)))
            /\ harm' = harm \ {<<Target(job), job, k>> :
                                  k \in {"missed"} \cup IF job \in Replacing THEN {"wrong"} ELSE {}}
       ELSE UNCHANGED <<part, harm>>
    /\ UNCHANGED <<kept, stamps, gaps, curve, curveTorn, faults, report, missed, flagged>>

Miss(job) ==
    /\ Fires(job) /\ Misses(job)
    /\ harm' = IF part[Target(job)][Output[job]] = <<>> \/ job = "reconcile"
               THEN harm \cup {<<Target(job), job, "missed">>} ELSE harm
    /\ UNCHANGED <<box, report, missed, flagged>>

\* A file that will not open, lacks a root or a horizon, was fitted unpinned.
Spoilt(job) ==
    LET f == File(job, Output[job])
    IN  {[f EXCEPT !.rows = Torn]} \cup {[f EXCEPT !.has = @ \ {x}] : x \in f.has}
        \cup (IF job = "rv_forecast" THEN {[f EXCEPT !.pinned = FALSE]} ELSE {})
        \cup (IF job = "trades_watchlist" THEN {[f EXCEPT !.has = @ \cup {"SPXL"}]} ELSE {})

\* trades_watchlist without one root: the strike band that missed SPX.
IsBandHole(job, f) == job = "trades_watchlist" /\ f.rows # Torn /\ "SPXL" \notin f.has

Spoil(job) ==
    /\ Fires(job) /\ down = "none" /\ Fault
    /\ job \notin {"ws_minute_bars", "underlying_bars", "grouped_daily"}
    /\ Readable(job, Target(job))
    /\ \E f \in Spoilt(job) :
          /\ Land(job, Target(job), f)
          /\ harm' = harm \cup {<<Target(job), job,
                                  IF IsBandHole(job, f) THEN "band" ELSE "wrong">>}
    /\ UNCHANGED <<kept, stamps, gaps, curve, curveTorn, down, report, missed, flagged>>

\* The websocket drops again and again.
Gaps == /\ Fires("ws_minute_bars") /\ down = "none" /\ Fault
        /\ Land("ws_minute_bars", day, File("ws_minute_bars", Output.ws_minute_bars))
        /\ gaps' = gaps \cup {day}
        /\ harm' = harm \cup {<<day, "ws_minute_bars", "wrong">>}
        /\ UNCHANGED <<kept, stamps, curve, curveTorn, down, report, missed, flagged>>

\* A sweep, and the forwards of its chains (the day's first file stands for
\* them all).  Whether the exchange closed early, the cadence goes on.
Sweep ==
    /\ Fires("sweep")
    /\ \/ down' \in {down, IF down \in SWEEP_OUTAGE THEN "none" ELSE down} /\ UNCHANGED faults
       \/ down = "none" /\ Fault /\ down' \in SWEEP_OUTAGE
    /\ LET lost == CASE down' = "sweep" -> EXPECTED_ROOTS
                     [] down' = "SPX"   -> {"SPX"}
                     [] OTHER           -> {}
       IN  /\ stamps' = [stamps EXCEPT ![day] =
                             @ \cup {<<Minute + Lag, r>> : r \in EXPECTED_ROOTS \ lost}]
           /\ harm' = IF lost = {} THEN harm ELSE harm \cup {<<day, "sweep", "missed">>}
           /\ part' = IF lost = EXPECTED_ROOTS \/ part[day]["forwards"] # <<>> THEN part
                      ELSE [part EXCEPT ![day]["forwards"] = <<File("sweep", "forwards")>>]
    /\ UNCHANGED <<kept, gaps, curve, curveTorn, report, missed, flagged>>

\* What a pull leaves of a dataset: the rows its manifest row counts, its files.
Pulled(ds) == LET f == File("flatfile_pull", ds)
              IN  [rows |-> Rows, files |-> <<f>>]
BadlyPulled(ds) ==
    LET f == File("flatfile_pull", ds)
    IN  {[rows |-> 0, files |-> <<>>], [rows |-> NoRow, files |-> <<>>],
         [rows |-> Rows, files |-> <<[f EXCEPT !.rows = Torn]>>]}
        \cup (IF ds \in OWNED
              THEN {[rows |-> Rows, files |-> <<>>], [rows |-> Rows, files |-> <<f, f>>],
                    [rows |-> Rows, files |-> <<[f EXCEPT !.rows = Rows - 1]>>]}
              ELSE {})

\* Mutant of Pull: a manifest row is added to, not written once.
PullAdded(got) ==
    LET d == Target("flatfile_pull")
    IN  /\ kept' = [kept EXCEPT ![d] = [ds \in FLATFILES |-> @[ds] + got[ds].rows]]
        /\ part' = [part EXCEPT ![d] = [ds \in DATASETS |->
                        IF ds \in FLATFILES THEN @[ds] \o got[ds].files ELSE @[ds]]]

Pull(got) ==
    LET d == Target("flatfile_pull")
        due == {ds \in FLATFILES : kept[d][ds] = NoRow}
    IN  /\ kept' = [kept EXCEPT ![d] = [ds \in FLATFILES |->
                        IF ds \in due THEN got[ds].rows ELSE @[ds]]]
        /\ part' = [part EXCEPT ![d] = [ds \in DATASETS |->
                        IF ds \in due THEN @[ds] \o got[ds].files ELSE @[ds]]]

FlatfilePull ==
    /\ Fires("flatfile_pull") /\ Works("flatfile_pull") /\ Pull([ds \in FLATFILES |-> Pulled(ds)])
    /\ harm' = harm \ {<<Target("flatfile_pull"), "flatfile_pull", "missed">>}
    /\ UNCHANGED <<stamps, gaps, curve, curveTorn, faults, report, missed, flagged>>

FlatfileMiss ==
    /\ Fires("flatfile_pull") /\ Misses("flatfile_pull")
    /\ harm' = IF NoRow \in {kept[Target("flatfile_pull")][ds] : ds \in FLATFILES}
               THEN harm \cup {<<Target("flatfile_pull"), "flatfile_pull", "missed">>} ELSE harm
    /\ UNCHANGED <<box, report, missed, flagged>>

FlatfileSpoil ==
    /\ Fires("flatfile_pull") /\ down = "none" /\ Fault
    /\ NoRow \in {kept[Target("flatfile_pull")][ds] : ds \in FLATFILES}
    /\ \E hit \in FLATFILES : \E bad \in BadlyPulled(hit) :
          /\ kept[Target("flatfile_pull")][hit] = NoRow
          /\ Pull([ds \in FLATFILES |-> IF ds = hit THEN bad ELSE Pulled(ds)])
          /\ harm' = harm \cup {<<Target("flatfile_pull"), "flatfile_pull",
                                  IF bad.rows = NoRow THEN "missed" ELSE "wrong">>}
    /\ UNCHANGED <<stamps, gaps, curve, curveTorn, down, report, missed, flagged>>

\* The vendor publishes at a steady T-2; a page reaches back two years.
RatesSync ==
    /\ Fires("rates_sync") /\ Works("rates_sync")
    /\ curve' = PreviousSession(PreviousSession(day)) /\ missed' = 0
    /\ UNCHANGED <<part, kept, stamps, gaps, curveTorn, faults, report, harm, flagged>>
RatesMiss ==
    /\ Fires("rates_sync") /\ Misses("rates_sync") /\ missed' = missed + 1
    /\ UNCHANGED <<box, report, harm, flagged>>
RatesTorn ==
    /\ Fires("rates_sync") /\ down = "none" /\ Fault /\ curveTorn' = TRUE
    /\ UNCHANGED <<part, kept, stamps, gaps, curve, down, report, harm, missed, flagged>>

\* The oldest sessions of the window that lack bars, up to --max-sessions.  An
\* endpoint that fails the daily job fails the backfill too.
Served(ds) == down # (IF ds = "underlying_day_bars" THEN "grouped_daily" ELSE "underlying_bars")
Backfill ==
    /\ Fires("backfill_underlying") /\ Works("backfill_underlying")
    /\ LET known == {e \in WindowSessions(day - 1) : \E ds \in UNDERLYING : part[e][ds] = <<>>}
           work  == {e \in known : Cardinality({c \in known : c < e}) < MaxSessions}
       IN  part' = [e \in Days |-> [ds \in DATASETS |->
                        IF e \in work /\ ds \in UNDERLYING /\ Served(ds) /\ part[e][ds] = <<>>
                        THEN <<File("backfill_underlying", ds)>> ELSE part[e][ds]]]
    /\ harm' = {h \in harm : \A ds \in UNDERLYING :
                    (part'[h[1]][ds] # <<>> /\ h[2] \in DOMAIN Output) => Output[h[2]] # ds}
    /\ UNCHANGED <<kept, stamps, gaps, curve, curveTorn, faults, report, missed, flagged>>
BackfillMiss ==
    /\ Fires("backfill_underlying") /\ Misses("backfill_underlying")
    /\ UNCHANGED <<box, report, harm, missed, flagged>>

\* Its own slot behind the chain, and whatever push runs the box workflow.
Audit ==
    /\ Fires("coverage_audit")
    /\ LET d == LastCompletedSession(Minute)
       IN  /\ report' = [of |-> d, findings |-> RunChecks(d)]
           /\ flagged' = flagged \cup Expiring(d)
    /\ UNCHANGED <<box, down, faults, harm, missed>>

AuditInit ==
    /\ day = 1 /\ slot = 1 /\ cal \in Calendars
    /\ part = [d \in Days |-> [ds \in DATASETS |-> <<>>]]
    /\ kept = [d \in Days |-> [ds \in FLATFILES |-> NoRow]]
    /\ stamps = [d \in Days |-> {}] /\ gaps = {}
    /\ curve = PreviousSession(PreviousSession(PreviousSession(1))) /\ curveTorn = FALSE
    /\ down = "none" /\ faults = 0
    /\ report = [of |-> 0, findings |-> {}]
    /\ harm = {} /\ missed = 0 /\ flagged = {}

AuditNext ==
    \/ Idle \/ Gaps \/ Sweep \/ FlatfilePull \/ FlatfileMiss \/ FlatfileSpoil
    \/ RatesSync \/ RatesMiss \/ RatesTorn \/ Backfill \/ BackfillMiss \/ Audit
    \/ \E job \in DOMAIN Output : Run(job) \/ Miss(job) \/ Spoil(job)

AuditSpec == AuditInit /\ [][AuditNext]_auditVars
-----------------------------------------------------------------------------

AuditTypeOK ==
    /\ day \in Days /\ slot \in 1..Len(Timetable) /\ cal \in Calendars
    /\ \A d \in Days, ds \in DATASETS : \A f \in ToSet(part[d][ds]) :
          f.by \in DOMAIN Output \cup {"flatfile_pull", "sweep", "backfill_underlying"}
    /\ \A d \in Days, ds \in FLATFILES : kept[d][ds] \in {NoRow, 0, Rows}
    /\ \A d \in Days : stamps[d] \subseteq (0..1439) \X EXPECTED_ROOTS
    /\ gaps \subseteq Days /\ curve < day /\ curveTorn \in BOOLEAN
    /\ down \in {"none", "flatfile_pull", "rates_sync", "backfill_underlying"}
                  \cup DOMAIN Output \cup SWEEP_OUTAGE
    /\ faults \in 0..MaxFaults /\ flagged \subseteq Days
    /\ report.of \in {0} \cup Days /\ \A f \in report.findings : f[2] \in {"WARN", "FAIL"}

\* What is known to have gone wrong with a day, and would have to be seen.
Harmed(d)  == {h \in harm : h[1] = d}
\* Another job's file stands in for these: flatfile_pull's, in both partitions.
StandIn(h) == h[2] \in {"trades_watchlist", "reconcile"} /\ h[3] # "wrong"
Graded     == report'.of
Failed     == {f \in report'.findings : f[2] = "FAIL"}
Scheduled  == Audit /\ Minute = AUDIT

\* The sweeps of the session that the schedule has, and those of a root that
\* landed, whatever the audit takes for its window.
LastFiring(d) == (IF d \in cal.half THEN EARLY_CLOSE ELSE REGULAR_CLOSE) + SWEEP_TAIL
Cadence(d)    == {Timetable[i][1] : i \in {j \in 1..Len(Timetable) :
                     Timetable[j][2] = "sweep" /\ Timetable[j][1] \in OPEN..LastFiring(d)}}
Captured(d, r) == {x[1] - Lag : x \in {y \in stamps[d] : y[2] = r}}

\* An early close that Sunday's holidays_sync has dropped from the list.
Forgotten(d)  == d \in cal.half \ StillListed(cal.half)

\* An outage check_snapshots is there to see: of some root the sweep before the
\* open or after the close, three in a row between two that landed (180 s at one
\* a minute let two go by), or more than MinRatio lets a session lose.
Outage(d) == \E r \in EXPECTED_ROOTS :
    LET due  == Cadence(d)
        got  == Captured(d, r)
        lost == due \ got
    IN  \/ ~({PREOPEN, EOD} \subseteq got)
        \/ \E t \in lost : /\ {t + Interval, t + 2 * Interval} \subseteq lost
                           /\ \E a, b \in due \cap got : a < t /\ t < b
        \/ ~Forgotten(d) /\ 100 * Cardinality(due \ lost) < MinRatio * Cardinality(due)

\* A healthy day is never red, whatever the calendar does: weekends, closures
\* and early closes do not fail an audit, by schedule or by a push, nor do
\* sweeps lost short of an outage, once the surface job that PIPELINE_DONE waits
\* for has landed (run_checks, last_completed_session, sweep_window).  Of an
\* early close that the list has forgotten no sweep at all may be lost: the
\* audit takes those after the close for the session's.
HealthyIsGreen ==
    [][(/\ Minute \notin PIPELINE_DONE .. PIPELINE_DONE + 4 /\ missed = 0 /\ ~curveTorn
        /\ Audit /\ IsSession(Graded) /\ ~Outage(Graded)
        /\ \A h \in Harmed(Graded) : h[2] = "sweep" /\ ~Forgotten(Graded)
        /\ \A e \in 1..Graded, ds \in UNDERLYING : IsSession(e) => part[e][ds] # <<>>)
       => Failed = {}]_auditVars

\* A job that did not run, or left a file that will not open, lacks a root or a
\* horizon, or holds other rows than the manifest counts, is named by the audit
\* of that day, except where another job's file stands in for it; and so is an
\* outage of the sweep.  One or two sweeps lost in a row, or a session's first
\* or last few, the audit lets pass; a forgotten early close has the share of a
\* regular session to lose.
HoleIsRed ==
    [][(/\ Audit
        /\ \/ \E h \in Harmed(Graded) : h[2] # "sweep" /\ ~StandIn(h)
           \/ Outage(Graded))
       => report'.findings # {}]_auditVars

\* Two rates runs missed in a row show the next noon, and a week of them fails.
FrozenCurveIsRed ==
    [][Scheduled => /\ missed > 1 => \E f \in report'.findings : f[1] = "rate_curve"
                    /\ missed >= 5 => <<"rate_curve", "FAIL">> \in report'.findings]_auditVars

\* No session's underlying bars age out of the entitlement unless an audit has
\* failed over that very session while it could still be fetched
\* (check_underlying_window, backfill_underlying).
NoSilentExpiry ==
    \A d \in Days : (/\ d < day - Entitlement /\ kept[d]["option_trades"] # NoRow
                     /\ \E ds \in UNDERLYING : part[d][ds] = <<>>) => d \in flagged

-----------------------------------------------------------------------------
\* What the documents say and the code does not keep: TLC refutes each, and no
\* run repeats it.

\* "Per-underlying ticker coverage -- so an SPX-shaped hole cannot again look
\* like a healthy run": a root trades_watchlist captured nothing of is red.
WatchlistHoleIsRed ==
    [][(Audit /\ \E h \in Harmed(Graded) : h[2] = "trades_watchlist")
       => report'.findings # {}]_auditVars

\* "The newest session this audit can fairly grade": a day the exchange was
\* closed is never graded (last_completed_session).
OnlySessionsGraded == [][Audit => IsSession(Graded)]_auditVars

\* "WARN at 3 catches one missed run on the morning after."
OneMissIsWarned ==
    [][(Scheduled /\ missed = 1) => \E f \in report'.findings : f[1] = "rate_curve"]_auditVars

\* "Counted in trading days rather than calendar days precisely so a weekend
\* or a holiday does not read as staleness."
HolidayIsNotStale ==
    [][(Audit /\ missed = 0 /\ ~curveTorn) => \A f \in report'.findings : f[1] # "rate_curve"]_auditVars

\* A session's bars are landed once ("runs this job once each morning").
BarsLandedOnce ==
    \A d \in Days, ds \in UNDERLYING : Len(part[d][ds]) <= 1
==============================================================================
