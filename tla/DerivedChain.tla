---------------------------- MODULE DerivedChain ----------------------------
(***************************************************************************)
(* The T-1 reductions and the archive builders that redo them.  Four jobs  *)
(* run one after the other for the session before today: term_structure    *)
(* (ATM curve off the option day bars), spy_spot (bar close, else parity   *)
(* proxy off that curve), rv_forecast (HAR fit over every spot so far) and *)
(* surface (SVI smiles off the day bars).  scripts/build_*.py walk the     *)
(* sessions and write the same partitions under no lock of the jobs'.      *)
(* Every writer snapshots what is there, writes a new file in place, then  *)
(* moves the snapshot aside; any of them may die between two steps.        *)
(***************************************************************************)
EXTENDS Integers, Sequences, FiniteSets

CONSTANTS LastSession,   \* bound: the last session that comes
          FirstDaily,    \* the first session the daily jobs reduce
          Chains,        \* the day bars a session may have: sets of expiries
          MinStrikes,    \* OTM strikes an expiry needs for a smile
          Windows,       \* Corsi windows, in sessions
          Horizons,      \* forecast horizons, in sessions
          MinTrain,      \* complete training rows a fit needs
          Calendars,     \* what load_session_calendar may answer, at any reading
          Burst,         \* starts systemd gives a unit for one timer
          Rebuilt,       \* the stages an archive pass may redo
          Starts,        \* the --start of an archive pass
          MaxPasses,     \* bound: archive passes
          MaxDeaths      \* bound: processes killed

Sessions == 1..LastSession
Stages   == {"term_structure", "spy_spot", "rv_forecast", "surface"}
Procs    == Stages \cup {"archive"}

ASSUME DerivedAssumption ==
    /\ LastSession \in Nat /\ FirstDaily \in Sessions
    /\ MinStrikes \in Nat /\ MinTrain \in Nat /\ Burst \in Nat
    /\ Windows \subseteq Nat \ {0} /\ Horizons \subseteq Nat \ {0}
    /\ Rebuilt \subseteq Stages /\ Starts \subseteq Sessions
    /\ MaxPasses \in Nat /\ MaxDeaths \in Nat
    /\ Calendars \subseteq [known : BOOLEAN, excused : SUBSET Sessions,
                            unattested : SUBSET Sessions]

VARIABLES
    yesterday,   \* the session the daily jobs reduce today
    chain,       \* option_day_bars: the expiries that traded, by session
    close,       \* underlying_day_bars: whether SPY's bar landed, by session
    part,        \* clean/<stage>/dt=<session>: sets of files
    stamp,       \* the newest file stamp given out, by stage and session
    proc,        \* what each process is doing
    due,         \* starts left of each daily unit; 0: its timer has not fired
    pass,        \* the archive pass: its stage, --force, sessions left, what it fits
    report,      \* spy_spot_calibration.json: the daily moves it measures by
    passes, deaths  \* the counters MaxPasses and MaxDeaths cap

inputs  == <<yesterday, chain, close>>
archive == <<pass, report, passes>>
vars    == <<inputs, part, stamp, proc, due, archive, deaths>>

(***************************************************************************)
(* The reductions.  An expiry of the day bars: dte and vol (the sessions   *)
(* before it) are whole numbers, paired says a strike quotes both legs,    *)
(* otm counts the strikes with an out-of-the-money price worth inverting.  *)
(***************************************************************************)

\* build_rows: same-day expiries, expiries with no session left and
\* expiries with no two-sided strike give no row.
Priced(bars) == {e \in bars : e.dte > 0 /\ e.vol > 0 /\ e.paired}

TermRows(bars) == {[root |-> e.root, dte |-> e.dte] : e \in Priced(bars)}

\* build_surfaces: the European roots only, and enough strikes to fit.
BuildSurfaces(bars) ==
    {[root |-> e.root, dte |-> e.dte] :
        e \in {x \in Priced(bars) : x.root # "SPY" /\ x.otm >= MinStrikes}}

NoRow == [src |-> "none", dte |-> 0]

ShortestSpyTerm(rows) ==
    LET spy == {r.dte : r \in {x \in rows : x.root = "SPY"}} IN
    IF spy = {} THEN 0 ELSE CHOOSE m \in spy : \A n \in spy : m <= n

\* The close where a bar landed, else the proxy off the shortest forward.
Assemble(bar, dte) ==
    CASE bar               -> [src |-> "bars", dte |-> dte]
      [] ~bar /\ dte > 0   -> [src |-> "parity", dte |-> dte]
      [] OTHER             -> NoRow

\* The rows landed in the sessions up to d; a file too many is a row too many
\* of the same session.
Held(spots, d) == Cardinality(UNION {{e} \X spots[e] : e \in 1..d})

\* The landed spots up to a session, in order: each row as its session, the one
\* after those whose rows all come before it.
Series(spots, last) ==
    [i \in 1..Held(spots, last) |->
        1 + Cardinality({d \in 1..last : Held(spots, d) < i})]

\* A calendar: whether there is one at all (CalendarSourceError if not), the
\* sessions it calls closed, as history_audit may have excused them, and those
\* no source attests to.
NoCalendar == [known |-> FALSE, excused |-> {}, unattested |-> {}]

SessionsBetween(cal, a, b) == Cardinality((a + 1 .. b) \ cal.excused)

\* CalendarRangeError: between two rows lies a day that nothing attests to.
Uncovered(series, cal) ==
    /\ cal.known /\ series # <<>>
    /\ (series[1] + 1 .. series[Len(series)]) \cap cal.unattested # {}

\* What it then goes by of the calendar.
Answered(cal) == [cal EXCEPT !.unattested = {}]

\* Mutant of Adjacent: rows that follow each other always are.
AdjacentAlways(cal, a, b) == TRUE

Adjacent(cal, a, b) == cal.known => SessionsBetween(cal, a, b) = 1

\* The daily return of each row, as the pair of sessions it spans; <<>> is a
\* null: the first row, and any row not one session after the row before it.
RealizedVariances(series, cal) ==
    [i \in DOMAIN series |->
        IF i > 1 /\ Adjacent(cal, series[i - 1], series[i])
        THEN <<series[i - 1], series[i]>> ELSE <<>>]

Span(rv, from, to) ==
    IF from >= 1 /\ to <= Len(rv) /\ \A k \in from..to : rv[k] # <<>>
    THEN {rv[k] : k \in from..to} ELSE {}

\* The mean of a window is positive: prints of one session are taken as equal,
\* those of two as different.
Moved(rv, from, to) == \E s \in Span(rv, from, to) : s[1] # s[2]

HarFeatures(rv, i) == \A w \in Windows : Moved(rv, i - w + 1, i)
Target(rv, j, h)   == Moved(rv, j + 1, j + h)

\* Mutant of Train: every origin up to i, its target still open or not.
TrainAhead(rv, i, h) ==
    {j \in 1..Len(rv) : HarFeatures(rv, j) /\ Target(rv, j, h) /\ j <= i}

\* The origins a fit at i for horizon h trains on: those whole target window
\* ended at or before i.
Train(rv, i, h) ==
    {j \in 1..Len(rv) : HarFeatures(rv, j) /\ Target(rv, j, h) /\ j + h <= i}

\* The returns the row for origin i rests on.
Used(rv, i, h) ==
    (UNION {Span(rv, j - w + 1, j) : j \in Train(rv, i, h) \cup {i}, w \in Windows})
        \cup (UNION {Span(rv, j + 1, j + h) : j \in Train(rv, i, h)})

\* Each row keeps, as history, the calendar it was fitted under.
ForecastRows(series, d, cal) ==
    LET rv == RealizedVariances(series, cal) IN
    {[horizon |-> o[1], used |-> Used(rv, o[2], o[1]),
      under |-> Answered(cal)] :
        o \in {x \in Horizons \X DOMAIN series :
            /\ series[x[2]] = d
            /\ HarFeatures(rv, x[2])
            /\ Cardinality(Train(rv, x[2], x[1])) >= MinTrain}}

(***************************************************************************)
(* The partitions.                                                         *)
(***************************************************************************)

Readable(files) == \A f \in files : f.whole
Rows(files)     == UNION {f.rows : f \in files}
HasWhole(files) == \E f \in files : f.whole

\* One smile per expiry: a doubled partition holds an expiry twice and is
\* refused, an empty one as well.
FromRows(files) == IF Cardinality(files) = 1 THEN Rows(files) ELSE {}

\* load_surface: a torn file raises, the rest is up to from_rows.
LoadSurface(d) ==
    LET files == part["surface"][d] IN
    IF Readable(files) THEN FromRows(files) ELSE {}

AlreadyBuilt(st, d) == part[st][d] # {}

\* The moves the proxy's error is measured by: between two bar rows that
\* follow each other.
Calibrate(spots) ==
    LET s == Series(spots, LastSession)
        Bar(d) == \A r \in Rows(spots[d]) : r.src = "bars"
    IN {<<s[i - 1], s[i]>> : i \in {k \in 2..Len(s) : Bar(s[k - 1]) /\ Bar(s[k])}}

\* What a run reduces session d to; {} is "nothing", which fails a daily job.
\* A torn file among those it reads raises, or a calendar that does not cover
\* them, which comes to the same.
BuildTerms(d)    == TermRows(chain[d])
BuildSmiles(d)   == BuildSurfaces(chain[d])
BuildSpot(d)     ==
    LET terms == part["term_structure"][d]
        row   == Assemble(close[d], ShortestSpyTerm(Rows(terms)))
    IN IF Readable(terms) /\ row # NoRow THEN {row} ELSE {}
BuildForecast(d, cal) ==
    LET spots == part["spy_spot"] IN
    IF (\A e \in 1..d : Readable(spots[e])) /\ ~Uncovered(Series(spots, d), cal)
    THEN ForecastRows(Series(spots, d), d, cal) ELSE {}

Build(st, d, cal) ==
    CASE st = "term_structure" -> BuildTerms(d)
      [] st = "surface"        -> BuildSmiles(d)
      [] st = "spy_spot"       -> BuildSpot(d)
      [] st = "rv_forecast"    -> BuildForecast(d, cal)

(***************************************************************************)
(* The processes.  "on" is the stage and session a process works on, prior *)
(* its snapshot, id its file; alone is history: no other writer of that    *)
(* partition has been under way since the snapshot.                        *)
(***************************************************************************)

Off    == [at |-> "off", st |-> "surface", d |-> 1, rows |-> {}, prior |-> {},
           id |-> 0, alone |-> FALSE]
NoPass == [st |-> "surface", force |-> FALSE, todo |-> {}, fits |-> <<>>,
           under |-> NoCalendar]

File(id, rows) == [id |-> id, whole |-> TRUE, rows |-> rows]

\* What the archive holds of a session of old with these bars.
Landed(st, bars) ==
    LET terms == TermRows(bars)
        rows  == CASE st = "term_structure" -> terms
                   [] st = "surface"        -> BuildSurfaces(bars)
                   [] st = "spy_spot"       -> {Assemble(TRUE, ShortestSpyTerm(terms))}
                   [] st = "rv_forecast"    -> {}
    IN IF rows = {} THEN {} ELSE {File(1, rows)}

\* Every session before the first daily one is in the archive.
Init ==
    /\ yesterday = FirstDaily
    /\ \E old \in {c \in Chains : TermRows(c) # {} /\ BuildSurfaces(c) # {}} :
        /\ chain = [d \in Sessions |-> IF d < FirstDaily THEN old ELSE {}]
        /\ part = [st \in Stages |-> [d \in Sessions |->
            IF d < FirstDaily THEN Landed(st, old) ELSE {}]]
    /\ close = [d \in Sessions |-> d < FirstDaily]
    /\ stamp = [st \in Stages |-> [d \in Sessions |-> 1]]
    /\ proc = [p \in Procs |-> Off]
    /\ due = [st \in Stages |-> -1]
    /\ pass = NoPass /\ report = {} /\ passes = 0 /\ deaths = 0

Running(p)     == proc[p].at # "off"
Busy(p, st, d) == /\ proc[p].at \in {"snapped", "writing", "retiring"}
                  /\ proc[p].st = st /\ proc[p].d = d

\* A stage and session reduced to some rows, about to be written.
Ready(st, d, rows) == [Off EXCEPT !.at = "ready", !.st = st, !.d = d, !.rows = rows]

\* What a session still lacks lands before the jobs of a day start: for the
\* session they reduce, or late, for one they have reduced already.  Bound: not
\* while an archive pass is on.
Land(d) ==
    /\ pass = NoPass /\ \A st \in Stages : due[st] = -1
    /\ \E bars \in Chains \cup {{}}, bar \in BOOLEAN :
        /\ chain[d] \in {{}, bars} /\ close[d] => bar
        /\ chain' = [chain EXCEPT ![d] = bars] /\ close' = [close EXCEPT ![d] = bar]
    /\ UNCHANGED <<yesterday, part, stamp, proc, due, archive, deaths>>

(***************************************************************************)
(* The daily jobs.                                                         *)
(***************************************************************************)

Before(st) == CASE st = "term_structure" -> {}
                [] st = "spy_spot"       -> {"term_structure"}
                [] st = "rv_forecast"    -> {"term_structure", "spy_spot"}
                [] st = "surface"        -> Stages \ {"surface"}

Over(st) == due[st] = 0 /\ ~Running(st)

\* A timer fires; the five minutes between two of them see the job before out.
Timer(st) ==
    /\ due[st] = -1
    /\ \A b \in Before(st) : Over(b)
    /\ due' = [due EXCEPT ![st] = Burst]
    /\ UNCHANGED <<inputs, part, stamp, proc, archive, deaths>>

\* A start of a daily job: it reads its inputs, and the calendar as the weekly
\* audit and sync have left it by then; nothing, or a file or calendar that
\* raises, fails it, and the unit tries again while it has starts left.
RunDaily(st) ==
    /\ ~Running(st) /\ due[st] > 0
    /\ due' = [due EXCEPT ![st] = @ - 1]
    /\ \E cal \in IF st = "rv_forecast" THEN Calendars ELSE {NoCalendar} :
        LET rows == Build(st, yesterday, cal) IN
        proc' = IF rows = {} THEN proc
                ELSE [proc EXCEPT ![st] = Ready(st, yesterday, rows)]
    /\ UNCHANGED <<inputs, part, stamp, archive, deaths>>

(***************************************************************************)
(* The archive builders.                                                   *)
(***************************************************************************)

\* A pass from some session on: over the sessions (bound: the audited calendar
\* has every one), or over the origins that have a forecast, all of them fitted
\* at once from one reading of the spots and of the session calendar before the
\* first is written.
StartWalk ==
    /\ pass = NoPass /\ passes < MaxPasses
    /\ \E st \in Rebuilt \ {"rv_forecast"}, force \in BOOLEAN, start \in Starts :
        /\ start..yesterday # {}
        /\ pass' = [st |-> st, force |-> force, todo |-> start..yesterday,
                    fits |-> <<>>, under |-> NoCalendar]
    /\ passes' = passes + 1
    /\ UNCHANGED <<inputs, part, stamp, proc, due, report, deaths>>

StartFit ==
    /\ pass = NoPass /\ passes < MaxPasses /\ "rv_forecast" \in Rebuilt
    /\ \A d \in 1..yesterday : Readable(part["spy_spot"][d])
    /\ \E force \in BOOLEAN, start \in Starts, cal \in Calendars :
        LET fits    == Series(part["spy_spot"], yesterday)
            origins == {d \in start..yesterday : ForecastRows(fits, d, cal) # {}}
        IN /\ origins # {} /\ ~Uncovered(fits, cal)
           /\ pass' = [st |-> "rv_forecast", force |-> force, todo |-> origins,
                       fits |-> fits, under |-> Answered(cal)]
    /\ passes' = passes + 1
    /\ UNCHANGED <<inputs, part, stamp, proc, due, report, deaths>>

\* The next session of the pass: skipped when there is a file and no --force,
\* reported when it comes to nothing.
NextOfPass ==
    /\ ~Running("archive")
    /\ \E d \in pass.todo :
        /\ \A e \in pass.todo : d <= e
        /\ LET rows == IF pass.st = "rv_forecast" THEN ForecastRows(pass.fits, d, pass.under)
                       ELSE Build(pass.st, d, pass.under)
           IN proc' = IF rows = {} \/ (~pass.force /\ AlreadyBuilt(pass.st, d))
                      THEN proc
                      ELSE [proc EXCEPT !["archive"] = Ready(pass.st, d, rows)]
        /\ pass' = [pass EXCEPT !.todo = @ \ {d}]
    /\ UNCHANGED <<inputs, part, stamp, due, passes, report, deaths>>

\* The walk over spy_spot ends by measuring the whole archive again.
EndPass ==
    /\ pass # NoPass /\ pass.todo = {} /\ ~Running("archive")
    /\ pass' = NoPass
    /\ LET spots == part["spy_spot"] IN
        report' = IF pass.st = "spy_spot" /\ \A d \in Sessions : Readable(spots[d])
                  THEN Calibrate(spots) ELSE report
    /\ UNCHANGED <<inputs, part, stamp, proc, due, passes, deaths>>

(***************************************************************************)
(* write_rows, by job and builder alike.                                   *)
(***************************************************************************)

\* Mutant of Snapshot: what is there is moved aside before the write.
SnapshotQuarantines(p) ==
    LET st == proc[p].st
        d  == proc[p].d
    IN /\ proc[p].at = "ready"
       /\ part' = [part EXCEPT ![st][d] = {}]
       /\ proc' = [proc EXCEPT ![p].at = "snapped"]
       /\ UNCHANGED <<inputs, stamp, due, archive, deaths>>

\* Mutant of Snapshot: the prior files that can be read only.
SnapshotReadable(p) ==
    LET st == proc[p].st
        d  == proc[p].d
    IN /\ proc[p].at = "ready"
       /\ proc' = [q \in Procs |->
            IF q = p
            THEN [proc[p] EXCEPT !.at = "snapped",
                    !.prior = {f.id : f \in {g \in part[st][d] : g.whole}},
                    !.alone = \A r \in Procs \ {p} : ~Busy(r, st, d)]
            ELSE [proc[q] EXCEPT !.alone = @ /\ ~Busy(q, st, d)]]
       /\ UNCHANGED <<inputs, part, stamp, due, archive, deaths>>

\* The prior files, whatever state they are in.
Snapshot(p) ==
    LET st == proc[p].st
        d  == proc[p].d
    IN /\ proc[p].at = "ready"
       /\ proc' = [q \in Procs |->
            IF q = p
            THEN [proc[p] EXCEPT !.at = "snapped",
                    !.prior = {f.id : f \in part[st][d]},
                    !.alone = \A r \in Procs \ {p} : ~Busy(r, st, d)]
            ELSE [proc[q] EXCEPT !.alone = @ /\ ~Busy(q, st, d)]]
       /\ UNCHANGED <<inputs, part, stamp, due, archive, deaths>>

\* The new file is created under its final name, and readable only once done.
Open(p) ==
    LET st == proc[p].st
        d  == proc[p].d
        id == stamp[st][d] + 1
    IN /\ proc[p].at = "snapped"
       /\ stamp' = [stamp EXCEPT ![st][d] = id]
       /\ part' = [part EXCEPT ![st][d] =
            @ \cup {[id |-> id, whole |-> FALSE, rows |-> proc[p].rows]}]
       /\ proc' = [proc EXCEPT ![p].at = "writing", ![p].id = id]
       /\ UNCHANGED <<inputs, due, archive, deaths>>

\* The file is complete: in place, or where another writer moved it to.
Finish(p) ==
    LET st == proc[p].st
        d  == proc[p].d
    IN /\ proc[p].at = "writing"
       /\ part' = [part EXCEPT ![st][d] =
            {IF f.id = proc[p].id THEN [f EXCEPT !.whole = TRUE] ELSE f : f \in @}]
       /\ proc' = [proc EXCEPT ![p].at = "retiring"]
       /\ UNCHANGED <<inputs, stamp, due, archive, deaths>>

\* quarantine_prior moves one file of the snapshot; one that is gone is passed.
Retire(p) ==
    LET st == proc[p].st
        d  == proc[p].d
    IN /\ proc[p].at = "retiring"
       /\ \E id \in proc[p].prior :
            /\ part' = [part EXCEPT ![st][d] = {f \in @ : f.id # id}]
            /\ proc' = [proc EXCEPT ![p].prior = @ \ {id}]
       /\ UNCHANGED <<inputs, stamp, due, archive, deaths>>

\* The run ends well: systemd starts the unit no more.
Exit(p) ==
    /\ proc[p].at = "retiring" /\ proc[p].prior = {}
    /\ proc' = [proc EXCEPT ![p] = Off]
    /\ due' = [st \in Stages |-> IF st = p THEN 0 ELSE due[st]]
    /\ UNCHANGED <<inputs, part, stamp, archive, deaths>>

\* A process dies, alone or with the host: then no unit starts it again.  One
\* that has opened no file leaves nothing behind, like a start that failed.
Kill(p) ==
    /\ proc[p].at \in {"writing", "retiring"} /\ deaths < MaxDeaths
    /\ deaths' = deaths + 1
    /\ proc' = [proc EXCEPT ![p] = Off]
    /\ pass' = IF p = "archive" THEN NoPass ELSE pass
    /\ \E left \in {0, 1} :
        due' = [st \in Stages |-> IF st = p THEN left * due[st] ELSE due[st]]
    /\ UNCHANGED <<inputs, part, stamp, passes, report>>

\* The next trading day; the daily jobs of this one are over.
Tomorrow ==
    /\ yesterday < LastSession
    /\ \A st \in Stages : Over(st)
    /\ yesterday' = yesterday + 1
    /\ due' = [st \in Stages |-> -1]
    /\ UNCHANGED <<chain, close, part, stamp, proc, archive, deaths>>

Next ==
    \/ \E d \in FirstDaily..yesterday : Land(d)
    \/ Tomorrow
    \/ \E st \in Stages : Timer(st) \/ RunDaily(st)
    \/ StartWalk \/ StartFit \/ NextOfPass \/ EndPass
    \/ \E p \in Procs :
        Snapshot(p) \/ Open(p) \/ Finish(p) \/ Retire(p) \/ Exit(p) \/ Kill(p)

Spec == Init /\ [][Next]_vars

(***************************************************************************)
(* Properties.                                                             *)
(***************************************************************************)

TypeOK ==
    /\ yesterday \in Sessions
    /\ chain \in [Sessions -> Chains \cup {{}}] /\ close \in [Sessions -> BOOLEAN]
    /\ stamp \in [Stages -> [Sessions -> Nat \ {0}]]
    /\ \A st \in Stages, d \in Sessions : \A f \in part[st][d] :
        f.id \in 1..stamp[st][d] /\ f.whole \in BOOLEAN
    /\ \A p \in Procs :
        /\ proc[p].at \in {"off", "ready", "snapped", "writing", "retiring"}
        /\ proc[p].st \in Stages /\ proc[p].d \in Sessions
        /\ proc[p].prior \subseteq 1..stamp[proc[p].st][proc[p].d]
    /\ due \in [Stages -> -1..Burst]
    /\ passes \in 0..MaxPasses /\ deaths \in 0..MaxDeaths

\* A session once readable stays readable: whichever writers overlap and
\* wherever they die, a partition that holds a whole file goes on holding one
\* (the write-then-quarantine order of the four write_rows).
NeverEmptied ==
    [][\A st \in Stages, d \in Sessions :
        HasWhole(part[st][d]) => HasWhole(part'[st][d])]_vars

\* A run that met no other writer leaves its own file and nothing else, also
\* after runs that died or doubled the partition, and load_surface answers it.
QuietRunHeals ==
    [][\A p \in Procs :
        LET w == proc[p] IN
        w.at = "retiring" /\ w.prior = {} /\ w.alone /\ proc'[p].at = "off" =>
            /\ part'[w.st][w.d] = {File(w.id, w.rows)}
            /\ w.st = "surface" =>
                \A d \in Sessions : d = w.d => LoadSurface(d)' = w.rows]_vars

\* The rows of a series that had landed by session d.
Known(series, d) ==
    SubSeq(series, 1, Cardinality({i \in DOMAIN series : series[i] <= d}))

\* Point in time: the row an archive pass fits for an origin, with every later
\* spot at hand, is the row the daily job fits on the spots up to it, under the
\* same calendar, whenever the pass turns to what it has fitted.
PointInTime ==
    ~Running("archive") => \A d \in {pass.fits[i] : i \in DOMAIN pass.fits} :
        ForecastRows(pass.fits, d, pass.under) = ForecastRows(Known(pass.fits, d), d, pass.under)

\* No forecast rests on a return across a missing session, or of a session
\* with itself: a hole or a doubled spot shortens the history.  Two cases are
\* excepted: a forecast fitted without any calendar takes rows that follow each
\* other as adjacent, and one fitted under a calendar that wrongly calls closed a
\* session the return reaches over, or ends on.
HonestReturns ==
    \A d \in Sessions : \A f \in part["rv_forecast"][d] : \A r \in f.rows :
        \A span \in r.used :
            /\ span[2] <= d
            /\ r.under.known => span[1] < span[2]
            /\ (r.under.known /\ (span[1] + 1 .. span[2]) \cap r.under.excused = {})
                 => span[2] = span[1] + 1

-----------------------------------------------------------------------------
\* What the documents say and the code does not keep: TLC refutes each, and no
\* run repeats it.

\* "A hole shortens the training set rather than fabricating a multi-day 'daily'
\* return" (signals/har_rv.py:60), and not only under a calendar that is right.
ReturnsAreDaily ==
    \A d \in Sessions : \A f \in part["rv_forecast"][d] : \A r \in f.rows :
        r.under.known => \A span \in r.used : span[2] = span[1] + 1

\* "Only consecutive *calendar-adjacent bar rows* count as a daily move"
\* (signals/spot.py:246): rows with a missing session between do too.
MovesAreDaily == \A move \in report : move[2] = move[1] + 1
=============================================================================
