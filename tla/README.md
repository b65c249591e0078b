# A verification project for Crack-the-Sky

TLA+ models of the parts of this repository that keep state between runs, fail
halfway and run beside each other; the TLC runs that check them on small
instances; and TLAPS proofs of their main properties for every instance.

Crack-the-Sky is a market-data pipeline on one box: some twenty jobs, started
by systemd timers (`deploy/schedule.json`) or by hand, capture option data over
REST, S3 and a websocket, and land it as parquet. No job talks to another. They
meet in the file system: in `clean/<dataset>/dt=<date>/`, in the small JSON
files under `_meta/`, in locks, and in the checks of a Healthchecks server.
What is hard is therefore what happens when jobs overlap, die between two
writes, are retried or restarted, and read what another is about to change.

## Inventory

| Part | State it keeps | Operations | Hard | Correct when |
|---|---|---|---|---|
| Flat-file archive (`flatfile_pull`, `landing`, `reconcile`, `prune_raw.sh`, `refilter.sh`, `repair.sh`) | raw csv.gz, parquet files, quarantine, `_meta/flatfile_manifest.json` | pull, pull `--replace`, `--force-download`, reconcile, prune | overlapping runs on one partition, deaths between two files, a list used long after it was read | nothing readable is lost, the manifest is true, rows count once |
| Outbound rate limit (`common/ratelimit`) | `_meta/ratelimit.json` | `acquire` at two priorities | callers in many processes, deaths, a stepped wall clock, a lingering claim | the rate is kept, the sweep is preferred, nobody starves |
| REST day-bar sweep (`eod_dayaggs_rest`) | checkpoint and sidecar of bars | resume, fetch, append, save, land, clear | two files that do not change together, another date's leftovers | no silent gap, no bar twice |
| Trades poller (`trades_watchlist`) | cursors, backoff ladder | poll, land by trade date, prune, save | partial failure, deaths before the save, backoff, the flat file landing beside | duplicates, never gaps; arrival; outages surface |
| Job runner (`common/cli`, `cronjob.sh`, unit templates) | a lock, systemd's view of the unit, the check | start, gate, retry, report, restart, alert | deaths at any point, several units of one job, lost pings | a green check is true, a started check is settled |
| Snapshot sweep (`snapshot_sweep`) | none; its files are landed per chain | fetch and land each chain, raise or return | chains fail in any order, retry in process | no chain twice, the all-chains check is true |
| Websocket capture (`ws_minute_bars`) | an hourly file, a queue, a thread | connect, read, write, rotate, stop | the writer thread against the event loop, a full disk, silence | no success unless every bar received is in a file, one verdict, the job ends |
| Session calendar (`market_gate`, `holidays_sync`, `history_audit`, `pricing/calendar`) | `_meta/holidays.json`, its cache in each process, the raw partition of the fetch, `_meta/trading_days.json` | sync, gate, load, count sessions; audit, probe, save | two files with different knowledge, a cache, a probe made early, a file truncated in place | no answer is stale or wrong; where nothing is known the calendar refuses |
| Reference syncs (`contracts_sync`, `dividends_sync`, `rates_sync`, `underlying_bars`, `grouped_daily`, `backfill_underlying`) | dated partitions that are appended to, a cursor | fetch, diff against a baseline, land | several passes in one partition, restarts after half a run, a walk cut short | readers choose the last landing, history has no hole |
| Broker executions (`ibkr_executions`) | dated partitions | ask, poll, check the period, land | statements of another day, late or under other names | fills are filed under the day of their statement |
| Coverage audit (`coverage_audit`) | `_meta/coverage.json` | grades one session against everything above | closures, early closes, curves that trail, history that expires | red when something is missing, green when nothing is |
| Signals and builders (`term_structure`, `spot`, `har_rv`, `surface`, `scripts/build_*.py`) | one partition per stage and session | reduce the session before today; redo the archive | two writers of one partition, holes in the series, fits over a series that holds the future | a readable session stays readable, no forecast looks ahead |
| Warehouse reads (`marketdata`, `ingest/jobs/__init__`) | none | whole partition, as-of, newest | selection among files, torn files | — |
| Pricing | none | floating-point mathematics | — | — |

How they interact: every REST request of every job goes through the rate limit;
every Python job runs inside `run_job`, inside `cronjob.sh`, inside a unit;
`trades_watchlist` leaves a day to `flatfile_pull` once the manifest lists it;
`reconcile` rewrites what `flatfile_pull` landed; `prune_raw.sh` deletes what the
manifest says was parsed; the audit judges the manifest and the partitions. The
gate reads what `holidays_sync` wrote, pricing joins that list with what
`history_audit` attested; the reductions read what the archive, the underlying
bars and each other landed.

## Modules

| Module | Models | Proofs |
|---|---|---|
| `Archive` | what the archive promises: readable stays readable, the manifest records only that and forgets nothing | |
| `FlatfileArchive` | the archive and every process that changes it, step by step | `ArchiveProofs` |
| `SharedTokenBucket` | the bucket file and its callers | `RestProofs` |
| `DayAggsCheckpoint` | the day-bar sweep with checkpoint and sidecar | `RestProofs` |
| `TradesPoll` | the trades poller beside the vendor and the flat files | `TradesPollProofs` |
| `JobRun` | one job: units, lock, `run_job`, pings, alert. What the job does is left open | |
| `SnapshotSweep` | the sweep inside `JobRun`; shown to implement it | `SnapshotSweepProofs` |
| `WsCapture` | one run of the websocket capture: supervisor, writer thread, main | `WsCaptureProofs` |
| `SessionHistory` | the archive over many days, by file landed or not: late publication, the sweep over recent days, the history audit and its calendar | `SessionHistoryProofs` |
| `SessionCalendar` | `holidays_sync`, the gate's cache, `load_session_calendar` and what it answers | `SessionCalendarProofs` |
| `CoverageAudit` | the day's timetable, what each job leaves, and every check of the audit over it | `ArchiveProofs` |
| `DerivedChain` | the four daily reductions beside the archive builders | `DerivedChainProofs` |
| `AppendingSyncs` | the four jobs that append what a service lists, and the readers that choose among their files | `RestProofs` |

`MC*` modules give values to constants. A `.cfg` belongs to each run.

### FlatfileArchive

`file` is the list of parquet files in order of creation (names carry a stamp;
the model's index is that order), each with its partition, the job in its name,
whether its write is complete, where it lies and whose rows it holds. `raw` and
`writer` are the csv.gz and the process that truncated it last; `manifest` holds
entries with and without rows kept; `index` is prune's list. A process goes
through `_pull_dataset` or reconcile's `_main` one file operation at a time: the
steps are the points where another process can run or this one can die. A run
that overlaps another on a partition, dies after opening its output, or rewrites
in a way that doubles, puts the partition in the history variable `tangled`;
`OnlyKnownDoubleCounts` says that nothing else doubles rows. A second one,
`overtaken`, records the partitions where reconcile listed for quarantine a file
that had landed after it read: its rows are then in `quarantine/` only, and
`QuarantineSuperseded` asks of such a partition no more than a newer complete
file. Everywhere else the stand-in must carry every row of what was moved, or a
later pull of the same vendor file. `--limit`, `--dry-run` and the waiting for
publication change no state of the archive that the properties see and are left
out. Rows are told apart by the pull that filtered them.

### SharedTokenBucket

A tick is the time one token takes to refill. The file's stamp and claim are
kept relative to the wall clock, so that a step of that clock is one action.
Everything `acquire` does under the flock is one step (`Park`, `Grant`,
`Wait`); a death between `truncate` and `flush` is `DieWriting`. Sleeps end up
to `Lag` ticks late. The assumption `ClaimOutlastsSleep` is what the deployed
numbers give (a claim of one second, 60 ticks, against sleeps of one token):
preemption needs it, and both the checks and the proof use it. Because a LOW
caller leaves `Reserve` tokens, it draws only when more than that has refilled.

### DayAggsCheckpoint

Contracts are numbered in the order they are fetched, and a bar is a contract
and a date. The sidecar is a count of lines per bar and the state of its end:
whole, without its last newline, or torn. `spoiled` records that one of the two
windows was met in which the code duplicates (a death after appending and
before saving; a start over on a sidecar that was left).

### TradesPoll

A trade has a ticker, a time and a day. One poll is one step, because pool
threads share only what they merge under a lock; a run's landings and its two
saves are steps of their own, with deaths between. The vendor publishes late
and out of order; `overtaken` records trades that a cursor had passed, which no
poller can see. The flat file of a day goes through "file" (the parquet is
there, perhaps torn) to "recorded". A flat file is taken to hold every trade of
its day. Trades without `sip_timestamp` and `--dry-run` are left out.

### JobRun and SnapshotSweep

`JobRun` is a job under its units: systemd starts, restarts and fails them,
`cronjob.sh` takes the lock or skips, `run_job` pings, gates, retries and
reports, and the alert unit pings when a unit fails. Units without `Restart=`
fail at once; those with it wait and are started again until the limit. A
member of `Units` that is not `Scheduled` is a run by hand through the same
wrapper; only that one can be interrupted. `Main` says all a job may do, and
`SnapshotSweep` refines it: one thread per chain that lands its files or fails,
and the decision to raise, to ping the all-chains check or to return. The rest
of `SnapshotSweep` is `JobRun`'s actions, so that TLC checks (`JobSpec`) and
TLAPS proves that every behaviour of a sweep is one of a job.

### WsCapture

`at` says where each bar is: still to come, missed, in the queue, in the
writer's hand, in the buffer of the open file, written to it, in a finished
file, in a plain file and its gzip both, or lost. `pc` is main's position, from
the `/start` ping through the supervisor's loop (`connect`, `reading`, `drop`,
`wait`) to `stop` and the handlers; `exc` is what it has caught; `w` is the
writer. Each failing step names what it leaves behind: a `close` that fails at
its flush loses buffered rows and keeps `_fh` set, one that fails at the gzip
leaves a truncated `.gz`, one that fails at the unlink leaves two copies. The
queue is a set, because no property depends on its order, and silence before
the ACK is one of the reasons of `Disconnect`. `settle` is two steps, the
decision and the ping, so that Ctrl-C falls between them too. After an
interrupted `stop` main goes on beside a writer that still drains. Bars missed
are sorted by what `ws_gap` says of them: `missed` since `gap_from`, `logged`,
or `unlogged` once `gap_from` has moved past them.

The comment that every exit path below it sends a terminal ping
(`ws_minute_bars.py:614`) does not hold when the handler's own log line fails,
nor when Ctrl-C falls between decision and ping. The model has both
(`HandlerRaises`, `Interrupt`), `ExitAgrees` and `VerdictStands` are proved in
spite of them, and neither claims that a ping is sent. That a run interrupted
after writer errors reports success is stated by the code ("interrupted by
operator") and excepted in `GreenIsComplete`.

### SessionHistory

`manifest` and `part` hold, by day, the datasets the manifest lists and those
whose partition has rows; a pull is the set `todo` of what is left of it, in
the order the job takes it: the incomplete recent days, oldest first, then the
target. `Land` is one file, `PullFails` a death or an exception with the
parquet there or not. The vendor publishes any file of a past session at any
time, and the noon cutoff is a 404 that is not waited for. The audit goes day
by day over its copy `mem` of `trading_days.json`; rows on disk, the cached
answer and the probe are its three sources, in this order. `torn` is a death in
`save_calendar`, `excused` records sessions whose probe came before their
publication: `CalendarHonest` and `AuditConverges` except them, and so would not
notice more of them.

### SessionCalendar

A sync's two writes are the sequence `Writes`: the raw partition, whose date is
the only record of when the list was fetched, then the list. `call` is a call
of `_load_records`: it stats, and reads only on an mtime the cache does not
have; `seen` is every list the file held while it ran. `held` is what
`load_session_calendar` has read, three calls and a listing one after the
other, and `cal` what it built; `hol` and `half` of it may come from two
different fetches. `known` in a list is history: what the vendor had announced
when it was fetched.

### CoverageAudit

The day is a `Timetable` of minutes and jobs taken from `deploy/schedule.json`;
`Idle` is a slot whose timer or gate says no. A job runs, misses (it stops, and
may be back when it is next due) or comes out wrong; `harm` records what the
audit ought to see. Each `check_*` is an operator that gives findings, and
`RunChecks` is their union; `Audit` also runs at the minutes of a push.
Partitions are sequences of files with the few marks a check looks at.
What was captured before day 1 is taken to be complete.

### DerivedChain

`chain` is a session's option bars, reduced to what decides whether an expiry
gives a term, a smile or a spot. `Build` is what each stage reads and makes of
it. A return is the pair of sessions it spans and a forecast the set of returns
it rests on (`Used`), so that looking ahead, or a return over a hole, is a
visible fact. The calendar of each reading is one of `Calendars`, because the
audit and the sync rewrite it meanwhile: none at all (`CalendarSourceError`:
rows that follow each other are taken as adjacent), one with sessions nothing
attests to (`CalendarRangeError` fails the run where it meets them), one that
calls a session closed (`excused`, as `history_audit` may; neighbours across it
count as adjacent), or a right one. A forecast keeps the calendar it was fitted
under. A writer snapshots a partition, opens its file in place, completes it and
retires the snapshot file by file; `alone` records that no other writer met it.
`Land` is a late input. An archive pass walks sessions, or fits all its origins
from one reading of the spots.

### AppendingSyncs

A run walks its items: fetch, or for Flex ask and poll; the baseline of the
contracts diff; open, finish; at the end the cursor. A file knows its
underlying and what it says, `Torn` when it will not open. A Flex statement lists
the fills of every account; a run keeps its own account's when `IBKR_ACCOUNT_ID`
is set and all of them when it is not (`Scopes`). The readers are
operators over `part`: `PreviousTickers`, `LatestContracts`, `LoadDividends`,
`PvDividends`, `LoadCurve`. The vendor's answers are functions of the day, so
that each landing differs from the one before.

## Runs

| Run | Instance | Shows |
|---|---|---|
| `flatfile` | 2 processes, a reconciled partition and a blank one, 3 runs, 1 death | the safety of the archive and the refinement of `Archive` |
| `bucket` | 2 NORMAL callers, 1 LOW, burst 3, clock steps of up to 2, 1 fault | the rate is kept, both priorities progress |
| `dayaggs` | 2 dates, 4 contracts in batches of 2, 4 deaths | no gap; exact unless spoiled |
| `trades` | a busy and a quiet ticker, 2 days, backoff of 2, 1 fault | no gap, no trade twice unless rewound, outages surface, trades arrive |
| `sweep` | a minute and an `--eod` unit and a run by hand, 2 chains, 2 attempts, limit 2, 1 fault | checks tell the truth, nothing is landed twice, the sweep is a job, verdicts arrive |
| `ws` | 3 bars, 2 faults | success only for a complete capture; the run ends |
| `history` | 3 days, 2 datasets, lookback 1, a hand-run audit, 1 fault | the calendar says nothing untrue, the audit converges, late files land |
| `calendar` | a weekend day, a closure, a half day; 3 syncs | calls are current, answers sound, counts exact |
| `coverage` | 9 days of two calendars, 22 slots a day, 1 fault | healthy days pass, holes beyond the tolerance and a frozen curve do not, nothing expires unseen |
| `derived` | 4 sessions, 2 of them daily, 4 calendars, one start a timer, 1 pass over spots or forecasts, 1 death | nothing is emptied, quiet runs heal, forecasts are point in time and honest |
| `appending` | 4 days, each of four jobs, 1 run by hand, 1 fault | readers choose the last landing, days and history are right |
| `dividends_twice` | `dividends_sync` alone, 1 fault | *violated*: dividends land before the splits are asked for, and a restart lands them again in the same partition |

Type invariants that are proved (see Proofs) are not checked again by a run,
nor are `SkippedLessThanCap`, `AllChainsMeansAll`, `ExitAgrees`,
`VerdictStands` and `ClaimCoversWaiters`.

Disagreements. `dividends_twice` is one between the code and what it says of
itself. The modules state more that TLC refutes, each at its end under a
comment that says so, without a run that repeats it:

- `FlatfileArchive.ReplacedCopyIsInClean`: a rewrite that lands between
  reconcile's reading and its listing is moved aside, and its rows are in no file
  of `clean/`.
- `FlatfileArchive.GreenMeansCountedOnce`: a reconciled partition that was
  re-filtered counts rows twice, and the audit is green.
- `DayAggsCheckpoint.NoForeignBars`: a start over on a sidecar that was left
  lands bars of another date.
- `TradesPoll.OutageFailsTheRun`: a run without any answer succeeds.
- `JobRun.RetriedOrGivenUp`: a restart that meets the lock forgets the failure.
- `SnapshotSweep.NothingLandedBeforeRetry`: a chain that landed is swept again.
- `WsCapture.OutagesLogged`: a bar missed in the backoff sleep is in no gap.
- `SessionHistory.NoSessionExcused`: a probe before publication makes a session
  a holiday for good. `SweepNeverMasksTarget`: the sweep over recent days
  raises, and the target waits for the restart.
- `SessionCalendar.WindowIsOneList`: a calendar loaded across a sync joins the
  closures of one list with the window of another. The answers stay sound.
- `CoverageAudit.WatchlistHoleIsRed`: rows of the flat file hide a root
  `trades_watchlist` captured nothing of. `OnlySessionsGraded`: a push on an
  unscheduled closure grades the closure. `OneMissIsWarned`,
  `HolidayIsNotStale`: the day's own run comes before the audit, so that one
  missed run is not yet past the limit; and a closure that has dropped off the
  list of upcoming ones counts as a trading day, so that some holidays warn.
  `BarsLandedOnce`: the night's backfill fetches what the morning's job lands
  again.
- `DerivedChain.ReturnsAreDaily`: a return reaches over a session that its
  calendar wrongly calls closed. `MovesAreDaily`: the report measures moves
  between bar rows that follow each other, across a hole too.

Others have no property. A claim in the rate limit's file outlives the wait of
a caller that was served (`ratelimit.py:222`). Bars the day-bar sweep drops at
one resume stay in the sidecar, where a second resume finds them beside the
refetched ones (`eod_dayaggs_rest.py:128`). A contracts file that a death left
torn fails every later run that reads its partition for a baseline
(`ingest/jobs/__init__.py:165`), and the diff of a run killed between landing
and log line is never logged. `latest_contracts` gives the underlyings of the
newest partition only. The Flex query's period is the last business day: fills
of a day on which every run failed are not asked for again, and a run repeated
lands them twice.

Bounds. `MaxRuns`, `MaxCrashes`, `MaxFaults`, `Jump` and `LastDay` bound what a
behaviour may contain and nothing else; each is in a guard. Three runs over one
partition are what a pull, a reconcile and a rewrite need, and with two
processes each pair of them overlaps. Four deaths let a sweep die, be resumed
and die again for each of two dates. Backoff of 2 and two days let a ticker be
skipped, due again, and be skipped over midnight. Two attempts and a start
limit of two are the fewest that have a retry and an exhausted limit. Three
bars put one in the file, one in the buffer and one in hand when two faults
meet. Three days of `SessionHistory` are one in the lookback, one that leaves it,
and the target. Nine days of `CoverageAudit` are a week with its neighbours, so
that each calendar has a closure, an early close and a weekend inside the
curve's lag, and a window of four days lets history expire. A session has five
sweeps where the code has 421. The widest gap allowed is three intervals, as in
the code (180 s at one a minute), so that two sweeps missed in a row pass and a
third is seen: that is so of sweeps on the dot, which the model's are; on the box
a gap of 180 s and a little more is already a WARN. The share a session may lose
cannot be the code's 95 % with five sweeps: at 40 % three of five may go (21 of
421 in the code), and one of the three of an early close, so that, as in the
code, the gap is seen before the share is spent. What is within both is no
outage (`Outage`) and passes without a finding, also in the code; `HoleIsRed`
and `HealthyIsGreen` say so from the timetable, and not by the audit's own
operators. In `DerivedChain`
two daily sessions follow two of the archive, a fit needs one row, and the
pass redoes either the spots, which the next stage reads, or the forecasts,
which it fits all at once; the calendars are none, one that ends before the last
session, a right one, and one that calls session 3 closed; a timer gives one
start, so that a unit's second try is outside the run (the proofs hold of any
`Burst`). In `AppendingSyncs` two pages of two
dates leave a walk unfinished. `MaxSyncs` of three lets a sync die, one fill
the cache and one replace it. One fault elsewhere is enough for each kind of
fault by itself; that faults do not combine into something worse is what the
proofs add, which hold for every value.

Assumptions about the environment beyond the bounds: `AppendingSyncs` follows
one job per behaviour (they share no dataset), with one run by hand at a time;
the vendor's list changes only while no run is under way and is never empty for
a moment; fewer weekdays are missed in a row than a page has dates; a Flex
statement is of one day and carries its period (one of several days, or without
a period, is left out); a run has the account set or not throughout; stamps
differ; a torn file makes its reader raise. In `CoverageAudit` no closure runs
through a week, and a sweep lands on its day. In `SessionCalendar` the instance
has no `--date` (`Dates`): a `--date` run by hand may put a fetch under another
day, after which soundness no longer holds. In `DerivedChain` inputs do not land
while an archive pass is on.

Fairness. `bucket`: clocks run, and a process whose sleep is over gets its turn
(the kernel schedules it; the flock is held for one read and write). `trades`:
the timer starts runs for ever, a run that is not killed goes on, and an outage
ends. `sweep`: a run that is not disturbed goes on (every request and ping has
a timeout), timers fire, restarts and alerts are carried out. `ws`: the window
closes, main and the writer thread each go on as long as they can (connecting,
authentication and each receive have timeouts). `history`: a pull or an audit
that is not killed goes on (weak), and the two timers fire again and again
whatever is run by hand between (strong, since a run by hand disables them
for its time). No fairness is
assumed of faults, of publication, of requests, of runs by hand or of a clock
being stepped. The other runs check safety only.

Deadlock is checked in `flatfile`, `bucket`, `dayaggs`, `trades` and `sweep`,
whose systems never stop. A run of `WsCapture` ends when its process does, and
`SessionHistory`, `SessionCalendar`, `CoverageAudit`, `DerivedChain` and
`AppendingSyncs` end with their last day.

## Proofs

Each theorem holds for all constants that satisfy the module's `ASSUME`s.

- `ArchiveProofs`. `FlatfileArchive`: the inductive invariant `IInv` says where
  the rows are: a partition that was ever complete has a complete file in
  `clean/`, the list of files a run will move is older than the file it has
  written, a manifest entry, and a copy of the manifest held under the flock, is
  of a complete partition, and prune's list is too. From it follow
  `PruneNeverDeletesTheOnlyCopy` and that every step maps to a step of `Archive`
  or to a stutter (`Refinement`). Quarantining only files older than one's own
  is what keeps two rewriting runs from moving each other's output away: the
  newest complete one stays. `QuarantineSuperseded` is about rows, and needs
  `CarryInv` beside it: a file of `flatfile_pull` holds the rows of its own pull
  (`PullsOwn`), what a run is about to move it has read, or it is reconcile on
  an `overtaken` partition (`ListedRead`), and so its own output carries them
  (`MineCarries`). `DoubleCountsAreKnown` needs more, `CountInv`: on a partition
  that is not `tangled` a process is alone (`Alone`), with nobody writing each
  row is there once (`Undisturbed`), and a process knows what is there before it
  writes (`Preparing`) and moves whatever it repeats (`Writing`).
  `CoverageAudit`: `Goes` says what no step does: empty a partition, change a
  manifest row of a day more than a week back, or take back a warning.
  `ExpiryInv` says that a hole which was at the edge of the window on the noon
  of an audited day has been failed over. A hole is at the edge for `EdgeDays`
  and one more, so that for `NothingExpiresUnsaid` it is enough that the noon's
  audit is in the timetable (`AuditIsScheduled`) and that the edge outlasts a
  weekend and begins after a week and a day, when the pull of its session is
  over (`EdgeIsWide`; in the code the edge is 30 days of a window of 723). The
  `coverage` run has a narrower window, so that history expires within its nine
  days.
- `RestProofs` holds the proofs of the three components that talk REST.
  `SharedTokenBucket`: tokens in the file, with what has refilled since its
  stamp, never exceed `credit`, the bucket in real time; and a caller whose wait
  is stamped sleeps for less than its claim lasts. `DayAggsCheckpoint`: what is
  done is in memory or on its way to the sidecar, and a checkpoint's tickers
  have their lines there. `ExactInv` counts them. `AppendingSyncs`: `Said` is
  what a whole file of a dataset, an underlying (of Flex, account or not) and a
  day says, and `FileInv` carries it from a run to its partition: what a run has
  fetched says that (`RunOK`), the newest file it has open is of the item it is
  at (`Mine`), and every file says it or is torn, under a day its gate or its
  statement gave it (`FilesOK`). `FiledUnderTheirDay` and `LastLandingIsRead`
  follow; since no step takes a landed date away, so does the action property
  `CurveNeverAges`. `HistInv` is about the walk of `--full`: what has landed has
  no hole above the saved cursor, and with what the shell holds none above the
  cursor in its memory (`Reached`); what a run without `--full` holds goes back
  to the first day (`Window`), so that it joins what was there (`Recent`).
  `HistoryContiguous` holds under one condition, `PageReachesBack`: the weekdays
  of the behaviour fit in the page a run without `--full` asks for (500 dates in
  the code). Runs that all fail for longer than that leave a hole that `--full`
  never asks for again; they are outside the theorem.
- `TradesPollProofs`: a run's cursor is covered by what is saved, got, or
  landed (`NeverGaps`); the ladder's wait and the count of skipped runs add up
  to less than the cap (`SkippedLessThanCap`, `OutageSurfaces`).
- `SnapshotSweepProofs`: `JobInv` of `JobRun` says that after a failure an alert
  or a restart is due unless the check already heard; `FirstKnown` and `LandInv`
  relate the threads of a sweep to what has landed in each attempt. `SweepStep`
  shows that each step of a sweep is one of a job.
- `WsCaptureProofs`: `Course` says what each exception leads main to decide,
  `Shelf` that any bar lost or doubled has been counted, or has put main on its
  way to a failure, and `Green` that a decision of success is taken only once
  the writer is gone, its file closed, nothing damaged and something kept:
  after it no bar can move, so that the ping is as true as the decision.
- `SessionCalendarProofs`: `Fresh` says that a list cached under the file's own
  mtime is the file's list, and gives `CallCurrent` for any number of syncs.
  `Sourced` says that every list, in the file, the cache or a calendar, is what
  had been announced from its day on, and that the raw partition of that day is
  there before the list is; with it a calendar's window begins no earlier than
  its closures were fetched, and `AnswerSound` follows, for any calendar and any
  number of syncs that die anywhere, where none is given a `--date` (the theorem
  assumes `Dates = {}`). `CountsAreExact` shows, under the same assumption, that
  the loop over an interval counts what a set of its sessions holds: were some
  interval miscounted, the shortest one would not be.
- `SessionHistoryProofs`: `SessionsOnly` says that what is published and what
  is landed are of sessions, `AuditHonest` that the days an audit has in memory
  as sessions or closures are, and that the days it fails over are sessions.
  `CalendarHonest` follows for what it writes. `Bounded` is for the types.
- `DerivedChainProofs`: `Guarded` says that each writer's snapshot is older than
  the file it has written and `Sole` what is in a partition whose writer has
  been alone. A partition with a whole file keeps one (`StaysReadable`): the
  newest whole file is in no snapshot of a writer that is past its write.
  `Heals` is the action property `QuietRunHeals`. `ForecastInv` says that the
  series a fit is made of is in order of sessions and that the variances a
  writer holds rest on returns no later than its own session that their calendar
  vouches for (`Vouched`: in order of sessions, and one session apart where no
  session between is called closed): with it `HonestReturns`. Of forecasts
  without a calendar it says only that they do not look ahead. `PointInTime`
  rests on the lemma `KnownIsDaily`: a longer series cut at a session is the
  series the daily job of that session reads.

The type invariants of these modules' components are proved
(`TypeCorrect`, `BucketTypes`, `SweepTypes`, `PollTypes`, `CaptureTypes`,
`HistoryTypes`, `AppendingTypes`, `AuditTypes`).

Only model-checked: the liveness properties (`NormalServed`, `LowNotWedged`,
`TradesArrive`, `VerdictArrives`, `RunEnds`, `AuditConverges`, `LateFilesLand`),
since the prover does no liveness under fairness; and the properties of
`CoverageAudit` that judge a report (`HealthyIsGreen`, `HoleIsRed`,
`FrozenCurveIsRed`): each is about the verdict over a timetable that the
instance gives as data, and a proof needs to say of a timetable in general what
makes its sweeps, pulls and lags consistent, which is still to be written.

## Not modelled

- The mathematics of pricing and signals (inversion, SVI and HAR estimation,
  rate interpolation, the comparison in `drift_check`) is floating point. What
  is kept of it is what decides whether a row exists and which rows it rests
  on (`DerivedChain`).
- Configuration, schemas, entitlement probes and OPRA parsing are pure data or
  keep no state; validation of rows is a torn or a whole file here.
- The decision log is one append by a person's command.
- Provisioning and bootstrap configure a host. Of `deploy/` the timetable, the
  unit templates and the pings are modelled.
- `backfill.sh` and `refilter.sh` as schedulers (the runs they start are),
  `--limit` and `--dry-run`, the in-process token bucket a box with an
  unwritable `_meta` falls back to, the REST client's retries and pacing of one
  request (a request answers, errs or is cut short), and the drift that two
  runs by hand in one millisecond would bring to file names.
- In the reference syncs, `underlying_bars`, `grouped_daily` and
  `backfill_underlying` are modelled by what they leave for the audit, not step
  by step.
