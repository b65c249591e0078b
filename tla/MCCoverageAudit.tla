--------------------------- MODULE MCCoverageAudit ---------------------------
\* A day's timetable with five sweeps of the session (three of them in an early
\* close), the two beside it, and pushes at 10:00, at 12:17 and at 17:00; a week
\* with a Thursday closed and an early Friday, and one with a Friday and the next
\* Monday closed.
EXTENDS CoverageAudit

MCTimetable ==
    << <<150, "backfill_underlying">>, <<480, "contracts_sync">>,
       <<485, "underlying_bars">>, <<490, "grouped_daily">>, <<500, "rates_sync">>,
       <<545, "sweep">>, <<565, "ws_minute_bars">>, <<570, "sweep">>,
       <<600, "coverage_audit">>, <<665, "flatfile_pull">>, <<675, "sweep">>,
       <<690, "reconcile">>, <<730, "rv_forecast">>, <<737, "coverage_audit">>,
       <<740, "surface">>, <<750, "coverage_audit">>, <<780, "sweep">>, <<885, "sweep">>,
       <<900, "trades_watchlist">>, <<990, "sweep">>, <<995, "sweep">>,
       <<1020, "coverage_audit">> >>
MCCalendars == {[closed |-> {4}, half |-> {5}], [closed |-> {5, 8}, half |-> {3}]}
==============================================================================
