----------------------- MODULE MCDayAggsCheckpoint -----------------------
(* Small instances of DayAggsCheckpoint for TLC. *)
EXTENDS DayAggsCheckpoint

\* Contract 1 trades on no date, the others on every one.
MCTraded == (2..Total) \X Dates
=============================================================================
