SPECIFICATION Spec
CONSTANTS
  Keys = {bars, trades}
  Reconciled = {bars}
  Blank = {trades}
  Procs = {p1, p2}
  Modes = {"pull", "replace", "force", "reconcile"}
  None = None
  MaxRuns = 3
  MaxCrashes = 1
SYMMETRY Symmetry
INVARIANTS
  QuarantineSuperseded
  PruneNeverDeletesTheOnlyCopy
  OnlyKnownDoubleCounts
PROPERTY ArchiveSpec
