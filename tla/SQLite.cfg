\* Crashes at every step, runs of the same second, import at every start, the
\* JSON fallback, failing statements, a limit that changes.
SPECIFICATION FairSpec
CONSTANTS
  RunIds = {1, 2, 3, 4}
  LegacyDirs <- UpToTwoLegacy
  Limits = {2, 3}
  MaxClock = 2
  MaxCrashes = 2
  MaxFaults = 1
  NoRun = NoRun
INVARIANTS
  AckedRunsSurvive
  HistoryConsistent
  RowsAreTheHistory
PROPERTIES
  StartupEnds
CHECK_DEADLOCK FALSE
