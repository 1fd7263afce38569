\* A JSON directory that is still there after the move to SQLite.
SPECIFICATION FairSpec
CONSTANTS
  RunIds = {1, 2, 3, 4}
  LegacyDirs <- OneLegacy
  Limits = {2}
  MaxClock = 1
  MaxCrashes = 1
  MaxFaults = 0
  NoRun = NoRun
PROPERTIES
  EvictsOldest
CHECK_DEADLOCK FALSE
