\* Crashes at every step, failing file operations, damaged files, ids drawn
\* again, and a limit that changes.
SPECIFICATION Spec
CONSTANTS
  RunIds = {1, 2, 3, 4}
  Limits = {2, 3}
  MaxClock = 2
  MaxCrashes = 2
  MaxFaults = 1
  MaxSaves = 4
  NoRun = NoRun
  NoIndex = NoIndex
INVARIANTS
  RestartShowsTheSame
  AckedRunsSurvive
  NoFileLeak
  HistoryConsistent
PROPERTIES
  SaveBoundsHistory
  ImplementsHistory
CHECK_DEADLOCK FALSE
