\* A walk over the list while runs are saved and the server restarts: runs of one
\* second, a legacy run, two limits, and every kind of run.
SPECIFICATION Spec
CONSTANTS
  Clients = {c1}
  Responses = {"refused", "answered", "denied", "chat", "declined"}
  Body <- MCBody
  Ran <- MCRan
  Bounds = {2, 3}
  Finished <- MCFinished
  Legacy = 1
  MaxRuns = 4
  MaxRestarts = 1
  MaxWalks = 1
  AskedLimits = {1, 3}
  AskedCursors <- MCAskedCursors
  DefaultPage = 2
  LargestPage = 2
INVARIANTS
  SkipsOnlyForMoves
  RepeatsOnlyForMoves
  WalksAreShort
  VerdictsReconcile
  DenialsReachArtifact
CHECK_DEADLOCK FALSE
