\* One request with every kind of call, every audit reply and a deadline.
SPECIFICATION FairSpec
CONSTANTS
  Runs = {r1}
  Names <- MCNames
  Calls <- AllCalls
  PlannedCalls <- PlanCalls
  AuditReplies <- AllReplies
  MaxSteps = 3
  RemoteConfigured = TRUE
  KeyPresent = TRUE
  CanExpire = {r1}
  Final = Final
  NoCall = NoCall
  NoTrace = NoTrace
  NoResponse = NoResponse
INVARIANTS
  TypeOK
  ReportsOnOwnTrace
  OnlyPermittedCallsRun
  VerdictCoversSteps
  RemoteClaimHolds
  DeadlineStopsTools
PROPERTIES
  RequestsAnswered
