\* A remote provider enabled without an API key.
SPECIFICATION Spec
CONSTANTS
  Runs = {r1}
  Names <- MCNames
  Calls <- AllCalls
  PlannedCalls <- PlanCalls
  AuditReplies <- AllReplies
  MaxSteps = 3
  RemoteConfigured = TRUE
  KeyPresent = FALSE
  CanExpire = {r1}
  Final = Final
  NoCall = NoCall
  NoTrace = NoTrace
  NoResponse = NoResponse
INVARIANT
  RemoteClaimHolds
