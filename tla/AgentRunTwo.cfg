\* Two concurrent requests over the shared step ids and trace store.
SPECIFICATION Spec
SYMMETRY Symmetry
CONSTANTS
  Runs = {r1, r2}
  Names <- MCNames
  Calls <- TwoCalls
  PlannedCalls <- PlanCalls
  AuditReplies <- TwoReplies
  MaxSteps = 2
  RemoteConfigured = TRUE
  KeyPresent = TRUE
  CanExpire = {}
  Final = Final
  NoCall = NoCall
  NoTrace = NoTrace
  NoResponse = NoResponse
INVARIANTS
  StepIdsUnique
  StoreHoldsRun
PROPERTIES
  ImplementsLedger
