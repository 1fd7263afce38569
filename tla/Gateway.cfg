\* One request of the loop and a client at each door.
SPECIFICATION ServerSpec
CONSTANTS
  Runs = {r1}
  McpClients = {m1}
  ApiClients = {a1}
  InfoClients = {i1}
  InfoCall <- InfoWithSource
  MaxCalls = 2
  NoAnswer = NoAnswer
  Names <- MCNames
  Calls <- DoorCalls
  PlannedCalls <- PlanCalls
  AuditReplies <- DenyOnly
  MaxSteps = 1
  RemoteConfigured = FALSE
  KeyPresent = TRUE
  CanExpire = {}
  Final = Final
  NoCall = NoCall
  NoTrace = NoTrace
  NoResponse = NoResponse
INVARIANTS
  AnswersMatchStore
  GatedDoors
  DenialsStand
PROPERTIES
  ServerImplementsLedger
