\* The time-outs of the code, in seconds.
SPECIFICATION Spec
CONSTANTS
  CallTimeout = 45
  CommandTimeout = 10
  MaxCommands = 3
  AuditTimeout = 5
  RunDeadline = 180
  WriteTimeout = 100
  ProxyTimeout = 180
  MaxSteps = 1
  NotYet = NotYet
INVARIANTS
  WaitingClientHears
CHECK_DEADLOCK FALSE
