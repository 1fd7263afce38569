\* The time-outs of the code, in units of five seconds; the backoffs are 1 and 2 units.
SPECIFICATION Spec
CONSTANTS
  CallTimeout = 9
  CommandTimeout = 2
  MaxCommands = 3
  AuditTimeout = 1
  RunDeadline = 36
  WriteTimeout = 20
  ProxyTimeout = 36
  MaxSteps = 2
  NotYet = NotYet
INVARIANTS
  CallBounded
  RetriesSpaced
  EndsPromptly
  RunsAreKept
CHECK_DEADLOCK FALSE
