SPECIFICATION Spec
CONSTANTS
  Inputs <- MCInputs
  ArgumentsOf <- MCArgumentsOf
  Ends = {"empty", "few", "cut", "silent", "differs", "absent", "broken", "killed",
          "timeout", "unstarted", "forbidden"}
  OutcomeOf <- MCOutcomeOf
  Verdicts = {"raises", "allow", "block", "noticed", "deny"}
  ResultOf <- MCResultOf
INVARIANTS
  GateCoversTheRest
  FailuresShow
  DriftReportsComplete
  TablesAgree
  SensitiveIsReviewed
