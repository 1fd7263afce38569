----------------------------- MODULE ToolCalls -----------------------------
(***************************************************************************)
(* One tool call from its arguments to its audit: the gate, the handler    *)
(* with the commands it runs through the execution proxy, the trace the    *)
(* registry stamps, and the audit of that trace, by audit-core-py or by    *)
(* the Go client itself.  Commands fail, are killed, time out or print too *)
(* much; the request may be cancelled between any two of them.             *)
(***************************************************************************)
EXTENDS ToolHandlers

CONSTANTS
  Inputs,          \* names of arguments, ...
  ArgumentsOf(_),  \* ... and the arguments
  Ends,            \* names of what may become of a command, ...
  OutcomeOf(_),    \* ... and the outcomes
  Verdicts,        \* names of what the evaluator may say, ...
  ResultOf(_)      \* ... and the results; <<>> when it raises

ASSUME InputsAssumption == \A input \in Inputs : ArgumentsOf(input) \in Arguments
ASSUME EndsAssumption == \A end \in Ends : OutcomeOf(end) \in Outcomes

VARIABLES
  platform,   \* runtime.GOOS
  request,    \* the HTTP request's context: "live" or "cancelled"
  phase,      \* "idle", "refused", "running", "returned" or "audited"
  tool,       \* the tool of the current call
  args,       \* its arguments
  results,    \* what its commands and reads have returned so far
  answer,     \* <<>>, or what the handler returned
  audit       \* <<>>, or the audit of the call's trace
vars == <<platform, request, phase, tool, args, results, answer, audit>>

Client == INSTANCE AuditClient
Core   == INSTANCE AuditCore

StepId == 1

\* InvokeWithStepID and applySemantic: the trace of the call; the semantics come
\* from the arguments, the status and the execution context from the handler.
Status == IF answer[1].error THEN "error" ELSE "ok"
Stamped == SemanticForTool(tool, args)
TraceOf ==
  [id |-> StepId, status |-> Status, context |-> answer[1].context, risk |-> answer[1].risk,
   call |-> [boundary |-> Stamped.boundary, semAllowed |-> Stamped.allowed, semReason |-> TRUE],
   privileged |-> Stamped.privileged]

\* The step sent to audit-core-py.
StepOf == [id |-> StepId, boundary |-> Stamped.boundary, privileged |-> Stamped.privileged]

NextStep == Handler(tool, platform, args, results)
Pending == NextStep.step[1]

\* A read succeeds or not; a command goes through the proxy.
Perform(step, outcome) ==
  IF step.kind = "command" THEN Execute(step.command, step.args, step.lenient, outcome)
  ELSE IF outcome.end = "exited" THEN Result("ok", 0, outcome, FALSE)
  ELSE Result("error", -1, outcome, TRUE)

\* What may become of it: nothing but a read gets past a cancelled request, a
\* read ends well or not at all, and a live request does not cut a wait short.
Possible(step, outcome) ==
  /\ step.kind # "command" => outcome.end \in {"exited", "unstarted"} /\ outcome.code = 0 /\ ~outcome.cut
  /\ step.kind = "wait" /\ request = "live" => outcome.end = "exited"
  /\ request = "cancelled" /\ step.kind \notin {"read", "wait"} =>
       outcome.end = "unstarted" \/ (outcome.end = "exited" /\ outcome.code = -1)

-----------------------------------------------------------------------------
Init ==
  /\ platform \in {"linux", "other"}
  /\ request = "live"
  /\ phase = "idle"
  /\ tool = "os_info"
  /\ args = None
  /\ results = <<>>
  /\ answer = <<>>
  /\ audit = <<>>

\* The gate turns the call down, and nothing runs.
Refuse(t, input) ==
  /\ phase = "idle"
  /\ ~GateAllows(t, ArgumentsOf(input))
  /\ phase' = "refused"
  /\ tool' = t
  /\ args' = ArgumentsOf(input)
  /\ UNCHANGED <<platform, request, results, answer, audit>>

Begin(t, input) ==
  /\ phase = "idle"
  /\ GateAllows(t, ArgumentsOf(input))
  /\ phase' = "running"
  /\ tool' = t
  /\ args' = ArgumentsOf(input)
  /\ UNCHANGED <<platform, request, results, answer, audit>>

\* The handler's next command, read, dial or wait.
RunStep(end) ==
  /\ phase = "running"
  /\ NextStep.step # <<>>
  /\ Possible(Pending, OutcomeOf(end))
  /\ results' = Append(results, Perform(Pending, OutcomeOf(end)))
  /\ UNCHANGED <<platform, request, phase, tool, args, answer, audit>>

\* The client hangs up.
Cancel ==
  /\ request = "live"
  /\ phase \in {"running", "returned"}
  /\ request' = "cancelled"
  /\ UNCHANGED <<platform, phase, tool, args, results, answer, audit>>

Return ==
  /\ phase = "running"
  /\ NextStep.answer # <<>>
  /\ phase' = "returned"
  /\ answer' = NextStep.answer
  /\ UNCHANGED <<platform, request, tool, args, results, audit>>

\* HTTPClient.AuditTrace got an answer; enrichResultWithTraceEvidence names the
\* trace when audit-core-py named nothing.
AuditByCore(verdict) ==
  /\ phase = "returned"
  /\ request = "live"
  /\ LET reply == Core!AuditTrace(ResultOf(verdict), <<StepOf>>)
     IN audit' = <<[decision |-> Client!AuditTrace({TraceOf}, reply.decision).decision,
                    score |-> reply.score, method |-> reply.method,
                    evidence |-> IF reply.evidence = <<>> THEN <<StepId>> ELSE reply.evidence]>>
  /\ phase' = "audited"
  /\ UNCHANGED <<platform, request, tool, args, results, answer>>

\* localSafetyResultFromTraces: the largest of what the trace shows.
LocalScore ==
  IF Client!IsDeniedTrace(TraceOf) THEN 100
  ELSE IF Client!IsDangerousTrace(TraceOf) THEN 95
  ELSE IF Status = "error" THEN 60
  ELSE IF Stamped.boundary = Sensitive \/ Stamped.privileged THEN 55
  ELSE 35

\* It could not be asked, or gave no usable answer.
AuditLocally ==
  /\ phase = "returned"
  /\ audit' = <<[decision |-> Client!AuditTrace({TraceOf}, "unavailable").decision,
                 score |-> LocalScore, method |-> "local-safety-fallback",
                 evidence |-> <<StepId>>]>>
  /\ phase' = "audited"
  /\ UNCHANGED <<platform, request, tool, args, results, answer>>

\* The next call is a new request.
Finish ==
  /\ phase \in {"refused", "audited"}
  /\ phase' = "idle"
  /\ request' = "live"
  /\ tool' = "os_info"
  /\ args' = None
  /\ results' = <<>>
  /\ answer' = <<>>
  /\ audit' = <<>>
  /\ UNCHANGED platform

Next ==
  \/ \E t \in RegisteredTools, input \in Inputs : Refuse(t, input) \/ Begin(t, input)
  \/ \E end \in Ends : RunStep(end)
  \/ Cancel
  \/ Return
  \/ \E verdict \in Verdicts : AuditByCore(verdict)
  \/ AuditLocally
  \/ Finish

Spec == Init /\ [][Next]_vars
-----------------------------------------------------------------------------
TypeOK ==
  /\ platform \in {"linux", "other"} /\ request \in {"live", "cancelled"}
  /\ phase \in {"idle", "refused", "running", "returned", "audited"}
  /\ tool \in RegisteredTools
  /\ args \in Arguments
  /\ phase \in {"idle", "refused"} => results = <<>>
  /\ (answer # <<>>) = (phase \in {"returned", "audited"})
  /\ (audit # <<>>) = (phase = "audited")

\* What passes the gate is turned down by nobody later: the handlers and the
\* execution proxy have their own copies of the gate's patterns and ranges.  The
\* one exception is a service called "-n", which systemctl's rules take for a
\* switch.
GateCoversTheRest ==
  /\ answer # <<>> => ~answer[1].refused
  /\ ~(tool = "service_status" /\ args.text = "-n") =>
       \A i \in 1..Len(results) : results[i].status # "denied"

\* The failures that are answers: nobody has the file open, files of a package
\* differ or it is not installed, the port is closed.
IsAnswer(result) ==
  \/ tool = "open_file_inspector" /\ NobodyHasIt(result)
  \/ tool = "configuration_drift_detector" /\ ~Unverified(result)
  \/ tool = "port_checker"

\* A trace whose status is "ok" hides no failure: the tools that go on after a
\* failed command or read say so in what they answer.
FailuresShow ==
  answer # <<>> /\ Status = "ok" /\ ~answer[1].mark =>
    \A i \in 1..Len(results) : results[i].failed => IsAnswer(results[i])

\* A drift report without an error accounts for every package that was asked
\* for, once, and calls a package checked only if rpm verified it to the end.
DriftReportsComplete ==
  answer # <<>> /\ Status = "ok" /\ tool = "configuration_drift_detector" /\ platform = "linux" =>
    LET packages == Dedupe(args.names)
        report == answer[1]
    IN /\ report.checked \cup report.missing = {packages[i] : i \in 1..Len(packages)}
       /\ \A i \in 1..Len(packages) :
            /\ packages[i] \in report.checked \ report.missing =>
                 results[i].exit \in {0, 1} /\ ~results[i].timedOut /\ results[i].allowed
            /\ packages[i] \in report.missing => results[i].missing

\* What the catalog says of a tool and what the auditors are told of a call of
\* it agree, but for the privilege of reading a log anyone may read.
TablesAgree ==
  phase \notin {"idle", "refused"} =>
    LET row == Metadata(tool)
    IN /\ Stamped.operation = row.operation /\ Stamped.resource = row.resource
       /\ Stamped.scope = row.scope /\ Stamped.boundary = row.boundary
       /\ Stamped.allowed
       /\ Stamped.privileged => row.privileged
       /\ row.privileged /\ ~Stamped.privileged => tool = "log_reader"

\* A call of a tool that the catalog calls sensitive or privileged is never
\* simply allowed, whoever audits it and whatever the evaluator said.
SensitiveIsReviewed ==
  phase = "audited" /\ (Metadata(tool).boundary = Sensitive \/ Metadata(tool).privileged) =>
    audit[1].decision # "allow"
=============================================================================
