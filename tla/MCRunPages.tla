----------------------------- MODULE MCRunPages -----------------------------
(* Instances of RunPages: a run with refusals, one without tools, and runs without a loop. *)
EXTENDS RunPages

LogFile == [key |-> "log_auth", words |-> {"log"}]
Host    == [key |-> "system", words |-> {}]

Step(index, tool, policy, operation, resource, boundary, report) ==
  [index |-> index, tool |-> tool, policy |-> policy, allowed |-> policy = "allow",
   operation |-> operation, resource |-> resource, boundary |-> boundary, report |-> report]
Report(id, decision, violations, evidence) ==
  [id |-> id, decision |-> decision, violations |-> violations, evidence |-> evidence]
Traced(id, tool) == [id |-> id, tool |-> tool]

\* Two denied calls of different tools after a reviewed one: the decision node
\* is shared, the step nodes are not.
RefusedSteps ==
  << Step(1, "log_reader", "allow", "read", LogFile, "sensitive_system_resource",
          Report(4, "review", 0, 1)),
     Step(2, "safe_shell", "deny", "execute", Host, "dangerous", Report(6, "deny", 1, 0)),
     Step(3, "log_reader", "deny", "read", LogFile, "sensitive_system_resource",
          Report(7, "deny", 0, 0)) >>

Refused  == [steps |-> RefusedSteps, traces |-> <<Traced(4, "log_reader")>>, answered |-> TRUE]
Answered == [steps |-> <<>>, traces |-> <<>>, answered |-> TRUE]

MCRan(response) == IF response = "refused" THEN Refused ELSE Answered

\* By name, so that TLC works each of them out once.
RefusedResponse  == AgentLoopResponse(Refused.steps, Refused.traces, Refused.answered)
AnsweredResponse == AgentLoopResponse(Answered.steps, Answered.traces, Answered.answered)

MCBody(response) ==
  CASE response = "refused"  -> RefusedResponse
    [] response = "answered" -> AnsweredResponse
    [] response = "denied"   -> IntentGuardResponse
    [] response = "chat"     -> NonToolResponse("allow")
    [] response = "declined" -> NonToolResponse("deny")

\* Runs of one second and of a later one.
Saved(response, at) == [response |-> response, at |-> at]
MCFinished == {Saved("refused", 1), Saved("answered", 1), Saved("denied", 2),
               Saved("chat", 2), Saved("declined", 1)}

MCAskedCursors == {-1, 1}
=============================================================================
