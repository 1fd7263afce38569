------------------------------ MODULE RunViews ------------------------------
(***************************************************************************)
(* What a finished run looks like from outside.  The first half builds the *)
(* stored response of an agent-loop run from its steps, as runAgentLoop    *)
(* does (internal/eino/runtime.go); the second half is the resources that  *)
(* GET /api/agent/runs/<id>/... builds from a stored response              *)
(* (cmd/server/agent_run_store.go).                                        *)
(*                                                                         *)
(* An agent step is [index, tool, policy, allowed, operation, resource,    *)
(* boundary, report], its audit report [id, decision, violations,          *)
(* evidence], the last two as counts; no report leaves id 0 and decision   *)
(* "".  Redaction and wording are left out.                                *)
(***************************************************************************)
EXTENDS Integers, Sequences, SequencesExt, SemanticGraph

AgentStep ==
  [index : Nat, tool : STRING, policy : STRING, allowed : BOOLEAN, operation : STRING,
   resource : [key : STRING, words : SUBSET STRING], boundary : STRING,
   report : [id : Nat, decision : STRING, violations : Nat, evidence : Nat]]

\* The steps of a loop that ran to its end: each was audited under the id that
\* was drawn for it, with a decision (AgentRun!ReportsOnOwnTrace,
\* AgentRun!StepIdsUnique, AgentRun!TypeOK).
Audited(steps) ==
  /\ steps \in Seq(AgentStep)
  /\ \A i, j \in 1..Len(steps) :
       /\ steps[i].report.id # 0
       /\ steps[i].report.id = steps[j].report.id => i = j
       /\ steps[i].report.decision \in {"allow", "review", "deny"}

\* A blank step id falls back to the step's own number.
SemanticStep(s, index) ==
  [id |-> IF s.report.id # 0 THEN s.report.id ELSE IF s.index > 0 THEN s.index ELSE index,
   index |-> s.index, tool |-> s.tool,
   decision |-> s.report.decision, level |-> RiskLevelForDecision(s.report.decision),
   policy |-> s.policy, allowed |-> s.allowed, operation |-> s.operation,
   resource |-> s.resource, boundary |-> s.boundary]

BuildRiskGraph(steps) ==
  RiskGraphFromSemanticSteps([i \in 1..Len(steps) |-> SemanticStep(steps[i], i)])

SeverityForAuditDecision(decision) ==
  CASE decision = "deny"   -> "high"
    [] decision = "review" -> "medium"
    [] OTHER               -> "low"

\* The second graph of a run, kept in its audit result.
AggregateRiskGraph(steps) ==
  LET semantic(i) == [SemanticStep(steps[i], i) EXCEPT
                        !.level = SeverityForAuditDecision(steps[i].report.decision)]
  IN RiskGraphFromSemanticSteps([i \in 1..Len(steps) |-> semantic(i)])

\* Mistake: a review outranks a denial.
WorstReviewFirst(decisions) ==
  IF "review" \in decisions THEN "review"
  ELSE IF "deny" \in decisions THEN "deny"
  ELSE "allow"

Worst(decisions) ==
  IF "deny" \in decisions THEN "deny"
  ELSE IF "review" \in decisions THEN "review"
  ELSE "allow"

\* aggregateAuditFromSteps: a step whose audit cited no evidence still counts
\* as one piece of it.
AggregateAudit(steps) ==
  LET copies(n, item) == [k \in 1..n |-> item]
      violations(s) ==
        copies(s.report.violations,
               [step |-> s.report.id, risk |-> SeverityForAuditDecision(s.report.decision)])
      evidence(s) ==
        copies(IF s.report.evidence = 0 THEN 1 ELSE s.report.evidence,
               [step |-> s.report.id, tool |-> s.tool])
      all(Of(_)) == FlattenSeq([i \in 1..Len(steps) |-> Of(steps[i])])
  IN IF steps = <<>>
     THEN [decision |-> "allow", method |-> "no-audit", violations |-> <<>>,
           evidence |-> <<>>, graph |-> <<>>]
     ELSE [decision |-> Worst({s.report.decision : s \in ToSet(steps)}),
           method |-> "per-step-aggregate", violations |-> all(violations),
           evidence |-> all(evidence), graph |-> AggregateRiskGraph(steps)]

\* Mistake: an answer is up for review whatever the audit found.
AnsweredForReview(steps, traces, answered) ==
  LET audit == AggregateAudit(steps)
  IN [decision |-> IF answered THEN "review" ELSE audit.decision,
      steps |-> [i \in 1..Len(steps) |->
                   [index |-> steps[i].index, tool |-> steps[i].tool,
                    policy |-> steps[i].policy, report |-> steps[i].report]],
      traces |-> traces, audit |-> audit, graph |-> BuildRiskGraph(steps)]

\* The response of an agent-loop run; `answered' says that it gave an answer.
AgentLoopResponse(steps, traces, answered) ==
  LET audit == AggregateAudit(steps)
  IN [decision |-> IF answered /\ audit.decision # "deny" THEN "review" ELSE audit.decision,
      steps |-> [i \in 1..Len(steps) |->
                   [index |-> steps[i].index, tool |-> steps[i].tool,
                    policy |-> steps[i].policy, report |-> steps[i].report]],
      traces |-> traces, audit |-> audit, graph |-> BuildRiskGraph(steps)]

\* The response to a task that the intent guard denies: no steps, no graph.
IntentGuardResponse ==
  [decision |-> "deny", steps |-> <<>>, traces |-> <<>>,
   audit |-> [decision |-> "deny", method |-> "intent_guard",
              violations |-> <<[step |-> 0, risk |-> "high"]>>, evidence |-> <<>>, graph |-> <<>>],
   graph |-> <<>>]

\* The response to small talk or an unclear request ("allow") and to one that
\* is politely refused ("deny"): no loop ran and no audit was made.
NonToolResponse(decision) ==
  [decision |-> decision, steps |-> <<>>, traces |-> <<>>,
   audit |-> [decision |-> "", method |-> "", violations |-> <<>>, evidence |-> <<>>,
              graph |-> <<>>],
   graph |-> <<>>]

-----------------------------------------------------------------------------
\* The resources of one stored response.

SummarizeRun(id, resp) ==
  [id |-> id, decision |-> resp.decision, steps |-> Len(resp.steps), traces |-> Len(resp.traces)]

\* One report per step that has one or that names a tool; without any, the
\* whole run's, if an audit was made.
BuildAuditReports(resp) ==
  LET reported(i) == resp.steps[i].report.decision # ""
      reportable(i) == reported(i) \/ resp.steps[i].tool # ""
      of == Among([i \in 1..Len(resp.steps) |-> i], {i \in 1..Len(resp.steps) : reportable(i)})
      entry(i) ==
        IF reported(i)
        THEN [step |-> i, decision |-> resp.steps[i].report.decision]
        ELSE [step |-> i, decision |-> resp.steps[i].policy]
      aggregate == [step |-> 0, decision |-> resp.audit.decision]
  IN IF of = <<>> /\ resp.audit.method # ""
     THEN <<aggregate>>
     ELSE [k \in 1..Len(of) |-> entry(of[k])]

RiskGraphFromResponse(resp) ==
  IF resp.graph # <<>> THEN resp.graph[1]
  ELSE IF resp.audit.graph # <<>> THEN resp.audit.graph[1]
  ELSE [nodes |-> <<>>, edges |-> <<>>]

BuildRunReport(id, resp) ==
  [id |-> id, decision |-> resp.decision, steps |-> Len(resp.steps), traces |-> Len(resp.traces),
   evidence |-> Len(resp.audit.evidence), violations |-> Len(resp.audit.violations)]

\* Nodes that are high, critical or denied, then every audit violation.
RiskHotspots(resp, graph) ==
  LET hot(node) == node.risk \in {"high", "critical"} \/ node.decision = "deny"
      nodes == Among(graph.nodes, {node \in ToSet(graph.nodes) : hot(node)})
      found == resp.audit.violations
  IN [i \in 1..Len(nodes) |-> [step |-> nodes[i].step, risk |-> nodes[i].risk]]
     \o [i \in 1..Len(found) |-> [step |-> found[i].step, risk |-> found[i].risk]]

BuildMarkdownReport(id, resp) ==
  LET graph == RiskGraphFromResponse(resp)
  IN [id |-> id, decision |-> resp.decision, steps |-> Len(resp.steps), traces |-> Len(resp.traces),
      nodes |-> Len(graph.nodes), edges |-> Len(graph.edges),
      hotspots |-> Len(RiskHotspots(resp, graph))]

\* The steps in order, closed by the decision of the run.
DecisionPath(resp) ==
  [i \in 1..Len(resp.steps) |-> [index |-> i, decision |-> resp.steps[i].policy]]
  \o <<[index |-> Len(resp.steps) + 1, decision |-> resp.decision]>>

EvidenceIndex(resp) ==
  LET evidence == resp.audit.evidence
  IN IF evidence # <<>>
     THEN [i \in 1..Len(evidence) |-> [step |-> evidence[i].step, tool |-> evidence[i].tool]]
     ELSE [i \in 1..Len(resp.traces) |-> [step |-> resp.traces[i].id, tool |-> resp.traces[i].tool]]

BuildArtifact(id, resp) ==
  LET graph == RiskGraphFromResponse(resp)
  IN [run |-> SummarizeRun(id, resp), nodes |-> graph.nodes, edges |-> graph.edges,
      hotspots |-> RiskHotspots(resp, graph), path |-> DecisionPath(resp),
      evidence |-> EvidenceIndex(resp), traces |-> resp.traces,
      decision |-> resp.audit.decision]

Strictness(decision) ==
  CASE decision = "deny"   -> 2
    [] decision = "review" -> 1
    [] OTHER               -> 0

\* agentRunsHandler: the verdict on the run that each of its resources shows,
\* with its audit or apart from it.
Resources == {"run", "report", "markdown", "artifact"}
Verdict(id, resp, resource) ==
  CASE resource = "run"      -> SummarizeRun(id, resp).decision
    [] resource = "report"   -> BuildRunReport(id, resp).decision
    [] resource = "markdown" -> BuildMarkdownReport(id, resp).decision
    [] resource = "artifact" -> Last(BuildArtifact(id, resp).path).decision
=============================================================================
