--------------------------- MODULE SemanticGraph ----------------------------
(***************************************************************************)
(* The risk graph of a run: auditclient.RiskGraphFromSemanticSteps         *)
(* (internal/auditclient/semantic_graph.go) turns the steps of a run into  *)
(* nodes, edges, hotspots, boundary crossings and a decision path.  Nodes  *)
(* and edges are deduplicated by id, the first of an id is kept; the three *)
(* lists are not.                                                          *)
(*                                                                         *)
(* A step is [id, index, tool, decision, level, policy, allowed,           *)
(* operation, resource, boundary].  Blank texts are "", a blank step id is *)
(* 0.  A resource is [key, words]: its sanitised type and path, and the    *)
(* words in them that the risk tables look for.                            *)
(***************************************************************************)
EXTENDS Naturals, Sequences, SequencesExt

Fallback(value, other) == IF value = "" THEN other ELSE value

\* riskLevelForDecision, also agentloop's riskLevelForAuditDecision.
RiskLevelForDecision(decision) ==
  CASE decision = "deny"   -> "high"
    [] decision = "review" -> "medium"
    [] decision = "allow"  -> "low"
    [] OTHER               -> "unknown"

PolicyNodeValue(step) ==
  Fallback(step.policy, IF step.allowed THEN "allow" ELSE "review")

\* index is the position of the step, from 1.
NormalizeSemanticStep(step, index) ==
  LET decision == Fallback(step.decision, "review")
  IN [step EXCEPT
        !.id = IF @ # 0 THEN @ ELSE IF step.index > 0 THEN step.index ELSE index,
        !.index = IF @ = 0 THEN index ELSE @,
        !.tool = Fallback(@, "unknown_tool"),
        !.operation = Fallback(@, "inspect"),
        !.boundary = Fallback(@, "unknown"),
        !.policy = PolicyNodeValue(step),
        !.decision = decision,
        !.level = Fallback(@, RiskLevelForDecision(decision))]

SemanticRiskLevel(step) ==
  IF step.level \notin {"", "unknown"} THEN step.level ELSE RiskLevelForDecision(step.decision)

\* An operation type stands for the verb in it.
SemanticOperationRisk(operation) ==
  CASE operation \in {"delete", "write", "execute", "modify"} -> "high"
    [] operation \in {"read", "inspect", "check"}             -> "low"
    [] OTHER                                                  -> "medium"

SemanticResourceRisk(resource) ==
  IF resource.words \cap {"secret", "key", "audit", "log", "shell"} # {} THEN "high"
  ELSE IF resource.words \cap {"service", "network", "port"} # {} THEN "medium"
  ELSE "low"

\* The levels the tools really use ("sensitive_system_resource", "unknown")
\* are none of the named ones, so they fall to the default.
SemanticBoundaryRisk(boundary) ==
  CASE boundary \in {"dangerous", "critical", "privileged", "secret"} -> "high"
    [] boundary \in {"sensitive", "medium", "restricted"}             -> "medium"
    [] boundary \in {"public", "low", "safe"}                         -> "low"
    [] OTHER                                                          -> "medium"

SemanticPolicyRisk(step) ==
  IF ~step.allowed \/ step.policy = "deny" THEN "high"
  ELSE IF step.policy = "review" THEN "medium"
  ELSE "low"

IsBoundaryCrossing(boundary) == SemanticBoundaryRisk(boundary) \in {"high", "medium"}

\* Node ids: a step's own, or the kind with the value.  Only the tool_call
\* node names a step, and only it and the decision node have a decision.
StepNode(step) == <<"step", step.id>>
PolicyNode(step) == <<"policy", step.policy>>
OperationNode(step) == <<"operation", step.operation>>
ResourceNode(step) == <<"resource", step.resource.key>>
BoundaryNode(step) == <<"boundary", step.boundary>>
DecisionNode(step) == <<"decision", step.decision>>

NodesOf(step) ==
  LET node(id, risk, decision, of) ==
        [id |-> id, risk |-> risk, decision |-> decision, step |-> of]
  IN << node(StepNode(step), SemanticRiskLevel(step), step.decision, step.id),
        node(OperationNode(step), SemanticOperationRisk(step.operation), "", 0),
        node(ResourceNode(step), SemanticResourceRisk(step.resource), "", 0),
        node(BoundaryNode(step), SemanticBoundaryRisk(step.boundary), "", 0),
        node(PolicyNode(step), SemanticPolicyRisk(step), "", 0),
        node(DecisionNode(step), SemanticRiskLevel(step), step.decision, 0) >>

EdgesOf(step, previous) ==
  LET edge(from, to, type, risk) ==
        [id |-> <<from, to, type>>, from |-> from, to |-> to, type |-> type, risk |-> risk]
  IN << edge(PolicyNode(step), StepNode(step), "governs", SemanticPolicyRisk(step)),
        edge(StepNode(step), OperationNode(step), "performs",
             SemanticOperationRisk(step.operation)),
        edge(OperationNode(step), ResourceNode(step), "targets",
             SemanticResourceRisk(step.resource)),
        edge(ResourceNode(step), BoundaryNode(step), "crosses_boundary",
             SemanticBoundaryRisk(step.boundary)),
        edge(StepNode(step), DecisionNode(step), "audited_as", SemanticRiskLevel(step)) >>
     \o (IF previous = 0 THEN <<>>
         ELSE <<edge(<<"step", previous>>, StepNode(step), "next_action", "low")>>)

\* What a loop over s keeps that passes over everything outside of S.
Among(s, S) ==
  LET kept[i \in 0..Len(s)] ==
        IF i = 0 THEN <<>>
        ELSE IF s[i] \in S THEN Append(kept[i - 1], s[i])
        ELSE kept[i - 1]
  IN kept[Len(s)]

\* addNode and addEdge: an id that was seen is not added again.
FirstOfEachId(items) ==
  LET places == [i \in 1..Len(items) |-> i]
      fresh(i) == \A j \in 1..(i - 1) : items[j].id # items[i].id
      kept == Among(places, {i \in 1..Len(items) : fresh(i)})
  IN [k \in 1..Len(kept) |-> items[kept[k]]]

\* A graph is a pointer in the code: <<>> for nil, <<graph>> for one.  A run
\* without steps has none.
RiskGraphFromSemanticSteps(raw) ==
  LET steps == [i \in 1..Len(raw) |-> NormalizeSemanticStep(raw[i], i)]
      risky(step) == SemanticRiskLevel(step) \in {"high", "medium"}
      crosses(step) == IsBoundaryCrossing(step.boundary)
      edges(i) == EdgesOf(steps[i], IF i = 1 THEN 0 ELSE steps[i - 1].id)
      brief(step) == [step |-> step.id, risk |-> SemanticRiskLevel(step), decision |-> step.decision]
      briefs(some) == [i \in 1..Len(some) |-> brief(some[i])]
  IN IF raw = <<>> THEN <<>>
     ELSE <<[nodes |-> FirstOfEachId(FlattenSeq([i \in 1..Len(raw) |-> NodesOf(steps[i])])),
             edges |-> FirstOfEachId(FlattenSeq([i \in 1..Len(raw) |-> edges(i)])),
             hotspots |-> briefs(SelectSeq(steps, risky)),
             crossings |-> briefs(SelectSeq(steps, crosses)),
             path |-> briefs(steps)]>>
=============================================================================
