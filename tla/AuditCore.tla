----------------------------- MODULE AuditCore -----------------------------
(***************************************************************************)
(* The audit service audit-core-py: POST /audit/trace, answered by the     *)
(* TraceShield adapter (app/traceshield_adapter.py) or, when the evaluator *)
(* could not be loaded or raises, by a local review (local_fallback.py).   *)
(* The evaluator is not part of the repository: it may say anything.       *)
(*                                                                         *)
(* A step is [id, boundary, privileged]; scores are hundredths.            *)
(***************************************************************************)
EXTENDS Integers, Sequences, SequencesExt

\* An evaluator's result: a decision, and violations that each name the numbers
\* of the steps that show them.
Violation(sources, ids) == [source : sources, evidence : Seq(ids)]
HighSources == {"risk_graph", "sensitive_external_chain", "prompt_injection",
                "resource_boundary", "capability_boundary"}

\* _severity
Severity(source) ==
  CASE source \in HighSources -> "high"
    [] source = "" -> "low"
    [] OTHER -> "medium"

\* Mistake: only a privileged step counts.
IsPrivilegedStep(step) == step.boundary = "privileged" \/ step.privileged

\* _is_sensitive_step
IsSensitiveStep(step) ==
  step.boundary \in {"sensitive_system_resource", "privileged"} \/ step.privileged

\* _requires_semantic_review
RequiresSemanticReview(steps) == \E i \in 1..Len(steps) : IsSensitiveStep(steps[i])

\* _build_trace: the later of two steps with one number is the one looked up.
StepWithNumber(steps, number) ==
  SelectLastInSeq(steps, LAMBDA step : step.id = number)

\* _evidence_items and _first_evidence_step: a number nobody has stands for itself.
EvidenceItems(violation, steps) ==
  [k \in 1..Len(violation.evidence) |->
     LET at == StepWithNumber(steps, violation.evidence[k])
     IN IF at = 0 THEN violation.evidence[k] ELSE steps[at].id]

\* _build_evidence_from_steps
EvidenceFromSteps(steps) ==
  LET sensitive == SelectSeq(steps, IsSensitiveStep)
  IN [k \in 1..Len(sensitive) |-> sensitive[k].id]

\* _risk_score, of the decision before an unknown one becomes a review.
RiskScore(decision, violations) ==
  CASE decision = "deny"   -> IF violations # <<>> THEN 85 ELSE 70
    [] decision = "review" -> 45
    [] OTHER               -> 10

\* _risk_graph: a node per step, and a sequence edge between neighbours.
SequenceGraph(steps) ==
  [nodes |-> [i \in 1..Len(steps) |-> steps[i].id],
   edges |-> [i \in 1..(Len(steps) - 1) |-> <<steps[i].id, steps[i + 1].id>>]]

\* _convert_result
ConvertResult(result, steps) ==
  LET decision == IF result.decision = "allow" /\ RequiresSemanticReview(steps)
                  THEN "review" ELSE result.decision
      named == FlattenSeq([i \in 1..Len(result.violations) |->
                             EvidenceItems(result.violations[i], steps)])
  IN [decision |-> IF decision \in {"allow", "deny", "review"} THEN decision ELSE "review",
      score |-> RiskScore(decision, result.violations),
      severities |-> [i \in 1..Len(result.violations) |-> Severity(result.violations[i].source)],
      evidence |-> IF named = <<>> THEN EvidenceFromSteps(steps) ELSE named,
      graph |-> SequenceGraph(steps), method |-> "traceshield"]

\* local_fallback.audit_trace
FallbackAuditTrace(steps) ==
  [decision |-> "review", score |-> 35, severities |-> <<>>, evidence |-> <<>>,
   graph |-> SequenceGraph(steps), method |-> "local-safety-fallback"]

\* TraceShieldAdapter.audit_trace: `results' is empty when the evaluator was not
\* loaded or raised.
AuditTrace(results, steps) ==
  IF results = <<>> THEN FallbackAuditTrace(steps) ELSE ConvertResult(results[1], steps)
=============================================================================
