---------------------------- MODULE AuditClient ----------------------------
(***************************************************************************)
(* The audit of one tool trace: auditclient.HTTPClient.AuditTrace, which   *)
(* asks audit-core-py and falls back to a local safety review whenever no  *)
(* usable answer comes back (internal/auditclient/client.go).              *)
(***************************************************************************)
EXTENDS Naturals, ToolPolicy

Decisions == {"allow", "review", "deny"}
Statuses  == {"ok", "error", "denied"}

\* What audit-core-py may answer: a decision, a body with no decision in it,
\* or nothing usable (refused connection, time-out, non-2xx, broken JSON).
Replies == Decisions \cup {"", "unavailable"}

\* A logtrace.ToolTrace: what the step id names, and what the audit reads.
Trace(Calls) == [id : Nat \ {0}, call : Calls, status : Statuses]

\* A trace synthesised for a refusal is marked not allowed, with a reason; an
\* executed one carries the semantics the registry stamped on it.
TraceAllowed(t) == t.status # "denied" /\ t.call.semAllowed
TraceReason(t)  == t.status = "denied" \/ t.call.semReason

IsDeniedTrace(t)    == t.status = "denied" \/ (~TraceAllowed(t) /\ TraceReason(t))
IsDangerousTrace(t) == t.call.boundary \in {"dangerous", "privileged", "high"}

\* localSafetyResultFromTraces: never better than review.
LocalDecision(T) ==
  IF \E t \in T : IsDeniedTrace(t) \/ IsDangerousTrace(t) THEN "deny" ELSE "review"

\* Mistake: an empty decision is passed on as it came.
AuditTraceRaw(T, reply) ==
  IF reply = "unavailable"
  THEN [decision |-> LocalDecision(T), method |-> "local-safety-fallback"]
  ELSE [decision |-> reply, method |-> "audit-core"]

\* HTTPClient.AuditTrace: no failure is ever returned to the caller.
AuditTrace(T, reply) ==
  CASE reply = "unavailable" -> [decision |-> LocalDecision(T), method |-> "local-safety-fallback"]
    [] reply = ""            -> [decision |-> "review", method |-> "audit-core"]
    [] OTHER                 -> [decision |-> reply, method |-> "audit-core"]

Methods == {"local-safety-fallback", "audit-core", "tool_policy"}
=============================================================================
