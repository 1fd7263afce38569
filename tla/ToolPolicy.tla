----------------------------- MODULE ToolPolicy -----------------------------
(***************************************************************************)
(* The gate every tool call passes before it runs: security.ToolPolicy     *)
(* (internal/security/tool_policy.go) over the registry's metadata.        *)
(*                                                                         *)
(* A call is abstracted to what the gate and the auditors read of it: the  *)
(* registry's flags for the tool, how its arguments fare against the       *)
(* schema, the shell-character filter and the tool's own validation, and   *)
(* the semantics that the registry stamps on the trace of an execution.    *)
(***************************************************************************)

\* The boundary levels that the audit client tells apart; "low" stands for
\* every level it does not name ("public", "low", "internal", ...).
Boundaries == {"low", "sensitive_system_resource", "dangerous", "privileged", "high"}

\* `name' is what makes two calls different in a report (the tool's name).
\* The rest is ToolMetadata, the verdicts on the arguments, and ToolSemantic.
ToolCall(Names) ==
  [name       : Names,
   named      : BOOLEAN,     \* the name is not blank
   exists     : BOOLEAN,     \* the registry has metadata for it
   enabled    : BOOLEAN,
   direct     : BOOLEAN,     \* DirectCallAllowed
   dangerous  : BOOLEAN,
   allowed    : BOOLEAN,     \* ToolMetadata.AllowedByPolicy
   knownArgs  : BOOLEAN,     \* no argument outside the input schema
   cleanArgs  : BOOLEAN,     \* no shell metacharacter in any argument
   validArgs  : BOOLEAN,     \* the tool's own ranges and allow lists
   boundary   : Boundaries,
   privileged : BOOLEAN,     \* ToolSemantic.RequiresPrivilege
   semAllowed : BOOLEAN,     \* ToolSemantic.AllowedByPolicy
   semReason  : BOOLEAN]     \* ToolSemantic.PolicyReason is not blank

\* Mistake: the shell-metacharacter check is forgotten.
RefusalsWithoutShell(c) ==
  {g \in {"name", "unknown", "disabled", "indirect", "dangerous", "metadata",
          "arguments", "validation"} :
     \/ g = "name"       /\ ~c.named
     \/ g = "unknown"    /\ ~c.exists
     \/ g = "disabled"   /\ ~c.enabled
     \/ g = "indirect"   /\ ~c.direct
     \/ g = "dangerous"  /\ c.dangerous
     \/ g = "metadata"   /\ ~c.allowed
     \/ g = "arguments"  /\ ~c.knownArgs
     \/ g = "validation" /\ ~c.validArgs}

\* The refusals of ToolPolicy.Evaluate, in the order the code tries them.
Refusals(c) ==
  {g \in {"name", "unknown", "disabled", "indirect", "dangerous", "metadata",
          "arguments", "shell", "validation"} :
     \/ g = "name"       /\ ~c.named
     \/ g = "unknown"    /\ ~c.exists
     \/ g = "disabled"   /\ ~c.enabled
     \/ g = "indirect"   /\ ~c.direct
     \/ g = "dangerous"  /\ c.dangerous
     \/ g = "metadata"   /\ ~c.allowed
     \/ g = "arguments"  /\ ~c.knownArgs
     \/ g = "shell"      /\ ~c.cleanArgs
     \/ g = "validation" /\ ~c.validArgs}

Evaluate(c) == IF Refusals(c) = {} THEN "allow" ELSE "deny"
=============================================================================
