----------------------------- MODULE MCAgentRun -----------------------------
(* Instances of AgentRun for TLC: the tool calls and what a model may ask. *)
EXTENDS AgentRun, TLC

\* A call every check allows, on harmless ground.
Plain == [name |-> "os_info", named |-> TRUE, exists |-> TRUE, enabled |-> TRUE,
          direct |-> TRUE, dangerous |-> FALSE, allowed |-> TRUE, knownArgs |-> TRUE,
          cleanArgs |-> TRUE, validArgs |-> TRUE, boundary |-> "low",
          privileged |-> FALSE, semAllowed |-> TRUE, semReason |-> TRUE]

\* Allowed by the metadata, but its semantics say otherwise of these arguments.
Touchy == [Plain EXCEPT !.name = "log_reader", !.semAllowed = FALSE]

\* Refused: shell metacharacters; a tool nobody registered; safe_shell.
Shellish == [Plain EXCEPT !.name = "port_checker", !.cleanArgs = FALSE]
Unknown  == [Plain EXCEPT !.name = "no_such_tool", !.exists = FALSE, !.enabled = FALSE,
                          !.direct = FALSE, !.allowed = FALSE]
Shell    == [Plain EXCEPT !.name = "safe_shell", !.direct = FALSE, !.dangerous = TRUE,
                          !.allowed = FALSE, !.validArgs = FALSE, !.boundary = "dangerous"]

MCNames == {"os_info", "log_reader", "port_checker", "no_such_tool", "safe_shell"}

\* One request, every kind of call and every reply.
AllCalls   == {Plain, Touchy, Shellish, Unknown, Shell}
AllReplies == Replies

\* Two requests at a time, with the calls and replies that matter to both.
TwoCalls   == {Plain, Shellish}
TwoReplies == {"deny"}
PlanCalls  == {Plain}

Symmetry == Permutations(Runs)
=============================================================================
