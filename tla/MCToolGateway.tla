--------------------------- MODULE MCToolGateway ---------------------------
(* Instances of ToolGateway for TLC. *)
EXTENDS ToolGateway

\* A call every check allows, and one that the shell-character check refuses.
Plain == [name |-> "port_checker", named |-> TRUE, exists |-> TRUE, enabled |-> TRUE,
          direct |-> TRUE, dangerous |-> FALSE, allowed |-> TRUE, knownArgs |-> TRUE,
          cleanArgs |-> TRUE, validArgs |-> TRUE, boundary |-> "low",
          privileged |-> FALSE, semAllowed |-> TRUE, semReason |-> TRUE]
Shellish == [Plain EXCEPT !.cleanArgs = FALSE]

\* Allowed by the gate, but its semantics say otherwise of these arguments.
Touchy == [Plain EXCEPT !.name = "log_reader", !.boundary = "sensitive_system_resource",
                        !.privileged = TRUE, !.semAllowed = FALSE]

\* os_info with the argument "source", which its schema does not have.
InfoWithSource == [Plain EXCEPT !.name = "os_info", !.knownArgs = FALSE]

MCNames    == {"port_checker", "log_reader", "os_info"}
DoorCalls  == {Plain, Shellish, Touchy}
PlanCalls  == {Plain}
DenyOnly   == {"deny"}
=============================================================================
