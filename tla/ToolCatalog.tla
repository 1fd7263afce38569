---------------------------- MODULE ToolCatalog ----------------------------
(***************************************************************************)
(* What the program says about its tools, twice: the metadata the catalog  *)
(* shows to clients and the gate reads (internal/tools/metadata.go), and   *)
(* the semantics the registry stamps on the trace of an execution, which   *)
(* the auditors read (internal/tools/semantic.go).  Both are tables with a *)
(* row per tool; nothing in the code ties one to the other.                *)
(***************************************************************************)
EXTENDS ToolArguments

\* NewDefaultRegistry
RegisteredTools ==
  {"os_info", "service_status", "port_checker", "log_reader", "ssh_login_analyzer",
   "process_inspector", "network_connection_inspector", "journalctl_reader",
   "resource_usage_checker", "disk_memory_checker", "open_file_inspector", "disk_io_checker",
   "configuration_drift_detector", "systemd_unit_inventory", "block_device_inventory",
   "mount_inventory", "rpm_package_inventory", "safe_shell"}

\* A ToolMetadata with what most rows share.  `takes' are the argument keys of
\* the input schema, as they are told apart in Arguments.
Row(category, risk, scope, operation, resource, boundary, takes) ==
  [category |-> category, risk |-> risk, scope |-> scope, operation |-> operation,
   resource |-> resource, boundary |-> boundary, takes |-> takes, privileged |-> FALSE,
   allowed |-> TRUE, dangerous |-> FALSE, enabled |-> TRUE, direct |-> TRUE]

Sensitive == "sensitive_system_resource"

HostTools(tool) ==
  CASE tool = "os_info" ->
         Row("system", "low", "public_system_info", "read", "os_info", "public", {})
    [] tool = "service_status" ->
         Row("service", "low", "service_status_read", "inspect", "system_service", "low", {"text"})
    [] tool = "port_checker" ->
         Row("network", "low", "network_port_inspect", "inspect", "network_port", "low",
             {"text", "number"})
    [] tool = "log_reader" ->
         [Row("log", "medium", "system_log_read", "read", "system_log", Sensitive,
              {"names", "limit"}) EXCEPT !.privileged = TRUE]
    [] tool = "ssh_login_analyzer" ->
         [Row("security", "medium", "ssh_auth_log_analyze", "analyze", "ssh_auth_log", Sensitive,
              {"names", "limit"}) EXCEPT !.privileged = TRUE]
    [] tool = "safe_shell" ->
         [Row("shell", "medium", "safe_command_execute", "execute", "safe_command", "restricted",
              {"text"}) EXCEPT !.enabled = FALSE, !.direct = FALSE]

InspectionTools(tool) ==
  CASE tool = "process_inspector" ->
         Row("process", "low", "process_inspect", "inspect", "process", "low",
             {"text", "names", "limit"})
    [] tool = "network_connection_inspector" ->
         Row("network", "low", "network_connection_inspect", "inspect", "network_connection",
             "low", {"text", "limit"})
    [] tool = "journalctl_reader" ->
         [Row("log", "medium", "journal_log_read", "read", "journal_log", Sensitive,
              {"text", "limit"}) EXCEPT !.privileged = TRUE]
    [] tool = "resource_usage_checker" ->
         Row("resource", "low", "resource_usage_read", "read", "system_resource", "low", {})
    [] tool = "disk_memory_checker" ->
         Row("resource", "low", "disk_memory_read", "read", "disk_memory", "low", {})

StorageTools(tool) ==
  CASE tool = "open_file_inspector" ->
         Row("process", "medium", "open_file_metadata_inspect", "inspect", "open_file_metadata",
             Sensitive, {"text", "number", "limit"})
    [] tool = "disk_io_checker" ->
         Row("resource", "low", "disk_io_read", "read", "disk_io", "low", {"number"})
    [] tool = "configuration_drift_detector" ->
         Row("configuration", "medium", "configuration_drift_read", "verify",
             "package_configuration", Sensitive, {"names"})

InventoryTools(tool) ==
  CASE tool = "systemd_unit_inventory" ->
         Row("service", "low", "systemd_unit_inventory_read", "inspect", "system_service", "low",
             {"limit"})
    [] tool = "block_device_inventory" ->
         Row("resource", "low", "block_device_inventory_read", "inspect", "block_device", "low",
             {"limit"})
    [] tool = "mount_inventory" ->
         Row("resource", "low", "mount_inventory_read", "inspect", "filesystem_mount", "low",
             {"limit"})
    [] tool = "rpm_package_inventory" ->
         Row("configuration", "low", "rpm_package_inventory_read", "inspect", "package_inventory",
             "low", {"text", "limit"})

\* DefaultToolMetadata
Metadata(tool) ==
  CASE tool \in {"os_info", "service_status", "port_checker", "log_reader", "ssh_login_analyzer",
                 "safe_shell"} -> HostTools(tool)
    [] tool \in {"process_inspector", "network_connection_inspector", "journalctl_reader",
                 "resource_usage_checker", "disk_memory_checker"} -> InspectionTools(tool)
    [] tool \in {"open_file_inspector", "disk_io_checker", "configuration_drift_detector"} ->
         StorageTools(tool)
    [] OTHER -> InventoryTools(tool)

IsToolEnabledForDirectCall(row) == row.enabled /\ row.direct /\ row.allowed /\ ~row.dangerous

-----------------------------------------------------------------------------
\* A ToolSemantic; every row states a policy reason.
Semantic(operation, resource, scope, boundary) ==
  [operation |-> operation, resource |-> resource, scope |-> scope, boundary |-> boundary,
   privileged |-> FALSE, allowed |-> TRUE]

InventorySemantic(tool) ==
  CASE tool = "systemd_unit_inventory" ->
         Semantic("inspect", "system_service", "systemd_unit_inventory_read", "low")
    [] tool = "block_device_inventory" ->
         Semantic("inspect", "block_device", "block_device_inventory_read", "low")
    [] tool = "mount_inventory" ->
         Semantic("inspect", "filesystem_mount", "mount_inventory_read", "low")
    [] tool = "rpm_package_inventory" ->
         Semantic("inspect", "package_inventory", "rpm_package_inventory_read", "low")
    [] tool = "configuration_drift_detector" ->
         Semantic("verify", "package_configuration", "configuration_drift_read", Sensitive)
    [] tool = "ssh_login_analyzer" ->
         [Semantic("analyze", "ssh_auth_log", "ssh_auth_log_analyze", Sensitive)
           EXCEPT !.privileged = TRUE]

\* Every path must be allowed, though the tool would read only the first it can.
LogReaderSemantic(args) ==
  LET paths == ToSet(Dedupe(args.names))
      sem == Semantic("read", "system_log", "system_log_read", Sensitive)
  IN IF paths # {} /\ \A p \in paths : AllowedLogPath(p)
     THEN [sem EXCEPT !.privileged = \E p \in paths : PrivilegedLogPath(p)]
     ELSE [sem EXCEPT !.scope = "blocked_file_read", !.boundary = "dangerous",
                      !.privileged = TRUE, !.allowed = FALSE]

\* Mistake: the journal is read with no more privilege than a public log.
JournalSemanticOpen == Semantic("read", "journal_log", "journal_log_read", "low")

JournalSemantic ==
  [Semantic("read", "journal_log", "journal_log_read", Sensitive) EXCEPT !.privileged = TRUE]

InspectionSemantic(tool) ==
  CASE tool = "process_inspector" -> Semantic("inspect", "process", "process_inspect", "low")
    [] tool = "open_file_inspector" ->
         Semantic("inspect", "open_file_metadata", "open_file_metadata_inspect", Sensitive)
    [] tool = "disk_io_checker" -> Semantic("read", "disk_io", "disk_io_read", "low")
    [] tool = "network_connection_inspector" ->
         Semantic("inspect", "network_connection", "network_connection_inspect", "low")
    [] tool = "journalctl_reader" -> JournalSemantic
    [] tool = "resource_usage_checker" ->
         Semantic("read", "system_resource", "resource_usage_read", "low")
    [] tool = "disk_memory_checker" -> Semantic("read", "disk_memory", "disk_memory_read", "low")

\* safe_shell and unknown tools never pass the gate: their rows are left out.
SemanticForTool(tool, args) ==
  CASE tool = "os_info"        -> Semantic("read", "os_info", "public_system_info", "public")
    [] tool = "port_checker"   -> Semantic("inspect", "network_port", "network_port_inspect", "low")
    [] tool = "service_status" -> Semantic("inspect", "system_service", "service_status_read", "low")
    [] tool = "log_reader"     -> LogReaderSemantic(args)
    [] tool \in {"systemd_unit_inventory", "block_device_inventory", "mount_inventory",
                 "rpm_package_inventory", "configuration_drift_detector", "ssh_login_analyzer"} ->
         InventorySemantic(tool)
    [] OTHER -> InspectionSemantic(tool)
=============================================================================
