---------------------------- MODULE ToolHandlers ----------------------------
(***************************************************************************)
(* The gate's own checks of each tool's arguments                          *)
(* (security/tool_policy.go) and the handlers of the tools                 *)
(* (internal/tools), each a function of the platform, the arguments and    *)
(* the results so far: either what it does next, or what it returns.       *)
(*                                                                         *)
(* What a handler parses is abstracted to a number of usable lines, and    *)
(* its explanations to a mark: the answer says that something went wrong   *)
(* (a warning, an entry in its errors, a missing field).                   *)
(***************************************************************************)
EXTENDS CommandPolicy, ToolCatalog

ProcessStates == {"ALL", "ZOMBIE"}

BoundedLimit(a, most) == a.limit \in 0..most

\* Mistake: any path may be asked about.
AnyOpenFileInput(a) ==
  /\ (a.text = "") # (a.number = 0)
  /\ a.number \in 0..MaxPid
  /\ BoundedLimit(a, 200)

\* Exactly one of a path and a pid.
ValidOpenFileInput(a) ==
  /\ (a.text = "") # (a.number = 0)
  /\ a.text # "" => AllowedOpenFilePath(a.text)
  /\ a.number \in 0..MaxPid
  /\ BoundedLimit(a, 200)

\* The cases of ToolPolicy.Evaluate.
ValidInput(tool, a) ==
  CASE tool = "port_checker" -> a.number \in Ports
    [] tool = "log_reader" ->
         /\ Dedupe(a.names) # <<>>
         /\ \A p \in ToSet(Dedupe(a.names)) : AllowedLogPath(p)
    [] tool = "ssh_login_analyzer" ->
         \A p \in ToSet(Dedupe(a.names)) : p = "journalctl:sshd" \/ AllowedLogPath(p)
    [] tool = "service_status" -> a.text = "" \/ SafeServiceName(a.text)
    [] tool = "process_inspector" ->
         /\ a.text = "" \/ SafeServiceName(a.text)
         /\ BoundedLimit(a, 100)
         /\ ToSet(a.names) \subseteq ProcessStates
    [] tool = "network_connection_inspector" ->
         /\ a.text = "" \/ NormalizeNetworkState(a.text) \in {"ALL", "LISTEN", "TIME-WAIT"}
         /\ BoundedLimit(a, 500)
    [] tool = "journalctl_reader" -> SafeUnitName(a.text) /\ BoundedLimit(a, 500)
    [] tool = "open_file_inspector" -> ValidOpenFileInput(a)
    [] tool = "disk_io_checker" -> a.number = 0 \/ a.number \in 100..2000
    [] tool = "configuration_drift_detector" ->
         /\ Len(a.names) \in 1..5
         /\ \A p \in ToSet(a.names) : SafePackageName(p)
    [] tool \in {"systemd_unit_inventory", "block_device_inventory", "mount_inventory"} ->
         BoundedLimit(a, 500)
    [] tool = "rpm_package_inventory" ->
         BoundedLimit(a, 500) /\ (a.text = "" \/ SafePackageName(a.text))
    [] OTHER -> TRUE

UsedKeys(a) ==
  {k \in {"text", "names", "number", "limit"} :
     \/ k = "text" /\ a.text # ""
     \/ k = "names" /\ a.names # <<>>
     \/ k = "number" /\ a.number # 0
     \/ k = "limit" /\ a.limit # 0}

\* ToolPolicy.Evaluate lets the call through.
GateAllows(tool, a) ==
  /\ IsToolEnabledForDirectCall(Metadata(tool))
  /\ UsedKeys(a) \subseteq Metadata(tool).takes
  /\ ~HasShellChars(a.text)
  /\ \A p \in ToSet(a.names) : ~HasShellChars(p)
  /\ ValidInput(tool, a)

-----------------------------------------------------------------------------
\* What a handler does next: run a command (a probe may exit with a code), read
\* a file, dial the port, wait for the next sample.
Step(kind, command, args, lenient) ==
  [step |-> <<[kind |-> kind, command |-> command, args |-> args, lenient |-> lenient]>>,
   answer |-> <<>>]
Run(command, args)   == Step("command", command, args, FALSE)
Probe(command, args) == Step("command", command, args, TRUE)
Read(file)           == Step("read", file, <<>>, FALSE)

\* What it returns: an error or not, a mark, whose execution context the trace
\* gets, how many entries, the risk hint; `checked' and `missing' are packages;
\* `refused' says that it turned its arguments down.
Plain == [error |-> FALSE, refused |-> FALSE, mark |-> FALSE, context |-> "native",
          count |-> 0, risk |-> "low", checked |-> {}, missing |-> {}]
Unsupported == [Plain EXCEPT !.mark = TRUE]
Failed  == [Plain EXCEPT !.error = TRUE, !.mark = TRUE, !.risk = "review"]
Refused == [Failed EXCEPT !.refused = TRUE, !.context = "none"]

Give(answer) == [step |-> <<>>, answer |-> <<answer>>]

\* Which context a result carries: the proxy's own, or a denial's.
ContextOf(result) == IF result.allowed THEN "allowed" ELSE "denied"

Least(m, n) == IF m < n THEN m ELSE n
LimitOf(a, default, most) == IF a.limit = 0 THEN default ELSE Clamp(a.limit, 1, most)
\* clampLogLines
LogLines(a, default) == Clamp(IF a.limit = 0 THEN default ELSE IF a.limit < 0 THEN 100 ELSE a.limit, 1, 500)

\* Levels by the thresholds the code compares a number with.
Level(n, medium, high) == IF n >= high THEN "high" ELSE IF n >= medium THEN "medium" ELSE "low"

\* Mistake: the command's error is dropped.
ListingAnyway(result, count) ==
  Give([Plain EXCEPT !.context = ContextOf(result), !.count = count])

\* A strict command whose listing is the whole answer.
Listing(result, count) ==
  IF result.failed THEN Give([Failed EXCEPT !.context = ContextOf(result)])
  ELSE Give([Plain EXCEPT !.context = ContextOf(result), !.count = count])

-----------------------------------------------------------------------------
\* The kernel version stays out when uname fails.
OSInfo(r) ==
  IF r = <<>> THEN Run("uname", Words(<<"-r">>))
  ELSE Give([Plain EXCEPT !.mark = r[1].failed])

\* Three probes, all run whatever the others say; the last one's context.
ServiceStatus(platform, a, r) ==
  LET service == IF a.text = "" THEN "sshd" ELSE a.text
  IN IF platform # "linux" THEN Give(Unsupported)
     ELSE IF Len(r) = 0 THEN Probe("systemctl", Words(<<"is-active", service>>))
     ELSE IF Len(r) = 1 THEN Probe("systemctl", Words(<<"is-enabled", service>>))
     ELSE IF Len(r) = 2 THEN
            Probe("systemctl", Words(<<"status", service, "--no-pager", "-n">>) \o <<Number(20)>>)
     ELSE Give([Plain EXCEPT !.mark = \E i \in 1..3 : r[i].failed,
                                      !.context = ContextOf(r[3])])

\* A dial that fails is an answer: the port is closed or cannot be reached.
PortChecker(a, r) ==
  IF a.number \notin Ports THEN Give(Refused)
  ELSE IF r = <<>> THEN Step("dial", "tcp", <<>>, FALSE)
  ELSE Give([Plain EXCEPT !.count = IF r[1].failed THEN 0 ELSE 1])

\* The allowed paths are opened in turn until one can be read; the others, and
\* what could not be read before it, are in the answer's errors.
LogReader(a, r) ==
  LET paths == Dedupe(a.names)
      readable == FirstsIn(paths, AllowedLogPaths)
  IN IF r # <<>> /\ ~Last(r).failed THEN
            Give([Plain EXCEPT !.mark = paths[1] # readable[Len(r)], !.risk = "review",
                               !.count = Least(Last(r).lines, LogLines(a, 100))])
     ELSE IF Len(r) < Len(readable) THEN Read(readable[Len(r) + 1])
     ELSE Give([Failed EXCEPT !.refused = readable = <<>>])

\* AnalyzeSSHAuthLines, classifySSHRisk and riskHintForSSHRisk: no lines, or
\* some failures from one address, ask for a review.
SSHRisk(result) ==
  IF result.lines = 0 \/ Level(result.alarms, 5, 10) = "medium" THEN "review"
  ELSE Level(result.alarms, 5, 10)

\* collectSSHAuthLogs: the files in turn, then journalctl; it has no context.
SSHLoginAnalyzer(platform, a, r) ==
  LET named == Dedupe(a.names)
      paths == IF named = <<>> THEN <<"/var/log/secure", "/var/log/auth.log">> ELSE named
      readable == FirstsIn(paths, AllowedLogPaths)
      journal == Words(<<"-u", "sshd", "-n">>) \o <<Number(LogLines(a, 200))>> \o Words(<<"--no-pager">>)
      collected == [Plain EXCEPT !.context = "none", !.risk = SSHRisk(Last(r)), !.count = Last(r).lines]
      fromFile == Len(r) <= Len(readable)
  IN IF r # <<>> /\ ~Last(r).failed THEN
            Give([collected EXCEPT !.mark = ~fromFile \/ paths[1] # readable[Len(r)]])
     ELSE IF Len(r) < Len(readable) THEN Read(readable[Len(r) + 1])
     ELSE IF Len(r) = Len(readable) /\ platform = "linux" THEN Probe("journalctl", journal)
     ELSE Give([Failed EXCEPT !.context = "none"])

\* processInspectorLinux: zombies are counted before the state filter and the
\* limit, so the risk does not depend on what is shown.
ProcessInspector(platform, a, r) ==
  IF a.text # "" /\ ~SafeServiceName(a.text) THEN Give([Refused EXCEPT !.context = "denied", !.risk = "low"])
  ELSE IF platform # "linux" THEN Give(Unsupported)
  ELSE IF r = <<>> THEN Run("ps", Words(<<"aux">>))
  ELSE IF r[1].failed THEN Listing(r[1], 0)
  ELSE Give([Plain EXCEPT !.context = ContextOf(r[1]), !.risk = Level(r[1].alarms, 1, 5),
                                   !.count = Least(r[1].lines, LimitOf(a, 20, 100))])

\* networkConnectionInspectorLinux: netstat when ss fails; the answer names its
\* source, which is the mark.
NetworkConnectionInspector(platform, a, r) ==
  LET shown(result) == Least(result.lines, LimitOf(a, 100, 500))
  IN IF a.text # "" /\ ~AllowedNetworkState(a.text) THEN
            Give([Refused EXCEPT !.context = "denied", !.risk = "low"])
     ELSE IF platform # "linux" THEN Give(Unsupported)
     ELSE IF r = <<>> THEN Run("ss", Words(<<"-tunlp">>))
     ELSE IF Len(r) = 1 /\ ~r[1].failed THEN Listing(r[1], shown(r[1]))
     ELSE IF Len(r) = 1 THEN Run("netstat", Words(<<"-tunlp">>))
     ELSE IF r[2].failed THEN Listing(r[2], 0)
     ELSE Give([Plain EXCEPT !.mark = TRUE, !.context = ContextOf(r[2]), !.count = shown(r[2])])

\* A failure makes the status "warning" and the lines it did print are shown;
\* the error says "permission" only when journalctl itself may not be run.
JournalctlReader(platform, a, r) ==
  LET service == IF a.text = "" THEN "sshd" ELSE a.text
      lines == LimitOf(a, 100, 500)
  IN IF ~SafeUnitName(service) THEN Give([Refused EXCEPT !.context = "denied", !.risk = "low"])
     ELSE IF platform # "linux" THEN Give(Unsupported)
     ELSE IF r = <<>> THEN
            Probe("journalctl", Words(<<"-u", service, "-n">>) \o <<Number(lines)>> \o Words(<<"--no-pager">>))
     ELSE Give([Plain EXCEPT !.mark = r[1].failed, !.context = ContextOf(r[1]),
                                      !.count = r[1].lines,
                                      !.risk = IF r[1].forbidden THEN "review" ELSE "low"])

-----------------------------------------------------------------------------
\* One and five alarms stand for a fifth and a tenth of the memory left.
MemoryRisk(result) == IF result.failed THEN "low" ELSE Level(result.alarms, 1, 5)

WorstRisk(risks) ==
  IF "high" \in risks THEN "high"
  ELSE IF "medium" \in risks THEN "medium"
  ELSE "low"

\* readLoadAvg and readMemInfo give warnings, never an error.
ResourceUsageChecker(platform, r) ==
  IF platform # "linux" THEN Give(Unsupported)
  ELSE IF r = <<>> THEN Read("/proc/loadavg")
  ELSE IF Len(r) = 1 THEN Read("/proc/meminfo")
  ELSE Give([Plain EXCEPT !.mark = \E i \in 1..2 : r[i].failed, !.risk = MemoryRisk(r[2])])

\* Without df the mounts are read, which have no percentages; that they cannot
\* be read either is not said.
DiskMemoryChecker(platform, r) ==
  LET memory == Last(r)
      usage == IF r[1].failed THEN "low" ELSE Level(r[1].alarms, 1, 5)
      source == IF r[1].failed THEN r[2] ELSE r[1]
  IN IF platform # "linux" THEN
            IF r = <<>> THEN Read("/proc/meminfo") ELSE Give(Unsupported)
     ELSE IF r = <<>> THEN Run("df", Words(<<"-h">>))
     ELSE IF Len(r) = 1 /\ r[1].failed THEN Read("/proc/mounts")
     ELSE IF Len(r) = (IF r[1].failed THEN 2 ELSE 1) THEN Read("/proc/meminfo")
     ELSE Give([Plain EXCEPT !.mark = r[1].failed \/ memory.failed,
                                      !.context = IF r[1].failed THEN "native" ELSE ContextOf(r[1]),
                                      !.count = IF source.failed THEN 0 ELSE source.lines,
                                      !.risk = WorstRisk({usage, MemoryRisk(memory)})])

\* lsof exits with 1 and prints nothing when nobody has the file open.
NobodyHasIt(result) == result.exit = 1 /\ result.lines = 0

OpenFileInspector(platform, a, r) ==
  LET query == IF a.text # "" THEN Words(<<"--", a.text>>) ELSE <<Word("-p"), Number(a.number)>>
  IN IF platform # "linux" THEN Give(Unsupported)
     ELSE IF r = <<>> THEN Probe("lsof", Words(<<"-nP", "-F", "pcuftn">>) \o query)
     ELSE IF r[1].failed /\ ~NobodyHasIt(r[1]) THEN Listing(r[1], 0)
     ELSE Give([Plain EXCEPT !.context = ContextOf(r[1]), !.risk = "medium",
                                      !.count = Least(r[1].lines, LimitOf(a, 50, 200))])

\* Two samples of /proc/diskstats, the time between them apart.
DiskIOChecker(platform, r) ==
  IF platform # "linux" THEN Give(Unsupported)
  ELSE IF r # <<>> /\ Last(r).failed THEN Give(Failed)
  ELSE IF Len(r) = 1 THEN Step("wait", "sample_ms", <<>>, FALSE)
  ELSE IF Len(r) < 3 THEN Read("/proc/diskstats")
  ELSE Give([Plain EXCEPT !.count = r[3].lines, !.risk = Level(r[3].alarms, 1, 5)])

\* Mistake: a time-out, which leaves the exit code at zero, counts as verified.
UnverifiedAboveOne(result) == ~result.missing /\ result.failed /\ result.exit > 1

\* One rpm --verify per package.  Exit 1 says that files differ; any other
\* failure ends the call.  The context is the first command's.
Unverified(result) == ~result.missing /\ result.failed /\ result.exit # 1

\* A finding per line of what rpm printed about the packages that are there.
Findings(r) == FoldLeft(LAMBDA n, x : IF x.missing THEN n ELSE n + x.lines, 0, r)

ConfigurationDriftDetector(platform, a, r) ==
  LET packages == Dedupe(a.names)
      missing == {packages[i] : i \in {j \in 1..Len(r) : r[j].missing}}
      checked == {packages[i] : i \in {j \in 1..Len(r) : ~r[j].missing /\ ~Unverified(r[j])}}
  IN IF Len(packages) \notin 1..5 \/ \E i \in 1..Len(packages) : ~SafePackageName(packages[i]) THEN
            Give(Refused)
     ELSE IF platform # "linux" THEN Give(Unsupported)
     ELSE IF r # <<>> /\ Unverified(Last(r)) THEN
            Give([Failed EXCEPT !.context = ContextOf(r[1]), !.checked = checked, !.missing = missing])
     ELSE IF Len(r) < Len(packages) THEN Probe("rpm", Words(<<"--verify", packages[Len(r) + 1]>>))
     ELSE Give([Plain EXCEPT !.context = ContextOf(r[1]), !.checked = checked,
                                      !.missing = missing, !.count = Findings(r),
                                      !.risk = Level(Findings(r), 1, 10)])

-----------------------------------------------------------------------------
SystemdUnitInventory(platform, a, r) ==
  IF platform # "linux" THEN Give(Unsupported)
  ELSE IF r = <<>> THEN Run("systemctl", Words(<<"list-units", "--type=service", "--all", "--no-pager",
                                            "--plain", "--legend=false">>))
  ELSE Listing(r[1], Least(r[1].lines, LimitOf(a, 100, 500)))

\* JSON that was cut short cannot be parsed.
JSONInventory(platform, a, r, command, args) ==
  IF platform # "linux" THEN Give(Unsupported)
  ELSE IF r = <<>> THEN Run(command, Words(args))
  ELSE IF ~r[1].failed /\ r[1].cut THEN Give([Failed EXCEPT !.context = ContextOf(r[1])])
  ELSE Listing(r[1], Least(r[1].lines, LimitOf(a, 100, 500)))

BlockDeviceInventory(platform, a, r) ==
  JSONInventory(platform, a, r, "lsblk", <<"--json", "--output", BlockColumns, "--nodeps">>)

MountInventory(platform, a, r) ==
  JSONInventory(platform, a, r, "findmnt", <<"--json", "--output", MountColumns>>)

RPMPackageInventory(platform, a, r) ==
  IF a.text # "" /\ ~SafePackageName(a.text) THEN Give(Refused)
  ELSE IF platform # "linux" THEN Give(Unsupported)
  ELSE IF r = <<>> THEN Run("rpm", Words(<<"-qa", "--qf", RPMQueryFormat>>))
  ELSE Listing(r[1], Least(r[1].lines, LimitOf(a, 100, 500)))

\* NewDefaultRegistry: which handler a name stands for.
Handler(tool, platform, a, r) ==
  CASE tool = "os_info" -> OSInfo(r)
    [] tool = "service_status" -> ServiceStatus(platform, a, r)
    [] tool = "port_checker" -> PortChecker(a, r)
    [] tool = "log_reader" -> LogReader(a, r)
    [] tool = "ssh_login_analyzer" -> SSHLoginAnalyzer(platform, a, r)
    [] tool = "process_inspector" -> ProcessInspector(platform, a, r)
    [] tool = "network_connection_inspector" -> NetworkConnectionInspector(platform, a, r)
    [] tool = "journalctl_reader" -> JournalctlReader(platform, a, r)
    [] tool = "resource_usage_checker" -> ResourceUsageChecker(platform, r)
    [] tool = "disk_memory_checker" -> DiskMemoryChecker(platform, r)
    [] tool = "open_file_inspector" -> OpenFileInspector(platform, a, r)
    [] tool = "disk_io_checker" -> DiskIOChecker(platform, r)
    [] tool = "configuration_drift_detector" -> ConfigurationDriftDetector(platform, a, r)
    [] tool = "systemd_unit_inventory" -> SystemdUnitInventory(platform, a, r)
    [] tool = "block_device_inventory" -> BlockDeviceInventory(platform, a, r)
    [] tool = "mount_inventory" -> MountInventory(platform, a, r)
    [] tool = "rpm_package_inventory" -> RPMPackageInventory(platform, a, r)
=============================================================================
