--------------------------- MODULE CommandPolicy ---------------------------
(***************************************************************************)
(* The least-privilege execution proxy: which commands it lets run         *)
(* (execproxy.ExecPolicy.Evaluate, internal/execproxy/policy.go) and what  *)
(* its caller is told of one that ran (Executor.Execute, executor.go).     *)
(*                                                                         *)
(* An argument of a command is [word, number]: a word, or a number written *)
(* out.  Words that no rule below names are compared with the patterns.    *)
(***************************************************************************)
EXTENDS ToolArguments

Word(text)   == [word |-> text, number |-> 0]
Number(n)    == [word |-> "", number |-> n]
Words(texts) == [i \in 1..Len(texts) |-> Word(texts[i])]

\* isShell, isPrivilegeEscalation and isDangerousCommand
ForbiddenCommands ==
  {"sh", "bash", "zsh", "dash", "cmd", "powershell", "pwsh", "csh", "tcsh", "ksh"}
  \cup {"sudo", "su", "pkexec", "doas"}
  \cup {"rm", "mv", "cp", "chmod", "chown", "chgrp", "kill", "pkill", "killall", "mount",
        "umount", "mkfs", "dd", "tee", "iptables", "nft", "firewall-cmd", "reboot", "shutdown",
        "poweroff", "halt", "sed", "awk"}

\* commandAllowlist, outside Windows
CommandAllowlist ==
  {"ps", "pgrep", "ss", "netstat", "journalctl", "df", "free", "uptime", "cat", "lsof", "rpm",
   "lsblk", "findmnt", "uname", "hostname", "whoami", "date", "systemctl"}

\* IsSafeSystemctlArg, without --no-pager, which is refused as an action.
SystemctlActions ==
  {"is-active", "is-enabled", "is-failed", "status", "show", "list-units", "list-timers",
   "list-sockets", "list-unit-files", "--version"}

ListArguments == {"--no-pager", "--plain", "--all", "--legend=false", "--type=service"}

\* The rest of a systemctl command: units, --no-pager, and -n with a count of
\* at most four digits.  What is expected next, or "wrong".
SystemctlWord(expected, arg) ==
  IF expected = "wrong" THEN "wrong"
  ELSE IF expected = "count" THEN IF arg.word = "" /\ arg.number \in 0..9999 THEN "unit" ELSE "wrong"
  ELSE IF arg.word = "-n" THEN "count"
  ELSE IF arg.word = "--no-pager" \/ arg.word = "" \/ SafeUnitName(arg.word) THEN "unit"
  ELSE "wrong"

ValidSystemctlArgs(args) ==
  /\ args # <<>>
  /\ args[1].word \in SystemctlActions
  /\ CASE args[1].word = "--version" -> Len(args) = 1
       [] args[1].word \in {"list-units", "list-unit-files"} ->
            \A i \in 2..Len(args) : args[i].word \in ListArguments
       [] OTHER ->
            LET expected[i \in 1..Len(args)] ==
                  IF i = 1 THEN "unit" ELSE SystemctlWord(expected[i - 1], args[i])
            IN expected[Len(args)] = "unit"

\* The tools read /proc and /etc/os-release themselves: nobody asks for cat.
ValidCatArgs(args) ==
  /\ Len(args) = 1
  /\ args[1].word \in {"/etc/os-release", "/proc/loadavg", "/proc/meminfo", "/proc/uptime"}

ValidLsofArgs(args) ==
  /\ Len(args) = 5
  /\ [i \in 1..3 |-> args[i].word] = <<"-nP", "-F", "pcuftn">>
  /\ \/ args[4].word = "-p" /\ args[5].number \in 1..MaxPid
     \/ args[4].word = "--" /\ AllowedOpenFilePath(args[5].word)

RPMQueryFormat == "%{NAME}\\t%{VERSION}\\t%{RELEASE}\\t%{ARCH}\\n"

ValidRPMArgs(args) ==
  \/ Len(args) = 2 /\ args[1].word = "--verify" /\ SafePackageName(args[2].word)
  \/ args = Words(<<"-qa", "--qf", RPMQueryFormat>>)

BlockColumns == "NAME,TYPE,SIZE,FSTYPE,MOUNTPOINT,ROTA,MODEL"
MountColumns == "TARGET,SOURCE,FSTYPE,OPTIONS"

\* validateLSBLKArgs and validateFindmntArgs
ValidLSBLKArgs(args)   == args = Words(<<"--json", "--output", BlockColumns, "--nodeps">>)
ValidFindmntArgs(args) == args = Words(<<"--json", "--output", MountColumns>>)

\* ExecPolicy.Evaluate; the profiles the tools ask for are never "denied".
EvaluateCommand(command, args) ==
  /\ command \notin ForbiddenCommands
  /\ command \in CommandAllowlist
  /\ \A i \in 1..Len(args) : ~HasShellChars(args[i].word)
  /\ command = "systemctl" => ValidSystemctlArgs(args)
  /\ command = "cat"       => ValidCatArgs(args)
  /\ command = "lsof"      => ValidLsofArgs(args)
  /\ command = "rpm"       => ValidRPMArgs(args)
  /\ command = "lsblk"     => ValidLSBLKArgs(args)
  /\ command = "findmnt"   => ValidFindmntArgs(args)

-----------------------------------------------------------------------------
\* What becomes of a command: it exits with a code (-1 when it is killed), it
\* runs into its time-out, or it cannot be started (forbidden: for want of
\* permission).  `lines' is how many of its
\* output lines can be used, `alarms' how many of what the risk level counts
\* (zombies, failed logins from one address), `cut' that the output went over
\* the size limit, `missing' that stderr says the package is not installed.
Outcomes ==
  [end : {"exited", "timeout", "unstarted", "forbidden"}, code : Int, lines : Nat, alarms : Nat,
   cut : BOOLEAN, missing : BOOLEAN]

\* An ExecutionResult with the error that comes with it: `allowed' is its
\* context's, `failed' that the error is not nil.
Result(status, exit, outcome, failed) ==
  [status |-> status, exit |-> exit, lines |-> outcome.lines, cut |-> outcome.cut,
   alarms |-> outcome.alarms, missing |-> outcome.missing, allowed |-> TRUE, failed |-> failed,
   timedOut |-> FALSE, forbidden |-> outcome.end = "forbidden"]

DeniedResult ==
  [status |-> "denied", exit |-> -1, lines |-> 0, cut |-> FALSE, alarms |-> 0,
   missing |-> FALSE, allowed |-> FALSE, failed |-> TRUE, timedOut |-> FALSE, forbidden |-> FALSE]

\* A time-out drops what was written, and leaves the exit code at zero.
TimedOutResult ==
  [status |-> "error", exit |-> 0, lines |-> 0, cut |-> FALSE, alarms |-> 0,
   missing |-> FALSE, allowed |-> TRUE, failed |-> TRUE, timedOut |-> TRUE, forbidden |-> FALSE]

\* Executor.Execute
Execute(command, args, allowNonZeroExit, outcome) ==
  IF ~EvaluateCommand(command, args) THEN DeniedResult
  ELSE IF outcome.end = "timeout" THEN TimedOutResult
  ELSE IF outcome.end \in {"unstarted", "forbidden"} THEN Result("error", -1, outcome, TRUE)
  ELSE IF outcome.code = 0 THEN Result("ok", 0, outcome, FALSE)
  ELSE IF allowNonZeroExit THEN Result("warning", outcome.code, outcome, TRUE)
  ELSE Result("error", outcome.code, outcome, TRUE)
=============================================================================
