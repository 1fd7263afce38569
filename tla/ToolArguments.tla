--------------------------- MODULE ToolArguments ---------------------------
(***************************************************************************)
(* The arguments of a tool call, and the patterns that the gate, the tools *)
(* and the execution proxy each try on them.                               *)
(*                                                                         *)
(* Arguments are [text, names, number, limit]: the one text a tool takes   *)
(* (service, process, state, query, path; "" for none), the list it takes  *)
(* (packages, log paths), its own number (port, pid, sampling time) and    *)
(* its limit or line count; 0 stands for a missing number.                 *)
(*                                                                         *)
(* Texts are specimens, one or more for each way the patterns can tell     *)
(* them apart: "-n" looks like a switch, "getty@tty1" is an instance of a  *)
(* unit, "a,b" has a character no pattern takes, "a;b" a shell character.  *)
(***************************************************************************)
EXTENDS Integers, Sequences, SequencesExt

Names == {"sshd", "openssh", "bash", "-n", "getty@tty1", "a,b", "a;b"}
Paths == {"/var/log/secure", "/var/log/auth.log", "/var/log/messages", "/tmp/lock", "/etc/passwd",
          "journalctl:sshd"}
States == {"ALL", "LISTEN", "TIME-WAIT", "TIME_WAIT", "ZOMBIE"}
Texts == {""} \cup Names \cup Paths \cup States

Arguments == [text : Texts, names : Seq(Texts), number : Int, limit : Int]
None == [text |-> "", names |-> <<>>, number |-> 0, limit |-> 0]

\* ;|&$`><, newline and carriage return: hasShellInjection, containsShellChars.
HasShellChars(text) == text = "a;b"

\* serviceNamePattern and safeProcessNamePattern: [A-Za-z0-9_.-]+
SafeServiceName(text) == text \in {"sshd", "openssh", "bash", "-n"}

\* safeJournalServicePattern and the proxy's safeSystemdUnitPattern: @ as well.
SafeUnitName(text) == SafeServiceName(text) \/ text = "getty@tty1"

\* rpmPackageNamePattern, both copies: starts with a letter or a digit.
SafePackageName(text) == text \in {"sshd", "openssh", "bash"}

\* allowedLogPaths
AllowedLogPaths == {"/var/log/secure", "/var/log/auth.log", "/var/log/messages"}
AllowedLogPath(path) == path \in AllowedLogPaths

\* isPrivilegedLogPath
PrivilegedLogPath(path) == path \in {"/var/log/secure", "/var/log/auth.log"}

\* The prefixes of IsAllowedOpenFilePath and validateLsofArgs.
AllowedOpenFilePath(path) == AllowedLogPath(path) \/ path = "/tmp/lock"

AllowedNetworkState(state) == state \in {"LISTEN", "TIME-WAIT", "TIME_WAIT", "ALL"}
NormalizeNetworkState(state) == IF state = "TIME_WAIT" THEN "TIME-WAIT" ELSE state

MaxPid == 4194304

\* The numbers a port may have.
Ports == 1..65535

\* What a loop over the names keeps: those that are in the set, the first of each.
FirstsIn(names, S) ==
  LET kept[i \in 0..Len(names)] ==
        IF i = 0 THEN <<>>
        ELSE IF names[i] \in S /\ names[i] \notin ToSet(kept[i - 1]) THEN Append(kept[i - 1], names[i])
        ELSE kept[i - 1]
  IN kept[Len(names)]

\* dedupeStrings and packageNamesFromInput: blanks go, the first of each stays.
Dedupe(names) == FirstsIn(names, Texts \ {""})

Clamp(value, low, high) == IF value < low THEN low ELSE IF value > high THEN high ELSE value
=============================================================================
