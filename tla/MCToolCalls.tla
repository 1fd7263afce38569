---------------------------- MODULE MCToolCalls ----------------------------
(* Instances of ToolCalls: arguments on both sides of every check, and what  *)
(* commands do.                                                              *)
EXTENDS ToolCalls

TextOf       == [sshd |-> "sshd", dashN |-> "-n", unit |-> "getty@tty1", comma |-> "a,b",
                 shell |-> "a;b", log |-> "/var/log/secure", lock |-> "/tmp/lock",
                 passwd |-> "/etc/passwd", listen |-> "LISTEN", timeWait |-> "TIME_WAIT",
                 strange |-> "ZOMBIE"]
ListOf       == [one |-> <<"openssh">>, three |-> <<"openssh", "sshd", "bash">>, twice |-> <<"openssh", "sshd", "openssh">>,
                 many |-> <<"openssh", "sshd", "openssh", "sshd", "openssh", "sshd">>,
                 blank |-> <<"openssh", "">>, bad |-> <<"sshd", "a,b">>,
                 logs |-> <<"/var/log/messages", "/var/log/secure">>,
                 public |-> <<"/var/log/messages">>,
                 journal |-> <<"journalctl:sshd">>, secret |-> <<"/etc/passwd">>,
                 zombies |-> <<"ZOMBIE">>]
NumberOf     == [n22 |-> 22, n100 |-> 100, n2001 |-> 2001, n65536 |-> 65536, minus |-> -1,
                 pid |-> MaxPid, overPid |-> MaxPid + 1]
LimitTo      == [l1 |-> 1, l101 |-> 101, l501 |-> 501, below |-> -5]

MCInputs == {"none"} \cup DOMAIN TextOf \cup DOMAIN ListOf \cup DOMAIN NumberOf \cup DOMAIN LimitTo
            \cup {"sshdAnd501", "lockAndPid"}

MCArgumentsOf(input) ==
  CASE input = "none"             -> None
    [] input = "sshdAnd501"       -> [None EXCEPT !.text = "sshd", !.limit = 501]
    [] input = "lockAndPid"       -> [None EXCEPT !.text = "/tmp/lock", !.number = 22]
    [] input \in DOMAIN TextOf    -> [None EXCEPT !.text = TextOf[input]]
    [] input \in DOMAIN ListOf    -> [None EXCEPT !.names = ListOf[input]]
    [] input \in DOMAIN NumberOf  -> [None EXCEPT !.number = NumberOf[input]]
    [] input \in DOMAIN LimitTo   -> [None EXCEPT !.limit = LimitTo[input]]

Exited(code, lines, alarms, cut, missing) ==
  [end |-> "exited", code |-> code, lines |-> lines, alarms |-> alarms, cut |-> cut,
   missing |-> missing]

MCOutcomeOf(end) ==
  CASE end = "empty"   -> Exited(0, 0, 0, FALSE, FALSE)
    [] end = "few"     -> Exited(0, 2, 1, FALSE, FALSE)
    [] end = "cut"     -> Exited(0, 600, 10, TRUE, FALSE)
    [] end = "silent"  -> Exited(1, 0, 0, FALSE, FALSE)
    [] end = "differs" -> Exited(1, 9, 5, FALSE, FALSE)
    [] end = "absent"  -> Exited(1, 0, 0, FALSE, TRUE)
    [] end = "broken"  -> Exited(2, 1, 0, FALSE, FALSE)
    [] end = "killed"  -> Exited(-1, 0, 0, FALSE, FALSE)
    [] OTHER -> [end |-> end, code |-> 0, lines |-> 0, alarms |-> 0, cut |-> FALSE,
                 missing |-> FALSE]

MCResultOf(verdict) ==
  LET says(decision, violations) == <<[decision |-> decision, violations |-> violations]>>
  IN CASE verdict = "raises"  -> <<>>
       [] verdict = "allow"   -> says("allow", <<>>)
       [] verdict = "block"   -> says("block", <<>>)
       [] verdict = "noticed" ->
            says("allow", <<[source |-> "prompt_injection", evidence |-> <<1, 7>>]>>)
       [] verdict = "deny"    ->
            says("deny", <<[source |-> "", evidence |-> <<>>],
                           [source |-> "policy", evidence |-> <<1>>]>>)
=============================================================================
