----------------------------- MODULE RunHistory -----------------------------
(***************************************************************************)
(* What the run history promises to keep: a log of runs, oldest first, of  *)
(* bounded length.  A run enters at the end, only the oldest one leaves,   *)
(* only to make room, and it never comes back.  A crash or a restart at    *)
(* any moment changes nothing but, possibly, the configured limit.         *)
(***************************************************************************)
EXTENDS Naturals, Sequences

CONSTANTS RunIds, Limits

VARIABLES log, bound, gone

historyVars == <<log, bound, gone>>

HistoryInit == log = <<>> /\ bound \in Limits /\ gone = {}

Trim ==
  /\ Len(log) >= bound
  /\ log' = Tail(log)
  /\ gone' = gone \cup {Head(log)}
  /\ UNCHANGED bound

Commit ==
  /\ Len(log) < bound
  /\ \E id \in RunIds \ ({log[i] : i \in 1..Len(log)} \cup gone) : log' = Append(log, id)
  /\ UNCHANGED <<bound, gone>>

Reconfigure == bound' \in Limits /\ UNCHANGED <<log, gone>>

HistoryNext == Trim \/ Commit \/ Reconfigure

HistorySpec == HistoryInit /\ [][HistoryNext]_historyVars
=============================================================================
