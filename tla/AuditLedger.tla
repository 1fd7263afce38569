---------------------------- MODULE AuditLedger ----------------------------
(***************************************************************************)
(* What the agent loop promises about tool calls, whatever a model asks    *)
(* for and whatever the audit service answers: a call is either refused or *)
(* executed, under a number no other call ever gets; its owner does        *)
(* nothing else until the audit of that call is entered; a refusal is      *)
(* entered as a denial; and the owner's answer, given once, is no milder   *)
(* than any entry.  AgentRun implements this specification.                *)
(***************************************************************************)
EXTENDS Naturals, Sequences

CONSTANTS Owners, NoEntry, NoAnswer

VARIABLES
  serial,  \* the number last given out
  open,    \* the call each owner has open, if any
  ledger,  \* the audited calls of each owner, in order
  answer   \* the decision each owner was answered with

ledgerVars == <<serial, open, ledger, answer>>

Kinds    == {"refused", "executed"}
Verdicts == {"allow", "review", "deny"}
OpenCall == [number : Nat \ {0}, kind : Kinds]
Entry    == [number : Nat \ {0}, kind : Kinds, verdict : Verdicts]

\* d is at least as strict as every verdict in E.
AtLeast(d, E) == /\ "deny" \in E => d = "deny"
                 /\ "review" \in E => d # "allow"

VerdictsOf(entries) == {entries[i].verdict : i \in DOMAIN entries}

LedgerInit ==
  /\ serial = 0
  /\ open   = [o \in Owners |-> NoEntry]
  /\ ledger = [o \in Owners |-> <<>>]
  /\ answer = [o \in Owners |-> NoAnswer]

Open(o) ==
  /\ answer[o] = NoAnswer
  /\ open[o] = NoEntry
  /\ serial' = serial + 1
  /\ \E kind \in Kinds : open' = [open EXCEPT ![o] = [number |-> serial', kind |-> kind]]
  /\ UNCHANGED <<ledger, answer>>

Enter(o) ==
  /\ open[o] # NoEntry
  /\ \E verdict \in Verdicts :
       /\ open[o].kind = "refused" => verdict = "deny"
       /\ ledger' = [ledger EXCEPT ![o] = Append(@,
            [number |-> open[o].number, kind |-> open[o].kind, verdict |-> verdict])]
  /\ open' = [open EXCEPT ![o] = NoEntry]
  /\ UNCHANGED <<serial, answer>>

Close(o) ==
  /\ answer[o] = NoAnswer
  /\ open[o] = NoEntry
  /\ \E verdict \in Verdicts :
       /\ AtLeast(verdict, VerdictsOf(ledger[o]))
       /\ answer' = [answer EXCEPT ![o] = verdict]
  /\ UNCHANGED <<serial, open, ledger>>

LedgerNext == \E o \in Owners : Open(o) \/ Enter(o) \/ Close(o)

LedgerSpec == LedgerInit /\ [][LedgerNext]_ledgerVars
=============================================================================
