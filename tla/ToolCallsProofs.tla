-------------------------- MODULE ToolCallsProofs --------------------------
(***************************************************************************)
(* Theorems about ToolCalls, for any arguments, outcomes of commands and   *)
(* evaluators.                                                             *)
(*                                                                         *)
(* They rest on CallInv: what is under way passed the gate, the handler    *)
(* asked for each of the results after it had seen those before it, and    *)
(* what it answered is what it says of all of them.  What is left are      *)
(* facts about the handlers, tool by tool.                                 *)
(***************************************************************************)
EXTENDS ToolCalls, WellFoundedInduction, TLAPS

-----------------------------------------------------------------------------
(* Loops over names *)

Distinct(s) == \A i, j \in 1..Len(s) : s[i] = s[j] => i = j

\* Induction over the numbers, and over those up to N, as facts about sets.
LEMMA NatSetInduction ==
  ASSUME NEW G, 0 \in G, \A n \in Nat : n \in G => n + 1 \in G
  PROVE  Nat \subseteq G
<1>1. SUFFICES ASSUME Nat \ G # {} PROVE FALSE
  OBVIOUS
<1>2. PICK m \in Nat \ G : \A k \in Nat \ G : ~(<<k, m>> \in OpToRel(<, Nat))
  BY <1>1, NatLessThanWellFounded, WFMin, Zenon
<1>3. \A k \in Nat \ G : ~(k < m)
  BY <1>2 DEF OpToRel
<1>4. m # 0 /\ m - 1 \in Nat
  OBVIOUS
<1>5. QED
  BY <1>3, <1>4

LEMMA UpTo ==
  ASSUME NEW N \in Nat, NEW G, 0 \in G, \A n \in Nat : n < N /\ n \in G => n + 1 \in G
  PROVE  0..N \subseteq G
<1> DEFINE H == {n \in Nat : n <= N => n \in G}
<1>1. 0 \in H
  OBVIOUS
<1>2. ASSUME NEW n \in Nat, n \in H PROVE n + 1 \in H
  BY <1>2
<1>3. Nat \subseteq H
  <2> HIDE DEF H
  <2> QED
    BY <1>1, <1>2, NatSetInduction
<1> QED
  BY <1>3

\* The turns of the loop of FirstsIn, by how many names it has seen.
Turns(kept, names, S, n) ==
  [i \in 0..n |-> IF i = 0 THEN <<>>
                  ELSE IF names[i] \in S /\ names[i] \notin ToSet(kept[i - 1])
                       THEN Append(kept[i - 1], names[i])
                  ELSE kept[i - 1]]

LEMMA TurnsExist ==
  ASSUME NEW names, NEW S
  PROVE  \A n \in Nat : \E kept : kept = Turns(kept, names, S, n)
<1> DEFINE G == {n \in Nat : \E kept : kept = Turns(kept, names, S, n)}
<1>1. 0 \in G
  <2>1. [i \in 0..0 |-> <<>>] = Turns([i \in 0..0 |-> <<>>], names, S, 0)
    BY DEF Turns
  <2>2. QED
    BY <2>1
<1>2. ASSUME NEW n \in Nat, n \in G PROVE n + 1 \in G
  <2>1. PICK f : f = Turns(f, names, S, n)
    BY <1>2
  <2> DEFINE last == IF names[n + 1] \in S /\ names[n + 1] \notin ToSet(f[n])
                     THEN Append(f[n], names[n + 1]) ELSE f[n]
             g == [i \in 0..(n + 1) |-> IF i = n + 1 THEN last ELSE f[i]]
  <2>2. \A i \in 0..n : g[i] = f[i]
    OBVIOUS
  <2>3. \A i \in 0..n : g[i] = Turns(g, names, S, n + 1)[i]
    <3> HIDE DEF g
    <3> SUFFICES ASSUME NEW i \in 0..n PROVE g[i] = Turns(g, names, S, n + 1)[i]
      OBVIOUS
    <3>1. g[i] = f[i] /\ i \in 0..(n + 1)
      BY <2>2
    <3>2. CASE i = 0
      BY <2>1, <3>1, <3>2 DEF Turns
    <3>3. CASE i # 0
      <4>1. g[i - 1] = f[i - 1]
        BY <2>2, <3>3
      <4>2. f[i] = Turns(f, names, S, n)[i]
        BY <2>1
      <4>3. Turns(f, names, S, n)[i] = Turns(g, names, S, n + 1)[i]
        BY <3>1, <3>3, <4>1 DEF Turns
      <4> QED
        BY <3>1, <4>2, <4>3
    <3> QED
      BY <3>2, <3>3
  <2>4. g[n + 1] = Turns(g, names, S, n + 1)[n + 1]
    BY <2>2 DEF Turns
  <2>5. g = Turns(g, names, S, n + 1)
    <3> HIDE DEF g
    <3>1. \A i \in 0..(n + 1) : g[i] = Turns(g, names, S, n + 1)[i]
      BY <2>3, <2>4
    <3>2. g = [i \in 0..(n + 1) |-> g[i]]
      BY DEF g
    <3> QED
      BY <3>1, <3>2 DEF Turns
  <2>6. QED
    BY <2>5
<1>3. QED
  BY <1>1, <1>2, NatSetInduction

\* What it keeps, turn by turn.
Loop(kept, names, P) ==
  /\ kept[0] = <<>>
  /\ \A n \in Nat : n + 1 <= Len(names) =>
       kept[n + 1] = IF names[n + 1] \in P /\ names[n + 1] \notin ToSet(kept[n])
                     THEN Append(kept[n], names[n + 1]) ELSE kept[n]

LEMMA FirstsTurns ==
  ASSUME NEW S, NEW names \in Seq(S), NEW P
  PROVE  \E kept : Loop(kept, names, P) /\ FirstsIn(names, P) = kept[Len(names)]
<1> DEFINE K == CHOOSE kept : kept = Turns(kept, names, P, Len(names))
<1>0. Len(names) \in Nat
  OBVIOUS
<1>1. K = Turns(K, names, P, Len(names))
  <2>1. \E kept : kept = Turns(kept, names, P, Len(names))
    BY <1>0, TurnsExist
  <2> QED
    BY <2>1, Zenon
<1>2. FirstsIn(names, P) = K[Len(names)]
  BY DEF FirstsIn, Turns
<1> HIDE DEF K
<1>3. K[0] = <<>>
  <2>1. K[0] = Turns(K, names, P, Len(names))[0]
    BY <1>1
  <2> QED
    BY <1>0, <2>1 DEF Turns
<1>4. ASSUME NEW n \in Nat, n + 1 <= Len(names)
      PROVE  K[n + 1] = IF names[n + 1] \in P /\ names[n + 1] \notin ToSet(K[n])
                        THEN Append(K[n], names[n + 1]) ELSE K[n]
  <2>1. K[n + 1] = Turns(K, names, P, Len(names))[n + 1]
    BY <1>1
  <2>2. n + 1 \in 0..Len(names) /\ n + 1 # 0 /\ (n + 1) - 1 = n
    BY <1>0, <1>4
  <2> QED
    BY <2>1, <2>2 DEF Turns
<1>5. Loop(K, names, P)
  BY <1>3, <1>4 DEF Loop
<1> QED
  BY <1>2, <1>5

\* Appending a name that is not there yet.
LEMMA AppendNew ==
  ASSUME NEW S, NEW s \in Seq(S), NEW x \in S
  PROVE  /\ Append(s, x) \in Seq(S) /\ Len(Append(s, x)) = Len(s) + 1
         /\ Append(s, x)[1] = IF s = <<>> THEN x ELSE s[1]
         /\ ToSet(Append(s, x)) = ToSet(s) \cup {x}
         /\ Distinct(s) /\ x \notin ToSet(s) => Distinct(Append(s, x))
<1>1. /\ Append(s, x) \in Seq(S) /\ DOMAIN Append(s, x) = 1..(Len(s) + 1)
      /\ Len(Append(s, x)) = Len(s) + 1 /\ DOMAIN s = 1..Len(s) /\ Len(s) \in Nat
      /\ \A i \in 1..Len(s) : Append(s, x)[i] = s[i]
      /\ Append(s, x)[Len(s) + 1] = x
      /\ s # <<>> => 1 \in 1..Len(s)
      /\ s = <<>> => Len(s) + 1 = 1
  OBVIOUS
<1>2. ToSet(Append(s, x)) = ToSet(s) \cup {x}
  <2>1. ASSUME NEW y \in ToSet(Append(s, x)) PROVE y \in ToSet(s) \cup {x}
    BY <1>1, <2>1 DEF ToSet
  <2>2. ASSUME NEW y \in ToSet(s) PROVE y \in ToSet(Append(s, x))
    <3>1. PICK i \in 1..Len(s) : y = s[i]
      BY <1>1 DEF ToSet
    <3>2. i \in DOMAIN Append(s, x) /\ Append(s, x)[i] = y
      BY <1>1, <3>1
    <3> QED
      BY <3>2 DEF ToSet
  <2>3. x \in ToSet(Append(s, x))
    <3>1. Len(s) + 1 \in DOMAIN Append(s, x)
      BY <1>1
    <3> QED
      BY <1>1, <3>1 DEF ToSet
  <2> QED
    BY <2>1, <2>2, <2>3
<1>3. Distinct(s) /\ x \notin ToSet(s) => Distinct(Append(s, x))
  BY <1>1 DEF Distinct, ToSet
<1>4. Append(s, x)[1] = IF s = <<>> THEN x ELSE s[1]
  BY <1>1
<1> QED
  BY <1>1, <1>2, <1>3, <1>4

\* What a loop over the names keeps has no name twice, keeps every name that is
\* in the set, and starts with the first name if it keeps that.
LEMMA FirstsFacts ==
  ASSUME NEW S, NEW names \in Seq(S), NEW P
  PROVE  LET f == FirstsIn(names, P)
         IN /\ f \in Seq(S) /\ Len(f) <= Len(names) /\ Distinct(f)
            /\ ToSet(f) = ToSet(names) \cap P
            /\ names # <<>> /\ names[1] \in P => f # <<>> /\ f[1] = names[1]
<1>0. PICK kept : Loop(kept, names, P) /\ FirstsIn(names, P) = kept[Len(names)]
  BY FirstsTurns
<1>1. /\ FirstsIn(names, P) = kept[Len(names)]
      /\ kept[0] = <<>>
      /\ \A n \in Nat : n + 1 <= Len(names) =>
           kept[n + 1] = IF names[n + 1] \in P /\ names[n + 1] \notin ToSet(kept[n])
                         THEN Append(kept[n], names[n + 1]) ELSE kept[n]
  BY <1>0 DEF Loop
<1> DEFINE I(n) == /\ kept[n] \in Seq(S) /\ Len(kept[n]) <= n /\ Distinct(kept[n])
                   /\ ToSet(kept[n]) = {names[i] : i \in 1..n} \cap P
                   /\ n > 0 /\ names[1] \in P => kept[n] # <<>> /\ kept[n][1] = names[1]
           G == {n \in Nat : I(n)}
<1>2. Len(names) \in Nat /\ ToSet(names) = {names[i] : i \in 1..Len(names)}
  BY DEF ToSet
<1>3. 0 \in G
  <2>1. kept[0] = <<>> /\ Len(<<>>) = 0 /\ <<>> \in Seq(S) /\ ToSet(<<>>) = {}
    BY <1>1 DEF ToSet
  <2>2. {names[i] : i \in 1..0} = {}
    OBVIOUS
  <2>3. Distinct(<<>>)
    BY DEF Distinct
  <2>4. I(0)
    BY <2>1, <2>2, <2>3
  <2> QED
    BY <2>4
<1>4. ASSUME NEW n \in Nat, n < Len(names), n \in G PROVE n + 1 \in G
  <2> DEFINE x == names[n + 1]
  <2>1. I(n) /\ n + 1 <= Len(names) /\ x \in S
    BY <1>2, <1>4
  <2>2. {names[i] : i \in 1..(n + 1)} = {names[i] : i \in 1..n} \cup {x}
    <3>1. 1..(n + 1) = (1..n) \cup {n + 1}
      OBVIOUS
    <3> QED
      BY <3>1
  <2>3. kept[n] = <<>> => n = 0 \/ names[1] \notin P
    BY <2>1
  <2>4. CASE x \in P /\ x \notin ToSet(kept[n])
    <3>1. kept[n + 1] = Append(kept[n], x)
      BY <1>1, <2>1, <2>4
    <3>2. /\ Append(kept[n], x) \in Seq(S) /\ Len(Append(kept[n], x)) = Len(kept[n]) + 1
          /\ Append(kept[n], x)[1] = IF kept[n] = <<>> THEN x ELSE kept[n][1]
          /\ ToSet(Append(kept[n], x)) = ToSet(kept[n]) \cup {x}
          /\ Distinct(Append(kept[n], x)) /\ Len(kept[n]) \in Nat
      BY <2>1, <2>4, AppendNew
    <3> HIDE DEF x
    <3>3. ToSet(kept[n + 1]) = {names[i] : i \in 1..(n + 1)} \cap P
      BY <2>1, <2>2, <2>4, <3>1, <3>2
    <3>4. Append(kept[n], x) # <<>>
      <4>1. Len(Append(kept[n], x)) > 0
        BY <3>2
      <4> QED
        BY <4>1
    <3>5. names[1] \in P => kept[n + 1][1] = names[1]
      <4>1. n = 0 => x = names[1]
        BY DEF x
      <4>2. kept[n] = <<>> /\ names[1] \in P => n = 0
        BY <2>3
      <4>3. kept[n] # <<>> /\ names[1] \in P /\ n > 0 => kept[n][1] = names[1]
        BY <2>1
      <4>4. n = 0 => kept[n] = <<>>
        BY <1>1
      <4> QED
        BY <3>1, <3>2, <4>1, <4>2, <4>3, <4>4
    <3>6. Len(kept[n + 1]) <= n + 1
      BY <2>1, <3>1, <3>2
    <3>7. n + 1 \in Nat
      OBVIOUS
    <3> QED
      BY <3>1, <3>2, <3>3, <3>4, <3>5, <3>6, <3>7
  <2>5. CASE ~(x \in P /\ x \notin ToSet(kept[n]))
    <3>1. kept[n + 1] = kept[n]
      BY <1>1, <2>1, <2>5
    <3>2. ToSet(kept[n]) = {names[i] : i \in 1..(n + 1)} \cap P
      <4> HIDE DEF x
      <4> QED
        BY <2>1, <2>2, <2>5
    <3>3. n = 0 => x = names[1] /\ ToSet(kept[n]) = {}
      BY <1>3, <2>1
    <3>4. names[1] \in P => n > 0
      BY <2>5, <3>3
    <3>5. Len(kept[n]) <= n + 1
      BY <2>1
    <3> QED
      BY <2>1, <3>1, <3>2, <3>4, <3>5
  <2> QED
    BY <2>4, <2>5
<1>5. Len(names) \in G
  <2> HIDE DEF G
  <2>1. 0..Len(names) \subseteq G
    BY <1>2, <1>3, <1>4, UpTo
  <2> QED
    BY <1>2, <2>1
<1>6. I(Len(names))
  BY <1>5
<1>7. names # <<>> => Len(names) > 0
  BY <1>2
<1> HIDE DEF I
<1> QED
  BY <1>1, <1>2, <1>6, <1>7 DEF I

-----------------------------------------------------------------------------
(* One call *)

\* What a command or a read can have returned.
Returned ==
  {x \in [status : {"ok", "warning", "error", "denied"}, exit : Int, lines : Nat, cut : BOOLEAN,
          alarms : Nat, missing : BOOLEAN, allowed : BOOLEAN, failed : BOOLEAN,
          timedOut : BOOLEAN, forbidden : BOOLEAN] :
     /\ ~x.failed => x.exit = 0 /\ x.allowed
     /\ x.timedOut => x.exit = 0 /\ x.failed
     /\ ~x.allowed => x.exit # 1 /\ x.failed}

\* The handler asked for each of the results, having seen those before it, and
\* answered when it had seen them all.
Followed ==
  /\ \A k \in 1..Len(results) : Handler(tool, platform, args, SubSeq(results, 1, k - 1)).step # <<>>
  /\ answer # <<>> => answer = Handler(tool, platform, args, results).answer

CallInv ==
  /\ args \in Arguments
  /\ results \in Seq(Returned)
  /\ phase \in {"idle", "refused"} => results = <<>> /\ answer = <<>>
  /\ phase = "running" => answer = <<>>
  /\ phase \notin {"idle", "refused"} => tool \in RegisteredTools /\ GateAllows(tool, args)
  /\ Followed

\* What a step returns, whatever becomes of its command.
LEMMA PerformReturns ==
  ASSUME NEW step, NEW outcome \in Outcomes PROVE Perform(step, outcome) \in Returned
<1>1. DeniedResult \in Returned /\ TimedOutResult \in Returned
  BY DEF DeniedResult, TimedOutResult, Returned
<1>2. /\ Result("error", -1, outcome, TRUE) \in Returned
      /\ Result("ok", 0, outcome, FALSE) \in Returned
      /\ \A code \in Int : /\ Result("warning", code, outcome, TRUE) \in Returned
                           /\ Result("error", code, outcome, TRUE) \in Returned
  BY DEF Result, Returned, Outcomes
<1>3. outcome.code \in Int
  BY DEF Outcomes
<1> QED
  BY <1>1, <1>2, <1>3 DEF Perform, Execute

LEMMA AppendPrefixes ==
  ASSUME NEW S, NEW s \in Seq(S), NEW x \in S
  PROVE  /\ Append(s, x) \in Seq(S) /\ Len(Append(s, x)) = Len(s) + 1 /\ Len(s) \in Nat
         /\ \A i \in 1..Len(s) : Append(s, x)[i] = s[i]
         /\ Append(s, x)[Len(s) + 1] = x
         /\ \A k \in 1..Len(s) : SubSeq(Append(s, x), 1, k - 1) = SubSeq(s, 1, k - 1)
         /\ SubSeq(Append(s, x), 1, Len(s)) = s
<1>1. /\ Append(s, x) \in Seq(S) /\ Len(Append(s, x)) = Len(s) + 1 /\ Len(s) \in Nat
      /\ \A i \in 1..Len(s) : Append(s, x)[i] = s[i]
      /\ Append(s, x)[Len(s) + 1] = x
  OBVIOUS
<1>2. ASSUME NEW k \in 1..Len(s) PROVE SubSeq(Append(s, x), 1, k - 1) = SubSeq(s, 1, k - 1)
  <2>1. k - 1 \in Nat /\ k - 1 <= Len(s) /\ k - 1 <= Len(Append(s, x))
    BY <1>1
  <2>2. /\ SubSeq(s, 1, k - 1) \in Seq(S) /\ SubSeq(Append(s, x), 1, k - 1) \in Seq(S)
        /\ Len(SubSeq(s, 1, k - 1)) = k - 1 /\ Len(SubSeq(Append(s, x), 1, k - 1)) = k - 1
    BY <1>1, <2>1
  <2>3. ASSUME NEW i \in 1..(k - 1)
        PROVE  SubSeq(Append(s, x), 1, k - 1)[i] = SubSeq(s, 1, k - 1)[i]
    BY <1>1, <2>1
  <2> QED
    BY <2>2, <2>3
<1>3. SubSeq(Append(s, x), 1, Len(s)) = s
  <2>1. /\ SubSeq(Append(s, x), 1, Len(s)) \in Seq(S) /\ Len(SubSeq(Append(s, x), 1, Len(s))) = Len(s)
    BY <1>1
  <2>2. ASSUME NEW i \in 1..Len(s) PROVE SubSeq(Append(s, x), 1, Len(s))[i] = s[i]
    BY <1>1
  <2> QED
    BY <2>1, <2>2
<1> QED
  BY <1>1, <1>2, <1>3

LEMMA NoArguments == None \in Arguments
<1>1. "" \in Texts
  BY DEF Texts
<1>2. <<>> \in Seq(Texts)
  OBVIOUS
<1>3. \A text \in Texts, names \in Seq(Texts), number, limit \in Int :
        [text |-> text, names |-> names, number |-> number, limit |-> limit] \in Arguments
  BY DEF Arguments
<1>4. 0 \in Int
  OBVIOUS
<1> QED
  BY <1>1, <1>2, <1>3, <1>4, Zenon DEF None

LEMMA InitCallInv == Init => CallInv
  BY NoArguments DEF Init, CallInv, Followed

LEMMA RunStepFollows ==
  ASSUME CallInv, NEW end \in Ends, RunStep(end) PROVE CallInv'
<1> DEFINE x == Perform(Pending, OutcomeOf(end))
<1>1. x \in Returned
  BY PerformReturns, EndsAssumption
<1>2. /\ results' = Append(results, x)
      /\ UNCHANGED <<platform, request, phase, tool, args, answer, audit>>
      /\ phase = "running" /\ answer = <<>> /\ NextStep.step # <<>> /\ results \in Seq(Returned)
  BY DEF RunStep, CallInv
<1> HIDE DEF x
<1>3. /\ results' \in Seq(Returned) /\ Len(results') = Len(results) + 1 /\ Len(results) \in Nat
      /\ \A k \in 1..Len(results) : SubSeq(results', 1, k - 1) = SubSeq(results, 1, k - 1)
      /\ SubSeq(results', 1, Len(results)) = results
  BY <1>1, <1>2, AppendPrefixes
<1>4. ASSUME NEW k \in 1..Len(results')
      PROVE  Handler(tool, platform, args, SubSeq(results', 1, k - 1)).step # <<>>
  <2>1. CASE k \in 1..Len(results)
    BY <1>3, <2>1 DEF CallInv, Followed
  <2>2. CASE k = Len(results) + 1
    <3>1. k - 1 = Len(results)
      BY <1>3, <2>2
    <3>2. SubSeq(results', 1, k - 1) = results
      BY <1>3, <3>1
    <3> QED
      BY <1>2, <3>2 DEF NextStep
  <2> QED
    BY <1>3, <2>1, <2>2
<1> QED
  BY <1>2, <1>3, <1>4 DEF CallInv, Followed

LEMMA NextCallInv == CallInv /\ [Next]_vars => CallInv'
<1> SUFFICES ASSUME CallInv, [Next]_vars PROVE CallInv'
  OBVIOUS
<1> USE DEF CallInv, Followed
<1>1. ASSUME NEW t \in RegisteredTools, NEW input \in Inputs, Refuse(t, input) PROVE CallInv'
  <2>1. ArgumentsOf(input) \in Arguments
    BY InputsAssumption
  <2> QED
    BY <1>1, <2>1 DEF Refuse
<1>2. ASSUME NEW t \in RegisteredTools, NEW input \in Inputs, Begin(t, input) PROVE CallInv'
  <2>1. ArgumentsOf(input) \in Arguments
    BY InputsAssumption
  <2> QED
    BY <1>2, <2>1 DEF Begin
<1>3. ASSUME NEW end \in Ends, RunStep(end) PROVE CallInv'
  BY <1>3, RunStepFollows
<1>4. ASSUME Cancel PROVE CallInv'
  BY <1>4 DEF Cancel
<1>5. ASSUME Return PROVE CallInv'
  BY <1>5 DEF Return, NextStep
<1>6. ASSUME NEW verdict \in Verdicts, AuditByCore(verdict) PROVE CallInv'
  BY <1>6 DEF AuditByCore
<1>7. ASSUME AuditLocally PROVE CallInv'
  BY <1>7 DEF AuditLocally
<1>8. ASSUME Finish PROVE CallInv'
  BY <1>8, NoArguments DEF Finish
<1>9. CASE UNCHANGED vars
  BY <1>9 DEF vars
<1> QED
  BY <1>1, <1>2, <1>3, <1>4, <1>5, <1>6, <1>7, <1>8, <1>9 DEF Next

\* What every reachable state says of the call under way.
LEMMA CallAlways == Spec => []CallInv
BY InitCallInv, NextCallInv, PTL DEF Spec

-----------------------------------------------------------------------------
(* Commands that the proxy permits *)

\* What a handler does next, if it is a command, is one the proxy lets run.
Permitted(next) ==
  next.step # <<>> /\ next.step[1].kind = "command" =>
    EvaluateCommand(next.step[1].command, next.step[1].args)

LEMMA DeniedOnlyIf ==
  ASSUME NEW next, NEW outcome, next.step # <<>>, Permitted(next)
  PROVE  Perform(next.step[1], outcome).status # "denied"
BY DEF Permitted, Perform, Execute, Result, TimedOutResult

LEMMA StepForms ==
  ASSUME NEW kind, NEW command, NEW words, NEW lenient, NEW given
  PROVE  /\ Permitted(Give(given)) /\ Permitted(Read(command))
         /\ kind # "command" => Permitted(Step(kind, command, words, lenient))
         /\ EvaluateCommand(command, words) => Permitted(Run(command, words)) /\ Permitted(Probe(command, words))
         /\ Give(given).step = <<>> /\ Give(given).answer = <<given>> /\ Give(given).answer # <<>>
         /\ Give(given).answer[1] = given
         /\ Step(kind, command, words, lenient).step # <<>> /\ Step(kind, command, words, lenient).answer = <<>>
         /\ Run(command, words).step # <<>> /\ Run(command, words).answer = <<>>
         /\ Probe(command, words).step # <<>> /\ Probe(command, words).answer = <<>>
         /\ Read(command).step # <<>> /\ Read(command).answer = <<>>
BY DEF Permitted, Give, Step, Run, Probe, Read

-----------------------------------------------------------------------------
(* Command lines *)

\* No word of a command has a shell character.
Clean(words) == \A i \in 1..Len(words) : ~HasShellChars(words[i].word)

LEMMA WordFacts ==
  ASSUME NEW text, NEW n
  PROVE  /\ Word(text).word = text
         /\ Number(n).word = "" /\ Number(n).number = n /\ ~HasShellChars(Number(n).word)
BY DEF Word, Number, HasShellChars

LEMMA WordsFacts ==
  ASSUME NEW S, NEW texts \in Seq(S)
  PROVE  /\ DOMAIN Words(texts) = 1..Len(texts) /\ Len(Words(texts)) = Len(texts)
         /\ Words(texts) \in Seq({Word(x) : x \in S})
         /\ \A i \in 1..Len(texts) : Words(texts)[i] = Word(texts[i]) /\ Words(texts)[i].word = texts[i]
         /\ (\A i \in 1..Len(texts) : texts[i] # "a;b") => Clean(Words(texts))
<1>1. Len(texts) \in Nat /\ \A i \in 1..Len(texts) : texts[i] \in S
  OBVIOUS
<1>2. DOMAIN Words(texts) = 1..Len(texts) /\ Len(Words(texts)) = Len(texts)
  BY <1>1 DEF Words
<1>3. Words(texts) \in Seq({Word(x) : x \in S})
  BY <1>1 DEF Words
<1>4. \A i \in 1..Len(texts) : Words(texts)[i] = Word(texts[i])
  BY <1>1 DEF Words
<1>5. \A i \in 1..Len(texts) : Words(texts)[i].word = texts[i]
  BY <1>4, WordFacts
<1> QED
  BY <1>2, <1>3, <1>4, <1>5 DEF Clean, HasShellChars

LEMMA CleanConcat ==
  ASSUME NEW S, NEW s \in Seq(S), NEW t \in Seq(S), Clean(s), Clean(t)
  PROVE  s \o t \in Seq(S) /\ Clean(s \o t)
<1>1. /\ s \o t \in Seq(S) /\ Len(s \o t) = Len(s) + Len(t) /\ Len(s) \in Nat /\ Len(t) \in Nat
      /\ \A i \in 1..Len(s \o t) :
           (s \o t)[i] = IF i <= Len(s) THEN s[i] ELSE t[i - Len(s)]
  OBVIOUS
<1>2. ASSUME NEW i \in 1..Len(s \o t) PROVE ~HasShellChars((s \o t)[i].word)
  <2>1. CASE i <= Len(s)
    BY <1>1, <2>1 DEF Clean
  <2>2. CASE ~(i <= Len(s))
    <3>1. i - Len(s) \in 1..Len(t)
      BY <1>1, <2>2
    <3> QED
      BY <1>1, <2>2, <3>1 DEF Clean
  <2> QED
    BY <2>1, <2>2
<1> QED
  BY <1>1, <1>2 DEF Clean

LEMMA FreeCommand ==
  ASSUME NEW command \in {"uname", "journalctl", "ps", "ss", "netstat", "df"}, NEW words, Clean(words)
  PROVE  EvaluateCommand(command, words)
<1>1. command \in CommandAllowlist /\ command \notin ForbiddenCommands
  BY DEF ForbiddenCommands, CommandAllowlist
<1> QED
  BY <1>1 DEF EvaluateCommand, Clean

\* A list of words of which none has a shell character.
LEMMA CleanWords ==
  ASSUME NEW w, NEW x, NEW y, NEW z,
         ~HasShellChars(w), ~HasShellChars(x), ~HasShellChars(y), ~HasShellChars(z)
  PROVE  /\ Words(<<w>>) \in Seq({Word(w)}) /\ Clean(Words(<<w>>))
         /\ Words(<<w, x>>) \in Seq({Word(w), Word(x)}) /\ Clean(Words(<<w, x>>))
         /\ Words(<<w, x, y>>) \in Seq({Word(w), Word(x), Word(y)}) /\ Clean(Words(<<w, x, y>>))
         /\ Words(<<w, x, y, z>>) \in Seq({Word(w), Word(x), Word(y), Word(z)})
         /\ Clean(Words(<<w, x, y, z>>))
<1>1. Word(w).word = w /\ Word(x).word = x /\ Word(y).word = y /\ Word(z).word = z
  BY WordFacts
<1>2. /\ Words(<<w>>) = <<Word(w)>> /\ Words(<<w, x>>) = <<Word(w), Word(x)>>
      /\ Words(<<w, x, y>>) = <<Word(w), Word(x), Word(y)>>
      /\ Words(<<w, x, y, z>>) = <<Word(w), Word(x), Word(y), Word(z)>>
  BY DEF Words
<1>6. \A s, t, u, v : /\ <<s>> \in Seq({s}) /\ <<s, t>> \in Seq({s, t})
                     /\ <<s, t, u>> \in Seq({s, t, u}) /\ <<s, t, u, v>> \in Seq({s, t, u, v})
  OBVIOUS
<1>7. /\ <<Word(w)>> \in Seq({Word(w)}) /\ <<Word(w), Word(x)>> \in Seq({Word(w), Word(x)})
      /\ <<Word(w), Word(x), Word(y)>> \in Seq({Word(w), Word(x), Word(y)})
      /\ <<Word(w), Word(x), Word(y), Word(z)>> \in Seq({Word(w), Word(x), Word(y), Word(z)})
  BY <1>6
<1>3. Clean(<<Word(w)>>) /\ Clean(<<Word(w), Word(x)>>)
  BY <1>1 DEF Clean
<1>4. Clean(<<Word(w), Word(x), Word(y)>>)
  BY <1>1 DEF Clean
<1>5. Clean(<<Word(w), Word(x), Word(y), Word(z)>>)
  BY <1>1 DEF Clean
<1> QED
  BY <1>2, <1>3, <1>4, <1>5, <1>7, Zenon

\* Words, a number and more words.
LEMMA CleanLine ==
  ASSUME NEW S, NEW s \in Seq(S), NEW t, NEW n, Clean(s), ~HasShellChars(t)
  PROVE  Clean(s \o <<Number(n)>>) /\ Clean(s \o <<Number(n)>> \o Words(<<t>>))
<1> DEFINE U == S \cup {Number(n), Word(t)}
<1>1. s \in Seq(U) /\ <<Number(n)>> \in Seq(U)
  OBVIOUS
<1>2. Words(<<t>>) \in Seq(U) /\ Clean(Words(<<t>>))
  <2>1. Words(<<t>>) \in Seq({Word(t)}) /\ Clean(Words(<<t>>))
    BY CleanWords
  <2> QED
    BY <2>1
<1>3. Clean(<<Number(n)>>)
  <2>1. ~HasShellChars(Number(n).word)
    BY WordFacts
  <2>2. Len(<<Number(n)>>) = 1 /\ <<Number(n)>>[1] = Number(n)
    OBVIOUS
  <2> QED
    BY <2>1, <2>2 DEF Clean
<1> HIDE DEF U
<1>4. s \o <<Number(n)>> \in Seq(U) /\ Clean(s \o <<Number(n)>>)
  BY <1>1, <1>3, CleanConcat
<1> QED
  BY <1>2, <1>4, CleanConcat

LEMMA JournalCommand ==
  ASSUME NEW unit, NEW n, ~HasShellChars(unit)
  PROVE  EvaluateCommand("journalctl", Words(<<"-u", unit, "-n">>) \o <<Number(n)>> \o Words(<<"--no-pager">>))
<1>1. ~HasShellChars("-u") /\ ~HasShellChars("-n") /\ ~HasShellChars("--no-pager")
  BY DEF HasShellChars
<1>2. /\ Words(<<"-u", unit, "-n">>) \in Seq({Word("-u"), Word(unit), Word("-n")})
      /\ Clean(Words(<<"-u", unit, "-n">>))
  BY <1>1, CleanWords
<1>3. Clean(Words(<<"-u", unit, "-n">>) \o <<Number(n)>> \o Words(<<"--no-pager">>))
  BY <1>1, <1>2, CleanLine
<1> QED
  BY <1>3, FreeCommand

\* A systemctl command whose other words are units.
LEMMA SystemctlUnit ==
  ASSUME NEW action, NEW unit, action \in SystemctlActions,
         action \notin {"--version", "list-units", "list-unit-files"}, ~HasShellChars(action),
         SafeUnitName(unit), unit # "-n"
  PROVE  EvaluateCommand("systemctl", Words(<<action, unit>>))
<1> DEFINE words == Words(<<action, unit>>)
<1>1. Words(<<action, unit>>) = <<Word(action), Word(unit)>>
  BY DEF Words
<1>2. Len(words) = 2 /\ words[1].word = action /\ words[2].word = unit /\ words # <<>>
  <2>1. Len(words) = 2 /\ words[1] = Word(action) /\ words[2] = Word(unit) /\ words # <<>>
    BY <1>1
  <2> QED
    BY <2>1, WordFacts, Zenon
<1>4. ~HasShellChars(unit)
  BY DEF SafeUnitName, SafeServiceName, HasShellChars
<1>5. Clean(words)
  BY <1>4, CleanWords
<1> HIDE DEF words
<1> DEFINE Turn(e) == [i \in 1..Len(words) |-> IF i = 1 THEN "unit" ELSE SystemctlWord(e[i - 1], words[i])]
           E == CHOOSE e : e = Turn(e)
<1>6. SystemctlWord("unit", words[2]) = "unit"
  BY <1>2 DEF SystemctlWord
<1>7. E = Turn(E)
  <2>1. [i \in 1..2 |-> "unit"] = Turn([i \in 1..2 |-> "unit"])
    BY <1>2, <1>6
  <2> QED
    BY <2>1
<1>8. E[Len(words)] = "unit"
  <2> HIDE DEF E
  <2>1. E[1] = Turn(E)[1] /\ E[2] = Turn(E)[2]
    BY <1>7
  <2>2. E[1] = "unit" /\ E[2] = SystemctlWord(E[1], words[2])
    BY <1>2, <2>1
  <2> QED
    BY <1>2, <1>6, <2>2
<1>9. ValidSystemctlArgs(words)
  BY <1>2, <1>8 DEF ValidSystemctlArgs
<1> QED
  BY <1>5, <1>9 DEF EvaluateCommand, ForbiddenCommands, CommandAllowlist, Clean, words

\* What Words makes of a few words, and what follows them.
LEMMA WordTuples ==
  ASSUME NEW u, NEW v, NEW w, NEW x, NEW y, NEW z
  PROVE  /\ Words(<<u, v>>) = <<Word(u), Word(v)>>
         /\ Words(<<u, v, w>>) = <<Word(u), Word(v), Word(w)>>
         /\ Words(<<u, v, w, x>>) = <<Word(u), Word(v), Word(w), Word(x)>>
BY DEF Words

LEMMA SixWords ==
  ASSUME NEW u, NEW v, NEW w, NEW x, NEW y, NEW z
  PROVE  Words(<<u, v, w, x, y, z>>) = <<Word(u), Word(v), Word(w), Word(x), Word(y), Word(z)>>
BY DEF Words

LEMMA ThreeTuple ==
  ASSUME NEW u, NEW v, NEW w PROVE Words(<<u, v, w>>) = <<Word(u), Word(v), Word(w)>>
BY DEF Words

LEMMA Pairs ==
  ASSUME NEW u, NEW v, NEW w, NEW x, NEW y, NEW s, s = <<u, v, w>> \o <<x, y>>
  PROVE  Len(s) = 5 /\ s[1] = u /\ s[2] = v /\ s[3] = w /\ s[4] = x /\ s[5] = y
OBVIOUS

\* The count of the lines that systemctl is asked for.
LEMMA CountWord == SystemctlWord("count", Number(20)) = "unit"
<1> DEFINE counts == 0..9999
<1>1. ASSUME NEW arg
      PROVE  SystemctlWord("count", arg) = IF arg.word = "" /\ arg.number \in counts THEN "unit" ELSE "wrong"
  BY DEF SystemctlWord
<1>2. Number(20).word = "" /\ Number(20).number \in counts
  BY DEF Number
<1> HIDE DEF counts
<1> QED
  BY <1>1, <1>2, Zenon

LEMMA UnitWord ==
  ASSUME NEW arg
  PROVE  SystemctlWord("unit", arg) =
           IF arg.word = "-n" THEN "count"
           ELSE IF arg.word = "--no-pager" \/ arg.word = "" \/ SafeUnitName(arg.word) THEN "unit"
           ELSE "wrong"
BY ZenonT(60) DEF SystemctlWord

LEMMA Sixes ==
  ASSUME NEW u, NEW v, NEW w, NEW x, NEW y, NEW z
  PROVE  LET s == <<u, v, w, x, y, z>>
         IN /\ Len(s) = 6 /\ s # <<>>
            /\ s[1] = u /\ s[2] = v /\ s[3] = w /\ s[4] = x /\ s[5] = y /\ s[6] = z
OBVIOUS

LEMMA ThreeWords ==
  ASSUME NEW f PROVE [i \in 1..3 |-> f[i].word] = <<f[1].word, f[2].word, f[3].word>>
OBVIOUS

LEMMA SystemctlStatus ==
  ASSUME NEW unit, SafeUnitName(unit), unit # "-n"
  PROVE  EvaluateCommand("systemctl", Words(<<"status", unit, "--no-pager", "-n">>) \o <<Number(20)>>)
<1> DEFINE words == Words(<<"status", unit, "--no-pager", "-n">>) \o <<Number(20)>>
<1>1. /\ ~HasShellChars("status") /\ ~HasShellChars(unit)
      /\ ~HasShellChars("--no-pager") /\ ~HasShellChars("-n")
  BY DEF SafeUnitName, SafeServiceName, HasShellChars
<1>2. Clean(words)
  <2>1. /\ Words(<<"status", unit, "--no-pager", "-n">>)
             \in Seq({Word("status"), Word(unit), Word("--no-pager"), Word("-n")})
        /\ Clean(Words(<<"status", unit, "--no-pager", "-n">>))
    BY <1>1, CleanWords
  <2> QED
    BY <1>1, <2>1, CleanLine
<1>3. /\ Len(words) = 5 /\ words # <<>>
      /\ words[1] = Word("status") /\ words[2] = Word(unit) /\ words[3] = Word("--no-pager")
      /\ words[4] = Word("-n") /\ words[5] = Number(20)
  <2>1. \A v, w, x, y, z : /\ Words(<<v, w, x, y>>) = <<Word(v), Word(w), Word(x), Word(y)>>
                           /\ Len(Words(<<v, w, x, y>>) \o <<z>>) = 5
                           /\ Words(<<v, w, x, y>>) \o <<z>> # <<>>
                           /\ (Words(<<v, w, x, y>>) \o <<z>>)[1] = Word(v)
                           /\ (Words(<<v, w, x, y>>) \o <<z>>)[2] = Word(w)
                           /\ (Words(<<v, w, x, y>>) \o <<z>>)[3] = Word(x)
                           /\ (Words(<<v, w, x, y>>) \o <<z>>)[4] = Word(y)
                           /\ (Words(<<v, w, x, y>>) \o <<z>>)[5] = z
    BY DEF Words
  <2> QED
    BY <2>1
<1> HIDE DEF words
<1>4. /\ words[1].word = "status" /\ words[2].word = unit /\ words[3].word = "--no-pager"
      /\ words[4].word = "-n" /\ words[5].word = "" /\ words[5].number = 20
  <2>1. \A text, n : Word(text).word = text /\ Number(n).word = "" /\ Number(n).number = n
    BY WordFacts
  <2> QED
    BY <1>3, <2>1
<1> DEFINE Turn(e) == [i \in 1..Len(words) |-> IF i = 1 THEN "unit" ELSE SystemctlWord(e[i - 1], words[i])]
           E == CHOOSE e : e = Turn(e)
           F == [i \in 1..5 |-> IF i = 4 THEN "count" ELSE "unit"]
<1>5. /\ SystemctlWord("unit", words[2]) = "unit" /\ SystemctlWord("unit", words[3]) = "unit"
      /\ SystemctlWord("unit", words[4]) = "count" /\ SystemctlWord("count", words[5]) = "unit"
  <2>1. SystemctlWord("unit", words[2]) = "unit"
    BY <1>4, UnitWord
  <2>2. SystemctlWord("unit", words[3]) = "unit"
    BY <1>4, UnitWord
  <2>3. SystemctlWord("unit", words[4]) = "count"
    BY <1>4, UnitWord
  <2>4. SystemctlWord("count", words[5]) = "unit"
    BY <1>3, CountWord, Zenon
  <2> QED
    BY <2>1, <2>2, <2>3, <2>4
<1>6. E = Turn(E)
  <2>1. /\ F[1] = "unit" /\ F[2] = "unit" /\ F[3] = "unit" /\ F[4] = "count" /\ F[5] = "unit"
        /\ F = [i \in 1..5 |-> F[i]]
    OBVIOUS
  <2> HIDE DEF F
  <2>2. \A i \in 1..5 : F[i] = Turn(F)[i]
    <3>1. F[1] = Turn(F)[1]
      BY <1>3, <2>1
    <3>2. F[2] = Turn(F)[2]
      BY <1>3, <1>5, <2>1
    <3>3. F[3] = Turn(F)[3]
      BY <1>3, <1>5, <2>1
    <3>4. F[4] = Turn(F)[4]
      BY <1>3, <1>5, <2>1
    <3>5. F[5] = Turn(F)[5]
      BY <1>3, <1>5, <2>1
    <3> HIDE DEF Turn
    <3> QED
      BY <3>1, <3>2, <3>3, <3>4, <3>5
  <2>3. F = Turn(F)
    BY <1>3, <2>1, <2>2
  <2> HIDE DEF Turn
  <2> QED
    BY <2>3
<1>7. E[Len(words)] = "unit"
  <2> HIDE DEF E
  <2>1. E[1] = Turn(E)[1] /\ E[2] = Turn(E)[2] /\ E[3] = Turn(E)[3] /\ E[4] = Turn(E)[4] /\ E[5] = Turn(E)[5]
    <3> HIDE DEF Turn
    <3> QED
      BY <1>6
  <2>2. /\ E[1] = "unit" /\ E[2] = SystemctlWord(E[1], words[2]) /\ E[3] = SystemctlWord(E[2], words[3])
        /\ E[4] = SystemctlWord(E[3], words[4]) /\ E[5] = SystemctlWord(E[4], words[5])
    BY <1>3, <2>1
  <2> HIDE DEF Turn
  <2> QED
    BY <1>3, <1>5, <2>2
<1>8. words[1].word \in SystemctlActions
  BY <1>4 DEF SystemctlActions
<1>9. ValidSystemctlArgs(words)
  BY <1>3, <1>4, <1>7, <1>8 DEF ValidSystemctlArgs
<1> QED
  BY <1>2, <1>9 DEF EvaluateCommand, ForbiddenCommands, CommandAllowlist, Clean, words

LEMMA SystemctlList ==
  EvaluateCommand("systemctl", Words(<<"list-units", "--type=service", "--all", "--no-pager",
                                       "--plain", "--legend=false">>))
<1> DEFINE words == Words(<<"list-units", "--type=service", "--all", "--no-pager", "--plain", "--legend=false">>)
<1>1. /\ Len(words) = 6 /\ words # <<>>
      /\ words[1] = Word("list-units") /\ words[2] = Word("--type=service") /\ words[3] = Word("--all")
      /\ words[4] = Word("--no-pager") /\ words[5] = Word("--plain") /\ words[6] = Word("--legend=false")
  <2>1. words = <<Word("list-units"), Word("--type=service"), Word("--all"), Word("--no-pager"),
                  Word("--plain"), Word("--legend=false")>>
    BY SixWords
  <2> HIDE DEF words
  <2> QED
    BY <2>1, Sixes, Zenon
<1> HIDE DEF words
<1>2. /\ words[1].word = "list-units" /\ words[2].word = "--type=service" /\ words[3].word = "--all"
      /\ words[4].word = "--no-pager" /\ words[5].word = "--plain" /\ words[6].word = "--legend=false"
  BY <1>1, WordFacts, Zenon
<1>3. \A i \in 2..6 : words[i].word \in ListArguments
  BY <1>2 DEF ListArguments
<1>4. \A i \in 1..6 : ~HasShellChars(words[i].word)
  <2>1. /\ ~HasShellChars(words[1].word) /\ ~HasShellChars(words[2].word) /\ ~HasShellChars(words[3].word)
        /\ ~HasShellChars(words[4].word) /\ ~HasShellChars(words[5].word) /\ ~HasShellChars(words[6].word)
    BY <1>2 DEF HasShellChars
  <2> QED
    BY <2>1
<1>5. words[1].word \in SystemctlActions
  BY <1>2 DEF SystemctlActions
<1>6. ValidSystemctlArgs(words)
  BY <1>1, <1>2, <1>3, <1>5 DEF ValidSystemctlArgs
<1> QED
  BY <1>1, <1>4, <1>6 DEF EvaluateCommand, ForbiddenCommands, CommandAllowlist, words

LEMMA RPMCommands ==
  /\ \A name : SafePackageName(name) => EvaluateCommand("rpm", Words(<<"--verify", name>>))
  /\ EvaluateCommand("rpm", Words(<<"-qa", "--qf", RPMQueryFormat>>))
<1>1. ASSUME NEW name, SafePackageName(name) PROVE EvaluateCommand("rpm", Words(<<"--verify", name>>))
  <2> DEFINE words == Words(<<"--verify", name>>)
  <2>1. ~HasShellChars("--verify") /\ ~HasShellChars(name)
    BY <1>1 DEF SafePackageName, HasShellChars
  <2>2. Clean(words)
    BY <2>1, CleanWords
  <2>3. Len(words) = 2 /\ words[1] = Word("--verify") /\ words[2] = Word(name)
    <3>1. \A v, w : /\ Len(Words(<<v, w>>)) = 2 /\ Words(<<v, w>>)[1] = Word(v)
                    /\ Words(<<v, w>>)[2] = Word(w)
      BY DEF Words
    <3> QED
      BY <3>1, Zenon
  <2>4. words[1].word = "--verify" /\ words[2].word = name
    BY <2>3, WordFacts, Zenon
  <2> HIDE DEF words
  <2>5. ValidRPMArgs(words)
    BY <1>1, <2>3, <2>4 DEF ValidRPMArgs
  <2> QED
    BY <2>2, <2>5 DEF EvaluateCommand, ForbiddenCommands, CommandAllowlist, Clean, words
<1>2. EvaluateCommand("rpm", Words(<<"-qa", "--qf", RPMQueryFormat>>))
  <2> DEFINE words == Words(<<"-qa", "--qf", RPMQueryFormat>>)
  <2>1. ~HasShellChars("-qa") /\ ~HasShellChars("--qf") /\ ~HasShellChars(RPMQueryFormat)
    BY DEF HasShellChars, RPMQueryFormat
  <2>2. Clean(words)
    BY <2>1, CleanWords
  <2>3. ValidRPMArgs(words)
    BY DEF ValidRPMArgs
  <2> HIDE DEF words
  <2> QED
    BY <2>2, <2>3 DEF EvaluateCommand, ForbiddenCommands, CommandAllowlist, Clean, words
<1> QED
  BY <1>1, <1>2

LEMMA JSONCommands ==
  /\ EvaluateCommand("lsblk", Words(<<"--json", "--output", BlockColumns, "--nodeps">>))
  /\ EvaluateCommand("findmnt", Words(<<"--json", "--output", MountColumns>>))
<1>1. /\ ~HasShellChars("--json") /\ ~HasShellChars("--output") /\ ~HasShellChars("--nodeps")
      /\ ~HasShellChars(BlockColumns) /\ ~HasShellChars(MountColumns)
  BY DEF HasShellChars, BlockColumns, MountColumns
<1>2. EvaluateCommand("lsblk", Words(<<"--json", "--output", BlockColumns, "--nodeps">>))
  <2> DEFINE words == Words(<<"--json", "--output", BlockColumns, "--nodeps">>)
  <2>1. Clean(words)
    BY <1>1, CleanWords
  <2>2. ValidLSBLKArgs(words)
    BY DEF ValidLSBLKArgs
  <2> HIDE DEF words
  <2> QED
    BY <2>1, <2>2 DEF EvaluateCommand, ForbiddenCommands, CommandAllowlist, Clean, words
<1>3. EvaluateCommand("findmnt", Words(<<"--json", "--output", MountColumns>>))
  <2> DEFINE words == Words(<<"--json", "--output", MountColumns>>)
  <2>1. Clean(words)
    BY <1>1, CleanWords
  <2>2. ValidFindmntArgs(words)
    BY DEF ValidFindmntArgs
  <2> HIDE DEF words
  <2> QED
    BY <2>1, <2>2 DEF EvaluateCommand, ForbiddenCommands, CommandAllowlist, Clean, words
<1> QED
  BY <1>2, <1>3

\* lsof about a path that may be asked about, or about a process.
AsksLsof(first, second) ==
  \/ first.word = "-p" /\ second.word = "" /\ second.number \in 1..MaxPid
  \/ first.word = "--" /\ AllowedOpenFilePath(second.word)

LEMMA LsofCommand ==
  ASSUME NEW first, NEW second, AsksLsof(first, second)
  PROVE  EvaluateCommand("lsof", Words(<<"-nP", "-F", "pcuftn">>) \o <<first, second>>)
<1> DEFINE words == Words(<<"-nP", "-F", "pcuftn">>) \o <<first, second>>
<1>1. /\ Len(words) = 5 /\ words[1] = Word("-nP") /\ words[2] = Word("-F") /\ words[3] = Word("pcuftn")
      /\ words[4] = first /\ words[5] = second
  <2>1. words = <<Word("-nP"), Word("-F"), Word("pcuftn")>> \o <<first, second>>
    BY ThreeTuple, Zenon
  <2> HIDE DEF words
  <2> QED
    BY <2>1, Pairs
<1> HIDE DEF words
<1>2. words[1].word = "-nP" /\ words[2].word = "-F" /\ words[3].word = "pcuftn"
  BY <1>1, WordFacts, Zenon
<1>3. [i \in 1..3 |-> words[i].word] = <<"-nP", "-F", "pcuftn">>
  BY <1>2, ThreeWords, Zenon
<1>4. ValidLsofArgs(words)
  BY <1>1, <1>3 DEF ValidLsofArgs, AsksLsof
<1>5. ~HasShellChars(first.word) /\ ~HasShellChars(second.word)
  BY DEF AsksLsof, HasShellChars, AllowedOpenFilePath, AllowedLogPath, AllowedLogPaths
<1>6. /\ ~HasShellChars(words[1].word) /\ ~HasShellChars(words[2].word) /\ ~HasShellChars(words[3].word)
      /\ ~HasShellChars(words[4].word) /\ ~HasShellChars(words[5].word)
  <2>1. ~HasShellChars("-nP") /\ ~HasShellChars("-F") /\ ~HasShellChars("pcuftn")
    BY DEF HasShellChars
  <2> QED
    BY <1>1, <1>2, <1>5, <2>1, Zenon
<1>7. \A i \in 1..5 : ~HasShellChars(words[i].word)
  <2>1. \A i \in 1..5 : i = 1 \/ i = 2 \/ i = 3 \/ i = 4 \/ i = 5
    OBVIOUS
  <2> QED
    BY <1>6, <2>1, Zenon
<1> QED
  BY <1>1, <1>4, <1>7 DEF EvaluateCommand, ForbiddenCommands, CommandAllowlist, words

-----------------------------------------------------------------------------
(* What a tool runs once the gate has let it through *)

\* What the gate makes sure of, tool by tool.
LEMMA GateFacts ==
  ASSUME NEW t \in RegisteredTools, NEW a, GateAllows(t, a)
  PROVE  /\ t # "safe_shell" /\ ValidInput(t, a)
         /\ ~HasShellChars(a.text) /\ \A p \in ToSet(a.names) : ~HasShellChars(p)
<1>1. t # "safe_shell"
  BY DEF GateAllows, IsToolEnabledForDirectCall, Metadata, HostTools, Row
<1> QED
  BY <1>1 DEF GateAllows

LEMMA OneWord ==
  ASSUME NEW command \in {"uname", "ps", "ss", "netstat", "df"}, NEW text, ~HasShellChars(text)
  PROVE  EvaluateCommand(command, Words(<<text>>))
BY CleanWords, FreeCommand

LEMMA PlainSteps ==
  ASSUME NEW p, NEW a, NEW r
  PROVE  /\ Permitted(OSInfo(r)) /\ Permitted(PortChecker(a, r)) /\ Permitted(LogReader(a, r))
         /\ Permitted(ProcessInspector(p, a, r)) /\ Permitted(NetworkConnectionInspector(p, a, r))
         /\ Permitted(ResourceUsageChecker(p, r)) /\ Permitted(DiskMemoryChecker(p, r))
         /\ Permitted(DiskIOChecker(p, r))
<1>1. /\ EvaluateCommand("uname", Words(<<"-r">>)) /\ EvaluateCommand("ps", Words(<<"aux">>))
      /\ EvaluateCommand("ss", Words(<<"-tunlp">>)) /\ EvaluateCommand("netstat", Words(<<"-tunlp">>))
      /\ EvaluateCommand("df", Words(<<"-h">>))
  <2>1. /\ ~HasShellChars("-r") /\ ~HasShellChars("aux") /\ ~HasShellChars("-tunlp") /\ ~HasShellChars("-h")
    BY DEF HasShellChars
  <2> QED
    BY <2>1, OneWord
<1>2. Permitted(OSInfo(r))
  BY <1>1, StepForms DEF OSInfo
<1>3. Permitted(PortChecker(a, r))
  <2>1. Permitted(Step("dial", "tcp", <<>>, FALSE))
    BY StepForms
  <2> QED
    BY <2>1, StepForms DEF PortChecker
<1>4. Permitted(LogReader(a, r))
  BY StepForms DEF LogReader
<1>5. Permitted(ProcessInspector(p, a, r))
  BY <1>1, StepForms DEF ProcessInspector, Listing
<1>6. Permitted(NetworkConnectionInspector(p, a, r))
  BY <1>1, StepForms, ZenonT(60) DEF NetworkConnectionInspector, Listing
<1>7. Permitted(ResourceUsageChecker(p, r))
  BY StepForms DEF ResourceUsageChecker
<1>8. Permitted(DiskMemoryChecker(p, r))
  BY <1>1, StepForms DEF DiskMemoryChecker
<1>9. Permitted(DiskIOChecker(p, r))
  <2>1. Permitted(Step("wait", "sample_ms", <<>>, FALSE))
    BY StepForms
  <2> QED
    BY <2>1, StepForms DEF DiskIOChecker
<1> QED
  BY <1>2, <1>3, <1>4, <1>5, <1>6, <1>7, <1>8, <1>9

\* What is left of journalctl_reader for a name that the gate lets through.
LEMMA JournalForms ==
  ASSUME NEW p, NEW a, NEW r, SafeUnitName(a.text)
  PROVE  \/ \E given : JournalctlReader(p, a, r) = Give(given) /\ ~given.refused
         \/ \E n : JournalctlReader(p, a, r) =
              Probe("journalctl", Words(<<"-u", a.text, "-n">>) \o <<Number(n)>> \o Words(<<"--no-pager">>))
<1> DEFINE service == IF a.text = "" THEN "sshd" ELSE a.text
           refused == [Refused EXCEPT !.context = "denied", !.risk = "low"]
           lines == LimitOf(a, 100, 500)
           probe(unit) == Probe("journalctl", Words(<<"-u", unit, "-n">>) \o <<Number(lines)>> \o Words(<<"--no-pager">>))
           plain == [Plain EXCEPT !.mark = r[1].failed, !.context = ContextOf(r[1]),
                                  !.count = r[1].lines,
                                  !.risk = IF r[1].forbidden THEN "review" ELSE "low"]
<1>1. JournalctlReader(p, a, r) =
        IF ~SafeUnitName(service) THEN Give(refused)
        ELSE IF p # "linux" THEN Give(Unsupported)
        ELSE IF r = <<>> THEN probe(service)
        ELSE Give(plain)
  BY DEF JournalctlReader
<1>2. service = a.text
  BY DEF SafeUnitName, SafeServiceName
<1>3. ~plain.refused /\ ~Unsupported.refused
  BY DEF Plain, Unsupported
<1> HIDE DEF service, refused, plain, lines
<1>4. \/ JournalctlReader(p, a, r) = Give(Unsupported)
      \/ JournalctlReader(p, a, r) = probe(a.text)
      \/ JournalctlReader(p, a, r) = Give(plain)
  <2> HIDE DEF probe
  <2> QED
    BY <1>1, <1>2, Zenon
<1> QED
  BY <1>3, <1>4, Zenon

LEMMA UnitSteps ==
  ASSUME NEW p, NEW a, NEW r
  PROVE  /\ (a.text = "" \/ SafeServiceName(a.text)) /\ a.text # "-n" => Permitted(ServiceStatus(p, a, r))
         /\ SafeUnitName(a.text) => Permitted(JournalctlReader(p, a, r))
         /\ Permitted(SSHLoginAnalyzer(p, a, r))
         /\ Permitted(SystemdUnitInventory(p, a, r))
<1>1. /\ SafeUnitName("sshd") /\ ~HasShellChars("sshd")
      /\ \A text : SafeServiceName(text) => SafeUnitName(text)
      /\ \A text : SafeUnitName(text) => ~HasShellChars(text) /\ text # ""
  BY DEF SafeUnitName, SafeServiceName, HasShellChars
<1>2. ASSUME a.text = "" \/ SafeServiceName(a.text), a.text # "-n" PROVE Permitted(ServiceStatus(p, a, r))
  <2> DEFINE service == IF a.text = "" THEN "sshd" ELSE a.text
  <2>1. SafeUnitName(service) /\ service # "-n"
    BY <1>1, <1>2
  <2>2. "is-active" \in SystemctlActions /\ "is-enabled" \in SystemctlActions
    BY DEF SystemctlActions
  <2>3. ~HasShellChars("is-active") /\ ~HasShellChars("is-enabled")
    BY DEF HasShellChars
  <2> HIDE DEF service
  <2>4. /\ EvaluateCommand("systemctl", Words(<<"is-active", service>>))
        /\ EvaluateCommand("systemctl", Words(<<"is-enabled", service>>))
    BY <2>1, <2>2, <2>3, SystemctlUnit
  <2>5. EvaluateCommand("systemctl", Words(<<"status", service, "--no-pager", "-n">>) \o <<Number(20)>>)
    BY <2>1, SystemctlStatus
  <2> QED
    BY <2>4, <2>5, StepForms DEF ServiceStatus, service
<1>3. ASSUME SafeUnitName(a.text) PROVE Permitted(JournalctlReader(p, a, r))
  <2>1. \A n : EvaluateCommand("journalctl", Words(<<"-u", a.text, "-n">>) \o <<Number(n)>> \o Words(<<"--no-pager">>))
    BY <1>1, <1>3, JournalCommand
  <2>2. CASE \E given : JournalctlReader(p, a, r) = Give(given)
    BY <2>2, StepForms, Zenon
  <2>3. CASE \E n : JournalctlReader(p, a, r) =
               Probe("journalctl", Words(<<"-u", a.text, "-n">>) \o <<Number(n)>> \o Words(<<"--no-pager">>))
    <3>1. PICK n : JournalctlReader(p, a, r) =
               Probe("journalctl", Words(<<"-u", a.text, "-n">>) \o <<Number(n)>> \o Words(<<"--no-pager">>))
      BY <2>3
    <3> DEFINE words == Words(<<"-u", a.text, "-n">>) \o <<Number(n)>> \o Words(<<"--no-pager">>)
    <3>2. EvaluateCommand("journalctl", words)
      BY <2>1
    <3> HIDE DEF words
    <3>3. Permitted(Probe("journalctl", words))
      BY <3>2, StepForms, Zenon
    <3> QED
      BY <3>1, <3>3 DEF words
  <2> QED
    BY <1>3, <2>2, <2>3, JournalForms, Zenon
<1>4. Permitted(SSHLoginAnalyzer(p, a, r))
  <2>1. \A n : EvaluateCommand("journalctl", Words(<<"-u", "sshd", "-n">>) \o <<Number(n)>> \o Words(<<"--no-pager">>))
    BY <1>1, JournalCommand
  <2> QED
    BY <2>1, StepForms DEF SSHLoginAnalyzer
<1>5. Permitted(SystemdUnitInventory(p, a, r))
  BY SystemctlList, StepForms, ZenonT(60) DEF SystemdUnitInventory, Listing
<1> QED
  BY <1>2, <1>3, <1>4, <1>5

LEMMA FromOne ==
  ASSUME NEW top \in Nat, NEW n \in 0..top, n # 0
  PROVE  n \in 1..top
OBVIOUS

LEMMA FileSteps ==
  ASSUME NEW p, NEW a \in Arguments, NEW r
  PROVE  /\ ValidOpenFileInput(a) => Permitted(OpenFileInspector(p, a, r))
         /\ Permitted(BlockDeviceInventory(p, a, r)) /\ Permitted(MountInventory(p, a, r))
         /\ Permitted(RPMPackageInventory(p, a, r))
<1>1. ASSUME ValidOpenFileInput(a) PROVE Permitted(OpenFileInspector(p, a, r))
  <2> DEFINE query == IF a.text # "" THEN Words(<<"--", a.text>>) ELSE <<Word("-p"), Number(a.number)>>
  <2>1. EvaluateCommand("lsof", Words(<<"-nP", "-F", "pcuftn">>) \o query)
    <3>1. CASE a.text # ""
      <4>1. query = <<Word("--"), Word(a.text)>>
        BY <3>1, WordTuples
      <4>2. AsksLsof(Word("--"), Word(a.text))
        BY <1>1, <3>1, WordFacts DEF AsksLsof, ValidOpenFileInput
      <4> HIDE DEF query
      <4> QED
        BY <4>1, <4>2, LsofCommand
    <3>2. CASE a.text = ""
      <4>1. query = <<Word("-p"), Number(a.number)>>
        BY <3>2
      <4>2. a.number \in 1..MaxPid
        <5>1. a.number \in 0..MaxPid /\ a.number # 0
          BY <1>1, <3>2 DEF ValidOpenFileInput
        <5>2. MaxPid \in Nat
          BY SMT DEF MaxPid
        <5> QED
          BY <5>1, <5>2, FromOne
      <4>3. AsksLsof(Word("-p"), Number(a.number))
        BY <4>2, WordFacts DEF AsksLsof
      <4> HIDE DEF query
      <4> QED
        BY <4>1, <4>3, LsofCommand
    <3> QED
      BY <3>1, <3>2
  <2> QED
    BY <2>1, StepForms DEF OpenFileInspector, Listing
<1>2. Permitted(BlockDeviceInventory(p, a, r))
  BY JSONCommands, StepForms, ZenonT(60) DEF BlockDeviceInventory, JSONInventory, Listing
<1>3. Permitted(MountInventory(p, a, r))
  BY JSONCommands, StepForms, ZenonT(60) DEF MountInventory, JSONInventory, Listing
<1>4. Permitted(RPMPackageInventory(p, a, r))
  BY RPMCommands, StepForms, ZenonT(60) DEF RPMPackageInventory, Listing
<1> QED
  BY <1>1, <1>2, <1>3, <1>4

LEMMA DriftSteps ==
  ASSUME NEW p, NEW a, NEW r, Len(r) \in Nat
  PROVE  Permitted(ConfigurationDriftDetector(p, a, r))
<1> DEFINE packages == Dedupe(a.names)
<1>1. ASSUME \A i \in 1..Len(packages) : SafePackageName(packages[i]), Len(r) < Len(packages), Len(packages) \in 1..5
      PROVE  Permitted(Probe("rpm", Words(<<"--verify", packages[Len(r) + 1]>>)))
  <2> HIDE DEF packages
  <2>1. Len(r) + 1 \in 1..Len(packages)
    BY <1>1
  <2>2. SafePackageName(packages[Len(r) + 1])
    BY <1>1, <2>1
  <2> QED
    BY <2>2, RPMCommands, StepForms
<1>2. \A x : Permitted(Give(x))
  BY StepForms
<1> QED
  BY <1>1, <1>2, Zenon DEF ConfigurationDriftDetector

LEMMA Dispatch ==
  ASSUME NEW p, NEW a, NEW r
  PROVE  /\ Handler("os_info", p, a, r) = OSInfo(r)
         /\ Handler("service_status", p, a, r) = ServiceStatus(p, a, r)
         /\ Handler("port_checker", p, a, r) = PortChecker(a, r)
         /\ Handler("log_reader", p, a, r) = LogReader(a, r)
         /\ Handler("ssh_login_analyzer", p, a, r) = SSHLoginAnalyzer(p, a, r)
         /\ Handler("process_inspector", p, a, r) = ProcessInspector(p, a, r)
         /\ Handler("network_connection_inspector", p, a, r) = NetworkConnectionInspector(p, a, r)
         /\ Handler("journalctl_reader", p, a, r) = JournalctlReader(p, a, r)
         /\ Handler("resource_usage_checker", p, a, r) = ResourceUsageChecker(p, r)
         /\ Handler("disk_memory_checker", p, a, r) = DiskMemoryChecker(p, r)
         /\ Handler("open_file_inspector", p, a, r) = OpenFileInspector(p, a, r)
         /\ Handler("disk_io_checker", p, a, r) = DiskIOChecker(p, r)
         /\ Handler("configuration_drift_detector", p, a, r) = ConfigurationDriftDetector(p, a, r)
         /\ Handler("systemd_unit_inventory", p, a, r) = SystemdUnitInventory(p, a, r)
         /\ Handler("block_device_inventory", p, a, r) = BlockDeviceInventory(p, a, r)
         /\ Handler("mount_inventory", p, a, r) = MountInventory(p, a, r)
         /\ Handler("rpm_package_inventory", p, a, r) = RPMPackageInventory(p, a, r)
BY DEF Handler

\* The proxy never turns down a command that a tool runs after the gate has let
\* its call through.
LEMMA StepsPermitted ==
  ASSUME NEW t \in RegisteredTools, NEW p, NEW a \in Arguments, NEW r, Len(r) \in Nat,
         GateAllows(t, a), ~(t = "service_status" /\ a.text = "-n")
  PROVE  Permitted(Handler(t, p, a, r))
<1>1. t # "safe_shell" /\ ValidInput(t, a)
  BY GateFacts
<1>2. CASE t = "service_status"
  <2>1. (a.text = "" \/ SafeServiceName(a.text)) /\ a.text # "-n"
    BY <1>1, <1>2 DEF ValidInput
  <2>2. Permitted(ServiceStatus(p, a, r))
    BY <2>1, UnitSteps, Zenon
  <2> QED
    BY <1>2, <2>2, Dispatch
<1>3. CASE t = "journalctl_reader"
  <2>1. SafeUnitName(a.text)
    BY <1>1, <1>3 DEF ValidInput
  <2>2. Permitted(JournalctlReader(p, a, r))
    BY <2>1, UnitSteps, Zenon
  <2> QED
    BY <1>3, <2>2, Dispatch, ZenonT(40)
<1>4. CASE t = "open_file_inspector"
  BY <1>1, <1>4, FileSteps, Dispatch DEF ValidInput
<1>5. CASE t \in {"block_device_inventory", "mount_inventory", "rpm_package_inventory"}
  BY <1>5, FileSteps, Dispatch
<1>6. CASE t = "configuration_drift_detector"
  BY <1>6, DriftSteps, Dispatch
<1>7. CASE t \in {"ssh_login_analyzer", "systemd_unit_inventory"}
  <2>1. Permitted(SSHLoginAnalyzer(p, a, r)) /\ Permitted(SystemdUnitInventory(p, a, r))
    BY UnitSteps, Zenon
  <2> QED
    BY <1>7, <2>1, Dispatch
<1>8. CASE t \in {"os_info", "port_checker", "log_reader", "process_inspector",
                  "network_connection_inspector", "resource_usage_checker", "disk_memory_checker",
                  "disk_io_checker"}
  BY <1>8, PlainSteps, Dispatch
<1> QED
  BY <1>1, <1>2, <1>3, <1>4, <1>5, <1>6, <1>7, <1>8 DEF RegisteredTools

-----------------------------------------------------------------------------
(* Nobody turns a call down after the gate *)

Accepts(next) == next.answer # <<>> => ~next.answer[1].refused

LEMMA AnswerForms ==
  ASSUME NEW given, NEW kind, NEW command, NEW words, NEW lenient
  PROVE  /\ ~given.refused => Accepts(Give(given))
         /\ Accepts(Step(kind, command, words, lenient)) /\ Accepts(Read(command))
         /\ Accepts(Run(command, words)) /\ Accepts(Probe(command, words))
BY DEF Accepts, Give, Step, Read, Run, Probe

LEMMA ListingAccepts == ASSUME NEW result, NEW count PROVE Accepts(Listing(result, count))
BY AnswerForms DEF Listing, Plain, Failed

LEMMA OwnAnswers ==
  ASSUME NEW p, NEW a, NEW r
  PROVE  /\ Accepts(OSInfo(r)) /\ Accepts(ServiceStatus(p, a, r)) /\ Accepts(SSHLoginAnalyzer(p, a, r))
         /\ Accepts(ResourceUsageChecker(p, r)) /\ Accepts(DiskMemoryChecker(p, r))
         /\ Accepts(OpenFileInspector(p, a, r)) /\ Accepts(DiskIOChecker(p, r))
         /\ Accepts(SystemdUnitInventory(p, a, r))
         /\ Accepts(BlockDeviceInventory(p, a, r)) /\ Accepts(MountInventory(p, a, r))
<1> USE AnswerForms, ListingAccepts DEF Plain, Failed, Unsupported
<1>1. Accepts(OSInfo(r))
  BY DEF OSInfo
<1>2. Accepts(ServiceStatus(p, a, r))
  BY DEF ServiceStatus
<1>3. Accepts(SSHLoginAnalyzer(p, a, r))
  BY DEF SSHLoginAnalyzer
<1>4. Accepts(ResourceUsageChecker(p, r))
  BY DEF ResourceUsageChecker
<1>5. Accepts(DiskMemoryChecker(p, r))
  BY DEF DiskMemoryChecker
<1>6. Accepts(OpenFileInspector(p, a, r))
  BY DEF OpenFileInspector
<1>7. Accepts(DiskIOChecker(p, r))
  BY DEF DiskIOChecker
<1>8. Accepts(SystemdUnitInventory(p, a, r))
  BY DEF SystemdUnitInventory
<1>9. Accepts(BlockDeviceInventory(p, a, r)) /\ Accepts(MountInventory(p, a, r))
  BY ZenonT(60) DEF BlockDeviceInventory, MountInventory, JSONInventory
<1> QED
  BY <1>1, <1>2, <1>3, <1>4, <1>5, <1>6, <1>7, <1>8, <1>9

LEMMA PatternAnswers ==
  ASSUME NEW p, NEW a, NEW r
  PROVE  /\ a.text = "" \/ SafeServiceName(a.text) => Accepts(ProcessInspector(p, a, r))
         /\ a.text = "" \/ AllowedNetworkState(a.text) => Accepts(NetworkConnectionInspector(p, a, r))
         /\ SafeUnitName(a.text) => Accepts(JournalctlReader(p, a, r))
         /\ a.text = "" \/ SafePackageName(a.text) => Accepts(RPMPackageInventory(p, a, r))
<1> USE AnswerForms, ListingAccepts DEF Plain, Failed, Unsupported
<1>2. a.text = "" \/ SafeServiceName(a.text) => Accepts(ProcessInspector(p, a, r))
  BY DEF ProcessInspector
<1>3. a.text = "" \/ AllowedNetworkState(a.text) => Accepts(NetworkConnectionInspector(p, a, r))
  BY ZenonT(60) DEF NetworkConnectionInspector
<1>4. SafeUnitName(a.text) => Accepts(JournalctlReader(p, a, r))
  BY JournalForms, AnswerForms, Zenon
<1>5. a.text = "" \/ SafePackageName(a.text) => Accepts(RPMPackageInventory(p, a, r))
  BY ZenonT(60) DEF RPMPackageInventory
<1> QED
  BY <1>2, <1>3, <1>4, <1>5

LEMMA PortAnswers ==
  ASSUME NEW a, NEW r, a.number \in Ports PROVE Accepts(PortChecker(a, r))
<1>1. \/ PortChecker(a, r) = Step("dial", "tcp", <<>>, FALSE)
      \/ \E n : PortChecker(a, r) = Give([Plain EXCEPT !.count = n])
  BY DEF PortChecker
<1>2. \A n : ~[Plain EXCEPT !.count = n].refused
  BY DEF Plain
<1> QED
  BY <1>1, <1>2, AnswerForms

LEMMA ValidTexts ==
  ASSUME NEW a
  PROVE  /\ ValidInput("process_inspector", a) => a.text = "" \/ SafeServiceName(a.text)
         /\ ValidInput("network_connection_inspector", a) => a.text = "" \/ AllowedNetworkState(a.text)
         /\ ValidInput("journalctl_reader", a) => SafeUnitName(a.text)
         /\ ValidInput("rpm_package_inventory", a) => a.text = "" \/ SafePackageName(a.text)
<1>1. ValidInput("process_inspector", a) => a.text = "" \/ SafeServiceName(a.text)
  BY DEF ValidInput
<1>2. ValidInput("network_connection_inspector", a) => a.text = "" \/ AllowedNetworkState(a.text)
  <2> SUFFICES ASSUME ValidInput("network_connection_inspector", a), a.text # ""
               PROVE  AllowedNetworkState(a.text)
    OBVIOUS
  <2>1. NormalizeNetworkState(a.text) \in {"ALL", "LISTEN", "TIME-WAIT"}
    BY DEF ValidInput
  <2> QED
    BY <2>1 DEF AllowedNetworkState, NormalizeNetworkState
<1>3. ValidInput("journalctl_reader", a) => SafeUnitName(a.text)
  BY DEF ValidInput
<1>4. ValidInput("rpm_package_inventory", a) => a.text = "" \/ SafePackageName(a.text)
  BY DEF ValidInput
<1> QED
  BY <1>1, <1>2, <1>3, <1>4

LEMMA ValidPort == ASSUME NEW a, ValidInput("port_checker", a) PROVE a.number \in Ports
BY DEF ValidInput

\* What a loop over the arguments' names keeps.
LEMMA DedupeFacts ==
  ASSUME NEW a \in Arguments
  PROVE  /\ Dedupe(a.names) \in Seq(Texts) /\ Len(Dedupe(a.names)) <= Len(a.names)
         /\ Distinct(Dedupe(a.names))
         /\ ToSet(Dedupe(a.names)) = ToSet(a.names) \cap (Texts \ {""})
         /\ a.names # <<>> /\ a.names[1] \in Texts \ {""} => Dedupe(a.names) # <<>>
<1>1. a.names \in Seq(Texts)
  BY DEF Arguments
<1> QED
  BY <1>1, FirstsFacts, ZenonT(60) DEF Dedupe

LEMMA FirstOne ==
  ASSUME NEW S, NEW s \in Seq(S), s # <<>>
  PROVE  s[1] \in ToSet(s) /\ s[1] \in S /\ ToSet(s) # {} /\ Len(s) \in Nat \ {0}
BY DEF ToSet

LEMMA PackageNames ==
  ASSUME NEW a \in Arguments, Len(a.names) \in 1..5, \A p \in ToSet(a.names) : SafePackageName(p)
  PROVE  /\ Len(Dedupe(a.names)) \in 1..5
         /\ \A i \in 1..Len(Dedupe(a.names)) : SafePackageName(Dedupe(a.names)[i])
<1> DEFINE packages == Dedupe(a.names)
<1>1. a.names \in Seq(Texts)
  BY DEF Arguments
<1>2. a.names[1] \in ToSet(a.names) /\ a.names[1] \in Texts /\ a.names # <<>>
  <2> DEFINE names == a.names
  <2>1. names \in Seq(Texts) /\ names # <<>>
    <3>1. \A s : Len(s) \in 1..5 => s # <<>>
      OBVIOUS
    <3> QED
      BY <1>1, <3>1, Zenon
  <2> HIDE DEF names
  <2>2. names[1] \in ToSet(names) /\ names[1] \in Texts
    BY <2>1, FirstOne, Zenon
  <2> QED
    BY <2>1, <2>2, Zenon DEF names
<1>3. a.names[1] # ""
  BY <1>2 DEF SafePackageName
<1>4. packages # <<>> /\ packages \in Seq(Texts) /\ Len(packages) <= Len(a.names)
      /\ ToSet(packages) \subseteq ToSet(a.names)
  BY <1>2, <1>3, DedupeFacts
<1> HIDE DEF packages
<1>5. \A i \in 1..Len(packages) : packages[i] \in ToSet(packages)
  BY <1>4 DEF ToSet
<1>6. Len(packages) \in 1..5
  <2>1. Len(packages) \in Nat \ {0}
    BY <1>4, FirstOne, Zenon
  <2>2. \A m \in Nat \ {0} : \A n \in 1..5 : m <= n => m \in 1..5
    OBVIOUS
  <2> QED
    BY <1>4, <2>1, <2>2, Zenon
<1>7. \A i \in 1..Len(packages) : SafePackageName(packages[i])
  BY <1>4, <1>5
<1> QED
  BY <1>6, <1>7 DEF packages

LEMMA LogPaths ==
  ASSUME NEW a \in Arguments, Dedupe(a.names) # <<>>,
         \A p \in ToSet(Dedupe(a.names)) : AllowedLogPath(p)
  PROVE  FirstsIn(Dedupe(a.names), AllowedLogPaths) # <<>>
<1> DEFINE paths == Dedupe(a.names)
<1>1. paths \in Seq(Texts)
  BY DedupeFacts
<1>2. paths[1] \in ToSet(paths)
  <2> HIDE DEF paths
  <2>1. paths # <<>>
    BY DEF paths
  <2> QED
    BY <1>1, <2>1 DEF ToSet
<1>3. paths[1] \in AllowedLogPaths
  BY <1>2 DEF AllowedLogPath
<1> HIDE DEF paths
<1>4. paths # <<>>
  BY DEF paths
<1> QED
  BY <1>1, <1>3, <1>4, FirstsFacts DEF paths

\* No tool turns down arguments that the gate has let through.
LEMMA GateCoversTools ==
  ASSUME NEW t \in RegisteredTools, NEW p, NEW a \in Arguments, NEW r, GateAllows(t, a)
  PROVE  Accepts(Handler(t, p, a, r))
<1>1. t # "safe_shell" /\ ValidInput(t, a)
  BY GateFacts
<1>2. CASE t = "port_checker"
  <2>1. ValidInput("port_checker", a)
    BY <1>1, <1>2
  <2>2. Accepts(PortChecker(a, r))
    BY <2>1, ValidPort, PortAnswers
  <2> QED
    BY <1>2, <2>2, Dispatch
<1>3. CASE t = "process_inspector"
  <2>1. a.text = "" \/ SafeServiceName(a.text)
    BY <1>1, <1>3, ValidTexts, Zenon
  <2>2. Accepts(ProcessInspector(p, a, r))
    BY <2>1, PatternAnswers, Zenon
  <2> QED
    BY <1>3, <2>2, Dispatch, ZenonT(40)
<1>4. CASE t = "network_connection_inspector"
  <2>1. a.text = "" \/ AllowedNetworkState(a.text)
    BY <1>1, <1>4, ValidTexts, Zenon
  <2>2. Accepts(NetworkConnectionInspector(p, a, r))
    BY <2>1, PatternAnswers, Zenon
  <2> QED
    BY <1>4, <2>2, Dispatch, ZenonT(40)
<1>5. CASE t = "journalctl_reader"
  <2>1. SafeUnitName(a.text)
    BY <1>1, <1>5, ValidTexts, Zenon
  <2>2. Accepts(JournalctlReader(p, a, r))
    BY <2>1, PatternAnswers, Zenon
  <2> QED
    BY <1>5, <2>2, Dispatch, ZenonT(60)
<1>6. CASE t = "rpm_package_inventory"
  <2>1. a.text = "" \/ SafePackageName(a.text)
    BY <1>1, <1>6, ValidTexts, Zenon
  <2>2. Accepts(RPMPackageInventory(p, a, r))
    BY <2>1, PatternAnswers, Zenon
  <2> QED
    BY <1>6, <2>2, Dispatch, Zenon
<1>7. CASE t = "configuration_drift_detector"
  <2>1. /\ Len(Dedupe(a.names)) \in 1..5
        /\ \A i \in 1..Len(Dedupe(a.names)) : SafePackageName(Dedupe(a.names)[i])
    BY <1>1, <1>7, PackageNames DEF ValidInput
  <2>2. Accepts(ConfigurationDriftDetector(p, a, r))
    BY <2>1, AnswerForms DEF ConfigurationDriftDetector, Plain, Failed, Unsupported
  <2> QED
    BY <1>7, <2>2, Dispatch
<1>8. CASE t = "log_reader"
  <2>1. FirstsIn(Dedupe(a.names), AllowedLogPaths) # <<>>
    BY <1>1, <1>8, LogPaths DEF ValidInput
  <2>2. Accepts(LogReader(a, r))
    BY <2>1, AnswerForms DEF LogReader, Plain, Failed
  <2> QED
    BY <1>8, <2>2, Dispatch
<1>9. CASE t \in {"os_info", "service_status", "ssh_login_analyzer", "resource_usage_checker",
                  "disk_memory_checker", "open_file_inspector", "disk_io_checker",
                  "systemd_unit_inventory", "block_device_inventory", "mount_inventory"}
  BY <1>9, OwnAnswers, Dispatch
<1> QED
  BY <1>1, <1>2, <1>3, <1>4, <1>5, <1>6, <1>7, <1>8, <1>9 DEF RegisteredTools

\* Whatever passes the gate, whatever its arguments, and however its commands
\* end: no handler turns the call down, and the proxy runs every command of it,
\* but those about a service that is called like a switch.
THEOREM GateCoversTheRestAlways == Spec => []GateCoversTheRest
<1>1. Init => GateCoversTheRest
  BY DEF Init, GateCoversTheRest
<1>2. CallInv /\ CallInv' /\ GateCoversTheRest /\ [Next]_vars => GateCoversTheRest'
  <2> SUFFICES ASSUME CallInv, CallInv', GateCoversTheRest, [Next]_vars PROVE GateCoversTheRest'
    OBVIOUS
  <2>1. ASSUME answer' # <<>> PROVE ~answer'[1].refused
    <3>1. /\ tool' \in RegisteredTools /\ args' \in Arguments /\ GateAllows(tool', args')
          /\ answer' = Handler(tool', platform', args', results').answer
      BY <2>1 DEF CallInv, Followed
    <3>2. Accepts(Handler(tool', platform', args', results'))
      BY <3>1, GateCoversTools
    <3> QED
      BY <2>1, <3>1, <3>2 DEF Accepts
  <2>2. ASSUME ~(tool' = "service_status" /\ args'.text = "-n"), NEW i \in 1..Len(results')
        PROVE  results'[i].status # "denied"
    <3>1. ASSUME NEW end \in Ends, RunStep(end) PROVE results'[i].status # "denied"
      <4> DEFINE x == Perform(Pending, OutcomeOf(end))
      <4>1. /\ results' = Append(results, x) /\ tool' = tool /\ args' = args
            /\ phase = "running" /\ NextStep.step # <<>> /\ results \in Seq(Returned)
            /\ Len(results) \in Nat /\ tool \in RegisteredTools /\ args \in Arguments
            /\ GateAllows(tool, args)
        BY <3>1 DEF RunStep, CallInv
      <4>2. Permitted(NextStep)
        BY <2>2, <4>1, StepsPermitted DEF NextStep
      <4>3. x.status # "denied"
        BY <4>1, <4>2, DeniedOnlyIf DEF Pending
      <4>4. x \in Returned
        BY PerformReturns, EndsAssumption
      <4> HIDE DEF x
      <4>5. CASE i \in 1..Len(results)
        <5>1. results'[i] = results[i]
          BY <4>1, <4>4, <4>5
        <5> QED
          BY <2>2, <4>1, <4>5, <5>1 DEF GateCoversTheRest
      <4>6. CASE i = Len(results) + 1
        BY <4>1, <4>3, <4>4, <4>6
      <4> QED
        BY <4>1, <4>4, <4>5, <4>6
    <3>2. CASE results' = <<>>
      BY <2>2, <3>2
    <3>3. CASE results' = results /\ tool' = tool /\ args' = args
      BY <2>2, <3>3 DEF GateCoversTheRest
    <3>4. CASE phase = "idle" /\ results' = results
      BY <3>2, <3>4 DEF CallInv
    <3> QED
      BY <3>1, <3>2, <3>3, <3>4
         DEF Next, vars, Refuse, Begin, Cancel, Return, AuditByCore, AuditLocally, Finish
  <2> QED
    BY <2>1, <2>2 DEF GateCoversTheRest
<1> QED
  BY <1>1, <1>2, CallAlways, PTL DEF Spec

-----------------------------------------------------------------------------
(* Failures that a trace does not hide *)

\* An answer with neither an error nor a mark.
Clear(next) == next.answer # <<>> /\ ~next.answer[1].error /\ ~next.answer[1].mark

LEMMA ClearForms ==
  ASSUME NEW given, NEW kind, NEW command, NEW words, NEW lenient
  PROVE  /\ Clear(Give(given)) => ~given.error /\ ~given.mark
         /\ ~Clear(Step(kind, command, words, lenient)) /\ ~Clear(Read(command))
         /\ ~Clear(Run(command, words)) /\ ~Clear(Probe(command, words))
         /\ Give(given).step = <<>>
BY DEF Clear, Give, Step, Read, Run, Probe

LEMMA NotClear ==
  /\ ~Clear(Give(Unsupported)) /\ ~Clear(Give(Failed)) /\ ~Clear(Give(Refused))
  /\ \A x : ~Clear(Give([Failed EXCEPT !.context = x]))
  /\ \A x, y : ~Clear(Give([Refused EXCEPT !.context = x, !.risk = y]))
<1>1. Unsupported.mark
  BY DEF Unsupported, Plain
<1>2. Failed.error /\ \A x : [Failed EXCEPT !.context = x].error
  BY DEF Failed, Plain
<1>3. Refused.error /\ \A x, y : [Refused EXCEPT !.context = x, !.risk = y].error
  BY DEF Refused, Failed, Plain
<1> QED
  BY <1>1, <1>2, <1>3, ClearForms

LEMMA MarkForms ==
  ASSUME NEW m \in BOOLEAN, NEW c, NEW n, NEW k
  PROVE  /\ Clear(Give([Plain EXCEPT !.mark = m])) => ~m
         /\ Clear(Give([Plain EXCEPT !.mark = m, !.context = c])) => ~m
         /\ Clear(Give([Plain EXCEPT !.mark = m, !.risk = k])) => ~m
         /\ Clear(Give([Plain EXCEPT !.mark = m, !.risk = k, !.count = n])) => ~m
         /\ Clear(Give([Plain EXCEPT !.mark = m, !.context = c, !.count = n])) => ~m
         /\ Clear(Give([Plain EXCEPT !.mark = m, !.context = c, !.count = n, !.risk = k])) => ~m
<1>1. /\ [Plain EXCEPT !.mark = m].mark = m
      /\ [Plain EXCEPT !.mark = m, !.context = c].mark = m
      /\ [Plain EXCEPT !.mark = m, !.risk = k].mark = m
      /\ [Plain EXCEPT !.mark = m, !.risk = k, !.count = n].mark = m
      /\ [Plain EXCEPT !.mark = m, !.context = c, !.count = n].mark = m
      /\ [Plain EXCEPT !.mark = m, !.context = c, !.count = n, !.risk = k].mark = m
  BY DEF Plain
<1> QED
  BY <1>1, ClearForms

LEMMA ListingForms ==
  ASSUME NEW result, NEW count
  PROVE  Listing(result, count).step = <<>> /\ (Clear(Listing(result, count)) => ~result.failed)
<1>1. CASE result.failed
  BY <1>1, ClearForms, NotClear DEF Listing
<1>2. CASE ~result.failed
  BY <1>2, ClearForms DEF Listing
<1> QED
  BY <1>1, <1>2

\* What the handler had seen when it asked for the k-th result.
LEMMA PrefixFacts ==
  ASSUME NEW S, NEW r \in Seq(S), NEW k \in 1..Len(r)
  PROVE  LET q == SubSeq(r, 1, k - 1)
         IN /\ q \in Seq(S) /\ Len(q) = k - 1 /\ (q = <<>> => k = 1)
            /\ \A i \in 1..(k - 1) : q[i] = r[i]
            /\ k > 1 => q # <<>> /\ Last(q) = r[k - 1]
<1> DEFINE q == SubSeq(r, 1, k - 1)
<1>1. Len(r) \in Nat /\ k - 1 \in Nat /\ k - 1 <= Len(r)
  OBVIOUS
<1>2. q \in Seq(S) /\ Len(q) = k - 1 /\ \A i \in 1..(k - 1) : q[i] = r[i]
  BY <1>1
<1> HIDE DEF q
<1>3. (q = <<>> => k = 1) /\ (k > 1 => q # <<>> /\ q[Len(q)] = r[k - 1])
  BY <1>1, <1>2
<1> QED
  BY <1>2, <1>3 DEF q, Last

Asked(t, p, a, r) == \A k \in 1..Len(r) : Handler(t, p, a, SubSeq(r, 1, k - 1)).step # <<>>

\* A handler that asks only when it has seen nothing asks once.
LEMMA AsksOnce ==
  ASSUME NEW S, NEW r \in Seq(S), NEW t, NEW p, NEW a, Asked(t, p, a, r),
         \A q \in Seq(S) : Handler(t, p, a, q).step # <<>> => q = <<>>
  PROVE  Len(r) < 2 /\ \A i \in 1..Len(r) : i = 1
<1>1. ASSUME NEW k \in 1..Len(r) PROVE k = 1
  <2>1. SubSeq(r, 1, k - 1) \in Seq(S) /\ (SubSeq(r, 1, k - 1) = <<>> => k = 1)
    BY PrefixFacts
  <2> QED
    BY <2>1 DEF Asked
<1>2. Len(r) \in Nat
  OBVIOUS
<1>3. Len(r) < 2
  <2> SUFFICES ASSUME ~(Len(r) < 2) PROVE FALSE
    OBVIOUS
  <2>1. 2 \in 1..Len(r)
    BY <1>2
  <2> QED
    BY <1>1, <2>1
<1> QED
  BY <1>1, <1>3

LEMMA OneResult ==
  ASSUME NEW r \in Seq(Returned), r # <<>> PROVE r[1] \in Returned
OBVIOUS

LEMMA OneCommand ==
  ASSUME NEW p, NEW a, NEW q \in Seq(Returned)
  PROVE  /\ OSInfo(q).step # <<>> => q = <<>>
         /\ ProcessInspector(p, a, q).step # <<>> => q = <<>>
         /\ JournalctlReader(p, a, q).step # <<>> => q = <<>>
         /\ SystemdUnitInventory(p, a, q).step # <<>> => q = <<>>
         /\ BlockDeviceInventory(p, a, q).step # <<>> => q = <<>>
         /\ MountInventory(p, a, q).step # <<>> => q = <<>>
         /\ RPMPackageInventory(p, a, q).step # <<>> => q = <<>>
         /\ Clear(OSInfo(q)) => ~q[1].failed
         /\ Clear(ProcessInspector(p, a, q)) => ~q[1].failed
         /\ Clear(JournalctlReader(p, a, q)) => ~q[1].failed
         /\ Clear(SystemdUnitInventory(p, a, q)) => ~q[1].failed
         /\ Clear(BlockDeviceInventory(p, a, q)) => ~q[1].failed
         /\ Clear(MountInventory(p, a, q)) => ~q[1].failed
         /\ Clear(RPMPackageInventory(p, a, q)) => ~q[1].failed
<1>1. CASE q = <<>>
  <2> USE <1>1, ClearForms, NotClear
  <2>1. ~Clear(OSInfo(q))
    BY DEF OSInfo
  <2>2. ~Clear(ProcessInspector(p, a, q))
    BY DEF ProcessInspector
  <2>3. ~Clear(JournalctlReader(p, a, q))
    <3>1. \/ JournalctlReader(p, a, q) = Give(Unsupported)
          \/ JournalctlReader(p, a, q) = Give([Refused EXCEPT !.context = "denied", !.risk = "low"])
          \/ \E words : JournalctlReader(p, a, q) = Probe("journalctl", words)
      BY ZenonT(60) DEF JournalctlReader
    <3>2. CASE JournalctlReader(p, a, q) = Give(Unsupported)
      BY <3>2
    <3>3. CASE JournalctlReader(p, a, q) = Give([Refused EXCEPT !.context = "denied", !.risk = "low"])
      <4>1. ~Clear(Give([Refused EXCEPT !.context = "denied", !.risk = "low"]))
        BY NotClear, Zenon
      <4> QED
        BY <3>3, <4>1, Zenon
    <3>4. CASE \E words : JournalctlReader(p, a, q) = Probe("journalctl", words)
      BY <3>4
    <3> QED
      BY <3>1, <3>2, <3>3, <3>4
  <2>4. ~Clear(SystemdUnitInventory(p, a, q))
    BY DEF SystemdUnitInventory
  <2>5. ~Clear(BlockDeviceInventory(p, a, q)) /\ ~Clear(MountInventory(p, a, q))
    BY DEF BlockDeviceInventory, MountInventory, JSONInventory
  <2>6. ~Clear(RPMPackageInventory(p, a, q))
    BY DEF RPMPackageInventory
  <2> QED
    BY <2>1, <2>2, <2>3, <2>4, <2>5, <2>6
<1>2. CASE q # <<>>
  <2>1. q[1] \in Returned
    BY <1>2, OneResult
  <2>2. q[1].failed \in BOOLEAN
    BY <2>1 DEF Returned
  <2> USE <1>2, <2>1, <2>2, ClearForms, NotClear, ListingForms, MarkForms
  <2>3. OSInfo(q).step = <<>> /\ (Clear(OSInfo(q)) => ~q[1].failed)
    BY DEF OSInfo
  <2>4. ProcessInspector(p, a, q).step = <<>> /\ (Clear(ProcessInspector(p, a, q)) => ~q[1].failed)
    BY DEF ProcessInspector
  <2>5. JournalctlReader(p, a, q).step = <<>> /\ (Clear(JournalctlReader(p, a, q)) => ~q[1].failed)
    BY DEF JournalctlReader
  <2>6. SystemdUnitInventory(p, a, q).step = <<>> /\ (Clear(SystemdUnitInventory(p, a, q)) => ~q[1].failed)
    <3>1. \/ SystemdUnitInventory(p, a, q) = Give(Unsupported)
          \/ \E n : SystemdUnitInventory(p, a, q) = Listing(q[1], n)
      BY DEF SystemdUnitInventory
    <3> QED
      BY <3>1
  <2>7. /\ BlockDeviceInventory(p, a, q).step = <<>> /\ MountInventory(p, a, q).step = <<>>
        /\ Clear(BlockDeviceInventory(p, a, q)) => ~q[1].failed
        /\ Clear(MountInventory(p, a, q)) => ~q[1].failed
    <3>1. ASSUME NEW command, NEW words
          PROVE  \/ JSONInventory(p, a, q, command, words) = Give(Unsupported)
                 \/ \E x : JSONInventory(p, a, q, command, words) = Give([Failed EXCEPT !.context = x])
                 \/ \E n : JSONInventory(p, a, q, command, words) = Listing(q[1], n)
      BY ZenonT(60) DEF JSONInventory
    <3>2. ASSUME NEW command, NEW words
          PROVE  /\ JSONInventory(p, a, q, command, words).step = <<>>
                 /\ Clear(JSONInventory(p, a, q, command, words)) => ~q[1].failed
      <4>1. CASE JSONInventory(p, a, q, command, words) = Give(Unsupported)
        BY <4>1
      <4>2. CASE \E x : JSONInventory(p, a, q, command, words) = Give([Failed EXCEPT !.context = x])
        BY <4>2
      <4>3. CASE \E n : JSONInventory(p, a, q, command, words) = Listing(q[1], n)
        BY <4>3
      <4> QED
        BY <3>1, <4>1, <4>2, <4>3
    <3> QED
      BY <3>2 DEF BlockDeviceInventory, MountInventory
  <2>8. RPMPackageInventory(p, a, q).step = <<>> /\ (Clear(RPMPackageInventory(p, a, q)) => ~q[1].failed)
    <3>1. \/ RPMPackageInventory(p, a, q) \in {Give(Unsupported), Give(Refused)}
          \/ \E n : RPMPackageInventory(p, a, q) = Listing(q[1], n)
      BY DEF RPMPackageInventory
    <3> QED
      BY <3>1
  <2> QED
    BY <2>3, <2>4, <2>5, <2>6, <2>7, <2>8
<1> QED
  BY <1>1, <1>2

\* What the handler had seen when it asked for the last result.
LEMMA LastAsked ==
  ASSUME NEW S, NEW r \in Seq(S), NEW t, NEW p, NEW a, Asked(t, p, a, r), r # <<>>
  PROVE  \E q \in Seq(S) : /\ Handler(t, p, a, q).step # <<>> /\ Len(q) = Len(r) - 1
                           /\ \A i \in 1..(Len(r) - 1) : q[i] = r[i]
<1>1. Len(r) \in 1..Len(r)
  OBVIOUS
<1> DEFINE q == SubSeq(r, 1, Len(r) - 1)
<1>2. Handler(t, p, a, q).step # <<>>
  BY <1>1 DEF Asked
<1>3. q \in Seq(S) /\ Len(q) = Len(r) - 1 /\ \A i \in 1..(Len(r) - 1) : q[i] = r[i]
  BY <1>1, PrefixFacts
<1> HIDE DEF q
<1> QED
  BY <1>2, <1>3

\* A handler that stops asking when it has seen n results gets no more than n.
LEMMA AsksFew ==
  ASSUME NEW S, NEW r \in Seq(S), NEW t, NEW p, NEW a, Asked(t, p, a, r), NEW n \in Nat,
         \A q \in Seq(S) : Handler(t, p, a, q).step # <<>> => Len(q) < n
  PROVE  Len(r) <= n
<1>1. CASE r = <<>>
  BY <1>1
<1>2. CASE r # <<>>
  BY <1>2, LastAsked
<1> QED
  BY <1>1, <1>2

\* A handler that asks again only after a result that is fine.
LEMMA AsksAfter ==
  ASSUME NEW S, NEW r \in Seq(S), NEW t, NEW p, NEW a, Asked(t, p, a, r), NEW Fine,
         \A q \in Seq(S) : Handler(t, p, a, q).step # <<>> => q = <<>> \/ Last(q) \in Fine
  PROVE  \A i \in 1..Len(r) : i < Len(r) => r[i] \in Fine
<1> SUFFICES ASSUME NEW i \in 1..Len(r), i < Len(r) PROVE r[i] \in Fine
  OBVIOUS
<1> DEFINE k == i + 1
           q == SubSeq(r, 1, k - 1)
<1>1. k \in 1..Len(r) /\ k > 1 /\ k - 1 = i
  OBVIOUS
<1> HIDE DEF k
<1>2. q \in Seq(S) /\ q # <<>> /\ Last(q) = r[k - 1]
  BY <1>1, PrefixFacts
<1>3. Handler(t, p, a, q).step # <<>>
  BY <1>1 DEF Asked
<1> HIDE DEF q
<1> QED
  BY <1>1, <1>2, <1>3

LEMMA AllReturned ==
  ASSUME NEW r \in Seq(Returned)
  PROVE  /\ Len(r) \in Nat /\ \A i \in 1..Len(r) : r[i] \in Returned /\ r[i].failed \in BOOLEAN
         /\ (r = <<>>) = (Len(r) = 0) /\ Last(r) = r[Len(r)]
<1>1. Len(r) \in Nat /\ (r = <<>>) = (Len(r) = 0) /\ \A i \in 1..Len(r) : r[i] \in Returned
  OBVIOUS
<1>2. \A x \in Returned : x.failed \in BOOLEAN
  BY DEF Returned
<1> QED
  BY <1>1, <1>2 DEF Last

Unfailed(r) == \A i \in 1..Len(r) : ~r[i].failed

\* The tools that run one command, or ask once.
LEMMA OneUnfailed ==
  ASSUME NEW r \in Seq(Returned), NEW t, NEW p, NEW a, Asked(t, p, a, r),
         \A q \in Seq(Returned) : Handler(t, p, a, q).step # <<>> => q = <<>>,
         Clear(Handler(t, p, a, r)) => ~r[1].failed, Clear(Handler(t, p, a, r))
  PROVE  Unfailed(r)
<1>1. \A i \in 1..Len(r) : i = 1
  BY AsksOnce
<1> QED
  BY <1>1 DEF Unfailed

LEMMA SingleUnfailed ==
  ASSUME NEW r \in Seq(Returned), NEW p, NEW a,
         NEW t \in {"os_info", "process_inspector", "journalctl_reader", "systemd_unit_inventory",
                    "block_device_inventory", "mount_inventory", "rpm_package_inventory"},
         Asked(t, p, a, r), Clear(Handler(t, p, a, r))
  PROVE  Unfailed(r)
<1>1. \A q \in Seq(Returned) : Handler(t, p, a, q).step # <<>> => q = <<>>
  BY Dispatch, OneCommand
<1>2. Clear(Handler(t, p, a, r)) => ~r[1].failed
  BY Dispatch, OneCommand
<1> QED
  BY <1>1, <1>2, OneUnfailed

LEMMA FewForms ==
  ASSUME NEW n \in Nat
  PROVE  /\ ~(n < 3) => n # 0 /\ n # 1 /\ n # 2
         /\ ~(n < 2) => n # 0 /\ n # 1
         /\ n <= 3 /\ n # 0 /\ n # 1 /\ n # 2 => n = 3
         /\ n <= 2 /\ n # 0 /\ n # 1 => n = 2
         /\ n - 1 = 1 => n = 2
OBVIOUS

\* The mark of service_status covers the three probes.
LEMMA ServiceUnfailed ==
  ASSUME NEW r \in Seq(Returned), NEW p, NEW a, Asked("service_status", p, a, r),
         Clear(ServiceStatus(p, a, r))
  PROVE  Unfailed(r)
<1>1. ASSUME NEW q \in Seq(Returned), ServiceStatus(p, a, q).step # <<>> PROVE Len(q) < 3
  <2> SUFFICES ASSUME ~(Len(q) < 3) PROVE ServiceStatus(p, a, q).step = <<>>
    BY <1>1, Zenon
  <2>1. Len(q) # 0 /\ Len(q) # 1 /\ Len(q) # 2
    BY AllReturned, FewForms, Zenon
  <2>2. \E x : ServiceStatus(p, a, q) = Give(x)
    BY <2>1 DEF ServiceStatus
  <2> QED
    BY <2>2, ClearForms
<1>2. Len(r) <= 3 /\ Len(r) \in Nat
  BY <1>1, Dispatch, AsksFew, AllReturned
<1>3. Len(r) = 3 /\ \A i \in 1..3 : ~r[i].failed
  <2>1. \/ ServiceStatus(p, a, r) = Give(Unsupported)
        \/ \E command, words : ServiceStatus(p, a, r) = Probe(command, words)
        \/ /\ Len(r) # 0 /\ Len(r) # 1 /\ Len(r) # 2
           /\ \E c : ServiceStatus(p, a, r) = Give([Plain EXCEPT !.mark = \E i \in 1..3 : r[i].failed, !.context = c])
    BY DEF ServiceStatus
  <2>2. CASE ServiceStatus(p, a, r) = Give(Unsupported)
    BY <2>2, NotClear, Zenon
  <2>3. CASE \E command, words : ServiceStatus(p, a, r) = Probe(command, words)
    BY <2>3, ClearForms, Zenon
  <2>4. ASSUME Len(r) # 0 /\ Len(r) # 1 /\ Len(r) # 2,
               NEW c, ServiceStatus(p, a, r) = Give([Plain EXCEPT !.mark = \E i \in 1..3 : r[i].failed, !.context = c])
        PROVE  Len(r) = 3 /\ ~\E i \in 1..3 : r[i].failed
    <3> DEFINE m == \E i \in 1..3 : r[i].failed
    <3>1. m \in BOOLEAN
      OBVIOUS
    <3>2. Clear(Give([Plain EXCEPT !.mark = m, !.context = c]))
      BY <2>4
    <3> HIDE DEF m
    <3>3. ~m
      BY <3>1, <3>2, MarkForms
    <3>4. Len(r) # 0 /\ Len(r) # 1 /\ Len(r) # 2
      BY <2>4, Zenon
    <3>5. Len(r) = 3
      BY <1>2, <3>4, FewForms, Zenon
    <3> QED
      BY <3>3, <3>5 DEF m
  <2> QED
    BY <2>1, <2>2, <2>3, <2>4
<1> QED
  BY <1>3 DEF Unfailed

\* network_connection_inspector: one command that went well, or the mark.
LEMMA NetworkUnfailed ==
  ASSUME NEW r \in Seq(Returned), NEW p, NEW a, Clear(NetworkConnectionInspector(p, a, r))
  PROVE  Unfailed(r)
<1> DEFINE N == NetworkConnectionInspector(p, a, r)
<1>1. \/ N = Give([Refused EXCEPT !.context = "denied", !.risk = "low"])
      \/ N = Give(Unsupported)
      \/ \E command, words : N = Run(command, words)
      \/ Len(r) = 1 /\ ~r[1].failed
      \/ r[2].failed /\ \E n : N = Listing(r[2], n)
      \/ \E c, n : N = Give([Plain EXCEPT !.mark = TRUE, !.context = c, !.count = n])
  <2>1. CASE (a.text # "" /\ ~AllowedNetworkState(a.text)) \/ p # "linux"
    BY <2>1 DEF NetworkConnectionInspector
  <2>2. CASE ~(a.text # "" /\ ~AllowedNetworkState(a.text)) /\ p = "linux"
    <3>1. CASE r = <<>> \/ Len(r) = 1
      BY <2>2, <3>1 DEF NetworkConnectionInspector
    <3>2. CASE r # <<>> /\ Len(r) # 1
      <4> DEFINE c == ContextOf(r[2])
                 n == Least(r[2].lines, LimitOf(a, 100, 500))
      <4>1. N = IF r[2].failed THEN Listing(r[2], 0)
                ELSE Give([Plain EXCEPT !.mark = TRUE, !.context = c, !.count = n])
        BY <2>2, <3>2, Zenon DEF NetworkConnectionInspector
      <4> HIDE DEF N, c, n
      <4> QED
        BY <4>1, Zenon
    <3> QED
      BY <3>1, <3>2
  <2> QED
    BY <2>1, <2>2
<1> HIDE DEF N
<1>2. Clear(N)
  BY DEF N
<1>3. CASE N = Give([Refused EXCEPT !.context = "denied", !.risk = "low"])
  <2>1. ~Clear(Give([Refused EXCEPT !.context = "denied", !.risk = "low"]))
    BY NotClear, Zenon
  <2> QED
    BY <1>2, <1>3, <2>1, Zenon
<1>4. CASE N = Give(Unsupported)
  BY <1>2, <1>4, NotClear, Zenon
<1>5. CASE \E command, words : N = Run(command, words)
  BY <1>2, <1>5, ClearForms, Zenon
<1>6. CASE Len(r) = 1 /\ ~r[1].failed
  BY <1>6 DEF Unfailed
<1>7. CASE r[2].failed /\ \E n : N = Listing(r[2], n)
  BY <1>2, <1>7, ListingForms, Zenon
<1>8. ASSUME NEW c, NEW n, N = Give([Plain EXCEPT !.mark = TRUE, !.context = c, !.count = n]) PROVE FALSE
  BY <1>2, <1>8, MarkForms
<1> QED
  BY <1>1, <1>3, <1>4, <1>5, <1>6, <1>7, <1>8

\* resource_usage_checker: its warnings cover both reads.
LEMMA ResourceUnfailed ==
  ASSUME NEW r \in Seq(Returned), NEW p, NEW a, Asked("resource_usage_checker", p, a, r),
         Clear(ResourceUsageChecker(p, r))
  PROVE  Unfailed(r)
<1>1. ASSUME NEW q \in Seq(Returned), ResourceUsageChecker(p, q).step # <<>> PROVE Len(q) < 2
  <2> SUFFICES ASSUME ~(Len(q) < 2) PROVE ResourceUsageChecker(p, q).step = <<>>
    BY <1>1, Zenon
  <2>1. q # <<>> /\ Len(q) # 1
    BY AllReturned, FewForms, Zenon
  <2>2. \E x : ResourceUsageChecker(p, q) = Give(x)
    BY <2>1 DEF ResourceUsageChecker
  <2> QED
    BY <2>2, ClearForms
<1>2. Len(r) <= 2 /\ Len(r) \in Nat /\ (r # <<>> => Len(r) # 0)
  BY <1>1, Dispatch, AsksFew, AllReturned
<1>3. Len(r) = 2 /\ \A i \in 1..2 : ~r[i].failed
  <2>1. \/ ResourceUsageChecker(p, r) = Give(Unsupported)
        \/ \E file : ResourceUsageChecker(p, r) = Read(file)
        \/ /\ r # <<>> /\ Len(r) # 1
           /\ \E k : ResourceUsageChecker(p, r) = Give([Plain EXCEPT !.mark = \E i \in 1..2 : r[i].failed, !.risk = k])
    BY DEF ResourceUsageChecker
  <2>2. CASE ResourceUsageChecker(p, r) = Give(Unsupported)
    BY <2>2, NotClear, Zenon
  <2>3. CASE \E file : ResourceUsageChecker(p, r) = Read(file)
    BY <2>3, ClearForms, Zenon
  <2>4. ASSUME r # <<>> /\ Len(r) # 1,
               NEW k, ResourceUsageChecker(p, r) = Give([Plain EXCEPT !.mark = \E i \in 1..2 : r[i].failed, !.risk = k])
        PROVE  Len(r) = 2 /\ ~\E i \in 1..2 : r[i].failed
    <3> DEFINE m == \E i \in 1..2 : r[i].failed
    <3>1. m \in BOOLEAN
      OBVIOUS
    <3>2. Clear(Give([Plain EXCEPT !.mark = m, !.risk = k]))
      BY <2>4
    <3> HIDE DEF m
    <3>3. ~m
      BY <3>1, <3>2, MarkForms
    <3>4. r # <<>> /\ Len(r) # 1
      BY <2>4, Zenon
    <3>5. Len(r) = 2
      BY <1>2, <3>4, FewForms, Zenon
    <3> QED
      BY <3>3, <3>5 DEF m
  <2> QED
    BY <2>1, <2>2, <2>3, <2>4
<1> QED
  BY <1>3 DEF Unfailed

\* disk_memory_checker: no fallback without a mark, and the memory's warning.
LEMMA DiskMemoryUnfailed ==
  ASSUME NEW r \in Seq(Returned), NEW p, NEW a, Asked("disk_memory_checker", p, a, r),
         Clear(DiskMemoryChecker(p, r))
  PROVE  Unfailed(r)
<1>0. Len(r) \in Nat /\ (r = <<>>) = (Len(r) = 0)
  BY AllReturned
<1>1. r # <<>> /\ ~r[1].failed /\ ~Last(r).failed /\ Len(r) # 1
  <2>1. \/ DiskMemoryChecker(p, r) = Give(Unsupported)
        \/ \E command, words : DiskMemoryChecker(p, r) = Run(command, words)
        \/ \E file : DiskMemoryChecker(p, r) = Read(file)
        \/ /\ r # <<>> /\ Len(r) # (IF r[1].failed THEN 2 ELSE 1)
           /\ \E c, n, k : DiskMemoryChecker(p, r) =
                Give([Plain EXCEPT !.mark = r[1].failed \/ Last(r).failed, !.context = c, !.count = n, !.risk = k])
    BY DEF DiskMemoryChecker
  <2>2. CASE DiskMemoryChecker(p, r) = Give(Unsupported)
    BY <2>2, NotClear, Zenon
  <2>3. CASE \E command, words : DiskMemoryChecker(p, r) = Run(command, words)
    BY <2>3, ClearForms, Zenon
  <2>4. CASE \E file : DiskMemoryChecker(p, r) = Read(file)
    BY <2>4, ClearForms, Zenon
  <2>5. ASSUME r # <<>> /\ Len(r) # (IF r[1].failed THEN 2 ELSE 1), NEW c, NEW n, NEW k,
               DiskMemoryChecker(p, r) =
                 Give([Plain EXCEPT !.mark = r[1].failed \/ Last(r).failed, !.context = c, !.count = n, !.risk = k])
        PROVE  r # <<>> /\ ~r[1].failed /\ ~Last(r).failed /\ Len(r) # 1
    <3> DEFINE m == r[1].failed \/ Last(r).failed
    <3>1. m \in BOOLEAN
      OBVIOUS
    <3>2. Clear(Give([Plain EXCEPT !.mark = m, !.context = c, !.count = n, !.risk = k]))
      BY <2>5
    <3> HIDE DEF m
    <3>3. ~m
      BY <3>1, <3>2, MarkForms
    <3> QED
      BY <2>5, <3>3 DEF m
  <2> QED
    BY <2>1, <2>2, <2>3, <2>4, <2>5
<1>2. PICK q \in Seq(Returned) : /\ DiskMemoryChecker(p, q).step # <<>> /\ Len(q) = Len(r) - 1
                                 /\ \A i \in 1..(Len(r) - 1) : q[i] = r[i]
  BY <1>1, LastAsked, Dispatch
<1>3. Len(q) \in Nat /\ q # <<>> /\ ~q[1].failed /\ Len(q) # 0
  BY <1>0, <1>1, <1>2, AllReturned
<1>4. Len(q) = 1
  <2> SUFFICES ASSUME Len(q) # 1 PROVE FALSE
    OBVIOUS
  <2>1. \E x : DiskMemoryChecker(p, q) = Give(x)
    BY <1>3 DEF DiskMemoryChecker
  <2> QED
    BY <1>2, <2>1, ClearForms
<1>5. Len(r) = 2
  <2>1. Len(q) = Len(r) - 1
    BY <1>2, Zenon
  <2> QED
    BY <1>0, <1>4, <2>1, FewForms, Zenon
<1>6. ~r[1].failed /\ ~r[2].failed
  BY <1>1, <1>5, Zenon DEF Last
<1> QED
  BY <1>5, <1>6 DEF Unfailed

\* disk_io_checker: every read and the wait went well.
LEMMA DiskIOUnfailed ==
  ASSUME NEW r \in Seq(Returned), NEW p, NEW a, Asked("disk_io_checker", p, a, r),
         Clear(DiskIOChecker(p, r))
  PROVE  Unfailed(r)
<1> DEFINE Fine == {x \in Returned : ~x.failed}
<1>1. ASSUME NEW q \in Seq(Returned), DiskIOChecker(p, q).step # <<>>
      PROVE  q = <<>> \/ Last(q) \in Fine
  <2>1. q # <<>> => Last(q) \in Returned
    BY DEF Last
  <2>2. CASE DiskIOChecker(p, q) = Give(Unsupported) \/ DiskIOChecker(p, q) = Give(Failed)
    BY <1>1, <2>2, ClearForms
  <2>3. CASE q = <<>> \/ ~Last(q).failed
    BY <2>1, <2>3
  <2> QED
    BY <2>2, <2>3 DEF DiskIOChecker
<1>2. \A i \in 1..Len(r) : i < Len(r) => r[i] \in Fine
  <2> HIDE DEF Fine
  <2> QED
    BY <1>1, Dispatch, AsksAfter
<1>3. r # <<>> => ~Last(r).failed
  <2>1. CASE DiskIOChecker(p, r) = Give(Unsupported) \/ DiskIOChecker(p, r) = Give(Failed)
    BY <2>1, NotClear, Zenon
  <2>2. CASE r = <<>> \/ ~Last(r).failed
    BY <2>2
  <2> QED
    BY <2>1, <2>2 DEF DiskIOChecker
<1> QED
  BY <1>2, <1>3, AllReturned DEF Unfailed, Last

\* If what is used is the first of the names, nothing was tried before it.
LEMMA FirstIsOnly ==
  ASSUME NEW S, NEW names \in Seq(S), NEW P, NEW n \in 1..Len(FirstsIn(names, P)),
         names[1] = FirstsIn(names, P)[n]
  PROVE  n = 1
<1> DEFINE f == FirstsIn(names, P)
<1>1. /\ f \in Seq(S) /\ Distinct(f) /\ ToSet(f) = ToSet(names) \cap P
      /\ names # <<>> /\ names[1] \in P => f[1] = names[1]
  BY FirstsFacts
<1>2. n \in 1..Len(f) /\ names[1] = f[n]
  OBVIOUS
<1> HIDE DEF f
<1>3. f[n] \in ToSet(f) /\ 1 \in 1..Len(f)
  BY <1>1, <1>2 DEF ToSet
<1>4. names # <<>>
  <2>1. ToSet(<<>>) = {}
    BY DEF ToSet
  <2>2. ToSet(names) # {}
    BY <1>1, <1>3, Zenon
  <2> QED
    BY <2>1, <2>2, Zenon
<1> QED
  BY <1>1, <1>2, <1>3, <1>4 DEF Distinct

\* A file that could not be read is in the errors of log_reader.
LEMMA LogUnfailed ==
  ASSUME NEW r \in Seq(Returned), NEW p, NEW a \in Arguments, Asked("log_reader", p, a, r),
         Clear(LogReader(a, r))
  PROVE  Unfailed(r)
<1> DEFINE paths == Dedupe(a.names)
           readable == FirstsIn(paths, AllowedLogPaths)
<1>1. paths \in Seq(Texts)
  BY DedupeFacts
<1>2. readable \in Seq(Texts) /\ Len(readable) \in Nat
  <2> HIDE DEF paths
  <2> QED
    BY <1>1, FirstsFacts
<1>3. ASSUME NEW q \in Seq(Returned), LogReader(a, q).step # <<>> PROVE Len(q) < Len(readable)
  <2> SUFFICES ASSUME ~(Len(q) < Len(readable)) PROVE LogReader(a, q).step = <<>>
    BY <1>3, Zenon
  <2>1. \E x : LogReader(a, q) = Give(x)
    BY DEF LogReader
  <2> QED
    BY <2>1, ClearForms, Zenon
<1>4. r # <<>> /\ ~Last(r).failed /\ paths[1] = readable[Len(r)]
  <2> DEFINE m == paths[1] # readable[Len(r)]
  <2>1. \/ /\ r # <<>> /\ ~Last(r).failed
           /\ \E n, k : LogReader(a, r) = Give([Plain EXCEPT !.mark = m, !.risk = k, !.count = n])
        \/ \E file : LogReader(a, r) = Read(file)
        \/ \E x : LogReader(a, r) = Give([Failed EXCEPT !.refused = x])
    BY DEF LogReader
  <2>2. m \in BOOLEAN
    OBVIOUS
  <2> HIDE DEF m
  <2>3. ASSUME NEW n, NEW k, LogReader(a, r) = Give([Plain EXCEPT !.mark = m, !.risk = k, !.count = n])
        PROVE  ~m
    <3>1. Clear(Give([Plain EXCEPT !.mark = m, !.risk = k, !.count = n]))
      BY <2>3, Zenon
    <3> QED
      BY <2>2, <3>1, MarkForms
  <2>4. CASE \E file : LogReader(a, r) = Read(file)
    BY <2>4, ClearForms, Zenon
  <2>5. ASSUME NEW x, LogReader(a, r) = Give([Failed EXCEPT !.refused = x]) PROVE FALSE
    <3>1. [Failed EXCEPT !.refused = x].error
      BY DEF Failed, Plain
    <3> QED
      BY <2>5, <3>1, ClearForms, Zenon
  <2> QED
    BY <2>1, <2>3, <2>4, <2>5, Zenon DEF m
<1> HIDE DEF paths, readable
<1>5. Len(r) <= Len(readable)
  <2>1. PICK q \in Seq(Returned) : LogReader(a, q).step # <<>> /\ Len(q) = Len(r) - 1
    BY <1>4, LastAsked, Dispatch
  <2>2. Len(q) < Len(readable)
    BY <1>3, <2>1, Zenon
  <2>3. Len(r) \in Nat /\ Len(q) = Len(r) - 1
    BY <2>1, AllReturned, Zenon
  <2> QED
    BY <1>2, <2>2, <2>3
<1>6. Len(r) \in 1..Len(readable)
  <2>1. Len(r) \in Nat /\ Len(r) # 0
    BY <1>4, AllReturned, Zenon
  <2> QED
    BY <1>5, <2>1
<1>7. Len(r) = 1
  BY <1>1, <1>4, <1>6, FirstIsOnly, Zenon DEF readable
<1> QED
  BY <1>4, <1>7 DEF Unfailed, Last

\* Nor does ssh_login_analyzer go on in silence from one source to the next.
LEMMA SSHUnfailed ==
  ASSUME NEW r \in Seq(Returned), NEW p, NEW a \in Arguments, Asked("ssh_login_analyzer", p, a, r),
         Clear(SSHLoginAnalyzer(p, a, r))
  PROVE  Unfailed(r)
<1> DEFINE named == Dedupe(a.names)
           paths == IF named = <<>> THEN <<"/var/log/secure", "/var/log/auth.log">> ELSE named
           readable == FirstsIn(paths, AllowedLogPaths)
<1>1. paths \in Seq(Texts)
  <2>1. named \in Seq(Texts)
    BY DedupeFacts
  <2>2. <<"/var/log/secure", "/var/log/auth.log">> \in Seq(Texts)
    BY DEF Texts, Paths
  <2> QED
    BY <2>1, <2>2
<1>2. /\ r # <<>> /\ ~Last(r).failed
      /\ ~(~(Len(r) <= Len(readable)) \/ paths[1] # readable[Len(r)])
  <2> DEFINE m == ~(Len(r) <= Len(readable)) \/ paths[1] # readable[Len(r)]
  <2>1. \/ /\ r # <<>> /\ ~Last(r).failed
           /\ \E n, k : SSHLoginAnalyzer(p, a, r) =
                Give([[Plain EXCEPT !.context = "none", !.risk = k, !.count = n] EXCEPT !.mark = m])
        \/ \E file : SSHLoginAnalyzer(p, a, r) = Read(file)
        \/ \E command, words : SSHLoginAnalyzer(p, a, r) = Probe(command, words)
        \/ SSHLoginAnalyzer(p, a, r) = Give([Failed EXCEPT !.context = "none"])
    BY DEF SSHLoginAnalyzer
  <2>2. m \in BOOLEAN
    OBVIOUS
  <2> HIDE DEF m
  <2>3. ASSUME NEW n, NEW k,
               SSHLoginAnalyzer(p, a, r) =
                 Give([[Plain EXCEPT !.context = "none", !.risk = k, !.count = n] EXCEPT !.mark = m])
        PROVE  ~m
    <3>1. [[Plain EXCEPT !.context = "none", !.risk = k, !.count = n] EXCEPT !.mark = m].mark = m
      BY <2>2 DEF Plain
    <3> QED
      BY <2>3, <3>1, ClearForms, Zenon
  <2>4. CASE \E file : SSHLoginAnalyzer(p, a, r) = Read(file)
    BY <2>4, ClearForms, Zenon
  <2>5. CASE \E command, words : SSHLoginAnalyzer(p, a, r) = Probe(command, words)
    BY <2>5, ClearForms, Zenon
  <2>6. CASE SSHLoginAnalyzer(p, a, r) = Give([Failed EXCEPT !.context = "none"])
    BY <2>6, NotClear, Zenon
  <2> QED
    BY <2>1, <2>3, <2>4, <2>5, <2>6, Zenon DEF m
<1> HIDE DEF paths, readable
<1>3. Len(r) \in 1..Len(readable)
  <2>1. Len(r) \in Nat /\ Len(r) # 0 /\ Len(r) <= Len(readable)
    BY <1>2, AllReturned, Zenon
  <2>2. Len(readable) \in Nat
    BY <1>1, FirstsFacts DEF readable
  <2> QED
    BY <2>1, <2>2
<1>4. Len(r) = 1
  BY <1>1, <1>2, <1>3, FirstIsOnly, Zenon DEF readable
<1> QED
  BY <1>2, <1>4 DEF Unfailed, Last

\* lsof that failed is the answer only if it says that nobody has the file.
LEMMA OpenFileAnswers ==
  ASSUME NEW r \in Seq(Returned), NEW p, NEW a, Asked("open_file_inspector", p, a, r),
         Clear(OpenFileInspector(p, a, r))
  PROVE  \A i \in 1..Len(r) : r[i].failed => NobodyHasIt(r[i])
<1>1. ASSUME NEW q \in Seq(Returned), OpenFileInspector(p, a, q).step # <<>> PROVE q = <<>>
  <2> SUFFICES ASSUME q # <<>> PROVE OpenFileInspector(p, a, q).step = <<>>
    BY <1>1, Zenon
  <2>1. \/ \E x : OpenFileInspector(p, a, q) = Give(x)
        \/ \E n : OpenFileInspector(p, a, q) = Listing(q[1], n)
    BY DEF OpenFileInspector
  <2> QED
    BY <2>1, ClearForms, ListingForms, Zenon
<1>2. \A i \in 1..Len(r) : i = 1
  BY <1>1, Dispatch, AsksOnce
<1>3. r # <<>> => (r[1].failed => NobodyHasIt(r[1]))
  <2> SUFFICES ASSUME r # <<>>, r[1].failed, ~NobodyHasIt(r[1]) PROVE FALSE
    OBVIOUS
  <2>1. \/ OpenFileInspector(p, a, r) = Give(Unsupported)
        \/ \E n : OpenFileInspector(p, a, r) = Listing(r[1], n)
    BY DEF OpenFileInspector
  <2> QED
    BY <2>1, NotClear, ListingForms, Zenon
<1>4. \A i \in 1..Len(r) : r # <<>>
  OBVIOUS
<1> QED
  BY <1>2, <1>3, <1>4, Zenon

\* A drift report without an error has no result that could not be verified.
LEMMA DriftVerified ==
  ASSUME NEW r \in Seq(Returned), NEW p, NEW a, Asked("configuration_drift_detector", p, a, r),
         p = "linux", NEW x, ConfigurationDriftDetector(p, a, r) = Give(x), ~x.error
  PROVE  \A i \in 1..Len(r) : ~Unverified(r[i])
<1> DEFINE Fine == {y \in Returned : ~Unverified(y)}
<1>0. ASSUME NEW q \in Seq(Returned), q # <<>> PROVE Last(q) \in Returned
  BY <1>0 DEF Last
<1>1. ASSUME NEW q \in Seq(Returned), ConfigurationDriftDetector(p, a, q).step # <<>>
      PROVE  q = <<>> \/ Last(q) \in Fine
  <2> SUFFICES ASSUME q # <<>>, Unverified(Last(q))
               PROVE  ConfigurationDriftDetector(p, a, q).step = <<>>
    BY <1>0, <1>1
  <2>1. \E y : ConfigurationDriftDetector(p, a, q) = Give(y)
    BY DEF ConfigurationDriftDetector
  <2> QED
    BY <2>1, ClearForms, Zenon
<1>2. \A i \in 1..Len(r) : i < Len(r) => r[i] \in Fine
  <2> HIDE DEF Fine
  <2> QED
    BY <1>1, Dispatch, AsksAfter
<1>3. r # <<>> => ~Unverified(Last(r))
  <2> SUFFICES ASSUME r # <<>>, Unverified(Last(r)) PROVE FALSE
    OBVIOUS
  <2>1. \/ ConfigurationDriftDetector(p, a, r) = Give(Refused)
        \/ \E c, d, e : ConfigurationDriftDetector(p, a, r) =
             Give([Failed EXCEPT !.context = c, !.checked = d, !.missing = e])
    BY DEF ConfigurationDriftDetector
  <2>2. \A y : Give(x) = Give(y) => x = y
    BY DEF Give
  <2>3. Refused.error /\ \A c, d, e : [Failed EXCEPT !.context = c, !.checked = d, !.missing = e].error
    BY DEF Refused, Failed, Plain
  <2> QED
    BY <2>1, <2>2, <2>3, Zenon
<1> QED
  BY <1>2, <1>3, AllReturned DEF Last

\* What a failed result of a tool that shows nothing else amounts to.
AnswerOf(t, x) ==
  \/ t = "open_file_inspector" /\ NobodyHasIt(x)
  \/ t = "configuration_drift_detector" /\ ~Unverified(x)
  \/ t = "port_checker"

\* A clear answer, tool by tool.
LEMMA ClearShows ==
  ASSUME NEW r \in Seq(Returned), NEW p, NEW a \in Arguments, NEW t \in RegisteredTools,
         GateAllows(t, a), Asked(t, p, a, r), Clear(Handler(t, p, a, r))
  PROVE  \A i \in 1..Len(r) : r[i].failed => AnswerOf(t, r[i])
<1>1. t # "safe_shell"
  BY GateFacts
<1>2. CASE t \in {"os_info", "process_inspector", "journalctl_reader", "systemd_unit_inventory",
                  "block_device_inventory", "mount_inventory", "rpm_package_inventory"}
  BY <1>2, SingleUnfailed DEF Unfailed
<1>3. CASE t = "service_status"
  <2>1. Clear(ServiceStatus(p, a, r))
    BY <1>3, Dispatch
  <2> QED
    BY <1>3, <2>1, ServiceUnfailed DEF Unfailed
<1>4. CASE t = "network_connection_inspector"
  <2>1. Clear(NetworkConnectionInspector(p, a, r))
    BY <1>4, Dispatch
  <2> QED
    BY <2>1, NetworkUnfailed DEF Unfailed
<1>5. CASE t = "resource_usage_checker"
  <2>1. Clear(ResourceUsageChecker(p, r))
    BY <1>5, Dispatch
  <2> QED
    BY <1>5, <2>1, ResourceUnfailed DEF Unfailed
<1>6. CASE t = "disk_memory_checker"
  <2>1. Clear(DiskMemoryChecker(p, r))
    BY <1>6, Dispatch
  <2> QED
    BY <1>6, <2>1, DiskMemoryUnfailed DEF Unfailed
<1>7. CASE t = "disk_io_checker"
  <2>1. Clear(DiskIOChecker(p, r))
    BY <1>7, Dispatch
  <2> QED
    BY <1>7, <2>1, DiskIOUnfailed DEF Unfailed
<1>8. CASE t = "log_reader"
  <2>1. Clear(LogReader(a, r))
    BY <1>8, Dispatch
  <2> QED
    BY <1>8, <2>1, LogUnfailed DEF Unfailed
<1>9. CASE t = "ssh_login_analyzer"
  <2>1. Clear(SSHLoginAnalyzer(p, a, r))
    BY <1>9, Dispatch
  <2> QED
    BY <1>9, <2>1, SSHUnfailed DEF Unfailed
<1>10. CASE t = "open_file_inspector"
  <2>1. Clear(OpenFileInspector(p, a, r))
    BY <1>10, Dispatch
  <2> QED
    BY <1>10, <2>1, OpenFileAnswers DEF AnswerOf
<1>11. CASE t = "configuration_drift_detector"
  <2> DEFINE D == ConfigurationDriftDetector(p, a, r)
  <2>1. Clear(D)
    BY <1>11, Dispatch
  <2>2. p = "linux"
    <3> SUFFICES ASSUME p # "linux" PROVE FALSE
      OBVIOUS
    <3>1. D = Give(Refused) \/ D = Give(Unsupported)
      BY DEF ConfigurationDriftDetector
    <3> QED
      BY <2>1, <3>1, NotClear, Zenon
  <2>3. \E x : D = Give(x) /\ ~x.error
    <3>1. \/ \E x : D = Give(x)
          \/ \E command, words : D = Probe(command, words)
      BY DEF ConfigurationDriftDetector
    <3> QED
      BY <2>1, <3>1, ClearForms, Zenon
  <2> QED
    BY <1>11, <2>2, <2>3, DriftVerified DEF AnswerOf
<1>12. CASE t = "port_checker"
  BY <1>12 DEF AnswerOf
<1> QED
  BY <1>1, <1>2, <1>3, <1>4, <1>5, <1>6, <1>7, <1>8, <1>9, <1>10, <1>11, <1>12 DEF RegisteredTools

\* For any arguments and outcomes: a call that ends without an error and without a
\* mark in its answer had no command and no read that failed, but for the failures
\* that are answers themselves.
THEOREM FailuresShowAlways == Spec => []FailuresShow
<1>1. CallInv => FailuresShow
  <2> SUFFICES ASSUME CallInv, answer # <<>>, Status = "ok", ~answer[1].mark,
                      NEW i \in 1..Len(results), results[i].failed
               PROVE  IsAnswer(results[i])
    BY DEF FailuresShow
  <2>1. /\ results \in Seq(Returned) /\ args \in Arguments /\ tool \in RegisteredTools
        /\ GateAllows(tool, args)
    BY DEF CallInv
  <2>2. Asked(tool, platform, args, results) /\ answer = Handler(tool, platform, args, results).answer
    BY DEF CallInv, Followed, Asked
  <2>3. ~answer[1].error
    BY DEF Status
  <2>4. Clear(Handler(tool, platform, args, results))
    BY <2>2, <2>3, Zenon DEF Clear
  <2>5. AnswerOf(tool, results[i])
    BY <2>1, <2>2, <2>4, ClearShows
  <2> QED
    BY <2>5 DEF AnswerOf, IsAnswer
<1> QED
  BY <1>1, CallAlways, PTL

-----------------------------------------------------------------------------
(* Drift reports *)

\* rpm verified the package to the end.
LEMMA VerifiedResult ==
  ASSUME NEW x \in Returned, ~x.missing, ~Unverified(x)
  PROVE  x.exit \in {0, 1} /\ ~x.timedOut /\ x.allowed
<1>1. CASE ~x.failed
  BY <1>1 DEF Returned
<1>2. CASE x.failed
  <2>1. x.exit = 1
    BY <1>2 DEF Unverified
  <2> QED
    BY <2>1 DEF Returned
<1> QED
  BY <1>1, <1>2

\* What a report says of the packages follows from the results, one for each.
LEMMA ReportOf ==
  ASSUME NEW r \in Seq(Returned), NEW packages \in Seq(Texts), Distinct(packages),
         Len(r) = Len(packages), \A i \in 1..Len(r) : ~Unverified(r[i]),
         NEW missing, missing = {packages[i] : i \in {j \in 1..Len(r) : r[j].missing}},
         NEW checked,
         checked = {packages[i] : i \in {j \in 1..Len(r) : ~r[j].missing /\ ~Unverified(r[j])}}
  PROVE  /\ checked \cup missing = {packages[i] : i \in 1..Len(packages)}
         /\ \A i \in 1..Len(packages) :
              /\ packages[i] \in checked \ missing =>
                   r[i].exit \in {0, 1} /\ ~r[i].timedOut /\ r[i].allowed
              /\ packages[i] \in missing => r[i].missing
<1>1. checked \cup missing = {packages[i] : i \in 1..Len(packages)}
  OBVIOUS
<1>2. ASSUME NEW i \in 1..Len(packages), packages[i] \in missing PROVE r[i].missing
  <2>1. PICK j \in 1..Len(r) : r[j].missing /\ packages[j] = packages[i]
    BY <1>2
  <2> QED
    BY <2>1 DEF Distinct
<1>3. ASSUME NEW i \in 1..Len(packages), packages[i] \in checked \ missing
      PROVE  r[i].exit \in {0, 1} /\ ~r[i].timedOut /\ r[i].allowed
  <2>1. PICK j \in 1..Len(r) : ~r[j].missing /\ ~Unverified(r[j]) /\ packages[j] = packages[i]
    BY <1>3
  <2>2. ~r[i].missing /\ ~Unverified(r[i])
    BY <2>1 DEF Distinct
  <2>3. r[i] \in Returned
    OBVIOUS
  <2> QED
    BY <2>2, <2>3, VerifiedResult
<1> QED
  BY <1>1, <1>2, <1>3

LEMMA DriftReport ==
  ASSUME NEW r \in Seq(Returned), NEW a \in Arguments,
         Asked("configuration_drift_detector", "linux", a, r),
         NEW x, ConfigurationDriftDetector("linux", a, r).answer = <<x>>, ~x.error
  PROVE  LET packages == Dedupe(a.names)
         IN /\ \A i \in 1..Len(r) : ~Unverified(r[i])
            /\ Len(r) = Len(packages)
            /\ x.missing = {packages[i] : i \in {j \in 1..Len(r) : r[j].missing}}
            /\ x.checked = {packages[i] : i \in {j \in 1..Len(r) : ~r[j].missing /\ ~Unverified(r[j])}}
<1> DEFINE packages == Dedupe(a.names)
           D(q) == ConfigurationDriftDetector("linux", a, q)
           missing == {packages[i] : i \in {j \in 1..Len(r) : r[j].missing}}
           checked == {packages[i] : i \in {j \in 1..Len(r) : ~r[j].missing /\ ~Unverified(r[j])}}
           Whole(y) == \E c, n, k : y = [Plain EXCEPT !.context = c, !.checked = checked,
                                                      !.missing = missing, !.count = n, !.risk = k]
           Cut(y) == \E c : y = [Failed EXCEPT !.context = c, !.checked = checked, !.missing = missing]
<1>1. \/ D(r) = Give(Refused)
      \/ \E y : D(r) = Give(y) /\ Cut(y)
      \/ \E command, words : D(r) = Probe(command, words)
      \/ ~(Len(r) < Len(packages)) /\ \E y : D(r) = Give(y) /\ Whole(y)
  BY DEF ConfigurationDriftDetector
<1>2. Refused.error /\ \A y : Cut(y) => y.error
  BY DEF Refused, Failed, Plain
<1>3. \A y : Whole(y) => y.checked = checked /\ y.missing = missing
  BY DEF Plain
<1>4. ASSUME NEW q \in Seq(Returned), D(q).step # <<>> PROVE Len(q) < Len(packages)
  <2> SUFFICES ASSUME ~(Len(q) < Len(packages)) PROVE D(q).step = <<>>
    BY <1>4, Zenon
  <2>1. \E y : D(q) = Give(y)
    BY DEF ConfigurationDriftDetector
  <2> QED
    BY <2>1, ClearForms, Zenon
<1>5. packages \in Seq(Texts)
  BY DedupeFacts
<1>6. D(r).answer = <<x>>
  OBVIOUS
<1> HIDE DEF packages, D, missing, checked, Whole, Cut
<1>7. \A y : Give(y).answer = <<x>> => y = x
  BY DEF Give
<1>8. \A command, words : Probe(command, words).answer # <<x>>
  BY DEF Probe, Step
<1>9. ~(Len(r) < Len(packages)) /\ D(r) = Give(x) /\ Whole(x)
  BY <1>1, <1>2, <1>6, <1>7, <1>8, Zenon
<1>10. Len(r) <= Len(packages)
  <2>1. CASE r = <<>>
    BY <1>5, <2>1
  <2>2. CASE r # <<>>
    <3>1. PICK q \in Seq(Returned) : D(q).step # <<>> /\ Len(q) = Len(r) - 1
      BY <2>2, LastAsked, Dispatch DEF D
    <3>2. Len(q) < Len(packages) /\ Len(q) = Len(r) - 1
      BY <1>4, <3>1, Zenon
    <3>3. Len(r) \in Nat /\ Len(packages) \in Nat
      BY <1>5
    <3> QED
      BY <3>2, <3>3
  <2> QED
    BY <2>1, <2>2
<1>11. Len(r) = Len(packages)
  <2>1. Len(r) \in Nat /\ Len(packages) \in Nat /\ ~(Len(r) < Len(packages))
    BY <1>5, <1>9
  <2> QED
    BY <1>10, <2>1
<1>12. \A i \in 1..Len(r) : ~Unverified(r[i])
  BY <1>9, DriftVerified DEF D
<1> QED
  BY <1>3, <1>9, <1>11, <1>12, Zenon DEF packages, missing, checked

\* For any packages and whatever rpm does: a drift report without an error accounts
\* for each package once, as missing or as verified to the end.
THEOREM DriftReportsCompleteAlways == Spec => []DriftReportsComplete
<1>1. CallInv => DriftReportsComplete
  <2> SUFFICES ASSUME CallInv, answer # <<>>, Status = "ok",
                      tool = "configuration_drift_detector", platform = "linux"
               PROVE  LET packages == Dedupe(args.names)
                          report == answer[1]
                      IN /\ report.checked \cup report.missing = {packages[i] : i \in 1..Len(packages)}
                         /\ \A i \in 1..Len(packages) :
                              /\ packages[i] \in report.checked \ report.missing =>
                                   /\ results[i].exit \in {0, 1} /\ ~results[i].timedOut
                                   /\ results[i].allowed
                              /\ packages[i] \in report.missing => results[i].missing
    BY DEF DriftReportsComplete
  <2> DEFINE packages == Dedupe(args.names)
             report == answer[1]
  <2>1. /\ results \in Seq(Returned) /\ args \in Arguments
        /\ Asked("configuration_drift_detector", "linux", args, results)
        /\ answer = Handler("configuration_drift_detector", "linux", args, results).answer
    BY DEF CallInv, Followed, Asked
  <2>2. answer = ConfigurationDriftDetector("linux", args, results).answer /\ ~report.error
    BY <2>1, Dispatch DEF Status
  <2>3. answer = <<report>>
    <3>1. \/ \E y : ConfigurationDriftDetector("linux", args, results) = Give(y)
          \/ \E command, words : ConfigurationDriftDetector("linux", args, results) = Probe(command, words)
      BY DEF ConfigurationDriftDetector
    <3>2. \A y : Give(y).answer = <<y>>
      BY DEF Give
    <3>3. \A command, words : Probe(command, words).answer = <<>>
      BY DEF Probe, Step
    <3>4. \E y : answer = <<y>>
      BY <2>2, <3>1, <3>2, <3>3, Zenon
    <3> QED
      BY <3>4
  <2>4. packages \in Seq(Texts) /\ Distinct(packages)
    BY <2>1, DedupeFacts
  <2> HIDE DEF packages, report
  <2>5. /\ \A i \in 1..Len(results) : ~Unverified(results[i])
        /\ Len(results) = Len(packages)
        /\ report.missing = {packages[i] : i \in {j \in 1..Len(results) : results[j].missing}}
        /\ report.checked = {packages[i] : i \in {j \in 1..Len(results) :
                                                    ~results[j].missing /\ ~Unverified(results[j])}}
    BY <2>1, <2>2, <2>3, DriftReport DEF packages
  <2>6. /\ report.checked \cup report.missing = {packages[i] : i \in 1..Len(packages)}
        /\ \A i \in 1..Len(packages) :
             /\ packages[i] \in report.checked \ report.missing =>
                  results[i].exit \in {0, 1} /\ ~results[i].timedOut /\ results[i].allowed
             /\ packages[i] \in report.missing => results[i].missing
    BY <2>1, <2>4, <2>5, ReportOf
  <2> QED
    BY <2>6 DEF packages, report
<1> QED
  BY <1>1, CallAlways, PTL

-----------------------------------------------------------------------------
(* The two tables *)

\* A row of the catalog and the semantics of a call say the same.
Agrees(row, sem) ==
  /\ sem.operation = row.operation /\ sem.resource = row.resource
  /\ sem.scope = row.scope /\ sem.boundary = row.boundary
  /\ sem.allowed
  /\ sem.privileged => row.privileged

\* What is privileged is sensitive.
Sound(row) == row.privileged => row.boundary = Sensitive

LEMMA HostRows ==
  ASSUME NEW t \in {"os_info", "service_status", "port_checker", "ssh_login_analyzer"}, NEW a
  PROVE  /\ Agrees(Metadata(t), SemanticForTool(t, a)) /\ Sound(Metadata(t))
         /\ Metadata(t).privileged => SemanticForTool(t, a).privileged
<1>1. CASE t = "os_info"
  BY <1>1 DEF Agrees, Sound, Metadata, HostTools, Row, SemanticForTool, Semantic
<1>2. CASE t = "service_status"
  BY <1>2 DEF Agrees, Sound, Metadata, HostTools, Row, SemanticForTool, Semantic
<1>3. CASE t = "port_checker"
  BY <1>3 DEF Agrees, Sound, Metadata, HostTools, Row, SemanticForTool, Semantic
<1>4. CASE t = "ssh_login_analyzer"
  BY <1>4 DEF Agrees, Sound, Metadata, HostTools, Row, SemanticForTool, InventorySemantic, Semantic
<1>. QED
  BY <1>1, <1>2, <1>3, <1>4

LEMMA InspectionRows ==
  ASSUME NEW t \in {"process_inspector", "network_connection_inspector", "journalctl_reader",
                    "resource_usage_checker", "disk_memory_checker"}, NEW a
  PROVE  /\ Agrees(Metadata(t), SemanticForTool(t, a)) /\ Sound(Metadata(t))
         /\ Metadata(t).privileged => SemanticForTool(t, a).privileged
<1> USE DEF Agrees, Sound, Metadata, InspectionTools, Row, SemanticForTool, InspectionSemantic, Semantic
<1>1. CASE t = "process_inspector"
  BY <1>1
<1>2. CASE t = "network_connection_inspector"
  BY <1>2
<1>3. CASE t = "journalctl_reader"
  BY <1>3 DEF JournalSemantic
<1>4. CASE t = "resource_usage_checker"
  BY <1>4
<1>5. CASE t = "disk_memory_checker"
  BY <1>5
<1>. QED
  BY <1>1, <1>2, <1>3, <1>4, <1>5

LEMMA StorageRows ==
  ASSUME NEW t \in {"open_file_inspector", "disk_io_checker", "configuration_drift_detector"}, NEW a
  PROVE  /\ Agrees(Metadata(t), SemanticForTool(t, a)) /\ Sound(Metadata(t))
         /\ Metadata(t).privileged => SemanticForTool(t, a).privileged
<1> USE DEF Agrees, Sound, Metadata, StorageTools, Row, SemanticForTool, Semantic
<1>1. CASE t = "open_file_inspector"
  BY <1>1 DEF InspectionSemantic
<1>2. CASE t = "disk_io_checker"
  BY <1>2 DEF InspectionSemantic
<1>3. CASE t = "configuration_drift_detector"
  BY <1>3 DEF InventorySemantic
<1>. QED
  BY <1>1, <1>2, <1>3

LEMMA InventoryRows ==
  ASSUME NEW t \in {"systemd_unit_inventory", "block_device_inventory", "mount_inventory",
                    "rpm_package_inventory"}, NEW a
  PROVE  /\ Agrees(Metadata(t), SemanticForTool(t, a)) /\ Sound(Metadata(t))
         /\ Metadata(t).privileged => SemanticForTool(t, a).privileged
<1> USE DEF Agrees, Sound, Metadata, InventoryTools, Row, SemanticForTool, InventorySemantic, Semantic
<1>1. CASE t = "systemd_unit_inventory"
  BY <1>1
<1>2. CASE t = "block_device_inventory"
  BY <1>2
<1>3. CASE t = "mount_inventory"
  BY <1>3
<1>4. CASE t = "rpm_package_inventory"
  BY <1>4
<1>. QED
  BY <1>1, <1>2, <1>3, <1>4

\* The semantics of log_reader depend on the paths; the gate lets only those
\* through that the semantics call allowed.
LEMMA LogReaderRow ==
  ASSUME NEW a \in Arguments, GateAllows("log_reader", a)
  PROVE  Agrees(Metadata("log_reader"), SemanticForTool("log_reader", a)) /\ Sound(Metadata("log_reader"))
<1> DEFINE paths == ToSet(Dedupe(a.names))
<1>1. Dedupe(a.names) # <<>> /\ \A p \in paths : AllowedLogPath(p)
  BY DEF GateAllows, ValidInput
<1>2. paths # {}
  <2>1. Dedupe(a.names) \in Seq(Texts)
    BY DedupeFacts
  <2>. QED
    BY <1>1, <2>1, FirstOne, Zenon
<1>3. SemanticForTool("log_reader", a) =
        [Semantic("read", "system_log", "system_log_read", Sensitive)
           EXCEPT !.privileged = \E p \in paths : PrivilegedLogPath(p)]
  BY <1>1, <1>2 DEF SemanticForTool, LogReaderSemantic
<1>. QED
  BY <1>3 DEF Agrees, Sound, Metadata, HostTools, Row, Semantic

\* For every call the gate lets through, whatever its arguments are.
LEMMA RowsAgree ==
  ASSUME NEW t \in RegisteredTools, NEW a \in Arguments, GateAllows(t, a)
  PROVE  /\ Agrees(Metadata(t), SemanticForTool(t, a)) /\ Sound(Metadata(t))
         /\ Metadata(t).privileged /\ t # "log_reader" => SemanticForTool(t, a).privileged
<1>1. t # "safe_shell"
  BY DEF GateAllows, IsToolEnabledForDirectCall, Metadata, HostTools, Row
<1>2. CASE t = "log_reader"
  BY <1>2, LogReaderRow
<1>. QED
  BY <1>1, <1>2, HostRows, InspectionRows, StorageRows, InventoryRows DEF RegisteredTools

\* For any arguments, what the catalog says of a tool and what the auditors are
\* told of a call of it agree.
THEOREM TablesAgreeAlways == Spec => []TablesAgree
<1>1. CallInv => TablesAgree
  <2> SUFFICES ASSUME CallInv, phase \notin {"idle", "refused"}
               PROVE  /\ Agrees(Metadata(tool), Stamped)
                      /\ Metadata(tool).privileged /\ ~Stamped.privileged => tool = "log_reader"
    BY DEF TablesAgree, Agrees
  <2>. QED
    BY RowsAgree DEF CallInv, Stamped
<1>. QED
  BY <1>1, CallAlways, PTL

-----------------------------------------------------------------------------
(* The audit of a sensitive call *)

\* A call of such a tool is sensitive to the auditors too.
LEMMA StampedSensitive ==
  ASSUME CallInv, phase \notin {"idle", "refused"},
         Metadata(tool).boundary = Sensitive \/ Metadata(tool).privileged
  PROVE  Stamped.boundary = Sensitive
BY RowsAgree DEF CallInv, Stamped, Agrees, Sound

\* audit-core-py never simply allows a sensitive step, whatever the evaluator says.
LEMMA CoreReviews ==
  ASSUME NEW found, NEW step, step.boundary = Sensitive
  PROVE  Core!AuditTrace(found, <<step>>).decision # "allow"
<1>1. Core!RequiresSemanticReview(<<step>>)
  <2>1. Len(<<step>>) = 1 /\ <<step>>[1] = step
    OBVIOUS
  <2>2. Core!IsSensitiveStep(<<step>>[1])
    BY <2>1 DEF Core!IsSensitiveStep, Sensitive
  <2>. QED
    BY <2>1, <2>2 DEF Core!RequiresSemanticReview
<1>2. Core!ConvertResult(found[1], <<step>>).decision # "allow"
  BY <1>1 DEF Core!ConvertResult
<1>3. Core!FallbackAuditTrace(<<step>>).decision # "allow"
  BY DEF Core!FallbackAuditTrace
<1>. QED
  BY <1>2, <1>3 DEF Core!AuditTrace

\* Nor does the client, of an answer that is no allowance or of none.
LEMMA ClientReviews ==
  ASSUME NEW T, NEW reply, reply # "allow"
  PROVE  Client!AuditTrace(T, reply).decision # "allow"
<1>1. Client!LocalDecision(T) # "allow"
  BY DEF Client!LocalDecision
<1>2. CASE reply = "unavailable"
  BY <1>1, <1>2 DEF Client!AuditTrace
<1>3. CASE reply = ""
  BY <1>3 DEF Client!AuditTrace
<1>4. CASE reply \notin {"unavailable", ""}
  BY <1>4 DEF Client!AuditTrace
<1>. QED
  BY <1>2, <1>3, <1>4

LEMMA NextReviewed == CallInv /\ SensitiveIsReviewed /\ [Next]_vars => SensitiveIsReviewed'
<1> SUFFICES ASSUME CallInv, SensitiveIsReviewed, [Next]_vars,
                    phase' = "audited",
                    (Metadata(tool).boundary = Sensitive \/ Metadata(tool).privileged)'
             PROVE  audit'[1].decision # "allow"
  BY DEF SensitiveIsReviewed
<1>1. ASSUME NEW verdict \in Verdicts, AuditByCore(verdict) PROVE audit'[1].decision # "allow"
  <2> DEFINE reply == Core!AuditTrace(ResultOf(verdict), <<StepOf>>)
  <2>1. Stamped.boundary = Sensitive
    BY <1>1, StampedSensitive DEF AuditByCore
  <2>2. reply.decision # "allow"
    BY <2>1, CoreReviews DEF StepOf
  <2>3. Client!AuditTrace({TraceOf}, reply.decision).decision # "allow"
    BY <2>2, ClientReviews
  <2>4. audit'[1].decision = Client!AuditTrace({TraceOf}, reply.decision).decision
    BY <1>1 DEF AuditByCore
  <2>. QED
    BY <2>3, <2>4
<1>2. ASSUME AuditLocally PROVE audit'[1].decision # "allow"
  <2>1. Client!AuditTrace({TraceOf}, "unavailable").decision # "allow"
    BY ClientReviews
  <2>2. audit'[1].decision = Client!AuditTrace({TraceOf}, "unavailable").decision
    BY <1>2 DEF AuditLocally
  <2>. QED
    BY <2>1, <2>2
<1>3. CASE UNCHANGED vars
  BY <1>3 DEF vars, SensitiveIsReviewed
<1>. QED
  BY <1>1, <1>2, <1>3 DEF Next, Refuse, Begin, RunStep, Cancel, Return, Finish, SensitiveIsReviewed

\* For any arguments and whatever the evaluator says, or fails to say, a call of
\* a tool that the catalog calls sensitive is never simply allowed.
THEOREM SensitiveIsReviewedAlways == Spec => []SensitiveIsReviewed
<1>1. Init => SensitiveIsReviewed
  BY DEF Init, SensitiveIsReviewed
<1>. QED
  BY <1>1, NextReviewed, CallAlways, PTL DEF Spec
=============================================================================
