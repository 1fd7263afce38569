--------------------------- MODULE AgentRunProofs ---------------------------
(***************************************************************************)
(* What AgentRun keeps true for any number of concurrent requests, any set *)
(* of tool calls, any limit on the steps and any behaviour of the remote   *)
(* model, the tools and the audit service.                                 *)
(*                                                                         *)
(* First what a single request guarantees: permissions, the deadline, its  *)
(* verdict, its claim to the remote model.  Then what it shares with the   *)
(* others: step ids, reports on its own traces, its part of the trace      *)
(* store.  Last, that all of it is the ledger of AuditLedger.              *)
(***************************************************************************)
EXTENDS AgentRun, TLAPS

\* What a request has in hand depends on where it is: a call from the gate to
\* the end of its audit, a trace from the moment it has a step id; and the
\* auditor reads the trace of that very call.
InHand ==
  \A r \in Runs :
    /\ pc[r] \in {"gate", "running", "audit"} => chosen[r] \in Calls
    /\ pc[r] \in {"running", "audit"} <=> pending[r] # NoTrace
    /\ pc[r] = "running" => pending[r].status = "ok"
    /\ pc[r] = "audit" /\ pending[r].status # "denied" =>
         /\ traces[r] # <<>>
         /\ LastTrace(r).id = pending[r].id
         /\ LastTrace(r).status # "denied"

IInv == TypeOK /\ InHand

LEMMA EvaluateAllows ==
  ASSUME NEW c \in Calls, Evaluate(c) # "deny"
  PROVE  MayRun(c)
<1>1. c \in ToolCall(Names)
  BY CallsAssumption
<1>2. Refusals(c) = {}
  BY DEF Evaluate
<1>3. \A g \in {"name", "unknown", "disabled", "indirect", "dangerous", "metadata",
                "arguments", "shell", "validation"} : g \notin Refusals(c)
  BY <1>2
<1>4. c.named /\ c.exists /\ c.enabled
  BY <1>3, <1>1 DEF Refusals, ToolCall
<1>5. c.direct /\ ~c.dangerous /\ c.allowed
  BY <1>3, <1>1 DEF Refusals, ToolCall
<1>6. c.knownArgs /\ c.cleanArgs /\ c.validArgs
  BY <1>3, <1>1 DEF Refusals, ToolCall
<1>7. QED
  BY <1>4, <1>5, <1>6 DEF MayRun

LEMMA ReportType ==
  ASSUME NEW t \in Trace(Calls), NEW n \in Nat \ {0}, NEW reply \in Replies
  PROVE  StepReport(t, n, reply) \in Report
<1>1. LocalDecision({t}) \in Decisions
  BY DEF LocalDecision, Decisions
<1>2. /\ AuditTrace({t}, reply).decision \in Decisions
      /\ AuditTrace({t}, reply).method \in Methods
  BY <1>1 DEF AuditTrace, Replies, Decisions, Methods
<1>3. t.id \in Nat \ {0}
  BY DEF Trace
<1>4. QED
  BY <1>2, <1>3 DEF StepReport, Report, Decisions, Methods

LEMMA InitIInv == Init => IInv
<1>1. SUFFICES ASSUME Init PROVE IInv
  OBVIOUS
<1>2. TypeOK
  BY <1>1 DEF Init, TypeOK, Pcs
<1>3. InHand
  BY <1>1 DEF Init, InHand
<1>4. QED
  BY <1>2, <1>3 DEF IInv

-----------------------------------------------------------------------------
(* Every action keeps IInv. *)

LEMMA ActKeeps ==
  ASSUME IInv, NEW r \in Runs, NEW action \in Calls \cup {Final},
         pc[r] = "generate", Act(r, action),
         UNCHANGED <<traces, pending>>
  PROVE  /\ pc' \in [Runs -> Pcs]
         /\ chosen' \in [Runs -> Calls \cup {NoCall}]
         /\ InHand'
<1>1. pc \in [Runs -> Pcs] /\ chosen \in [Runs -> Calls \cup {NoCall}]
  BY DEF IInv, TypeOK
<1>2. InHand
  BY DEF IInv
<1>3. CASE action = Final
  <2>1. pc' = [pc EXCEPT ![r] = "publish"] /\ chosen' = chosen
    BY <1>3 DEF Act
  <2>2. QED
    BY <1>1, <1>2, <2>1 DEF Pcs, InHand, LastTrace
<1>4. CASE action # Final
  <2>1. pc' = [pc EXCEPT ![r] = "gate"] /\ chosen' = [chosen EXCEPT ![r] = action]
    BY <1>4 DEF Act
  <2>2. action \in Calls
    BY <1>4
  <2>3. QED
    BY <1>1, <1>2, <2>1, <2>2 DEF Pcs, InHand, LastTrace
<1>5. QED
  BY <1>3, <1>4

LEMMA AnswerKeeps ==
  ASSUME IInv, NEW r \in Runs, NEW type \in Interactions, NEW decision \in Decisions,
         NEW status \in {"completed", "blocked"},
         pc[r] \in {"idle", "route"}, Answer(r, type, decision, status),
         LoopUnchanged, UNCHANGED expired
  PROVE  IInv'
<1>1. pc' = [pc EXCEPT ![r] = "done"]
  BY DEF Answer
<1>2. response' \in [Runs -> Response \cup {NoResponse}]
  BY DEF Answer, IInv, TypeOK, Response
<1>3. TypeOK'
  BY <1>1, <1>2 DEF IInv, TypeOK, LoopUnchanged, Pcs
<1>4. InHand'
  BY <1>1 DEF IInv, TypeOK, InHand, LoopUnchanged, LastTrace
<1>5. QED
  BY <1>3, <1>4 DEF IInv

LEMMA GuardKeeps == ASSUME IInv, NEW r \in Runs, Guard(r) PROVE IInv'
<1>1. CASE Answer(r, "safe_refusal", "deny", "blocked")
  BY <1>1, AnswerKeeps DEF Guard, Interactions, Decisions
<1>2. CASE pc' = [pc EXCEPT ![r] = "route"] /\ UNCHANGED response
  <2>1. TypeOK'
    BY <1>2 DEF IInv, TypeOK, Guard, LoopUnchanged, Pcs
  <2>2. InHand'
    BY <1>2 DEF IInv, TypeOK, InHand, Guard, LoopUnchanged, LastTrace
  <2>3. QED
    BY <2>1, <2>2 DEF IInv
<1>3. QED
  BY <1>1, <1>2 DEF Guard

LEMMA RouteKeeps == ASSUME IInv, NEW r \in Runs, Route(r) PROVE IInv'
<1>1. PICK route \in Routes(r) :
        \/ /\ route = "agent_run"
           /\ pc' = [pc EXCEPT ![r] = "generate"]
           /\ UNCHANGED response
        \/ route \in {"chat", "clarify"} /\ Answer(r, route, "allow", "completed")
        \/ route = "safe_refusal" /\ Answer(r, route, "deny", "blocked")
  BY DEF Route
<1>2. CASE pc' = [pc EXCEPT ![r] = "generate"] /\ UNCHANGED response
  <2>1. TypeOK'
    BY <1>2 DEF IInv, TypeOK, Route, LoopUnchanged, Pcs
  <2>2. InHand'
    BY <1>2 DEF IInv, TypeOK, InHand, Route, LoopUnchanged, LastTrace
  <2>3. QED
    BY <2>1, <2>2 DEF IInv
<1>3. CASE route \in {"chat", "clarify"} /\ Answer(r, route, "allow", "completed")
  <2>1. route \in Interactions /\ "allow" \in Decisions /\ pc[r] = "route"
    BY <1>3 DEF Interactions, Decisions, Route
  <2>2. QED
    BY <1>3, <2>1, AnswerKeeps DEF Route
<1>4. CASE route = "safe_refusal" /\ Answer(r, route, "deny", "blocked")
  <2>1. route \in Interactions /\ "deny" \in Decisions /\ pc[r] = "route"
    BY <1>4 DEF Interactions, Decisions, Route
  <2>2. QED
    BY <1>4, <2>1, AnswerKeeps DEF Route
<1>5. QED
  BY <1>1, <1>2, <1>3, <1>4

LEMMA GenerateKeeps ==
  ASSUME IInv, NEW r \in Runs, GenerateRemote(r) \/ GenerateDeterministic(r)
  PROVE  IInv'
<1>1. PICK action \in Calls \cup {Final} : Act(r, action)
  <2>1. DeterministicActions(r) \subseteq Calls \cup {Final}
    BY CallsAssumption DEF DeterministicActions
  <2>2. QED
    BY <2>1 DEF GenerateRemote, GenerateDeterministic
<1>2. /\ pc' \in [Runs -> Pcs]
      /\ chosen' \in [Runs -> Calls \cup {NoCall}]
      /\ InHand'
  BY <1>1, ActKeeps DEF GenerateRemote, GenerateDeterministic
<1>3. RemoteDrives \in BOOLEAN
  BY ConfigAssumption DEF RemoteDrives
<1>4. used' \in [Runs -> BOOLEAN]
  <2>1. used \in [Runs -> BOOLEAN]
    BY DEF IInv, TypeOK
  <2>2. PICK fell \in BOOLEAN : used' = [used EXCEPT ![r] = used[r] \/ fell]
    BY <1>3 DEF GenerateRemote, GenerateDeterministic, Record
  <2>3. (used[r] \/ fell) \in BOOLEAN
    BY <2>1, <2>2
  <2>4. QED
    BY <2>1, <2>2, <2>3
<1>7. generators' \in [Runs -> SUBSET {"remote", "deterministic"}]
  <2>1. generators \in [Runs -> SUBSET {"remote", "deterministic"}]
    BY DEF IInv, TypeOK
  <2>2. PICK g \in {"remote", "deterministic"} :
          generators' = [generators EXCEPT ![r] = @ \cup {g}]
    BY DEF GenerateRemote, GenerateDeterministic
  <2>3. QED
    BY <2>1, <2>2
<1>5. TypeOK'
  BY <1>2, <1>4, <1>7 DEF IInv, TypeOK, GenerateRemote, GenerateDeterministic
<1>6. QED
  BY <1>2, <1>5 DEF IInv

LEMMA GateKeeps == ASSUME IInv, NEW r \in Runs, Gate(r) PROVE IInv'
<1>1. /\ nextStep \in Nat /\ chosen[r] \in Calls /\ nextStep' = nextStep + 1
      /\ pending \in [Runs -> Trace(Calls) \cup {NoTrace}]
      /\ pc \in [Runs -> Pcs] /\ late \in [Runs -> Nat]
  BY DEF IInv, TypeOK, InHand, Gate, NextStepID
<1>2. PICK status \in {"denied", "ok"} :
        /\ pending' = [pending EXCEPT ![r] =
             [id |-> nextStep', call |-> chosen[r], status |-> status]]
        /\ pc' = [pc EXCEPT ![r] = IF status = "denied" THEN "audit" ELSE "running"]
  BY DEF Gate
<1>3. [id |-> nextStep', call |-> chosen[r], status |-> status] \in Trace(Calls)
  BY <1>1 DEF Trace, Statuses
<1>4. pending' \in [Runs -> Trace(Calls) \cup {NoTrace}] /\ pending'[r] # NoTrace
  BY <1>1, <1>2, <1>3, NoneAssumption
<1>5. late' \in [Runs -> Nat]
  <2>1. \/ late' = late
        \/ late' = [late EXCEPT ![r] = IF expired[r] THEN late[r] + 1 ELSE late[r]]
    BY <1>1 DEF Gate
  <2>2. QED
    BY <1>1, <2>1
<1>6. pc' \in [Runs -> Pcs]
  BY <1>1, <1>2 DEF Pcs
<1>7. TypeOK'
  BY <1>1, <1>4, <1>5, <1>6 DEF IInv, TypeOK, Gate
<1>8. InHand'
  <2>1. SUFFICES ASSUME NEW q \in Runs PROVE InHand!(q)'
    BY DEF InHand
  <2>2. CASE q = r
    <3>1. pc'[q] = IF status = "denied" THEN "audit" ELSE "running"
      BY <1>1, <1>2, <2>2
    <3>2. pending'[q].status = status
      BY <1>1, <1>2, <2>2
    <3>3. chosen'[q] \in Calls
      BY <1>1, <2>2 DEF Gate
    <3>4. QED
      BY <1>4, <2>2, <3>1, <3>2, <3>3
  <2>3. CASE q # r
    BY <2>3, <1>1, <1>2 DEF Gate, IInv, InHand, LastTrace
  <2>4. QED
    BY <2>2, <2>3
<1>9. QED
  BY <1>7, <1>8 DEF IInv

LEMMA ToolReturnsKeeps == ASSUME IInv, NEW r \in Runs, ToolReturns(r) PROVE IInv'
<1>1. /\ pending[r] \in Trace(Calls)
      /\ pc \in [Runs -> Pcs] /\ traces \in [Runs -> Seq(Trace(Calls))]
  BY DEF IInv, TypeOK, InHand, ToolReturns
<1>2. PICK status \in {"ok", "error"} :
        traces' = [traces EXCEPT ![r] = Append(@, [pending[r] EXCEPT !.status = status])]
  BY DEF ToolReturns
<1>3. [pending[r] EXCEPT !.status = status] \in Trace(Calls)
  BY <1>1 DEF Trace, Statuses
<1>4. /\ traces' \in [Runs -> Seq(Trace(Calls))]
      /\ traces'[r] = Append(traces[r], [pending[r] EXCEPT !.status = status])
  BY <1>1, <1>2, <1>3
<1>5. TypeOK'
  BY <1>4 DEF IInv, TypeOK, ToolReturns, Pcs
<1>6. InHand'
  <2>1. SUFFICES ASSUME NEW q \in Runs PROVE InHand!(q)'
    BY DEF InHand
  <2>2. CASE q = r
    <3>1. /\ traces'[q] # <<>>
          /\ LastTrace(q)' = [pending[r] EXCEPT !.status = status]
      BY <1>1, <1>3, <1>4, <2>2 DEF LastTrace
    <3>2. LastTrace(q)'.id = pending[r].id /\ LastTrace(q)'.status # "denied"
      BY <1>1, <3>1 DEF Trace
    <3>3. QED
      BY <1>1, <2>2, <3>1, <3>2 DEF ToolReturns, IInv, InHand
  <2>3. CASE q # r
    BY <2>3, <1>1, <1>2 DEF ToolReturns, IInv, InHand, LastTrace
  <2>4. QED
    BY <2>2, <2>3
<1>7. QED
  BY <1>5, <1>6 DEF IInv

\* What the auditor is given is the trace of the call in hand.
LEMMA AuditedIsPending ==
  ASSUME IInv, NEW r \in Runs, pc[r] = "audit"
  PROVE  /\ AuditedTrace(r) \in Trace(Calls)
         /\ AuditedTrace(r).id = pending[r].id
         /\ AuditedTrace(r).status = "denied" <=> pending[r].status = "denied"
<1>1. pending[r] \in Trace(Calls) /\ traces[r] \in Seq(Trace(Calls))
  BY DEF IInv, TypeOK, InHand
<1>2. CASE pending[r].status = "denied"
  BY <1>1, <1>2 DEF AuditedTrace
<1>3. CASE pending[r].status # "denied"
  <2>1. traces[r] # <<>> /\ LastTrace(r).id = pending[r].id /\ LastTrace(r).status # "denied"
    BY <1>3 DEF IInv, InHand
  <2>2. LastTrace(r) \in Trace(Calls)
    BY <1>1, <2>1 DEF LastTrace
  <2>3. QED
    BY <1>3, <2>1, <2>2 DEF AuditedTrace
<1>4. QED
  BY <1>2, <1>3

LEMMA AuditKeeps == ASSUME IInv, NEW r \in Runs, Audit(r) PROVE IInv'
<1> DEFINE t == AuditedTrace(r)
           entry(reply) == [call        |-> chosen[r],
                            policy      |-> IF t.status = "denied" THEN "deny" ELSE "allow",
                            observation |-> t.status,
                            report      |-> StepReport(t, Len(steps[r]) + 1, reply)]
<1>1. /\ steps \in [Runs -> Seq(Step)] /\ pc \in [Runs -> Pcs]
      /\ chosen \in [Runs -> Calls \cup {NoCall}]
      /\ pending \in [Runs -> Trace(Calls) \cup {NoTrace}]
      /\ chosen[r] \in Calls /\ t \in Trace(Calls)
  BY AuditedIsPending DEF IInv, TypeOK, InHand, Audit
<1>2. PICK reply \in RepliesTo(r) : steps' = [steps EXCEPT ![r] = Append(@, entry(reply))]
  BY DEF Audit
<1>3. reply \in Replies
  BY CallsAssumption DEF RepliesTo, Replies
<1>4. Len(steps[r]) + 1 \in Nat \ {0}
  BY <1>1
<1>5. StepReport(t, Len(steps[r]) + 1, reply) \in Report
  BY <1>1, <1>3, <1>4, ReportType
<1>6. entry(reply) \in Step
  BY <1>1, <1>5 DEF Step, Trace
<1>7. steps' \in [Runs -> Seq(Step)]
  <2> HIDE DEF entry
  <2>1. QED
    BY <1>1, <1>2, <1>6
<1>8. TypeOK'
  BY <1>1, <1>7 DEF IInv, TypeOK, Audit, Pcs
<1>9. InHand'
  BY <1>1 DEF IInv, InHand, Audit, LastTrace
<1>10. QED
  BY <1>8, <1>9 DEF IInv

LEMMA FinishKeeps ==
  ASSUME IInv, NEW r \in Runs, StepsExhausted(r) \/ Publish(r) \/ Respond(r) \/ Expire(r)
  PROVE  IInv'
<1>1. CASE StepsExhausted(r)
  <2>1. TypeOK'
    BY <1>1 DEF IInv, TypeOK, StepsExhausted, Pcs
  <2>2. InHand'
    BY <1>1 DEF IInv, TypeOK, InHand, StepsExhausted, LastTrace
  <2>3. QED
    BY <2>1, <2>2 DEF IInv
<1>2. CASE Publish(r)
  <2>1. /\ store \in Seq(Trace(ToolCall(Names))) /\ traces[r] \in Seq(Trace(Calls))
        /\ published \in [Runs -> Nat] /\ published[r] + 1 \in 1..Len(traces[r])
    BY <1>2 DEF IInv, TypeOK, Publish
  <2>2. NextPublished(r) \in Trace(ToolCall(Names))
    <3>1. NextPublished(r) \in Trace(Calls)
      BY <2>1 DEF NextPublished
    <3>2. QED
      BY <3>1, CallsAssumption DEF Trace
  <2>7. store' \in Seq(Trace(ToolCall(Names))) /\ published' \in [Runs -> Nat]
    BY <1>2, <2>1, <2>2 DEF Publish
  <2>3. TypeOK'
    BY <1>2, <2>7 DEF IInv, TypeOK, Publish
  <2>4. InHand'
    BY <1>2 DEF IInv, TypeOK, InHand, Publish, LastTrace
  <2>5. QED
    BY <2>3, <2>4 DEF IInv
<1>3. CASE Respond(r)
  <2>1. used[r] \in BOOLEAN /\ response \in [Runs -> Response \cup {NoResponse}]
    BY DEF IInv, TypeOK
  <2>2. (RemoteConfigured /\ ~used[r]) \in BOOLEAN /\ LoopDecision(r) \in Decisions
    BY <2>1, ConfigAssumption DEF LoopDecision, Decisions
  <2>3. response' \in [Runs -> Response \cup {NoResponse}]
    BY <1>3, <2>1, <2>2 DEF Respond, Response, Interactions
  <2>4. TypeOK'
    BY <1>3, <2>3 DEF IInv, TypeOK, Respond, Pcs
  <2>5. InHand'
    BY <1>3 DEF IInv, TypeOK, InHand, Respond, LastTrace
  <2>6. QED
    BY <2>4, <2>5 DEF IInv
<1>4. CASE Expire(r)
  <2>1. TypeOK'
    BY <1>4 DEF IInv, TypeOK, Expire
  <2>2. InHand'
    BY <1>4 DEF IInv, InHand, Expire, LastTrace
  <2>3. QED
    BY <2>1, <2>2 DEF IInv
<1>5. QED
  BY <1>1, <1>2, <1>3, <1>4

LEMMA StutterKeeps == ASSUME IInv, UNCHANGED vars PROVE IInv'
  BY DEF IInv, TypeOK, InHand, LastTrace, vars

LEMMA NextIInv == IInv /\ [Next]_vars => IInv'
<1>1. SUFFICES ASSUME IInv, [Next]_vars PROVE IInv'
  OBVIOUS
<1>2. CASE \E r \in Runs : Request(r) \/ Expire(r)
  <2>1. PICK r \in Runs : Request(r) \/ Expire(r)
    BY <1>2
  <2>2. CASE Guard(r)
    BY <1>1, <2>2, GuardKeeps
  <2>3. CASE Route(r)
    BY <1>1, <2>3, RouteKeeps
  <2>4. CASE GenerateRemote(r) \/ GenerateDeterministic(r)
    BY <1>1, <2>4, GenerateKeeps
  <2>5. CASE Gate(r)
    BY <1>1, <2>5, GateKeeps
  <2>6. CASE ToolReturns(r)
    BY <1>1, <2>6, ToolReturnsKeeps
  <2>7. CASE Audit(r)
    BY <1>1, <2>7, AuditKeeps
  <2>8. CASE StepsExhausted(r) \/ Publish(r) \/ Respond(r) \/ Expire(r)
    BY <1>1, <2>8, FinishKeeps
  <2>9. QED
    BY <2>1, <2>2, <2>3, <2>4, <2>5, <2>6, <2>7, <2>8 DEF Request
<1>3. CASE UNCHANGED vars
  BY <1>1, <1>3, StutterKeeps
<1>4. QED
  BY <1>1, <1>2, <1>3 DEF Next, Rest

LEMMA SpecIInv == Spec => []IInv
  BY InitIInv, NextIInv, PTL DEF Spec

-----------------------------------------------------------------------------
\* Every variable keeps its type: in particular every report has a step id, an
\* index and a decision, and every answer one of the four interactions.
THEOREM TypeCorrect == Spec => []TypeOK
<1>1. IInv => TypeOK
  BY DEF IInv
<1>2. QED
  BY <1>1, SpecIInv, PTL

-----------------------------------------------------------------------------
\* Actions of one request that neither begin, end nor publish an execution.
Quiet(r) == \/ Guard(r) \/ Route(r) \/ GenerateRemote(r) \/ GenerateDeterministic(r)
            \/ StepsExhausted(r) \/ Respond(r) \/ Expire(r)

LEMMA QuietFrame ==
  ASSUME IInv, NEW r \in Runs, Quiet(r)
  PROVE  /\ UNCHANGED <<nextStep, store, traces, pending, steps, published, late>>
         /\ pc[r] \in {"running", "audit"} => pc'[r] = pc[r]
         /\ pc'[r] \notin {"running", "audit"} \/ pc'[r] = pc[r]
         /\ \A q \in Runs \ {r} : pc'[q] = pc[q]
<1>1. pc \in [Runs -> Pcs]
  BY DEF IInv, TypeOK
<1>2. CASE Guard(r)
  BY <1>1, <1>2 DEF Guard, Answer, LoopUnchanged
<1>3. CASE Route(r)
  BY <1>1, <1>3 DEF Route, Answer, LoopUnchanged
<1>4. CASE GenerateRemote(r)
  BY <1>1, <1>4 DEF GenerateRemote, Act
<1>5. CASE GenerateDeterministic(r)
  BY <1>1, <1>5 DEF GenerateDeterministic, Act
<1>6. CASE StepsExhausted(r) \/ Respond(r) \/ Expire(r)
  BY <1>1, <1>6 DEF StepsExhausted, Respond, Expire
<1>7. QED
  BY <1>2, <1>3, <1>4, <1>5, <1>6 DEF Quiet

LEMMA NextSplit ==
  ASSUME [Next]_vars
  PROVE  \/ UNCHANGED vars
         \/ \E r \in Runs : Quiet(r) \/ Gate(r) \/ ToolReturns(r) \/ Audit(r) \/ Publish(r)
  BY DEF Next, Rest, Request, Quiet

\* The executor of a request holds, and is about to hold, permitted calls only.
RunsPermitted ==
  \A r \in Runs :
    /\ \A k \in 1..Len(traces[r]) : MayRun(traces[r][k].call) /\ traces[r][k].status # "denied"
    /\ pc[r] = "running" => MayRun(pending[r].call)

LEMMA RunsPermittedStep ==
  ASSUME IInv, RunsPermitted, [Next]_vars
  PROVE  RunsPermitted'
<1>1. /\ pc \in [Runs -> Pcs] /\ pending \in [Runs -> Trace(Calls) \cup {NoTrace}]
      /\ traces \in [Runs -> Seq(Trace(Calls))]
  BY DEF IInv, TypeOK
<1>2. CASE UNCHANGED vars
  BY <1>2 DEF RunsPermitted, vars
<1>3. ASSUME NEW r \in Runs, Quiet(r) PROVE RunsPermitted'
  BY <1>3, QuietFrame DEF RunsPermitted
<1>4. ASSUME NEW r \in Runs, Gate(r) PROVE RunsPermitted'
  <2>1. chosen[r] \in Calls /\ UNCHANGED traces
    BY <1>4 DEF Gate, IInv, InHand
  <2>2. CASE Evaluate(chosen[r]) = "deny"
    BY <1>1, <1>4, <2>1, <2>2 DEF Gate, RunsPermitted
  <2>3. CASE Evaluate(chosen[r]) # "deny"
    <3>1. MayRun(chosen[r])
      BY <2>1, <2>3, EvaluateAllows
    <3>2. pending'[r].call = chosen[r]
      BY <1>1, <1>4, <2>3 DEF Gate
    <3>3. \A q \in Runs \ {r} : pc'[q] = pc[q] /\ pending'[q] = pending[q]
      BY <1>1, <1>4, <2>3 DEF Gate
    <3>4. QED
      BY <2>1, <3>1, <3>2, <3>3 DEF RunsPermitted
  <2>4. QED
    BY <2>2, <2>3
<1>5. ASSUME NEW r \in Runs, ToolReturns(r) PROVE RunsPermitted'
  <2>1. pending[r] \in Trace(Calls) /\ MayRun(pending[r].call)
    BY <1>5 DEF ToolReturns, IInv, TypeOK, InHand, RunsPermitted
  <2>2. PICK status \in {"ok", "error"} :
          traces' = [traces EXCEPT ![r] = Append(@, [pending[r] EXCEPT !.status = status])]
    BY <1>5 DEF ToolReturns
  <2> DEFINE t == [pending[r] EXCEPT !.status = status]
  <2>3. MayRun(t.call) /\ t.status # "denied"
    BY <2>1 DEF Trace
  <2> HIDE DEF t
  <2>4. traces'[r] = Append(traces[r], t)
    BY <1>1, <2>2 DEF t
  <2>5. \A k \in 1..Len(traces'[r]) : MayRun(traces'[r][k].call) /\ traces'[r][k].status # "denied"
    BY <1>1, <2>3, <2>4 DEF RunsPermitted
  <2>6. \A q \in Runs \ {r} : traces'[q] = traces[q] /\ pc'[q] = pc[q]
    BY <1>1, <1>5, <2>2 DEF ToolReturns
  <2>7. pc'[r] = "audit" /\ UNCHANGED pending
    BY <1>1, <1>5 DEF ToolReturns
  <2>8. QED
    BY <2>5, <2>6, <2>7 DEF RunsPermitted
<1>6. ASSUME NEW r \in Runs, Audit(r) PROVE RunsPermitted'
  BY <1>1, <1>6 DEF Audit, RunsPermitted
<1>7. ASSUME NEW r \in Runs, Publish(r) PROVE RunsPermitted'
  BY <1>7 DEF Publish, RunsPermitted
<1>8. QED
  BY <1>2, <1>3, <1>4, <1>5, <1>6, <1>7, NextSplit

\* What a request adds to the store is one of its executions.
LEMMA StoreGrows ==
  ASSUME IInv, [Next]_vars
  PROVE  \/ UNCHANGED store
         \/ \E r \in Runs : /\ Publish(r) /\ published[r] + 1 \in 1..Len(traces[r])
                            /\ store' = Append(store, NextPublished(r))
<1>1. ASSUME NEW r \in Runs, Publish(r)
      PROVE  /\ published[r] + 1 \in 1..Len(traces[r])
             /\ store' = Append(store, NextPublished(r))
  BY <1>1 DEF Publish, IInv, TypeOK
<1>2. QED
  BY <1>1, NextSplit, QuietFrame DEF vars, Gate, ToolReturns, Audit

LEMMA PermittedStep ==
  ASSUME IInv, RunsPermitted, OnlyPermittedCallsRun, [Next]_vars
  PROVE  RunsPermitted' /\ OnlyPermittedCallsRun'
<1>1. RunsPermitted' /\ store \in Seq(Trace(ToolCall(Names)))
  BY RunsPermittedStep DEF IInv, TypeOK
<1>2. CASE UNCHANGED store
  BY <1>1, <1>2 DEF RunsPermitted, OnlyPermittedCallsRun
<1>3. ASSUME NEW r \in Runs, published[r] + 1 \in 1..Len(traces[r]),
             store' = Append(store, NextPublished(r))
      PROVE  OnlyPermittedCallsRun'
  <2>1. MayRun(NextPublished(r).call)
    BY <1>3 DEF RunsPermitted, NextPublished
  <2>2. \A k \in 1..Len(store') : MayRun(store'[k].call)
    BY <1>1, <1>3, <2>1 DEF OnlyPermittedCallsRun
  <2>3. QED
    BY <1>1, <2>2 DEF RunsPermitted, OnlyPermittedCallsRun
<1>4. QED
  BY <1>1, <1>2, <1>3, StoreGrows

\* No request, whichever generator drives it, executes a call that the registry
\* or the policy rules out, and the shared trace store never holds one
\* (Engine.executeStep asks CheckToolPolicy before ExecuteTool).
THEOREM OnlyPermittedCallsAreRun == Spec => []OnlyPermittedCallsRun
<1>1. Init => RunsPermitted /\ OnlyPermittedCallsRun
  BY DEF Init, RunsPermitted, OnlyPermittedCallsRun
<1>2. IInv /\ RunsPermitted /\ OnlyPermittedCallsRun /\ [Next]_vars =>
        RunsPermitted' /\ OnlyPermittedCallsRun'
  BY PermittedStep
<1>3. QED
  BY <1>1, <1>2, SpecIInv, PTL DEF Spec

-----------------------------------------------------------------------------
\* A request that began an execution after its deadline has that call in hand
\* or has a step; either way its next generation can only end the loop.
LateOnce ==
  \A r \in Runs :
    /\ late[r] <= 1
    /\ late[r] = 1 =>
         /\ expired[r]
         /\ pc[r] \notin {"idle", "route", "gate"}
         /\ pc[r] \in {"running", "audit"} \/ steps[r] # <<>>

LEMMA LateOnceStep ==
  ASSUME IInv, LateOnce, [Next]_vars
  PROVE  LateOnce'
<1>1. /\ pc \in [Runs -> Pcs] /\ expired \in [Runs -> BOOLEAN]
      /\ late \in [Runs -> Nat] /\ steps \in [Runs -> Seq(Step)]
  BY DEF IInv, TypeOK
<1>2. CASE UNCHANGED vars
  BY <1>2 DEF LateOnce, vars
<1>3. ASSUME NEW r \in Runs, GenerateDeterministic(r) PROVE LateOnce'
  <2>1. PICK action \in DeterministicActions(r) : Act(r, action)
    BY <1>3 DEF GenerateDeterministic
  <2>2. late[r] = 1 => action = Final
    BY <1>3 DEF LateOnce, DeterministicActions, GenerateDeterministic
  <2>3. late[r] = 1 => pc' = [pc EXCEPT ![r] = "publish"]
    BY <2>1, <2>2 DEF Act
  <2>4. pc' = [pc EXCEPT ![r] = "publish"] \/ pc' = [pc EXCEPT ![r] = "gate"]
    BY <2>1 DEF Act
  <2>5. UNCHANGED <<late, expired, steps>> /\ pc[r] = "generate"
    BY <1>3 DEF GenerateDeterministic
  <2>6. QED
    BY <1>1, <2>3, <2>4, <2>5 DEF LateOnce
<1>4. ASSUME NEW r \in Runs, GenerateRemote(r) PROVE LateOnce'
  <2>1. late[r] # 1 /\ UNCHANGED <<late, expired, steps>>
    BY <1>4 DEF GenerateRemote, LateOnce
  <2>2. \A q \in Runs \ {r} : pc'[q] = pc[q]
    BY <1>1, <1>4 DEF GenerateRemote, Act
  <2>3. QED
    BY <2>1, <2>2 DEF LateOnce
<1>5. ASSUME NEW r \in Runs, Guard(r) \/ Route(r) PROVE LateOnce'
  <2>1. late[r] # 1 /\ UNCHANGED <<late, expired, steps>>
    BY <1>5 DEF Guard, Route, LateOnce, LoopUnchanged
  <2>2. \A q \in Runs \ {r} : pc'[q] = pc[q]
    BY <1>1, <1>5 DEF Guard, Route, Answer
  <2>3. QED
    BY <2>1, <2>2 DEF LateOnce
<1>6. ASSUME NEW r \in Runs, Gate(r) PROVE LateOnce'
  <2>1. late[r] = 0
    <3>1. late[r] \in Nat /\ late[r] <= 1 /\ late[r] # 1
      BY <1>1, <1>6 DEF Gate, LateOnce
    <3>2. QED
      BY <3>1
  <2>2. pc'[r] \in {"running", "audit"} /\ UNCHANGED <<expired, steps>>
    BY <1>1, <1>6 DEF Gate
  <2>3. late'[r] <= 1 /\ (late'[r] = 1 => expired[r])
    BY <1>1, <1>6, <2>1 DEF Gate
  <2>4. \A q \in Runs \ {r} : pc'[q] = pc[q] /\ late'[q] = late[q]
    BY <1>1, <1>6 DEF Gate
  <2>5. QED
    BY <2>2, <2>3, <2>4 DEF LateOnce
<1>7. ASSUME NEW r \in Runs, Audit(r) PROVE LateOnce'
  <2>1. steps'[r] # <<>> /\ pc'[r] = "generate" /\ UNCHANGED <<late, expired>>
    BY <1>1, <1>7 DEF Audit
  <2>2. \A q \in Runs \ {r} : pc'[q] = pc[q] /\ steps'[q] = steps[q]
    BY <1>1, <1>7 DEF Audit
  <2>3. QED
    BY <2>1, <2>2 DEF LateOnce
<1>8. ASSUME NEW r \in Runs, StepsExhausted(r) \/ Respond(r) \/ Expire(r)
                              \/ ToolReturns(r) \/ Publish(r)
      PROVE  LateOnce'
  BY <1>1, <1>8 DEF StepsExhausted, Respond, Expire, ToolReturns, Publish, LateOnce
<1>9. QED
  BY <1>2, <1>3, <1>4, <1>5, <1>6, <1>7, <1>8, NextSplit DEF Quiet

\* However long the limit on the steps, a request executes at most one more call
\* once its deadline has passed or its client has gone.
THEOREM DeadlineStopsToolsAlways == Spec => []DeadlineStopsTools
<1>1. Init => LateOnce
  BY DEF Init, LateOnce
<1>2. IInv /\ LateOnce /\ [Next]_vars => LateOnce'
  BY LateOnceStep
<1>3. LateOnce => DeadlineStopsTools
  BY DEF LateOnce, DeadlineStopsTools
<1>4. QED
  BY <1>1, <1>2, <1>3, SpecIInv, PTL DEF Spec

-----------------------------------------------------------------------------
\* A refused step is audited as a denial, and an answered loop was answered with
\* the worst of its steps.
VerdictsKept ==
  \A r \in Runs :
    /\ \A i \in 1..Len(steps[r]) : steps[r][i].policy = "deny" => steps[r][i].report.decision = "deny"
    /\ pc[r] = "done" /\ response[r].type = "agent_run" => response[r].decision = LoopDecision(r)

LEMMA VerdictsKeptStep ==
  ASSUME IInv, VerdictsKept, [Next]_vars
  PROVE  VerdictsKept'
<1>1. /\ pc \in [Runs -> Pcs] /\ steps \in [Runs -> Seq(Step)]
      /\ response \in [Runs -> Response \cup {NoResponse}]
  BY DEF IInv, TypeOK
<1>2. ASSUME UNCHANGED steps,
             \A r \in Runs : \/ pc'[r] # "done"
                             \/ pc'[r] = pc[r] /\ response'[r] = response[r]
                             \/ response'[r].type # "agent_run"
                             \/ response'[r].decision = LoopDecision(r)
      PROVE  VerdictsKept'
  BY <1>2 DEF VerdictsKept, LoopDecision, Reported
<1>3. CASE UNCHANGED vars
  BY <1>2, <1>3 DEF vars
<1>4. ASSUME NEW r \in Runs, NEW type \in {"chat", "clarify", "safe_refusal"},
             NEW decision, NEW status, Answer(r, type, decision, status), UNCHANGED steps
      PROVE  VerdictsKept'
  <2>1. response'[r].type = type
    BY <1>1, <1>4 DEF Answer
  <2>2. \A q \in Runs \ {r} : pc'[q] = pc[q] /\ response'[q] = response[q]
    BY <1>1, <1>4 DEF Answer
  <2>3. QED
    BY <1>2, <1>4, <2>1, <2>2
<1>5. ASSUME NEW r \in Runs, Guard(r) \/ Route(r) PROVE VerdictsKept'
  <2>1. CASE pc' = [pc EXCEPT ![r] = "route"] /\ UNCHANGED response
    BY <1>1, <1>2, <1>5, <2>1 DEF Guard, Route, LoopUnchanged
  <2>2. CASE pc' = [pc EXCEPT ![r] = "generate"] /\ UNCHANGED response
    BY <1>1, <1>2, <1>5, <2>2 DEF Guard, Route, LoopUnchanged
  <2>3. UNCHANGED steps
    BY <1>5 DEF Guard, Route, LoopUnchanged
  <2>4. CASE \E type \in {"chat", "clarify", "safe_refusal"} :
               Answer(r, type, "deny", "blocked") \/ Answer(r, type, "allow", "completed")
    BY <1>4, <2>3, <2>4
  <2>5. QED
    BY <1>5, <2>1, <2>2, <2>4 DEF Guard, Route
<1>6. ASSUME NEW r \in Runs, GenerateRemote(r) \/ GenerateDeterministic(r) PROVE VerdictsKept'
  BY <1>1, <1>2, <1>6 DEF GenerateRemote, GenerateDeterministic, Act
<1>7. ASSUME NEW r \in Runs, StepsExhausted(r) \/ Expire(r) \/ Gate(r) \/ ToolReturns(r) \/ Publish(r)
      PROVE  VerdictsKept'
  BY <1>1, <1>2, <1>7 DEF StepsExhausted, Expire, Gate, ToolReturns, Publish
<1>8. ASSUME NEW r \in Runs, Respond(r) PROVE VerdictsKept'
  <2>1. response'[r].decision = LoopDecision(r) /\ UNCHANGED steps
    BY <1>1, <1>8 DEF Respond
  <2>2. \A q \in Runs \ {r} : pc'[q] = pc[q] /\ response'[q] = response[q]
    BY <1>1, <1>8 DEF Respond
  <2>3. QED
    BY <1>2, <2>1, <2>2
<1>9. ASSUME NEW r \in Runs, Audit(r) PROVE VerdictsKept'
  <2> DEFINE t == AuditedTrace(r)
             e(reply) == [call        |-> chosen[r],
                          policy      |-> IF t.status = "denied" THEN "deny" ELSE "allow",
                          observation |-> t.status,
                          report      |-> StepReport(t, Len(steps[r]) + 1, reply)]
  <2>1. PICK reply \in RepliesTo(r) : steps' = [steps EXCEPT ![r] = Append(@, e(reply))]
    BY <1>9 DEF Audit
  <2>2. e(reply).policy = "deny" => e(reply).report.decision = "deny"
    BY DEF StepReport
  <2> HIDE DEF e
  <2>3. \A i \in 1..Len(steps'[r]) : steps'[r][i].policy = "deny" => steps'[r][i].report.decision = "deny"
    BY <1>1, <2>1, <2>2 DEF VerdictsKept
  <2>4. \A q \in Runs \ {r} : steps'[q] = steps[q] /\ pc'[q] = pc[q]
    BY <1>1, <1>9, <2>1 DEF Audit
  <2>5. pc'[r] = "generate" /\ UNCHANGED response
    BY <1>1, <1>9 DEF Audit
  <2>6. \A q \in Runs \ {r} : LoopDecision(q)' = LoopDecision(q)
    BY <2>4 DEF LoopDecision, Reported
  <2>7. QED
    BY <2>3, <2>4, <2>5, <2>6 DEF VerdictsKept
<1>10. QED
  BY <1>3, <1>5, <1>6, <1>7, <1>8, <1>9, NextSplit DEF Quiet

\* The answer of a request that ran the loop is a denial whenever the audit
\* denied one of its steps or the policy refused one of its calls, and it is
\* never an unreserved "allow" (aggregateAuditFromSteps, runAgentLoop).
THEOREM VerdictCoversStepsAlways == Spec => []VerdictCoversSteps
<1>1. Init => VerdictsKept
  BY DEF Init, VerdictsKept
<1>2. IInv /\ VerdictsKept /\ [Next]_vars => VerdictsKept'
  BY VerdictsKeptStep
<1>3. VerdictsKept => VerdictCoversSteps
  BY DEF VerdictsKept, VerdictCoversSteps, LoopDecision, Aggregate, Reported
<1>4. QED
  BY <1>1, <1>2, <1>3, SpecIInv, PTL DEF Spec

-----------------------------------------------------------------------------
\* Every id given out is at most the number last given out.
IdsBounded ==
  /\ \A r \in Runs : \A i \in 1..Len(steps[r]) : steps[r][i].report.id <= nextStep
  /\ \A r \in Runs : pending[r] # NoTrace => pending[r].id <= nextStep

IdsInv == IdsBounded /\ StepIdsUnique

LEMMA IdsStep ==
  ASSUME IInv, IdsInv, [Next]_vars
  PROVE  IdsInv'
<1>1. /\ nextStep \in Nat /\ steps \in [Runs -> Seq(Step)]
      /\ pending \in [Runs -> Trace(Calls) \cup {NoTrace}]
  BY DEF IInv, TypeOK
<1>2. ASSUME UNCHANGED <<nextStep, steps, pending>> PROVE IdsInv'
  <2>1. \A q \in Runs : ReportIds(q)' = ReportIds(q) /\ PendingIds(q)' = PendingIds(q)
    BY <1>2 DEF ReportIds, PendingIds
  <2>2. StepIdsUnique'
    BY <1>2, <2>1 DEF IdsInv, StepIdsUnique
  <2>3. IdsBounded'
    BY <1>2 DEF IdsInv, IdsBounded
  <2>4. QED
    BY <2>2, <2>3 DEF IdsInv
<1>3. CASE UNCHANGED vars
  BY <1>2, <1>3 DEF vars
<1>4. ASSUME NEW r \in Runs, Quiet(r) \/ ToolReturns(r) \/ Publish(r) PROVE IdsInv'
  BY <1>2, <1>4, QuietFrame DEF ToolReturns, Publish
<1>5. ASSUME NEW r \in Runs, Gate(r) PROVE IdsInv'
  <2>1. nextStep' = nextStep + 1 /\ UNCHANGED steps
    BY <1>5 DEF Gate, NextStepID
  <2>2. \A q \in Runs \ {r} : pending'[q] = pending[q]
    BY <1>1, <1>5 DEF Gate
  <2>3. pending'[r].id = nextStep + 1
    BY <1>1, <1>5, <2>1 DEF Gate
  <2>4. \A q \in Runs : \A i \in 1..Len(steps[q]) :
          steps[q][i].report.id \in Nat /\ steps[q][i].report.id <= nextStep
    <3>1. \A q \in Runs : \A i \in 1..Len(steps[q]) : steps[q][i] \in Step
      BY <1>1
    <3>2. QED
      BY <3>1 DEF IdsInv, IdsBounded, Step, Report
  <2>5. \A q \in Runs : pending[q] # NoTrace => pending[q].id \in Nat /\ pending[q].id <= nextStep
    BY <1>1 DEF IdsInv, IdsBounded, Trace
  <2>6. IdsBounded'
    BY <1>1, <2>1, <2>2, <2>3, <2>4, <2>5 DEF IdsBounded
  <2>7. \A q \in Runs : nextStep + 1 \notin ReportIds(q) \cup PendingIds(q)
    BY <1>1, <2>4, <2>5 DEF ReportIds, PendingIds
  <2>8. \A q \in Runs : ReportIds(q)' = ReportIds(q)
    BY <2>1 DEF ReportIds
  <2>9. /\ \A q \in Runs \ {r} : PendingIds(q)' = PendingIds(q)
        /\ PendingIds(r)' \subseteq {nextStep + 1}
    BY <2>2, <2>3 DEF PendingIds
  <2>10. StepIdsUnique'
    BY <2>1, <2>7, <2>8, <2>9 DEF IdsInv, StepIdsUnique
  <2>11. QED
    BY <2>6, <2>10 DEF IdsInv
<1>6. ASSUME NEW r \in Runs, Audit(r) PROVE IdsInv'
  <2>1. pending[r] # NoTrace /\ AuditedTrace(r).id = pending[r].id
    BY <1>6, AuditedIsPending DEF Audit, IInv, InHand
  <2>2. \E e : /\ steps' = [steps EXCEPT ![r] = Append(@, e)]
               /\ e.report.id = pending[r].id
    <3> DEFINE t == AuditedTrace(r)
               entry(reply) == [call        |-> chosen[r],
                                policy      |-> IF t.status = "denied" THEN "deny" ELSE "allow",
                                observation |-> t.status,
                                report      |-> StepReport(t, Len(steps[r]) + 1, reply)]
    <3>1. PICK reply \in RepliesTo(r) : steps' = [steps EXCEPT ![r] = Append(@, entry(reply))]
      BY <1>6 DEF Audit
    <3>2. entry(reply).report.id = pending[r].id
      BY <2>1 DEF StepReport
    <3> HIDE DEF entry
    <3>3. WITNESS entry(reply)
    <3>4. QED
      BY <3>1, <3>2
  <2> PICK e : /\ steps' = [steps EXCEPT ![r] = Append(@, e)]
               /\ e.report.id = pending[r].id
    BY <2>2
  <2>3. /\ steps'[r] = Append(steps[r], e) /\ pending'[r] = NoTrace
        /\ \A q \in Runs \ {r} : steps'[q] = steps[q] /\ pending'[q] = pending[q]
        /\ UNCHANGED nextStep
    BY <1>1, <1>6, <2>2 DEF Audit
  <2>4. /\ Len(steps'[r]) = Len(steps[r]) + 1
        /\ \A i \in 1..Len(steps[r]) : steps'[r][i] = steps[r][i]
        /\ steps'[r][Len(steps[r]) + 1] = e
    BY <1>1, <2>3
  <2>5. pending[r].id <= nextStep /\ pending[r].id \notin ReportIds(r)
    BY <2>1 DEF IdsInv, IdsBounded, StepIdsUnique, PendingIds
  <2>6. IdsBounded'
    <3>1. \A i \in 1..Len(steps'[r]) : steps'[r][i].report.id <= nextStep
      BY <1>1, <2>2, <2>4, <2>5 DEF IdsInv, IdsBounded
    <3>2. QED
      BY <2>3, <3>1 DEF IdsInv, IdsBounded
  <2>7. ReportIds(r)' = ReportIds(r) \cup {pending[r].id} /\ PendingIds(r)' = {}
    BY <1>1, <2>2, <2>3, <2>4 DEF ReportIds, PendingIds
  <2>8. \A q \in Runs \ {r} : ReportIds(q)' = ReportIds(q) /\ PendingIds(q)' = PendingIds(q)
    BY <2>3 DEF ReportIds, PendingIds
  <2>9. PendingIds(r) = {pending[r].id}
    BY <2>1 DEF PendingIds
  <2>10. \A q \in Runs : \A i, j \in 1..Len(steps'[q]) :
           steps'[q][i].report.id = steps'[q][j].report.id => i = j
    <3>1. \A i, j \in 1..Len(steps'[r]) : steps'[r][i].report.id = steps'[r][j].report.id => i = j
      BY <1>1, <2>2, <2>4, <2>5 DEF IdsInv, StepIdsUnique, ReportIds
    <3>2. QED
      BY <2>3, <3>1 DEF IdsInv, StepIdsUnique
  <2>11. StepIdsUnique'
    BY <2>7, <2>8, <2>9, <2>10 DEF IdsInv, StepIdsUnique
  <2>12. QED
    BY <2>6, <2>11 DEF IdsInv
<1>7. QED
  BY <1>3, <1>4, <1>5, <1>6, NextSplit

\* No two calls of any requests ever share a step id, and no report is entered
\* twice under one (logtrace.NextStepID, executeStep's override of step_id).
THEOREM StepIdsUniqueAlways == Spec => []StepIdsUnique
<1>1. Init => IdsInv
  BY DEF Init, IdsInv, IdsBounded, StepIdsUnique, ReportIds, PendingIds
<1>2. IInv /\ IdsInv /\ [Next]_vars => IdsInv'
  BY IdsStep
<1>3. IdsInv => StepIdsUnique
  BY DEF IdsInv
<1>4. QED
  BY <1>1, <1>2, <1>3, SpecIInv, PTL DEF Spec

-----------------------------------------------------------------------------
\* Where a configured remote model can drive the loop, an action of the
\* deterministic planner marks the request's outcome; and an answer that claims
\* the remote model was given when no such action had been taken.
ClaimKept ==
  \A r \in Runs :
    /\ RemoteConfigured /\ "deterministic" \in generators[r] => used[r]
    /\ response[r] # NoResponse => pc[r] = "done"
    /\ response[r] # NoResponse /\ response[r].remoteUsed => generators[r] \subseteq {"remote"}

LEMMA ClaimKeptStep ==
  ASSUME RemoteConfigured => KeyPresent, IInv, ClaimKept, [Next]_vars
  PROVE  ClaimKept'
<1>1. /\ pc \in [Runs -> Pcs] /\ used \in [Runs -> BOOLEAN]
      /\ generators \in [Runs -> SUBSET {"remote", "deterministic"}]
      /\ response \in [Runs -> Response \cup {NoResponse}]
  BY DEF IInv, TypeOK
<1>2. CASE UNCHANGED vars
  BY <1>2 DEF ClaimKept, vars
<1>3. ASSUME NEW r \in Runs, NEW type, NEW decision, NEW status,
             pc[r] # "done", Answer(r, type, decision, status), UNCHANGED <<used, generators>>
      PROVE  ClaimKept'
  <2>1. pc'[r] = "done" /\ response'[r].remoteUsed = FALSE
    BY <1>1, <1>3 DEF Answer
  <2>2. \A q \in Runs \ {r} : pc'[q] = pc[q] /\ response'[q] = response[q]
    BY <1>1, <1>3 DEF Answer
  <2>3. QED
    BY <1>3, <2>1, <2>2 DEF ClaimKept
<1>4. ASSUME NEW r \in Runs, Guard(r) \/ Route(r) PROVE ClaimKept'
  <2>1. pc[r] # "done" /\ UNCHANGED <<used, generators>>
    BY <1>4 DEF Guard, Route, LoopUnchanged
  <2>2. CASE UNCHANGED response /\ \E next \in {"route", "generate"} : pc' = [pc EXCEPT ![r] = next]
    BY <1>1, <2>1, <2>2 DEF ClaimKept
  <2>3. CASE \E type, decision, status : Answer(r, type, decision, status)
    BY <1>3, <2>1, <2>3
  <2>4. QED
    BY <1>4, <2>2, <2>3 DEF Guard, Route
<1>5. ASSUME NEW r \in Runs, GenerateRemote(r) PROVE ClaimKept'
  <2>1. pc[r] = "generate" /\ UNCHANGED response
    BY <1>5 DEF GenerateRemote
  <2>2. \A q \in Runs : used'[q] = used[q]
    BY <1>1, <1>5 DEF GenerateRemote, Record
  <2>3. \A q \in Runs \ {r} : pc'[q] = pc[q] /\ generators'[q] = generators[q]
    BY <1>1, <1>5 DEF GenerateRemote, Act
  <2>4. generators'[r] = generators[r] \cup {"remote"}
    BY <1>1, <1>5 DEF GenerateRemote
  <2>5. response[r] = NoResponse
    BY <2>1 DEF ClaimKept
  <2>6. QED
    BY <2>1, <2>2, <2>3, <2>4, <2>5 DEF ClaimKept
<1>6. ASSUME NEW r \in Runs, GenerateDeterministic(r) PROVE ClaimKept'
  <2>1. pc[r] = "generate" /\ UNCHANGED response
    BY <1>6 DEF GenerateDeterministic
  <2>2. \A q \in Runs \ {r} : pc'[q] = pc[q] /\ generators'[q] = generators[q] /\ used'[q] = used[q]
    BY <1>1, <1>6 DEF GenerateDeterministic, Act, Record
  <2>3. RemoteConfigured => used'[r]
    BY <1>1, <1>6 DEF GenerateDeterministic, RemoteDrives, Record
  <2>4. response[r] = NoResponse
    BY <2>1 DEF ClaimKept
  <2>5. QED
    BY <2>1, <2>2, <2>3, <2>4 DEF ClaimKept
<1>7. ASSUME NEW r \in Runs, Respond(r) PROVE ClaimKept'
  <2>1. pc'[r] = "done" /\ UNCHANGED <<used, generators>>
    BY <1>1, <1>7 DEF Respond
  <2>2. \A q \in Runs \ {r} : pc'[q] = pc[q] /\ response'[q] = response[q]
    BY <1>1, <1>7 DEF Respond
  <2>3. response'[r].remoteUsed => RemoteConfigured /\ ~used[r]
    BY <1>1, <1>7 DEF Respond
  <2>4. response'[r].remoteUsed => generators[r] \subseteq {"remote"}
    BY <1>1, <2>3 DEF ClaimKept
  <2>5. QED
    BY <2>1, <2>2, <2>4 DEF ClaimKept
<1>8. ASSUME NEW r \in Runs, \/ StepsExhausted(r) \/ Expire(r) \/ Gate(r) \/ ToolReturns(r)
                              \/ Audit(r) \/ Publish(r)
      PROVE  ClaimKept'
  <2>1. UNCHANGED <<used, generators, response>>
    BY <1>8 DEF StepsExhausted, Expire, Gate, ToolReturns, Audit, Publish
  <2>2. \A q \in Runs : pc[q] = "done" => pc'[q] = "done"
    BY <1>1, <1>8 DEF StepsExhausted, Expire, Gate, ToolReturns, Audit, Publish
  <2>3. QED
    BY <2>1, <2>2 DEF ClaimKept
<1>9. QED
  BY <1>2, <1>4, <1>5, <1>6, <1>7, <1>8, NextSplit DEF Quiet

\* With an API key in place, remote_llm_used is never claimed for a request in
\* which the deterministic planner supplied an action (FallbackOutcome.record,
\* attachLLMMetadata).  Without one the claim is false: see AgentRunNoKey.cfg.
THEOREM RemoteClaimWithKey ==
  ASSUME RemoteConfigured => KeyPresent
  PROVE  Spec => []RemoteClaimHolds
<1>1. Init => ClaimKept
  BY DEF Init, ClaimKept
<1>2. IInv /\ ClaimKept /\ [Next]_vars => ClaimKept'
  BY ClaimKeptStep
<1>3. ClaimKept => RemoteClaimHolds
  BY DEF ClaimKept, RemoteClaimHolds
<1>4. QED
  BY <1>1, <1>2, <1>3, SpecIInv, PTL DEF Spec

-----------------------------------------------------------------------------
(* Evidence *)

\* The trace in hand is that of the call in hand; no execution has its id until
\* the tool returns, and then the last one has.
HandTraced ==
  \A r \in Runs :
    /\ pc[r] \in {"running", "audit"} => pending[r].call = chosen[r]
    /\ pc[r] = "running" \/ (pc[r] = "audit" /\ pending[r].status = "denied") =>
         \A k \in 1..Len(traces[r]) : traces[r][k].id # pending[r].id
    /\ pc[r] = "audit" /\ pending[r].status # "denied" => LastTrace(r).call = chosen[r]
    /\ \A k \in 1..Len(traces[r]) : traces[r][k].id <= nextStep

OwnInv == HandTraced /\ ReportsOnOwnTrace

LEMMA OwnFrame ==
  ASSUME OwnInv, NEW r \in Runs,
         UNCHANGED <<nextStep, steps, traces, pending>>,
         (pc'[r] = pc[r] /\ chosen'[r] = chosen[r]) \/ pc'[r] \notin {"running", "audit"}
  PROVE  HandTraced!(r)' /\ ReportsOnOwnTrace!(r)'
<1>1. HandTraced!(r)'
  BY DEF OwnInv, HandTraced, LastTrace
<1>2. ReportsOnOwnTrace!(r)'
  BY DEF OwnInv, ReportsOnOwnTrace, OnOwnTrace
<1>3. QED
  BY <1>1, <1>2

LEMMA QuietChosen ==
  ASSUME IInv, NEW r \in Runs, Quiet(r), NEW q \in Runs
  PROVE  (pc'[q] = pc[q] /\ chosen'[q] = chosen[q]) \/ pc'[q] \notin {"running", "audit"}
<1>1. pc \in [Runs -> Pcs] /\ chosen \in [Runs -> Calls \cup {NoCall}]
  BY DEF IInv, TypeOK
<1>2. CASE Guard(r)
  BY <1>1, <1>2 DEF Guard, Answer, LoopUnchanged
<1>3. CASE Route(r)
  BY <1>1, <1>3 DEF Route, Answer, LoopUnchanged
<1>4. CASE GenerateRemote(r) \/ GenerateDeterministic(r)
  BY <1>1, <1>4 DEF GenerateRemote, GenerateDeterministic, Act
<1>5. CASE StepsExhausted(r) \/ Respond(r) \/ Expire(r)
  BY <1>1, <1>5 DEF StepsExhausted, Respond, Expire
<1>6. QED
  BY <1>2, <1>3, <1>4, <1>5 DEF Quiet

LEMMA OwnStutter ==
  ASSUME OwnInv, UNCHANGED <<nextStep, steps, traces, pending>>,
         \A q \in Runs : \/ pc'[q] = pc[q] /\ chosen'[q] = chosen[q]
                         \/ pc'[q] \notin {"running", "audit"}
  PROVE  OwnInv'
<1>1. \A q \in Runs : HandTraced!(q)' /\ ReportsOnOwnTrace!(q)'
  BY OwnFrame
<1>2. QED
  BY <1>1 DEF OwnInv, HandTraced, ReportsOnOwnTrace

LEMMA OwnGate ==
  ASSUME IInv, OwnInv, NEW r \in Runs, Gate(r)
  PROVE  OwnInv'
<1>1. /\ nextStep \in Nat /\ pc \in [Runs -> Pcs]
      /\ pending \in [Runs -> Trace(Calls) \cup {NoTrace}]
      /\ traces \in [Runs -> Seq(Trace(Calls))]
  BY DEF IInv, TypeOK
<1>2. /\ nextStep' = nextStep + 1 /\ UNCHANGED <<steps, traces, chosen>>
      /\ pending'[r].id = nextStep + 1 /\ pending'[r].call = chosen[r]
      /\ pc'[r] = "running" \/ (pc'[r] = "audit" /\ pending'[r].status = "denied")
      /\ \A q \in Runs \ {r} : pc'[q] = pc[q] /\ pending'[q] = pending[q]
  BY <1>1 DEF Gate, NextStepID
<1>3. \A q \in Runs : \A k \in 1..Len(traces[q]) :
        traces[q][k].id \in Nat /\ traces[q][k].id <= nextStep
  <2>1. \A q \in Runs : \A k \in 1..Len(traces[q]) : traces[q][k] \in Trace(Calls)
    BY <1>1
  <2>2. \A q \in Runs : \A k \in 1..Len(traces[q]) : traces[q][k].id \in Nat
    BY <2>1 DEF Trace
  <2>3. QED
    BY <2>2 DEF OwnInv, HandTraced
<1>4. HandTraced'
  <2>1. SUFFICES ASSUME NEW q \in Runs PROVE HandTraced!(q)'
    BY DEF HandTraced
  <2>2. \A k \in 1..Len(traces'[q]) :
          /\ traces'[q][k].id <= nextStep'
          /\ traces'[q][k].id # nextStep + 1
    BY <1>1, <1>2, <1>3
  <2>3. CASE q = r
    BY <1>2, <2>2, <2>3
  <2>4. CASE q # r
    <3>1. HandTraced!(q) /\ pc'[q] = pc[q] /\ pending'[q] = pending[q]
      BY <1>2, <2>4 DEF OwnInv, HandTraced
    <3>2. LastTrace(q)' = LastTrace(q) /\ traces'[q] = traces[q] /\ chosen'[q] = chosen[q]
      BY <1>2 DEF LastTrace
    <3>3. QED
      BY <2>2, <3>1, <3>2
  <2>5. QED
    BY <2>3, <2>4
<1>5. ReportsOnOwnTrace'
  BY <1>2 DEF OwnInv, ReportsOnOwnTrace, OnOwnTrace
<1>6. QED
  BY <1>4, <1>5 DEF OwnInv

LEMMA OwnReturns ==
  ASSUME IInv, IdsInv, OwnInv, NEW r \in Runs, ToolReturns(r)
  PROVE  OwnInv'
<1>1. /\ nextStep \in Nat /\ pc \in [Runs -> Pcs] /\ pending[r] \in Trace(Calls)
      /\ traces \in [Runs -> Seq(Trace(Calls))] /\ steps \in [Runs -> Seq(Step)]
      /\ pending[r] # NoTrace /\ pending[r].status = "ok"
  BY DEF IInv, TypeOK, InHand, ToolReturns
<1>2. PICK status \in {"ok", "error"} :
        traces' = [traces EXCEPT ![r] = Append(@, [pending[r] EXCEPT !.status = status])]
  BY DEF ToolReturns
<1> DEFINE t == [pending[r] EXCEPT !.status = status]
<1>3. t \in Trace(Calls) /\ t.id = pending[r].id /\ t.call = pending[r].call
  BY <1>1 DEF Trace, Statuses
<1> HIDE DEF t
<1>4. /\ traces'[r] = Append(traces[r], t) /\ Len(traces'[r]) = Len(traces[r]) + 1
      /\ \A k \in 1..Len(traces[r]) : traces'[r][k] = traces[r][k]
      /\ traces'[r][Len(traces[r]) + 1] = t
      /\ \A q \in Runs \ {r} : traces'[q] = traces[q] /\ pc'[q] = pc[q]
      /\ pc'[r] = "audit" /\ UNCHANGED <<nextStep, steps, chosen, pending>>
  BY <1>1, <1>2, <1>3 DEF ToolReturns, t
<1>5. t.id <= nextStep /\ t.call = chosen[r]
  BY <1>1, <1>3 DEF IdsInv, IdsBounded, OwnInv, HandTraced, ToolReturns
<1>6. HandTraced'
  <2>1. SUFFICES ASSUME NEW q \in Runs PROVE HandTraced!(q)'
    BY DEF HandTraced
  <2>2. CASE q = r
    <3>1. LastTrace(r)'.call = chosen[r]
      BY <1>4, <1>5 DEF LastTrace
    <3>2. \A k \in 1..Len(traces'[r]) : traces'[r][k].id <= nextStep
      BY <1>1, <1>4, <1>5 DEF OwnInv, HandTraced
    <3>3. QED
      BY <1>1, <1>3, <1>4, <1>5, <2>2, <3>1, <3>2
  <2>3. CASE q # r
    BY <1>4, <2>3 DEF OwnInv, HandTraced, LastTrace
  <2>4. QED
    BY <2>2, <2>3
<1>7. ReportsOnOwnTrace'
  <2>1. SUFFICES ASSUME NEW q \in Runs, NEW i \in 1..Len(steps[q])
        PROVE  ReportsOnOwnTrace!(q)!(i)'
    BY <1>4 DEF ReportsOnOwnTrace
  <2>2. CASE q = r
    <3>1. steps[r][i].report.id # t.id
      BY <1>1, <1>3, <2>2 DEF IdsInv, StepIdsUnique, ReportIds, PendingIds
    <3>2. ASSUME steps[r][i].policy = "allow" PROVE OnOwnTrace(r, i)'
      <4>1. OnOwnTrace(r, i)
        BY <2>2, <3>2 DEF OwnInv, ReportsOnOwnTrace
      <4>2. 1..Len(traces[r]) \subseteq 1..Len(traces'[r])
        BY <1>1, <1>4
      <4>3. QED
        BY <1>4, <4>1, <4>2 DEF OnOwnTrace
    <3>3. steps[r][i].policy # "allow" =>
            \A k \in 1..Len(traces'[r]) : traces'[r][k].id # steps[r][i].report.id
      BY <1>1, <1>4, <2>2, <3>1 DEF OwnInv, ReportsOnOwnTrace
    <3>4. steps[r][i].report.index = i
      BY <2>2 DEF OwnInv, ReportsOnOwnTrace
    <3>5. QED
      BY <1>4, <2>2, <3>2, <3>3, <3>4
  <2>3. CASE q # r
    <3>1. traces'[q] = traces[q] /\ steps'[q] = steps[q]
      BY <1>4, <2>3
    <3>2. OnOwnTrace(q, i)' <=> OnOwnTrace(q, i)
      BY <3>1 DEF OnOwnTrace
    <3>3. ReportsOnOwnTrace!(q)!(i)
      BY <3>1 DEF OwnInv, ReportsOnOwnTrace
    <3>4. QED
      BY <3>1, <3>2, <3>3
  <2>4. QED
    BY <2>2, <2>3
<1>8. QED
  BY <1>6, <1>7 DEF OwnInv

LEMMA OwnAudit ==
  ASSUME IInv, IdsInv, OwnInv, NEW r \in Runs, Audit(r)
  PROVE  OwnInv'
<1> DEFINE t == AuditedTrace(r)
           entry(reply) == [call        |-> chosen[r],
                            policy      |-> IF t.status = "denied" THEN "deny" ELSE "allow",
                            observation |-> t.status,
                            report      |-> StepReport(t, Len(steps[r]) + 1, reply)]
<1>1. /\ pc \in [Runs -> Pcs] /\ pc[r] = "audit" /\ traces[r] \in Seq(Trace(Calls))
      /\ steps \in [Runs -> Seq(Step)]
      /\ pending \in [Runs -> Trace(Calls) \cup {NoTrace}]
      /\ t.id = pending[r].id /\ (t.status = "denied" <=> pending[r].status = "denied")
  BY AuditedIsPending DEF Audit, IInv, TypeOK
<1>2. PICK reply \in RepliesTo(r) : steps' = [steps EXCEPT ![r] = Append(@, entry(reply))]
  BY DEF Audit
<1>3. /\ entry(reply).call = chosen[r] /\ entry(reply).observation = t.status
      /\ entry(reply).report.id = pending[r].id
      /\ entry(reply).report.index = Len(steps[r]) + 1
      /\ entry(reply).policy = "allow" <=> pending[r].status # "denied"
  BY <1>1 DEF StepReport
<1>4. ASSUME pending[r].status # "denied"
      PROVE  \E k \in 1..Len(traces[r]) :
               traces[r][k].id = pending[r].id /\ traces[r][k].call = chosen[r]
                 /\ traces[r][k].status = t.status
  <2>1. /\ traces[r] # <<>> /\ LastTrace(r).id = pending[r].id /\ t = LastTrace(r)
        /\ LastTrace(r).call = chosen[r]
    BY <1>1, <1>4 DEF IInv, InHand, AuditedTrace, OwnInv, HandTraced
  <2>2. Len(traces[r]) \in 1..Len(traces[r])
    BY <1>1, <2>1
  <2>3. QED
    BY <2>1, <2>2 DEF LastTrace
<1>5. ASSUME pending[r].status = "denied"
      PROVE  \A k \in 1..Len(traces[r]) : traces[r][k].id # pending[r].id
  BY <1>1, <1>5 DEF OwnInv, HandTraced
<1> HIDE DEF t, entry
<1>6. /\ steps'[r] = Append(steps[r], entry(reply)) /\ Len(steps'[r]) = Len(steps[r]) + 1
      /\ \A i \in 1..Len(steps[r]) : steps'[r][i] = steps[r][i]
      /\ steps'[r][Len(steps[r]) + 1] = entry(reply)
      /\ UNCHANGED <<nextStep, traces>>
      /\ \A q \in Runs \ {r} : /\ steps'[q] = steps[q] /\ pc'[q] = pc[q]
                               /\ chosen'[q] = chosen[q] /\ pending'[q] = pending[q]
      /\ pc'[r] = "generate"
  BY <1>1, <1>2 DEF Audit
<1>7. HandTraced'
  <2>1. SUFFICES ASSUME NEW q \in Runs PROVE HandTraced!(q)'
    BY DEF HandTraced
  <2>2. \A k \in 1..Len(traces'[q]) : traces'[q][k].id <= nextStep'
    BY <1>6 DEF OwnInv, HandTraced
  <2>3. CASE q = r
    BY <1>6, <2>2, <2>3
  <2>4. CASE q # r
    <3>1. HandTraced!(q) /\ pc'[q] = pc[q] /\ pending'[q] = pending[q] /\ chosen'[q] = chosen[q]
      BY <1>6, <2>4 DEF OwnInv, HandTraced
    <3>2. LastTrace(q)' = LastTrace(q) /\ traces' = traces
      BY <1>6 DEF LastTrace
    <3>3. QED
      BY <2>2, <3>1, <3>2
  <2>5. QED
    BY <2>3, <2>4
<1>8. ReportsOnOwnTrace'
  <2>1. SUFFICES ASSUME NEW q \in Runs, NEW i \in 1..Len(steps'[q])
        PROVE  ReportsOnOwnTrace!(q)!(i)'
    BY DEF ReportsOnOwnTrace
  <2>2. CASE q # r \/ i # Len(steps[r]) + 1
    <3>1. i \in 1..Len(steps[q]) /\ steps'[q][i] = steps[q][i]
      <4>1. CASE q # r
        BY <1>6, <4>1
      <4>2. CASE q = r
        <5>1. Len(steps[r]) \in Nat /\ i \in 1..(Len(steps[r]) + 1) /\ i # Len(steps[r]) + 1
          BY <1>1, <1>6, <2>2, <4>2
        <5>2. i \in 1..Len(steps[r])
          BY <5>1
        <5>3. QED
          BY <1>6, <4>2, <5>2
      <4>3. QED
        BY <4>1, <4>2
    <3>2. OnOwnTrace(q, i)' <=> OnOwnTrace(q, i)
      BY <1>6, <3>1 DEF OnOwnTrace
    <3>3. ReportsOnOwnTrace!(q)!(i)
      BY <3>1 DEF OwnInv, ReportsOnOwnTrace
    <3>4. QED
      BY <1>6, <3>1, <3>2, <3>3
  <2>3. CASE q = r /\ i = Len(steps[r]) + 1
    <3>1. steps'[q][i] = entry(reply) /\ traces' = traces
      BY <1>6, <2>3
    <3>2. CASE pending[r].status = "denied"
      BY <1>3, <1>5, <2>3, <3>1, <3>2
    <3>3. CASE pending[r].status # "denied"
      <4>1. OnOwnTrace(q, i)'
        BY <1>3, <1>4, <2>3, <3>1, <3>3 DEF OnOwnTrace
      <4>2. QED
        BY <1>3, <2>3, <3>1, <3>3, <4>1
    <3>4. QED
      BY <3>2, <3>3
  <2>4. QED
    BY <2>2, <2>3
<1>9. QED
  BY <1>7, <1>8 DEF OwnInv

LEMMA OwnStep ==
  ASSUME IInv, IdsInv, OwnInv, [Next]_vars
  PROVE  OwnInv'
<1>1. CASE UNCHANGED vars
  BY <1>1, OwnStutter DEF vars
<1>2. ASSUME NEW r \in Runs, Quiet(r) PROVE OwnInv'
  BY <1>2, QuietFrame, QuietChosen, OwnStutter
<1>3. ASSUME NEW r \in Runs, Publish(r) PROVE OwnInv'
  BY <1>3, OwnStutter DEF Publish
<1>4. ASSUME NEW r \in Runs, Gate(r) \/ ToolReturns(r) \/ Audit(r) PROVE OwnInv'
  BY <1>4, OwnGate, OwnReturns, OwnAudit
<1>5. QED
  BY <1>1, <1>2, <1>3, <1>4, NextSplit

\* However many requests run at once, an allowed step is audited on the trace
\* of its own execution, call, status and id, and a refused one stands in the
\* report with no execution behind it (executeStep, LastTrace).
THEOREM ReportsOnOwnTraceAlways == Spec => []ReportsOnOwnTrace
<1>1. Init => IdsInv /\ OwnInv
  BY DEF Init, IdsInv, IdsBounded, StepIdsUnique, ReportIds, PendingIds,
         OwnInv, HandTraced, ReportsOnOwnTrace
<1>2. IInv /\ IdsInv /\ OwnInv /\ [Next]_vars => IdsInv' /\ OwnInv'
  BY IdsStep, OwnStep
<1>3. OwnInv => ReportsOnOwnTrace
  BY DEF OwnInv
<1>4. QED
  BY <1>1, <1>2, <1>3, SpecIInv, PTL DEF Spec

-----------------------------------------------------------------------------
(* The shared store *)

\* The ids of the executions of a request, the one under way with them.
TraceIds(r) == {traces[r][k].id : k \in 1..Len(traces[r])}
RunIds(r) == TraceIds(r) \cup (IF pc[r] = "running" THEN {pending[r].id} ELSE {})

OwnIds ==
  \A r \in Runs :
    /\ \A j, k \in 1..Len(traces[r]) : traces[r][j].id = traces[r][k].id => j = k
    /\ pc[r] = "running" => pending[r].id \notin TraceIds(r)

\* What a return adds to the executor's traces.
LEMMA ReturnedTrace ==
  ASSUME IInv, NEW r \in Runs, ToolReturns(r)
  PROVE  \E t \in Trace(Calls) :
           /\ t.id = pending[r].id /\ traces'[r] = Append(traces[r], t)
           /\ Len(traces'[r]) = Len(traces[r]) + 1 /\ traces'[r][Len(traces[r]) + 1] = t
           /\ \A k \in 1..Len(traces[r]) : traces'[r][k] = traces[r][k]
           /\ \A k \in 1..Len(traces'[r]) : k \in 1..Len(traces[r]) \/ k = Len(traces[r]) + 1
           /\ \A q \in Runs \ {r} : traces'[q] = traces[q] /\ pc'[q] = pc[q]
           /\ pc[r] = "running" /\ pc'[r] = "audit" /\ UNCHANGED <<nextStep, pending>>
<1>1. /\ pending[r] \in Trace(Calls) /\ pc[r] = "running" /\ pc \in [Runs -> Pcs]
      /\ traces \in [Runs -> Seq(Trace(Calls))]
  BY DEF ToolReturns, IInv, TypeOK, InHand
<1>2. PICK status \in {"ok", "error"} :
        traces' = [traces EXCEPT ![r] = Append(@, [pending[r] EXCEPT !.status = status])]
  BY DEF ToolReturns
<1> DEFINE t == [pending[r] EXCEPT !.status = status]
<1>3. t \in Trace(Calls) /\ t.id = pending[r].id
  BY <1>1 DEF Trace, Statuses
<1> HIDE DEF t
<1>4. /\ traces'[r] = Append(traces[r], t)
      /\ \A q \in Runs \ {r} : traces'[q] = traces[q] /\ pc'[q] = pc[q]
      /\ pc'[r] = "audit" /\ UNCHANGED <<nextStep, pending>>
  BY <1>1, <1>2 DEF ToolReturns, t
<1>5. /\ Len(traces'[r]) = Len(traces[r]) + 1 /\ traces'[r][Len(traces[r]) + 1] = t
      /\ \A k \in 1..Len(traces[r]) : traces'[r][k] = traces[r][k]
      /\ \A k \in 1..Len(traces'[r]) : k \in 1..Len(traces[r]) \/ k = Len(traces[r]) + 1
  BY <1>1, <1>3, <1>4
<1>6. QED
  BY <1>1, <1>3, <1>4, <1>5

\* At most one request comes to another id, and that id is new.
LEMMA RunIdsStep ==
  ASSUME IInv, OwnIds, \A r \in Runs : RunIds(r) \subseteq 1..nextStep, [Next]_vars
  PROVE  /\ OwnIds'
         /\ \/ nextStep' = nextStep /\ \A r \in Runs : RunIds(r)' \subseteq RunIds(r)
            \/ \E r \in Runs :
                 /\ nextStep' = nextStep + 1 /\ RunIds(r)' \subseteq RunIds(r) \cup {nextStep + 1}
                 /\ \A q \in Runs \ {r} : RunIds(q)' \subseteq RunIds(q)
<1> DEFINE Goal == \/ nextStep' = nextStep /\ \A r \in Runs : RunIds(r)' \subseteq RunIds(r)
                   \/ \E r \in Runs :
                        /\ nextStep' = nextStep + 1
                        /\ RunIds(r)' \subseteq RunIds(r) \cup {nextStep + 1}
                        /\ \A q \in Runs \ {r} : RunIds(q)' \subseteq RunIds(q)
<1>1. /\ nextStep \in Nat /\ pc \in [Runs -> Pcs]
      /\ pending \in [Runs -> Trace(Calls) \cup {NoTrace}]
  BY DEF IInv, TypeOK
<1>2. ASSUME UNCHANGED <<nextStep, traces>>,
             \A q \in Runs : pc'[q] # "running" \/ (pc[q] = "running" /\ pending'[q] = pending[q])
      PROVE  OwnIds' /\ Goal
  BY <1>2 DEF OwnIds, RunIds, TraceIds
<1>3. CASE UNCHANGED vars
  BY <1>2, <1>3 DEF vars
<1>4. ASSUME NEW r \in Runs, Quiet(r) PROVE OwnIds' /\ Goal
  BY <1>2, <1>4, QuietFrame
<1>5. ASSUME NEW r \in Runs, Audit(r) \/ Publish(r) PROVE OwnIds' /\ Goal
  BY <1>1, <1>2, <1>5 DEF Audit, Publish
<1>6. ASSUME NEW r \in Runs, Gate(r) PROVE OwnIds' /\ Goal
  <2>1. /\ nextStep' = nextStep + 1 /\ pending'[r].id = nextStep + 1 /\ UNCHANGED traces
        /\ \A q \in Runs \ {r} : pc'[q] = pc[q] /\ pending'[q] = pending[q]
    BY <1>1, <1>6 DEF Gate, NextStepID
  <2>2. TraceIds(r) \subseteq 1..nextStep
    BY DEF RunIds
  <2>3. nextStep + 1 \notin TraceIds(r)
    BY <1>1, <2>2
  <2>4. OwnIds'
    BY <2>1, <2>3 DEF OwnIds, TraceIds
  <2>5. RunIds(r)' \subseteq RunIds(r) \cup {nextStep + 1}
    BY <2>1 DEF RunIds, TraceIds
  <2>6. \A q \in Runs \ {r} : RunIds(q)' \subseteq RunIds(q)
    BY <2>1 DEF RunIds, TraceIds
  <2>7. QED
    BY <2>1, <2>4, <2>5, <2>6
<1>7. ASSUME NEW r \in Runs, ToolReturns(r) PROVE OwnIds' /\ Goal
  <2>1. PICK t \in Trace(Calls) :
           /\ t.id = pending[r].id /\ traces'[r] = Append(traces[r], t)
           /\ Len(traces'[r]) = Len(traces[r]) + 1 /\ traces'[r][Len(traces[r]) + 1] = t
           /\ \A k \in 1..Len(traces[r]) : traces'[r][k] = traces[r][k]
           /\ \A k \in 1..Len(traces'[r]) : k \in 1..Len(traces[r]) \/ k = Len(traces[r]) + 1
           /\ \A q \in Runs \ {r} : traces'[q] = traces[q] /\ pc'[q] = pc[q]
           /\ pc[r] = "running" /\ pc'[r] = "audit" /\ UNCHANGED <<nextStep, pending>>
    BY <1>7, ReturnedTrace
  <2>2. TraceIds(r)' \subseteq TraceIds(r) \cup {pending[r].id}
    BY <2>1 DEF TraceIds
  <2>3. \A j, k \in 1..Len(traces'[r]) : traces'[r][j].id = traces'[r][k].id => j = k
    BY <2>1 DEF OwnIds, TraceIds
  <2>4. OwnIds'
    <3>1. ASSUME NEW q \in Runs \ {r} PROVE OwnIds!(q)'
      <4>1. /\ traces'[q] = traces[q] /\ TraceIds(q)' = TraceIds(q) /\ pc'[q] = pc[q]
            /\ pending'[q] = pending[q]
        BY <2>1 DEF TraceIds
      <4>2. OwnIds!(q)
        BY DEF OwnIds
      <4>3. QED
        BY <4>1, <4>2
    <3>2. OwnIds!(r)'
      BY <2>1, <2>3
    <3>3. QED
      BY <3>1, <3>2 DEF OwnIds
  <2>5. RunIds(r)' \subseteq RunIds(r)
    BY <2>1, <2>2 DEF RunIds
  <2>6. \A q \in Runs \ {r} : RunIds(q)' = RunIds(q)
    BY <2>1 DEF RunIds, TraceIds
  <2>7. QED
    BY <2>1, <2>4, <2>5, <2>6
<1>8. QED
  BY <1>3, <1>4, <1>5, <1>6, <1>7, NextSplit

RunsApart ==
  /\ \A r \in Runs : RunIds(r) \subseteq 1..nextStep
  /\ \A r, q \in Runs : r # q => RunIds(r) \cap RunIds(q) = {}

LEMMA RunsApartStep ==
  ASSUME IInv, OwnIds, RunsApart, [Next]_vars
  PROVE  OwnIds' /\ RunsApart'
<1>1. nextStep \in Nat
  BY DEF IInv, TypeOK
<1>2. ASSUME nextStep' = nextStep, \A r \in Runs : RunIds(r)' \subseteq RunIds(r)
      PROVE  RunsApart'
  BY <1>2 DEF RunsApart
<1>3. ASSUME NEW r \in Runs, nextStep' = nextStep + 1,
             RunIds(r)' \subseteq RunIds(r) \cup {nextStep + 1},
             \A q \in Runs \ {r} : RunIds(q)' \subseteq RunIds(q)
      PROVE  RunsApart'
  <2>1. \A q \in Runs : RunIds(q) \subseteq 1..nextStep /\ nextStep + 1 \notin RunIds(q)
    BY <1>1 DEF RunsApart
  <2>2. \A q \in Runs : RunIds(q)' \subseteq 1..(nextStep + 1)
    BY <1>1, <1>3, <2>1
  <2>3. \A p, q \in Runs : p # q => RunIds(p)' \cap RunIds(q)' = {}
    BY <1>3, <2>1 DEF RunsApart
  <2>4. QED
    BY <1>3, <2>2, <2>3 DEF RunsApart
<1>4. QED
  BY <1>2, <1>3, RunIdsStep DEF RunsApart

\* How far a request has come with its publication.
Progress ==
  \A r \in Runs :
    /\ published[r] <= Len(traces[r])
    /\ pc[r] \in {"idle", "route"} => traces[r] = <<>>
    /\ pc[r] \notin {"publish", "done"} => published[r] = 0
    /\ pc[r] = "done" => published[r] = Len(traces[r])

LEMMA ProgressStep ==
  ASSUME IInv, Progress, [Next]_vars
  PROVE  Progress'
<1>1. /\ pc \in [Runs -> Pcs] /\ published \in [Runs -> Nat]
      /\ traces \in [Runs -> Seq(Trace(Calls))]
  BY DEF IInv, TypeOK
<1>2. ASSUME UNCHANGED <<published, traces>>, NEW r \in Runs, NEW next \in Pcs \ {"idle", "done"},
             pc' = [pc EXCEPT ![r] = next], pc[r] \notin {"publish", "done"},
             next = "route" => pc[r] = "idle"
      PROVE  Progress'
  BY <1>1, <1>2 DEF Progress
<1>3. ASSUME UNCHANGED <<published, traces>>, NEW r \in Runs, pc' = [pc EXCEPT ![r] = "done"],
             \/ pc[r] \in {"idle", "route"}
             \/ pc[r] = "publish" /\ published[r] >= Len(traces[r])
      PROVE  Progress'
  <2>1. published[r] = Len(traces[r])
    BY <1>1, <1>3 DEF Progress
  <2>2. QED
    BY <1>1, <1>3, <2>1 DEF Progress
<1>4. CASE UNCHANGED vars
  BY <1>4 DEF vars, Progress
<1>5. ASSUME NEW r \in Runs, Guard(r) \/ Route(r) PROVE Progress'
  BY <1>2, <1>3, <1>5 DEF Guard, Route, Answer, LoopUnchanged, Pcs
<1>6. ASSUME NEW r \in Runs,
             GenerateRemote(r) \/ GenerateDeterministic(r) \/ StepsExhausted(r) PROVE Progress'
  BY <1>2, <1>6 DEF GenerateRemote, GenerateDeterministic, StepsExhausted, Act, Pcs
<1>7. ASSUME NEW r \in Runs, Gate(r) \/ Audit(r) PROVE Progress'
  BY <1>2, <1>7 DEF Gate, Audit, Pcs
<1>8. ASSUME NEW r \in Runs, Respond(r) PROVE Progress'
  BY <1>3, <1>8 DEF Respond
<1>9. ASSUME NEW r \in Runs, Expire(r) PROVE Progress'
  BY <1>9 DEF Expire, Progress
<1>10. ASSUME NEW r \in Runs, ToolReturns(r) PROVE Progress'
  <2>1. /\ pc' = [pc EXCEPT ![r] = "audit"] /\ pc[r] = "running" /\ UNCHANGED published
        /\ \A q \in Runs \ {r} : traces'[q] = traces[q] /\ pc'[q] = pc[q]
        /\ Len(traces'[r]) = Len(traces[r]) + 1
    BY <1>1, <1>10, ReturnedTrace DEF ToolReturns
  <2>2. published[r] = 0 /\ Len(traces[r]) \in Nat
    BY <1>1, <2>1 DEF Progress
  <2>3. QED
    BY <1>1, <2>1, <2>2 DEF Progress
<1>11. ASSUME NEW r \in Runs, Publish(r) PROVE Progress'
  BY <1>1, <1>11 DEF Publish, Progress
<1>12. QED
  BY <1>4, <1>5, <1>6, <1>7, <1>8, <1>9, <1>10, <1>11, NextSplit DEF Quiet

\* Where the store has the executions of a request.  None but those published
\* bears one of its ids, not even that of the execution under way.
Positions(r, at) ==
  /\ at \in [1..published[r] -> 1..Len(store)]
  /\ \A j, k \in 1..published[r] : j < k => at[j] < at[k]
  /\ \A k \in 1..published[r] : store[at[k]] = traces[r][k]
  /\ \A i \in 1..Len(store) :
       store[i].id \in RunIds(r) => \E k \in 1..published[r] : at[k] = i

HasPositions == \A r \in Runs : \E at : Positions(r, at)
StoreDrawn   == \A i \in 1..Len(store) : store[i].id \in 1..nextStep

LEMMA PositionsFrame ==
  ASSUME NEW r \in Runs, NEW at, Positions(r, at), StoreDrawn, nextStep \in Nat,
         UNCHANGED store, published'[r] = published[r],
         \A k \in 1..published[r] : traces'[r][k] = traces[r][k],
         RunIds(r)' \subseteq RunIds(r) \cup {nextStep + 1}
  PROVE  Positions(r, at)'
<1>1. \A i \in 1..Len(store) : store[i].id # nextStep + 1
  BY DEF StoreDrawn
<1>2. QED
  BY <1>1 DEF Positions

\* A publication puts the next execution of its request behind all others, and
\* moves none of them.
LEMMA PositionsPublish ==
  ASSUME IInv, Progress, OwnIds, RunsApart, NEW r \in Runs, Publish(r), NEW q \in Runs,
         NEW at, Positions(q, at)
  PROVE  \E pos : Positions(q, pos)'
<1> DEFINE n == published[r] + 1
           t == traces[r][n]
<1>1. /\ store \in Seq(Trace(ToolCall(Names))) /\ published \in [Runs -> Nat]
      /\ traces \in [Runs -> Seq(Trace(Calls))]
  BY DEF IInv, TypeOK
<1>2. /\ n \in 1..Len(traces[r]) /\ store' = Append(store, t) /\ UNCHANGED <<traces, pc, pending>>
      /\ published' = [published EXCEPT ![r] = n] /\ pc[r] = "publish"
  BY <1>1 DEF Publish, NextPublished
<1>3. t.id \in RunIds(r)
  BY <1>2 DEF RunIds, TraceIds
<1>4. \A p \in Runs : RunIds(p)' = RunIds(p)
  BY <1>2 DEF RunIds, TraceIds
<1>5. Len(store) \in Nat /\ published[r] \in Nat
  BY <1>1
<1>6. t \in Trace(ToolCall(Names))
  <2>1. t \in Trace(Calls)
    BY <1>1, <1>2
  <2>2. QED
    BY <2>1, CallsAssumption DEF Trace
<1> HIDE DEF t
<1>7. /\ Len(store') = Len(store) + 1 /\ store'[Len(store) + 1] = t
      /\ \A i \in 1..Len(store) : store'[i] = store[i]
  BY <1>1, <1>2, <1>6
<1>8. CASE q # r
  <2>1. published'[q] = published[q] /\ t.id \notin RunIds(q)
    BY <1>1, <1>2, <1>3, <1>8 DEF RunsApart
  <2>2. \A i \in 1..Len(store') : store'[i].id \in RunIds(q) =>
          \E k \in 1..published[q] : at[k] = i
    <3>1. SUFFICES ASSUME NEW i \in 1..Len(store'), store'[i].id \in RunIds(q)
                   PROVE  \E k \in 1..published[q] : at[k] = i
      OBVIOUS
    <3>2. i # Len(store) + 1
      BY <1>7, <2>1, <3>1
    <3>3. i \in 1..Len(store) /\ store[i].id \in RunIds(q)
      BY <1>5, <1>7, <3>1, <3>2
    <3>4. QED
      BY <3>3 DEF Positions
  <2>3. /\ at \in [1..published[q] -> 1..Len(store')]
        /\ \A k \in 1..published[q] : store'[at[k]] = traces[q][k]
    BY <1>5, <1>7 DEF Positions
  <2>4. Positions(q, at)'
    BY <1>2, <1>4, <2>1, <2>2, <2>3 DEF Positions
  <2>5. QED
    BY <2>4
<1>9. CASE q = r
  <2>0. /\ \A k \in 1..published[r] : k \in 1..n /\ k # n
        /\ n \in 1..n
        /\ \A k \in 1..n : k = n \/ k \in 1..published[r]
    BY <1>5
  <2>1. PICK pos : pos = [k \in 1..n |-> IF k = n THEN Len(store) + 1 ELSE at[k]]
    OBVIOUS
  <2>2. /\ \A k \in 1..published[r] : at[k] \in 1..Len(store) /\ pos[k] = at[k] /\ k \in 1..n
        /\ pos[n] = Len(store) + 1 /\ n \in 1..n
        /\ \A k \in 1..n : k = n \/ k \in 1..published[r]
    <3>1. \A k \in 1..published[r] : at[k] \in 1..Len(store)
      BY <1>9 DEF Positions
    <3> HIDE DEF n
    <3>2. QED
      BY <2>0, <2>1, <3>1
  <2>3. pos \in [1..n -> 1..Len(store')]
    <3> HIDE DEF n
    <3>1. \A k \in 1..n : pos[k] \in 1..Len(store')
      BY <1>5, <1>7, <2>2
    <3>2. QED
      BY <2>1, <3>1
  <2>4. \A j, k \in 1..n : j < k => pos[j] < pos[k]
    <3>1. SUFFICES ASSUME NEW j \in 1..n, NEW k \in 1..n, j < k PROVE pos[j] < pos[k]
      OBVIOUS
    <3>2. j \in 1..published[r]
      BY <1>5, <3>1
    <3>3. CASE k = n
      BY <1>5, <2>2, <3>2, <3>3
    <3>4. CASE k \in 1..published[r]
      BY <1>9, <2>2, <3>1, <3>2, <3>4 DEF Positions
    <3>5. QED
      BY <2>2, <3>3, <3>4
  <2>5. \A k \in 1..n : store'[pos[k]] = traces[r][k]
    BY <1>7, <1>9, <2>2 DEF Positions, t
  <2>6. \A i \in 1..Len(store') : store'[i].id \in RunIds(r) => \E k \in 1..n : pos[k] = i
    <3>1. SUFFICES ASSUME NEW i \in 1..Len(store'), store'[i].id \in RunIds(r)
                   PROVE  \E k \in 1..n : pos[k] = i
      OBVIOUS
    <3>2. CASE i = Len(store) + 1
      BY <2>2, <3>2
    <3>3. CASE i # Len(store) + 1
      <4>1. i \in 1..Len(store) /\ store[i].id \in RunIds(r)
        BY <1>5, <1>7, <3>1, <3>3
      <4>2. PICK k \in 1..published[r] : at[k] = i
        BY <1>9, <4>1 DEF Positions
      <4>3. QED
        BY <2>2, <4>2
    <3>4. QED
      BY <3>2, <3>3
  <2>7. published'[r] = n
    BY <1>1, <1>2
  <2>8. Positions(r, pos)'
    BY <1>2, <1>4, <2>3, <2>4, <2>5, <2>6, <2>7 DEF Positions
  <2>9. QED
    BY <1>9, <2>8
<1>10. QED
  BY <1>8, <1>9

LEMMA HasPositionsStep ==
  ASSUME IInv, Progress, OwnIds, RunsApart, StoreDrawn, HasPositions, [Next]_vars
  PROVE  StoreDrawn' /\ HasPositions'
<1>1. /\ nextStep \in Nat /\ store \in Seq(Trace(ToolCall(Names)))
      /\ traces \in [Runs -> Seq(Trace(Calls))] /\ published \in [Runs -> Nat]
  BY DEF IInv, TypeOK
<1>2. \A r \in Runs : RunIds(r)' \subseteq RunIds(r) \cup {nextStep + 1}
  BY RunIdsStep DEF RunsApart
<1>3. nextStep' \in Nat /\ nextStep <= nextStep'
  BY <1>1, RunIdsStep DEF RunsApart
<1>4. ASSUME NEW r \in Runs, Publish(r) PROVE StoreDrawn' /\ HasPositions'
  <2>1. HasPositions'
    BY <1>4, PositionsPublish DEF HasPositions
  <2>2. /\ UNCHANGED nextStep /\ published[r] + 1 \in 1..Len(traces[r])
        /\ store' = Append(store, NextPublished(r))
    BY <1>1, <1>4 DEF Publish
  <2>3. NextPublished(r).id \in 1..nextStep
    BY <2>2 DEF NextPublished, RunsApart, RunIds, TraceIds
  <2>4. NextPublished(r) \in Trace(ToolCall(Names))
    <3>1. NextPublished(r) \in Trace(Calls)
      BY <1>1, <2>2 DEF NextPublished
    <3>2. QED
      BY <3>1, CallsAssumption DEF Trace
  <2>5. StoreDrawn'
    BY <1>1, <2>2, <2>3, <2>4 DEF StoreDrawn
  <2>6. QED
    BY <2>1, <2>5
<1>5. ASSUME UNCHANGED <<store, published>>,
             \A r \in Runs : \A k \in 1..published[r] : traces'[r][k] = traces[r][k]
      PROVE  StoreDrawn' /\ HasPositions'
  <2>1. StoreDrawn'
    BY <1>1, <1>3, <1>5 DEF StoreDrawn
  <2>2. ASSUME NEW r \in Runs PROVE \E at : Positions(r, at)'
    <3>1. PICK at : Positions(r, at)
      BY DEF HasPositions
    <3>2. Positions(r, at)'
      BY <1>1, <1>2, <1>5, <3>1, PositionsFrame
    <3>3. QED
      BY <3>2
  <2>3. QED
    BY <2>1, <2>2 DEF HasPositions
<1>6. ASSUME NEW r \in Runs, ToolReturns(r) PROVE StoreDrawn' /\ HasPositions'
  <2>1. /\ UNCHANGED <<store, published>>
        /\ \A k \in 1..Len(traces[r]) : traces'[r][k] = traces[r][k]
        /\ \A q \in Runs \ {r} : traces'[q] = traces[q]
    BY <1>6, ReturnedTrace DEF ToolReturns
  <2>2. published[r] <= Len(traces[r]) /\ published[r] \in Nat /\ Len(traces[r]) \in Nat
    BY <1>1 DEF Progress
  <2>3. QED
    BY <1>5, <2>1, <2>2
<1>7. ASSUME NEW r \in Runs, Quiet(r) \/ Gate(r) \/ Audit(r) PROVE StoreDrawn' /\ HasPositions'
  BY <1>5, <1>7, QuietFrame DEF Gate, Audit
<1>8. CASE UNCHANGED vars
  BY <1>5, <1>8 DEF vars
<1>9. QED
  BY <1>4, <1>6, <1>7, <1>8, NextSplit

\* However many requests publish at once, each finds its executions in the
\* shared store exactly once and in their order, nothing else there bears their
\* ids, and all of them are there when it is answered (runAgentLoop, Store.Add).
THEOREM StoreHoldsRunAlways == Spec => []StoreHoldsRun
<1> DEFINE HoldInv == OwnIds /\ RunsApart /\ Progress /\ StoreDrawn /\ HasPositions
<1>1. Init => HoldInv
  <2>1. SUFFICES ASSUME Init PROVE HoldInv
    OBVIOUS
  <2>2. /\ store = <<>> /\ nextStep = 0
        /\ \A r \in Runs : traces[r] = <<>> /\ published[r] = 0 /\ pc[r] = "idle"
    BY <2>1 DEF Init
  <2>3. OwnIds /\ RunsApart /\ Progress /\ StoreDrawn
    BY <2>2 DEF OwnIds, RunsApart, RunIds, TraceIds, Progress, StoreDrawn
  <2>4. ASSUME NEW r \in Runs PROVE Positions(r, [k \in 1..0 |-> 0])
    BY <2>2 DEF Positions
  <2>5. QED
    BY <2>3, <2>4 DEF HasPositions
<1>2. IInv /\ HoldInv /\ [Next]_vars => HoldInv'
  BY RunsApartStep, ProgressStep, HasPositionsStep
<1>3. IInv /\ HoldInv => StoreHoldsRun
  <2>1. SUFFICES ASSUME IInv, HoldInv, NEW r \in Runs PROVE StoreHoldsRun!(r)
    BY DEF StoreHoldsRun
  <2>2. PICK at : Positions(r, at)
    BY <2>1 DEF HasPositions
  <2>3. \A i \in 1..Len(store) :
          (\E k \in 1..Len(traces[r]) : traces[r][k].id = store[i].id) =>
            \E k \in 1..published[r] : at[k] = i
    BY <2>2 DEF Positions, RunIds, TraceIds
  <2>4. pc[r] = "done" => published[r] = Len(traces[r])
    BY <2>1 DEF Progress
  <2>5. QED
    BY <2>2, <2>3, <2>4 DEF Positions
<1>4. QED
  BY <1>1, <1>2, <1>3, SpecIInv, PTL DEF Spec

-----------------------------------------------------------------------------
(* The refinement *)

\* A request that was answered takes no further step, and one that has not come
\* to the loop has none behind it.
Answered ==
  \A r \in Runs :
    /\ response[r] # NoResponse <=> pc[r] = "done"
    /\ pc[r] \in {"idle", "route"} => steps[r] = <<>>

LEMMA AnsweredStep ==
  ASSUME IInv, Answered, [Next]_vars
  PROVE  Answered'
<1>1. /\ pc \in [Runs -> Pcs] /\ steps \in [Runs -> Seq(Step)]
      /\ response \in [Runs -> Response \cup {NoResponse}]
  BY DEF IInv, TypeOK
<1>2. CASE UNCHANGED vars
  BY <1>2 DEF Answered, vars
<1>3. ASSUME NEW r \in Runs, NEW answer \in Response, UNCHANGED steps,
             response' = [response EXCEPT ![r] = answer], pc' = [pc EXCEPT ![r] = "done"]
      PROVE  Answered'
  BY <1>1, <1>3, ResponseAssumption DEF Answered
<1>4. ASSUME NEW r \in Runs, NEW type \in Interactions, NEW decision \in Decisions,
             NEW status \in {"completed", "blocked"},
             Answer(r, type, decision, status), UNCHANGED steps
      PROVE  Answered'
  BY <1>3, <1>4 DEF Answer, Response
<1>5. ASSUME NEW r \in Runs, NEW next \in Pcs \ {"done", "idle"}, pc[r] # "done",
             next = "route" => pc[r] = "idle", UNCHANGED <<steps, response>>,
             pc' = [pc EXCEPT ![r] = next]
      PROVE  Answered'
  BY <1>1, <1>5 DEF Answered
<1>6. ASSUME NEW r \in Runs, Guard(r) PROVE Answered'
  BY <1>4, <1>5, <1>6 DEF Guard, LoopUnchanged, Interactions, Decisions, Pcs
<1>7. ASSUME NEW r \in Runs, Route(r) PROVE Answered'
  BY <1>4, <1>5, <1>7 DEF Route, LoopUnchanged, Interactions, Decisions, Pcs
<1>8. ASSUME NEW r \in Runs, GenerateRemote(r) \/ GenerateDeterministic(r) PROVE Answered'
  BY <1>5, <1>8 DEF GenerateRemote, GenerateDeterministic, Act, Pcs
<1>9. ASSUME NEW r \in Runs, StepsExhausted(r) \/ Gate(r) \/ ToolReturns(r) PROVE Answered'
  BY <1>5, <1>9 DEF StepsExhausted, Gate, ToolReturns, Pcs
<1>10. ASSUME NEW r \in Runs, Publish(r) \/ Expire(r) PROVE Answered'
  BY <1>10 DEF Publish, Expire, Answered
<1>11. ASSUME NEW r \in Runs, Respond(r) PROVE Answered'
  <2>1. used[r] \in BOOLEAN /\ LoopDecision(r) \in Decisions
    BY DEF IInv, TypeOK, LoopDecision, Decisions
  <2>2. (RemoteConfigured /\ ~used[r]) \in BOOLEAN
    BY <2>1, ConfigAssumption
  <2>3. [type |-> "agent_run", decision |-> LoopDecision(r), status |-> "completed",
         remoteUsed |-> RemoteConfigured /\ ~used[r], fallbackUsed |-> used[r]] \in Response
    BY <2>1, <2>2 DEF Response, Interactions
  <2>4. QED
    BY <1>3, <1>11, <2>3 DEF Respond
<1>12. ASSUME NEW r \in Runs, Audit(r) PROVE Answered'
  BY <1>1, <1>12 DEF Audit, Answered
<1>13. QED
  BY <1>2, <1>6, <1>7, <1>8, <1>9, <1>10, <1>11, <1>12, NextSplit DEF Quiet

\* What the ledger reads of AgentRun: the refinement mapping of Ledger.
OpenCallOf(t) == IF t = NoTrace THEN NoTrace ELSE [number |-> t.id, kind |-> Kind(t.status)]
EntryOf(step) == [number  |-> step.report.id,
                  kind    |-> Kind(step.observation),
                  verdict |-> step.report.decision]
LedgerOf(history) == [i \in 1..Len(history) |-> EntryOf(history[i])]
AnswerOf(resp) == IF resp = NoResponse THEN NoResponse ELSE resp.decision

OpenMap   == [r \in Runs |-> OpenCallOf(pending[r])]
LedgerMap == [r \in Runs |-> LedgerOf(steps[r])]
AnswerMap == [r \in Runs |-> AnswerOf(response[r])]

LEMMA LedgerOpens ==
  ASSUME IInv, Answered, NEW r \in Runs, Gate(r)
  PROVE  Ledger!LedgerNext
<1>1. /\ pc[r] = "gate" /\ pending \in [Runs -> Trace(Calls) \cup {NoTrace}]
      /\ pending[r] = NoTrace /\ response[r] = NoResponse /\ chosen[r] \in Calls
      /\ nextStep \in Nat
  BY DEF Gate, IInv, TypeOK, InHand, Answered
<1>2. PICK status \in {"denied", "ok"} :
        pending' = [pending EXCEPT ![r] =
          [id |-> nextStep', call |-> chosen[r], status |-> status]]
  BY DEF Gate
<1> DEFINE t == [id |-> nextStep', call |-> chosen[r], status |-> status]
<1>3. nextStep' = nextStep + 1 /\ UNCHANGED <<steps, response>>
  BY DEF Gate, NextStepID
<1>4. t \in Trace(Calls)
  BY <1>1, <1>3 DEF Trace, Statuses
<1>5. OpenCallOf(t) = [number |-> nextStep', kind |-> Kind(status)]
  BY <1>4, NoneAssumption DEF OpenCallOf
<1> HIDE DEF t
<1>6. OpenMap' = [OpenMap EXCEPT ![r] = OpenCallOf(t)]
  BY <1>1, <1>2 DEF OpenMap, t
<1>7. OpenMap[r] = NoTrace /\ AnswerMap[r] = NoResponse
  BY <1>1 DEF OpenMap, AnswerMap, OpenCallOf, AnswerOf
<1>8. UNCHANGED <<LedgerMap, AnswerMap>>
  BY <1>3 DEF LedgerMap, AnswerMap
<1>9. Kind(status) \in {"refused", "executed"}
  BY DEF Kind
<1>10. Ledger!Open(r)
  BY <1>3, <1>5, <1>6, <1>7, <1>8, <1>9
     DEF Ledger!Open, Ledger!Kinds, OpenMap, LedgerMap, AnswerMap, OpenCallOf, LedgerOf,
         AnswerOf, EntryOf
<1>11. QED
  BY <1>10 DEF Ledger!LedgerNext

LEMMA LedgerEnters ==
  ASSUME IInv, NEW r \in Runs, Audit(r)
  PROVE  Ledger!LedgerNext
<1> DEFINE t == AuditedTrace(r)
           entry(reply) == [call        |-> chosen[r],
                            policy      |-> IF t.status = "denied" THEN "deny" ELSE "allow",
                            observation |-> t.status,
                            report      |-> StepReport(t, Len(steps[r]) + 1, reply)]
<1>1. /\ steps \in [Runs -> Seq(Step)] /\ pending \in [Runs -> Trace(Calls) \cup {NoTrace}]
      /\ pending[r] # NoTrace /\ t \in Trace(Calls)
      /\ t.id = pending[r].id /\ (t.status = "denied" <=> pending[r].status = "denied")
  BY AuditedIsPending DEF Audit, IInv, TypeOK, InHand
<1>2. PICK reply \in RepliesTo(r) : steps' = [steps EXCEPT ![r] = Append(@, entry(reply))]
  BY DEF Audit
<1>3. /\ StepReport(t, Len(steps[r]) + 1, reply) \in Report
      /\ t.status = "denied" => StepReport(t, Len(steps[r]) + 1, reply).decision = "deny"
  <2>1. reply \in Replies
    BY CallsAssumption DEF RepliesTo, Replies
  <2>2. Len(steps[r]) + 1 \in Nat \ {0}
    BY <1>1
  <2>3. QED
    BY <1>1, <2>1, <2>2, ReportType DEF StepReport
<1>4. EntryOf(entry(reply)) =
        [number |-> pending[r].id, kind |-> Kind(pending[r].status),
         verdict |-> entry(reply).report.decision]
  BY <1>1 DEF EntryOf, StepReport, Kind
<1>5. /\ entry(reply).report.decision \in {"allow", "review", "deny"}
      /\ Kind(pending[r].status) = "refused" => entry(reply).report.decision = "deny"
  BY <1>1, <1>3 DEF Report, Decisions, Kind
<1> HIDE DEF t, entry
<1>6. /\ pending' = [pending EXCEPT ![r] = NoTrace] /\ UNCHANGED <<nextStep, response>>
      /\ steps'[r] = Append(steps[r], entry(reply))
      /\ \A q \in Runs \ {r} : steps'[q] = steps[q]
  BY <1>1, <1>2 DEF Audit
<1>7. OpenMap[r] = [number |-> pending[r].id, kind |-> Kind(pending[r].status)]
  BY <1>1 DEF OpenMap, OpenCallOf
<1>8. OpenMap' = [OpenMap EXCEPT ![r] = NoTrace] /\ OpenMap[r] # NoTrace
  <2>1. OpenMap' = [OpenMap EXCEPT ![r] = NoTrace]
    BY <1>1, <1>6 DEF OpenMap, OpenCallOf
  <2>2. pending[r].id \in Nat /\ Kind(pending[r].status) \in {"refused", "executed"}
    BY <1>1 DEF Trace, Kind
  <2>3. QED
    BY <1>7, <2>1, <2>2, NoneAssumption
<1>9. LedgerMap' = [LedgerMap EXCEPT ![r] = Append(@, EntryOf(entry(reply)))]
  <2>1. LedgerOf(Append(steps[r], entry(reply))) =
          Append(LedgerOf(steps[r]), EntryOf(entry(reply)))
    <3> DEFINE s == steps[r]
    <3>1. s \in Seq(Step)
      BY <1>1
    <3> HIDE DEF s
    <3>2. Len(s) \in Nat /\ DOMAIN LedgerOf(s) = 1..Len(s)
      BY <3>1 DEF LedgerOf
    <3>3. QED
      BY <3>1 DEF LedgerOf, s
  <2>2. QED
    BY <1>6, <2>1 DEF LedgerMap
<1>10. UNCHANGED AnswerMap
  BY <1>6 DEF AnswerMap
<1>11. Ledger!Enter(r)
  BY <1>4, <1>5, <1>6, <1>7, <1>8, <1>9, <1>10
     DEF Ledger!Enter, Ledger!Verdicts, OpenMap, LedgerMap, AnswerMap, OpenCallOf, LedgerOf,
         AnswerOf, EntryOf
<1>12. QED
  BY <1>11 DEF Ledger!LedgerNext

LEMMA LedgerStutters ==
  ASSUME UNCHANGED <<nextStep, pending, steps, response>>
  PROVE  UNCHANGED Ledger!ledgerVars
  BY DEF Ledger!ledgerVars

\* The answer of a request is no milder than the entries of its ledger.
LEMMA LedgerCloses ==
  ASSUME IInv, NEW r \in Runs, NEW resp, resp # NoResponse, resp.decision \in Decisions,
         pending[r] = NoTrace, response[r] = NoResponse,
         response' = [response EXCEPT ![r] = resp], UNCHANGED <<nextStep, pending, steps>>,
         \A i \in 1..Len(steps[r]) :
           /\ steps[r][i].report.decision = "deny" => resp.decision = "deny"
           /\ steps[r][i].report.decision = "review" => resp.decision # "allow"
  PROVE  Ledger!LedgerNext
<1>1. response \in [Runs -> Response \cup {NoResponse}] /\ steps \in [Runs -> Seq(Step)]
  BY DEF IInv, TypeOK
<1>2. OpenMap[r] = NoTrace /\ AnswerMap[r] = NoResponse
  BY DEF OpenMap, AnswerMap, OpenCallOf, AnswerOf
<1>3. AnswerMap' = [AnswerMap EXCEPT ![r] = resp.decision]
  BY <1>1 DEF AnswerMap, AnswerOf
<1>4. UNCHANGED <<OpenMap, LedgerMap>>
  BY DEF OpenMap, LedgerMap
<1>5. Ledger!AtLeast(resp.decision, Ledger!VerdictsOf(LedgerMap[r]))
  <2>1. Ledger!VerdictsOf(LedgerMap[r]) = {steps[r][i].report.decision : i \in 1..Len(steps[r])}
    BY <1>1 DEF Ledger!VerdictsOf, LedgerMap, LedgerOf, EntryOf
  <2>2. QED
    BY <2>1 DEF Ledger!AtLeast
<1>6. Ledger!Close(r)
  BY <1>2, <1>3, <1>4, <1>5
     DEF Ledger!Close, Ledger!Verdicts, Decisions, OpenMap, LedgerMap, AnswerMap, OpenCallOf,
         LedgerOf, AnswerOf, EntryOf
<1>7. QED
  BY <1>6 DEF Ledger!LedgerNext

LEMMA LedgerAnswers ==
  ASSUME IInv, Answered, NEW r \in Runs, Guard(r) \/ Route(r)
  PROVE  Ledger!LedgerNext \/ UNCHANGED Ledger!ledgerVars
<1>1. /\ pc[r] \in {"idle", "route"} /\ UNCHANGED <<nextStep, pending, steps>>
      /\ pending[r] = NoTrace /\ response[r] = NoResponse /\ steps[r] = <<>>
  BY DEF Guard, Route, LoopUnchanged, IInv, InHand, Answered
<1>2. CASE UNCHANGED response
  BY <1>1, <1>2, LedgerStutters
<1>3. ASSUME NEW type \in Interactions, NEW decision \in Decisions,
             NEW status \in {"completed", "blocked"}, Answer(r, type, decision, status)
      PROVE  Ledger!LedgerNext
  <2> DEFINE resp == [type |-> type, decision |-> decision, status |-> status,
                      remoteUsed |-> FALSE, fallbackUsed |-> FALSE]
  <2>1. resp \in Response /\ resp.decision \in Decisions
    BY DEF Response
  <2>2. response' = [response EXCEPT ![r] = resp]
    BY <1>3 DEF Answer
  <2>3. resp # NoResponse
    BY <2>1, ResponseAssumption
  <2>4. \A i \in 1..Len(steps[r]) : FALSE
    BY <1>1
  <2> HIDE DEF resp
  <2>5. QED
    BY <1>1, <2>1, <2>2, <2>3, <2>4, LedgerCloses
<1>4. QED
  BY <1>2, <1>3 DEF Guard, Route, Interactions, Decisions

LEMMA LedgerResponds ==
  ASSUME IInv, Answered, NEW r \in Runs, Respond(r)
  PROVE  Ledger!LedgerNext
<1> DEFINE resp == [type |-> "agent_run", decision |-> LoopDecision(r), status |-> "completed",
                    remoteUsed |-> RemoteConfigured /\ ~used[r], fallbackUsed |-> used[r]]
<1>1. /\ pc[r] = "publish" /\ UNCHANGED <<nextStep, pending, steps>>
      /\ pending[r] = NoTrace /\ response[r] = NoResponse
      /\ response' = [response EXCEPT ![r] = resp]
  BY DEF Respond, IInv, InHand, Answered
<1>2. used[r] \in BOOLEAN /\ LoopDecision(r) \in Decisions
  BY DEF IInv, TypeOK, LoopDecision, Decisions
<1>3. (RemoteConfigured /\ ~used[r]) \in BOOLEAN
  BY <1>2, ConfigAssumption
<1>4. resp \in Response /\ resp.decision = LoopDecision(r)
  BY <1>2, <1>3 DEF Response, Interactions
<1>5. \A i \in 1..Len(steps[r]) :
        steps[r][i].report.decision = "deny" => LoopDecision(r) = "deny"
  BY DEF LoopDecision, Aggregate, Reported
<1>6. LoopDecision(r) # "allow"
  BY DEF LoopDecision
<1> HIDE DEF resp
<1>7. QED
  BY <1>1, <1>2, <1>4, <1>5, <1>6, LedgerCloses, ResponseAssumption

LEMMA LedgerStep ==
  ASSUME IInv, Answered, [Next]_vars
  PROVE  [Ledger!LedgerNext]_(Ledger!ledgerVars)
<1>1. CASE UNCHANGED vars
  BY <1>1, LedgerStutters DEF vars
<1>2. ASSUME NEW r \in Runs, Guard(r) \/ Route(r)
      PROVE  [Ledger!LedgerNext]_(Ledger!ledgerVars)
  BY <1>2, LedgerAnswers
<1>3. ASSUME NEW r \in Runs,
             \/ GenerateRemote(r) \/ GenerateDeterministic(r) \/ StepsExhausted(r)
             \/ ToolReturns(r) \/ Publish(r) \/ Expire(r)
      PROVE  [Ledger!LedgerNext]_(Ledger!ledgerVars)
  BY <1>3, LedgerStutters
     DEF GenerateRemote, GenerateDeterministic, StepsExhausted, ToolReturns, Publish, Expire
<1>4. ASSUME NEW r \in Runs, Gate(r) \/ Audit(r) \/ Respond(r)
      PROVE  [Ledger!LedgerNext]_(Ledger!ledgerVars)
  BY <1>4, LedgerOpens, LedgerEnters, LedgerResponds
<1>5. QED
  BY <1>1, <1>2, <1>3, <1>4, NextSplit DEF Quiet

\* The agent loop implements the ledger of audited calls: under any number of
\* concurrent requests, and whatever the model, the tools and the audit service
\* do, a call gets a number no other call gets, the request does nothing else
\* until its audit is entered, a refusal is entered as a denial, and the one
\* answer is no milder than any entry (Engine.Run, executeStep, runAgentLoop).
THEOREM ImplementsLedgerAlways == Spec => ImplementsLedger
<1>1. Init => Answered /\ Ledger!LedgerInit
  <2>1. SUFFICES ASSUME Init PROVE Answered /\ Ledger!LedgerInit
    OBVIOUS
  <2>2. Answered
    BY <2>1 DEF Init, Answered
  <2>3. Ledger!LedgerInit
    BY <2>1 DEF Init, Ledger!LedgerInit
  <2>4. QED
    BY <2>2, <2>3
<1>2. IInv /\ Answered /\ [Next]_vars => Answered'
  BY AnsweredStep
<1>3. IInv /\ Answered /\ [Next]_vars => [Ledger!LedgerNext]_(Ledger!ledgerVars)
  BY LedgerStep
<1>4. QED
  BY <1>1, <1>2, <1>3, SpecIInv, PTL DEF Spec, ImplementsLedger, Ledger!LedgerSpec
=============================================================================
