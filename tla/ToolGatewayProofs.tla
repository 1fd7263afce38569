------------------------- MODULE ToolGatewayProofs -------------------------
(***************************************************************************)
(* The loop and the doors together, for any number of requests and clients *)
(* at each door: what the gate and the audit refuse stays refused, the     *)
(* shared store holds each execution once under its own id, and the whole  *)
(* server implements the ledger of audited calls.                          *)
(***************************************************************************)
EXTENDS ToolGateway, AgentRunProofs

\* The audit of c's call is what the auditor made of the trace c holds.
AuditIs(c) ==
  /\ audit[c] # NoAnswer /\ heard[c] \in Replies
  /\ \E shield \in BOOLEAN : audit[c] = Audited(c, held[c], heard[c], shield)

\* What a client holds depends on where its call is; a trace it holds is that
\* of a refusal exactly when the gate rules the call out.
ClientInv(c) ==
  /\ stage[c] = "idle" => held[c] = NoTrace /\ audit[c] = NoAnswer /\ answer[c] = NoAnswer
  /\ stage[c] \in {"running", "add", "audit", "answer"} =>
       held[c] # NoTrace /\ answer[c] = NoAnswer
  /\ stage[c] \in {"running", "add", "audit"} => audit[c] = NoAnswer
  /\ stage[c] = "running" => held[c].status = "ok"
  /\ c \in InfoClients => stage[c] # "audit" /\ audit[c] = NoAnswer
  /\ c \in Doors /\ held[c] # NoTrace => (held[c].status = "denied" <=> ~MayRun(held[c].call))
  /\ c \in ApiClients /\ held[c] # NoTrace => held[c].status # "denied"
  /\ c \in Doors /\ stage[c] = "answer" => AuditIs(c)
  /\ c \in Doors /\ stage[c] = "done" =>
       \/ /\ held[c] = NoTrace /\ audit[c] = NoAnswer /\ heard[c] = NoAnswer
          /\ answer[c] = [decision |-> "deny", trace |-> NoTrace]
       \/ /\ held[c] # NoTrace /\ AuditIs(c)
          /\ answer[c] = [decision |-> audit[c].decision, trace |-> held[c]]
  /\ stage[c] # "done" /\ audit[c] = NoAnswer => heard[c] = NoAnswer

DoorInv == \A c \in Clients : ClientInv(c)
GInv == IInv /\ DoorTypeOK /\ DoorInv

\* The state of every client but c is as it was.
OthersAsTheyWere(c) ==
  \A d \in Clients \ {c} :
    /\ stage'[d] = stage[d] /\ held'[d] = held[d] /\ audit'[d] = audit[d]
    /\ heard'[d] = heard[d] /\ answer'[d] = answer[d]

LEMMA EvaluateDecides ==
  ASSUME NEW c \in Calls
  PROVE  Evaluate(c) = "deny" <=> ~MayRun(c)
<1>1. c \in ToolCall(Names)
  BY CallsAssumption
<1>2. Evaluate(c) # "deny" => MayRun(c)
  BY EvaluateAllows
<1>3. MayRun(c) => Refusals(c) = {}
  BY <1>1 DEF MayRun, Refusals, ToolCall
<1>4. Refusals(c) = {} => Evaluate(c) # "deny"
  BY DEF Evaluate
<1>5. QED
  BY <1>2, <1>3, <1>4

LEMMA DoorsFrame ==
  ASSUME DoorInv, NEW c \in Clients, OthersAsTheyWere(c), ClientInv(c)'
  PROVE  DoorInv'
<1>1. ASSUME NEW d \in Clients \ {c} PROVE ClientInv(d)'
  <2>1. ClientInv(d)
    BY DEF DoorInv
  <2>2. AuditIs(d) => AuditIs(d)'
    BY DEF OthersAsTheyWere, AuditIs, Audited
  <2>3. QED
    BY <2>1, <2>2 DEF OthersAsTheyWere, ClientInv
<1>2. QED
  BY <1>1 DEF DoorInv

LEMMA ClientFrame ==
  ASSUME DoorTypeOK, NEW c \in Clients, Client(c)
  PROVE  OthersAsTheyWere(c)
<1>1. /\ stage \in [Clients -> Stages]
      /\ DOMAIN held = Clients /\ DOMAIN audit = Clients
      /\ DOMAIN heard = Clients /\ DOMAIN answer = Clients
  BY DEF DoorTypeOK
<1>2. ASSUME NEW call \in Calls, McpCall(c, call) PROVE OthersAsTheyWere(c)
  BY <1>1, <1>2 DEF McpCall, Begin, OthersAsTheyWere
<1>3. ASSUME NEW call \in Calls, ApiCall(c, call) PROVE OthersAsTheyWere(c)
  BY <1>1, <1>3 DEF ApiCall, Begin, OthersAsTheyWere
<1>4. CASE InfoRequest(c)
  BY <1>1, <1>4 DEF InfoRequest, Begin, OthersAsTheyWere
<1>5. CASE DoorToolReturns(c) \/ AddTrace(c) \/ AuditDoor(c) \/ AnswerClient(c)
  BY <1>1, <1>5 DEF DoorToolReturns, AddTrace, AuditDoor, AnswerClient, OthersAsTheyWere
<1>6. QED
  BY <1>2, <1>3, <1>4, <1>5 DEF Client

-----------------------------------------------------------------------------
(* Every step keeps GInv. *)

LEMMA DoorTraceTypes ==
  /\ DoorTraces \subseteq Trace(ToolCall(Names)) /\ Trace(Calls) \subseteq DoorTraces
  /\ \A t \in DoorTraces : t.id \in Nat \ {0} /\ t.call \in Calls \cup {InfoCall}
                                              /\ t.status \in Statuses
<1>1. Calls \cup {InfoCall} \subseteq ToolCall(Names)
  BY CallsAssumption, ClientsAssumption
<1>2. QED
  BY <1>1 DEF DoorTraces, Trace

\* The shared variables as a client's step may leave them.
LEMMA LoopFrame ==
  ASSUME IInv, nextStep' \in Nat, store' \in Seq(DoorTraces), UNCHANGED loopVars
  PROVE  IInv'
<1>1. store' \in Seq(Trace(ToolCall(Names)))
  BY DoorTraceTypes
<1>2. TypeOK'
  BY <1>1 DEF IInv, TypeOK, loopVars
<1>3. InHand'
  BY DEF IInv, InHand, LastTrace, loopVars
<1>4. QED
  BY <1>2, <1>3 DEF IInv

\* A client that begins a call holds a trace of it under a new id.
LEMMA BeginKeeps ==
  ASSUME GInv, NEW c \in Clients, NEW call \in Calls \cup {InfoCall},
         NEW status \in Statuses, NEW next \in {"running", "add"}, stage[c] = "idle",
         c \in Doors => (status = "denied" <=> ~MayRun(call)),
         c \in ApiClients => status # "denied",
         next = "running" => status = "ok",
         Begin(c, call, status, next), UNCHANGED <<store, audit, heard, answer>>,
         UNCHANGED loopVars
  PROVE  IInv' /\ DoorTypeOK' /\ ClientInv(c)'
<1>1. /\ nextStep \in Nat /\ store \in Seq(DoorTraces)
      /\ stage \in [Clients -> Stages] /\ held \in [Clients -> DoorTraces \cup {NoTrace}]
      /\ ClientInv(c)
  BY DEF GInv, IInv, TypeOK, DoorTypeOK, DoorInv
<1> DEFINE t == [id |-> nextStep', call |-> call, status |-> status]
<1>2. nextStep' = nextStep + 1 /\ held' = [held EXCEPT ![c] = t]
      /\ stage' = [stage EXCEPT ![c] = next]
  BY DEF Begin, NextStepID
<1>3. t \in DoorTraces /\ t.call = call /\ t.status = status /\ t # NoTrace
  <2>1. nextStep' \in Nat \ {0}
    BY <1>1, <1>2
  <2>2. t \in DoorTraces
    BY <2>1 DEF DoorTraces, Trace
  <2>3. QED
    BY <2>2, NoAnswerAssumption
<1> HIDE DEF t
<1>4. IInv'
  BY <1>1, <1>2, LoopFrame DEF GInv
<1>5. DoorTypeOK'
  BY <1>1, <1>2, <1>3 DEF GInv, DoorTypeOK, Stages
<1>6. /\ stage'[c] = next /\ held'[c] = t
      /\ audit'[c] = NoAnswer /\ answer'[c] = NoAnswer /\ heard'[c] = NoAnswer
  BY <1>1, <1>2 DEF ClientInv
<1>7. ClientInv(c)'
  BY <1>3, <1>6 DEF ClientInv
<1>8. QED
  BY <1>4, <1>5, <1>7

LEMMA CallKeeps ==
  ASSUME GInv, NEW c \in Clients, UNCHANGED loopVars,
         \/ \E call \in Calls : McpCall(c, call) \/ ApiCall(c, call)
         \/ InfoRequest(c)
  PROVE  IInv' /\ DoorTypeOK' /\ ClientInv(c)'
<1>1. ASSUME NEW call \in Calls, McpCall(c, call)
      PROVE  IInv' /\ DoorTypeOK' /\ ClientInv(c)'
  <2>1. c \notin ApiClients /\ stage[c] = "idle"
    BY <1>1, ClientsAssumption DEF McpCall, Arrives
  <2>2. CASE Evaluate(call) = "deny" /\ Begin(c, call, "denied", "add")
    BY <1>1, <2>1, <2>2, EvaluateDecides, BeginKeeps DEF McpCall, Statuses
  <2>3. CASE Evaluate(call) = "allow" /\ Begin(c, call, "ok", "running")
    BY <1>1, <2>1, <2>3, EvaluateDecides, BeginKeeps DEF McpCall, Statuses
  <2>4. QED
    BY <1>1, <2>2, <2>3 DEF McpCall
<1>2. ASSUME NEW call \in Calls, ApiCall(c, call)
      PROVE  IInv' /\ DoorTypeOK' /\ ClientInv(c)'
  <2>1. stage[c] = "idle" /\ c \in ApiClients /\ UNCHANGED <<store, audit, heard>>
    BY <1>2 DEF ApiCall, Arrives
  <2>2. CASE Evaluate(call) = "allow" /\ Begin(c, call, "ok", "running") /\ UNCHANGED answer
    BY <2>1, <2>2, EvaluateDecides, BeginKeeps DEF Statuses
  <2>3. CASE /\ answer' = [answer EXCEPT ![c] = [decision |-> "deny", trace |-> NoTrace]]
             /\ stage' = [stage EXCEPT ![c] = "done"]
             /\ UNCHANGED <<nextStep, held>>
    <3>1. /\ stage \in [Clients -> Stages] /\ ClientInv(c)
          /\ answer \in [Clients -> [decision : Decisions \cup {""},
                                     trace : DoorTraces \cup {NoTrace}] \cup {NoAnswer}]
      BY DEF GInv, DoorTypeOK, DoorInv
    <3>2. IInv'
      BY <2>1, <2>3, LoopFrame DEF GInv, IInv, TypeOK, DoorTypeOK
    <3>3. DoorTypeOK'
      BY <2>1, <2>3, <3>1 DEF GInv, DoorTypeOK, Stages, Decisions
    <3>4. ClientInv(c)'
      BY <2>1, <2>3, <3>1, ClientsAssumption DEF ClientInv, Doors
    <3>5. QED
      BY <3>2, <3>3, <3>4
  <2>4. QED
    BY <1>2, <2>2, <2>3 DEF ApiCall
<1>3. CASE InfoRequest(c)
  <2>1. c \notin Doors /\ c \notin ApiClients /\ stage[c] = "idle"
    BY <1>3, ClientsAssumption DEF InfoRequest, Arrives, Doors
  <2>2. QED
    BY <1>3, <2>1, BeginKeeps DEF InfoRequest, Statuses
<1>4. QED
  BY <1>1, <1>2, <1>3

LEMMA ReturnAndAddKeep ==
  ASSUME GInv, NEW c \in Clients, UNCHANGED loopVars, DoorToolReturns(c) \/ AddTrace(c)
  PROVE  IInv' /\ DoorTypeOK' /\ ClientInv(c)'
<1>1. /\ nextStep \in Nat /\ store \in Seq(DoorTraces)
      /\ stage \in [Clients -> Stages] /\ held \in [Clients -> DoorTraces \cup {NoTrace}]
      /\ ClientInv(c)
  BY DEF GInv, IInv, TypeOK, DoorTypeOK, DoorInv
<1>2. held[c] # NoTrace /\ held[c] \in DoorTraces
  BY <1>1 DEF DoorToolReturns, AddTrace, ClientInv
<1>3. CASE DoorToolReturns(c)
  <2>1. PICK status \in {"ok", "error"} : held' = [held EXCEPT ![c].status = status]
    BY <1>3 DEF DoorToolReturns
  <2> DEFINE t == [held[c] EXCEPT !.status = status]
  <2>2. t \in DoorTraces /\ t.call = held[c].call /\ t.status = status
    BY <1>2 DEF DoorTraces, Trace, Statuses
  <2>3. held' = [held EXCEPT ![c] = t]
    BY <2>1
  <2> HIDE DEF t
  <2>4. /\ held'[c] = t /\ t # NoTrace /\ stage[c] = "running" /\ stage'[c] = "add"
        /\ UNCHANGED <<nextStep, store, audit, heard, answer>>
    BY <1>1, <1>3, <2>2, <2>3, NoAnswerAssumption DEF DoorToolReturns
  <2>5. IInv'
    BY <1>1, <2>4, LoopFrame DEF GInv
  <2>6. DoorTypeOK'
    BY <1>1, <1>3, <2>2, <2>3 DEF GInv, DoorTypeOK, DoorToolReturns, Stages
  <2>7. ClientInv(c)'
    BY <1>1, <1>2, <2>2, <2>4 DEF ClientInv
  <2>8. QED
    BY <2>5, <2>6, <2>7
<1>4. CASE AddTrace(c)
  <2>1. /\ store' = Append(store, held[c]) /\ stage[c] = "add"
        /\ stage' = [stage EXCEPT ![c] = IF c \in InfoClients THEN "answer" ELSE "audit"]
        /\ UNCHANGED <<nextStep, held, audit, heard, answer>>
    BY <1>4 DEF AddTrace
  <2>2. store' \in Seq(DoorTraces)
    BY <1>1, <1>2, <2>1
  <2>3. IInv'
    BY <1>1, <2>1, <2>2, LoopFrame DEF GInv
  <2>4. DoorTypeOK'
    BY <1>1, <2>1, <2>2 DEF GInv, DoorTypeOK, Stages
  <2>5. c \in InfoClients <=> c \notin Doors
    BY ClientsAssumption DEF Clients
  <2>6. ClientInv(c)'
    BY <1>1, <2>1, <2>5 DEF ClientInv
  <2>7. QED
    BY <2>3, <2>4, <2>6
<1>5. QED
  BY <1>3, <1>4

LEMMA AuditedType ==
  ASSUME NEW c \in Doors, NEW t \in DoorTraces, NEW reply \in Replies, NEW shield \in BOOLEAN
  PROVE  Audited(c, t, reply, shield) \in DoorAudit
<1>1. AuditTrace({t}, reply) \in DoorAudit
  BY DEF AuditTrace, LocalDecision, Replies, Decisions, Methods, DoorAudit
<1>2. \A byTraceShield : Normalized(AuditTrace({t}, reply), byTraceShield, t) \in Decisions
  BY <1>1 DEF Normalized, DoorAudit, Decisions
<1>3. CASE c \in McpClients
  BY <1>1, <1>3, ClientsAssumption DEF Audited, DoorAudit, Decisions, Methods
<1>4. CASE c \in ApiClients
  <2>1. c \notin McpClients
    BY <1>4, ClientsAssumption
  <2>2. Audited(c, t, reply, shield) =
          [AuditTrace({t}, reply) EXCEPT !.decision =
             Normalized(AuditTrace({t}, reply), shield /\ reply # "unavailable", t)]
    BY <1>4, <2>1 DEF Audited
  <2>3. QED
    BY <1>1, <1>2, <2>2 DEF DoorAudit
<1>5. QED
  BY <1>3, <1>4 DEF Doors

LEMMA AuditAndAnswerKeep ==
  ASSUME GInv, NEW c \in Clients, UNCHANGED loopVars, AuditDoor(c) \/ AnswerClient(c)
  PROVE  IInv' /\ DoorTypeOK' /\ ClientInv(c)'
<1>1. /\ nextStep \in Nat /\ store \in Seq(DoorTraces)
      /\ stage \in [Clients -> Stages] /\ held \in [Clients -> DoorTraces \cup {NoTrace}]
      /\ audit \in [Clients -> DoorAudit \cup {NoAnswer}]
      /\ heard \in [Clients -> Replies \cup {NoAnswer}]
      /\ answer \in [Clients -> [decision : Decisions \cup {""},
                                 trace : DoorTraces \cup {NoTrace}] \cup {NoAnswer}]
      /\ ClientInv(c)
  BY DEF GInv, IInv, TypeOK, DoorTypeOK, DoorInv
<1>2. UNCHANGED <<nextStep, store, held>>
  BY DEF AuditDoor, AnswerClient
<1>3. IInv'
  BY <1>1, <1>2, LoopFrame DEF GInv
<1>4. held[c] # NoTrace /\ held[c] \in DoorTraces
  BY <1>1 DEF AuditDoor, AnswerClient, ClientInv
<1>5. CASE AuditDoor(c)
  <2>1. PICK reply \in AuditReplies \cup {"unavailable"}, shield \in BOOLEAN :
          /\ audit' = [audit EXCEPT ![c] = Audited(c, held[c], reply, shield)]
          /\ heard' = [heard EXCEPT ![c] = reply]
    BY <1>5 DEF AuditDoor
  <2>2. reply \in Replies
    BY CallsAssumption DEF Replies
  <2>3. /\ stage[c] = "audit" /\ stage' = [stage EXCEPT ![c] = "answer"] /\ UNCHANGED answer
        /\ c \in Doors
    BY <1>1, <1>5 DEF AuditDoor, ClientInv, Clients
  <2>4. Audited(c, held[c], reply, shield) \in DoorAudit
    BY <1>4, <2>2, <2>3, AuditedType
  <2>5. /\ audit'[c] = Audited(c, held[c], reply, shield) /\ heard'[c] = reply
        /\ stage'[c] = "answer" /\ audit'[c] # NoAnswer
    BY <1>1, <2>1, <2>3, <2>4, NoAnswerAssumption
  <2>6. AuditIs(c)'
    BY <1>2, <2>2, <2>5 DEF AuditIs, Audited
  <2>7. DoorTypeOK'
    BY <1>1, <1>2, <2>1, <2>2, <2>3, <2>4 DEF GInv, DoorTypeOK, Stages
  <2>8. c \notin InfoClients
    BY <2>3, ClientsAssumption
  <2>9. ClientInv(c)'
    BY <1>1, <1>2, <2>3, <2>5, <2>6, <2>8 DEF ClientInv
  <2>10. QED
    BY <1>3, <2>7, <2>9
<1>6. CASE AnswerClient(c)
  <2> DEFINE a == [decision |-> IF audit[c] = NoAnswer THEN "" ELSE audit[c].decision,
                   trace |-> AnsweredTrace(c)]
  <2>1. /\ stage[c] = "answer" /\ answer' = [answer EXCEPT ![c] = a]
        /\ stage' = [stage EXCEPT ![c] = "done"] /\ UNCHANGED <<audit, heard>>
    BY <1>6 DEF AnswerClient
  <2>2. a \in [decision : Decisions \cup {""}, trace : DoorTraces \cup {NoTrace}]
    BY <1>1, <1>4 DEF AnsweredTrace, DoorAudit
  <2>3. c \in Doors => AuditIs(c) /\ a = [decision |-> audit[c].decision, trace |-> held[c]]
    BY <1>1, <2>1, ClientsAssumption DEF ClientInv, AuditIs, AnsweredTrace
  <2> HIDE DEF a
  <2>4. AuditIs(c) => AuditIs(c)'
    BY <1>2, <2>1 DEF AuditIs, Audited
  <2>5. DoorTypeOK'
    BY <1>1, <1>2, <2>1, <2>2 DEF GInv, DoorTypeOK, Stages
  <2>6. ClientInv(c)'
    BY <1>1, <1>2, <1>4, <2>1, <2>3, <2>4 DEF ClientInv
  <2>7. QED
    BY <1>3, <2>5, <2>6
<1>7. QED
  BY <1>5, <1>6

LEMMA ServerSplit ==
  ASSUME [ServerNext]_allVars
  PROVE  \/ [Next]_vars /\ UNCHANGED doorVars
         \/ \E c \in Clients : Client(c) /\ UNCHANGED loopVars
  BY DEF ServerNext, ServerRest, Next, allVars

LEMMA LoopKeepsDoors ==
  ASSUME GInv, [Next]_vars, UNCHANGED doorVars
  PROVE  GInv'
<1>1. IInv'
  BY NextIInv DEF GInv
<1>2. store' \in Seq(DoorTraces)
  <2>1. store \in Seq(DoorTraces) /\ traces \in [Runs -> Seq(Trace(Calls))]
    BY DEF GInv, DoorTypeOK, IInv, TypeOK
  <2>2. ASSUME NEW r \in Runs, published[r] + 1 \in 1..Len(traces[r])
        PROVE  NextPublished(r) \in DoorTraces
    BY <2>1, <2>2, DoorTraceTypes DEF NextPublished
  <2>3. QED
    BY <2>1, <2>2, StoreGrows, SMTT(40) DEF GInv
<1>3. DoorTypeOK'
  BY <1>2 DEF GInv, DoorTypeOK, doorVars
<1>4. DoorInv'
  <2>1. ASSUME NEW c \in Clients PROVE ClientInv(c)'
    <3>1. ClientInv(c)
      BY DEF GInv, DoorInv
    <3>2. AuditIs(c) <=> AuditIs(c)'
      BY DEF AuditIs, Audited, doorVars
    <3>3. QED
      BY <3>1, <3>2 DEF ClientInv, doorVars
  <2>2. QED
    BY <2>1 DEF DoorInv
<1>5. QED
  BY <1>1, <1>3, <1>4 DEF GInv

LEMMA ServerGInv == ServerSpec => []GInv
<1>1. ServerInit => GInv
  <2>1. SUFFICES ASSUME ServerInit PROVE GInv
    OBVIOUS
  <2>2. IInv /\ store = <<>>
    BY <2>1, InitIInv DEF ServerInit, Init
  <2>3. DoorTypeOK
    BY <2>1, <2>2 DEF ServerInit, DoorInit, DoorTypeOK, Stages
  <2>4. ASSUME NEW c \in Clients PROVE ClientInv(c)
    BY <2>1 DEF ServerInit, DoorInit, ClientInv
  <2>5. QED
    BY <2>2, <2>3, <2>4 DEF GInv, DoorInv
<1>2. GInv /\ [ServerNext]_allVars => GInv'
  <2>1. SUFFICES ASSUME GInv, [ServerNext]_allVars PROVE GInv'
    OBVIOUS
  <2>2. ASSUME NEW c \in Clients, Client(c), UNCHANGED loopVars PROVE GInv'
    <3>1. IInv' /\ DoorTypeOK' /\ ClientInv(c)'
      BY <2>1, <2>2, CallKeeps, ReturnAndAddKeep, AuditAndAnswerKeep DEF Client
    <3>2. DoorInv'
      BY <2>1, <2>2, <3>1, ClientFrame, DoorsFrame DEF GInv
    <3>3. QED
      BY <3>1, <3>2 DEF GInv
  <2>3. QED
    BY <2>1, <2>2, LoopKeepsDoors, ServerSplit
<1>3. QED
  BY <1>1, <1>2, PTL DEF ServerSpec

-----------------------------------------------------------------------------
\* Whatever runs at the same time, a refusal of the gate is a denial to the
\* client, and so is the local review's when audit-core-py does not answer;
\* without its answer nobody hears "allow" (normalizeToolCallDecision, callTool).
THEOREM DenialsStandAlways == ServerSpec => []DenialsStand
<1>1. GInv => DenialsStand
  <2>1. SUFFICES ASSUME GInv, NEW c \in Doors, stage[c] = "done"
                 PROVE  /\ answer[c].trace = NoTrace => answer[c].decision = "deny"
                        /\ answer[c].trace # NoTrace /\ ~MayRun(held[c].call) =>
                             answer[c].decision = "deny"
                        /\ heard[c] = "unavailable" =>
                             answer[c].decision =
                               IF IsDeniedTrace(held[c]) \/ IsDangerousTrace(held[c]) THEN "deny"
                               ELSE IF MayRun(held[c].call) THEN "review" ELSE "deny"
    BY DEF DenialsStand
  <2>2. ClientInv(c)
    BY <2>1 DEF GInv, DoorInv, Clients
  <2>3. CASE answer[c] = [decision |-> "deny", trace |-> NoTrace] /\ heard[c] = NoAnswer
    <3>1. NoAnswer # "unavailable"
      BY NoAnswerAssumption DEF Replies
    <3>2. QED
      BY <2>3, <3>1
  <2>4. CASE /\ held[c] # NoTrace /\ AuditIs(c)
             /\ answer[c] = [decision |-> audit[c].decision, trace |-> held[c]]
    <3>1. /\ held[c].status = "denied" <=> ~MayRun(held[c].call)
          /\ c \in ApiClients => held[c].status # "denied"
      BY <2>1, <2>2, <2>4 DEF ClientInv
    <3>2. PICK shield \in BOOLEAN : audit[c] = Audited(c, held[c], heard[c], shield)
      BY <2>4 DEF AuditIs
    <3>3. CASE held[c].status = "denied"
      <4>1. c \in McpClients /\ c \notin ApiClients
        BY <2>1, <3>1, <3>3 DEF Doors
      <4>2. audit[c].decision = "deny"
        BY <3>2, <3>3, <4>1 DEF Audited
      <4>3. QED
        BY <2>4, <3>1, <3>3, <4>2 DEF IsDeniedTrace
    <3>4. CASE held[c].status # "denied"
      <4>1. LocalDecision({held[c]}) =
              IF IsDeniedTrace(held[c]) \/ IsDangerousTrace(held[c]) THEN "deny" ELSE "review"
        BY DEF LocalDecision
      <4>2. heard[c] = "unavailable" =>
              AuditTrace({held[c]}, heard[c]) =
                [decision |-> LocalDecision({held[c]}), method |-> "local-safety-fallback"]
        BY DEF AuditTrace
      <4>3. heard[c] = "unavailable" => audit[c].decision = LocalDecision({held[c]})
        <5>1. CASE c \in McpClients
          <6>1. c \notin ApiClients
            BY <5>1, ClientsAssumption
          <6>2. Audited(c, held[c], heard[c], shield) = AuditTrace({held[c]}, heard[c])
            BY <3>4, <5>1, <6>1 DEF Audited
          <6>3. QED
            BY <3>2, <4>2, <6>2
        <5>2. CASE c \in ApiClients
          <6>1. c \notin McpClients
            BY <5>2, ClientsAssumption
          <6>2. ASSUME heard[c] = "unavailable"
                PROVE  Normalized(AuditTrace({held[c]}, heard[c]), shield /\ FALSE, held[c])
                         = LocalDecision({held[c]})
            BY <4>2, <6>2 DEF Normalized
          <6>3. QED
            BY <3>2, <4>2, <5>2, <6>1, <6>2 DEF Audited
        <5>3. QED
          BY <2>1, <5>1, <5>2 DEF Doors
      <4>4. QED
        BY <2>4, <3>1, <3>4, <4>1, <4>3
    <3>5. QED
      BY <3>3, <3>4
  <2>5. QED
    BY <2>1, <2>2, <2>3, <2>4 DEF ClientInv
<1>2. QED
  BY <1>1, ServerGInv, PTL

-----------------------------------------------------------------------------
\* What is in the store: a trace is that of a permitted execution, of a refusal,
\* or the one that a client of /api/os/info holds.
GateInv == RunsPermitted /\ GatedDoors

LEMMA GateInvStep ==
  ASSUME GInv, GateInv, [ServerNext]_allVars
  PROVE  GateInv'
<1>1. store \in Seq(DoorTraces) /\ IInv
  BY DEF GInv, DoorTypeOK
<1>2. ASSUME NEW t, t \in DoorTraces, store' = Append(store, t), UNCHANGED held,
             \/ MayRun(t.call) /\ t.status # "denied"
             \/ ~MayRun(t.call) /\ t.status = "denied"
             \/ \E c \in InfoClients : held[c] # NoTrace /\ held[c].id = t.id
      PROVE  GatedDoors'
  <2>1. /\ Len(store') = Len(store) + 1 /\ store'[Len(store) + 1] = t
        /\ \A k \in 1..Len(store) : store'[k] = store[k]
    BY <1>1, <1>2
  <2>2. \A k \in 1..Len(store') : k \in 1..Len(store) \/ k = Len(store) + 1
    BY <1>1, <2>1
  <2>3. QED
    BY <1>2, <2>1, <2>2 DEF GateInv, GatedDoors
<1>3. CASE [Next]_vars /\ UNCHANGED doorVars
  <2>1. RunsPermitted' /\ UNCHANGED held
    BY <1>1, <1>3, RunsPermittedStep DEF GateInv, doorVars
  <2>2. CASE UNCHANGED store
    BY <2>1, <2>2 DEF GateInv, GatedDoors
  <2>3. ASSUME NEW r \in Runs, published[r] + 1 \in 1..Len(traces[r]),
               store' = Append(store, NextPublished(r))
        PROVE  GatedDoors'
    <3>1. MayRun(NextPublished(r).call) /\ NextPublished(r).status # "denied"
      BY <2>3 DEF GateInv, RunsPermitted, NextPublished
    <3>2. NextPublished(r) \in DoorTraces
      BY <1>1, <2>3, DoorTraceTypes DEF NextPublished, IInv, TypeOK
    <3>3. QED
      BY <1>2, <2>1, <2>3, <3>1, <3>2
  <2>4. QED
    BY <1>1, <1>3, <2>1, <2>2, <2>3, StoreGrows DEF GateInv
<1>4. ASSUME NEW c \in Clients, Client(c), UNCHANGED loopVars PROVE GateInv'
  <2>1. RunsPermitted'
    BY <1>4 DEF GateInv, RunsPermitted, loopVars
  <2>2. CASE AddTrace(c)
    <3>1. /\ store' = Append(store, held[c]) /\ UNCHANGED held
          /\ held[c] # NoTrace /\ held[c] \in DoorTraces /\ ClientInv(c)
      BY <2>2 DEF AddTrace, GInv, DoorInv, ClientInv, DoorTypeOK
    <3>2. c \in Doors \/ c \in InfoClients
      BY DEF Clients
    <3>3. GatedDoors'
      BY <1>2, <3>1, <3>2 DEF ClientInv
    <3>4. QED
      BY <2>1, <3>3 DEF GateInv
  <2>3. CASE ~AddTrace(c)
    <3>1. UNCHANGED store
      BY <1>4, <2>3
         DEF Client, McpCall, ApiCall, InfoRequest, DoorToolReturns, AuditDoor, AnswerClient
    <3>2. \A d \in InfoClients : held[d] # NoTrace => held'[d] # NoTrace /\ held'[d].id = held[d].id
      <4>1. SUFFICES ASSUME NEW d \in InfoClients, held[d] # NoTrace
                     PROVE  held'[d] # NoTrace /\ held'[d].id = held[d].id
        OBVIOUS
      <4>2. CASE d # c
        BY <1>4, <4>1, <4>2, ClientFrame DEF OthersAsTheyWere, GInv, Clients
      <4>3. CASE d = c /\ DoorToolReturns(c)
        <5>1. held[c] \in DoorTraces /\ held \in [Clients -> DoorTraces \cup {NoTrace}]
          BY <4>1, <4>3 DEF GInv, DoorTypeOK
        <5>2. PICK status \in {"ok", "error"} : held' = [held EXCEPT ![c].status = status]
          BY <4>3 DEF DoorToolReturns
        <5>3. held'[c] \in DoorTraces /\ held'[c].id = held[c].id
          BY <5>1, <5>2 DEF DoorTraces, Trace, Statuses
        <5>4. QED
          BY <4>3, <5>3, NoAnswerAssumption
      <4>4. CASE d = c /\ ~DoorToolReturns(c)
        <5>1. stage[c] # "idle"
          BY <4>1, <4>4 DEF GInv, DoorInv, ClientInv
        <5>2. UNCHANGED held
          BY <1>4, <2>3, <4>4, <5>1
             DEF Client, McpCall, ApiCall, InfoRequest, Arrives, AuditDoor, AnswerClient
        <5>3. QED
          BY <4>1, <5>2
      <4>5. QED
        BY <4>2, <4>3, <4>4
    <3>3. QED
      BY <2>1, <3>1, <3>2 DEF GateInv, GatedDoors
  <2>4. QED
    BY <2>2, <2>3
<1>5. QED
  BY <1>3, <1>4, ServerSplit

\* Whatever the loop and the doors do at the same time, the shared store holds
\* permitted executions, denied traces of calls that are ruled out, and what
\* /api/os/info ran without asking (CheckToolPolicy at every other door).
THEOREM GatedDoorsAlways == ServerSpec => []GatedDoors
<1>1. ServerInit => GateInv
  BY DEF ServerInit, Init, GateInv, RunsPermitted, GatedDoors
<1>2. GInv /\ GateInv /\ [ServerNext]_allVars => GateInv'
  BY GateInvStep
<1>3. GateInv => GatedDoors
  BY DEF GateInv
<1>4. QED
  BY <1>1, <1>2, <1>3, ServerGInv, PTL DEF ServerSpec

-----------------------------------------------------------------------------
(* The ids in the store *)

Owners == Runs \cup Clients

\* The ids of the executions of a request, or of the trace a client holds.
Ids(o) ==
  IF o \in Runs THEN RunIds(o) ELSE IF held[o] = NoTrace THEN {} ELSE {held[o].id}

IdsApart ==
  \A o \in Owners :
    /\ Ids(o) \subseteq 1..nextStep
    /\ \A p \in Owners \ {o} : Ids(o) \cap Ids(p) = {}

\* At most one owner comes to another id, and that id is new.
LEMMA ApartFrame ==
  ASSUME nextStep \in Nat, IdsApart, NEW o \in Owners,
         \/ nextStep' = nextStep /\ Ids(o)' \subseteq Ids(o)
         \/ nextStep' = nextStep + 1 /\ Ids(o)' \subseteq Ids(o) \cup {nextStep + 1},
         \A p \in Owners \ {o} : Ids(p)' \subseteq Ids(p)
  PROVE  IdsApart'
<1>1. nextStep' \in Nat /\ 1..nextStep \subseteq 1..nextStep' /\ nextStep + 1 \notin 1..nextStep
  OBVIOUS
<1>2. \A p \in Owners : Ids(p) \subseteq 1..nextStep
  BY DEF IdsApart
<1>3. Ids(o)' \subseteq 1..nextStep'
  BY <1>1, <1>2
<1>4. \A p \in Owners \ {o} : Ids(p)' \subseteq 1..nextStep'
  BY <1>1, <1>2
<1>5. \A p \in Owners \ {o} : nextStep + 1 \notin Ids(p)
  BY <1>1, <1>2
<1>6. \A p \in Owners \ {o} : Ids(o)' \cap Ids(p)' = {}
  BY <1>5 DEF IdsApart
<1>7. \A p, q \in Owners \ {o} : p # q => Ids(p)' \cap Ids(q)' = {}
  BY DEF IdsApart
<1>8. QED
  BY <1>3, <1>4, <1>6, <1>7 DEF IdsApart

LEMMA LoopIds ==
  ASSUME GInv, OwnIds, IdsApart, [Next]_vars, UNCHANGED held
  PROVE  OwnIds' /\ IdsApart'
<1>1. nextStep \in Nat /\ IInv
  BY DEF GInv, IInv, TypeOK
<1>2. /\ \A o \in Owners \ Runs : Ids(o)' = Ids(o)
      /\ \A r \in Runs : Ids(r) = RunIds(r) /\ Ids(r)' = RunIds(r)'
  BY DEF Ids
<1>3. \A r \in Runs : RunIds(r) \subseteq 1..nextStep
  BY <1>2 DEF IdsApart, Owners
<1>4. ASSUME nextStep' = nextStep, \A r \in Runs : RunIds(r)' \subseteq RunIds(r)
      PROVE  IdsApart'
  <2>1. CASE Owners = {}
    BY <2>1 DEF IdsApart
  <2>2. ASSUME NEW o \in Owners PROVE IdsApart'
    BY <1>1, <1>2, <1>4, ApartFrame
  <2>3. QED
    BY <2>1, <2>2
<1>5. ASSUME NEW r \in Runs, nextStep' = nextStep + 1,
             RunIds(r)' \subseteq RunIds(r) \cup {nextStep + 1},
             \A q \in Runs \ {r} : RunIds(q)' \subseteq RunIds(q)
      PROVE  IdsApart'
  BY <1>1, <1>2, <1>5, ApartFrame DEF Owners
<1>6. QED
  BY <1>1, <1>3, <1>4, <1>5, RunIdsStep

LEMMA DoorIds ==
  ASSUME GInv, OwnIds, IdsApart, NEW c \in Clients, Client(c), UNCHANGED loopVars
  PROVE  OwnIds' /\ IdsApart'
<1>1. nextStep \in Nat /\ held \in [Clients -> DoorTraces \cup {NoTrace}] /\ c \notin Runs
  BY ClientsAssumption DEF GInv, IInv, TypeOK, DoorTypeOK
<1>2. OwnIds'
  BY DEF OwnIds, TraceIds, loopVars
<1>3. \A o \in Owners \ {c} : Ids(o)' = Ids(o)
  BY ClientFrame DEF GInv, OthersAsTheyWere, Ids, RunIds, TraceIds, loopVars, Owners
<1>4. ASSUME NEW call, NEW status, NEW next, Begin(c, call, status, next) PROVE IdsApart'
  <2>1. nextStep' = nextStep + 1 /\ held'[c].id = nextStep + 1
    BY <1>1, <1>4 DEF Begin, NextStepID
  <2>2. Ids(c)' \subseteq Ids(c) \cup {nextStep + 1}
    BY <1>1, <2>1 DEF Ids
  <2>3. QED
    BY <1>1, <1>3, <2>1, <2>2, ApartFrame DEF Owners
<1>5. ASSUME nextStep' = nextStep, Ids(c)' \subseteq Ids(c) PROVE IdsApart'
  BY <1>1, <1>3, <1>5, ApartFrame DEF Owners
<1>6. CASE DoorToolReturns(c)
  <2>1. held[c] # NoTrace /\ held[c] \in DoorTraces
    BY <1>1, <1>6 DEF DoorToolReturns, GInv, DoorInv, ClientInv
  <2>2. PICK status \in {"ok", "error"} : held' = [held EXCEPT ![c].status = status]
    BY <1>6 DEF DoorToolReturns
  <2>3. held'[c].id = held[c].id
    BY <1>1, <2>1, <2>2 DEF DoorTraces, Trace
  <2>4. QED
    BY <1>1, <1>2, <1>5, <1>6, <2>1, <2>3 DEF DoorToolReturns, Ids
<1>7. CASE AddTrace(c) \/ AuditDoor(c) \/ AnswerClient(c)
  BY <1>1, <1>2, <1>5, <1>7 DEF AddTrace, AuditDoor, AnswerClient, Ids
<1>8. ASSUME NEW call \in Calls, McpCall(c, call) \/ ApiCall(c, call) PROVE IdsApart'
  BY <1>1, <1>4, <1>5, <1>8 DEF McpCall, ApiCall, Ids
<1>9. CASE InfoRequest(c)
  BY <1>2, <1>4, <1>9 DEF InfoRequest
<1>10. QED
  BY <1>2, <1>6, <1>7, <1>8, <1>9 DEF Client

\* Where the traces of the store come from, and who finds its own there.
Placed(c) == stage[c] \in {"audit", "answer", "done"} /\ held[c] # NoTrace
FromRun(t) ==
  \E r \in Runs : \E k \in 1..Len(traces[r]) : k <= published[r] /\ t = traces[r][k]
FromDoor(t) == \E c \in Clients : Placed(c) /\ t = held[c]

Sourced  == \A i \in 1..Len(store) : FromRun(store[i]) \/ FromDoor(store[i])
OnceEach == \A i, j \in 1..Len(store) : store[i].id = store[j].id => i = j
Found    == \A c \in Clients : Placed(c) => \E k \in 1..Len(store) : store[k] = held[c]
StoreInv == Sourced /\ OnceEach /\ Found

LEMMA StoreFrame ==
  ASSUME StoreInv, UNCHANGED store,
         \A t : FromRun(t) => FromRun(t)',
         \A c \in Clients : Placed(c)' <=> Placed(c),
         \A c \in Clients : Placed(c) => held'[c] = held[c]
  PROVE  StoreInv'
<1>1. \A t : FromDoor(t) => FromDoor(t)'
  BY DEF FromDoor
<1>2. Sourced'
  BY <1>1 DEF StoreInv, Sourced
<1>3. OnceEach'
  BY DEF StoreInv, OnceEach
<1>4. Found'
  BY DEF StoreInv, Found
<1>5. QED
  BY <1>2, <1>3, <1>4 DEF StoreInv

\* A trace with an id that the store does not have goes to its end.
LEMMA StoreAppends ==
  ASSUME GInv, StoreInv, NEW t \in DoorTraces, store' = Append(store, t),
         \A i \in 1..Len(store) : store[i].id # t.id,
         FromRun(t)' \/ FromDoor(t)',
         \A u : FromRun(u) => FromRun(u)',
         UNCHANGED held,
         \A c \in Clients : Placed(c) => Placed(c)',
         \A c \in Clients : Placed(c)' => Placed(c) \/ t = held[c]
  PROVE  StoreInv'
<1>1. /\ Len(store') = Len(store) + 1 /\ store'[Len(store) + 1] = t
      /\ \A k \in 1..Len(store) : k \in 1..Len(store') /\ store'[k] = store[k]
      /\ \A k \in 1..Len(store') : k \in 1..Len(store) \/ k = Len(store) + 1
      /\ Len(store) + 1 \in 1..Len(store')
  <2>0. store \in Seq(DoorTraces)
    BY DEF GInv, DoorTypeOK
  <2>1. store \in Seq(DoorTraces) /\ Len(store) \in Nat
    BY <2>0
  <2>2. /\ Len(store') = Len(store) + 1 /\ store'[Len(store) + 1] = t
        /\ \A k \in 1..Len(store) : store'[k] = store[k]
    BY <2>1
  <2>3. QED
    BY <2>1, <2>2
<1>2. \A u : FromDoor(u) => FromDoor(u)'
  BY DEF FromDoor
<1>3. Sourced'
  BY <1>1, <1>2 DEF StoreInv, Sourced
<1>4. OnceEach'
  BY <1>1 DEF StoreInv, OnceEach
<1>5. Found'
  <2>1. SUFFICES ASSUME NEW c \in Clients, Placed(c)'
                 PROVE  \E k \in 1..Len(store') : store'[k] = held[c]
    BY DEF Found
  <2>2. CASE t = held[c]
    BY <1>1, <2>2
  <2>3. CASE Placed(c)
    BY <1>1, <2>3 DEF StoreInv, Found
  <2>4. QED
    BY <2>1, <2>2, <2>3
<1>6. QED
  BY <1>3, <1>4, <1>5 DEF StoreInv

\* The ids of the store are those of its sources.
LEMMA FromIds ==
  ASSUME NEW t
  PROVE  /\ FromRun(t) => \E r \in Runs : t.id \in TraceIds(r) /\ TraceIds(r) \subseteq Ids(r)
         /\ FromDoor(t) => \E c \in Clients : Placed(c) /\ t.id \in Ids(c)
<1>1. ASSUME FromRun(t)
      PROVE  \E r \in Runs : t.id \in TraceIds(r) /\ TraceIds(r) \subseteq Ids(r)
  BY <1>1 DEF FromRun, TraceIds, RunIds, Ids
<1>2. ASSUME FromDoor(t) PROVE \E c \in Clients : Placed(c) /\ t.id \in Ids(c)
  BY <1>2, ClientsAssumption DEF FromDoor, Placed, Ids
<1>3. QED
  BY <1>1, <1>2

LEMMA LoopStore ==
  ASSUME GInv, OwnIds, IdsApart, StoreInv, [Next]_vars, UNCHANGED doorVars
  PROVE  StoreInv'
<1>1. /\ traces \in [Runs -> Seq(Trace(Calls))] /\ published \in [Runs -> Nat]
      /\ pc \in [Runs -> Pcs] /\ UNCHANGED <<stage, held>>
  BY DEF GInv, IInv, TypeOK, doorVars
<1>2. \A c \in Clients : Placed(c)' <=> Placed(c)
  BY <1>1 DEF Placed
<1>3. ASSUME UNCHANGED <<store, traces, published>> PROVE StoreInv'
  BY <1>1, <1>2, <1>3, StoreFrame DEF FromRun
<1>4. ASSUME NEW r \in Runs, ToolReturns(r) PROVE StoreInv'
  <2>1. UNCHANGED <<store, published>>
    BY <1>4 DEF ToolReturns
  <2>2. PICK t : traces' = [traces EXCEPT ![r] = Append(@, t)] /\ t \in Trace(Calls)
    <3>1. pending[r] \in Trace(Calls)
      BY <1>4 DEF ToolReturns, GInv, IInv, TypeOK, InHand
    <3>2. \A status \in {"ok", "error"} : [pending[r] EXCEPT !.status = status] \in Trace(Calls)
      BY <3>1 DEF Trace, Statuses
    <3>3. QED
      BY <1>4, <3>2 DEF ToolReturns
  <2>3. \A q \in Runs : \A k \in 1..Len(traces[q]) :
          k \in 1..Len(traces'[q]) /\ traces'[q][k] = traces[q][k]
    BY <1>1, <2>2
  <2>4. \A u : FromRun(u) => FromRun(u)'
    BY <2>1, <2>3 DEF FromRun
  <2>5. QED
    BY <1>1, <1>2, <2>1, <2>4, StoreFrame
<1>5. ASSUME NEW r \in Runs, Publish(r) PROVE StoreInv'
  <2>0. PICK n, t : n = published[r] + 1 /\ t = traces[r][n]
    OBVIOUS
  <2>1. /\ n \in 1..Len(traces[r]) /\ store' = Append(store, t) /\ UNCHANGED traces
        /\ published'[r] = n /\ \A q \in Runs : published[q] <= published'[q]
        /\ \A q \in Runs : published[q] \in Nat /\ published'[q] \in Nat
    BY <1>1, <1>5, <2>0 DEF Publish, NextPublished
  <2>2. t \in DoorTraces
    BY <1>1, <2>0, <2>1, DoorTraceTypes
  <2>3. \A u : FromRun(u) => FromRun(u)'
    BY <2>1 DEF FromRun
  <2>4. FromRun(t)'
    BY <1>1, <2>0, <2>1 DEF FromRun
  <2>5. ASSUME NEW i \in 1..Len(store) PROVE store[i].id # t.id
    <3>1. t.id \in TraceIds(r) /\ TraceIds(r) \subseteq Ids(r)
      BY <2>0, <2>1 DEF TraceIds, RunIds, Ids
    <3>2. CASE FromDoor(store[i])
      <4>1. PICK c \in Clients : store[i].id \in Ids(c)
        BY <3>2, FromIds
      <4>2. c # r /\ c \in Owners /\ r \in Owners
        BY ClientsAssumption DEF Owners
      <4>3. QED
        BY <3>1, <4>1, <4>2 DEF IdsApart
    <3>3. CASE FromRun(store[i])
      <4>0. PICK q \in Runs :
              \E k \in 1..Len(traces[q]) : k <= published[q] /\ store[i] = traces[q][k]
        BY <3>3 DEF FromRun
      <4>1. PICK k \in 1..Len(traces[q]) : k <= published[q] /\ store[i] = traces[q][k]
        BY <4>0
      <4>2. CASE q = r
        <5>1. k # n
          BY <1>1, <2>0, <4>1, <4>2
        <5>2. QED
          BY <2>0, <2>1, <4>1, <4>2, <5>1 DEF OwnIds
      <4>3. CASE q # r
        <5>1. store[i].id \in Ids(q)
          BY <4>1 DEF Ids, RunIds, TraceIds
        <5>2. QED
          BY <3>1, <4>3, <5>1 DEF IdsApart, Owners
      <4>4. QED
        BY <4>2, <4>3
    <3>4. QED
      BY <3>2, <3>3 DEF StoreInv, Sourced
  <2>6. QED
    BY <1>1, <1>2, <2>1, <2>2, <2>3, <2>4, <2>5, StoreAppends
<1>6. ASSUME NEW r \in Runs, Quiet(r) \/ Gate(r) \/ Audit(r) PROVE StoreInv'
  BY <1>3, <1>6, QuietFrame DEF GInv, Gate, Audit
<1>7. CASE UNCHANGED vars
  BY <1>3, <1>7 DEF vars
<1>8. QED
  BY <1>4, <1>5, <1>6, <1>7, NextSplit

LEMMA DoorStore ==
  ASSUME GInv, IdsApart, StoreInv, NEW c \in Clients, Client(c), UNCHANGED loopVars
  PROVE  StoreInv'
<1>1. /\ stage \in [Clients -> Stages] /\ held \in [Clients -> DoorTraces \cup {NoTrace}]
      /\ ClientInv(c) /\ OthersAsTheyWere(c)
  BY ClientFrame DEF GInv, DoorTypeOK, DoorInv
<1>2. \A t : FromRun(t) => FromRun(t)'
  BY DEF FromRun, loopVars
<1>3. ASSUME UNCHANGED store, Placed(c)' <=> Placed(c), Placed(c) => held'[c] = held[c]
      PROVE  StoreInv'
  <2>1. \A d \in Clients : Placed(d)' <=> Placed(d)
    BY <1>1, <1>3 DEF OthersAsTheyWere, Placed
  <2>2. \A d \in Clients : Placed(d) => held'[d] = held[d]
    BY <1>1, <1>3 DEF OthersAsTheyWere
  <2>3. QED
    BY <1>2, <1>3, <2>1, <2>2, StoreFrame
<1>4. CASE AddTrace(c)
  <2>1. /\ store' = Append(store, held[c]) /\ UNCHANGED held /\ stage[c] = "add"
        /\ stage'[c] \in {"audit", "answer"}
    BY <1>1, <1>4 DEF AddTrace
  <2>2. held[c] # NoTrace /\ held[c] \in DoorTraces /\ ~Placed(c) /\ Placed(c)'
    BY <1>1, <2>1 DEF ClientInv, Placed
  <2>3. FromDoor(held[c])'
    BY <2>1, <2>2 DEF FromDoor
  <2>4. held[c].id \in Ids(c)
    BY <2>2, ClientsAssumption DEF Ids
  <2>5. ASSUME NEW i \in 1..Len(store) PROVE store[i].id # held[c].id
    <3>1. FromRun(store[i]) => \E r \in Runs : store[i].id \in Ids(r)
      BY FromIds
    <3>2. FromDoor(store[i]) => \E d \in Clients : Placed(d) /\ store[i].id \in Ids(d)
      BY FromIds
    <3>3. \E o \in Owners \ {c} : store[i].id \in Ids(o)
      BY <2>2, <3>1, <3>2, ClientsAssumption DEF StoreInv, Sourced, Owners
    <3>4. QED
      BY <2>4, <3>3 DEF IdsApart, Owners
  <2>6. \A d \in Clients : Placed(d) => Placed(d)'
    BY <1>1, <2>2 DEF OthersAsTheyWere, Placed
  <2>7. \A d \in Clients : Placed(d)' => Placed(d) \/ held[c] = held[d]
    BY <1>1 DEF OthersAsTheyWere, Placed
  <2>8. QED
    BY <1>2, <2>1, <2>2, <2>3, <2>5, <2>6, <2>7, StoreAppends
<1>5. CASE DoorToolReturns(c)
  BY <1>1, <1>3, <1>5 DEF DoorToolReturns, Placed
<1>6. CASE AuditDoor(c) \/ AnswerClient(c)
  BY <1>1, <1>3, <1>6 DEF AuditDoor, AnswerClient, Placed
<1>7. ASSUME NEW call \in Calls, McpCall(c, call) PROVE StoreInv'
  BY <1>1, <1>3, <1>7 DEF McpCall, Arrives, Begin, Placed
<1>8. ASSUME NEW call \in Calls, ApiCall(c, call) PROVE StoreInv'
  BY <1>1, <1>3, <1>8 DEF ApiCall, Arrives, Begin, Placed, ClientInv
<1>9. CASE InfoRequest(c)
  BY <1>1, <1>3, <1>9 DEF InfoRequest, Arrives, Begin, Placed
<1>10. QED
  BY <1>4, <1>5, <1>6, <1>7, <1>8, <1>9 DEF Client

\* However the requests and the doors interleave, no id of the shared store
\* names two traces, and a client is answered with the trace of its own call as
\* the store has it (NextStepID, Store.Add, callTool, toolCallHandler).
THEOREM AnswersMatchStoreAlways == ServerSpec => []AnswersMatchStore
<1>1. ServerInit => OwnIds /\ IdsApart /\ StoreInv
  <2>1. SUFFICES ASSUME ServerInit PROVE OwnIds /\ IdsApart /\ StoreInv
    OBVIOUS
  <2>2. OwnIds
    BY <2>1 DEF ServerInit, Init, OwnIds
  <2>3. \A o \in Owners : Ids(o) = {}
    BY <2>1 DEF ServerInit, Init, DoorInit, Owners, Ids, RunIds, TraceIds
  <2>4. IdsApart
    BY <2>3 DEF IdsApart
  <2>5. StoreInv
    BY <2>1 DEF ServerInit, Init, DoorInit, StoreInv, Sourced, OnceEach, Found, Placed
  <2>6. QED
    BY <2>2, <2>4, <2>5
<1>2. GInv /\ OwnIds /\ IdsApart /\ StoreInv /\ [ServerNext]_allVars =>
        OwnIds' /\ IdsApart' /\ StoreInv'
  BY ServerSplit, LoopIds, LoopStore, DoorIds, DoorStore DEF doorVars
<1>3. GInv /\ StoreInv => AnswersMatchStore
  <2>1. SUFFICES ASSUME GInv, StoreInv, NEW c \in Doors, stage[c] = "done",
                        answer[c].trace # NoTrace
                 PROVE  /\ answer[c].trace = held[c]
                        /\ \E k \in 1..Len(store) : store[k] = answer[c].trace
    BY DEF AnswersMatchStore, StoreInv, OnceEach
  <2>2. ClientInv(c)
    BY <2>1 DEF GInv, DoorInv, Clients
  <2>3. held[c] # NoTrace /\ answer[c] = [decision |-> audit[c].decision, trace |-> held[c]]
    BY <2>1, <2>2 DEF ClientInv
  <2>4. answer[c].trace = held[c] /\ Placed(c)
    BY <2>1, <2>3 DEF Placed
  <2>5. QED
    BY <2>1, <2>4 DEF StoreInv, Found, Clients
<1>4. QED
  BY <1>1, <1>2, <1>3, ServerGInv, PTL DEF ServerSpec

-----------------------------------------------------------------------------
(* The refinement *)

\* What the ledger reads of a client: the refinement mapping of ServerLedger.
DoorOpen(c) ==
  IF \/ stage[c] \in {"running", "add", "audit"}
     \/ c \in InfoClients /\ stage[c] # "idle"
  THEN [number |-> held[c].id, kind |-> Kind(held[c].status)]
  ELSE NoTrace
DoorLedger(c) ==
  IF audit[c] = NoAnswer THEN <<>>
  ELSE <<[number  |-> held[c].id,
          kind    |-> Kind(held[c].status),
          verdict |-> audit[c].decision]>>
DoorAnswer(c) ==
  IF c \in InfoClients \/ answer[c] = NoAnswer THEN NoResponse ELSE answer[c].decision

ServerOpen ==
  [o \in Runs \cup Clients |-> IF o \in Runs THEN OpenCallOf(pending[o]) ELSE DoorOpen(o)]
ServerEntries ==
  [o \in Runs \cup Clients |-> IF o \in Runs THEN LedgerOf(steps[o]) ELSE DoorLedger(o)]
ServerAnswer ==
  [o \in Runs \cup Clients |-> IF o \in Runs THEN AnswerOf(response[o]) ELSE DoorAnswer(o)]

\* The ledger's actions, in these terms.
LEMMA ServerOpens ==
  ASSUME NEW o \in Owners, NEW kind \in {"refused", "executed"},
         ServerAnswer[o] = NoResponse, ServerOpen[o] = NoTrace, nextStep' = nextStep + 1,
         ServerOpen' = [ServerOpen EXCEPT ![o] = [number |-> nextStep', kind |-> kind]],
         UNCHANGED <<ServerEntries, ServerAnswer>>
  PROVE  ServerLedger!LedgerNext
<1>1. ServerLedger!Open(o)
  BY DEF ServerLedger!Open, ServerLedger!Kinds, ServerOpen, ServerEntries, ServerAnswer,
         OpenCallOf, LedgerOf, EntryOf, AnswerOf, DoorOpen, DoorLedger, DoorAnswer
<1>2. QED
  BY <1>1 DEF ServerLedger!LedgerNext, Owners

LEMMA ServerEnters ==
  ASSUME NEW o \in Owners, NEW verdict \in {"allow", "review", "deny"},
         ServerOpen[o] # NoTrace, ServerOpen[o].kind = "refused" => verdict = "deny",
         ServerEntries' = [ServerEntries EXCEPT ![o] = Append(@,
           [number |-> ServerOpen[o].number, kind |-> ServerOpen[o].kind, verdict |-> verdict])],
         ServerOpen' = [ServerOpen EXCEPT ![o] = NoTrace],
         UNCHANGED <<nextStep, ServerAnswer>>
  PROVE  ServerLedger!LedgerNext
<1>1. ServerLedger!Enter(o)
  BY DEF ServerLedger!Enter, ServerLedger!Verdicts, ServerOpen, ServerEntries, ServerAnswer,
         OpenCallOf, LedgerOf, EntryOf, AnswerOf, DoorOpen, DoorLedger, DoorAnswer
<1>2. QED
  BY <1>1 DEF ServerLedger!LedgerNext, Owners

LEMMA ServerCloses ==
  ASSUME NEW o \in Owners, NEW verdict \in {"allow", "review", "deny"},
         ServerAnswer[o] = NoResponse, ServerOpen[o] = NoTrace,
         ServerLedger!AtLeast(verdict, ServerLedger!VerdictsOf(ServerEntries[o])),
         ServerAnswer' = [ServerAnswer EXCEPT ![o] = verdict],
         UNCHANGED <<nextStep, ServerOpen, ServerEntries>>
  PROVE  ServerLedger!LedgerNext
<1>1. ServerLedger!Close(o)
  BY DEF ServerLedger!Close, ServerLedger!Verdicts, ServerOpen, ServerEntries, ServerAnswer,
         OpenCallOf, LedgerOf, EntryOf, AnswerOf, DoorOpen, DoorLedger, DoorAnswer
<1>2. QED
  BY <1>1 DEF ServerLedger!LedgerNext, Owners

LEMMA ServerStutters ==
  ASSUME UNCHANGED <<nextStep, ServerOpen, ServerEntries, ServerAnswer>>
  PROVE  UNCHANGED ServerLedger!ledgerVars
  BY DEF ServerLedger!ledgerVars, ServerOpen, ServerEntries, ServerAnswer,
         OpenCallOf, LedgerOf, EntryOf, AnswerOf, DoorOpen, DoorLedger, DoorAnswer

\* A step of the loop's ledger is one of the server's.
LEMMA LoopLedger ==
  ASSUME [Ledger!LedgerNext]_(Ledger!ledgerVars), UNCHANGED doorVars
  PROVE  [ServerLedger!LedgerNext]_(ServerLedger!ledgerVars)
<1>1. \A c \in Clients : /\ DoorOpen(c)' = DoorOpen(c) /\ DoorLedger(c)' = DoorLedger(c)
                         /\ DoorAnswer(c)' = DoorAnswer(c)
  BY DEF DoorOpen, DoorLedger, DoorAnswer, doorVars
<1>2. \A r \in Runs : /\ ServerOpen[r] = OpenMap[r] /\ ServerEntries[r] = LedgerMap[r]
                      /\ ServerAnswer[r] = AnswerMap[r]
  BY DEF ServerOpen, ServerEntries, ServerAnswer, OpenMap, LedgerMap, AnswerMap
<1>3. UNCHANGED OpenMap => UNCHANGED ServerOpen
  BY <1>1 DEF OpenMap, ServerOpen
<1>4. UNCHANGED LedgerMap => UNCHANGED ServerEntries
  BY <1>1 DEF LedgerMap, ServerEntries
<1>5. UNCHANGED AnswerMap => UNCHANGED ServerAnswer
  BY <1>1 DEF AnswerMap, ServerAnswer
<1>6. ASSUME NEW r \in Runs, NEW x, OpenMap' = [OpenMap EXCEPT ![r] = x]
      PROVE  ServerOpen' = [ServerOpen EXCEPT ![r] = x]
  BY <1>1, <1>6 DEF OpenMap, ServerOpen
<1>7. ASSUME NEW r \in Runs, NEW x, LedgerMap' = [LedgerMap EXCEPT ![r] = x]
      PROVE  ServerEntries' = [ServerEntries EXCEPT ![r] = x]
  BY <1>1, <1>7 DEF LedgerMap, ServerEntries
<1>8. ASSUME NEW r \in Runs, NEW x, AnswerMap' = [AnswerMap EXCEPT ![r] = x]
      PROVE  ServerAnswer' = [ServerAnswer EXCEPT ![r] = x]
  BY <1>1, <1>8 DEF AnswerMap, ServerAnswer
<1>9. CASE UNCHANGED Ledger!ledgerVars
  <2>1. UNCHANGED <<nextStep, OpenMap, LedgerMap, AnswerMap>>
    BY <1>9 DEF Ledger!ledgerVars, OpenMap, LedgerMap, AnswerMap, OpenCallOf, LedgerOf, EntryOf,
                AnswerOf
  <2>2. QED
    BY <1>3, <1>4, <1>5, <2>1, ServerStutters
<1>10. ASSUME NEW r \in Runs, Ledger!Open(r) PROVE ServerLedger!LedgerNext
  <2>1. PICK kind \in {"refused", "executed"} :
          /\ OpenMap' = [OpenMap EXCEPT ![r] = [number |-> nextStep', kind |-> kind]]
          /\ AnswerMap[r] = NoResponse /\ OpenMap[r] = NoTrace /\ nextStep' = nextStep + 1
          /\ UNCHANGED <<LedgerMap, AnswerMap>>
    BY <1>10 DEF Ledger!Open, Ledger!Kinds, OpenMap, LedgerMap, AnswerMap, OpenCallOf, LedgerOf,
                 EntryOf, AnswerOf
  <2>2. QED
    BY <1>2, <1>4, <1>5, <1>6, <2>1, ServerOpens DEF Owners
<1>11. ASSUME NEW r \in Runs, Ledger!Enter(r) PROVE ServerLedger!LedgerNext
  <2>1. PICK verdict \in {"allow", "review", "deny"} :
          /\ OpenMap[r] # NoTrace /\ (OpenMap[r].kind = "refused" => verdict = "deny")
          /\ LedgerMap' = [LedgerMap EXCEPT ![r] = Append(LedgerMap[r],
               [number |-> OpenMap[r].number, kind |-> OpenMap[r].kind, verdict |-> verdict])]
          /\ OpenMap' = [OpenMap EXCEPT ![r] = NoTrace]
          /\ UNCHANGED <<nextStep, AnswerMap>>
    BY <1>11 DEF Ledger!Enter, Ledger!Verdicts, OpenMap, LedgerMap, AnswerMap, OpenCallOf, LedgerOf,
                 EntryOf, AnswerOf
  <2>2. QED
    BY <1>2, <1>5, <1>6, <1>7, <2>1, ServerEnters DEF Owners
<1>12. ASSUME NEW r \in Runs, Ledger!Close(r) PROVE ServerLedger!LedgerNext
  <2>1. PICK verdict \in {"allow", "review", "deny"} :
          /\ AnswerMap[r] = NoResponse /\ OpenMap[r] = NoTrace
          /\ Ledger!AtLeast(verdict, Ledger!VerdictsOf(LedgerMap[r]))
          /\ AnswerMap' = [AnswerMap EXCEPT ![r] = verdict]
          /\ UNCHANGED <<nextStep, OpenMap, LedgerMap>>
    BY <1>12 DEF Ledger!Close, Ledger!Verdicts, OpenMap, LedgerMap, AnswerMap, OpenCallOf, LedgerOf,
                 EntryOf, AnswerOf
  <2>2. ServerLedger!AtLeast(verdict, ServerLedger!VerdictsOf(ServerEntries[r]))
    BY <1>2, <2>1 DEF Ledger!AtLeast, Ledger!VerdictsOf, ServerLedger!AtLeast,
                      ServerLedger!VerdictsOf
  <2>3. QED
    BY <1>2, <1>3, <1>4, <1>8, <2>1, <2>2, ServerCloses DEF Owners
<1>13. QED
  BY <1>9, <1>10, <1>11, <1>12 DEF Ledger!LedgerNext

\* What a client's step leaves of the ledger.
LEMMA DoorMaps ==
  ASSUME GInv, NEW c \in Clients, Client(c), UNCHANGED loopVars
  PROVE  /\ ServerOpen' = [ServerOpen EXCEPT ![c] = DoorOpen(c)']
         /\ ServerEntries' = [ServerEntries EXCEPT ![c] = DoorLedger(c)']
         /\ ServerAnswer' = [ServerAnswer EXCEPT ![c] = DoorAnswer(c)']
         /\ ServerOpen[c] = DoorOpen(c) /\ ServerEntries[c] = DoorLedger(c)
         /\ ServerAnswer[c] = DoorAnswer(c)
         /\ DoorOpen(c)' = DoorOpen(c) => UNCHANGED ServerOpen
         /\ DoorLedger(c)' = DoorLedger(c) => UNCHANGED ServerEntries
         /\ DoorAnswer(c)' = DoorAnswer(c) => UNCHANGED ServerAnswer
<1>1. c \notin Runs /\ OthersAsTheyWere(c)
  BY ClientFrame, ClientsAssumption DEF GInv
<1>2. \A d \in Clients \ {c} :
        DoorOpen(d)' = DoorOpen(d) /\ DoorLedger(d)' = DoorLedger(d) /\ DoorAnswer(d)' = DoorAnswer(d)
  BY <1>1 DEF OthersAsTheyWere, DoorOpen, DoorLedger, DoorAnswer
<1>3. UNCHANGED <<pending, steps, response>>
  BY DEF loopVars
<1>4. ServerOpen' = [ServerOpen EXCEPT ![c] = DoorOpen(c)']
  BY <1>1, <1>2, <1>3 DEF ServerOpen
<1>5. ServerEntries' = [ServerEntries EXCEPT ![c] = DoorLedger(c)']
  BY <1>1, <1>2, <1>3 DEF ServerEntries
<1>6. ServerAnswer' = [ServerAnswer EXCEPT ![c] = DoorAnswer(c)']
  BY <1>1, <1>2, <1>3 DEF ServerAnswer
<1>7. /\ ServerOpen[c] = DoorOpen(c) /\ ServerEntries[c] = DoorLedger(c)
      /\ ServerAnswer[c] = DoorAnswer(c)
  BY <1>1 DEF ServerOpen, ServerEntries, ServerAnswer
<1>8. DoorOpen(c)' = DoorOpen(c) => UNCHANGED ServerOpen
  BY <1>2, <1>3 DEF ServerOpen
<1>9. DoorLedger(c)' = DoorLedger(c) => UNCHANGED ServerEntries
  BY <1>2, <1>3 DEF ServerEntries
<1>10. DoorAnswer(c)' = DoorAnswer(c) => UNCHANGED ServerAnswer
  BY <1>2, <1>3 DEF ServerAnswer
<1>11. QED
  BY <1>4, <1>5, <1>6, <1>7, <1>8, <1>9, <1>10

LEMMA DoorLedgerStep ==
  ASSUME GInv, NEW c \in Clients, Client(c), UNCHANGED loopVars
  PROVE  [ServerLedger!LedgerNext]_(ServerLedger!ledgerVars)
<1>1. /\ stage \in [Clients -> Stages] /\ held \in [Clients -> DoorTraces \cup {NoTrace}]
      /\ audit \in [Clients -> DoorAudit \cup {NoAnswer}]
      /\ answer \in [Clients -> [decision : Decisions \cup {""},
                                 trace : DoorTraces \cup {NoTrace}] \cup {NoAnswer}]
      /\ ClientInv(c) /\ c \in Owners /\ nextStep \in Nat
  BY DEF GInv, DoorTypeOK, DoorInv, Owners, IInv, TypeOK
<1>2. /\ ServerOpen' = [ServerOpen EXCEPT ![c] = DoorOpen(c)']
      /\ ServerEntries' = [ServerEntries EXCEPT ![c] = DoorLedger(c)']
      /\ ServerAnswer' = [ServerAnswer EXCEPT ![c] = DoorAnswer(c)']
      /\ ServerOpen[c] = DoorOpen(c) /\ ServerEntries[c] = DoorLedger(c)
      /\ ServerAnswer[c] = DoorAnswer(c)
  BY DoorMaps
<1>3. /\ DoorOpen(c)' = DoorOpen(c) => UNCHANGED ServerOpen
      /\ DoorLedger(c)' = DoorLedger(c) => UNCHANGED ServerEntries
      /\ DoorAnswer(c)' = DoorAnswer(c) => UNCHANGED ServerAnswer
  BY DoorMaps
<1>4. ASSUME NEW call, NEW status \in Statuses, NEW next \in {"running", "add"},
             stage[c] = "idle", Begin(c, call, status, next), UNCHANGED <<audit, answer>>
      PROVE  ServerLedger!LedgerNext
  <2>1. /\ nextStep' = nextStep + 1 /\ stage'[c] = next
        /\ held'[c] = [id |-> nextStep', call |-> call, status |-> status]
    BY <1>1, <1>4 DEF Begin, NextStepID
  <2>2. /\ audit[c] = NoAnswer /\ answer[c] = NoAnswer
    BY <1>1, <1>4 DEF ClientInv
  <2>3. DoorOpen(c) = NoTrace /\ DoorOpen(c)' = [number |-> nextStep', kind |-> Kind(status)]
    BY <1>4, <2>1 DEF DoorOpen
  <2>4. DoorLedger(c)' = DoorLedger(c) /\ DoorAnswer(c)' = DoorAnswer(c)
    BY <1>4, <2>2 DEF DoorLedger, DoorAnswer
  <2>5. DoorAnswer(c) = NoResponse
    BY <2>2 DEF DoorAnswer
  <2>6. Kind(status) \in {"refused", "executed"}
    BY DEF Kind
  <2>7. QED
    BY <1>1, <1>2, <1>3, <2>1, <2>3, <2>4, <2>5, <2>6, ServerOpens
<1>5. ASSUME NEW call \in Calls, McpCall(c, call) PROVE ServerLedger!LedgerNext
  BY <1>4, <1>5 DEF McpCall, Arrives, Statuses
<1>6. CASE InfoRequest(c)
  BY <1>4, <1>6 DEF InfoRequest, Arrives, Statuses
<1>7. ASSUME NEW verdict \in {"allow", "review", "deny"}, c \in Doors,
             answer[c] = NoAnswer, stage[c] \in {"idle", "answer"}, stage'[c] = "done",
             answer'[c] # NoAnswer, answer'[c].decision = verdict,
             audit[c] = NoAnswer \/ audit[c].decision = verdict,
             UNCHANGED <<nextStep, held, audit>>
      PROVE  ServerLedger!LedgerNext
  <2>1. c \notin InfoClients
    BY <1>7, ClientsAssumption
  <2>2. DoorOpen(c) = NoTrace /\ DoorOpen(c)' = NoTrace
    BY <1>7, <2>1 DEF DoorOpen
  <2>3. DoorAnswer(c) = NoResponse /\ DoorAnswer(c)' = verdict
    BY <1>7, <2>1 DEF DoorAnswer
  <2>4. DoorLedger(c)' = DoorLedger(c)
    BY <1>7 DEF DoorLedger
  <2>5. ServerLedger!AtLeast(verdict, ServerLedger!VerdictsOf(DoorLedger(c)))
    <3>1. \A v \in ServerLedger!VerdictsOf(DoorLedger(c)) : v = verdict
      <4>1. CASE audit[c] = NoAnswer
        BY <4>1 DEF DoorLedger, ServerLedger!VerdictsOf
      <4>2. CASE audit[c] # NoAnswer
        BY <1>7, <4>2 DEF DoorLedger, ServerLedger!VerdictsOf
      <4>3. QED
        BY <4>1, <4>2
    <3>2. QED
      BY <3>1 DEF ServerLedger!AtLeast
  <2>6. QED
    BY <1>1, <1>2, <1>3, <1>7, <2>2, <2>3, <2>4, <2>5, ServerCloses
<1>8. ASSUME NEW call \in Calls, ApiCall(c, call) PROVE ServerLedger!LedgerNext
  <2>1. stage[c] = "idle" /\ c \in Doors /\ UNCHANGED <<store, audit, heard>>
        /\ audit[c] = NoAnswer /\ answer[c] = NoAnswer
    BY <1>1, <1>8 DEF ApiCall, Arrives, Doors, ClientInv
  <2>2. CASE Begin(c, call, "ok", "running") /\ UNCHANGED answer
    BY <1>4, <2>1, <2>2 DEF Statuses
  <2>3. CASE /\ answer' = [answer EXCEPT ![c] = [decision |-> "deny", trace |-> NoTrace]]
             /\ stage' = [stage EXCEPT ![c] = "done"]
             /\ UNCHANGED <<nextStep, held>>
    <3>1. answer'[c] = [decision |-> "deny", trace |-> NoTrace] /\ stage'[c] = "done"
      BY <1>1, <2>3
    <3>2. answer'[c] \in [decision : Decisions \cup {""}, trace : DoorTraces \cup {NoTrace}]
      BY <3>1 DEF Decisions
    <3>3. answer'[c] # NoAnswer
      BY <3>2, NoAnswerAssumption
    <3>4. QED
      BY <1>7, <2>1, <2>3, <3>1, <3>3
  <2>4. QED
    BY <1>8, <2>2, <2>3 DEF ApiCall
<1>9. ASSUME nextStep' = nextStep, DoorOpen(c)' = DoorOpen(c), DoorLedger(c)' = DoorLedger(c),
             DoorAnswer(c)' = DoorAnswer(c)
      PROVE  UNCHANGED ServerLedger!ledgerVars
  BY <1>3, <1>9, ServerStutters
<1>10. CASE DoorToolReturns(c)
  <2>1. /\ held[c] \in DoorTraces /\ held[c].status = "ok" /\ audit[c] = NoAnswer
        /\ stage[c] = "running" /\ stage'[c] = "add"
    BY <1>1, <1>10 DEF DoorToolReturns, ClientInv
  <2>2. PICK status \in {"ok", "error"} : held' = [held EXCEPT ![c].status = status]
    BY <1>10 DEF DoorToolReturns
  <2>3. held'[c].id = held[c].id /\ held'[c].status = status
    BY <1>1, <2>1, <2>2 DEF DoorTraces, Trace
  <2>4. DoorOpen(c)' = DoorOpen(c)
    BY <2>1, <2>3 DEF DoorOpen, Kind
  <2>5. DoorLedger(c)' = DoorLedger(c) /\ DoorAnswer(c)' = DoorAnswer(c)
    BY <1>10, <2>1 DEF DoorToolReturns, DoorLedger, DoorAnswer
  <2>6. QED
    BY <1>9, <1>10, <2>4, <2>5 DEF DoorToolReturns
<1>11. CASE AddTrace(c)
  <2>1. DoorOpen(c)' = DoorOpen(c)
    BY <1>1, <1>11, ClientsAssumption DEF AddTrace, DoorOpen
  <2>2. DoorLedger(c)' = DoorLedger(c) /\ DoorAnswer(c)' = DoorAnswer(c)
    BY <1>11 DEF AddTrace, DoorLedger, DoorAnswer
  <2>3. QED
    BY <1>9, <1>11, <2>1, <2>2 DEF AddTrace
<1>12. CASE AuditDoor(c)
  <2>1. /\ stage[c] = "audit" /\ stage'[c] = "answer" /\ UNCHANGED <<nextStep, held, answer>>
        /\ audit[c] = NoAnswer /\ held[c] # NoTrace /\ held[c] \in DoorTraces
        /\ c \in Doors /\ c \notin InfoClients
    BY <1>1, <1>12 DEF AuditDoor, ClientInv, Clients
  <2>2. PICK reply \in AuditReplies \cup {"unavailable"}, shield \in BOOLEAN :
          audit'[c] = Audited(c, held[c], reply, shield)
    BY <1>1, <1>12 DEF AuditDoor
  <2>3. audit'[c] \in DoorAudit /\ audit'[c] # NoAnswer
    <3>1. reply \in Replies
      BY CallsAssumption DEF Replies
    <3>2. QED
      BY <2>1, <2>2, <3>1, AuditedType, NoAnswerAssumption
  <2>4. held[c].status = "denied" => audit'[c].decision = "deny"
    <3>1. held[c].status = "denied" => c \in McpClients /\ c \notin ApiClients
      BY <1>1, <2>1 DEF ClientInv, Doors
    <3>2. QED
      BY <2>2, <3>1 DEF Audited
  <2>5. DoorOpen(c) = [number |-> held[c].id, kind |-> Kind(held[c].status)] /\ DoorOpen(c)' = NoTrace
    BY <2>1 DEF DoorOpen
  <2>6. DoorOpen(c) # NoTrace
    <3>1. held[c].id \in Nat /\ Kind(held[c].status) \in {"refused", "executed"}
      BY <2>1 DEF DoorTraces, Trace, Kind
    <3>2. QED
      BY <2>5, <3>1, NoneAssumption
  <2>7. DoorLedger(c)' = Append(DoorLedger(c),
          [number |-> held[c].id, kind |-> Kind(held[c].status), verdict |-> audit'[c].decision])
    BY <2>1, <2>3 DEF DoorLedger
  <2>8. DoorAnswer(c)' = DoorAnswer(c)
    BY <2>1 DEF DoorAnswer
  <2>9. audit'[c].decision \in {"allow", "review", "deny"}
    BY <2>3 DEF DoorAudit, Decisions
  <2>10. Kind(held[c].status) = "refused" => audit'[c].decision = "deny"
    BY <2>4 DEF Kind
  <2>11. /\ ServerOpen[c] # NoTrace
         /\ ServerOpen[c].number = held[c].id /\ ServerOpen[c].kind = Kind(held[c].status)
    BY <1>2, <2>5, <2>6
  <2>12. ServerEntries' = [ServerEntries EXCEPT ![c] = Append(ServerEntries[c],
           [number |-> ServerOpen[c].number, kind |-> ServerOpen[c].kind,
            verdict |-> audit'[c].decision])]
    BY <1>2, <2>7, <2>11
  <2>13. ServerOpen' = [ServerOpen EXCEPT ![c] = NoTrace] /\ UNCHANGED <<nextStep, ServerAnswer>>
    BY <1>2, <1>3, <2>1, <2>5, <2>8
  <2>14. QED
    BY <1>1, <2>9, <2>10, <2>11, <2>12, <2>13, ServerEnters
<1>13. CASE AnswerClient(c)
  <2>1. /\ stage[c] = "answer" /\ stage'[c] = "done" /\ UNCHANGED <<nextStep, held, audit>>
        /\ answer[c] = NoAnswer
        /\ answer'[c] = [decision |-> IF audit[c] = NoAnswer THEN "" ELSE audit[c].decision,
                         trace |-> AnsweredTrace(c)]
    BY <1>1, <1>13 DEF AnswerClient, ClientInv
  <2>2. CASE c \in InfoClients
    <3>1. DoorOpen(c)' = DoorOpen(c) /\ DoorAnswer(c)' = DoorAnswer(c)
      BY <2>1, <2>2 DEF DoorOpen, DoorAnswer
    <3>2. DoorLedger(c)' = DoorLedger(c)
      BY <2>1 DEF DoorLedger
    <3>3. QED
      BY <1>9, <2>1, <3>1, <3>2
  <2>3. CASE c \in Doors
    <3>1. audit[c] # NoAnswer /\ audit[c] \in DoorAudit
      BY <1>1, <2>1, <2>3 DEF ClientInv, AuditIs
    <3>2. audit[c].decision \in {"allow", "review", "deny"}
      BY <3>1 DEF DoorAudit, Decisions
    <3>3. answer'[c].decision = audit[c].decision
      BY <2>1, <3>1
    <3>4. AnsweredTrace(c) \in DoorTraces \cup {NoTrace}
      BY <1>1 DEF AnsweredTrace
    <3>5. answer'[c] \in [decision : Decisions \cup {""}, trace : DoorTraces \cup {NoTrace}]
      <4>1. answer'[c] = [decision |-> audit[c].decision, trace |-> AnsweredTrace(c)]
        BY <2>1, <3>1
      <4>2. audit[c].decision \in Decisions \cup {""}
        BY <3>2 DEF Decisions
      <4>3. [decision |-> audit[c].decision, trace |-> AnsweredTrace(c)]
              \in [decision : Decisions \cup {""}, trace : DoorTraces \cup {NoTrace}]
        BY <3>4, <4>2
      <4>4. QED
        BY <4>1, <4>3
    <3>6. answer'[c] # NoAnswer
      BY <3>5, NoAnswerAssumption
    <3>7. QED
      BY <1>7, <2>1, <2>3, <3>2, <3>3, <3>6
  <2>4. QED
    BY <2>2, <2>3 DEF Clients
<1>14. QED
  BY <1>5, <1>6, <1>8, <1>10, <1>11, <1>12, <1>13 DEF Client

\* The server as a whole implements the ledger of audited calls, each request
\* and each client being an owner: whoever calls, and in whatever order, a call
\* has a number of its own, nothing but its audit ends it, a refusal is entered
\* as a denial, and the answer is no milder than the entry; what /api/os/info
\* runs is never entered at all (callTool, toolCallHandler, osInfoHandler).
THEOREM ServerImplementsLedgerAlways == ServerSpec => ServerImplementsLedger
<1>1. ServerInit => Answered /\ ServerLedger!LedgerInit
  <2>1. SUFFICES ASSUME ServerInit PROVE Answered /\ ServerLedger!LedgerInit
    OBVIOUS
  <2>2. Answered
    BY <2>1 DEF ServerInit, Init, Answered
  <2>3. Runs \cap Clients = {}
    BY ClientsAssumption
  <2>4. ServerLedger!LedgerInit
    BY <2>1, <2>3 DEF ServerInit, Init, DoorInit, ServerLedger!LedgerInit
  <2>5. QED
    BY <2>2, <2>4
<1>2. ASSUME GInv, Answered, [ServerNext]_allVars
      PROVE  Answered' /\ [ServerLedger!LedgerNext]_(ServerLedger!ledgerVars)
  <2>1. CASE [Next]_vars /\ UNCHANGED doorVars
    BY <1>2, <2>1, AnsweredStep, LedgerStep, LoopLedger DEF GInv
  <2>2. ASSUME NEW c \in Clients, Client(c), UNCHANGED loopVars
        PROVE  Answered' /\ [ServerLedger!LedgerNext]_(ServerLedger!ledgerVars)
    <3>1. Answered'
      BY <1>2, <2>2 DEF Answered, loopVars
    <3>2. QED
      BY <1>2, <2>2, <3>1, DoorLedgerStep
  <2>3. QED
    BY <1>2, <2>1, <2>2, ServerSplit
<1>3. QED
  BY <1>1, <1>2, ServerGInv, PTL DEF ServerSpec, ServerImplementsLedger, ServerLedger!LedgerSpec
=============================================================================
