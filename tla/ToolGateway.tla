---------------------------- MODULE ToolGateway ----------------------------
(***************************************************************************)
(* The other doors to the tools, next to the agent loop of AgentRun: the   *)
(* MCP server (internal/mcpserver/server.go), POST /api/tools/call         *)
(* (cmd/server/tools_api.go) and GET /api/os/info (cmd/server/main.go).    *)
(* All of them draw step ids from the same sequence and add to the same    *)
(* trace store as the requests of AgentRun, whose actions this module      *)
(* composes with those of the doors.                                       *)
(*                                                                         *)
(* A client makes one call through its door; its goroutine is cut where    *)
(* it touches what is shared and where it waits for a tool or the audit.   *)
(***************************************************************************)
EXTENDS AgentRun, FiniteSets

CONSTANTS
  McpClients, ApiClients, InfoClients,
  InfoCall,   \* the call that GET /api/os/info makes
  MaxCalls,   \* bound: clients that make their call
  NoAnswer

Doors   == McpClients \cup ApiClients      \* the doors that are gated and audited
Clients == Doors \cup InfoClients

ASSUME ClientsAssumption ==
  /\ Runs \cap Clients = {}
  /\ McpClients \cap ApiClients = {} /\ Doors \cap InfoClients = {}
  /\ InfoCall \in ToolCall(Names)
  /\ MaxCalls \in 0..Cardinality(Clients)

VARIABLES
  stage,   \* where each client's call is
  held,    \* result.Trace, or the trace of the refusal
  audit,   \* the audit of the call, once it is there
  heard,   \* history: what audit-core-py answered
  answer   \* what the client is answered

doorVars == <<stage, held, audit, heard, answer>>
loopVars == <<pc, expired, steps, traces, chosen, pending, used, published,
              response, generators, late>>
allVars  == <<vars, doorVars>>

Stages   == {"idle", "running", "add", "audit", "answer", "done"}
DoorTraces == Trace(Calls \cup {InfoCall})
DoorAudit  == [decision : Decisions, method : Methods]

ASSUME NoAnswerAssumption ==
  /\ NoTrace \notin DoorTraces
  /\ NoAnswer \notin DoorAudit \cup Replies
  /\ NoAnswer \notin [decision : Decisions \cup {""}, trace : DoorTraces \cup {NoTrace}]

DoorTypeOK ==
  /\ stage \in [Clients -> Stages]
  /\ held \in [Clients -> DoorTraces \cup {NoTrace}]
  /\ audit \in [Clients -> DoorAudit \cup {NoAnswer}]
  /\ heard \in [Clients -> Replies \cup {NoAnswer}]
  /\ answer \in [Clients -> [decision : Decisions \cup {""}, trace : DoorTraces \cup {NoTrace}]
                            \cup {NoAnswer}]
  /\ store \in Seq(DoorTraces)

DoorInit ==
  /\ stage = [c \in Clients |-> "idle"]
  /\ held = [c \in Clients |-> NoTrace]
  /\ audit = [c \in Clients |-> NoAnswer]
  /\ heard = [c \in Clients |-> NoAnswer]
  /\ answer = [c \in Clients |-> NoAnswer]

-----------------------------------------------------------------------------
\* ListDirectCallTools: the MCP server knows no other tools.
Advertised(call) == call.exists /\ call.enabled /\ call.direct /\ call.allowed /\ ~call.dangerous

\* A client comes in.
Arrives(c) ==
  /\ stage[c] = "idle"
  /\ Cardinality({d \in Clients : stage[d] # "idle"}) < MaxCalls

\* A step id is drawn, for an execution or for the trace of a refusal.
Begin(c, call, status, next) ==
  /\ nextStep' = NextStepID
  /\ held' = [held EXCEPT ![c] = [id |-> nextStep', call |-> call, status |-> status]]
  /\ stage' = [stage EXCEPT ![c] = next]

\* callTool of the MCP server: a refusal is traced, too.
McpCall(c, call) ==
  /\ Arrives(c) /\ c \in McpClients
  /\ Advertised(call)
  /\ \/ Evaluate(call) = "deny"  /\ Begin(c, call, "denied", "add")
     \/ Evaluate(call) = "allow" /\ Begin(c, call, "ok", "running")
  /\ UNCHANGED <<store, audit, heard, answer>>

\* toolCallHandler: a refusal is answered without a trace or an audit.
ApiCall(c, call) ==
  /\ Arrives(c) /\ c \in ApiClients
  /\ \/ /\ Evaluate(call) = "deny"
        /\ answer' = [answer EXCEPT ![c] = [decision |-> "deny", trace |-> NoTrace]]
        /\ stage' = [stage EXCEPT ![c] = "done"]
        /\ UNCHANGED <<nextStep, held>>
     \/ Evaluate(call) = "allow" /\ Begin(c, call, "ok", "running") /\ UNCHANGED answer
  /\ UNCHANGED <<store, audit, heard>>

\* osInfoHandler invokes the registry without the gate.
InfoRequest(c) ==
  /\ Arrives(c) /\ c \in InfoClients
  /\ Begin(c, InfoCall, "ok", "running")
  /\ UNCHANGED <<store, audit, heard, answer>>

\* Registry.InvokeWithStepID returns, with or without the tool's error.
DoorToolReturns(c) ==
  /\ stage[c] = "running"
  /\ \E status \in {"ok", "error"} : held' = [held EXCEPT ![c].status = status]
  /\ stage' = [stage EXCEPT ![c] = "add"]
  /\ UNCHANGED <<nextStep, store, audit, heard, answer>>

\* Every door adds the trace before it has it audited, if it does.
AddTrace(c) ==
  /\ stage[c] = "add"
  /\ store' = Append(store, held[c])
  /\ stage' = [stage EXCEPT ![c] = IF c \in InfoClients THEN "answer" ELSE "audit"]
  /\ UNCHANGED <<nextStep, held, audit, heard, answer>>

\* Mistake: any audit's denial is relaxed on harmless ground, the local one too.
NormalizedWhatever(result, byTraceShield, t) ==
  IF result.decision # "deny" \/ t.call.boundary \in {"dangerous", "privileged"}
  THEN result.decision
  ELSE IF t.call.boundary = "sensitive_system_resource" \/ t.call.privileged
       THEN "review" ELSE "allow"

\* normalizeToolCallDecision: a denial by TraceShield is relaxed for a call on
\* harmless ground (operation "execute" is safe_shell's, which the gate refuses).
Normalized(result, byTraceShield, t) ==
  IF \/ result.decision # "deny" \/ ~byTraceShield
     \/ ~TraceAllowed(t) \/ t.call.boundary \in {"dangerous", "privileged"}
  THEN result.decision
  ELSE IF t.call.boundary = "sensitive_system_resource" \/ t.call.privileged
       THEN "review" ELSE "allow"

\* The audit through one door.  audit-core-py names TraceShield as its method,
\* or its own fallback; its fallback in the client never does.
Audited(c, t, reply, shield) ==
  LET result == AuditTrace({t}, reply)
  IN CASE c \in McpClients /\ t.status = "denied" -> [decision |-> "deny", method |-> "tool_policy"]
       [] c \in McpClients /\ t.status # "denied" -> result
       [] c \in ApiClients ->
            [result EXCEPT !.decision = Normalized(result, shield /\ reply # "unavailable", t)]

\* The auditor answers, or the client's own fallback does.
AuditDoor(c) ==
  /\ stage[c] = "audit"
  /\ \E reply \in AuditReplies \cup {"unavailable"}, shield \in BOOLEAN :
       /\ audit' = [audit EXCEPT ![c] = Audited(c, held[c], reply, shield)]
       /\ heard' = [heard EXCEPT ![c] = reply]
  /\ stage' = [stage EXCEPT ![c] = "answer"]
  /\ UNCHANGED <<nextStep, store, held, answer>>

\* Mistake: the answer quotes what was added to the store last.
AnsweredTraceLast(c) == store[Len(store)]

\* The trace an answer carries; that of /api/os/info has the output only.
AnsweredTrace(c) == IF c \in InfoClients THEN NoTrace ELSE held[c]

AnswerClient(c) ==
  /\ stage[c] = "answer"
  /\ answer' = [answer EXCEPT ![c] =
       [decision |-> IF audit[c] = NoAnswer THEN "" ELSE audit[c].decision,
        trace |-> AnsweredTrace(c)]]
  /\ stage' = [stage EXCEPT ![c] = "done"]
  /\ UNCHANGED <<nextStep, store, held, audit, heard>>

Client(c) ==
  \/ \E call \in Calls : McpCall(c, call) \/ ApiCall(c, call)
  \/ InfoRequest(c)
  \/ DoorToolReturns(c)
  \/ AddTrace(c)
  \/ AuditDoor(c)
  \/ AnswerClient(c)

ServerRest ==
  /\ \A r \in Runs : pc[r] = "done"
  /\ \A c \in Clients : stage[c] \in {"idle", "done"}
  /\ Cardinality({c \in Clients : stage[c] = "done"}) = MaxCalls
  /\ UNCHANGED allVars

ServerInit == Init /\ DoorInit

ServerNext ==
  \/ \E r \in Runs : (Request(r) \/ Expire(r)) /\ UNCHANGED doorVars
  \/ \E c \in Clients : Client(c) /\ UNCHANGED loopVars
  \/ ServerRest

ServerSpec == ServerInit /\ [][ServerNext]_allVars

-----------------------------------------------------------------------------
(* Properties *)

\* Whatever came through which door at the same time, an answer quotes the
\* trace of its own call, as it is in the shared store, exactly once there, and
\* no step id of the store names two traces (callTool, toolCallHandler, Add).
AnswersMatchStore ==
  /\ \A i, j \in 1..Len(store) : store[i].id = store[j].id => i = j
  /\ \A c \in Doors : stage[c] = "done" /\ answer[c].trace # NoTrace =>
       /\ answer[c].trace = held[c]
       /\ \E k \in 1..Len(store) : store[k] = answer[c].trace

\* The doors never run what the gate rules out, and a refusal leaves the store
\* either a denied trace or nothing; only /api/os/info runs its call unasked.
GatedDoors ==
  \A k \in 1..Len(store) :
    \/ MayRun(store[k].call) /\ store[k].status # "denied"
    \/ ~MayRun(store[k].call) /\ store[k].status = "denied"
    \/ \E c \in InfoClients : held[c] # NoTrace /\ held[c].id = store[k].id

\* A denial stands at both doors: that of the gate whatever the audit said of
\* it, and that of the local review when audit-core-py did not answer; and
\* while it does not, nobody hears "allow".
DenialsStand ==
  \A c \in Doors : stage[c] = "done" =>
    /\ answer[c].trace = NoTrace => answer[c].decision = "deny"
    /\ answer[c].trace # NoTrace /\ ~MayRun(held[c].call) => answer[c].decision = "deny"
    /\ heard[c] = "unavailable" =>
         answer[c].decision = IF IsDeniedTrace(held[c]) \/ IsDangerousTrace(held[c])
                              THEN "deny" ELSE IF MayRun(held[c].call) THEN "review" ELSE "deny"

\* The loop and the doors together implement the ledger of audited calls, each
\* client being one more owner; a call of /api/os/info is opened and never
\* entered, since nobody audits it.
ServerLedger == INSTANCE AuditLedger WITH
  Owners   <- Runs \cup Clients,
  NoEntry  <- NoTrace,
  NoAnswer <- NoResponse,
  serial   <- nextStep,
  open     <- [o \in Runs \cup Clients |->
                 IF o \in Runs
                 THEN IF pending[o] = NoTrace THEN NoTrace
                      ELSE [number |-> pending[o].id, kind |-> Kind(pending[o].status)]
                 ELSE IF \/ stage[o] \in {"running", "add", "audit"}
                         \/ o \in InfoClients /\ stage[o] # "idle"
                      THEN [number |-> held[o].id, kind |-> Kind(held[o].status)]
                      ELSE NoTrace],
  ledger   <- [o \in Runs \cup Clients |->
                 IF o \in Runs
                 THEN [i \in 1..Len(steps[o]) |->
                        [number  |-> steps[o][i].report.id,
                         kind    |-> Kind(steps[o][i].observation),
                         verdict |-> steps[o][i].report.decision]]
                 ELSE IF audit[o] = NoAnswer THEN <<>>
                      ELSE <<[number  |-> held[o].id,
                              kind    |-> Kind(held[o].status),
                              verdict |-> audit[o].decision]>>],
  answer   <- [o \in Runs \cup Clients |->
                 IF o \in Runs
                 THEN IF response[o] = NoResponse THEN NoResponse ELSE response[o].decision
                 ELSE IF o \in InfoClients \/ answer[o] = NoAnswer THEN NoResponse
                 ELSE answer[o].decision]

ServerImplementsLedger == ServerLedger!LedgerSpec
=============================================================================
