------------------------------ MODULE AgentRun ------------------------------
(***************************************************************************)
(* Concurrent POST /api/agent/run-eino requests inside one server process: *)
(* the Eino runtime (internal/eino/runtime.go), the agent loop it drives   *)
(* (internal/agentloop/engine.go, executor.go), the generators it takes    *)
(* the next action from (internal/eino/agent_loop_adapter.go), and what    *)
(* the requests share: the step-id sequence and the global trace store     *)
(* (internal/logtrace).                                                    *)
(*                                                                         *)
(* Each request is one goroutine, whose program counter is pc[r].  One     *)
(* action stands for the code between two points where another request,    *)
(* the audit service, the remote model or the request's deadline can get   *)
(* in between.                                                             *)
(***************************************************************************)
EXTENDS Naturals, Sequences, AuditClient

CONSTANTS
  Runs,              \* the requests
  Names,             \* tool names, as far as they tell calls apart
  Calls,             \* the tool calls a model may ask for
  PlannedCalls,      \* those the deterministic planner may ask for
  AuditReplies,      \* what audit-core-py may answer
  MaxSteps,          \* RuntimeConfig.AgentMaxSteps, after normalisation
  RemoteConfigured,  \* LLMEnabled and a provider other than "deterministic"
  KeyPresent,        \* LLMAPIKey is not empty
  CanExpire,         \* the requests whose 180 s deadline may pass
  Final,             \* the action "final_answer"
  NoCall, NoTrace, NoResponse

ASSUME CallsAssumption ==
  /\ Calls \subseteq ToolCall(Names)
  /\ PlannedCalls \subseteq Calls
  /\ AuditReplies \subseteq Replies
ASSUME ConfigAssumption ==
  /\ MaxSteps \in Nat \ {0}
  /\ RemoteConfigured \in BOOLEAN
  /\ KeyPresent \in BOOLEAN
  /\ CanExpire \subseteq Runs
ASSUME NoneAssumption ==
  /\ Final \notin Calls
  /\ NoCall \notin Calls
  /\ NoTrace \notin Trace(Calls)
  /\ NoTrace \notin [number : Nat, kind : {"refused", "executed"}]

VARIABLES
  nextStep,    \* logtrace.stepSequence
  store,       \* logtrace.Store.traces, shared by every request
  pc,          \* where each request is
  expired,     \* the request's context is done
  steps,       \* AgentResponse.AgentSteps, so far
  traces,      \* ToolStepExecutor.traces of the request
  chosen,      \* the call of the action being carried out
  pending,     \* the trace of the call being carried out
  used,        \* FallbackOutcome.used of the request
  published,   \* how many of its traces are in the store
  response,    \* what Run returned
  generators,  \* history: which generators supplied an action
  late         \* history: executions begun after the deadline

vars == <<nextStep, store, pc, expired, steps, traces, chosen, pending, used,
          published, response, generators, late>>

\* A configured remote model drives routing and the loop only with a key.
RemoteDrives == RemoteConfigured /\ KeyPresent

Pcs == {"idle", "route", "generate", "gate", "running", "audit", "publish", "done"}
Interactions == {"agent_run", "chat", "clarify", "safe_refusal"}

\* agentloop.AuditReport and agentloop.AgentStep.
Report == [id : Nat \ {0}, index : Nat \ {0}, decision : Decisions, method : Methods]
Step == [call : Calls, policy : {"allow", "deny"}, observation : Statuses, report : Report]

\* agent.AgentRunResponse with the model metadata of its security report.
Response == [type : Interactions, decision : Decisions,
             status : {"completed", "blocked"},
             remoteUsed : BOOLEAN, fallbackUsed : BOOLEAN]
ASSUME ResponseAssumption == NoResponse \notin Response

TypeOK ==
  /\ nextStep \in Nat
  /\ store \in Seq(Trace(ToolCall(Names)))
  /\ pc \in [Runs -> Pcs]
  /\ expired \in [Runs -> BOOLEAN]
  /\ steps \in [Runs -> Seq(Step)]
  /\ traces \in [Runs -> Seq(Trace(Calls))]
  /\ chosen \in [Runs -> Calls \cup {NoCall}]
  /\ pending \in [Runs -> Trace(Calls) \cup {NoTrace}]
  /\ used \in [Runs -> BOOLEAN]
  /\ published \in [Runs -> Nat]
  /\ response \in [Runs -> Response \cup {NoResponse}]
  /\ generators \in [Runs -> SUBSET {"remote", "deterministic"}]
  /\ late \in [Runs -> Nat]

Init ==
  /\ nextStep = 0
  /\ store = <<>>
  /\ pc = [r \in Runs |-> "idle"]
  /\ expired = [r \in Runs |-> FALSE]
  /\ steps = [r \in Runs |-> <<>>]
  /\ traces = [r \in Runs |-> <<>>]
  /\ chosen = [r \in Runs |-> NoCall]
  /\ pending = [r \in Runs |-> NoTrace]
  /\ used = [r \in Runs |-> FALSE]
  /\ published = [r \in Runs |-> 0]
  /\ response = [r \in Runs |-> NoResponse]
  /\ generators = [r \in Runs |-> {}]
  /\ late = [r \in Runs |-> 0]

-----------------------------------------------------------------------------
\* A response that ran no agent loop carries no model metadata.
Answer(r, type, decision, status) ==
  /\ response' = [response EXCEPT ![r] =
       [type |-> type, decision |-> decision, status |-> status,
        remoteUsed |-> FALSE, fallbackUsed |-> FALSE]]
  /\ pc' = [pc EXCEPT ![r] = "done"]

LoopUnchanged == UNCHANGED <<nextStep, store, steps, traces, chosen, pending,
                             used, published, generators, late>>

\* Runtime.Run up to the intent guard, which denies a dangerous task outright.
Guard(r) ==
  /\ pc[r] = "idle"
  /\ \/ Answer(r, "safe_refusal", "deny", "blocked")
     \/ pc' = [pc EXCEPT ![r] = "route"] /\ UNCHANGED response
  /\ LoopUnchanged /\ UNCHANGED expired

\* routeInteraction: the remote router may say anything, but answers nothing
\* once the deadline has passed; ConservativeRoute knows two interactions.
Routes(r) ==
  {"agent_run", "chat"} \cup (IF RemoteDrives /\ ~expired[r] THEN Interactions ELSE {})

Route(r) ==
  /\ pc[r] = "route"
  /\ \E route \in Routes(r) :
       \/ /\ route = "agent_run"
          /\ pc' = [pc EXCEPT ![r] = "generate"]
          /\ UNCHANGED response
       \/ route \in {"chat", "clarify"} /\ Answer(r, route, "allow", "completed")
       \/ route = "safe_refusal" /\ Answer(r, route, "deny", "blocked")
  /\ LoopUnchanged /\ UNCHANGED expired

-----------------------------------------------------------------------------
\* Mistake: the loop goes on after a final answer.
ActWithoutFinish(r, action) ==
  IF action = Final
  THEN UNCHANGED <<pc, chosen>>
  ELSE pc' = [pc EXCEPT ![r] = "gate"] /\ chosen' = [chosen EXCEPT ![r] = action]

\* Engine.Run, acting on what the generator returned: a final answer ends the
\* loop, a tool call goes to the gate.
Act(r, action) ==
  IF action = Final
  THEN pc' = [pc EXCEPT ![r] = "publish"] /\ UNCHANGED chosen
  ELSE pc' = [pc EXCEPT ![r] = "gate"] /\ chosen' = [chosen EXCEPT ![r] = action]

\* Mistake: the planner starts over on every call.
DeterministicActionsAgain(r) == {Final} \cup PlannedCalls

\* What DeterministicAgentAdapter may return: nothing but a final answer once
\* there is a step.
DeterministicActions(r) ==
  {Final} \cup (IF steps[r] = <<>> THEN PlannedCalls ELSE {})

\* Mistake: the outcome is that of the last call, not of all calls.
RecordLast(r, fell) == used' = [used EXCEPT ![r] = fell]

\* FallbackOutcome.record: a later success does not undo a fallback.
Record(r, fell) == used' = [used EXCEPT ![r] = @ \/ fell]

\* The remote model answers, before the deadline.
GenerateRemote(r) ==
  /\ pc[r] = "generate"
  /\ Len(steps[r]) < MaxSteps
  /\ RemoteDrives /\ ~expired[r]
  /\ \E action \in Calls \cup {Final} : Act(r, action)
  /\ Record(r, FALSE)
  /\ generators' = [generators EXCEPT ![r] = @ \cup {"remote"}]
  /\ UNCHANGED <<nextStep, store, expired, steps, traces, pending, published,
                 response, late>>

\* No remote model drives the loop, or its call or its answer failed, which
\* FallbackOutcome records for the rest of the request.
GenerateDeterministic(r) ==
  /\ pc[r] = "generate"
  /\ Len(steps[r]) < MaxSteps
  /\ \E action \in DeterministicActions(r) : Act(r, action)
  /\ Record(r, RemoteDrives)
  /\ generators' = [generators EXCEPT ![r] = @ \cup {"deterministic"}]
  /\ UNCHANGED <<nextStep, store, expired, steps, traces, pending, published,
                 response, late>>

\* The loop has spent its steps and summarises them.
StepsExhausted(r) ==
  /\ pc[r] = "generate"
  /\ Len(steps[r]) >= MaxSteps
  /\ pc' = [pc EXCEPT ![r] = "publish"]
  /\ UNCHANGED <<nextStep, store, expired, steps, traces, chosen, pending, used,
                 published, response, generators, late>>

-----------------------------------------------------------------------------
\* Mistake: the sequence is read, but not advanced.
LoadStepID == IF nextStep = 0 THEN 1 ELSE nextStep

\* logtrace.NextStepID, an atomic addition.
NextStepID == nextStep + 1

\* The policy check of executeStep.  A refused call takes a step id for the
\* trace synthesised in its place; an allowed one takes its id where
\* Registry.InvokeWithStepID begins the execution.
Gate(r) ==
  /\ pc[r] = "gate"
  /\ nextStep' = NextStepID
  /\ IF Evaluate(chosen[r]) = "deny"
     THEN /\ pending' = [pending EXCEPT ![r] =
               [id |-> nextStep', call |-> chosen[r], status |-> "denied"]]
          /\ pc' = [pc EXCEPT ![r] = "audit"]
          /\ UNCHANGED late
     ELSE /\ pending' = [pending EXCEPT ![r] =
               [id |-> nextStep', call |-> chosen[r], status |-> "ok"]]
          /\ pc' = [pc EXCEPT ![r] = "running"]
          /\ late' = [late EXCEPT ![r] = IF expired[r] THEN @ + 1 ELSE @]
  /\ UNCHANGED <<store, expired, steps, traces, chosen, used, published,
                 response, generators>>

\* The tool returns, or fails: ExecuteTool keeps the trace either way.
ToolReturns(r) ==
  /\ pc[r] = "running"
  /\ \E status \in {"ok", "error"} :
       traces' = [traces EXCEPT ![r] = Append(@, [pending[r] EXCEPT !.status = status])]
  /\ pc' = [pc EXCEPT ![r] = "audit"]
  /\ UNCHANGED <<nextStep, store, expired, steps, chosen, pending, used,
                 published, response, generators, late>>

\* Mistake: the auditor is handed the first trace of the request.
FirstTrace(r) == traces[r][1]

\* ToolStepExecutor.LastTrace.
LastTrace(r) == traces[r][Len(traces[r])]

\* The trace executeStep hands to the auditor.
AuditedTrace(r) == IF pending[r].status = "denied" THEN pending[r] ELSE LastTrace(r)

\* Mistake: the audit's verdict stands even for a call the policy refused.
StepReportAsAudited(t, index, reply) ==
  [id       |-> t.id,
   index    |-> index,
   decision |-> AuditTrace({t}, reply).decision,
   method   |-> AuditTrace({t}, reply).method]

\* auditStepSafe with the report's id, index and tool overridden by the step's,
\* and with the verdict of a refused call overridden by the policy's.
StepReport(t, index, reply) ==
  LET result == AuditTrace({t}, reply)
      denied == t.status = "denied"
  IN [id       |-> t.id,
      index    |-> index,
      decision |-> IF denied THEN "deny" ELSE result.decision,
      method   |-> IF denied THEN "tool_policy" ELSE result.method]

\* What the auditor can hear from audit-core-py within the request's context.
RepliesTo(r) == IF expired[r] THEN {"unavailable"} ELSE AuditReplies \cup {"unavailable"}

\* The audit ends the step, which Engine.Run appends to the history.
Audit(r) ==
  /\ pc[r] = "audit"
  /\ \E reply \in RepliesTo(r) :
       LET t == AuditedTrace(r)
       IN steps' = [steps EXCEPT ![r] = Append(@,
            [call        |-> chosen[r],
             policy      |-> IF t.status = "denied" THEN "deny" ELSE "allow",
             observation |-> t.status,
             report      |-> StepReport(t, Len(steps[r]) + 1, reply)])]
  /\ chosen' = [chosen EXCEPT ![r] = NoCall]
  /\ pending' = [pending EXCEPT ![r] = NoTrace]
  /\ pc' = [pc EXCEPT ![r] = "generate"]
  /\ UNCHANGED <<nextStep, store, expired, traces, used, published, response,
                 generators, late>>

-----------------------------------------------------------------------------
\* Mistake: the traces are published from the last to the first.
NextPublishedBackwards(r) == traces[r][Len(traces[r]) - published[r]]

NextPublished(r) == traces[r][published[r] + 1]

\* runAgentLoop copies the executor's traces into the shared store, one Add at
\* a time, so that the traces of concurrent requests may interleave there.
Publish(r) ==
  /\ pc[r] = "publish"
  /\ published[r] < Len(traces[r])
  /\ store' = Append(store, NextPublished(r))
  /\ published' = [published EXCEPT ![r] = @ + 1]
  /\ UNCHANGED <<nextStep, pc, expired, steps, traces, chosen, pending, used,
                 response, generators, late>>

\* aggregateAuditFromSteps: the worst of the step reports, "allow" without any.
Reported(r) == {steps[r][i].report.decision : i \in 1..Len(steps[r])}
Aggregate(D) ==
  CASE "deny" \in D -> "deny"
    [] "deny" \notin D /\ "review" \in D -> "review"
    [] OTHER -> "allow"

\* Mistake: the final answer's decision replaces that of the steps.
LoopDecisionOfAnswer(r) == "review"

\* Every loop ends with some final answer, which asks for a review at least.
LoopDecision(r) == IF Aggregate(Reported(r)) = "deny" THEN "deny" ELSE "review"

\* The rest of runAgentLoop: the response, with attachLLMMetadata's claims.
Respond(r) ==
  /\ pc[r] = "publish"
  /\ published[r] >= Len(traces[r])
  /\ response' = [response EXCEPT ![r] =
       [type |-> "agent_run", decision |-> LoopDecision(r), status |-> "completed",
        remoteUsed |-> RemoteConfigured /\ ~used[r], fallbackUsed |-> used[r]]]
  /\ pc' = [pc EXCEPT ![r] = "done"]
  /\ UNCHANGED <<nextStep, store, expired, steps, traces, chosen, pending, used,
                 published, generators, late>>

\* The environment: agentRunHandler's deadline passes, or the client goes.
Expire(r) ==
  /\ r \in CanExpire
  /\ ~expired[r]
  /\ pc[r] \notin {"idle", "done"}
  /\ expired' = [expired EXCEPT ![r] = TRUE]
  /\ UNCHANGED <<nextStep, store, pc, steps, traces, chosen, pending, used,
                 published, response, generators, late>>

-----------------------------------------------------------------------------
Request(r) ==
  \/ Guard(r)
  \/ Route(r)
  \/ GenerateRemote(r)
  \/ GenerateDeterministic(r)
  \/ StepsExhausted(r)
  \/ Gate(r)
  \/ ToolReturns(r)
  \/ Audit(r)
  \/ Publish(r)
  \/ Respond(r)

\* Every request is answered: the system may rest.
Rest == (\A r \in Runs : pc[r] = "done") /\ UNCHANGED vars

Next == (\E r \in Runs : Request(r) \/ Expire(r)) \/ Rest

Spec == Init /\ [][Next]_vars

\* Every call the goroutine waits on is bounded: the remote model by its HTTP
\* time-out and its three attempts, a tool by the execution proxy's time-out,
\* the audit by a 5 s time-out.  Nothing makes a deadline pass.
FairSpec == Spec /\ \A r \in Runs : WF_vars(Request(r))

-----------------------------------------------------------------------------
(* Properties *)

\* The ids of the audit reports of r, and the id of the call it has in hand.
ReportIds(r) == {steps[r][i].report.id : i \in 1..Len(steps[r])}
PendingIds(r) == IF pending[r] = NoTrace THEN {} ELSE {pending[r].id}

\* No step id names two calls, of one request or of two: an id names exactly
\* one report of one request, and never a call still being carried out
\* (logtrace.NextStepID under concurrent requests).
StepIdsUnique ==
  /\ \A r, q \in Runs : r # q =>
       (ReportIds(r) \cup PendingIds(r)) \cap (ReportIds(q) \cup PendingIds(q)) = {}
  /\ \A r \in Runs : \A i, j \in 1..Len(steps[r]) :
       steps[r][i].report.id = steps[r][j].report.id => i = j
  /\ \A r \in Runs : ReportIds(r) \cap PendingIds(r) = {}

\* "Every tool call must have audit evidence": an allowed step is audited on
\* the trace of its own execution, which the executor kept, never on that of an
\* earlier step; and a refused step has a report but no execution behind it
\* (executeStep, LastTrace).
OnOwnTrace(r, i) ==
  \E k \in 1..Len(traces[r]) :
    /\ traces[r][k].id = steps[r][i].report.id
    /\ traces[r][k].call = steps[r][i].call
    /\ traces[r][k].status = steps[r][i].observation
ReportsOnOwnTrace ==
  \A r \in Runs : \A i \in 1..Len(steps[r]) :
    LET report == steps[r][i].report
    IN /\ report.index = i
       /\ IF steps[r][i].policy = "allow"
          THEN OnOwnTrace(r, i)
          ELSE \A k \in 1..Len(traces[r]) : traces[r][k].id # report.id

\* A call the registry or the policy rules out is never executed by anyone,
\* whichever generator asked for it: not in a request's executor, hence not in
\* the shared store.  Stated on what the tool's metadata and arguments say.
MayRun(c) == /\ c.named /\ c.exists /\ c.enabled /\ c.direct /\ c.allowed
             /\ ~c.dangerous /\ c.knownArgs /\ c.cleanArgs /\ c.validArgs
OnlyPermittedCallsRun ==
  /\ \A r \in Runs : \A k \in 1..Len(traces[r]) : MayRun(traces[r][k].call)
  /\ \A r \in Runs : pc[r] = "running" => MayRun(pending[r].call)
  /\ \A k \in 1..Len(store) : MayRun(store[k].call)

\* The answer of a request that ran the loop is never milder than the audit of
\* any of its steps, and it denies when the policy refused a call, even if the
\* audit service called that refusal harmless (aggregateAuditFromSteps).
VerdictCoversSteps ==
  \A r \in Runs : pc[r] = "done" /\ response[r].type = "agent_run" =>
    /\ "deny" \in Reported(r) => response[r].decision = "deny"
    /\ (\E i \in 1..Len(steps[r]) : steps[r][i].policy = "deny") => response[r].decision = "deny"
    /\ response[r].decision # "allow"

\* The executions of a request reach the shared store each exactly once and in
\* their order, interleaved with those of others but never mixed up; all of
\* them are there when the request is answered (runAgentLoop, Store.Add).
\* `at' is where the store has each of them.
StoreHoldsRun ==
  \A r \in Runs :
    /\ \E at \in [1..published[r] -> 1..Len(store)] :
         /\ \A j, k \in 1..published[r] : j < k => at[j] < at[k]
         /\ \A k \in 1..published[r] : store[at[k]] = traces[r][k]
         /\ \A i \in 1..Len(store) :
              (\E k \in 1..Len(traces[r]) : traces[r][k].id = store[i].id) =>
                \E k \in 1..published[r] : at[k] = i
    /\ pc[r] = "done" => published[r] = Len(traces[r])

\* remote_llm_used is only claimed for a request whose every action came from
\* the remote model: one action of the deterministic planner, early or late,
\* takes the claim away for good (FallbackOutcome.record).
RemoteClaimHolds ==
  \A r \in Runs : response[r] # NoResponse /\ response[r].remoteUsed =>
    generators[r] \subseteq {"remote"}

\* After the request's deadline, or after its client has gone, at most one more
\* tool execution begins: the generators' fallback keeps the loop going, but it
\* may only finish once there is a step.
DeadlineStopsTools == \A r \in Runs : late[r] <= 1

\* Every request is answered, however often the model fails or asks for
\* refused calls and whether or not the audit service is there.
RequestsAnswered == \A r \in Runs : pc[r] = "route" ~> pc[r] = "done"

\* The loop implements the ledger of audited calls.
Kind(status) == IF status = "denied" THEN "refused" ELSE "executed"
Ledger == INSTANCE AuditLedger WITH
  Owners   <- Runs,
  NoEntry  <- NoTrace,
  NoAnswer <- NoResponse,
  serial   <- nextStep,
  open     <- [r \in Runs |-> IF pending[r] = NoTrace THEN NoTrace
                 ELSE [number |-> pending[r].id, kind |-> Kind(pending[r].status)]],
  ledger   <- [r \in Runs |-> [i \in 1..Len(steps[r]) |->
                 [number  |-> steps[r][i].report.id,
                  kind    |-> Kind(steps[r][i].observation),
                  verdict |-> steps[r][i].report.decision]]],
  answer   <- [r \in Runs |-> IF response[r] = NoResponse THEN NoResponse
                 ELSE response[r].decision]

ImplementsLedger == Ledger!LedgerSpec
=============================================================================
