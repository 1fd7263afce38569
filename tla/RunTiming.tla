----------------------------- MODULE RunTiming -----------------------------
(***************************************************************************)
(* One POST /api/agent/run against the clock: the retries of the remote    *)
(* model (internal/eino/remote_llm_adapter.go), the commands of a tool     *)
(* under the execution proxy (internal/execproxy/executor.go), the audit,  *)
(* the request's own deadline (cmd/server/main.go) and the proxy of the    *)
(* frontend that waits for the answer.  What is decided and recorded on    *)
(* the way is AgentRun's subject; here it is a choice.                     *)
(*                                                                         *)
(* Time is in seconds since the server read the request's header.  A Tick  *)
(* passes only if nothing is due: every time-out and every wait for the    *)
(* context ends when it should, and local computation takes no time.       *)
(***************************************************************************)
EXTENDS Naturals

CONSTANTS
  CallTimeout,     \* http.Client of the remote adapter, per attempt
  CommandTimeout,  \* the longest Timeout of a CommandSpec
  MaxCommands,     \* the most commands one tool runs
  AuditTimeout,    \* http.Client of the audit client
  RunDeadline,     \* agentRequestTimeout
  WriteTimeout,    \* of http.Server
  ProxyTimeout,    \* backendTimeoutMs
  MaxSteps,
  NotYet

ASSUME TimingAssumption ==
  /\ CallTimeout \in Nat \ {0} /\ CommandTimeout \in Nat \ {0}
  /\ AuditTimeout \in Nat \ {0} /\ RunDeadline \in Nat \ {0}
  /\ WriteTimeout \in Nat \ {0} /\ ProxyTimeout \in Nat \ {0}
  /\ MaxSteps \in Nat \ {0}
  /\ MaxCommands \in Nat
  /\ NotYet \notin Nat

VARIABLES
  now,
  pc,        \* where the handler is
  wire,      \* of a call of the remote model: what doHTTPRequestWithRetry does
  attempt,   \* its loop variable
  began,     \* when the call began
  since,     \* when the current wait began
  commands,  \* the commands the tool still has to run
  steps,     \* len(steps) of the loop
  over,      \* the request's context is done
  client,    \* what the proxy in front of the server knows
  saved,     \* the run is in the run store
  doomed     \* history: when the client left or the deadline passed

callVars == <<wire, attempt, began>>
vars == <<now, pc, callVars, since, commands, steps, over, client, saved, doomed>>

MaxRetries == 2    \* the argument of doHTTPRequestWithRetry

Remote == {"router", "chat", "model"}
Points == Remote \cup {"tool", "audit", "save", "write", "done"}
Wires  == {"ready", "sent", "backoff"}

TypeOK ==
  /\ now \in Nat
  /\ pc \in Points
  /\ wire \in Wires
  /\ attempt \in 0..MaxRetries
  /\ began \in 0..now /\ since \in 0..now
  /\ commands \in 0..MaxCommands
  /\ steps \in 0..MaxSteps
  /\ over \in BOOLEAN
  /\ client \in {"waiting", "answered", "cut", "expired", "gone"}
  /\ saved \in BOOLEAN
  /\ doomed \in 0..now \cup {NotYet}

Init ==
  /\ now = 0
  /\ pc = "router" /\ wire = "ready" /\ attempt = 0 /\ began = 0 /\ since = 0
  /\ commands = 0 /\ steps = 0
  /\ over = FALSE /\ client = "waiting" /\ saved = FALSE
  /\ doomed = NotYet

-----------------------------------------------------------------------------
(* The remote model *)

InCall(w) == pc \in Remote /\ wire = w

\* callChatCompletions for the router, the chat or the next action.
BeginCall(point) ==
  pc' = point /\ wire' = "ready" /\ attempt' = 0 /\ began' = now /\ since' = now

\* Mistake: the backoff does not grow.
DelayConstant(k) == 1

\* Exponential backoff, before the k-th retry: 1s, then 2s.
Delay(k) == IF k = 2 THEN 2 ELSE 1

\* After a call: the conservative route replaces a router that failed, and the
\* deterministic planner an action that did; a failed chat has a fixed answer.
AfterCall ==
  \/ /\ pc = "router"
     /\ \/ BeginCall("chat") \/ BeginCall("model")
        \/ pc' = "save" /\ since' = now /\ UNCHANGED callVars
     /\ UNCHANGED commands
  \/ /\ pc = "chat"
     /\ pc' = "save" /\ since' = now
     /\ UNCHANGED <<callVars, commands>>
  \/ /\ pc = "model"
     /\ \/ pc' = "save" /\ UNCHANGED commands
        \/ pc' = "tool" /\ commands' \in 0..MaxCommands
        \/ pc' = "audit" /\ UNCHANGED commands    \* the gate refuses the call
     /\ since' = now /\ UNCHANGED callVars

\* client.Do sends the request, unless the context is done.
Send ==
  /\ InCall("ready") /\ ~over
  /\ wire' = "sent" /\ since' = now
  /\ UNCHANGED <<now, pc, attempt, began, commands, steps, over, client, saved, doomed>>

\* Not sent, or given up: neither a done context nor a lasting failure (another
\* status, a body that breaks off or is too long) is retried.  Or: an answer.
CallEnds ==
  /\ \/ InCall("ready") /\ over
     \/ InCall("sent")
     \/ InCall("backoff") /\ over
  /\ AfterCall
  /\ UNCHANGED <<now, steps, over, client, saved, doomed>>

\* A network error, the client's time-out, or status 429, 502, 503 or 504.
TransientFailure ==
  /\ InCall("sent") /\ ~over
  /\ attempt < MaxRetries
  /\ wire' = "backoff" /\ attempt' = attempt + 1 /\ since' = now
  /\ UNCHANGED <<now, pc, began, commands, steps, over, client, saved, doomed>>

BackoffEnds ==
  /\ InCall("backoff") /\ now >= since + Delay(attempt)
  /\ wire' = "ready" /\ since' = now
  /\ UNCHANGED <<now, pc, attempt, began, commands, steps, over, client, saved, doomed>>

-----------------------------------------------------------------------------
(* A tool and its audit *)

\* Executor.Execute returns: the command ended, timed out or was killed.
CommandEnds ==
  /\ pc = "tool" /\ commands > 0
  /\ commands' = commands - 1 /\ since' = now
  /\ UNCHANGED <<now, pc, callVars, steps, over, client, saved, doomed>>

ToolEnds ==
  /\ pc = "tool" /\ commands = 0
  /\ pc' = "audit" /\ since' = now
  /\ UNCHANGED <<now, callVars, commands, steps, over, client, saved, doomed>>

MoreSteps(n) == n < MaxSteps

\* The audit answers, or its local fallback does; the loop goes on.
AuditEnds ==
  /\ pc = "audit"
  /\ steps' = steps + 1
  /\ \/ MoreSteps(steps') /\ BeginCall("model")
     \/ ~MoreSteps(steps') /\ pc' = "save" /\ since' = now /\ UNCHANGED callVars
  /\ UNCHANGED <<now, commands, over, client, saved, doomed>>

-----------------------------------------------------------------------------
(* The handler's end, and the client *)

\* Mistake: a run whose request is over is not saved.
SavedUnlessOver == ~over

\* agentRunHandler saves whatever the run came to, without the context.
Saved == TRUE

Save ==
  /\ pc = "save"
  /\ saved' = Saved /\ pc' = "write"
  /\ UNCHANGED <<now, callVars, since, commands, steps, over, client, doomed>>

\* writeJSON: past the server's WriteTimeout the connection is closed instead.
Write ==
  /\ pc = "write"
  /\ client' = IF client # "waiting" THEN client
               ELSE IF now < WriteTimeout THEN "answered" ELSE "cut"
  /\ pc' = "done"
  /\ UNCHANGED <<now, callVars, since, commands, steps, over, saved, doomed>>

Doom == doomed' = IF doomed = NotYet THEN now ELSE doomed

\* AbortSignal.timeout in the proxy, or the user who closes the page.
ClientTimesOut ==
  /\ client = "waiting" /\ now >= ProxyTimeout
  /\ client' = "expired" /\ Doom
  /\ UNCHANGED <<now, pc, callVars, since, commands, steps, over, saved>>

ClientLeaves ==
  /\ client = "waiting"
  /\ client' = "gone" /\ Doom
  /\ UNCHANGED <<now, pc, callVars, since, commands, steps, over, saved>>

\* The context ends with its deadline or with the client's connection.
ContextDue == ~over /\ pc # "done"
              /\ (now >= RunDeadline \/ client \in {"expired", "gone"})

ContextEnds ==
  /\ ContextDue
  /\ over' = TRUE /\ Doom
  /\ UNCHANGED <<now, pc, callVars, since, commands, steps, client, saved>>

-----------------------------------------------------------------------------
\* Mistake: the backoff sleeps without looking at the context.
MayWaitAsleep ==
  \/ InCall("sent")    /\ ~over /\ now < since + CallTimeout
  \/ InCall("backoff") /\ now < since + Delay(attempt)
  \/ pc = "tool"  /\ ~over /\ commands > 0 /\ now < since + CommandTimeout
  \/ pc = "audit" /\ ~over /\ now < since + AuditTimeout

\* Mistake: the remote adapter's client has no time-out of its own.
MayWaitForever ==
  \/ InCall("sent")    /\ ~over
  \/ InCall("backoff") /\ ~over /\ now < since + Delay(attempt)
  \/ pc = "tool"  /\ ~over /\ commands > 0 /\ now < since + CommandTimeout
  \/ pc = "audit" /\ ~over /\ now < since + AuditTimeout

\* What may still be waited for: every wait ends with its time-out or with the
\* context (NewRequestWithContext, the select of the backoff, CommandContext).
MayWait ==
  \/ InCall("sent")    /\ ~over /\ now < since + CallTimeout
  \/ InCall("backoff") /\ ~over /\ now < since + Delay(attempt)
  \/ pc = "tool"  /\ ~over /\ commands > 0 /\ now < since + CommandTimeout
  \/ pc = "audit" /\ ~over /\ now < since + AuditTimeout

Tick ==
  /\ MayWait
  /\ ~ContextDue
  /\ ~(client = "waiting" /\ now >= ProxyTimeout)
  /\ now' = now + 1
  /\ UNCHANGED <<pc, callVars, since, commands, steps, over, client, saved, doomed>>

Handler == Send \/ CallEnds \/ TransientFailure \/ BackoffEnds \/ CommandEnds
           \/ ToolEnds \/ AuditEnds \/ Save \/ Write

Next == Handler \/ ClientTimesOut \/ ClientLeaves \/ ContextEnds \/ Tick

Spec == Init /\ [][Next]_vars

-----------------------------------------------------------------------------
(* Properties *)

\* However a remote call fails and is retried, it takes no longer than three
\* attempts and the two backoffs (doHTTPRequestWithRetry).
CallBounded == pc \in Remote => now <= began + 3 * CallTimeout + 3

\* A model that rejects requests is given the time that the backoff promises:
\* the second request of a call goes out a second after the call began at the
\* earliest, and the third one three seconds after.
RetriesSpaced ==
  InCall("sent") => /\ attempt = 1 => now >= began + 1
                    /\ attempt = 2 => now >= began + 3

\* A run whose client has gone or whose deadline has passed is over within the
\* second, whatever it was waiting for: the model, a backoff, a command or the
\* audit; no run outlives agentRequestTimeout.
EndsPromptly ==
  pc # "done" => /\ doomed # NotYet => now = doomed
                 /\ now <= RunDeadline

\* Whatever became of the client, the run can be found in the history when its
\* handler is through, and before anybody is told of it.
RunsAreKept == pc = "done" \/ client \in {"answered", "cut"} => saved

\* A client that waits for its run hears of it: the answer of a run within its
\* deadline, or an error that says what happened (agentRunHandler).
WaitingClientHears == client # "cut"
=============================================================================
