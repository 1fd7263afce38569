# KylinGuard: a TLA+ verification project

KylinGuard is a read-only operations agent for Linux hosts. A Go server
(`agent-go`) takes a task in natural language, lets a language model (or a
deterministic stub) choose tool calls, gates each call with a fixed policy, runs
it, has it audited by a Python service (`audit-core-py`, with a local fallback),
answers with a decision, and keeps the runs in a bounded history on disk. The
frontend shows the history.

This directory models the parts of that program where order, failure and
concurrency decide whether it is right, or where the same rule is written in
several places; it checks them with TLC on small instances and proves, with TLAPS
and for every instance, all of their safety properties and refinements.

    tlasany M.tla                                   parse
    tlc -workers 2 -config X.cfg M                  model-check
    tlapm M.tla                                     check the proofs of M, which is one of
        AgentRunProofs  ToolGatewayProofs     ToolCallsProofs       RunPagesProofs
        RunStoreProofs  RunStoreSQLiteProofs  ReasoningTraceProofs  RunTimingProofs

## 1. Inventory

Paths are below `src/agent-go/` unless they say otherwise.

| Component | State | Operations | Interacts with |
|---|---|---|---|
| Agent loop and Eino runtime: `internal/eino/runtime.go`, `agent_loop_adapter.go`, `fallback_adapter.go`, `step_auditor.go`, `internal/agentloop/*` | per request: steps, executor traces, fallback outcome, reasoning trace | intent guard, interaction routing, next action (remote, or fallback), policy gate, execution, audit of each step, publication of the traces, aggregation | everything below; one goroutine per request |
| Tool policy: `internal/security/tool_policy.go` | none | Evaluate, with a check of each tool's arguments | agent loop, MCP server, tools API |
| Metadata and semantics: `internal/tools/metadata.go`, `semantic.go`, `catalog.go` | two tables | what clients and the gate read; what traces are stamped with | policy, registry, auditors |
| Tools: `internal/tools/*` | none | one handler per tool: commands, reads, a dial, a wait | execution proxy; the host |
| Execution proxy: `internal/execproxy/*` | none | command policy, run with time-out, truncate | the tools |
| Step ids and trace store: `internal/logtrace/*` | atomic counter; one slice of traces for the process | NextStepID, Add, List | shared by all requests, the MCP server, `/api/tools/call`, `/api/os/info` |
| Audit client: `internal/auditclient/client.go` | none | AuditTrace with local fallback | audit-core-py over HTTP, 5 s time-out |
| Audit core: `src/audit-core-py/app/*` | none | evaluate a trace, with a fallback of its own | audit client; an evaluator that is not in the repository |
| Risk graph: `internal/auditclient/semantic_graph.go` | none | nodes, edges, hotspots, crossings, path of a run | stored with the run |
| Run store, JSON: `cmd/server/agent_run_store.go` | order, runs, latest, limit; `<id>.json`, `index.json` | Save (evict, write run, write index), Get, List, load, rebuild | handlers; the file system |
| Run store, SQLite (default): `cmd/server/agent_run_sqlite_store.go` | the same in memory; tables | Save in one transaction, eviction outside it, load, import of the JSON directory at every start | handlers; the database; the JSON store as fallback |
| Run resources: `cmd/server/agent_run_store.go` | none | list by pages, run, report, Markdown report, graph artifact | run store; the frontend |
| Reasoning trace: `internal/reasoningtrace/types.go` | slice of spans and pointers into it | StartSpan, EndSpan, AddEvent, SetAttr, Finish | written by runtime and loop, returned with the answer |
| MCP server: `internal/mcpserver/server.go` | none of its own | callTool: gate, execute, publish, audit | policy, registry, trace store, audit client |
| Tools API, os_info: `cmd/server/tools_api.go`, `main.go` | none | list, call | the same |
| Remote model client: `internal/eino/remote_llm_adapter.go` | per call: attempt, wait | request with three attempts and backoff | agent loop; the request's context |
| Stable runtime: `internal/agent/*`; graph runtime: `internal/eino/graph_*`, `tool_*` | per request | plan, execute, audit, normalise | reached by tests only |
| Frontend, scripts, deployment | browser state | views, installation | HTTP |

What is hard in it:

- *Concurrency.* Each HTTP request is a goroutine. The step-id counter and the
  trace store are shared with no lock around more than one operation; the run
  store serialises everything behind one mutex.
- *Failure.* The remote model, the audit service, the database, every file
  operation and every command may fail; each has a fallback that keeps the
  request going, so what must not be lost is the trace of what failed
  (provenance, denial, a warning in the answer).
- *Crashes.* A Save is several steps on disk. Startup rebuilds the memory from
  whatever is there.
- *Time.* A request has 180 s, an attempt of the remote model 45 s, a command up to
  10 s, the audit 5 s, the server's write 100 s, the proxy 180 s; the fallback
  generator does not look at the deadline. Stored times have whole seconds.
- *Aliasing and paging.* The reasoning trace keeps pointers into a slice that
  moves; a cursor of the run list is an offset into an order that moves.
- *Copies of one rule.* What arguments a tool takes is written in the gate, in
  the tool and in the proxy; what a tool may touch is written in the catalog and
  in the semantics; what counts as sensitive in Go and in Python; what a run
  decided, in its response and in its audit.

What makes each component correct is stated as the properties of section 4; the
hazards at their lines, with the properties that watch them, are in
`PROJECT.json`.

## 2. Modules

| Module | Models | Correspondence |
|---|---|---|
| `ToolPolicy` | the gate, as the loop sees it | a call is a record of the facts the gate reads; `Refusals` are the early returns of `Evaluate` |
| `AuditClient` | one audit | `AuditTrace` maps the set of traces and the service's reply to decision and method; never an error |
| `AuditLedger` | abstract: what the program promises about calls | three actions: open, enter, close |
| `AgentRun`, `MCAgentRun` | concurrent requests | `pc[r]` is the point of the goroutine; see below |
| `ToolGateway`, `MCToolGateway` | the other doors to the tools, beside the loop | EXTENDS `AgentRun`; `stage[c]` is the point of a client's goroutine |
| `ToolArguments` | arguments, and the patterns tried on them | specimens of texts, one or more for each way the patterns tell them apart |
| `CommandPolicy` | the execution proxy | `Evaluate`'s rules per command; `Execute` from how a command ended to what the tool is told |
| `ToolCatalog` | metadata and semantics of every tool | a row per tool in each table |
| `ToolHandlers` | the gate's argument checks and every enabled tool | a handler is a function of platform, arguments and results so far to its next step or its answer |
| `AuditCore` | audit-core-py | `_convert_result`, the sensitive-step rule, `local_fallback` |
| `ToolCalls`, `MCToolCalls` | one call through all of these | `phase`: gate, handler, trace, audit |
| `SemanticGraph`, `RunViews` | the stored response and what each resource shows of it | one operator per builder |
| `RunPages`, `MCRunPages` | List while runs are saved and the SQLite store restarts; the resources of the runs there are | `walk[c]` is what a client has of the list |
| `RunHistory` | abstract: the history as a bounded log | commit, trim, reconfigure |
| `RunStore` | JSON backend | `phase` is the step of Save or load that comes next, the lock being held |
| `RunStoreSQLite`, `MCRunStoreSQLite` | SQLite backend | the same with rows, one transaction, import and fallback |
| `ReasoningTrace` | span builder | `arrays` are all backing arrays so far, `pointer` which of them a span's pointer leads to |
| `RunTiming` | one request against the clock: retries, commands, audits, deadline, proxies | `wire` and `attempt` are where `doHTTPRequestWithRetry` is; `now` counts seconds |
| `*Proofs` | theorems about the module of that name | section 5 |

Loops of the code that keep some elements of a list (`FirstsIn` over package names,
`Among` over nodes and path nodes, `Readable` over an index) are recursive
functions, and a list the code sorts (`Rebuilt`, the directory by time) is stated by
what sorting guarantees, so that both can be reasoned about.

`AgentRun` cuts the goroutine of a request where another actor may get in
between:

    idle --Guard--> route --Route--> generate --Generate*--> gate --Gate--> running
      |               |                 |  ^                   |               |
      v               v                 |  +---- Audit <-------+---ToolReturns-+
     done            done               v
                                     publish --Publish*, Respond--> done

`nextStep` is `logtrace.stepSequence`, `store` is `logtrace.Store.traces`;
`steps`, `traces`, `used` are the `AgentResponse.AgentSteps`,
`ToolStepExecutor.traces` and `FallbackOutcome.used` of the request; `chosen` and
`pending` are the locals of `executeStep`; `published` is the loop variable of
the publication. `generators` and `late` are history variables that the code
does not have: which generators supplied an action, and how many executions
began after the deadline. `Expire` is the environment: the deadline, or the
client's disconnection. A call that is refused and one that is executed both
take a step id, the former for the trace synthesised in its place.

`ToolGateway` adds clients to that: `idle -> running -> add -> audit -> answer ->
done`, an API client skipping all of it when the gate refuses, an MCP client
going straight to `add` with a denied trace, an os_info client skipping the audit
and the gate. Its next-state relation is that of `AgentRun` with the doors
unchanged, or a client's step with the requests' own variables unchanged; the
two share `nextStep` and `store`, and the operators `Evaluate`, `AuditTrace` and
`NextStepID`. `heard` is a history variable.

In those modules a call is abstracted to what the gate and the audit read of it
(flags of its metadata, three verdicts on its arguments, and its semantics), and
tools to "ok" or "error". `ToolCalls` opens both boxes for one call at a time:
arguments are records of a text, a list of names, a number and a limit; a handler
is a pure function, so that the steps of the model are the points where something
from outside comes in (a command ends, a read fails, a dial, a wait). What a
handler parses out of a command's output is abstracted to a number of usable
lines, and all its warnings to one mark.

`RunPages` takes a Save with its eviction as one step, which the write lock
makes it. A restart reads the rows of the default backend back by `created_at`, in
whole seconds: runs of one second come back in any order that `updated_at` and the
random ids may give them. It cuts the result to the limit then configured, and the
import adds, one by one and before the server listens, the legacy runs that are not
there, each as the newest. A crash in a Save may have evicted without inserting. A
run is its place in `runs`, so that a client's list can be compared with what
happened to the runs in it: `lifted`, `slipped` and `saves` are history variables
that a move of the history writes, by comparing the places before and after. The
statements that fail, and the JSON backend as fallback or by configuration, are not
repeated here: `RunStore` shows that its restart keeps the order, so what it can do to
a walk is a part of what is modelled, but for a lowered limit, which it enforces at
the next Save only.

`RunTiming` has explicit time. `MayWait` lists what the handler may be waiting
for, each with the time-out and the context that ends it; `Tick` passes a second
while something is waited for and nothing is due. Computation, and the file
operations of Save, take no time. What is decided at each point is a choice here.
`doomed` is a history variable. The proxies are those of the Next.js frontend,
modelled by their time-out and by the user who may leave.

In `RunStore` a run's content is its `created_at`, ids are numbers whose order is
that of the file names, `Stamp` is a request that has finished its run and is on
its way to Save, and `Damage` is the environment breaking a file. A file is
renamed into place, so each holds what it held before a step or after it. In
`RunStoreSQLite` the JSON directory is abstracted to the list it keeps, since
`RunStore` has its steps. `saved` and `acked` are history variables in both.

Audit replies are a decision, a body without one, or nothing usable; `AuditCore`
says which decisions the service can come to. Risk scores appear in `ToolCalls`
and `AuditCore` only, as hundredths.

## 3. Runs

| Run | Instance | Distinct states | Result |
|---|---|---|---|
| `AgentRunOne` | 1 request, 5 calls (plain, semantically refused, shell characters, unknown tool, safe_shell), all replies, 3 steps, deadline at any point | 145,912 | holds |
| `AgentRunTwo` | 2 requests, 2 calls (allowed and refused), 2 steps, no deadline, symmetric | 375,281 | holds |
| `AgentRunNoKey` | as One, remote provider without a key | | violated (finding 1) |
| `Gateway` | 1 request, an MCP, an API and an os_info client of which any two call, 3 calls (allowed, semantically refused, refused by the gate), a denying or missing audit, 1 step | 468,682 | holds |
| `ToolCalls` | every registered tool, 36 arguments, 11 outcomes of a command, 5 verdicts, two platforms, cancellation at any point | 45,269 | holds |
| `RunStore` | 4 ids that may be drawn again, 4 saves, limits 2 and 3, 2 crashes, 1 fault | 2,611,412 | holds |
| `SQLite` | 4 runs in 2 seconds, no legacy runs or 2, limits 2 and 3, 2 crashes, 1 fault | 2,059,730 | holds |
| `SQLiteReimport` | 4 runs of which 1 legacy, limit 2, 1 crash | | violated (finding 2) |
| `RunPages` | 1 client, 4 runs of five kinds (with refused calls, answered without a tool, denied by the intent guard, small talk, politely refused) in 2 seconds, 1 of them legacy, limits 2 and 3, 1 restart, page sizes 1 and out of range, cursors of its own and from the server | 959,278 | holds |
| `RunTiming` | time-outs of the code in units of 5 s, 3 commands, 2 steps | 279,257 | holds |
| `RunTimingCut` | time-outs of the code in seconds, 3 commands, 1 step | | violated (finding 3) |
| `TraceLeaves` | 4 spans, 2 statuses | 227,173 | holds |

Why these bounds. Three steps are one refusal, one execution and one more of
either, in any order, and reach `StepsExhausted`; the second step already tells
the last trace from the first, and a sticky flag from a momentary one. Two
requests make every pairwise interleaving of ids and publications. The
abstractions of calls and replies have a member for each branch of the gate that
the properties tell apart. Of the clients of `Gateway` any two may call, since a
hazard between doors needs one call on each side of it. The arguments of
`ToolCalls` lie on both sides of every check of the gate, the tools and the
proxy, and its outcomes are one for each branch of `Execute` and of the handlers
(nothing printed, a little, more than is kept, exit codes 0, 1, 2 and -1, time-out,
not started, not permitted). A limit of 2 with 4 runs evicts twice, and with limits
{2, 3} a lowered limit makes one Save evict two runs; as the smallest limit is 2, a
run is not excused from surviving by the first Save after it, so that a crash between
the steps of that Save, or a run of the same second evicted in its place, would show.
Two crashes put one crash into the recovery from another. In `RunPages` the default
page is smaller than the history and a limit of 3 is out of range; saves, the reload
and the import shift a walk of up to three pages at each of its points. That the
restart is exercised shows in that neither `SkipsOnlyForMoves` without `lifted` nor
`RepeatsOnlyForMoves` without `slipped` holds of this instance. A slice of 4 spans
reallocates at 1, 2 and 3 spans and has, at 4, one append in place. `RunTiming`
counts in units of five seconds to reach the end of a run in few ticks: 45, 10, 5,
180 and 100 s keep their proportions, and the backoffs become 1 and 2 units;
`RunTimingCut` counts real seconds. Two steps make 180 s pass in every
combination of router, model, tool and audit. Every run checks deadlock except
those of stores, pages, traces and timing, which rest when their bounds are spent
or the run is over. The theorems of section 5 hold without any of these bounds.

## 4. Properties

*AgentRun.* `ReportsOnOwnTrace`: each audit report is about the execution of its
own step. `OnlyPermittedCallsRun`: nothing the gate rules out is executed or
published, stated on the metadata, not by calling the gate. `VerdictCoversSteps`:
the answer is at least as strict as every step. `RemoteClaimHolds`: the claim to
have used the remote model. `DeadlineStopsTools`: at most one execution begins
after the deadline (not none: the code lets the deterministic planner start one
if the deadline passes before the first step). `StepIdsUnique`, `StoreHoldsRun`:
ids and publications of concurrent requests. `RequestsAnswered`: liveness.
`ImplementsLedger`: refinement of `AuditLedger`.

*ToolGateway.* `AnswersMatchStore`: an answer quotes its own trace, which is in the
store once, whoever called at the same time. `GatedDoors`: what the doors run, and
what a refusal leaves behind. `DenialsStand`: no audit, fallback or normalisation
turns the gate's or the local review's denial into anything milder.
`ServerImplementsLedger`: loop and doors together refine `AuditLedger`. `/api/os/info`
is the one door without gate and audit, with an argument (`source`) the gate would
refuse; `GatedDoors` names it as the exception.

*ToolCalls.* `GateCoversTheRest`: what the gate lets through, neither the handler
nor the proxy turns down. `FailuresShow`: a trace whose status is "ok" and whose
answer bears no warning had no failed command behind it. `DriftReportsComplete`:
a drift report accounts for each package, and calls one checked only if `rpm`
finished. `TablesAgree`: the catalog against the semantics.
`SensitiveIsReviewed`: no auditor simply allows a sensitive call, whatever the
evaluator says.

*RunPages.* `SkipsOnlyForMoves`: paging by offset hides no run that stays, unless a
restart or an import brought it nearer to the newest end. `RepeatsOnlyForMoves`: how
often it repeats one. `WalksAreShort`: it comes to an end however fast runs are saved.
`VerdictsReconcile`: the verdict of a run, in the list, the reports and the artifact's
path, and the verdict of its audit, in the audit reports and the artifact's summary,
are worked out apart; they are equal or differ for one of two reasons, and never is the
milder one shown first. `DenialsReachArtifact`: deduplication of nodes loses no denial.

*RunStore.* `RestartShowsTheSame`: what readers see is what a restart would
recover. `AckedRunsSurvive`: durability of a Save that returned. `NoFileLeak`:
orphaned files only by crashes. `SaveBoundsHistory` (action property): the limit
after every Save. `ImplementsHistory`: the durable state refines `RunHistory`, so
that a run that left never comes back. `HistoryConsistent`: whatever failed before.

*RunStoreSQLite.* `AckedRunsSurvive`, `HistoryConsistent`, `RowsAreTheHistory`
(rows and memory agree while no statement fails), `StartupEnds` (liveness), and
`EvictsOldest`, which the code violates.

*ReasoningTrace.* `ShowsOnlyWhatWasAsked`: no end, status or event lands on another
span. `LeafSpansEnded`: a span ended before the next one starts is ended, with the
status it was given, in the trace the client gets.

*RunTiming.* `CallBounded`: how long a remote call may take, however it fails.
`RetriesSpaced`: the backoff's promise. `EndsPromptly`: no run outlives its client or
its deadline by a second. `RunsAreKept`: what was done is in the history, before it
is announced. `WaitingClientHears`, which the code violates.

*Fairness.* `AgentRun`: weak fairness of each request's own steps. Go schedules
every runnable goroutine, and everything a request waits for is bounded by a
time-out (remote model, execution proxy, audit). `Expire` is not fair: no
deadline has to pass. Without the step limit and the final answer of a loop that
has spent it, `RequestsAnswered` would not hold. `RunStoreSQLite`: weak fairness
of the holder of the lock, whose statements return, with or without an error, and
of the start of a server that is down (the service manager restarts it). Nothing
is assumed of clients. The other modules state safety only: `RunTiming` has its
bounds as invariants over `now`, and `WalksAreShort` bounds what a liveness
property would have to assume fairness of clients for.

## 5. Proofs

All theorems are proved from the named assumptions on the constants, for any
value of them. Every invariant, action property and refinement of a passing run has
one.

| Module | Theorems (`Spec => []...` unless they say otherwise) |
|---|---|
| `AgentRunProofs` | `TypeOK`, `OnlyPermittedCallsRun`, `DeadlineStopsTools`, `VerdictCoversSteps`, `StepIdsUnique`, `ReportsOnOwnTrace`, `StoreHoldsRun`; `RemoteClaimWithKey == (RemoteConfigured => KeyPresent) /\ Spec => []RemoteClaimHolds`; `Spec => ImplementsLedger` |
| `ToolGatewayProofs` | `DenialsStand`, `GatedDoors`, `AnswersMatchStore`; `ServerSpec => ServerImplementsLedger` |
| `ToolCallsProofs` | `GateCoversTheRest`, `FailuresShow`, `DriftReportsComplete`, `TablesAgree`, `SensitiveIsReviewed` |
| `RunPagesProofs` | `TypeOK`, `SkipsOnlyForMoves`, `RepeatsOnlyForMoves`, `WalksAreShort`, `VerdictsReconcile`, `DenialsReachArtifact` |
| `RunStoreProofs` | `TypeOK`, `HistoryConsistent`, `RestartShowsTheSame`, `AckedRunsSurvive`, `NoFileLeak`; `Spec => SaveBoundsHistory`; `Spec => ImplementsHistory` |
| `RunStoreSQLiteProofs` | `TypeOK`, `HistoryConsistent`, `RowsAreTheHistory`, `AckedRunsSurvive` |
| `ReasoningTraceProofs` | `ShowsOnlyWhatWasAsked`, `LeafSpansEnded` |
| `RunTimingProofs` | `TypeOK`, `CallBounded`, `RetriesSpaced`, `EndsPromptly`, `RunsAreKept` |

What the proofs assume of the constants is what the code guarantees of them. Most is
typing, and that markers such as `NoRun` are not values. Beyond that, limits and
time-outs are not zero (`StoreAssumption`, `SQLiteAssumption`, `PagesAssumption`,
`TimingAssumption`: the store replaces such a limit by its default, and the time-outs
are constants of the code); arguments and outcomes lie in the sets of section 2
(`InputsAssumption`, `EndsAssumption`); and a run that is saved has the response of a
loop over audited steps, of the intent guard, or of a task that needs no loop
(`ResponsesAssumption`: that the ids of a loop's reports are distinct is what
`AgentRunProofs` proves of it, with `StepIdsUnique` and `ReportsOnOwnTrace`).

*AgentRun.* The type invariant is not inductive alone: `Gate`, `ToolReturns` and
`Audit` use `chosen[r]` and `pending[r]`, which may be `NoCall` and `NoTrace`, and
`Audit` takes the last of `traces[r]`, which may be empty. The inductive invariant
is `IInv == TypeOK /\ InHand`, where `InHand` says at which `pc` a request has a call
and a trace in hand. Each property then has a strengthening of its own, inductive
relative to `IInv`: that what a request holds was permitted (`RunsPermitted`); that
a late execution implies an expired request that can only finish (`LateOnce`); that
a refused step was reported as a denial (`VerdictsKept`); that all ids in use are
at most `nextStep` (`IdsInv`); that a deterministic action leaves `used` set or no
key (`ClaimKept`); that the trace in hand is of the call in hand and no execution
has its id before the tool returns (`HandTraced`). `RemoteClaimWithKey` shows
precisely what finding 1 lacks: its assumption is what `NewRuntime` would have to
check.

*StoreHoldsRun* says of each request that there are positions in the shared store.
The witness grows by one with each publication of that request (`PositionsPublish`)
and stays under every other step; for that, the ids of different requests are
disjoint (`RunsApart`) and everything in the store has an id that was drawn
(`StoreDrawn`), so that an id drawn later is nowhere in it.

*Refinement.* The ledger's serial is `nextStep`, an open call is a pending trace, an
entry is a reported step, and the answer is the response's decision. `Gate` opens,
`Audit` enters, `Guard`, `Route` and `Respond` close, all other actions stutter
(`LedgerStep`). For the server, the owners are requests and clients; a step of the
loop is a step of the larger ledger because the mapping restricted to requests is
the loop's own (`LoopLedger`), and a client's step is matched in the same way
(`DoorLedgerStep`).

*ToolGateway.* `GInv` adds to `IInv` where a client has a trace in hand and what it
may have heard (`DoorInv`). Ids of requests and clients are kept apart by one
invariant over both (`IdsApart`); from it follows that every trace of the store
comes from exactly one of them (`StoreInv`).

*RunStore.* Two kinds of facts. Whatever fails, the order lists the keys of the map,
each once, and fits the limit once Save has evicted (`Listing`), and all that is
stored was saved (`Traced`): hence `HistoryConsistent` and `SaveBoundsHistory`.
`Clean` is what holds until a file operation fails, a file breaks or an id is drawn
again, crashes included: a run comes to Save once (`SavedOnce`); what a restart would
recover is acknowledged and in the order of the saves (`Durable`); the memory is just
that, followed by the run in hand (`Mirror`); and each file that the index does not
list is owed to a crash, but for the one Save has written and not listed yet
(`FewOrphans`, an invariant over a cardinality). `IInv == TypeOK /\ Listing /\ Traced /\
Clean`. Everything that is said of the disk is said of `Readable`, what `load` keeps of
an index; its facts (it keeps those it can read, each once, in their order; a write
outside of the index changes nothing; it follows an append and an eviction) come
first. That an acknowledged run survives unless enough newer ones took its place
(`AckedRunsSurvive`) is carried over an eviction by counting: the run evicted is the
oldest, and all that are left are later than it (`EnoughLater`). The refinement maps
the history to what a restart would recover: `WriteIndex` commits, an eviction trims,
a start reconfigures, and writing the file, crashing and the rest stutter
(`HistoryStep`).

*RunStoreSQLite.* `SInv` is the type invariant, with: the order lists no run twice,
is the keys of the map and ends with "latest" and with the run in hand (`Listing`);
a run that has not come to Save is nowhere in the store, on disk or waiting for the
import (`Fresh`), which is what keeps `Remember` from listing one twice; and, while
no statement failed, the rows are the order without the run in hand (`Together`).
That a restart lists no row twice follows from `Before` being irreflexive.
`AckedRunsSurvive` adds `Lasting`, for histories without an import or a failure: the
order in memory agrees with the times of creation or with the order of the saves
(`Ordered`; the seconds of `created_at` may order two runs against their saves, and
the property counts both as rivals), so that the run evicted is the oldest by one of
the two and all others, as many as the limit, are its rivals; rivals stay rivals, even
as runs leave, since they are counted among the saved ones (`RivalsStay`).

*RunPages.* The invariant says that the order lists no run twice and is within the
limit (`OrderInv`). What happens to the history between two pages is either an
addition, with its eviction, or a restart; of both, all that the walks need is in
`Moved` (`HistoryStep`): a client's reading stays as it was, a run that came nearer to
the newest end is in `lifted` (`LiftedTold`), and no more runs crossed a given place
outwards than were counted (`CrossingsCounted`, by `AddedMoves` and `RestartMoves`; a
run crosses it in a reload only by slipping). Then: a whole walk has shown all runs
nearer than its cursor that were there and not lifted (`SkipInv`); while there are more
pages, all were full and the history was longer (`ShortInv`); and a walk has repeated
itself at most as often as was counted, less the shown runs that lie beyond its cursor
and may be shown again (`RepeatInv`, over the cardinality of `Beyond`).
`DenialsReachArtifact` is about the builders: the step's own node is the
only one with its id, as the ids of a run's steps are distinct; what a loop that drops
repeated ids keeps has each id (`AmongIs`, `FirstOfEachIdIs`), so the node stays
(`DenialHasNode`) and is a hotspot, and the denied step has its report
(`DenialHasReport`), whatever else the run did. `VerdictsReconcile` goes through the
kinds of responses: every resource shows the decision of the response (`VerdictIs`), an
audit report tells of a step or of the whole run (`ReportsTell`), and the aggregate is
as strict as the strictest step (`AggregateIsStrictest`).

*ReasoningTrace.* All copies of a span in all arrays show only what was asked of it,
their status the one they started or were ended with, and the newest array holds what
the pointer of the newest span leads to.

*ToolCalls.* `CallInv`: what is under way has passed the gate, and `Followed`, the
handler asked for each of the results having seen those before it, and what it
answered is what it says of all of them. That makes statements about executions
statements about the handlers as functions, which are then proved tool by tool. For
`GateCoversTheRest`: each command a handler builds from arguments the gate lets
through is one the proxy permits, and no check of the handler itself fails. For
`FailuresShow`: a handler that has seen a failed command and answers "ok" puts a
warning; where it asks in a loop, by the number of results seen. For
`DriftReportsComplete`: the packages reported are the firsts of the names asked for
(`FirstsIn`), each asked about once. `TablesAgree` goes through the rows of both tables,
and `SensitiveIsReviewed` follows every path of both auditors.

*RunTiming.* `CallInv` bounds, for each attempt and each point of the retry loop, how
much time the call has had at least (`Waited`) and at most (`Spent`); both theorems
about calls are its two ends. `DoomInv` says that a run is doomed exactly if its
context is done or its client gone, and that the clock stands still from then on.

*Induction.* Facts about loops need one, and the library's induction theorems take an
operator, which none of the installed provers can instantiate. They are therefore
proved from facts about sets: a set of numbers that has 0 and each successor is all
of them (`NatSetInduction`, `UpTo`), which follows from the well-foundedness of `<`. A
recursive function is a choice among the functions that satisfy its equation; that
there is one is proved in the same way (`TurnsExist`), after which only the equation
is used.

Only model-checked:

- liveness (`RequestsAnswered`, `StartupEnds`), which is beyond the prover, as
  ENABLED and with it fairness are;
- the properties the code violates (`RemoteClaimHolds` without a key, `EvictsOldest`,
  `WaitingClientHears`), where a counterexample is what there is to show; for the
  first, `RemoteClaimWithKey` proves the case with a key.

## 6. Findings

1. *A claim without a key* (`AgentRunNoKey`; `internal/eino/runtime.go:933`). With
   a provider enabled and no key, the loop runs on the deterministic stub and the
   report says `remote_llm_used: true`.
2. *Evicted runs come back* (`SQLiteReimport`;
   `cmd/server/agent_run_sqlite_store.go:333`). The JSON directory is imported at
   every start; a legacy run that SQLite has evicted is saved again as the newest
   and pushes a newer run out.
3. *Answers that cannot be written* (`RunTimingCut`; `cmd/server/main.go:79`). A run
   may take 180 s and the proxies wait as long, but the server closes a connection
   it writes to after 100 s: the run is saved, and the client is told that the Go
   service cannot be reached.

Met while modelling, and not contradicting anything the repository says of itself:

- A span that is ended after a later one was started is ended through a pointer into
  an array the slice may have left (`internal/reasoningtrace/types.go:180-190`); it
  stays open in the trace. `LeafSpansEnded` is the part that holds.
- The proxy marks a result whose output it cut, and `InjectExecutionContext` drops the
  mark. `port_checker` reports a dial that was cancelled as a closed port.
- A task that was answered without a tool is a "review" in the list and an "allow" in
  its audit (`internal/eino/runtime.go:719-722`, `:789`), and a politely refused one is a
  "deny" without any audit (`internal/agent/interaction_router.go:88-134`).
  `VerdictsReconcile` names both.
- A restart of the default store reorders runs of one second
  (`cmd/server/agent_run_sqlite_store.go:106`) and may import an evicted run as the
  newest (`:333`), so that a cursor from before it skips a run or repeats one without
  a Save. Nothing promises a client a stable list; `SkipsOnlyForMoves` and
  `RepeatsOnlyForMoves` are what holds.
- An explicit limit of 0 cannot be told from a missing one.
- The catalog's own example for `log_reader` (`internal/tools/metadata.go:630`) is
  refused by the gate (`internal/security/tool_policy.go:68`).
- A service called "-n" passes the gate and is refused by the proxy, all three
  commands of it; `GateCoversTheRest` names it.
- A decision that the adapter does not know becomes "review" with a risk of 0.10.
- Python's list of sensitive boundaries lacks "dangerous"; it does no harm, since
  such semantics also require privilege.
- `os_info` and `service_status` turn a failed command into a missing field, and a
  listing that `netstat` had to give instead of `ss` says so only in the name of its
  source: weak marks, which `FailuresShow` accepts as marks. A drift report has the
  execution context of its first package only.
- A drift report takes a package for missing when `rpm` says "is not installed" on
  its standard error (`internal/tools/configuration_drift_detector.go:82-83`), and the
  model's `rpm` says it there, as the code expects.
- After an id was drawn twice and its run evicted under a lowered limit, "latest"
  may name a run that cannot be fetched; `HistoryConsistent` of `RunStore` names it.

## 7. Not modelled

- *Reached by tests only:* the stable runtime with its planner and decision
  normaliser, the graph runtime with its tool plan, the registry's `Validate`.
  `main.go` builds the agent loop and nothing else.
- *String processing without state:* keyword matching (planner, intent guard,
  deterministic stub, scene classification), redaction, the report builder's
  diagnoses, what tools parse out of single lines. `AgentRun` takes the verdicts of
  guard and router as choices.
- *Disabled:* `safe_shell`, whose handler and command check no door reaches: the gate
  refuses the tool before.
- *Not in the repository:* the TraceShield evaluator, which may say anything, and the
  MCP SDK's sessions.
- *Another platform:* the branches of tools and proxy for Windows.
- *Pure I/O or configuration:* HTTP plumbing, environment parsing, the product shell's
  read-only views, the frontend beyond its time-outs, the scripts.
- *Growth:* the trace store keeps every trace for the life of the process. The code
  promises no limit, so there is none to check.
