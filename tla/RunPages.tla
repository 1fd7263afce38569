------------------------------ MODULE RunPages ------------------------------
(***************************************************************************)
(* Reading the run history over HTTP while runs keep being saved and the   *)
(* server restarts: agentRunStore.List, Get and the /api/agent/runs        *)
(* handlers (cmd/server/agent_run_store.go), over the default backend      *)
(* (cmd/server/agent_run_sqlite_store.go).                                 *)
(*                                                                         *)
(* A save, with its eviction, is one step: it holds the write lock.  A     *)
(* restart reads the rows back by created_at, whole seconds, so that runs  *)
(* of one second may change places, and then imports what the JSON         *)
(* directory has and the database has not; the server listens only after   *)
(* that.  RunStoreSQLite has the steps of all this, the statements that    *)
(* fail and the fallback to the JSON backend, whose own reload keeps the   *)
(* order and applies a lowered limit at the next save.                     *)
(*                                                                         *)
(* A client walks the list page by page with the cursor it was handed, a   *)
(* plain offset into the newest-first order, which all of this shifts.     *)
(***************************************************************************)
EXTENDS RunViews, FiniteSets

CONSTANTS
  Clients,
  Responses,       \* the responses that may be saved
  Body(_),         \* what is in each of them
  Ran(_),          \* the loop [steps, traces, answered] behind one that has steps
  Bounds,          \* AgentRunHistoryLimit, over restarts
  Finished,        \* the runs that may be saved: [response, at], at is created_at
  Legacy,          \* how many runs the JSON directory holds: ids 1..Legacy
  MaxRuns,         \* bound: runs saved, the legacy ones included
  MaxRestarts,     \* bound
  MaxWalks,        \* bound: walks a client starts
  AskedLimits,     \* the values of ?limit= (0: missing or not a number)
  AskedCursors,    \* the values of ?cursor= that no server gave (0: missing)
  DefaultPage,     \* 50
  LargestPage      \* 100

ASSUME PagesAssumption ==
  /\ Bounds \subseteq Nat \ {0}
  /\ Finished \subseteq [response : Responses, at : Nat]
  /\ {Legacy, MaxRuns, MaxRestarts, MaxWalks} \subseteq Nat
  /\ AskedLimits \subseteq Int /\ AskedCursors \subseteq Int
  /\ DefaultPage \in Nat \ {0}
  /\ LargestPage \in Nat

\* What the server saves: the answer to small talk or a question back, a
\* polite refusal, the intent guard's denial, or the run of an agent loop.
ASSUME ResponsesAssumption ==
  \A resp \in Responses :
    \/ Body(resp) \in {NonToolResponse("allow"), NonToolResponse("deny"), IntentGuardResponse}
    \/ /\ Audited(Ran(resp).steps)
       /\ Body(resp) = AgentLoopResponse(Ran(resp).steps, Ran(resp).traces, Ran(resp).answered)

VARIABLES
  bound,     \* agentRunStore.historyLimit
  runs,      \* every run there ever was, by its id: a run is its place here
  order,     \* agentRunStore.order: the ids in the store, oldest first
  imports,   \* the ids that importJSONRuns still has to look at
  restarts,
  walk       \* what each client has of the list it is reading

vars == <<bound, runs, order, imports, restarts, walk>>

\* more: the last answer carried a next_cursor; whole: the walk began at the
\* newest run; began: the runs there were then.  What happened to the history
\* since: saves counts the runs added to it; lifted are the runs that came
\* nearer to its newest end, slipped counts those that moved away from it
\* without a save.
Walk == [more : BOOLEAN, whole : BOOLEAN, size : Nat \ {0}, cursor : Nat, pages : Nat,
         began : SUBSET Nat, shown : Seq(Nat), walks : Nat,
         saves : Nat, lifted : SUBSET Nat, slipped : Nat]

TypeOK ==
  /\ bound \in Bounds
  /\ runs \in Seq(Finished)
  /\ order \in Seq(1..Len(runs))
  /\ imports \in Seq(1..Legacy)
  /\ restarts \in Nat
  /\ walk \in [Clients -> Walk]

LegacyRuns == [i \in 1..Legacy |-> i]

\* The first start on an empty database; the import is next.
Init ==
  /\ bound \in Bounds
  /\ runs \in [1..Legacy -> Finished]
  /\ order = <<>>
  /\ imports = LegacyRuns
  /\ restarts = 0
  /\ walk = [c \in Clients |-> [more |-> FALSE, whole |-> FALSE, size |-> 1, cursor |-> 0,
                               pages |-> 0, began |-> {}, shown |-> <<>>, walks |-> 0,
                               saves |-> 0, lifted |-> {}, slipped |-> 0]]

-----------------------------------------------------------------------------
\* enforceLimitLocked: the newest `limit' runs stay.
Newest(s, limit) == IF Len(s) <= limit THEN s ELSE SubSeq(s, Len(s) - limit + 1, Len(s))

\* How far from the newest end of the history a run is.
Place(s, id) == Len(s) - CHOOSE i \in 1..Len(s) : s[i] = id

\* Save, under the write lock: append, evict, remember.
Added(id, lifted) ==
  /\ order' = Newest(Append(order, id), bound)
  /\ walk' = [c \in Clients |-> [walk[c] EXCEPT !.saves = @ + 1, !.lifted = @ \cup lifted]]

\* The server listens once the import is done.
Listening == imports = <<>>

\* A finished run: created_at was read before the lock was asked for, so it
\* need not grow with the order of the saves.
SaveRun(run) ==
  /\ Listening
  /\ Len(runs) < MaxRuns
  /\ runs' = Append(runs, run)
  /\ Added(Len(runs) + 1, {})
  /\ UNCHANGED <<bound, imports, restarts>>

\* importJSONRuns: a run that is not in the store is saved as its newest.
Import ==
  /\ imports # <<>>
  /\ imports' = Tail(imports)
  /\ IF Head(imports) \in ToSet(order)
     THEN UNCHANGED <<order, walk>>
     ELSE Added(Head(imports), {Head(imports)})
  /\ UNCHANGED <<bound, runs, restarts>>

\* loadSQLite: ORDER BY created_at, updated_at, run_id.  The last two, the
\* second of the save and an id drawn at random, are left to chance.
Reloaded(ids, kept) ==
  /\ ToSet(ids) = ToSet(kept)
  /\ \A i, j \in 1..Len(ids) : i < j => ids[i] # ids[j] /\ runs[ids[i]].at <= runs[ids[j]].at

\* A stop, in a Save perhaps, which evicts before it writes, and a start under
\* the limit now configured.
Restart(limit) ==
  /\ restarts < MaxRestarts
  /\ restarts' = restarts + 1
  /\ bound' = limit
  /\ \E kept \in {order} \cup (IF Len(order) = bound THEN {Tail(order)} ELSE {}) :
       \E ids \in [1..Len(kept) -> ToSet(kept)] :
         Reloaded(ids, kept) /\ order' = Newest(ids, limit)
  /\ imports' = LegacyRuns
  /\ LET both == ToSet(order) \cap ToSet(order')
         lifted == {id \in both : Place(order', id) < Place(order, id)}
         slipped == {id \in both : Place(order', id) > Place(order, id)}
     IN walk' = [c \in Clients |-> [walk[c] EXCEPT !.lifted = @ \cup lifted,
                                                 !.slipped = @ + Cardinality(slipped)]]
  /\ UNCHANGED runs

-----------------------------------------------------------------------------
\* List: a limit out of range is the default, not the nearest legal one.
PageSize(limit) == IF limit <= 0 \/ limit > LargestPage THEN DefaultPage ELSE limit

\* List: a cursor that is no positive number is no cursor.
Offset(cursor) == IF cursor > 0 THEN cursor ELSE 0

\* Every id of the order has its run (RunStore!HistoryConsistent), so the
\* lookup in the loop of List never skips one.
PageLength(size, offset) ==
  IF offset >= Len(order) THEN 0
  ELSE IF Len(order) - offset < size THEN Len(order) - offset ELSE size

\* Mistake: a page looks one run ahead and does not cut it off again.
PageAhead(size, offset) ==
  [k \in 1..PageLength(size + 1, offset) |-> order[Len(order) - offset - k + 1]]

Page(size, offset) ==
  [k \in 1..PageLength(size, offset) |-> order[Len(order) - offset - k + 1]]

\* Mistake: the cursor passes over the first run of the next page.
NextCursorTooFar(size, offset) ==
  LET next == offset + PageLength(size, offset) + 1 IN IF next < Len(order) THEN next ELSE 0

\* Mistake: every full page has a next one.
NextCursorWhenFull(size, offset) ==
  IF PageLength(size, offset) = size THEN offset + size ELSE 0

\* NextCursor, 0 for none.
NextCursor(size, offset) ==
  IF offset + PageLength(size, offset) < Len(order) THEN offset + PageLength(size, offset) ELSE 0

\* agentRunListHandler: the first request of a walk.
ListRuns(c, limit, cursor) ==
  LET size == PageSize(limit)
      offset == Offset(cursor)
  IN /\ Listening
     /\ walk[c].walks < MaxWalks
     /\ walk' = [walk EXCEPT ![c] =
          [more |-> NextCursor(size, offset) # 0, whole |-> offset = 0, size |-> size,
           cursor |-> NextCursor(size, offset), pages |-> 1, began |-> ToSet(order),
           shown |-> Page(size, offset), walks |-> walk[c].walks + 1,
           saves |-> 0, lifted |-> {}, slipped |-> 0]]
     /\ UNCHANGED <<bound, runs, order, imports, restarts>>

\* ... and the later ones: the same limit, the cursor the last answer gave.
ListMore(c) ==
  LET size == walk[c].size
      offset == walk[c].cursor
  IN /\ Listening
     /\ walk[c].more
     /\ walk' = [walk EXCEPT ![c] =
          [walk[c] EXCEPT !.more = NextCursor(size, offset) # 0, !.pages = @ + 1,
                          !.cursor = NextCursor(size, offset), !.shown = @ \o Page(size, offset)]]
     /\ UNCHANGED <<bound, runs, order, imports, restarts>>

Next ==
  \/ \E run \in Finished : SaveRun(run)
  \/ Import
  \/ \E limit \in Bounds : Restart(limit)
  \/ \E c \in Clients :
       \/ \E limit \in AskedLimits, cursor \in AskedCursors : ListRuns(c, limit, cursor)
       \/ ListMore(c)

Spec == Init /\ [][Next]_vars

-----------------------------------------------------------------------------
\* A client that followed the cursors from the first page to the last has
\* seen every run that was there when it began and is still there, however
\* many runs were saved, evicted or cut in between; the only ones it can have
\* missed came nearer to the newest end behind its back: in the reload of a
\* restart, or saved anew by the import after one.  (List)
SkipsOnlyForMoves ==
  \A c \in Clients :
    (walk[c].whole /\ ~walk[c].more) =>
      ToSet(order) \cap walk[c].began \subseteq ToSet(walk[c].shown) \cup walk[c].lifted

\* A run is listed again only because the history moved under the walk, and
\* not more often than runs were added to it or slipped in a reload.  (List
\* pages by offset)
RepeatsOnlyForMoves ==
  \A c \in Clients :
    Len(walk[c].shown) <=
      Cardinality(ToSet(walk[c].shown)) + walk[c].saves + walk[c].slipped

\* A walk comes to an end however fast runs are saved: its full pages never
\* number more than the largest history holds.  (List's NextCursor)
WalksAreShort ==
  \A c \in Clients :
    walk[c].more => \E limit \in Bounds : walk[c].pages * walk[c].size < limit

\* The list, the reports, the exported artifact and the audit of a run tell
\* one story, although the run's verdict and its audit's are worked out apart.
\* No step's audit is stricter than the audit of the run, and no audit of the
\* run stricter than the verdict shown with it; the two differ only where an
\* answer under an audit without objections is held for review, and for a
\* task answered or refused without any loop, which has no audit, no step and
\* no trace.  (runAgentLoop, newNonToolResponse, agentRunsHandler)
VerdictsReconcile ==
  \A id \in ToSet(order) :
    LET resp == Body(runs[id].response)
        audit == BuildArtifact(id, resp).decision
    IN /\ \A r \in ToSet(BuildAuditReports(resp)) : Strictness(r.decision) <= Strictness(audit)
       /\ \A resource \in Resources :
            LET shown == Verdict(id, resp, resource)
            IN /\ Strictness(audit) <= Strictness(shown)
               /\ shown # audit =>
                    \/ shown = "review" /\ audit = "allow"
                    \/ audit = "" /\ resp.steps = <<>> /\ resp.traces = <<>>

\* No denied step is lost on the way from the run to its exported artifact:
\* each is a hotspot under its own step id and has its own audit report, the
\* decision path ends in deny, and no node of the graph passes for another
\* step's.  (RiskGraphFromSemanticSteps, aggregateAuditFromSteps,
\* buildRiskGraphArtifact)
DenialsReachArtifact ==
  \A id \in ToSet(order) :
    LET resp == Body(runs[id].response)
        artifact == BuildArtifact(id, resp)
        reports == BuildAuditReports(resp)
    IN \A i \in 1..Len(resp.steps) :
         resp.steps[i].report.decision = "deny" =>
           /\ \E h \in ToSet(artifact.hotspots) : h.step = resp.steps[i].report.id /\ h.risk = "high"
           /\ \E r \in ToSet(reports) : r.step = i /\ r.decision = "deny"
           /\ artifact.path[Len(artifact.path)].decision = "deny"
=============================================================================
