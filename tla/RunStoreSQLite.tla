--------------------------- MODULE RunStoreSQLite ---------------------------
(***************************************************************************)
(* The SQLite backend of the agent-run store, the default one              *)
(* (cmd/server/agent_run_sqlite_store.go with the Save and enforceLimit of *)
(* agent_run_store.go): rows instead of files, one transaction per run,    *)
(* an order that a restart takes from created_at, and, at every start, the *)
(* import of the runs the JSON directory holds.  When the database cannot  *)
(* be opened or read, the server runs on the JSON directory instead; that  *)
(* store is abstracted to the list it keeps (RunStore has its steps).      *)
(***************************************************************************)
EXTENDS Naturals, Sequences, FiniteSets, SequencesExt

CONSTANTS
  RunIds,      \* a set of naturals, whose order is that of the id strings
  LegacyDirs,  \* what the JSON directory may hold at first: ids, oldest first
  Limits,      \* the limits an operator may configure
  MaxClock,    \* bound: seconds that created_at tells apart
  MaxCrashes,  \* bound
  MaxFaults,   \* bound: failed deletions, transactions and openings
  NoRun

Elems(s) == {s[i] : i \in 1..Len(s)}
Distinct(s) == \A i, j \in 1..Len(s) : s[i] = s[j] => i = j

ASSUME SQLiteAssumption ==
  /\ RunIds \subseteq Nat
  /\ \A dir \in LegacyDirs : dir \in Seq(RunIds) /\ Distinct(dir)
  /\ Limits \subseteq Nat \ {0}
  /\ {MaxClock, MaxCrashes, MaxFaults} \subseteq Nat /\ MaxClock # 0
  /\ NoRun \notin Nat

VARIABLES
  phase,     \* "down", "idle", or the step of Save or start-up that is next
  backend,   \* agentRunStore.backend
  starting,  \* newAgentRunStoreFromConfig has not returned
  imports,   \* the runs importJSONRuns still has to look at
  clock,     \* the time of day, in seconds
  at,        \* the created_at of each run
  queue,     \* finished runs on their way to Save
  order,     \* agentRunStore.order, oldest first
  runs,      \* the keys of agentRunStore.runs
  latest, limit,
  saving,    \* the run that Save has in hand
  rows,      \* table agent_runs: the updated_at of each row
  legacy,    \* the list of the JSON directory
  crashes, faults,
  saved,     \* history: the runs that Save took, in order
  acked      \* history: the runs whose Save returned

memory == <<order, runs, latest, limit, saving>>
vars == <<phase, backend, starting, imports, clock, at, queue, memory, rows,
          legacy, crashes, faults, saved, acked>>

Times == 0..MaxClock
Rows  == {id \in RunIds : rows[id] # NoRun}

TypeOK ==
  /\ phase \in {"down", "idle", "evict", "persist", "import"}
  /\ phase = "persist" => saving # NoRun
  /\ phase \in {"down", "idle", "import"} => saving = NoRun
  /\ backend \in {"sqlite", "json"}
  /\ starting \in BOOLEAN
  /\ imports \in Seq(RunIds)
  /\ clock \in Times
  /\ at \in [RunIds -> Times \cup {NoRun}]
  /\ queue \in SUBSET RunIds
  /\ order \in Seq(RunIds)
  /\ runs \in SUBSET RunIds
  /\ latest \in RunIds \cup {NoRun}
  /\ limit \in Limits
  /\ saving \in RunIds \cup {NoRun}
  /\ rows \in [RunIds -> Times \cup {NoRun}]
  /\ legacy \in Seq(RunIds)
  /\ crashes \in 0..MaxCrashes
  /\ faults \in 0..MaxFaults
  /\ saved \in Seq(RunIds)
  /\ acked \in SUBSET RunIds

Init ==
  /\ phase = "down" /\ backend = "sqlite" /\ starting = FALSE /\ imports = <<>>
  /\ clock = 1
  /\ queue = {}
  /\ order = <<>> /\ runs = {} /\ latest = NoRun
  /\ limit \in Limits
  /\ saving = NoRun
  /\ rows = [id \in RunIds |-> NoRun]
  /\ legacy \in LegacyDirs
  /\ at = [id \in RunIds |-> IF id \in Elems(legacy) THEN 0 ELSE NoRun]
  /\ crashes = 0 /\ faults = 0
  /\ saved = <<>> /\ acked = {}

Fault == faults < MaxFaults /\ faults' = faults + 1
NoFault == UNCHANGED faults

-----------------------------------------------------------------------------
\* A request finishes its run, which gets a new id and the current second,
\* before it queues for the store's lock.
Stamp(id) ==
  /\ phase # "down" /\ ~starting
  /\ at[id] = NoRun
  /\ \E now \in clock..MaxClock : clock' = now /\ at' = [at EXCEPT ![id] = now]
  /\ queue' = queue \cup {id}
  /\ UNCHANGED <<phase, backend, starting, imports, memory, rows, legacy,
                 crashes, faults, saved, acked>>

\* Save, up to enforceLimitLocked.
Remember(id) ==
  /\ order' = IF id \in runs THEN order ELSE Append(order, id)
  /\ runs' = runs \cup {id}
  /\ latest' = id
  /\ saving' = id
  /\ saved' = Append(saved, id)
  /\ phase' = "evict"

SaveRun(id) ==
  /\ phase = "idle" /\ backend = "sqlite"
  /\ id \in queue
  /\ Remember(id)
  /\ queue' = queue \ {id}
  /\ UNCHANGED <<backend, starting, imports, clock, at, limit, rows, legacy,
                 crashes, faults, acked>>

\* Mistakes: one run too few is kept; the row stays behind.
OverLimitEarly == Len(order) >= limit
RemovedNothing(id) == rows

OverLimit == Len(order) > limit
Removed(id) == [rows EXCEPT ![id] = NoRun]

\* One turn of enforceLimitLocked: a statement of its own, outside the
\* transaction that is to come; a row that cannot be deleted stays.
Evict ==
  /\ phase = "evict"
  /\ OverLimit
  /\ order' = Tail(order)
  /\ runs' = runs \ {Head(order)}
  /\ \/ rows' = Removed(Head(order)) /\ NoFault
     \/ UNCHANGED rows /\ Fault
  /\ UNCHANGED <<phase, backend, starting, imports, clock, at, queue, latest,
                 limit, saving, legacy, crashes, saved, acked>>

AfterEviction == IF saving = NoRun THEN "import" ELSE "persist"

Evicted ==
  /\ phase = "evict"
  /\ ~OverLimit
  /\ phase' = AfterEviction
  /\ UNCHANGED <<backend, starting, imports, clock, at, queue, memory, rows,
                 legacy, crashes, faults, saved, acked>>

\* persistSQLiteRunLocked: one transaction, committed or rolled back as a
\* whole; updated_at is the current second, which may be a later one.
Persist ==
  /\ phase = "persist"
  /\ \E now \in clock..MaxClock :
       /\ clock' = now
       /\ \/ rows' = [rows EXCEPT ![saving] = now] /\ NoFault
          \/ UNCHANGED rows /\ Fault
  /\ acked' = acked \cup {saving}
  /\ saving' = NoRun
  /\ phase' = IF starting THEN "import" ELSE "idle"
  /\ UNCHANGED <<backend, starting, imports, at, queue, order, runs, latest,
                 limit, legacy, crashes, saved>>

\* Mistake: the import does not get past a run.
ImportAgain == imports

ImportsLeft == Tail(imports)

\* importJSONRuns: a run the store does not hold is saved like a new one.
Import ==
  /\ phase = "import" /\ imports # <<>>
  /\ imports' = ImportsLeft
  /\ IF Head(imports) \in runs
     THEN UNCHANGED <<phase, memory, saved>>
     ELSE Remember(Head(imports)) /\ UNCHANGED limit
  /\ UNCHANGED <<backend, starting, clock, at, queue, rows, legacy, crashes,
                 faults, acked>>

Started ==
  /\ phase = "import" /\ imports = <<>>
  /\ phase' = "idle" /\ starting' = FALSE
  /\ UNCHANGED <<backend, imports, clock, at, queue, memory, rows, legacy,
                 crashes, faults, saved, acked>>

-----------------------------------------------------------------------------
\* loadSQLite: every row, ORDER BY created_at, updated_at, run_id.
Before(a, b) == \/ at[a] < at[b]
                \/ at[a] = at[b] /\ rows[a] < rows[b]
                \/ at[a] = at[b] /\ rows[a] = rows[b] /\ a < b
Recovered(ids) == /\ Elems(ids) = Rows
                  /\ \A i, j \in 1..Len(ids) : i < j => Before(ids[i], ids[j])

\* Mistake: "latest" is not restored.
LoadedWithoutLatest(ids) == order' = ids /\ runs' = Elems(ids) /\ latest' = NoRun

Loaded(ids) ==
  /\ order' = ids
  /\ runs' = Elems(ids)
  /\ latest' = IF ids = <<>> THEN NoRun ELSE Last(ids)

\* newAgentRunStoreFromConfig, with the fallback to the JSON directory.
Start ==
  /\ phase = "down"
  /\ limit' \in Limits
  /\ \/ /\ \E ids \in BoundedSeq(Rows, Cardinality(Rows)) :
             Recovered(ids) /\ Loaded(ids)
        /\ NoFault
        /\ phase' = "evict" /\ backend' = "sqlite"
        /\ starting' = TRUE /\ imports' = legacy
     \/ /\ Loaded(legacy) /\ Fault
        /\ phase' = "idle" /\ backend' = "json"
        /\ UNCHANGED <<starting, imports>>
  /\ UNCHANGED <<clock, at, queue, saving, rows, legacy, crashes, saved, acked>>

\* Save on the JSON directory, as a whole.
SaveJSON(id) ==
  /\ phase = "idle" /\ backend = "json"
  /\ id \in queue
  /\ LET all  == Append(order, id)
         kept == SubSeq(all, IF Len(all) > limit THEN Len(all) - limit + 1 ELSE 1, Len(all))
     IN order' = kept /\ runs' = Elems(kept) /\ legacy' = kept
  /\ latest' = id
  /\ queue' = queue \ {id}
  /\ saved' = Append(saved, id)
  /\ acked' = acked \cup {id}
  /\ UNCHANGED <<phase, backend, starting, imports, clock, at, limit, saving,
                 rows, crashes, faults>>

\* The process dies; an uncommitted transaction leaves no trace.
Crash ==
  /\ phase # "down"
  /\ crashes < MaxCrashes
  /\ crashes' = crashes + 1
  /\ phase' = "down" /\ starting' = FALSE /\ imports' = <<>>
  /\ queue' = {}
  /\ order' = <<>> /\ runs' = {} /\ latest' = NoRun /\ saving' = NoRun
  /\ UNCHANGED <<backend, clock, at, limit, rows, legacy, faults, saved, acked>>

LockHolder == Evict \/ Evicted \/ Persist \/ Import \/ Started

Next ==
  \/ \E id \in RunIds : Stamp(id) \/ SaveRun(id) \/ SaveJSON(id)
  \/ LockHolder
  \/ Start
  \/ Crash

Spec == Init /\ [][Next]_vars

\* Start-up and Save go on, every statement returning.
FairSpec == Spec /\ WF_vars(LockHolder) /\ WF_vars(Start)

-----------------------------------------------------------------------------
(* Properties *)

\* What readers see is consistent, whatever failed before: no run is listed
\* twice, the listed runs are those that can be fetched, and "latest" can be.
HistoryConsistent ==
  phase = "idle" =>
    /\ Distinct(order)
    /\ runs = Elems(order)
    /\ order # <<>> => latest \in runs
    /\ ~starting

\* As long as no statement fails, the database holds exactly the runs that
\* readers see: an eviction and the transaction after it never drift apart.
RowsAreTheHistory ==
  phase = "idle" /\ backend = "sqlite" /\ faults = 0 =>
    Rows = Elems(order)

\* A run whose Save returned is in the database, at every step of later Saves
\* and while the server is down, unless as many runs as the smallest limit were
\* saved after it or are not older than it: no crash costs more than the
\* evictions would.  (Stated where there was nothing to import.)
Rank(id) == CHOOSE i \in 1..Len(saved) : saved[i] = id
Rivals(id) == {o \in Elems(saved) \ {id} : Rank(o) > Rank(id) \/ at[o] >= at[id]}
SmallestLimit == CHOOSE l \in Limits : \A m \in Limits : l <= m
AckedRunsSurvive ==
  faults = 0 /\ (\A id \in RunIds : at[id] # 0) => \A id \in acked :
    rows[id] # NoRun \/ Cardinality(Rivals(id)) >= SmallestLimit

\* Start-up ends, with the import, whatever the directory holds.
StartupEnds == phase = "import" ~> phase \in {"idle", "down"}

\* What leaves the history is its oldest run: making room for a run never
\* removes one created after it.
EvictsOldest ==
  [][phase = "evict" /\ phase' = "evict" /\ order # order' /\ saving # NoRun
     => at[Head(order)] <= at[saving]]_vars
=============================================================================
