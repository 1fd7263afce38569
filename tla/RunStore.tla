------------------------------ MODULE RunStore ------------------------------
(***************************************************************************)
(* The JSON backend of the agent-run store (cmd/server/agent_run_store.go):*)
(* a bounded history in memory, one file per run and an index file, written*)
(* by Save in several steps any of which may fail, or be the last one      *)
(* before the process dies.                                                *)
(*                                                                         *)
(* Save and load hold the store's lock, so readers and other savers see    *)
(* only the states of phase "idle".  Run ids are numbers: their order      *)
(* stands for the order of the file names.                                 *)
(***************************************************************************)
EXTENDS Naturals, Sequences, FiniteSets, SequencesExt

CONSTANTS
  RunIds,      \* a set of naturals
  Limits,      \* the limits an operator may configure
  MaxClock,    \* bound: seconds that created_at tells apart
  MaxCrashes,  \* bound
  MaxFaults,   \* bound: failed file operations, damaged files, ids drawn again
  MaxSaves,    \* bound: runs that reach Save
  NoRun, NoIndex

ASSUME StoreAssumption ==
  /\ RunIds \subseteq Nat
  /\ Limits \subseteq Nat \ {0}
  /\ {MaxClock, MaxCrashes, MaxFaults, MaxSaves} \subseteq Nat /\ MaxClock # 0
  /\ NoRun \notin Nat /\ NoRun \notin [id : RunIds, at : 1..MaxClock]
  /\ NoIndex \notin Seq(RunIds)

VARIABLES
  phase,    \* "down", "idle", or the step of Save or load that comes next
  clock,    \* the time of day, in seconds
  pending,  \* finished runs on their way to Save, by their created_at
  drawn,    \* ids already given to a run
  order,    \* agentRunStore.order, oldest first
  runs,     \* agentRunStore.runs; a run's content is its created_at
  latest,   \* agentRunStore.latest
  limit,    \* agentRunStore.limit
  saving,   \* the run that Save has in hand, with its content
  files,    \* <run id>.json, by id
  index,    \* index.json, or NoIndex if it is missing or not JSON
  crashes, faults,
  saved,    \* history: the runs that Save took, in order
  acked     \* history: the runs whose Save returned

memory == <<order, runs, latest, limit, saving>>
disk   == <<files, index>>
vars   == <<phase, clock, pending, drawn, memory, disk, crashes, faults, saved, acked>>

Times  == 1..MaxClock
Phases == {"down", "idle", "evict", "run", "index"}
Empty  == [id \in RunIds |-> NoRun]
Elems(s) == {s[i] : i \in 1..Len(s)}

TypeOK ==
  /\ phase \in Phases
  /\ phase = "run" => saving # NoRun
  /\ phase \in {"down", "idle"} => saving = NoRun
  /\ clock \in Times
  /\ pending \in [RunIds -> Times \cup {NoRun}]
  /\ drawn \in SUBSET RunIds
  /\ order \in Seq(RunIds)
  /\ runs \in [RunIds -> Times \cup {NoRun}]
  /\ latest \in RunIds \cup {NoRun}
  /\ limit \in Limits
  /\ saving \in [id : RunIds, at : Times] \cup {NoRun}
  /\ files \in [RunIds -> Times \cup {NoRun}]
  /\ index \in Seq(RunIds) \cup {NoIndex}
  /\ crashes \in 0..MaxCrashes
  /\ faults \in 0..MaxFaults
  /\ saved \in Seq(RunIds)
  /\ acked \in SUBSET RunIds

Init ==
  /\ phase = "down"
  /\ clock = 1
  /\ pending = Empty
  /\ drawn = {}
  /\ order = <<>> /\ runs = Empty /\ latest = NoRun
  /\ limit \in Limits
  /\ saving = NoRun
  /\ files = Empty /\ index = NoIndex
  /\ crashes = 0 /\ faults = 0
  /\ saved = <<>> /\ acked = {}

\* A file operation that fails, a file that is damaged, an id that is drawn again.
Fault == faults < MaxFaults /\ faults' = faults + 1
NoFault == UNCHANGED faults

-----------------------------------------------------------------------------
\* A request finishes its run: AttachScenarioWorkspaceMetadata gives it an id
\* and the current second, before it queues for the store's lock.
Stamp(id) ==
  /\ phase # "down"
  /\ pending[id] = NoRun
  /\ IF id \in drawn THEN Fault ELSE NoFault
  /\ \E now \in clock..MaxClock :
       clock' = now /\ pending' = [pending EXCEPT ![id] = now]
  /\ drawn' = drawn \cup {id}
  /\ UNCHANGED <<phase, memory, disk, crashes, saved, acked>>

\* Mistake: a run that is saved again is listed again.
Relisted(id) == Append(order, id)

\* The order with the run in it, as Save leaves it for enforceLimitLocked.
Listed(id) == IF runs[id] = NoRun THEN Append(order, id) ELSE order

\* Save takes the lock and changes the store in memory.
SaveRun(id) ==
  /\ phase = "idle"
  /\ pending[id] # NoRun
  /\ Len(saved) < MaxSaves
  /\ order' = Listed(id)
  /\ runs' = [runs EXCEPT ![id] = pending[id]]
  /\ latest' = id
  /\ saving' = [id |-> id, at |-> pending[id]]
  /\ pending' = [pending EXCEPT ![id] = NoRun]
  /\ saved' = Append(saved, id)
  /\ phase' = "evict"
  /\ UNCHANGED <<clock, drawn, limit, disk, crashes, faults, acked>>

\* Mistakes: one run too few or too many is kept; the file stays behind.
OverLimitEarly == Len(order) >= limit
OverLimitLate  == Len(order) > limit + 1
RemovedNothing(id) == files

OverLimit == Len(order) > limit
Removed(id) == [files EXCEPT ![id] = NoRun]

\* One turn of enforceLimitLocked; a file that cannot be removed stays.
Evict ==
  /\ phase = "evict"
  /\ OverLimit
  /\ order' = Tail(order)
  /\ runs' = [runs EXCEPT ![Head(order)] = NoRun]
  /\ \/ files' = Removed(Head(order)) /\ NoFault
     \/ UNCHANGED files /\ Fault
  /\ UNCHANGED <<phase, clock, pending, drawn, latest, limit, saving, index,
                 crashes, saved, acked>>

AfterEviction == IF saving = NoRun THEN "index" ELSE "run"

\* Nothing is left to evict: Save goes on to the run's file, load to the index.
Evicted ==
  /\ phase = "evict"
  /\ ~OverLimit
  /\ phase' = AfterEviction
  /\ UNCHANGED <<clock, pending, drawn, memory, disk, crashes, faults, saved, acked>>

\* persistRunLocked: the response is written whether or not it is still kept.
\* A failure is logged and Save goes on.
WriteRun ==
  /\ phase = "run"
  /\ \/ files' = [files EXCEPT ![saving.id] = saving.at] /\ NoFault
     \/ UNCHANGED files /\ Fault
  /\ phase' = "index"
  /\ UNCHANGED <<clock, pending, drawn, memory, index, crashes, saved, acked>>

\* Mistake: the index lists the keys of the map, not the order of the runs.
IndexOfMap == SetToSortSeq({id \in RunIds : runs[id] # NoRun}, LAMBDA a, b : a < b)

IndexContent == order

\* persistIndexLocked; Save, or load, returns.
WriteIndex ==
  /\ phase = "index"
  /\ \/ index' = IndexContent /\ NoFault
     \/ UNCHANGED index /\ Fault
  /\ acked' = IF saving = NoRun THEN acked ELSE acked \cup {saving.id}
  /\ saving' = NoRun
  /\ phase' = "idle"
  /\ UNCHANGED <<clock, pending, drawn, order, runs, latest, limit, files,
                 crashes, saved>>

-----------------------------------------------------------------------------
\* The process dies, at any point: what is in memory, and the runs that did
\* not get to Save, are gone.  The files are renamed into place, so each holds
\* what it held before or after the step.
Crash ==
  /\ phase # "down"
  /\ crashes < MaxCrashes
  /\ crashes' = crashes + 1
  /\ phase' = "down"
  /\ pending' = Empty
  /\ order' = <<>> /\ runs' = Empty /\ latest' = NoRun /\ saving' = NoRun
  /\ UNCHANGED <<clock, drawn, limit, disk, faults, saved, acked>>

\* load: the runs of an index whose files can be read (loadRunFile), each once
\* (pruneMissingLocked).
Readable(stored, ix) ==
  LET kept[n \in 0..Len(ix)] ==
        IF n = 0 THEN <<>>
        ELSE IF stored[ix[n]] = NoRun \/ ix[n] \in Elems(kept[n - 1]) THEN kept[n - 1]
        ELSE Append(kept[n - 1], ix[n])
  IN kept[Len(ix)]
Recovered == IF index = NoIndex THEN <<>> ELSE Readable(files, index)

\* rebuildFromFiles: every readable file, by created_at and then by name.
Stored == {id \in RunIds : files[id] # NoRun}
Older(a, b) == files[a] < files[b] \/ (files[a] = files[b] /\ a < b)
Rebuilt(ids) ==
  /\ Elems(ids) = Stored
  /\ \A i, j \in 1..Len(ids) : i < j => Older(ids[i], ids[j])

Loaded(ids) ==
  /\ order' = ids
  /\ runs' = [id \in RunIds |-> IF id \in Elems(ids) THEN files[id] ELSE NoRun]
  /\ latest' = IF ids = <<>> THEN NoRun ELSE Last(ids)

\* The process starts with the limit then configured.  Loading by the index
\* leaves the limit for the next Save to enforce; rebuilding enforces it and
\* writes an index.  A directory that cannot be read means an empty history.
Start ==
  /\ phase = "down"
  /\ limit' \in Limits
  /\ \/ index # NoIndex /\ Loaded(Recovered) /\ phase' = "idle" /\ NoFault
     \/ /\ index = NoIndex
        /\ \E ids \in BoundedSeq(Stored, Cardinality(Stored)) : Rebuilt(ids) /\ Loaded(ids)
        /\ phase' = "evict" /\ NoFault
     \/ Loaded(<<>>) /\ phase' = "idle" /\ Fault
  /\ UNCHANGED <<clock, pending, drawn, saving, disk, crashes, saved, acked>>

\* The environment damages a file, or the index, while the server is down.
Damage ==
  /\ phase = "down"
  /\ Fault
  /\ \/ \E id \in RunIds : files[id] # NoRun
                           /\ files' = [files EXCEPT ![id] = NoRun] /\ UNCHANGED index
     \/ index # NoIndex /\ index' = NoIndex /\ UNCHANGED files
  /\ UNCHANGED <<phase, clock, pending, drawn, memory, crashes, saved, acked>>

-----------------------------------------------------------------------------
LockHolder == Evict \/ Evicted \/ WriteRun \/ WriteIndex

Next ==
  \/ \E id \in RunIds : Stamp(id) \/ SaveRun(id)
  \/ LockHolder
  \/ Crash
  \/ Start
  \/ Damage

Spec == Init /\ [][Next]_vars

-----------------------------------------------------------------------------
(* Properties *)

\* What readers can see is consistent, whatever failed before: no run is listed
\* twice, exactly the listed runs can be fetched, and "latest" can be fetched
\* as long as there is any run, unless its id was drawn twice (Get and List read
\* order, runs and latest).
SavedTwice(id) == \E i, j \in 1..Len(saved) : i < j /\ saved[i] = id /\ saved[j] = id
HistoryConsistent ==
  phase = "idle" =>
    /\ \A i, j \in 1..Len(order) : order[i] = order[j] => i = j
    /\ \A id \in RunIds : runs[id] # NoRun <=> id \in Elems(order)
    /\ order # <<>> => latest \in Elems(order) \/ SavedTwice(latest)

\* As long as no file operation fails, readers see exactly what a restart at
\* that moment would bring back, contents included: a crash never makes a run
\* disappear, come back, or change places in the list.
RestartShowsTheSame ==
  phase = "idle" /\ faults = 0 =>
    /\ Recovered = order
    /\ \A id \in Elems(order) : files[id] = runs[id]

\* A run whose Save returned is still recoverable, at every step of later Saves
\* and while the server is down, unless as many later runs as the smallest
\* limit have been saved since: Save evicts before it writes, and the crash in
\* between costs at most the oldest run.
SavedAfter(id) == Cardinality({i \in 1..Len(saved) :
                     \A k \in 1..Len(saved) : saved[k] = id => i > k})
SmallestLimit == CHOOSE l \in Limits : \A m \in Limits : l <= m
AckedRunsSurvive ==
  faults = 0 => \A id \in acked :
    id \in Elems(Recovered) \/ SavedAfter(id) >= SmallestLimit

\* Files that no index lists are left behind only by crashes and by failed
\* operations, at most one each: nothing else leaks files.
Orphans == {id \in RunIds : files[id] # NoRun /\ id \notin Elems(Recovered)}
NoFileLeak == phase = "idle" /\ faults = 0 => Cardinality(Orphans) <= crashes

\* When Save or a rebuild returns, the history is within the limit, even the
\* first Save after the limit was lowered.
SaveBoundsHistory == [][phase = "index" /\ phase' = "idle" => Len(order) <= limit]_vars

\* The durable history, what a restart would recover, implements RunHistory:
\* as long as nothing fails, every acknowledged run enters it, and those that
\* left are gone for good.
History == INSTANCE RunHistory WITH
  log <- Recovered, bound <- limit, gone <- acked \ Elems(Recovered)
ImplementsHistory ==
  /\ History!HistoryInit
  /\ [][faults' = 0 => History!HistoryNext]_<<Recovered, limit, acked \ Elems(Recovered)>>
=============================================================================
