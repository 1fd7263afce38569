------------------------ MODULE RunStoreSQLiteProofs ------------------------
(***************************************************************************)
(* What readers of the SQLite store see is consistent, whatever fails, and *)
(* while nothing fails the database holds exactly that and no crash costs  *)
(* an acknowledged run, for any number of runs, any limits, any legacy     *)
(* directory, any crashes and any clock.                                   *)
(***************************************************************************)
EXTENDS RunStoreSQLite, FiniteSetTheorems, TLAPS

-----------------------------------------------------------------------------
(* Lists without repetition *)

\* What enforceLimitLocked leaves: the list without its oldest run.
LEMMA TailOfList ==
  ASSUME NEW S, NEW s \in Seq(S), Distinct(s), Len(s) > 1
  PROVE  /\ Tail(s) \in Seq(S) /\ Len(Tail(s)) = Len(s) - 1 /\ Len(s) \in Nat
         /\ Distinct(Tail(s)) /\ Head(s) \in S /\ Head(s) # s[Len(s)]
         /\ Elems(Tail(s)) = Elems(s) \ {Head(s)}
         /\ Tail(s)[Len(Tail(s))] = s[Len(s)]
<1>1. /\ Tail(s) \in Seq(S) /\ Len(Tail(s)) = Len(s) - 1 /\ Len(s) \in Nat
      /\ \A i \in 1..Len(Tail(s)) : Tail(s)[i] = s[i + 1] /\ i + 1 \in 1..Len(s)
      /\ Head(s) = s[1] /\ s[1] \in S
  OBVIOUS
<1>2. Distinct(Tail(s))
  BY <1>1 DEF Distinct
<1>3. Head(s) # s[Len(s)]
  BY <1>1 DEF Distinct
<1>4. \A i \in 1..Len(s) : i = 1 \/ (i - 1 \in 1..Len(Tail(s)) /\ Tail(s)[i - 1] = s[i])
  BY <1>1
<1>5. \A i \in 1..Len(Tail(s)) : Tail(s)[i] # Head(s)
  BY <1>1 DEF Distinct
<1>6. Elems(Tail(s)) = Elems(s) \ {Head(s)}
  BY <1>1, <1>4, <1>5, SMTT(40) DEF Elems
<1>7. QED
  BY <1>1, <1>2, <1>3, <1>6

\* What Save makes of the order: a new run at its end.
LEMMA AppendToList ==
  ASSUME NEW S, NEW s \in Seq(S), NEW e \in S, Distinct(s), e \notin Elems(s)
  PROVE  /\ Append(s, e) \in Seq(S) /\ Len(Append(s, e)) = Len(s) + 1 /\ Len(s) \in Nat
         /\ Distinct(Append(s, e)) /\ Elems(Append(s, e)) = Elems(s) \cup {e}
         /\ Append(s, e)[Len(Append(s, e))] = e
<1>1. /\ Append(s, e) \in Seq(S) /\ Len(Append(s, e)) = Len(s) + 1 /\ Len(s) \in Nat
      /\ Append(s, e)[Len(s) + 1] = e
      /\ \A i \in 1..Len(s) : Append(s, e)[i] = s[i]
  OBVIOUS
<1>2. \A i \in 1..Len(Append(s, e)) : i \in 1..Len(s) \/ i = Len(s) + 1
  BY <1>1
<1>3. Distinct(Append(s, e))
  BY <1>1, <1>2 DEF Distinct, Elems
<1>4. Elems(Append(s, e)) = Elems(s) \cup {e}
  BY <1>1, <1>2 DEF Elems
<1>5. QED
  BY <1>1, <1>3, <1>4

\* What a Save on the JSON directory keeps: the newest runs.
LEMMA EndOfList ==
  ASSUME NEW S, NEW s \in Seq(S), Distinct(s), NEW n \in 1..Len(s)
  PROVE  /\ SubSeq(s, n, Len(s)) \in Seq(S) /\ Distinct(SubSeq(s, n, Len(s)))
         /\ Elems(SubSeq(s, n, Len(s))) \subseteq Elems(s)
         /\ SubSeq(s, n, Len(s))[Len(SubSeq(s, n, Len(s)))] = s[Len(s)]
<1> DEFINE e == SubSeq(s, n, Len(s))
<1>1. /\ e \in Seq(S) /\ Len(e) = Len(s) - n + 1 /\ Len(s) \in Nat
      /\ \A i \in 1..Len(e) : e[i] = s[n + i - 1]
  OBVIOUS
<1> HIDE DEF e
<1>2. \A i \in 1..Len(e) : n + i - 1 \in 1..Len(s)
  BY <1>1
<1>3. Distinct(e)
  BY <1>1, <1>2 DEF Distinct
<1>4. Elems(e) \subseteq Elems(s)
  BY <1>1, <1>2 DEF Elems
<1>5. Len(e) \in 1..Len(e) /\ n + Len(e) - 1 = Len(s)
  BY <1>1
<1>6. QED
  BY <1>1, <1>3, <1>4, <1>5 DEF e

LEMMA ElemsOfList ==
  ASSUME NEW S, NEW s \in Seq(S)
  PROVE  Elems(s) \subseteq S /\ (s # <<>> => s[Len(s)] \in Elems(s))
<1>1. \A i \in 1..Len(s) : s[i] \in S
  OBVIOUS
<1>2. s # <<>> => Len(s) \in 1..Len(s)
  OBVIOUS
<1>3. QED
  BY <1>1, <1>2 DEF Elems

LEMMA Constants ==
  /\ NoRun \notin RunIds /\ NoRun \notin Times /\ Times \subseteq Nat
  /\ RunIds \subseteq Nat /\ Limits \subseteq Nat \ {0}
  /\ MaxClock \in Nat \ {0} /\ MaxCrashes \in Nat /\ MaxFaults \in Nat
<1>1. /\ MaxClock \in Nat \ {0} /\ MaxCrashes \in Nat /\ MaxFaults \in Nat
      /\ RunIds \subseteq Nat /\ Limits \subseteq Nat \ {0} /\ NoRun \notin Nat
  BY SQLiteAssumption
<1>2. Times \subseteq Nat
  BY <1>1 DEF Times
<1>3. QED
  BY <1>1, <1>2

-----------------------------------------------------------------------------
(* The inductive invariant *)

\* A run that has not come to Save is nowhere in the store.
Unsaved(id) == id \notin Rows \cup Elems(order) \cup Elems(legacy) \cup Elems(imports)

Listing ==
  /\ Distinct(order) /\ Distinct(legacy)
  /\ runs = Elems(order)
  /\ order # <<>> => latest = order[Len(order)]
  /\ saving # NoRun => order # <<>> /\ latest = saving

Position ==
  /\ phase \in {"down", "idle"} => ~starting
  /\ phase = "down" => imports = <<>>
  /\ backend = "json" => phase \in {"down", "idle"}

Fresh ==
  /\ \A id \in queue : at[id] # NoRun
  /\ \A id \in RunIds : id \in queue \/ at[id] = NoRun => Unsaved(id)

\* While nothing fails, the database lags behind the memory by the run in hand.
Together ==
  faults = 0 /\ phase # "down" /\ backend = "sqlite" => Rows = Elems(order) \ {saving}

SInv == TypeOK /\ Listing /\ Position /\ Fresh /\ Together

LEMMA PrimedLists ==
  /\ Elems(order)' = Elems(order') /\ Elems(legacy)' = Elems(legacy')
  /\ Elems(imports)' = Elems(imports')
  /\ Distinct(order)' = Distinct(order') /\ Distinct(legacy)' = Distinct(legacy')
  BY DEF Elems, Distinct

LEMMA InitSInv == Init => SInv
<1>1. SUFFICES ASSUME Init PROVE SInv
  OBVIOUS
<1>2. legacy \in Seq(RunIds) /\ Distinct(legacy) /\ NoRun \notin RunIds
  BY <1>1, SQLiteAssumption DEF Init
<1>3. 1 \in Times /\ 0 \in Times /\ 0 \in 0..MaxCrashes /\ 0 \in 0..MaxFaults /\ NoRun # 0
  BY Constants DEF Times
<1>4. TypeOK
  <2>1. at \in [RunIds -> Times \cup {NoRun}] /\ rows \in [RunIds -> Times \cup {NoRun}]
    BY <1>1, <1>3 DEF Init
  <2>2. <<>> \in Seq(RunIds)
    OBVIOUS
  <2>3. QED
    BY <1>1, <1>2, <1>3, <2>1, <2>2 DEF Init, TypeOK
<1>5. Elems(<<>>) = {} /\ Distinct(<<>>) /\ Rows = {}
  BY <1>1 DEF Init, Elems, Distinct, Rows
<1>6. Listing /\ Position /\ Together
  BY <1>1, <1>2, <1>5 DEF Init, Listing, Position, Together
<1>7. Fresh
  BY <1>1, <1>3, <1>5 DEF Init, Fresh, Unsaved
<1>8. QED
  BY <1>4, <1>6, <1>7 DEF SInv

\* An action that leaves what the store holds alone.
LEMMA HoldsFrame ==
  ASSUME SInv, UNCHANGED <<order, legacy, runs, latest, rows>>
  PROVE  /\ Elems(order)' = Elems(order) /\ Elems(legacy)' = Elems(legacy) /\ Rows' = Rows
         /\ Distinct(order)' /\ Distinct(legacy)'
  BY DEF SInv, Listing, Elems, Distinct, Rows

LEMMA StampKeeps == ASSUME SInv, NEW id \in RunIds, Stamp(id) PROVE SInv'
<1>1. PICK now \in clock..MaxClock : clock' = now /\ at' = [at EXCEPT ![id] = now]
  BY DEF Stamp
<1>2. now \in Times /\ now # NoRun
  BY Constants DEF SInv, TypeOK, Times
<1>3. TypeOK'
  BY <1>1, <1>2 DEF SInv, TypeOK, Stamp, memory
<1>4. Listing' /\ Position' /\ Together'
  BY HoldsFrame DEF SInv, Listing, Position, Together, Stamp, memory
<1>5. Fresh'
  <2>1. \A o \in RunIds : Unsaved(o)' <=> Unsaved(o)
    BY HoldsFrame DEF Unsaved, Stamp, memory
  <2>2. at'[id] = now /\ \A o \in RunIds \ {id} : at'[o] = at[o]
    BY <1>1 DEF SInv, TypeOK
  <2>3. QED
    BY <1>2, <2>1, <2>2 DEF SInv, TypeOK, Fresh, Stamp
<1>6. QED
  BY <1>3, <1>4, <1>5 DEF SInv

\* Save and the import enter a run in the same way.
LEMMA RememberKeeps ==
  ASSUME SInv, NEW id \in RunIds, Remember(id), id \notin runs, saving = NoRun,
         phase \in {"idle", "import"}, backend = "sqlite", queue' \subseteq queue \ {id},
         at[id] # NoRun, imports' \in Seq(RunIds), Elems(imports') \subseteq Elems(imports),
         UNCHANGED <<backend, starting, clock, at, limit, rows, legacy, crashes, faults, acked>>
  PROVE  SInv'
<1>1. id \notin Elems(order) /\ order \in Seq(RunIds) /\ Distinct(order) /\ id # NoRun
  BY Constants DEF SInv, Listing, TypeOK
<1>2. order' = Append(order, id) /\ saving' = id /\ latest' = id /\ phase' = "evict"
      /\ runs' = runs \cup {id} /\ saved' = Append(saved, id)
  BY DEF Remember
<1>3. /\ order' \in Seq(RunIds) /\ Len(order') = Len(order) + 1 /\ Len(order) \in Nat
      /\ Distinct(order') /\ Elems(order') = Elems(order) \cup {id}
      /\ order'[Len(order')] = id /\ order' # <<>>
  BY <1>1, <1>2, AppendToList
<1>4. TypeOK'
  BY <1>2, <1>3 DEF SInv, TypeOK
<1>5. Listing' /\ Position'
  BY <1>2, <1>3 DEF SInv, Listing, Position, Elems, Distinct
<1>6. Fresh'
  <2>1. \A o \in RunIds \ {id} : Unsaved(o) => Unsaved(o)'
    BY <1>3 DEF Unsaved, Rows, Elems
  <2>2. QED
    BY <2>1 DEF SInv, Fresh
<1>7. Together'
  <2>1. Elems(order)' = Elems(order) \cup {id} /\ Rows' = Rows
    BY <1>3 DEF Elems, Rows
  <2>2. faults = 0 => Rows = Elems(order)
    <3>1. NoRun \notin Elems(order)
      BY <1>1, Constants, ElemsOfList
    <3>2. QED
      BY <3>1 DEF SInv, Together
  <2>3. QED
    BY <1>1, <1>2, <2>1, <2>2 DEF Together
<1>8. QED
  BY <1>4, <1>5, <1>6, <1>7 DEF SInv

LEMMA SaveRunKeeps == ASSUME SInv, NEW id \in RunIds, SaveRun(id) PROVE SInv'
<1>1. id \notin runs /\ at[id] # NoRun
  BY DEF SaveRun, SInv, Fresh, Unsaved, Listing
<1>2. /\ saving = NoRun /\ imports \in Seq(RunIds) /\ queue' \subseteq queue \ {id}
      /\ UNCHANGED imports
  BY DEF SaveRun, SInv, TypeOK
<1>3. QED
  BY <1>1, <1>2, RememberKeeps DEF SaveRun

LEMMA EvictKeeps == ASSUME SInv, Evict PROVE SInv'
<1>1. /\ order \in Seq(RunIds) /\ Distinct(order) /\ Len(order) > 1
      /\ phase = "evict" /\ backend = "sqlite"
  BY Constants DEF SInv, TypeOK, Listing, Position, Evict, OverLimit
<1>2. /\ order' \in Seq(RunIds) /\ Len(order') = Len(order) - 1 /\ Len(order) \in Nat
      /\ Distinct(order') /\ Head(order) \in RunIds /\ Head(order) # order[Len(order)]
      /\ Elems(order') = Elems(order) \ {Head(order)}
      /\ order'[Len(order')] = order[Len(order)] /\ order' # <<>> /\ order # <<>>
  <2>1. order' = Tail(order)
    BY DEF Evict
  <2>2. /\ order' \in Seq(RunIds) /\ Len(order') = Len(order) - 1 /\ Len(order) \in Nat
        /\ Distinct(order') /\ Head(order) \in RunIds /\ Head(order) # order[Len(order)]
        /\ Elems(order') = Elems(order) \ {Head(order)}
        /\ order'[Len(order')] = order[Len(order)]
    BY <1>1, <2>1, TailOfList
  <2>3. Len(<<>>) = 0
    OBVIOUS
  <2>4. QED
    BY <1>1, <2>2, <2>3
<1>3. /\ rows' \in [RunIds -> Times \cup {NoRun}] /\ faults' \in 0..MaxFaults
      /\ Rows' \subseteq Rows
      /\ faults' = 0 => faults = 0 /\ Rows' = Rows \ {Head(order)}
  <2>1. CASE rows' = Removed(Head(order)) /\ NoFault
    BY <1>2, <2>1 DEF Removed, NoFault, Rows, SInv, TypeOK
  <2>2. CASE UNCHANGED rows /\ Fault
    BY <2>2, Constants DEF Fault, Rows, SInv, TypeOK
  <2>3. QED
    BY <2>1, <2>2 DEF Evict
<1>4. TypeOK'
  BY <1>2, <1>3 DEF SInv, TypeOK, Evict
<1>5. Listing' /\ Position'
  BY <1>2 DEF SInv, Listing, Position, Evict, Elems, Distinct
<1>6. Fresh'
  <2>1. \A o \in RunIds : Unsaved(o) => Unsaved(o)'
    BY <1>2, <1>3 DEF Unsaved, Elems, Evict
  <2>2. QED
    BY <2>1 DEF SInv, Fresh, Evict
<1>7. Together'
  <2>1. Elems(order)' = Elems(order) \ {Head(order)}
    BY <1>2 DEF Elems
  <2>2. saving # NoRun => Head(order) # saving
    BY <1>2 DEF SInv, Listing
  <2>3. QED
    BY <1>1, <1>3, <2>1, <2>2 DEF SInv, Together, Evict
<1>8. QED
  BY <1>4, <1>5, <1>6, <1>7 DEF SInv

LEMMA PersistKeeps == ASSUME SInv, Persist PROVE SInv'
<1>1. PICK now \in clock..MaxClock :
        clock' = now /\ \/ rows' = [rows EXCEPT ![saving] = now] /\ NoFault
                        \/ UNCHANGED rows /\ Fault
  BY DEF Persist
<1>2. /\ now \in Times /\ now # NoRun /\ saving \in RunIds /\ saving # NoRun
      /\ saving \in Elems(order) /\ phase = "persist" /\ backend = "sqlite"
  <2>1. now \in Times /\ now # NoRun /\ saving \in RunIds /\ saving # NoRun
    BY Constants DEF SInv, TypeOK, Times, Persist
  <2>2. order \in Seq(RunIds) /\ order # <<>> /\ saving = order[Len(order)]
    BY <2>1 DEF SInv, TypeOK, Listing
  <2>3. saving \in Elems(order)
    BY <2>2, ElemsOfList
  <2>4. phase = "persist" /\ backend = "sqlite"
    BY DEF SInv, TypeOK, Position, Persist
  <2>5. QED
    BY <2>1, <2>3, <2>4
<1>3. /\ rows' \in [RunIds -> Times \cup {NoRun}] /\ faults' \in 0..MaxFaults
      /\ Rows' \subseteq Rows \cup {saving}
      /\ faults' = 0 => faults = 0 /\ Rows' = Rows \cup {saving}
  <2>1. CASE rows' = [rows EXCEPT ![saving] = now] /\ NoFault
    BY <1>2, <2>1 DEF NoFault, Rows, SInv, TypeOK
  <2>2. CASE UNCHANGED rows /\ Fault
    BY <2>2, Constants DEF Fault, Rows, SInv, TypeOK
  <2>3. QED
    BY <1>1, <2>1, <2>2
<1>4. /\ phase' \in {"idle", "import"} /\ saving' = NoRun /\ acked' = acked \cup {saving}
      /\ phase' = "idle" => ~starting
      /\ UNCHANGED <<backend, starting, imports, at, queue, order, runs, latest, limit,
                     legacy, crashes, saved>>
  BY DEF Persist
<1>5. TypeOK'
  BY <1>1, <1>2, <1>3, <1>4 DEF SInv, TypeOK
<1>6. Listing' /\ Position'
  BY <1>2, <1>4 DEF SInv, Listing, Position, Elems, Distinct
<1>7. Fresh'
  <2>1. \A o \in RunIds : Unsaved(o) => Unsaved(o)'
    BY <1>2, <1>3, <1>4 DEF Unsaved, Elems
  <2>2. QED
    BY <1>4, <2>1 DEF SInv, Fresh
<1>8. Together'
  <2>1. Elems(order)' = Elems(order) /\ NoRun \notin Elems(order)
    BY <1>4, Constants, ElemsOfList, PrimedLists DEF SInv, TypeOK
  <2>2. QED
    BY <1>2, <1>3, <1>4, <2>1 DEF SInv, Together
<1>9. QED
  BY <1>5, <1>6, <1>7, <1>8 DEF SInv

LEMMA ImportKeeps == ASSUME SInv, Import PROVE SInv'
<1>1. /\ imports \in Seq(RunIds) /\ imports # <<>> /\ phase = "import" /\ saving = NoRun
      /\ imports' = Tail(imports) /\ backend = "sqlite"
  BY DEF Import, ImportsLeft, SInv, TypeOK, Position
<1>2. /\ imports' \in Seq(RunIds) /\ Head(imports) \in RunIds
      /\ Head(imports) \in Elems(imports) /\ Elems(imports') \subseteq Elems(imports)
  BY <1>1 DEF Elems
<1>3. CASE Head(imports) \in runs
  <2>1. UNCHANGED <<phase, backend, starting, memory, clock, at, queue, rows, legacy, crashes,
                    faults, saved, acked>>
    BY <1>3 DEF Import
  <2>2. TypeOK' /\ Listing' /\ Position' /\ Together'
    BY <1>1, <1>2, <2>1
       DEF SInv, TypeOK, Listing, Position, Together, memory, Rows, Elems, Distinct
  <2>3. \A o \in RunIds : Unsaved(o) => Unsaved(o)'
    BY <1>2, <2>1 DEF Unsaved, Rows, Elems, memory
  <2>4. Fresh'
    BY <2>1, <2>3 DEF SInv, Fresh
  <2>5. QED
    BY <2>2, <2>4 DEF SInv
<1>4. CASE Head(imports) \notin runs
  <2>1. /\ Remember(Head(imports))
        /\ UNCHANGED <<backend, starting, clock, at, limit, rows, legacy, crashes, faults, acked,
                       queue>>
    BY <1>4 DEF Import
  <2>2. at[Head(imports)] # NoRun /\ Head(imports) \notin queue
    BY <1>2 DEF SInv, Fresh, Unsaved
  <2>3. QED
    BY <1>1, <1>2, <1>4, <2>1, <2>2, RememberKeeps
<1>5. QED
  BY <1>3, <1>4

LEMMA EvictedKeeps == ASSUME SInv, Evicted \/ Started PROVE SInv'
<1>1. /\ UNCHANGED <<backend, imports, clock, at, queue, memory, rows, legacy, crashes, faults,
                     saved, acked>>
      /\ phase # "down" /\ backend = "sqlite"
  BY DEF Evicted, Started, SInv, Position, TypeOK
<1>2. /\ phase' \in {"persist", "import", "idle"}
      /\ phase' = "persist" => saving # NoRun
      /\ phase' \in {"import", "idle"} => saving = NoRun
      /\ phase' = "idle" => ~starting'
      /\ starting' \in BOOLEAN
  BY DEF Evicted, Started, AfterEviction, SInv, TypeOK
<1>3. TypeOK'
  BY <1>1, <1>2 DEF SInv, TypeOK, memory
<1>4. Listing' /\ Position' /\ Fresh' /\ Together'
  BY <1>1, <1>2 DEF SInv, Listing, Position, Fresh, Unsaved, Together, memory, Rows, Elems,
                    Distinct
<1>5. QED
  BY <1>3, <1>4 DEF SInv

-----------------------------------------------------------------------------
(* Restarts *)

\* A restart that reads the database or the directory lists each run once.
LEMMA LoadedKeeps ==
  ASSUME SInv, NEW ids \in Seq(RunIds), Loaded(ids), Distinct(ids),
         phase = "down", phase' \in {"idle", "evict"}, phase' = "idle" => ~starting',
         backend' \in {"sqlite", "json"}, starting' \in BOOLEAN,
         backend' = "json" => phase' = "idle",
         imports' \in Seq(RunIds), limit' \in Limits, faults' \in 0..MaxFaults,
         Elems(imports') \subseteq Elems(legacy) \cup Elems(imports),
         Elems(ids) \subseteq Rows \cup Elems(legacy),
         faults' = 0 /\ backend' = "sqlite" => Elems(ids) = Rows,
         UNCHANGED <<clock, at, queue, saving, rows, legacy, crashes, saved, acked>>
  PROVE  SInv'
<1>1. /\ order' = ids /\ runs' = Elems(ids) /\ saving = NoRun
      /\ ids # <<>> => latest' = ids[Len(ids)] /\ latest' \in RunIds
      /\ ids = <<>> => latest' = NoRun
  BY ElemsOfList DEF Loaded, Last, SInv, TypeOK
<1>2. Elems(ids) \subseteq RunIds /\ NoRun \notin RunIds
  BY ElemsOfList, Constants
<1>3. TypeOK'
  BY <1>1, <1>2 DEF SInv, TypeOK
<1>4. Listing' /\ Position'
  BY <1>1 DEF SInv, Listing, Position, Elems, Distinct
<1>5. Fresh'
  <2>1. \A o \in RunIds : Unsaved(o) => Unsaved(o)'
    <3>1. Rows' = Rows /\ Elems(legacy') = Elems(legacy)
      BY DEF Rows
    <3>2. QED
      BY <1>1, <3>1, PrimedLists DEF Unsaved
  <2>2. QED
    BY <2>1 DEF SInv, Fresh
<1>6. Together'
  <2>1. Rows' = Rows /\ Elems(order)' = Elems(ids)
    BY <1>1, PrimedLists DEF Rows
  <2>2. QED
    BY <1>1, <1>2, <2>1 DEF Together
<1>7. QED
  BY <1>3, <1>4, <1>5, <1>6 DEF SInv

LEMMA StartKeeps == ASSUME SInv, Start PROVE SInv'
<1>1. /\ phase = "down" /\ limit' \in Limits /\ starting = FALSE /\ imports \in Seq(RunIds)
      /\ legacy \in Seq(RunIds) /\ Distinct(legacy)
      /\ UNCHANGED <<clock, at, queue, saving, rows, legacy, crashes, saved, acked>>
  BY DEF Start, SInv, TypeOK, Position, Listing
<1>2. ASSUME NEW ids \in BoundedSeq(Rows, Cardinality(Rows)), Recovered(ids), Loaded(ids),
             NoFault, phase' = "evict", backend' = "sqlite", starting' = TRUE, imports' = legacy
      PROVE  SInv'
  <2>1. ids \in Seq(RunIds)
    <3>1. PICK m \in 0..Cardinality(Rows) : ids \in [1..m -> Rows]
      BY <1>2 DEF BoundedSeq, SeqOf
    <3>2. m \in Nat /\ ids \in [1..m -> RunIds]
      BY <3>1 DEF Rows
    <3>3. QED
      BY <3>2
  <2>2. Distinct(ids)
    <3>1. SUFFICES ASSUME NEW i \in 1..Len(ids), NEW j \in 1..Len(ids), ids[i] = ids[j]
                   PROVE  i = j
      BY DEF Distinct
    <3>2. /\ ids[i] \in RunIds /\ at[ids[i]] \in Times \cup {NoRun}
          /\ rows[ids[i]] \in Times \cup {NoRun}
      BY <2>1 DEF SInv, TypeOK
    <3>3. ids[i] \in Rows /\ ~Unsaved(ids[i])
      BY <1>2 DEF Recovered, Elems, Unsaved
    <3>4. at[ids[i]] \in Times /\ rows[ids[i]] \in Times
      BY <3>2, <3>3 DEF SInv, Fresh, Rows
    <3>5. ~Before(ids[i], ids[i])
      <4>1. at[ids[i]] \in Nat /\ rows[ids[i]] \in Nat /\ ids[i] \in Nat
        BY <3>2, <3>4, Constants
      <4>2. QED
        BY <4>1 DEF Before
    <3>6. ~(i < j) /\ ~(j < i)
      BY <1>2, <3>1, <3>5 DEF Recovered
    <3>7. QED
      BY <2>1, <3>6
  <2>3. faults' \in 0..MaxFaults
    BY <1>2 DEF NoFault, SInv, TypeOK
  <2>4. Elems(ids) = Rows
    BY <1>2 DEF Recovered
  <2>5. QED
    BY <1>1, <1>2, <2>1, <2>2, <2>3, <2>4, LoadedKeeps
<1>3. ASSUME Loaded(legacy), Fault, phase' = "idle", backend' = "json",
             UNCHANGED <<starting, imports>>
      PROVE  SInv'
  <2>1. faults' \in 0..MaxFaults /\ faults' # 0
    BY <1>3, Constants DEF Fault, SInv, TypeOK
  <2>2. /\ Elems(imports') \subseteq Elems(legacy) \cup Elems(imports)
        /\ Elems(legacy) \subseteq Rows \cup Elems(legacy)
    BY <1>3
  <2>3. QED
    BY <1>1, <1>3, <2>1, <2>2, LoadedKeeps
<1>4. QED
  BY <1>2, <1>3 DEF Start

LEMMA SaveJSONKeeps == ASSUME SInv, NEW id \in RunIds, SaveJSON(id) PROVE SInv'
<1>1. /\ order \in Seq(RunIds) /\ Distinct(order) /\ id \notin Elems(order) /\ limit \in Nat \ {0}
      /\ at[id] # NoRun /\ phase = "idle" /\ backend = "json" /\ saving = NoRun
  BY SQLiteAssumption DEF SaveJSON, SInv, TypeOK, Listing, Fresh, Unsaved
<1> DEFINE all  == Append(order, id)
           n    == IF Len(all) > limit THEN Len(all) - limit + 1 ELSE 1
           kept == SubSeq(all, n, Len(all))
<1>2. /\ all \in Seq(RunIds) /\ Len(all) = Len(order) + 1 /\ Len(order) \in Nat
      /\ Distinct(all) /\ Elems(all) = Elems(order) \cup {id} /\ all[Len(all)] = id
  BY <1>1, AppendToList
<1>3. order' = kept /\ runs' = Elems(kept) /\ legacy' = kept
  BY DEF SaveJSON
<1>4. n \in 1..Len(all)
  BY <1>1, <1>2
<1> HIDE DEF all, n
<1>5. /\ kept \in Seq(RunIds) /\ Distinct(kept) /\ Elems(kept) \subseteq Elems(all)
      /\ kept[Len(kept)] = id
  BY <1>2, <1>4, EndOfList
<1>6. Elems(kept) \subseteq RunIds
  BY <1>5, ElemsOfList
<1> HIDE DEF kept
<1>7. /\ latest' = id /\ queue' = queue \ {id} /\ saved' = Append(saved, id)
      /\ acked' = acked \cup {id}
      /\ UNCHANGED <<phase, backend, starting, imports, clock, at, limit, saving, rows, crashes,
                     faults>>
  BY DEF SaveJSON
<1>8. TypeOK'
  BY <1>3, <1>5, <1>6, <1>7 DEF SInv, TypeOK
<1>9. Listing' /\ Position' /\ Together'
  BY <1>1, <1>3, <1>5, <1>7 DEF SInv, Listing, Position, Together, Elems, Distinct
<1>10. Fresh'
  <2>1. \A o \in RunIds \ {id} : Unsaved(o) => Unsaved(o)'
    <3>1. Rows' = Rows /\ Elems(imports') = Elems(imports)
      BY <1>7 DEF Rows
    <3>2. QED
      BY <1>2, <1>3, <1>5, <3>1, PrimedLists DEF Unsaved
  <2>2. QED
    BY <1>1, <1>7, <2>1 DEF SInv, Fresh
<1>11. QED
  BY <1>8, <1>9, <1>10 DEF SInv

LEMMA CrashKeeps == ASSUME SInv, Crash PROVE SInv'
<1>1. TypeOK'
  <2>1. crashes' \in 0..MaxCrashes
    BY Constants DEF SInv, TypeOK, Crash
  <2>2. <<>> \in Seq(RunIds)
    OBVIOUS
  <2>3. QED
    BY <2>1, <2>2 DEF SInv, TypeOK, Crash
<1>2. Elems(<<>>) = {} /\ Distinct(<<>>)
  BY DEF Elems, Distinct
<1>3. Listing' /\ Position' /\ Together'
  BY <1>2 DEF SInv, Listing, Position, Together, Crash, Elems, Distinct
<1>4. Fresh'
  <2>1. \A o \in RunIds : Unsaved(o) => Unsaved(o)'
    BY <1>2 DEF Unsaved, Crash, Rows, Elems
  <2>2. QED
    BY <2>1 DEF SInv, Fresh, Crash
<1>5. QED
  BY <1>1, <1>3, <1>4 DEF SInv

LEMMA NextSInv == SInv /\ [Next]_vars => SInv'
<1>1. ASSUME SInv, UNCHANGED vars PROVE SInv'
  BY <1>1 DEF vars, memory, SInv, TypeOK, Listing, Position, Fresh, Together, Unsaved, Rows,
              Elems, Distinct
<1>2. QED
  BY <1>1, StampKeeps, SaveRunKeeps, SaveJSONKeeps, EvictKeeps, EvictedKeeps, PersistKeeps,
     ImportKeeps, StartKeeps, CrashKeeps DEF Next, LockHolder

LEMMA SpecSInv == Spec => []SInv
  BY InitSInv, NextSInv, PTL DEF Spec

-----------------------------------------------------------------------------
\* Every variable of the SQLite store keeps its type, and a run is in hand
\* exactly where Save and the import have one.
THEOREM SQLiteTypeCorrect == Spec => []TypeOK
<1>1. SInv => TypeOK
  BY DEF SInv
<1>2. QED
  BY <1>1, SpecSInv, PTL

\* Whatever crashed or failed before, readers find no run twice in the list,
\* can fetch exactly the listed runs, and "latest" is one of them (Get, List,
\* loadSQLite, importJSONRuns and the fallback to the JSON directory).
THEOREM HistoryConsistentAlways == Spec => []HistoryConsistent
<1>1. ASSUME SInv, phase = "idle", order # <<>> PROVE latest \in runs
  <2>1. order \in Seq(RunIds) /\ latest = order[Len(order)] /\ runs = Elems(order)
    BY <1>1 DEF SInv, TypeOK, Listing
  <2>2. Len(order) \in 1..Len(order)
    BY <1>1, <2>1
  <2>3. QED
    BY <2>1, <2>2 DEF Elems
<1>2. SInv => HistoryConsistent
  BY <1>1 DEF SInv, Listing, Position, HistoryConsistent
<1>3. QED
  BY <1>2, SpecSInv, PTL

\* As long as no statement fails, the rows are exactly the runs that readers
\* see, however often the process dies between an eviction and the transaction
\* after it (enforceLimitLocked, persistSQLiteRunLocked).
THEOREM RowsAreTheHistoryAlways == Spec => []RowsAreTheHistory
<1>1. SInv => RowsAreTheHistory
  <2>1. SUFFICES ASSUME SInv, phase = "idle", backend = "sqlite", faults = 0
                 PROVE  Rows = Elems(order)
    BY DEF RowsAreTheHistory
  <2>2. saving = NoRun /\ NoRun \notin Elems(order)
    BY <2>1, Constants, ElemsOfList DEF SInv, TypeOK
  <2>3. QED
    BY <2>1, <2>2 DEF SInv, Together
<1>2. QED
  BY <1>1, SpecSInv, PTL

-----------------------------------------------------------------------------
(* What an eviction costs *)

\* The runs in memory are in the order of their creation or of their saves.
Ordered == \A i, j \in 1..Len(order) :
  i < j => at[order[j]] >= at[order[i]] \/ Rank(order[j]) > Rank(order[i])

NeverImported == faults = 0 /\ \A id \in RunIds : at[id] # 0

Lasting ==
  /\ legacy = <<>> /\ imports = <<>> /\ backend = "sqlite"
  /\ Distinct(saved)
  /\ \A id \in Elems(saved) : at[id] # NoRun /\ id \notin queue
  /\ Rows \subseteq acked /\ acked \subseteq Elems(saved)
  /\ Elems(order) \subseteq Elems(saved)
  /\ Ordered
  /\ AckedRunsSurvive

LInv == SInv /\ clock # 0 /\ (NeverImported => Lasting)

LEMMA RankIs ==
  ASSUME NEW s \in Seq(RunIds), Distinct(s), NEW i \in 1..Len(s)
  PROVE  (CHOOSE k \in 1..Len(s) : s[k] = s[i]) = i
<1>1. \A k \in 1..Len(s) : s[k] = s[i] => k = i
  BY DEF Distinct
<1> QED
  BY <1>1

LEMMA ElemsFinite ==
  ASSUME NEW S, NEW s \in Seq(S)
  PROVE  IsFiniteSet(Elems(s))
<1>1. IsFiniteSet(1..Len(s))
  <2>1. 1 \in Int /\ Len(s) \in Int
    OBVIOUS
  <2> QED
    BY <2>1, FS_Interval
<1>2. s \in Surjection(1..Len(s), Elems(s))
  <2>1. s \in [1..Len(s) -> Elems(s)]
    <3>1. s \in [1..Len(s) -> S]
      OBVIOUS
    <3> QED
      BY <3>1 DEF Elems
  <2>2. \A x \in Elems(s) : \E i \in 1..Len(s) : s[i] = x
    BY DEF Elems
  <2> QED
    BY <2>1, <2>2 DEF Surjection
<1> QED
  BY <1>1, <1>2, FS_Surjection

\* Rivals stay rivals when more runs are saved.
LEMMA RivalsStay ==
  ASSUME saved \in Seq(RunIds), saved' \in Seq(RunIds), Distinct(saved), Distinct(saved'),
         Len(saved) <= Len(saved'), \A i \in 1..Len(saved) : saved'[i] = saved[i],
         \A o \in Elems(saved) : at'[o] = at[o], NEW x \in Elems(saved)
  PROVE  /\ Cardinality(Rivals(x)) \in Nat /\ Cardinality(Rivals(x)') \in Nat
         /\ Cardinality(Rivals(x)) <= Cardinality(Rivals(x)')
<1>1. \A o \in Elems(saved) : o \in Elems(saved') /\ Rank(o)' = Rank(o)
  <2> SUFFICES ASSUME NEW o \in Elems(saved) PROVE o \in Elems(saved') /\ Rank(o)' = Rank(o)
    OBVIOUS
  <2>1. PICK i \in 1..Len(saved) : o = saved[i]
    BY DEF Elems
  <2>2. i \in 1..Len(saved') /\ o = saved'[i]
    BY <2>1
  <2>3. Rank(o) = i
    BY <2>1, RankIs DEF Rank
  <2>4. Rank(o)' = i
    BY <2>2, RankIs DEF Rank
  <2> QED
    BY <2>2, <2>3, <2>4 DEF Elems
<1>2. Rivals(x) \subseteq Rivals(x)'
  BY <1>1, PrimedLists DEF Rivals, Elems
<1>3. IsFiniteSet(Rivals(x)')
  <2>1. IsFiniteSet(Elems(saved'))
    BY ElemsFinite
  <2>2. Rivals(x)' \subseteq Elems(saved')
    BY DEF Rivals, Elems
  <2> QED
    BY <2>1, <2>2, FS_Subset
<1>4. IsFiniteSet(Rivals(x)) /\ Cardinality(Rivals(x)) <= Cardinality(Rivals(x)')
  BY <1>2, <1>3, FS_Subset
<1> QED
  BY <1>3, <1>4, FS_CardinalityType

LEMMA SmallestLimitFacts ==
  ASSUME Limits # {}
  PROVE  SmallestLimit \in Limits /\ \A m \in Limits : SmallestLimit <= m
<1>1. Limits \subseteq Nat
  BY Constants
<1>2. PICK l \in Limits : \A k \in Limits : ~(<<k, l>> \in OpToRel(<, Nat))
  BY <1>1, NatLessThanWellFounded, WFMin, Zenon
<1>3. \A m \in Limits : l <= m
  <2> SUFFICES ASSUME NEW m \in Limits, ~(l <= m) PROVE FALSE
    OBVIOUS
  <2>1. m \in Nat /\ l \in Nat /\ m < l
    BY <1>1
  <2>2. <<m, l>> \in OpToRel(<, Nat)
    BY <2>1 DEF OpToRel
  <2> QED
    BY <1>2, <2>2
<1>4. \E k \in Limits : \A m \in Limits : k <= m
  BY <1>3
<1> QED
  BY <1>4 DEF SmallestLimit

\* A run that is evicted leaves as many rivals in memory as the limit asks for.
LEMMA EvictedHasRivals ==
  ASSUME SInv, Lasting, Evict
  PROVE  Cardinality(Rivals(Head(order))) >= SmallestLimit
<1> DEFINE h == Head(order)
           S == 2..Len(order)
           f == [j \in S |-> order[j]]
<1>1. /\ order \in Seq(RunIds) /\ Distinct(order) /\ Len(order) > limit /\ Len(order) \in Nat
      /\ limit \in Limits /\ limit \in Nat \ {0} /\ h = order[1]
      /\ saved \in Seq(RunIds) /\ Elems(order) \subseteq Elems(saved)
  BY Constants DEF SInv, TypeOK, Listing, Evict, OverLimit, Lasting
<1>2. \A j \in S : order[j] \in Rivals(h)
  <2> SUFFICES ASSUME NEW j \in S PROVE order[j] \in Rivals(h)
    OBVIOUS
  <2>1. 1 \in 1..Len(order) /\ j \in 1..Len(order) /\ 1 < j
    BY <1>1
  <2>2. at[order[j]] >= at[h] \/ Rank(order[j]) > Rank(h)
    BY <1>1, <2>1 DEF Lasting, Ordered
  <2>3. order[j] # h /\ order[j] \in Elems(saved)
    BY <1>1, <2>1, SMTT(40) DEF Distinct, Elems
  <2> QED
    BY <2>2, <2>3 DEF Rivals
<1>3. f \in Injection(S, Rivals(h))
  <2>1. f \in [S -> Rivals(h)]
    BY <1>2
  <2>2. \A i, j \in S : f[i] = f[j] => i = j
    BY <1>1 DEF Distinct
  <2> HIDE DEF f, S, h
  <2> QED
    BY <2>1, <2>2 DEF Injection, IsInjective
<1>4. Cardinality(S) = IF 2 > Len(order) THEN 0 ELSE Len(order) - 2 + 1
  <2>1. 2 \in Int /\ Len(order) \in Int
    BY <1>1
  <2> QED
    BY <2>1, FS_Interval
<1>5. IsFiniteSet(Rivals(h))
  <2>1. IsFiniteSet(Elems(saved))
    BY <1>1, ElemsFinite
  <2>2. Rivals(h) \subseteq Elems(saved)
    BY DEF Rivals
  <2> QED
    BY <2>1, <2>2, FS_Subset
<1>6. Cardinality(S) <= Cardinality(Rivals(h)) /\ Cardinality(Rivals(h)) \in Nat
  <2> HIDE DEF f, S, h
  <2> QED
    BY <1>3, <1>5, FS_Injection, FS_CardinalityType
<1>7. SmallestLimit \in Nat /\ SmallestLimit <= limit
  BY <1>1, Constants, SmallestLimitFacts
<1> QED
  BY <1>1, <1>4, <1>6, <1>7

\* A step that neither saves a run nor takes a row away keeps what was said of
\* the acknowledged ones.
LEMMA SurvivorsStay ==
  ASSUME Lasting, NeverImported, UNCHANGED <<saved, acked>>, SInv,
         \A id \in RunIds : rows[id] # NoRun => rows'[id] # NoRun,
         \A o \in Elems(saved) : at'[o] = at[o]
  PROVE  AckedRunsSurvive'
<1> SUFFICES ASSUME NEW x \in acked, rows'[x] = NoRun
             PROVE  Cardinality(Rivals(x)') >= SmallestLimit
  BY DEF AckedRunsSurvive
<1>1. x \in Elems(saved) /\ x \in RunIds /\ saved \in Seq(RunIds)
  BY DEF Lasting, SInv, TypeOK
<1>2. Cardinality(Rivals(x)) >= SmallestLimit
  BY <1>1 DEF Lasting, NeverImported, AckedRunsSurvive
<1>3. /\ Cardinality(Rivals(x)) \in Nat /\ Cardinality(Rivals(x)') \in Nat
      /\ Cardinality(Rivals(x)) <= Cardinality(Rivals(x)')
  BY <1>1, RivalsStay DEF Lasting
<1>4. SmallestLimit \in Nat
  BY Constants, SmallestLimitFacts DEF SInv, TypeOK
<1> QED
  BY <1>2, <1>3, <1>4

\* SaveRun enters a run at the end of the order and of the saves.
LEMMA SaveRunLasts ==
  ASSUME SInv, Lasting, NeverImported, NEW id \in RunIds, SaveRun(id)
  PROVE  Lasting'
<1>1. /\ saved \in Seq(RunIds) /\ order \in Seq(RunIds) /\ Distinct(saved) /\ Distinct(order)
      /\ id \notin Elems(saved) /\ Elems(order) \subseteq Elems(saved) /\ id \notin Elems(order)
      /\ saved' = Append(saved, id) /\ order' = Append(order, id) /\ at[id] # NoRun
      /\ queue' = queue \ {id}
      /\ UNCHANGED <<at, rows, acked, legacy, imports, backend>>
  BY DEF SInv, TypeOK, Listing, Fresh, Lasting, SaveRun, Remember
<1>2. /\ saved' \in Seq(RunIds) /\ Distinct(saved') /\ Elems(saved') = Elems(saved) \cup {id}
      /\ Len(saved') = Len(saved) + 1 /\ Len(saved) \in Nat /\ saved'[Len(saved')] = id
      /\ \A i \in 1..Len(saved) : saved'[i] = saved[i]
  BY <1>1, AppendToList
<1>3. /\ order' \in Seq(RunIds) /\ Elems(order') = Elems(order) \cup {id}
      /\ Len(order') = Len(order) + 1 /\ Len(order) \in Nat /\ order'[Len(order')] = id
      /\ \A i \in 1..Len(order) : order'[i] = order[i]
  BY <1>1, AppendToList
<1>4. \A o \in Elems(saved) : Rank(o)' = Rank(o) /\ Rank(o) \in 1..Len(saved)
  <2> SUFFICES ASSUME NEW o \in Elems(saved) PROVE Rank(o)' = Rank(o) /\ Rank(o) \in 1..Len(saved)
    OBVIOUS
  <2>1. PICK i \in 1..Len(saved) : o = saved[i]
    BY DEF Elems
  <2>2. i \in 1..Len(saved') /\ o = saved'[i]
    BY <1>2, <2>1
  <2>3. Rank(o) = i
    BY <1>1, <2>1, RankIs DEF Rank
  <2>4. Rank(o)' = i
    BY <1>2, <2>2, RankIs DEF Rank
  <2> QED
    BY <2>1, <2>3, <2>4
<1>5. Rank(id)' = Len(saved) + 1
  <2>1. Len(saved') \in 1..Len(saved')
    BY <1>2
  <2> QED
    BY <1>2, <2>1, RankIs DEF Rank
<1>6. Ordered'
  <2> SUFFICES ASSUME NEW i \in 1..Len(order'), NEW j \in 1..Len(order'), i < j
               PROVE  at[order'[j]] >= at[order'[i]] \/ Rank(order[j])' > Rank(order[i])'
    BY <1>1 DEF Ordered
  <2>0. \A k \in 1..Len(order) : order[k] \in Elems(saved)
    BY <1>1 DEF Elems
  <2>1. i \in 1..Len(order) /\ order'[i] = order[i] /\ order[i] \in Elems(saved)
    BY <1>3, <2>0
  <2>a. Rank(order[i])' = Rank(order[i]) /\ Rank(order[i]) \in 1..Len(saved)
    <3>1. \A o \in Elems(saved) : o = order'[i] => Rank(order[i])' = Rank(o) /\ Rank(o) \in 1..Len(saved)
      BY <1>4
    <3> QED
      BY <2>1, <3>1
  <2>2. CASE j = Len(order')
    <3>1. order'[j] = id
      BY <1>3, <2>2
    <3>2. Rank(order[j])' = Len(saved) + 1
      BY <1>5, <3>1
    <3> QED
      BY <1>2, <2>a, <3>2
  <2>3. CASE j # Len(order')
    <3>1. j \in 1..Len(order) /\ order'[j] = order[j] /\ order[j] \in Elems(saved)
      BY <1>3, <2>0, <2>3
    <3>2. \A o \in Elems(saved) : o = order'[j] => Rank(order[j])' = Rank(o)
      BY <1>4
    <3>3. Rank(order[j])' = Rank(order[j])
      BY <3>1, <3>2
    <3> QED
      BY <2>1, <2>a, <3>1, <3>3 DEF Lasting, Ordered
  <2> QED
    BY <2>2, <2>3
<1>7. AckedRunsSurvive'
  <2> SUFFICES ASSUME NEW x \in acked, rows[x] = NoRun
               PROVE  Cardinality(Rivals(x)') >= SmallestLimit
    BY <1>1 DEF AckedRunsSurvive
  <2>1. x \in Elems(saved) /\ Cardinality(Rivals(x)) >= SmallestLimit
    BY DEF Lasting, NeverImported, AckedRunsSurvive
  <2>2. /\ Cardinality(Rivals(x)) \in Nat /\ Cardinality(Rivals(x)') \in Nat
        /\ Cardinality(Rivals(x)) <= Cardinality(Rivals(x)')
    <3>1. Len(saved) <= Len(saved')
      BY <1>2
    <3> QED
      BY <1>1, <1>2, <2>1, <3>1, RivalsStay
  <2>3. SmallestLimit \in Nat
    BY Constants, SmallestLimitFacts DEF SInv, TypeOK
  <2> QED
    BY <2>1, <2>2, <2>3
<1>8. Rows' = Rows /\ Elems(saved)' = Elems(saved') /\ Elems(order)' = Elems(order')
      /\ Distinct(saved)' = Distinct(saved')
  BY <1>1 DEF Rows, Elems, Distinct
<1> QED
  BY <1>1, <1>2, <1>3, <1>6, <1>7, <1>8 DEF Lasting

LEMMA EvictLasts ==
  ASSUME SInv, Lasting, NeverImported, Evict, faults' = 0
  PROVE  Lasting'
<1> DEFINE h == Head(order)
<1>1. /\ order \in Seq(RunIds) /\ Distinct(order) /\ Len(order) > 1 /\ order' = Tail(order)
      /\ saved \in Seq(RunIds) /\ rows' = [rows EXCEPT ![h] = NoRun]
      /\ UNCHANGED <<at, queue, saved, acked, legacy, imports, backend>>
  BY Constants DEF SInv, TypeOK, Listing, Evict, OverLimit, Lasting, NeverImported, Fault, Removed
<1>2. /\ order' \in Seq(RunIds) /\ Len(order') = Len(order) - 1 /\ Len(order) \in Nat
      /\ h \in RunIds /\ Elems(order') = Elems(order) \ {h}
      /\ \A i \in 1..Len(order') : order'[i] = order[i + 1] /\ i + 1 \in 1..Len(order)
  BY <1>1, TailOfList
<1>3. Ordered'
  <2>1. \A o : Rank(o)' = Rank(o)
    BY <1>1 DEF Rank
  <2> SUFFICES ASSUME NEW i \in 1..Len(order'), NEW j \in 1..Len(order'), i < j
               PROVE  at[order'[j]] >= at[order'[i]] \/ Rank(order'[j]) > Rank(order'[i])
    BY <1>1, <2>1 DEF Ordered
  <2>2. i + 1 < j + 1 /\ i + 1 \in 1..Len(order) /\ j + 1 \in 1..Len(order)
        /\ order'[i] = order[i + 1] /\ order'[j] = order[j + 1]
    BY <1>2
  <2> QED
    BY <2>2 DEF Lasting, Ordered
<1>4. AckedRunsSurvive'
  <2>0. \A x : Rivals(x)' = Rivals(x)
    BY <1>1 DEF Rivals, Rank, Elems
  <2> SUFFICES ASSUME NEW x \in acked, rows'[x] = NoRun
               PROVE  Cardinality(Rivals(x)) >= SmallestLimit
    BY <1>1, <2>0 DEF AckedRunsSurvive
  <2>1. CASE x = h
    BY <2>1, EvictedHasRivals
  <2>2. CASE x # h
    <3>1. rows[x] = NoRun
      BY <1>1, <2>2 DEF SInv, TypeOK
    <3> QED
      BY <3>1 DEF Lasting, NeverImported, AckedRunsSurvive
  <2> QED
    BY <2>1, <2>2
<1>5. Rows' \subseteq Rows /\ Elems(saved)' = Elems(saved) /\ Elems(order)' = Elems(order')
      /\ Distinct(saved)' = Distinct(saved)
  BY <1>1, <1>2 DEF Rows, Elems, Distinct, SInv, TypeOK
<1> QED
  BY <1>1, <1>2, <1>3, <1>4, <1>5 DEF Lasting

LEMMA PersistLasts ==
  ASSUME SInv, Lasting, NeverImported, Persist, faults' = 0
  PROVE  Lasting'
<1>1. PICK now \in clock..MaxClock : rows' = [rows EXCEPT ![saving] = now]
  BY Constants DEF Persist, NeverImported, Fault
<1>2. /\ saving \in RunIds /\ saving # NoRun /\ saving \in Elems(saved) /\ now # NoRun
      /\ acked' = acked \cup {saving}
      /\ UNCHANGED <<at, queue, saved, order, legacy, imports, backend>>
  <2>1. saving \in RunIds /\ saving # NoRun /\ order \in Seq(RunIds) /\ order # <<>>
        /\ saving = order[Len(order)] /\ now # NoRun
    BY Constants DEF SInv, TypeOK, Listing, Persist, Times
  <2>2. saving \in Elems(saved)
    BY <2>1, ElemsOfList DEF Lasting
  <2> QED
    BY <2>1, <2>2 DEF Persist
<1>3. \A id \in RunIds : rows'[id] = IF id = saving THEN now ELSE rows[id]
  BY <1>1 DEF SInv, TypeOK
<1>4. \A x : Rivals(x)' = Rivals(x) /\ Rank(x)' = Rank(x)
  BY <1>2 DEF Rivals, Rank, Elems
<1>5. AckedRunsSurvive'
  <2> SUFFICES ASSUME NEW x \in acked', rows'[x] = NoRun
               PROVE  Cardinality(Rivals(x)) >= SmallestLimit
    BY <1>4 DEF AckedRunsSurvive
  <2>1. x \in acked /\ rows[x] = NoRun
    BY <1>2, <1>3 DEF SInv, TypeOK
  <2> QED
    BY <2>1 DEF Lasting, NeverImported, AckedRunsSurvive
<1>6. Rows' \subseteq Rows \cup {saving}
  BY <1>3 DEF Rows
<1>7. Elems(saved)' = Elems(saved) /\ Elems(order)' = Elems(order)
      /\ Distinct(saved)' = Distinct(saved) /\ Ordered' = Ordered
  BY <1>2, <1>4 DEF Elems, Distinct, Ordered
<1> QED
  BY <1>2, <1>5, <1>6, <1>7 DEF Lasting

LEMMA StartLasts ==
  ASSUME SInv, Lasting, NeverImported, Start, faults' = 0
  PROVE  Lasting'
<1>1. PICK ids \in BoundedSeq(Rows, Cardinality(Rows)) : Recovered(ids) /\ Loaded(ids)
  BY Constants DEF Start, Fault, NeverImported
<1>2. /\ order' = ids /\ imports' = <<>> /\ backend' = "sqlite"
      /\ UNCHANGED <<at, queue, rows, saved, acked, legacy>>
  BY <1>1, Constants DEF Start, Fault, NeverImported, Loaded, Lasting
<1>3. Elems(ids) = Rows /\ Elems(ids) \subseteq Elems(saved)
  BY <1>1 DEF Recovered, Lasting
<1>4. Ordered'
  <2> SUFFICES ASSUME NEW i \in 1..Len(ids), NEW j \in 1..Len(ids), i < j
               PROVE  at[ids[j]] >= at[ids[i]]
    BY <1>2 DEF Ordered
  <2>1. ids[i] \in Elems(saved) /\ ids[j] \in Elems(saved)
    BY <1>3 DEF Elems
  <2>2. at[ids[i]] \in Nat /\ at[ids[j]] \in Nat
    <3>1. ids[i] \in RunIds /\ ids[j] \in RunIds
      BY <1>3 DEF Elems, Rows
    <3> QED
      BY <2>1, <3>1, Constants DEF SInv, TypeOK, Lasting
  <2>3. Before(ids[i], ids[j])
    BY <1>1 DEF Recovered
  <2> QED
    BY <2>2, <2>3 DEF Before
<1>5. AckedRunsSurvive'
  BY <1>2, SurvivorsStay
<1>6. Rows' = Rows /\ Elems(saved)' = Elems(saved) /\ Elems(order)' = Elems(ids)
      /\ Distinct(saved)' = Distinct(saved)
  BY <1>2 DEF Rows, Elems, Distinct
<1> QED
  BY <1>2, <1>3, <1>4, <1>5, <1>6 DEF Lasting

\* The steps that leave the store's list and its rows, or only the list, alone.
LEMMA OthersLast ==
  ASSUME SInv, Lasting, NeverImported, saved' = saved, acked' = acked, rows' = rows,
         UNCHANGED <<legacy, imports, backend>>, order' \in {order, <<>>},
         \A o \in Elems(saved) : at'[o] = at[o] /\ (o \in queue' => o \in queue)
  PROVE  Lasting'
<1>1. AckedRunsSurvive'
  BY SurvivorsStay
<1>2. Elems(<<>>) = {}
  BY DEF Elems
<1>3. Rows' = Rows /\ Elems(saved)' = Elems(saved) /\ Elems(order)' \subseteq Elems(saved)
      /\ Distinct(saved)' = Distinct(saved)
  BY <1>2, PrimedLists DEF Rows, Elems, Distinct, Lasting
<1>4. Ordered'
  <2>1. \A o : Rank(o)' = Rank(o)
    BY DEF Rank
  <2>2. CASE order' = <<>>
    <3>1. 1..Len(order') = {}
      BY <2>2
    <3> QED
      BY <3>1 DEF Ordered
  <2>3. CASE order' = order
    <3> SUFFICES ASSUME NEW i \in 1..Len(order), NEW j \in 1..Len(order), i < j
                 PROVE  at'[order[j]] >= at'[order[i]] \/ Rank(order[j]) > Rank(order[i])
      BY <2>1, <2>3 DEF Ordered
    <3>1. order[i] \in Elems(saved) /\ order[j] \in Elems(saved)
      BY DEF Lasting, Elems
    <3> QED
      BY <3>1 DEF Lasting, Ordered
  <2> QED
    BY <2>2, <2>3
<1> QED
  BY <1>1, <1>3, <1>4 DEF Lasting

LEMMA NextLasts == LInv /\ [Next]_vars => LInv'
<1> SUFFICES ASSUME LInv, [Next]_vars PROVE LInv'
  OBVIOUS
<1>1. SInv' /\ SInv
  BY NextSInv DEF LInv
<1>2. clock' # 0
  <2>1. clock \in Nat /\ clock # 0
    BY Constants DEF LInv, SInv, TypeOK
  <2> QED
    BY <2>1, Constants DEF Next, LockHolder, Stamp, SaveRun, SaveJSON, Evict, Evicted, Persist,
       Import, Started, Start, Crash, vars
<1>3. faults' = 0 => faults = 0
  <2>1. faults' = faults \/ faults' = faults + 1
    BY DEF Next, LockHolder, Stamp, SaveRun, SaveJSON, Evict, Evicted, Persist, Import, Started,
       Start, Crash, Fault, NoFault, vars
  <2>2. faults \in Nat
    BY <1>1, Constants DEF SInv, TypeOK
  <2> QED
    BY <2>1, <2>2
<1>4. (\A id \in RunIds : at'[id] # 0) => \A id \in RunIds : at[id] # 0
  <2>1. CASE \E id \in RunIds : Stamp(id)
    <3>1. PICK id \in RunIds : Stamp(id)
      BY <2>1
    <3>2. \A o \in RunIds : o # id => at'[o] = at[o]
      BY <1>1, <3>1 DEF Stamp, SInv, TypeOK
    <3>3. at[id] # 0
      BY <3>1, SQLiteAssumption DEF Stamp
    <3> QED
      BY <3>2, <3>3
  <2>2. CASE UNCHANGED at
    BY <2>2
  <2> QED
    BY <2>1, <2>2 DEF Next, LockHolder, SaveRun, SaveJSON, Evict, Evicted, Persist, Import,
       Started, Start, Crash, vars
<1>5. ASSUME faults' = 0, \A id \in RunIds : at'[id] # 0 PROVE Lasting'
  <2>1. NeverImported /\ Lasting
    BY <1>3, <1>4, <1>5 DEF NeverImported, LInv
  <2>2. ASSUME NEW id \in RunIds, Stamp(id) PROVE Lasting'
    <3>1. \A o \in Elems(saved) : at'[o] = at[o] /\ o # id
      <4>1. \A o \in Elems(saved) : o \in RunIds /\ o # id
        BY <1>1, <2>1, <2>2, ElemsOfList DEF Lasting, Stamp, SInv, TypeOK
      <4> QED
        BY <1>1, <2>2, <4>1 DEF Stamp, SInv, TypeOK
    <3>2. \A o \in Elems(saved) : o \in queue' => o \in queue
      BY <2>2, <3>1 DEF Stamp
    <3> QED
      BY <1>1, <2>1, <2>2, <3>1, <3>2, OthersLast DEF Stamp, memory
  <2>3. ASSUME NEW id \in RunIds, SaveRun(id) PROVE Lasting'
    BY <1>1, <2>1, <2>3, SaveRunLasts
  <2>4. ASSUME NEW id \in RunIds, SaveJSON(id) PROVE Lasting'
    BY <2>1, <2>4 DEF SaveJSON, Lasting
  <2>5. CASE Evict
    BY <1>1, <1>5, <2>1, <2>5, EvictLasts
  <2>6. CASE Evicted \/ Started \/ UNCHANGED vars
    BY <1>1, <2>1, <2>6, OthersLast DEF Evicted, Started, memory, vars
  <2>7. CASE Persist
    BY <1>1, <1>5, <2>1, <2>7, PersistLasts
  <2>8. CASE Import
    BY <2>1, <2>8 DEF Import, Lasting
  <2>9. CASE Start
    BY <1>1, <1>5, <2>1, <2>9, StartLasts
  <2>10. CASE Crash
    BY <1>1, <2>1, <2>10, OthersLast DEF Crash, Lasting
  <2> QED
    BY <2>2, <2>3, <2>4, <2>5, <2>6, <2>7, <2>8, <2>9, <2>10 DEF Next, LockHolder
<1> QED
  BY <1>1, <1>2, <1>5 DEF LInv, NeverImported

LEMMA InitLasts == Init => LInv
<1> SUFFICES ASSUME Init PROVE LInv
  OBVIOUS
<1>1. SInv /\ clock # 0
  BY InitSInv DEF Init
<1>2. ASSUME NeverImported PROVE Lasting
  <2>1. Elems(<<>>) = {} /\ Distinct(<<>>)
    BY DEF Elems, Distinct
  <2>2. legacy = <<>>
    <3>1. legacy \in Seq(RunIds) /\ Elems(legacy) \subseteq RunIds
      BY <1>1, ElemsOfList DEF SInv, TypeOK
    <3>2. Elems(legacy) = {}
      BY <1>2, <3>1 DEF Init, NeverImported
    <3> QED
      BY <3>1, <3>2, ElemsOfList
  <2>3. Rows = {}
    BY DEF Init, Rows
  <2>4. Ordered /\ AckedRunsSurvive
    BY DEF Init, Ordered, AckedRunsSurvive
  <2> QED
    BY <2>1, <2>2, <2>3, <2>4 DEF Init, Lasting
<1> QED
  BY <1>1, <1>2 DEF LInv

\* Where there was nothing to import, a run whose Save returned stays in the
\* database, through crashes at every step, until as many runs as the smallest
\* limit came after it or are not older (enforceLimitLocked evicts before
\* persistSQLiteRunLocked commits; loadSQLite orders by created_at).
THEOREM AckedRunsSurviveAlways == Spec => []AckedRunsSurvive
<1>1. LInv => AckedRunsSurvive
  <2>1. LInv /\ NeverImported => AckedRunsSurvive
    BY DEF LInv, Lasting
  <2>2. ~NeverImported => AckedRunsSurvive
    BY DEF NeverImported, AckedRunsSurvive
  <2> QED
    BY <2>1, <2>2
<1> QED
  BY <1>1, InitLasts, NextLasts, PTL DEF Spec
=============================================================================
