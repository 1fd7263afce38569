--------------------------- MODULE RunPagesProofs ---------------------------
(* Theorems about RunPages, for any bounds, page sizes and responses. *)
EXTENDS RunPages, FiniteSetTheorems, WellFoundedInduction, TLAPS

-----------------------------------------------------------------------------
(* Places in the history *)

Injective(s) == \A i, j \in 1..Len(s) : s[i] = s[j] => i = j

\* The run at a place, and the place of a run.
LEMMA PlaceIs ==
  ASSUME NEW s \in Seq(Nat), Injective(s)
  PROVE  /\ \A i \in 1..Len(s) : s[i] \in ToSet(s) /\ Place(s, s[i]) = Len(s) - i
         /\ \A id \in ToSet(s) : /\ Place(s, id) \in 0..(Len(s) - 1)
                                 /\ s[Len(s) - Place(s, id)] = id
<1>1. Len(s) \in Nat /\ DOMAIN s = 1..Len(s)
  OBVIOUS
<1>2. ASSUME NEW i \in 1..Len(s) PROVE s[i] \in ToSet(s) /\ Place(s, s[i]) = Len(s) - i
  <2>1. (CHOOSE j \in 1..Len(s) : s[j] = s[i]) = i
    BY DEF Injective
  <2>. QED
    BY <1>1, <2>1 DEF Place, ToSet
<1>3. ASSUME NEW id \in ToSet(s)
      PROVE  Place(s, id) \in 0..(Len(s) - 1) /\ s[Len(s) - Place(s, id)] = id
  <2>1. PICK i \in 1..Len(s) : id = s[i]
    BY <1>1 DEF ToSet
  <2>2. Place(s, id) = Len(s) - i
    BY <1>2, <2>1
  <2>3. Len(s) - Place(s, id) = i
    BY <1>1, <2>2
  <2>. QED
    BY <1>1, <2>1, <2>2, <2>3
<1>. QED
  BY <1>2, <1>3

\* A sequence of some set's elements.
LEMMA ElementsOf ==
  ASSUME NEW s \in Seq(Nat), NEW S, ToSet(s) \subseteq S
  PROVE  s \in Seq(S)
<1>1. DOMAIN s = 1..Len(s) /\ \A i \in 1..Len(s) : s[i] \in S
  BY DEF ToSet
<1>. QED
  BY <1>1

\* What enforceLimitLocked leaves: the newest runs, in their places.
LEMMA NewestIs ==
  ASSUME NEW s \in Seq(Nat), Injective(s), NEW limit \in Nat \ {0}
  PROVE  LET t == Newest(s, limit) IN
         /\ t \in Seq(Nat) /\ Injective(t) /\ Len(t) <= limit
         /\ ToSet(t) \subseteq ToSet(s)
         /\ \A id \in ToSet(t) : Place(t, id) = Place(s, id)
<1>1. Len(s) \in Nat /\ DOMAIN s = 1..Len(s)
  OBVIOUS
<1>2. CASE Len(s) <= limit
  <2>1. Newest(s, limit) = s
    BY <1>2 DEF Newest
  <2>. QED
    BY <1>1, <1>2, <2>1
<1>3. CASE Len(s) > limit
  <2> DEFINE first == Len(s) - limit + 1
             t == SubSeq(s, first, Len(s))
  <2>1. Newest(s, limit) = t
    BY <1>1, <1>3 DEF Newest
  <2>2. first \in 1..Len(s)
    BY <1>1, <1>3
  <2>3. /\ t \in Seq(Nat) /\ Len(t) = limit
        /\ \A i \in 1..limit : t[i] = s[first + i - 1]
    BY <1>1, <1>3, <2>2
  <2>4. \A i \in 1..limit : first + i - 1 \in 1..Len(s) /\ Len(s) - (first + i - 1) = limit - i
    BY <1>1, <1>3
  <2> HIDE DEF t, first
  <2>5. Injective(t)
    <3> SUFFICES ASSUME NEW i \in 1..limit, NEW j \in 1..limit, t[i] = t[j] PROVE i = j
      BY <2>3 DEF Injective
    <3>1. /\ first + i - 1 \in 1..Len(s) /\ first + j - 1 \in 1..Len(s)
          /\ s[first + i - 1] = s[first + j - 1]
      BY <2>3, <2>4
    <3>2. \A a, b \in 1..Len(s) : s[a] = s[b] => a = b
      BY DEF Injective
    <3>3. first + i - 1 = first + j - 1
      BY <3>1, <3>2, Zenon
    <3>. QED
      BY <2>2, <3>3
  <2>6. ASSUME NEW id \in ToSet(t) PROVE id \in ToSet(s) /\ Place(t, id) = Place(s, id)
    <3>1. PICK i \in 1..limit : id = t[i]
      BY <2>3 DEF ToSet
    <3>2. Place(t, id) = limit - i
      BY <2>3, <2>5, <3>1, PlaceIs
    <3>3. id = s[first + i - 1]
      BY <2>3, <3>1
    <3>4. id \in ToSet(s) /\ Place(s, id) = Len(s) - (first + i - 1)
      BY <2>4, <3>3, PlaceIs
    <3>. QED
      BY <2>4, <3>2, <3>4
  <2>. QED
    BY <2>1, <2>3, <2>5, <2>6
<1>. QED
  BY <1>1, <1>2, <1>3

\* A run put at the new end moves every other one by a place.
LEMMA AppendIs ==
  ASSUME NEW s \in Seq(Nat), Injective(s), NEW id \in Nat, id \notin ToSet(s)
  PROVE  LET t == Append(s, id) IN
         /\ t \in Seq(Nat) /\ Injective(t) /\ ToSet(t) = ToSet(s) \cup {id}
         /\ Place(t, id) = 0
         /\ \A x \in ToSet(s) : Place(t, x) = Place(s, x) + 1
<1> DEFINE t == Append(s, id)
<1>1. Len(s) \in Nat /\ DOMAIN s = 1..Len(s)
  OBVIOUS
<1>2. /\ t \in Seq(Nat) /\ Len(t) = Len(s) + 1 /\ t[Len(s) + 1] = id
      /\ \A i \in 1..Len(s) : t[i] = s[i]
      /\ DOMAIN t = 1..(Len(s) + 1)
  OBVIOUS
<1> HIDE DEF t
<1>3. \A i \in 1..Len(t) : i \in 1..Len(s) \/ i = Len(s) + 1
  BY <1>1, <1>2
<1>4. \A i \in 1..Len(s) : t[i] # id
  BY <1>1, <1>2 DEF ToSet
<1>5. Injective(t)
  <2> SUFFICES ASSUME NEW i \in 1..Len(t), NEW j \in 1..Len(t), t[i] = t[j] PROVE i = j
    BY DEF Injective
  <2>1. CASE i \in 1..Len(s) /\ j \in 1..Len(s)
    BY <1>2, <2>1 DEF Injective
  <2>2. CASE i = Len(s) + 1 \/ j = Len(s) + 1
    BY <1>2, <1>3, <1>4, <2>2
  <2>. QED
    BY <1>3, <2>1, <2>2
<1>6. ToSet(t) = ToSet(s) \cup {id}
  <2>1. \A x \in ToSet(t) : x \in ToSet(s) \cup {id}
    BY <1>1, <1>2, <1>3 DEF ToSet
  <2>2. id \in ToSet(t)
    BY <1>1, <1>2 DEF ToSet
  <2>3. \A x \in ToSet(s) : x \in ToSet(t)
    <3> TAKE x \in ToSet(s)
    <3>1. PICK i \in 1..Len(s) : x = s[i]
      BY <1>1 DEF ToSet
    <3>2. i \in 1..(Len(s) + 1) /\ t[i] = x
      BY <1>1, <1>2, <3>1
    <3>. QED
      BY <1>2, <3>2 DEF ToSet
  <2>. QED
    BY <2>1, <2>2, <2>3
<1>7. Place(t, id) = 0
  <2>1. Place(t, t[Len(s) + 1]) = Len(t) - (Len(s) + 1)
    <3>1. Len(s) + 1 \in 1..Len(t)
      BY <1>1, <1>2
    <3>. QED
      BY <1>2, <1>5, <3>1, PlaceIs
  <2>. QED
    BY <1>1, <1>2, <2>1
<1>8. ASSUME NEW x \in ToSet(s) PROVE Place(t, x) = Place(s, x) + 1
  <2>1. PICK i \in 1..Len(s) : x = s[i]
    BY <1>1 DEF ToSet
  <2>2. Place(s, x) = Len(s) - i
    BY <2>1, PlaceIs
  <2>3. i \in 1..Len(t) /\ t[i] = x
    BY <1>1, <1>2, <2>1
  <2>4. Place(t, x) = Len(t) - i
    BY <1>2, <1>5, <2>3, PlaceIs
  <2>. QED
    BY <1>1, <1>2, <2>2, <2>4
<1>. QED
  BY <1>2, <1>5, <1>6, <1>7, <1>8 DEF t

\* The ids of a list are finitely many, and as many as it is long if no two
\* are the same.
Distinct(s) == Cardinality(ToSet(s))

LEMMA DistinctIs ==
  ASSUME NEW s \in Seq(Nat)
  PROVE  /\ IsFiniteSet(ToSet(s)) /\ Distinct(s) \in Nat
         /\ Injective(s) => Distinct(s) = Len(s)
<1>1. Len(s) \in Nat /\ DOMAIN s = 1..Len(s)
  OBVIOUS
<1>2. s \in Surjection(1..Len(s), ToSet(s))
  BY <1>1 DEF Surjection, ToSet
<1>3. IsFiniteSet(1..Len(s)) /\ Cardinality(1..Len(s)) = Len(s)
  BY <1>1, FS_Interval, SMTT(30)
<1>4. /\ IsFiniteSet(ToSet(s))
      /\ Cardinality(ToSet(s)) = Cardinality(1..Len(s)) <=> s \in Injection(1..Len(s), ToSet(s))
  BY <1>2, <1>3, FS_Surjection
<1>5. Injective(s) => s \in Injection(1..Len(s), ToSet(s))
  BY <1>1, <1>2, Zenon DEF Injective, Injection, IsInjective, Surjection
<1>. QED
  BY <1>3, <1>4, <1>5, FS_CardinalityType DEF Distinct

\* The ids of two pages are those of the one and those of the other.
LEMMA ConcatIds ==
  ASSUME NEW s \in Seq(Nat), NEW t \in Seq(Nat)
  PROVE  ToSet(s \o t) = ToSet(s) \cup ToSet(t)
<1>1. /\ s \o t \in Seq(Nat) /\ Len(s \o t) = Len(s) + Len(t)
      /\ Len(s) \in Nat /\ Len(t) \in Nat
      /\ DOMAIN s = 1..Len(s) /\ DOMAIN t = 1..Len(t) /\ DOMAIN (s \o t) = 1..Len(s \o t)
  OBVIOUS
<1>2. /\ \A i \in 1..Len(s) : (s \o t)[i] = s[i]
      /\ \A i \in 1..Len(t) : (s \o t)[Len(s) + i] = t[i]
  OBVIOUS
<1>3. \A i \in 1..Len(s \o t) : i \in 1..Len(s) \/ i - Len(s) \in 1..Len(t)
  BY <1>1
<1>4. \A i \in 1..Len(t) : Len(s) + i \in 1..Len(s \o t)
  BY <1>1
<1>5. \A x \in ToSet(s \o t) : x \in ToSet(s) \cup ToSet(t)
  <2> TAKE x \in ToSet(s \o t)
  <2>1. PICK i \in 1..Len(s \o t) : x = (s \o t)[i]
    BY <1>1 DEF ToSet
  <2>2. CASE i \in 1..Len(s)
    BY <1>1, <1>2, <2>1, <2>2 DEF ToSet
  <2>3. CASE i - Len(s) \in 1..Len(t)
    <3>1. i = Len(s) + (i - Len(s))
      BY <1>1
    <3>2. x = t[i - Len(s)]
      BY <1>2, <2>1, <2>3, <3>1
    <3>. QED
      BY <1>1, <2>3, <3>2 DEF ToSet
  <2>. QED
    BY <1>3, <2>1, <2>2, <2>3
<1>6. ToSet(s) \subseteq ToSet(s \o t)
  BY <1>1, <1>2 DEF ToSet
<1>7. ToSet(t) \subseteq ToSet(s \o t)
  BY <1>1, <1>2, <1>4 DEF ToSet
<1>. QED
  BY <1>5, <1>6, <1>7

-----------------------------------------------------------------------------
(* Pages *)

\* No run is in the history twice, the limit is kept, and the runs of the JSON
\* directory are among those there ever were.
OrderInv == Injective(order) /\ Len(order) <= bound /\ Legacy <= Len(runs)

\* The walks began with runs there were.
BeganInv == \A c \in Clients : walk[c].began \subseteq 1..Len(runs)

Inv == TypeOK /\ OrderInv /\ BeganInv

LEMMA OrderIs ==
  ASSUME TypeOK
  PROVE  /\ order \in Seq(Nat) /\ Len(order) \in Nat /\ Len(runs) \in Nat
         /\ ToSet(order) \subseteq 1..Len(runs)
         /\ bound \in Nat \ {0}
<1>1. order \in Seq(1..Len(runs)) /\ bound \in Bounds /\ runs \in Seq(Finished)
  BY DEF TypeOK
<1>. QED
  BY <1>1, PagesAssumption DEF PagesAssumption, ToSet

\* The runs of a history between two places.
Between(s, first, next) == {id \in ToSet(s) : first <= Place(s, id) /\ Place(s, id) < next}

\* A page shows the runs from its offset on, each once.
LEMMA PageIs ==
  ASSUME TypeOK, OrderInv, NEW size \in Nat \ {0}, NEW offset \in Nat
  PROVE  LET n == PageLength(size, offset) IN
         /\ n \in 0..size
         /\ offset + n < Len(order) => n = size
         /\ Page(size, offset) \in Seq(Nat) /\ Injective(Page(size, offset))
         /\ Len(Page(size, offset)) = n
         /\ ToSet(Page(size, offset)) = Between(order, offset, offset + n)
<1> DEFINE n == PageLength(size, offset)
           p == Page(size, offset)
           at(k) == Len(order) - offset - k + 1
<1>1. /\ order \in Seq(Nat) /\ Len(order) \in Nat /\ Injective(order)
      /\ \A i \in 1..Len(order) : order[i] \in Nat
  BY OrderIs DEF OrderInv
<1>2. /\ n \in 0..size
      /\ n > 0 => offset + n <= Len(order)
      /\ offset + n < Len(order) => n = size
  BY <1>1 DEF PageLength
<1> HIDE DEF n
<1>3. p = [k \in 1..n |-> order[at(k)]]
  BY DEF Page, n
<1>4. \A k \in 1..n : at(k) \in 1..Len(order) /\ Len(order) - at(k) = offset + k - 1
  BY <1>1, <1>2
<1> HIDE DEF at
<1>5. \A k \in 1..n : p[k] = order[at(k)] /\ p[k] \in Nat
  BY <1>1, <1>3, <1>4
<1>6. p \in Seq(Nat) /\ Len(p) = n /\ DOMAIN p = 1..n
  BY <1>2, <1>3, <1>5
<1>7. \A k \in 1..n : p[k] \in ToSet(order) /\ Place(order, p[k]) = offset + k - 1
  <2> TAKE k \in 1..n
  <2>1. order[at(k)] \in ToSet(order) /\ Place(order, order[at(k)]) = Len(order) - at(k)
    BY <1>1, <1>4, PlaceIs
  <2>. QED
    BY <1>4, <1>5, <2>1
<1>8. Injective(p)
  <2> SUFFICES ASSUME NEW i \in 1..n, NEW j \in 1..n, p[i] = p[j] PROVE i = j
    BY <1>6 DEF Injective
  <2>1. offset + i - 1 = offset + j - 1
    BY <1>7
  <2>. QED
    BY <1>2, <2>1
<1>9. ASSUME NEW id \in ToSet(p) PROVE id \in Between(order, offset, offset + n)
  <2>1. PICK k \in 1..n : id = p[k]
    BY <1>6 DEF ToSet
  <2>2. offset <= offset + k - 1 /\ offset + k - 1 < offset + n
    BY <1>2
  <2>. QED
    BY <1>7, <2>1, <2>2 DEF Between
<1>10. ASSUME NEW id \in Between(order, offset, offset + n) PROVE id \in ToSet(p)
  <2> DEFINE k == Place(order, id) - offset + 1
  <2>1. /\ id \in ToSet(order) /\ offset <= Place(order, id) /\ Place(order, id) < offset + n
        /\ Place(order, id) \in 0..(Len(order) - 1) /\ order[Len(order) - Place(order, id)] = id
    BY <1>1, <1>10, PlaceIs DEF Between
  <2>2. k \in 1..n /\ at(k) = Len(order) - Place(order, id)
    BY <1>1, <1>2, <2>1 DEF at
  <2> HIDE DEF k
  <2>3. p[k] = id
    BY <1>5, <2>1, <2>2
  <2>. QED
    BY <1>6, <2>2, <2>3 DEF ToSet
<1>. QED
  BY <1>2, <1>6, <1>8, <1>9, <1>10 DEF n

\* A page size is positive, an offset is a natural number.
LEMMA SizeIs ==
  ASSUME NEW limit \in AskedLimits, NEW cursor \in AskedCursors
  PROVE  PageSize(limit) \in Nat \ {0} /\ Offset(cursor) \in Nat
<1>1. /\ limit \in Int /\ cursor \in Int /\ DefaultPage \in Nat \ {0} /\ LargestPage \in Nat
  BY PagesAssumption DEF PagesAssumption
<1>. QED
  BY <1>1 DEF PageSize, Offset

\* What NextCursor says: how far the page reached, or that it reached the end.
LEMMA NextCursorIs ==
  ASSUME TypeOK, OrderInv, NEW size \in Nat \ {0}, NEW offset \in Nat
  PROVE  LET n == PageLength(size, offset)
             next == NextCursor(size, offset)
         IN  /\ next \in Nat
             /\ next # 0 => next = offset + n /\ n = size /\ next < Len(order)
             /\ next = 0 => Len(order) <= offset + n
<1> DEFINE n == PageLength(size, offset)
<1>1. Len(order) \in Nat
  BY DEF TypeOK
<1>2. n \in 0..size /\ (offset + n < Len(order) => n = size)
  BY PageIs
<1>3. NextCursor(size, offset) = IF offset + n < Len(order) THEN offset + n ELSE 0
  BY DEF NextCursor
<1> HIDE DEF n
<1>4. CASE offset + n < Len(order)
  BY <1>1, <1>2, <1>3, <1>4 DEF n
<1>5. CASE ~(offset + n < Len(order))
  BY <1>1, <1>2, <1>3, <1>5 DEF n
<1>. QED
  BY <1>4, <1>5

-----------------------------------------------------------------------------
(* What happens to the history under a walk *)

\* The part of a walk that only its client's requests change.
SameReading(v, w) ==
  /\ v.more = w.more /\ v.whole = w.whole /\ v.size = w.size /\ v.cursor = w.cursor
  /\ v.pages = w.pages /\ v.began = w.began /\ v.shown = w.shown /\ v.walks = w.walks

\* A run keeps at least its distance from the newest end, or is lifted, or is
\* a new one.
LiftedTold(v, w) ==
  /\ w.lifted \subseteq v.lifted
  /\ \A id \in ToSet(order') :
       \/ id > Len(runs)
       \/ id \in v.lifted
       \/ id \in ToSet(order) /\ Place(order', id) >= Place(order, id)

\* No more runs than the counters say cross a place on their way down.
CrossingsCounted(v, w) ==
  /\ v.saves + v.slipped >= w.saves + w.slipped
  /\ \A place \in Nat \ {0} : \E crossed \in SUBSET ToSet(order) :
       /\ w.saves + w.slipped + Cardinality(crossed) <= v.saves + v.slipped
       /\ \A id \in ToSet(order') : Place(order', id) >= place =>
            id \in crossed \/ (id \in ToSet(order) /\ Place(order, id) >= place)

Moved ==
  \A c \in Clients : /\ walk'[c] \in Walk
                     /\ SameReading(walk'[c], walk[c])
                     /\ LiftedTold(walk'[c], walk[c])
                     /\ CrossingsCounted(walk'[c], walk[c])

\* A save or an import: every run but the new one moves down by a place.
LEMMA AddedMoves ==
  ASSUME Inv, NEW id \in Nat, id \notin ToSet(order), NEW lifted \in SUBSET Nat,
         Added(id, lifted), id > Len(runs) \/ id \in lifted
  PROVE  /\ order' \in Seq(Nat) /\ Injective(order') /\ Len(order') <= bound
         /\ ToSet(order') \subseteq ToSet(order) \cup {id}
         /\ Moved
<1> DEFINE s == Append(order, id)
<1>1. /\ order \in Seq(Nat) /\ Len(order) \in Nat /\ Injective(order) /\ bound \in Nat \ {0}
      /\ walk \in [Clients -> Walk]
  BY OrderIs DEF Inv, TypeOK, OrderInv
<1>2. /\ s \in Seq(Nat) /\ Injective(s) /\ ToSet(s) = ToSet(order) \cup {id}
      /\ Place(s, id) = 0
      /\ \A x \in ToSet(order) : Place(s, x) = Place(order, x) + 1
  BY <1>1, AppendIs
<1>3. order' = Newest(s, bound)
  BY DEF Added
<1> HIDE DEF s
<1>4. /\ order' \in Seq(Nat) /\ Injective(order') /\ Len(order') <= bound
      /\ ToSet(order') \subseteq ToSet(s)
      /\ \A x \in ToSet(order') : Place(order', x) = Place(s, x)
  BY <1>1, <1>2, <1>3, NewestIs
<1>5. \A x \in ToSet(order) : Place(order, x) \in 0..(Len(order) - 1)
                              /\ order[Len(order) - Place(order, x)] = x
  BY <1>1, PlaceIs
<1>6. ASSUME NEW c \in Clients
      PROVE  /\ walk'[c] \in Walk /\ SameReading(walk'[c], walk[c])
             /\ LiftedTold(walk'[c], walk[c]) /\ CrossingsCounted(walk'[c], walk[c])
  <2> DEFINE w == walk[c]
             v == walk'[c]
  <2>1. w \in Walk
    BY <1>1
  <2>2. v = [w EXCEPT !.saves = @ + 1, !.lifted = @ \cup lifted]
    BY DEF Added
  <2> HIDE DEF w, v
  <2>3. /\ v \in Walk /\ SameReading(v, w)
        /\ v.saves = w.saves + 1 /\ v.slipped = w.slipped /\ v.lifted = w.lifted \cup lifted
        /\ w.saves \in Nat /\ w.slipped \in Nat
    <3>0. w.saves \in Nat /\ w.slipped \in Nat /\ w.lifted \in SUBSET Nat
      BY <2>1 DEF Walk
    <3>1. \A n \in Nat, S \in SUBSET Nat : [w EXCEPT !.saves = n, !.lifted = S] \in Walk
      BY <2>1 DEF Walk
    <3>2. w.saves + 1 \in Nat /\ w.lifted \cup lifted \in SUBSET Nat
      <4>1. w.saves + 1 \in Nat
        BY <3>0
      <4>2. w.lifted \cup lifted \in SUBSET Nat
        BY <3>0, Zenon
      <4>. QED
        BY <4>1, <4>2
    <3>3. v = [w EXCEPT !.saves = w.saves + 1, !.lifted = w.lifted \cup lifted]
      BY <2>2
    <3>4. /\ v.saves = w.saves + 1 /\ v.slipped = w.slipped /\ v.lifted = w.lifted \cup lifted
          /\ SameReading(v, w)
      BY <2>1, <3>3 DEF Walk, SameReading
    <3>. QED
      BY <3>0, <3>1, <3>2, <3>3, <3>4
  <2>4. LiftedTold(v, w)
    <3>1. ASSUME NEW x \in ToSet(order'), x \in ToSet(order)
          PROVE  Place(order', x) >= Place(order, x)
      BY <1>2, <1>4, <1>5, <3>1
    <3>2. ASSUME NEW x \in ToSet(order'), x \notin ToSet(order)
          PROVE  x > Len(runs) \/ x \in v.lifted
      BY <1>2, <1>4, <2>3, <3>2
    <3>. QED
      BY <2>3, <3>1, <3>2 DEF LiftedTold
  <2>5. ASSUME NEW place \in Nat \ {0}
        PROVE  \E crossed \in SUBSET ToSet(order) :
                 /\ w.saves + w.slipped + Cardinality(crossed) <= v.saves + v.slipped
                 /\ \A x \in ToSet(order') : Place(order', x) >= place =>
                      x \in crossed \/ (x \in ToSet(order) /\ Place(order, x) >= place)
    <3> DEFINE last == order[Len(order) - (place - 1)]
               crossed == ToSet(order) \cap {last}
    <3>1. IsFiniteSet({last}) /\ Cardinality({last}) = 1
      BY FS_Singleton
    <3>2. crossed \in SUBSET {last}
      OBVIOUS
    <3>3. IsFiniteSet(crossed) /\ Cardinality(crossed) <= 1
      BY <3>1, <3>2, FS_Subset
    <3>4. Cardinality(crossed) \in Nat
      BY <3>3, FS_CardinalityType
    <3>5. ASSUME NEW x \in ToSet(order'), Place(order', x) >= place
          PROVE  x \in crossed \/ (x \in ToSet(order) /\ Place(order, x) >= place)
      <4>1. x \in ToSet(order) /\ Place(order', x) = Place(order, x) + 1
        BY <1>2, <1>4, <3>5
      <4>2. CASE Place(order, x) >= place
        BY <4>1, <4>2
      <4>3. CASE Place(order, x) = place - 1
        BY <1>5, <4>1, <4>3
      <4>4. Place(order, x) >= place - 1 /\ Place(order, x) \in Nat
        BY <1>5, <3>5, <4>1
      <4>. QED
        BY <4>2, <4>3, <4>4
    <3> HIDE DEF crossed
    <3>6. w.saves + w.slipped + Cardinality(crossed) <= v.saves + v.slipped
      BY <2>3, <3>3, <3>4
    <3>7. crossed \in SUBSET ToSet(order)
      BY DEF crossed
    <3>. QED
      BY <3>5, <3>6, <3>7
  <2>6. v.saves + v.slipped >= w.saves + w.slipped
    BY <2>3
  <2>. QED
    BY <2>3, <2>4, <2>5, <2>6 DEF CrossingsCounted, w, v
<1>. QED
  BY <1>2, <1>4, <1>6 DEF Moved

\* Nothing happens.
LEMMA StillMoves ==
  ASSUME Inv, UNCHANGED <<order, walk>>
  PROVE  Moved
<1> SUFFICES ASSUME NEW c \in Clients
             PROVE  /\ walk[c] \in Walk /\ SameReading(walk[c], walk[c])
                    /\ LiftedTold(walk[c], walk[c]) /\ CrossingsCounted(walk[c], walk[c])
  BY DEF Moved
<1>1. walk[c] \in Walk
  BY DEF Inv, TypeOK
<1>2. walk[c].saves \in Nat /\ walk[c].slipped \in Nat
  BY <1>1 DEF Walk
<1>3. SameReading(walk[c], walk[c])
  BY DEF SameReading
<1>4. LiftedTold(walk[c], walk[c])
  <2>1. \A id \in ToSet(order) : Place(order, id) \in Nat
    BY OrderIs, PlaceIs DEF Inv, OrderInv
  <2>2. order' = order
    OBVIOUS
  <2>3. \A id \in ToSet(order) : Place(order, id) >= Place(order, id)
    BY <2>1
  <2>. QED
    BY <2>2, <2>3 DEF LiftedTold
<1>5. CrossingsCounted(walk[c], walk[c])
  <2>1. {} \in SUBSET ToSet(order) /\ Cardinality({}) = 0
    BY FS_EmptySet
  <2>2. /\ walk[c].saves + walk[c].slipped + Cardinality({}) <= walk[c].saves + walk[c].slipped
        /\ walk[c].saves + walk[c].slipped >= walk[c].saves + walk[c].slipped
    BY <1>2, <2>1
  <2>3. order' = order
    OBVIOUS
  <2>. QED
    BY <2>1, <2>2, <2>3 DEF CrossingsCounted
<1>. QED
  BY <1>1, <1>3, <1>4, <1>5

\* A reload: what is left is what was there, in another order.
LEMMA RestartMoves ==
  ASSUME Inv, NEW limit \in Bounds, Restart(limit)
  PROVE  /\ order' \in Seq(Nat) /\ Injective(order') /\ Len(order') <= limit
         /\ ToSet(order') \subseteq ToSet(order)
         /\ Moved
<1>1. /\ order \in Seq(Nat) /\ Len(order) \in Nat /\ Injective(order) /\ bound \in Nat \ {0}
      /\ walk \in [Clients -> Walk] /\ limit \in Nat \ {0}
      /\ ToSet(order) \subseteq Nat
  <2>1. ToSet(order) \subseteq 1..Len(runs) /\ Len(runs) \in Nat
    BY OrderIs DEF Inv
  <2>. QED
    BY <2>1, OrderIs, PagesAssumption DEF PagesAssumption, Inv, TypeOK, OrderInv
<1>2. PICK kept \in {order} \cup (IF Len(order) = bound THEN {Tail(order)} ELSE {}) :
        \E ids \in [1..Len(kept) -> ToSet(kept)] :
          Reloaded(ids, kept) /\ order' = Newest(ids, limit)
  BY DEF Restart
<1>3. PICK ids \in [1..Len(kept) -> ToSet(kept)] :
        Reloaded(ids, kept) /\ order' = Newest(ids, limit)
  BY <1>2
<1>4. kept \in Seq(Nat) /\ Len(kept) \in Nat /\ ToSet(kept) \subseteq ToSet(order)
  <2>1. CASE kept = order
    BY <1>1, <2>1
  <2>2. CASE kept = Tail(order) /\ Len(order) = bound
    <3>1. order # <<>>
      BY <1>1, <2>2
    <3> DEFINE t == Tail(order)
    <3>2. /\ t \in Seq(Nat) /\ Len(t) = Len(order) - 1
          /\ \A i \in 1..Len(t) : t[i] = order[i + 1]
          /\ DOMAIN t = 1..Len(t) /\ DOMAIN order = 1..Len(order)
      BY <1>1, <3>1
    <3> HIDE DEF t
    <3>3. ToSet(t) \subseteq ToSet(order)
      <4> SUFFICES ASSUME NEW i \in 1..Len(t) PROVE t[i] \in ToSet(order)
        BY <3>2 DEF ToSet
      <4>1. i + 1 \in 1..Len(order)
        BY <1>1, <3>2
      <4>. QED
        BY <3>2, <4>1 DEF ToSet
    <3>4. Len(t) \in Nat /\ kept = t
      BY <2>2, <3>2 DEF t
    <3>. QED
      BY <3>2, <3>3, <3>4
  <2>. QED
    BY <1>2, <2>1, <2>2
<1>5. ids \in Seq(Nat) /\ Injective(ids) /\ ToSet(ids) \subseteq ToSet(order)
  <2>1. \A i \in 1..Len(kept) : ids[i] \in Nat
    BY <1>1, <1>3, <1>4
  <2>2. ids \in Seq(Nat) /\ Len(ids) = Len(kept)
    BY <1>3, <1>4, <2>1
  <2>3. \A i, j \in 1..Len(ids) : i < j => ids[i] # ids[j]
    BY <1>3 DEF Reloaded
  <2>4. \A i, j \in 1..Len(ids) : i = j \/ i < j \/ j < i
    BY <1>4, <2>2
  <2>5. Injective(ids)
    BY <2>3, <2>4 DEF Injective
  <2>6. ToSet(ids) = ToSet(kept)
    BY <1>3 DEF Reloaded
  <2>. QED
    BY <1>4, <2>2, <2>5, <2>6
<1>6. /\ order' \in Seq(Nat) /\ Injective(order') /\ Len(order') <= limit
      /\ ToSet(order') \subseteq ToSet(order)
  BY <1>1, <1>3, <1>5, NewestIs
<1>7. /\ \A x \in ToSet(order) : Place(order, x) \in Nat
      /\ \A x \in ToSet(order') : Place(order', x) \in Nat
  <2>1. /\ \A x \in ToSet(order) : Place(order, x) \in 0..(Len(order) - 1)
        /\ \A x \in ToSet(order') : Place(order', x) \in 0..(Len(order') - 1)
    BY <1>1, <1>6, PlaceIs
  <2>. QED
    BY <2>1
<1> DEFINE both == ToSet(order) \cap ToSet(order')
           lifted == {id \in both : Place(order', id) < Place(order, id)}
           slipped == {id \in both : Place(order', id) > Place(order, id)}
<1>8. walk' = [c \in Clients |-> [walk[c] EXCEPT !.lifted = @ \cup lifted,
                                                !.slipped = @ + Cardinality(slipped)]]
  BY DEF Restart
<1>9. lifted \in SUBSET Nat /\ slipped \in SUBSET ToSet(order)
  BY <1>1, Zenon
<1>10. Cardinality(slipped) \in Nat
  <2>1. IsFiniteSet(ToSet(order))
    BY <1>1, DistinctIs
  <2>. QED
    BY <1>9, <2>1, FS_Subset, FS_CardinalityType
<1>11. \A x \in ToSet(order') :
         /\ x \in lifted \/ Place(order', x) >= Place(order, x)
         /\ x \in slipped \/ Place(order', x) <= Place(order, x)
  BY <1>6, <1>7
<1> HIDE DEF both, lifted, slipped
<1>12. ASSUME NEW c \in Clients
       PROVE  /\ walk'[c] \in Walk /\ SameReading(walk'[c], walk[c])
              /\ LiftedTold(walk'[c], walk[c]) /\ CrossingsCounted(walk'[c], walk[c])
  <2> DEFINE w == walk[c]
             v == walk'[c]
             more == Cardinality(slipped)
  <2>1. w \in Walk
    BY <1>1
  <2>2. v = [w EXCEPT !.lifted = w.lifted \cup lifted, !.slipped = w.slipped + more]
    BY <1>8
  <2>3. more \in Nat
    BY <1>10
  <2> HIDE DEF w, v, more
  <2>4. w.saves \in Nat /\ w.slipped \in Nat /\ w.lifted \in SUBSET Nat
    BY <2>1 DEF Walk
  <2>5. \A n \in Nat, S \in SUBSET Nat : [w EXCEPT !.lifted = S, !.slipped = n] \in Walk
    BY <2>1 DEF Walk
  <2>6. w.slipped + more \in Nat
    BY <2>3, <2>4
  <2>7. w.lifted \cup lifted \in SUBSET Nat
    BY <1>9, <2>4, Zenon
  <2>8. v \in Walk
    BY <2>2, <2>5, <2>6, <2>7
  <2>9. /\ v.saves = w.saves /\ v.slipped = w.slipped + more
        /\ v.lifted = w.lifted \cup lifted /\ SameReading(v, w)
    BY <2>1, <2>2 DEF Walk, SameReading
  <2>10. LiftedTold(v, w)
    BY <1>6, <1>11, <2>9 DEF LiftedTold
  <2>11. CrossingsCounted(v, w)
    <3>1. v.saves + v.slipped = w.saves + w.slipped + more
      BY <2>3, <2>4, <2>9
    <3>2. v.saves + v.slipped >= w.saves + w.slipped /\ w.saves + w.slipped + more <= v.saves + v.slipped
      BY <2>3, <2>4, <3>1
    <3>3. ASSUME NEW place \in Nat \ {0}, NEW x \in ToSet(order'), Place(order', x) >= place
          PROVE  x \in slipped \/ (x \in ToSet(order) /\ Place(order, x) >= place)
      BY <1>6, <1>7, <1>11, <3>3
    <3>. QED
      BY <1>9, <3>2, <3>3 DEF CrossingsCounted, more
  <2>. QED
    BY <2>8, <2>9, <2>10, <2>11 DEF w, v
<1>. QED
  BY <1>6, <1>12 DEF Moved

-----------------------------------------------------------------------------
(* Type correctness *)

\* Whatever happens to the history, a walk has what happened on record.
LEMMA HistoryStep ==
  ASSUME Inv,
         \/ \E run \in Finished : SaveRun(run)
         \/ Import
         \/ \E limit \in Bounds : Restart(limit)
         \/ UNCHANGED vars
  PROVE  Inv' /\ Moved
<1>1. /\ order \in Seq(Nat) /\ Len(order) \in Nat /\ Len(runs) \in Nat
      /\ ToSet(order) \subseteq 1..Len(runs) /\ bound \in Nat \ {0} /\ Injective(order)
      /\ runs \in Seq(Finished) /\ bound \in Bounds /\ restarts \in Nat
      /\ imports \in Seq(1..Legacy) /\ Legacy \in Nat
      /\ walk \in [Clients -> Walk]
  BY OrderIs, PagesAssumption DEF PagesAssumption, Inv, OrderInv, TypeOK
<1>2. ASSUME Moved, runs' \in Seq(Finished), Len(runs') \in Nat, Len(runs) <= Len(runs'),
             bound' \in Bounds, imports' \in Seq(1..Legacy), restarts' \in Nat,
             order' \in Seq(Nat), Injective(order'), Len(order') <= bound',
             ToSet(order') \subseteq 1..Len(runs'),
             walk' = [c \in Clients |-> walk'[c]]
      PROVE  Inv'
  <2>1. order' \in Seq(1..Len(runs'))
    BY <1>2, ElementsOf
  <2>2. walk' \in [Clients -> Walk]
    BY <1>2 DEF Moved
  <2>3. BeganInv'
    <3> SUFFICES ASSUME NEW c \in Clients PROVE walk'[c].began \subseteq 1..Len(runs')
      BY DEF BeganInv
    <3>1. walk'[c].began = walk[c].began
      BY <1>2 DEF Moved, SameReading
    <3>2. walk[c].began \subseteq 1..Len(runs)
      BY DEF Inv, BeganInv
    <3>. QED
      BY <1>1, <1>2, <3>1, <3>2
  <2>4. Legacy <= Len(runs')
    BY <1>1, <1>2 DEF Inv, OrderInv
  <2>. QED
    BY <1>2, <2>1, <2>2, <2>3, <2>4 DEF Inv, OrderInv, TypeOK
<1>3. ASSUME NEW run \in Finished, SaveRun(run) PROVE Inv' /\ Moved
  <2> DEFINE id == Len(runs) + 1
  <2>1. id \in Nat /\ id \notin ToSet(order) /\ id > Len(runs)
    BY <1>1
  <2>2. Added(id, {}) /\ runs' = Append(runs, run) /\ UNCHANGED <<bound, imports, restarts>>
    BY <1>3 DEF SaveRun
  <2>3. /\ order' \in Seq(Nat) /\ Injective(order') /\ Len(order') <= bound
        /\ ToSet(order') \subseteq ToSet(order) \cup {id} /\ Moved
    BY <2>1, <2>2, AddedMoves
  <2>4. runs' \in Seq(Finished) /\ Len(runs') = id
    BY <1>1, <2>2
  <2>5. ToSet(order') \subseteq 1..Len(runs')
    <3>1. 1..Len(runs) \subseteq 1..id /\ id \in 1..id
      BY <1>1
    <3>2. ToSet(order') \subseteq 1..id
      BY <1>1, <2>3, <3>1, Zenon
    <3>. QED
      BY <2>4, <3>2
  <2>6. walk' = [c \in Clients |-> walk'[c]]
    BY <2>2 DEF Added
  <2>7. Len(runs) <= Len(runs')
    BY <1>1, <2>4
  <2>. QED
    BY <1>1, <1>2, <2>1, <2>2, <2>3, <2>4, <2>5, <2>6, <2>7
<1>4. ASSUME Import PROVE Inv' /\ Moved
  <2>1. imports' \in Seq(1..Legacy) /\ Head(imports) \in 1..Legacy
    BY <1>1, <1>4 DEF Import
  <2>2. Head(imports) \in Nat /\ UNCHANGED <<bound, runs, restarts>>
    BY <1>1, <1>4, <2>1 DEF Import
  <2>3. CASE Head(imports) \in ToSet(order)
    <3>1. UNCHANGED <<order, walk>>
      BY <1>4, <2>3 DEF Import
    <3>2. Moved
      BY <3>1, StillMoves
    <3>. QED
      BY <1>1, <2>1, <2>2, <3>1, <3>2 DEF Inv, TypeOK, OrderInv, BeganInv
  <2>4. CASE Head(imports) \notin ToSet(order)
    <3>1. Added(Head(imports), {Head(imports)})
      BY <1>4, <2>4 DEF Import
    <3>2. /\ order' \in Seq(Nat) /\ Injective(order') /\ Len(order') <= bound
          /\ ToSet(order') \subseteq ToSet(order) \cup {Head(imports)} /\ Moved
      BY <2>2, <2>4, <3>1, AddedMoves
    <3>3. walk' = [c \in Clients |-> walk'[c]]
      BY <3>1 DEF Added
    <3>4. Len(runs') \in Nat /\ Len(runs) <= Len(runs')
      BY <1>1, <2>2
    <3>5. ToSet(order') \subseteq 1..Len(runs')
      <4>1. Head(imports) \in 1..Len(runs)
        BY <1>1, <2>1 DEF Inv, OrderInv
      <4>. QED
        BY <1>1, <2>2, <3>2, <4>1, Zenon
    <3>. QED
      BY <1>1, <1>2, <2>1, <2>2, <3>2, <3>3, <3>4, <3>5
  <2>. QED
    BY <2>3, <2>4
<1>5. ASSUME NEW limit \in Bounds, Restart(limit) PROVE Inv' /\ Moved
  <2>1. /\ order' \in Seq(Nat) /\ Injective(order') /\ Len(order') <= limit
        /\ ToSet(order') \subseteq ToSet(order) /\ Moved
    BY <1>5, RestartMoves
  <2>2. bound' = limit /\ runs' = runs /\ restarts' = restarts + 1 /\ imports' = LegacyRuns
    BY <1>5 DEF Restart
  <2>3. LegacyRuns \in Seq(1..Legacy)
    BY <1>1 DEF LegacyRuns
  <2>4. walk' = [c \in Clients |-> walk'[c]]
    BY <1>5 DEF Restart
  <2>5. Len(runs) <= Len(runs') /\ restarts' \in Nat /\ ToSet(order') \subseteq 1..Len(runs')
    BY <1>1, <2>1, <2>2
  <2>. QED
    BY <1>1, <1>2, <2>1, <2>2, <2>3, <2>4, <2>5
<1>6. ASSUME UNCHANGED vars PROVE Inv' /\ Moved
  <2>1. UNCHANGED <<order, walk>>
    BY <1>6 DEF vars
  <2>2. Inv'
    BY <1>6 DEF vars, Inv, TypeOK, OrderInv, BeganInv
  <2>. QED
    BY <2>1, <2>2, StillMoves
<1>. QED
  BY <1>3, <1>4, <1>5, <1>6

LEMMA InitInv == Init => Inv
<1> SUFFICES ASSUME Init PROVE Inv
  OBVIOUS
<1>1. /\ order = <<>> /\ imports = LegacyRuns /\ restarts = 0
      /\ runs \in [1..Legacy -> Finished] /\ bound \in Bounds
  BY DEF Init
<1>2. Legacy \in Nat /\ Bounds \subseteq Nat \ {0}
  BY PagesAssumption DEF PagesAssumption
<1>3. runs \in Seq(Finished) /\ Len(runs) = Legacy /\ LegacyRuns \in Seq(1..Legacy)
  BY <1>1, <1>2 DEF LegacyRuns
<1>4. Len(order) = 0 /\ order \in Seq(1..Len(runs))
  BY <1>1
<1>5. walk \in [Clients -> Walk]
  BY DEF Init, Walk
<1>6. Injective(order) /\ Len(order) <= bound /\ Legacy <= Len(runs)
  BY <1>1, <1>2, <1>3, <1>4 DEF Injective
<1>7. BeganInv
  BY DEF Init, BeganInv
<1>. QED
  BY <1>1, <1>3, <1>4, <1>5, <1>6, <1>7 DEF Inv, TypeOK, OrderInv

\* The first page of a walk, and a later one.
LEMMA ListStep ==
  ASSUME Inv, NEW c \in Clients, NEW limit \in AskedLimits, NEW cursor \in AskedCursors,
         ListRuns(c, limit, cursor)
  PROVE  LET size == PageSize(limit)
             offset == Offset(cursor)
             w == walk'[c]
         IN  /\ Inv' /\ UNCHANGED <<order, runs>>
             /\ size \in Nat \ {0} /\ offset \in Nat
             /\ w.more = (NextCursor(size, offset) # 0) /\ w.whole = (offset = 0)
             /\ w.size = size /\ w.cursor = NextCursor(size, offset) /\ w.pages = 1
             /\ w.began = ToSet(order) /\ w.shown = Page(size, offset)
             /\ w.saves = 0 /\ w.slipped = 0 /\ w.lifted = {}
             /\ \A d \in Clients \ {c} : walk'[d] = walk[d]
<1> DEFINE size == PageSize(limit)
           offset == Offset(cursor)
           page == Page(size, offset)
           next == NextCursor(size, offset)
           first == [more |-> next # 0, whole |-> offset = 0, size |-> size, cursor |-> next,
                     pages |-> 1, began |-> ToSet(order), shown |-> page,
                     walks |-> walk[c].walks + 1, saves |-> 0, lifted |-> {}, slipped |-> 0]
<1>1. size \in Nat \ {0} /\ offset \in Nat
  BY SizeIs
<1>2. page \in Seq(Nat) /\ next \in Nat
  BY <1>1, PageIs, NextCursorIs DEF Inv
<1>3. ToSet(order) \subseteq 1..Len(runs) /\ ToSet(order) \in SUBSET Nat
  <2>1. ToSet(order) \subseteq 1..Len(runs) /\ Len(runs) \in Nat
    BY OrderIs DEF Inv
  <2>. QED
    BY <2>1
<1>4. walk[c].walks \in Nat /\ walk \in [Clients -> Walk]
  BY DEF Inv, TypeOK, Walk
<1>5. walk' = [walk EXCEPT ![c] = first] /\ UNCHANGED <<bound, runs, order, imports, restarts>>
  BY DEF ListRuns
<1> HIDE DEF size, offset, page, next
<1>6. first \in Walk
  BY <1>1, <1>2, <1>3, <1>4 DEF Walk
<1>7. walk'[c] = first /\ \A d \in Clients \ {c} : walk'[d] = walk[d]
  BY <1>4, <1>5
<1>8. first.began = ToSet(order)
  OBVIOUS
<1>9. BeganInv'
  BY <1>3, <1>5, <1>7, <1>8 DEF Inv, BeganInv
<1>10. Inv'
  BY <1>4, <1>5, <1>6, <1>9 DEF Inv, TypeOK, OrderInv
<1>. QED
  BY <1>1, <1>5, <1>7, <1>10 DEF size, offset, page, next

LEMMA ListMoreStep ==
  ASSUME Inv, NEW c \in Clients, ListMore(c)
  PROVE  LET size == walk[c].size
             offset == walk[c].cursor
             w == walk'[c]
         IN  /\ Inv' /\ UNCHANGED <<order, runs>> /\ walk[c].more
             /\ size \in Nat \ {0} /\ offset \in Nat
             /\ w.more = (NextCursor(size, offset) # 0) /\ w.whole = walk[c].whole
             /\ w.size = size /\ w.cursor = NextCursor(size, offset)
             /\ w.pages = walk[c].pages + 1
             /\ w.began = walk[c].began /\ w.shown = walk[c].shown \o Page(size, offset)
             /\ w.saves = walk[c].saves /\ w.slipped = walk[c].slipped
             /\ w.lifted = walk[c].lifted
             /\ \A d \in Clients \ {c} : walk'[d] = walk[d]
<1> DEFINE w == walk[c]
           size == w.size
           offset == w.cursor
           page == Page(size, offset)
           next == NextCursor(size, offset)
           later == [w EXCEPT !.more = next # 0, !.pages = w.pages + 1, !.cursor = next,
                              !.shown = w.shown \o page]
<1>1. w \in Walk /\ walk \in [Clients -> Walk]
  BY DEF Inv, TypeOK
<1>2. walk[c].more /\ walk' = [walk EXCEPT ![c] = later] /\ UNCHANGED <<bound, runs, order, imports, restarts>>
  <2>1. walk' = [walk EXCEPT ![c] =
          [w EXCEPT !.more = next # 0, !.pages = @ + 1, !.cursor = next, !.shown = @ \o page]]
    BY DEF ListMore
  <2>2. walk' = [walk EXCEPT ![c] = later]
    BY <2>1
  <2>. QED
    BY <2>2 DEF ListMore
<1> HIDE DEF w
<1>3. size \in Nat \ {0} /\ offset \in Nat /\ w.pages \in Nat /\ w.shown \in Seq(Nat)
  BY <1>1 DEF Walk
<1>4. page \in Seq(Nat) /\ next \in Nat
  BY <1>3, PageIs, NextCursorIs DEF Inv
<1> HIDE DEF size, offset, page, next
<1>5. w.shown \o page \in Seq(Nat) /\ w.pages + 1 \in Nat
  BY <1>3, <1>4
<1>6. later \in Walk
  BY <1>1, <1>4, <1>5 DEF Walk
<1>7. walk'[c] = later /\ \A d \in Clients \ {c} : walk'[d] = walk[d]
  BY <1>1, <1>2
<1>8. /\ later.more = (next # 0) /\ later.whole = w.whole /\ later.size = w.size
      /\ later.cursor = next /\ later.pages = w.pages + 1 /\ later.began = w.began
      /\ later.shown = w.shown \o page /\ later.saves = w.saves
      /\ later.slipped = w.slipped /\ later.lifted = w.lifted
  BY <1>1 DEF Walk
<1> HIDE DEF later
<1>9. BeganInv'
  BY <1>2, <1>7, <1>8 DEF Inv, BeganInv, w
<1>10. walk' \in [Clients -> Walk]
  BY <1>1, <1>2, <1>6
<1>11. Inv'
  BY <1>2, <1>9, <1>10 DEF Inv, TypeOK, OrderInv
<1>. QED
  BY <1>2, <1>3, <1>7, <1>8, <1>11 DEF w, size, offset, page, next

\* A step is one of these.
LEMMA StepIs ==
  ASSUME [Next]_vars
  PROVE  \/ \/ \E run \in Finished : SaveRun(run)
            \/ Import
            \/ \E limit \in Bounds : Restart(limit)
            \/ UNCHANGED vars
         \/ \E c \in Clients :
              \E limit \in AskedLimits, cursor \in AskedCursors : ListRuns(c, limit, cursor)
         \/ \E c \in Clients : ListMore(c)
BY DEF Next

LEMMA NextInv == Inv /\ [Next]_vars => Inv'
BY StepIs, HistoryStep, ListStep, ListMoreStep

LEMMA Invariant == Spec => []Inv
  BY InitInv, NextInv, PTL DEF Spec

\* Every variable keeps its type, whatever the bounds and the page sizes are.
THEOREM PagesTypeCorrect == Spec => []TypeOK
<1>1. Inv => TypeOK
  BY DEF Inv
<1>. QED
  BY <1>1, Invariant, PTL

-----------------------------------------------------------------------------
(* What a walk skips *)

\* What a whole walk has shown: of the runs it began with, all that are newer
\* than its cursor and were not lifted; at its end, all that are left.
SkipOf(s, w) ==
  w.whole => \A id \in ToSet(s) \cap w.began :
    \/ id \in ToSet(w.shown) \cup w.lifted
    \/ w.more /\ Place(s, id) >= w.cursor

SkipInv == \A c \in Clients : SkipOf(order, walk[c])

\* The runs of a page and those behind the cursor it hands out are all there
\* are from its offset on.
LEMMA PageShows ==
  ASSUME Inv, NEW size \in Nat \ {0}, NEW offset \in Nat,
         NEW id \in ToSet(order), Place(order, id) >= offset
  PROVE  \/ id \in ToSet(Page(size, offset))
         \/ NextCursor(size, offset) # 0 /\ Place(order, id) >= NextCursor(size, offset)
<1> DEFINE n == PageLength(size, offset)
           next == NextCursor(size, offset)
           place == Place(order, id)
<1>1. n \in Nat /\ ToSet(Page(size, offset)) = Between(order, offset, offset + n)
  BY PageIs DEF Inv
<1>2. /\ next \in Nat
      /\ next # 0 => next = offset + n
      /\ next = 0 => Len(order) <= offset + n
  BY NextCursorIs DEF Inv
<1>3. place \in 0..(Len(order) - 1) /\ Len(order) \in Nat
  BY OrderIs, PlaceIs DEF Inv, OrderInv
<1>4. offset <= place /\ place < offset + n => id \in ToSet(Page(size, offset))
  BY <1>1 DEF Between
<1> HIDE DEF n, next, place
<1>5. offset <= place
  BY <1>3 DEF place
<1>6. place < offset + n \/ (next # 0 /\ place >= next)
  BY <1>1, <1>2, <1>3
<1>. QED
  BY <1>4, <1>5, <1>6 DEF next, place

LEMMA NextSkipInv == Inv /\ SkipInv /\ [Next]_vars => SkipInv'
<1> SUFFICES ASSUME Inv, SkipInv, [Next]_vars PROVE SkipInv'
  OBVIOUS
<1>0. /\ order \in Seq(Nat) /\ Len(order) \in Nat /\ Len(runs) \in Nat
      /\ walk \in [Clients -> Walk] /\ Inv'
      /\ \A id \in ToSet(order) : Place(order, id) \in Nat
  <2>1. \A id \in ToSet(order) : Place(order, id) \in 0..(Len(order) - 1)
    BY OrderIs, PlaceIs DEF Inv, OrderInv
  <2>. QED
    BY <2>1, NextInv, OrderIs DEF Inv, TypeOK
<1>1. ASSUME \/ \E run \in Finished : SaveRun(run)
             \/ Import
             \/ \E limit \in Bounds : Restart(limit)
             \/ UNCHANGED vars
      PROVE  SkipInv'
  <2> SUFFICES ASSUME NEW c \in Clients, walk'[c].whole,
                      NEW id \in ToSet(order'), id \in walk'[c].began
               PROVE  \/ id \in ToSet(walk'[c].shown) \cup walk'[c].lifted
                      \/ walk'[c].more /\ Place(order', id) >= walk'[c].cursor
    BY DEF SkipInv, SkipOf
  <2> DEFINE w == walk[c]
             v == walk'[c]
  <2>1. SameReading(v, w) /\ LiftedTold(v, w)
    BY <1>1, HistoryStep DEF Moved
  <2>2. id \in w.began /\ w.whole /\ v.more = w.more /\ v.cursor = w.cursor /\ v.shown = w.shown
    BY <2>1 DEF SameReading
  <2>3. id <= Len(runs) /\ w.cursor \in Nat
    <3>1. w.began \subseteq 1..Len(runs)
      BY DEF Inv, BeganInv
    <3>. QED
      BY <1>0, <2>2, <3>1 DEF Walk
  <2>4. id \in v.lifted \/ (id \in ToSet(order) /\ Place(order', id) >= Place(order, id))
    <3>1. ~(id > Len(runs))
      BY <1>0, <2>2, <2>3, OrderIs DEF Inv, BeganInv
    <3>. QED
      BY <2>1, <3>1 DEF LiftedTold
  <2>5. CASE id \in v.lifted
    BY <2>5
  <2>6. CASE id \in ToSet(order) /\ Place(order', id) >= Place(order, id)
    <3>1. id \in ToSet(w.shown) \cup w.lifted \/ (w.more /\ Place(order, id) >= w.cursor)
      BY <2>2, <2>6 DEF SkipInv, SkipOf
    <3>2. w.lifted \subseteq v.lifted
      BY <2>1 DEF LiftedTold
    <3>3. Place(order', id) \in Nat
      <4>1. /\ order' \in Seq(Nat) /\ Injective(order')
            /\ \A x \in ToSet(order') : Place(order', x) \in 0..(Len(order') - 1)
        <5>1. order' \in Seq(1..Len(runs')) /\ runs' \in Seq(Finished) /\ Injective(order')
          BY <1>0 DEF Inv, TypeOK, OrderInv
        <5>2. order' \in Seq(Nat)
          BY <5>1
        <5>. QED
          BY <5>1, <5>2, PlaceIs
      <4>. QED
        BY <4>1
    <3>4. Place(order, id) >= w.cursor => Place(order', id) >= w.cursor
      BY <1>0, <2>3, <2>6, <3>3
    <3>. QED
      BY <2>2, <3>1, <3>2, <3>4
  <2>. QED
    BY <2>4, <2>5, <2>6
<1>2. ASSUME NEW c \in Clients, NEW limit \in AskedLimits, NEW cursor \in AskedCursors,
             ListRuns(c, limit, cursor)
      PROVE  SkipInv'
  <2> DEFINE size == PageSize(limit)
             offset == Offset(cursor)
             next == NextCursor(size, offset)
             v == walk'[c]
  <2>1. /\ order' = order /\ size \in Nat \ {0} /\ offset \in Nat
        /\ v.more = (next # 0) /\ v.whole = (offset = 0) /\ v.cursor = next
        /\ v.shown = Page(size, offset)
        /\ \A d \in Clients \ {c} : walk'[d] = walk[d]
    BY <1>2, ListStep
  <2> HIDE DEF size, offset, v
  <2>2. SkipOf(order, v)
    <3> SUFFICES ASSUME v.whole, NEW id \in ToSet(order)
                 PROVE  id \in ToSet(v.shown) \/ (v.more /\ Place(order, id) >= v.cursor)
      BY DEF SkipOf
    <3>1. offset = 0
      BY <2>1, Zenon
    <3>2. Place(order, id) >= offset
      BY <1>0, <3>1
    <3>. QED
      BY <2>1, <3>2, PageShows
  <2>. QED
    BY <2>1, <2>2 DEF SkipInv, v
<1>3. ASSUME NEW c \in Clients, ListMore(c) PROVE SkipInv'
  <2> DEFINE w == walk[c]
             v == walk'[c]
             size == w.size
             offset == w.cursor
             page == Page(size, offset)
             next == NextCursor(size, offset)
  <2>1. /\ order' = order /\ size \in Nat \ {0} /\ offset \in Nat /\ w.more
        /\ v.more = (next # 0) /\ v.whole = w.whole /\ v.cursor = next
        /\ v.began = w.began /\ v.shown = w.shown \o page /\ v.lifted = w.lifted
        /\ \A d \in Clients \ {c} : walk'[d] = walk[d]
    BY <1>3, ListMoreStep
  <2>2. ToSet(v.shown) = ToSet(w.shown) \cup ToSet(page)
    <3>1. w.shown \in Seq(Nat)
      BY <1>0 DEF Walk
    <3>2. page \in Seq(Nat)
      BY <2>1, PageIs DEF Inv
    <3>. QED
      BY <2>1, <3>1, <3>2, ConcatIds
  <2>3. SkipOf(order, w)
    BY DEF SkipInv
  <2>4. \A id \in ToSet(order) : Place(order, id) >= offset =>
          id \in ToSet(page) \/ (next # 0 /\ Place(order, id) >= next)
    BY <2>1, PageShows
  <2> HIDE DEF w, v, size, offset, page, next
  <2>5. SkipOf(order, v)
    <3> SUFFICES ASSUME v.whole, NEW id \in ToSet(order), id \in v.began
                 PROVE  \/ id \in ToSet(v.shown) \cup v.lifted
                        \/ v.more /\ Place(order, id) >= v.cursor
      BY DEF SkipOf
    <3>1. id \in ToSet(w.shown) \cup w.lifted \/ Place(order, id) >= offset
      BY <2>1, <2>3 DEF SkipOf, offset
    <3>. QED
      BY <2>1, <2>2, <2>4, <3>1
  <2>. QED
    BY <2>1, <2>5 DEF SkipInv, v
<1>. QED
  BY <1>1, <1>2, <1>3, StepIs

\* For any bounds, page sizes and responses, and any interleaving with saves,
\* restarts that reorder the history and imports, a client that followed the
\* cursors to the last page has seen every run that was there when it began
\* and still is, but for those that a reload or an import lifted.
THEOREM SkipsOnlyForMovesAlways == Spec => []SkipsOnlyForMoves
<1>1. Init => SkipInv
  BY DEF Init, SkipInv, SkipOf
<1>2. SkipInv => SkipsOnlyForMoves
  BY DEF SkipInv, SkipOf, SkipsOnlyForMoves
<1>. QED
  BY <1>1, <1>2, NextSkipInv, Invariant, PTL DEF Spec

-----------------------------------------------------------------------------
(* A walk is short *)

\* As long as there are more pages, all so far were full and the cursor passed
\* over that many runs of a history that had at least one more.
ShortOf(w) ==
  w.more => /\ w.pages * w.size <= w.cursor
            /\ \E limit \in Bounds : w.cursor < limit

ShortInv == \A c \in Clients : ShortOf(walk[c])

LEMMA NextShortInv == Inv /\ ShortInv /\ [Next]_vars => ShortInv'
<1> SUFFICES ASSUME Inv, ShortInv, [Next]_vars PROVE ShortInv'
  OBVIOUS
<1>0. walk \in [Clients -> Walk] /\ bound \in Bounds /\ bound \in Nat
  BY PagesAssumption DEF PagesAssumption, Inv, TypeOK
<1>1. ASSUME NEW size \in Nat \ {0}, NEW offset \in Nat, NextCursor(size, offset) # 0
      PROVE  NextCursor(size, offset) = offset + size /\ NextCursor(size, offset) < bound
  <2>1. Len(order) \in Nat /\ Len(order) <= bound
    BY OrderIs DEF Inv, OrderInv
  <2>2. /\ NextCursor(size, offset) = offset + PageLength(size, offset)
        /\ PageLength(size, offset) = size /\ NextCursor(size, offset) < Len(order)
    BY <1>1, NextCursorIs DEF Inv
  <2>. QED
    BY <1>0, <1>1, <2>1, <2>2
<1>2. ASSUME \/ \E run \in Finished : SaveRun(run)
             \/ Import
             \/ \E limit \in Bounds : Restart(limit)
             \/ UNCHANGED vars
      PROVE  ShortInv'
  <2> SUFFICES ASSUME NEW c \in Clients PROVE ShortOf(walk'[c])
    BY DEF ShortInv
  <2>1. SameReading(walk'[c], walk[c])
    BY <1>2, HistoryStep DEF Moved
  <2>. QED
    BY <2>1 DEF SameReading, ShortInv, ShortOf
<1>3. ASSUME NEW c \in Clients, NEW limit \in AskedLimits, NEW cursor \in AskedCursors,
             ListRuns(c, limit, cursor)
      PROVE  ShortInv'
  <2> DEFINE size == PageSize(limit)
             offset == Offset(cursor)
             next == NextCursor(size, offset)
             v == walk'[c]
  <2>1. /\ size \in Nat \ {0} /\ offset \in Nat
        /\ v.more = (next # 0) /\ v.cursor = next /\ v.size = size /\ v.pages = 1
        /\ \A d \in Clients \ {c} : walk'[d] = walk[d]
    BY <1>3, ListStep
  <2>2. next # 0 => next = offset + size /\ next < bound
    BY <1>1, <2>1
  <2> HIDE DEF size, offset, next, v
  <2>3. ASSUME next # 0 PROVE 1 * size <= next /\ next < bound
    BY <2>1, <2>2, <2>3
  <2>4. ShortOf(v)
    BY <1>0, <2>1, <2>3 DEF ShortOf
  <2>. QED
    BY <2>1, <2>4 DEF ShortInv, v
<1>4. ASSUME NEW c \in Clients, ListMore(c) PROVE ShortInv'
  <2> DEFINE v == walk'[c]
             size == walk[c].size
             offset == walk[c].cursor
             pages == walk[c].pages
             next == NextCursor(size, offset)
  <2>1. /\ size \in Nat \ {0} /\ offset \in Nat /\ walk[c].more
        /\ v.more = (next # 0) /\ v.cursor = next /\ v.size = size /\ v.pages = pages + 1
        /\ \A d \in Clients \ {c} : walk'[d] = walk[d]
    BY <1>4, ListMoreStep
  <2>2. next # 0 => next = offset + size /\ next < bound
    BY <1>1, <2>1
  <2>3. pages * size <= offset /\ pages \in Nat
    BY <1>0, <2>1 DEF ShortInv, ShortOf, Walk
  <2> HIDE DEF size, offset, pages, next, v
  <2>4. ASSUME next # 0 PROVE (pages + 1) * size <= next /\ next < bound
    <3>1. (pages + 1) * size = pages * size + size /\ pages * size \in Int
      BY <2>1, <2>3
    <3>. QED
      BY <2>1, <2>2, <2>3, <2>4, <3>1
  <2>5. ShortOf(v)
    BY <1>0, <2>1, <2>4 DEF ShortOf
  <2>. QED
    BY <2>1, <2>5 DEF ShortInv, v
<1>. QED
  BY <1>2, <1>3, <1>4, StepIs

\* For any bounds and page sizes, and however fast runs are saved, a walk that
\* is told of more has shown fewer runs than the largest history holds.
THEOREM WalksAreShortAlways == Spec => []WalksAreShort
<1>1. Init => ShortInv
  BY DEF Init, ShortInv, ShortOf
<1>2. Inv /\ ShortInv => WalksAreShort
  <2> SUFFICES ASSUME Inv, ShortInv, NEW c \in Clients, walk[c].more
               PROVE  \E limit \in Bounds : walk[c].pages * walk[c].size < limit
    BY DEF WalksAreShort
  <2>1. walk[c].pages \in Nat /\ walk[c].size \in Nat /\ walk[c].cursor \in Nat
    BY DEF Inv, TypeOK, Walk
  <2>2. walk[c].pages * walk[c].size \in Int
    BY <2>1
  <2>3. PICK limit \in Bounds : walk[c].cursor < limit
    BY DEF ShortInv, ShortOf
  <2>4. walk[c].pages * walk[c].size <= walk[c].cursor /\ limit \in Nat
    BY PagesAssumption DEF PagesAssumption, ShortInv, ShortOf
  <2>. QED
    BY <2>1, <2>2, <2>3, <2>4
<1>. QED
  BY <1>1, <1>2, NextShortInv, Invariant, PTL DEF Spec

-----------------------------------------------------------------------------
(* What a walk repeats *)

\* What a walk has shown and will be shown again if nothing moves.
Beyond(s, w) == {id \in ToSet(w.shown) \cap ToSet(s) : Place(s, id) >= w.cursor}

\* Counting those in as well, a walk repeats no more runs than moved.
RepeatOf(s, w) ==
  /\ Len(w.shown) <= Distinct(w.shown) + w.saves + w.slipped
  /\ w.more =>
       /\ w.cursor # 0
       /\ Len(w.shown) + Cardinality(Beyond(s, w)) <= Distinct(w.shown) + w.saves + w.slipped

RepeatInv == \A c \in Clients : RepeatOf(order, walk[c])

LEMMA BeyondIs ==
  ASSUME NEW s, NEW w \in Walk
  PROVE  /\ Beyond(s, w) \in SUBSET ToSet(w.shown)
         /\ IsFiniteSet(Beyond(s, w)) /\ Cardinality(Beyond(s, w)) \in Nat
         /\ w.shown \in Seq(Nat) /\ IsFiniteSet(ToSet(w.shown)) /\ Distinct(w.shown) \in Nat
         /\ Len(w.shown) \in Nat /\ w.cursor \in Nat /\ w.saves \in Nat /\ w.slipped \in Nat
<1>1. /\ w.shown \in Seq(Nat) /\ w.cursor \in Nat /\ w.saves \in Nat /\ w.slipped \in Nat
  BY DEF Walk
<1>2. IsFiniteSet(ToSet(w.shown)) /\ Distinct(w.shown) \in Nat /\ Len(w.shown) \in Nat
  BY <1>1, DistinctIs
<1>3. Beyond(s, w) \in SUBSET ToSet(w.shown)
  BY DEF Beyond
<1>. QED
  BY <1>1, <1>2, <1>3, FS_Subset, FS_CardinalityType

\* Runs S were shown, R of them lie ahead; a page P shows the first of those
\* again, the rest still lies ahead.
LEMMA OverlapIs ==
  ASSUME NEW S, IsFiniteSet(S), NEW P, IsFiniteSet(P), NEW R \in SUBSET S, NEW rest \in SUBSET R,
         S \cap P \subseteq R, P \cap rest = {}
  PROVE  /\ Cardinality(S \cup P) \in Nat
         /\ Cardinality(S) + Cardinality(P) + Cardinality(rest) <= Cardinality(S \cup P) + Cardinality(R)
<1> DEFINE again == S \cap P
<1>1. IsFiniteSet(R) /\ IsFiniteSet(rest) /\ IsFiniteSet(again)
  <2>1. IsFiniteSet(R)
    BY FS_Subset
  <2>. QED
    BY <2>1, FS_Subset, FS_Intersection
<1>2. /\ IsFiniteSet(S \cup P)
      /\ Cardinality(S \cup P) = Cardinality(S) + Cardinality(P) - Cardinality(again)
  BY FS_Union
<1>3. /\ Cardinality(S) \in Nat /\ Cardinality(P) \in Nat /\ Cardinality(again) \in Nat
      /\ Cardinality(R) \in Nat /\ Cardinality(rest) \in Nat /\ Cardinality(S \cup P) \in Nat
  BY <1>1, <1>2, FS_CardinalityType
<1>4. Cardinality(again) + Cardinality(rest) <= Cardinality(R)
  <2>1. again \cap rest = {} /\ again \cup rest \in SUBSET R
    OBVIOUS
  <2> HIDE DEF again
  <2>2. Cardinality(again \cup rest) = Cardinality(again) + Cardinality(rest) - Cardinality({})
    BY <1>1, <2>1, FS_Union
  <2>3. Cardinality({}) = 0
    BY FS_EmptySet
  <2>4. Cardinality(again \cup rest) <= Cardinality(R)
    BY <1>1, <2>1, FS_Subset
  <2>. QED
    BY <1>3, <2>2, <2>3, <2>4
<1> HIDE DEF again
<1>. QED
  BY <1>2, <1>3, <1>4

\* Whatever happens to the history, no more shown runs come to lie ahead than
\* are counted.
LEMMA MovedRepeats ==
  ASSUME Inv, Moved, NEW c \in Clients, RepeatOf(order, walk[c])
  PROVE  RepeatOf(order', walk'[c])
<1> DEFINE w == walk[c]
           v == walk'[c]
<1>1. w \in Walk /\ v \in Walk /\ SameReading(v, w) /\ CrossingsCounted(v, w)
  BY DEF Moved, Inv, TypeOK
<1> HIDE DEF w, v
<1>2. /\ v.more = w.more /\ v.cursor = w.cursor /\ v.shown = w.shown
      /\ v.saves + v.slipped >= w.saves + w.slipped
  BY <1>1 DEF SameReading, CrossingsCounted
<1>3. /\ Cardinality(Beyond(order, w)) \in Nat /\ Cardinality(Beyond(order', v)) \in Nat
      /\ IsFiniteSet(Beyond(order, w))
      /\ Distinct(w.shown) \in Nat /\ Len(w.shown) \in Nat /\ w.cursor \in Nat
      /\ w.saves \in Nat /\ w.slipped \in Nat /\ v.saves \in Nat /\ v.slipped \in Nat
  BY <1>1, BeyondIs
<1>4. RepeatOf(order, w)
  BY DEF w
<1>5. Len(v.shown) <= Distinct(v.shown) + v.saves + v.slipped
  <2>1. Len(w.shown) <= Distinct(w.shown) + w.saves + w.slipped
    BY <1>4 DEF RepeatOf
  <2>2. Len(v.shown) = Len(w.shown) /\ Distinct(v.shown) = Distinct(w.shown)
    BY <1>2, Zenon
  <2>. QED
    BY <1>2, <1>3, <2>1, <2>2, SMTT(30)
<1>6. ASSUME v.more
      PROVE  /\ v.cursor # 0
             /\ Len(v.shown) + Cardinality(Beyond(order', v)) <= Distinct(v.shown) + v.saves + v.slipped
  <2>1. /\ w.cursor # 0
        /\ Len(w.shown) + Cardinality(Beyond(order, w)) <= Distinct(w.shown) + w.saves + w.slipped
    BY <1>2, <1>4, <1>6 DEF RepeatOf
  <2>2. PICK crossed \in SUBSET ToSet(order) :
          /\ w.saves + w.slipped + Cardinality(crossed) <= v.saves + v.slipped
          /\ \A id \in ToSet(order') : Place(order', id) >= w.cursor =>
               id \in crossed \/ (id \in ToSet(order) /\ Place(order, id) >= w.cursor)
    <3>1. w.cursor \in Nat \ {0}
      BY <1>3, <2>1
    <3>. QED
      BY <1>1, <3>1 DEF CrossingsCounted
  <2>3. IsFiniteSet(crossed) /\ Cardinality(crossed) \in Nat
    <3>1. IsFiniteSet(ToSet(order))
      BY OrderIs, DistinctIs DEF Inv
    <3>. QED
      BY <3>1, FS_Subset, FS_CardinalityType
  <2>4. Beyond(order', v) \in SUBSET (Beyond(order, w) \cup crossed)
    BY <1>2, <2>2 DEF Beyond
  <2>5. Cardinality(Beyond(order', v)) <= Cardinality(Beyond(order, w)) + Cardinality(crossed)
    <3> DEFINE ahead == Beyond(order, w)
               both == ahead \cap crossed
    <3>1. /\ IsFiniteSet(ahead \cup crossed)
          /\ Cardinality(ahead \cup crossed) = Cardinality(ahead) + Cardinality(crossed) - Cardinality(both)
      BY <1>3, <2>3, FS_Union
    <3>2. Cardinality(both) \in Nat
      BY <1>3, FS_Intersection, FS_CardinalityType
    <3>3. Cardinality(Beyond(order', v)) <= Cardinality(ahead \cup crossed)
      BY <2>4, <3>1, FS_Subset
    <3> HIDE DEF both
    <3>. QED
      BY <1>3, <2>3, <3>1, <3>2, <3>3
  <2>6. v.cursor # 0
    BY <1>2, <2>1
  <2> DEFINE n == Len(w.shown)  a == Cardinality(Beyond(order, w))
             b == Cardinality(Beyond(order', v))  x == Cardinality(crossed)
             d == Distinct(w.shown)  wm == w.saves  wk == w.slipped  vm == v.saves  vk == v.slipped
  <2>7. /\ n \in Nat /\ a \in Nat /\ b \in Nat /\ x \in Nat /\ d \in Nat
        /\ wm \in Nat /\ wk \in Nat /\ vm \in Nat /\ vk \in Nat
        /\ n + a <= d + wm + wk /\ wm + wk + x <= vm + vk /\ b <= a + x
    BY <1>3, <2>1, <2>2, <2>3, <2>5
  <2> HIDE DEF n, a, b, x, d, wm, wk, vm, vk
  <2>8. n + b <= d + vm + vk
    BY <2>7
  <2>. QED
    BY <1>2, <2>6, <2>8 DEF n, b, d, vm, vk
<1>. QED
  BY <1>5, <1>6 DEF RepeatOf, v

LEMMA NextRepeatInv == Inv /\ RepeatInv /\ [Next]_vars => RepeatInv'
<1> SUFFICES ASSUME Inv, RepeatInv, [Next]_vars PROVE RepeatInv'
  OBVIOUS
<1>0. walk \in [Clients -> Walk] /\ Inv'
  BY NextInv DEF Inv, TypeOK
<1>1. ASSUME NEW size \in Nat \ {0}, NEW offset \in Nat
      PROVE  /\ Page(size, offset) \in Seq(Nat) /\ Injective(Page(size, offset))
             /\ NextCursor(size, offset) \in Nat
             /\ \A id \in ToSet(Page(size, offset)) :
                  /\ id \in ToSet(order) /\ Place(order, id) \in Nat
                  /\ offset <= Place(order, id)
                  /\ NextCursor(size, offset) # 0 => Place(order, id) < NextCursor(size, offset)
  <2> DEFINE n == PageLength(size, offset)
             next == NextCursor(size, offset)
  <2>1. /\ Page(size, offset) \in Seq(Nat) /\ Injective(Page(size, offset))
        /\ ToSet(Page(size, offset)) = Between(order, offset, offset + n)
    BY PageIs DEF Inv
  <2>2. /\ next \in Nat
        /\ next # 0 => next = offset + n
    BY NextCursorIs DEF Inv
  <2>3. \A id \in ToSet(order) : Place(order, id) \in 0..(Len(order) - 1)
    BY OrderIs, PlaceIs DEF Inv, OrderInv
  <2>4. \A id \in Between(order, offset, offset + n) :
          id \in ToSet(order) /\ offset <= Place(order, id) /\ Place(order, id) < offset + n
    BY DEF Between
  <2> HIDE DEF n, next
  <2>5. \A id \in ToSet(order) : Place(order, id) \in Nat
    BY <2>3
  <2>. QED
    BY <2>1, <2>2, <2>4, <2>5 DEF next
<1>2. ASSUME \/ \E run \in Finished : SaveRun(run)
             \/ Import
             \/ \E limit \in Bounds : Restart(limit)
             \/ UNCHANGED vars
      PROVE  RepeatInv'
  BY <1>2, HistoryStep, MovedRepeats DEF RepeatInv
<1>3. ASSUME NEW c \in Clients, NEW limit \in AskedLimits, NEW cursor \in AskedCursors,
             ListRuns(c, limit, cursor)
      PROVE  RepeatInv'
  <2> DEFINE size == PageSize(limit)
             offset == Offset(cursor)
             next == NextCursor(size, offset)
             page == Page(size, offset)
             v == walk'[c]
  <2>1. /\ order' = order /\ size \in Nat \ {0} /\ offset \in Nat
        /\ v.more = (next # 0) /\ v.cursor = next /\ v.shown = page
        /\ v.saves = 0 /\ v.slipped = 0
        /\ \A d \in Clients \ {c} : walk'[d] = walk[d]
    BY <1>3, ListStep
  <2>2. v \in Walk
    BY <1>0 DEF Inv, TypeOK
  <2>3. /\ page \in Seq(Nat) /\ Injective(page) /\ next \in Nat
        /\ \A id \in ToSet(page) :
             Place(order, id) \in Nat /\ (next # 0 => Place(order, id) < next)
    BY <1>1, <2>1
  <2> HIDE DEF size, offset, next, page, v
  <2>4. Len(page) = Distinct(page) /\ Len(page) \in Nat
    BY <2>3, DistinctIs
  <2>5. ASSUME v.more PROVE v.cursor # 0 /\ Cardinality(Beyond(order, v)) = 0
    <3>1. next # 0
      BY <2>1, <2>5, Zenon
    <3>2. \A id \in ToSet(page) : ~(Place(order, id) >= next)
      BY <2>3, <3>1
    <3>3. Beyond(order, v) = {}
      BY <2>1, <3>2 DEF Beyond
    <3>. QED
      BY <2>1, <3>1, <3>3, FS_EmptySet
  <2>6. RepeatOf(order, v)
    BY <2>1, <2>4, <2>5 DEF RepeatOf
  <2>. QED
    BY <2>1, <2>6 DEF RepeatInv, v
<1>4. ASSUME NEW c \in Clients, ListMore(c) PROVE RepeatInv'
  <2> DEFINE w == walk[c]
             v == walk'[c]
             size == w.size
             offset == w.cursor
             page == Page(size, offset)
             next == NextCursor(size, offset)
             S == ToSet(w.shown)
             P == ToSet(page)
             R == Beyond(order, w)
  <2>1. /\ order' = order /\ size \in Nat \ {0} /\ offset \in Nat /\ w.more
        /\ v.more = (next # 0) /\ v.cursor = next /\ v.shown = w.shown \o page
        /\ v.saves = w.saves /\ v.slipped = w.slipped
        /\ \A d \in Clients \ {c} : walk'[d] = walk[d]
    BY <1>4, ListMoreStep
  <2>2. w \in Walk /\ v \in Walk
    BY <1>0 DEF Inv, TypeOK
  <2>3. /\ page \in Seq(Nat) /\ Injective(page) /\ next \in Nat
        /\ \A id \in P : /\ id \in ToSet(order) /\ Place(order, id) \in Nat
                         /\ offset <= Place(order, id)
                         /\ next # 0 => Place(order, id) < next
    BY <1>1, <2>1
  <2>4. RepeatOf(order, w)
    BY DEF RepeatInv
  <2> HIDE DEF w, v, page, next
  <2>5. /\ w.shown \in Seq(Nat) /\ Len(w.shown) \in Nat /\ w.saves \in Nat /\ w.slipped \in Nat
        /\ IsFiniteSet(S) /\ Cardinality(S) \in Nat /\ R \in SUBSET S /\ Cardinality(R) \in Nat
    BY <2>2, BeyondIs DEF Distinct
  <2>6. /\ Len(w.shown) + Cardinality(R) <= Cardinality(S) + w.saves + w.slipped
    BY <2>1, <2>4 DEF RepeatOf, Distinct
  <2>7. /\ Len(v.shown) = Len(w.shown) + Len(page) /\ ToSet(v.shown) = S \cup P
        /\ IsFiniteSet(P) /\ Cardinality(P) = Len(page) /\ Len(page) \in Nat
        /\ Distinct(v.shown) = Cardinality(S \cup P)
    <3>1. /\ ToSet(w.shown \o page) = S \cup P
          /\ IsFiniteSet(P) /\ Cardinality(P) = Len(page)
      BY <2>3, <2>5, ConcatIds, DistinctIs DEF Distinct
    <3>2. Len(w.shown \o page) = Len(w.shown) + Len(page) /\ Len(page) \in Nat
      BY <2>3, <2>5
    <3>. QED
      BY <2>1, <3>1, <3>2 DEF Distinct
  <2>8. S \cap P \subseteq R
    BY <2>3 DEF Beyond
  <2>9. ASSUME NEW rest \in SUBSET R, P \cap rest = {}, Cardinality(rest) \in Nat
        PROVE  Len(v.shown) + Cardinality(rest) <= Distinct(v.shown) + v.saves + v.slipped
    <3>1. /\ Cardinality(S \cup P) \in Nat
          /\ Cardinality(S) + Cardinality(P) + Cardinality(rest)
               <= Cardinality(S \cup P) + Cardinality(R)
      BY <2>5, <2>7, <2>8, <2>9, OverlapIs
    <3>2. /\ v.saves = w.saves /\ v.slipped = w.slipped
          /\ Len(v.shown) = Len(w.shown) + Cardinality(P)
          /\ Distinct(v.shown) = Cardinality(S \cup P) /\ Cardinality(P) \in Nat
      BY <2>1, <2>7
    <3>3. /\ Cardinality(S) \in Nat /\ Cardinality(R) \in Nat /\ Len(w.shown) \in Nat
          /\ w.saves \in Nat /\ w.slipped \in Nat
      BY <2>5
    <3> HIDE DEF S, P, R
    <3> DEFINE s == Cardinality(S)  p == Cardinality(P)  r == Cardinality(R)
               u == Cardinality(S \cup P)  l == Cardinality(rest)  n == Len(w.shown)
               m == w.saves  k == w.slipped
    <3>4. /\ s \in Nat /\ p \in Nat /\ r \in Nat /\ u \in Nat /\ l \in Nat /\ n \in Nat
          /\ m \in Nat /\ k \in Nat
          /\ s + p + l <= u + r /\ n + r <= s + m + k
      BY <2>6, <2>9, <3>1, <3>2, <3>3
    <3> HIDE DEF s, p, r, u, l, n, m, k
    <3>5. n + p + l <= u + m + k
      BY <3>4
    <3>. QED
      BY <3>2, <3>5 DEF p, u, l, n, m, k
  <2>10. Len(v.shown) <= Distinct(v.shown) + v.saves + v.slipped
    <3>1. {} \in SUBSET R /\ P \cap {} = {} /\ Cardinality({}) = 0
      BY FS_EmptySet
    <3>2. Len(v.shown) + 0 <= Distinct(v.shown) + v.saves + v.slipped
      BY <2>9, <3>1
    <3>3. Len(v.shown) \in Nat
      BY <2>2, BeyondIs
    <3>. QED
      BY <3>2, <3>3
  <2>11. ASSUME v.more
         PROVE  /\ v.cursor # 0
                /\ Len(v.shown) + Cardinality(Beyond(order, v)) <= Distinct(v.shown) + v.saves + v.slipped
    <3>1. next # 0
      BY <2>1, <2>11, Zenon
    <3>2. offset <= next
      <4>1. next = offset + PageLength(size, offset) /\ PageLength(size, offset) = size
        BY <2>1, <3>1, NextCursorIs DEF Inv, next
      <4>. QED
        BY <2>1, <4>1
    <3>3. Beyond(order, v) = {id \in (S \cup P) \cap ToSet(order) : Place(order, id) >= next}
      BY <2>1, <2>7 DEF Beyond
    <3>4. P \cap Beyond(order, v) = {}
      BY <2>3, <3>1, <3>3
    <3>5. Beyond(order, v) \in SUBSET R
      <4> SUFFICES ASSUME NEW id \in Beyond(order, v) PROVE id \in R
        OBVIOUS
      <4>1. id \in S /\ id \in ToSet(order) /\ Place(order, id) >= next
        BY <3>3, <3>4
      <4>2. Place(order, id) \in 0..(Len(order) - 1)
        BY <4>1, OrderIs, PlaceIs DEF Inv, OrderInv
      <4>3. Place(order, id) >= offset
        BY <2>1, <2>3, <3>2, <4>1, <4>2
      <4>. QED
        BY <4>1, <4>3 DEF Beyond
    <3>6. Cardinality(Beyond(order, v)) \in Nat
      BY <2>2, BeyondIs
    <3>. QED
      BY <2>1, <2>9, <3>1, <3>4, <3>5, <3>6
  <2>12. RepeatOf(order, v)
    BY <2>10, <2>11 DEF RepeatOf
  <2>. QED
    BY <2>1, <2>12 DEF RepeatInv, v
<1>. QED
  BY <1>2, <1>3, <1>4, StepIs

\* For any page sizes and bounds, and any interleaving with saves, restarts
\* that reorder the history and imports, a walk lists runs again no more often
\* than runs were added or slipped since it began.
THEOREM RepeatsOnlyForMovesAlways == Spec => []RepeatsOnlyForMoves
<1>1. Init => RepeatInv
  <2> SUFFICES ASSUME Init, NEW c \in Clients PROVE RepeatOf(order, walk[c])
    BY DEF RepeatInv
  <2>1. walk[c].saves = 0 /\ walk[c].slipped = 0 /\ walk[c].shown = <<>> /\ ~walk[c].more
    BY DEF Init
  <2>2. Len(<<>>) = 0 /\ Distinct(<<>>) \in Nat
    <3>1. <<>> \in Seq(Nat) /\ Len(<<>>) = 0
      OBVIOUS
    <3>. QED
      BY <3>1, DistinctIs
  <2>. QED
    BY <2>1, <2>2 DEF RepeatOf
<1>2. RepeatInv => RepeatsOnlyForMoves
  BY DEF RepeatInv, RepeatOf, RepeatsOnlyForMoves, Distinct
<1>. QED
  BY <1>1, <1>2, NextRepeatInv, Invariant, PTL DEF Spec

-----------------------------------------------------------------------------
(* Denials on their way to the artifact *)

\* Induction over the numbers, as a fact about sets.
LEMMA NatSetInduction ==
  ASSUME NEW G, 0 \in G, \A n \in Nat : n \in G => n + 1 \in G
  PROVE  Nat \subseteq G
<1>1. SUFFICES ASSUME Nat \ G # {} PROVE FALSE
  OBVIOUS
<1>2. PICK m \in Nat \ G : \A k \in Nat \ G : ~(<<k, m>> \in OpToRel(<, Nat))
  BY <1>1, NatLessThanWellFounded, WFMin, Zenon
<1>3. \A k \in Nat \ G : ~(k < m)
  BY <1>2 DEF OpToRel
<1>4. m # 0 /\ m - 1 \in Nat
  OBVIOUS
<1>. QED
  BY <1>3, <1>4

\* A loop over s is a function of how many elements it has seen: Among keeps
\* those in S, FlattenSeq joins all of them.
Keeps(kept, s, S, n) ==
  [i \in 0..n |-> IF i = 0 THEN <<>>
                  ELSE IF s[i] \in S THEN Append(kept[i - 1], s[i])
                  ELSE kept[i - 1]]

Joins(joined, s, n) ==
  [i \in 1..n |-> IF i = 1 THEN s[i] ELSE joined[i - 1] \o s[i]]

LEMMA KeepsExist ==
  ASSUME NEW s, NEW S
  PROVE  \A n \in Nat : \E kept : kept = Keeps(kept, s, S, n)
<1> DEFINE G == {n \in Nat : \E kept : kept = Keeps(kept, s, S, n)}
<1>1. 0 \in G
  <2>1. [i \in 0..0 |-> <<>>] = Keeps([i \in 0..0 |-> <<>>], s, S, 0)
    BY DEF Keeps
  <2>. QED
    BY <2>1
<1>2. ASSUME NEW n \in Nat, n \in G PROVE n + 1 \in G
  <2>1. PICK f : f = Keeps(f, s, S, n)
    BY <1>2
  <2> DEFINE last == IF s[n + 1] \in S THEN Append(f[n], s[n + 1]) ELSE f[n]
             g == [i \in 0..(n + 1) |-> IF i = n + 1 THEN last ELSE f[i]]
  <2>2. \A i \in 0..n : g[i] = f[i]
    OBVIOUS
  <2>3. ASSUME NEW i \in 0..n PROVE g[i] = Keeps(g, s, S, n + 1)[i]
    <3> HIDE DEF g
    <3>1. g[i] = f[i] /\ i \in 0..(n + 1)
      BY <2>2
    <3>2. CASE i = 0
      BY <2>1, <3>1, <3>2 DEF Keeps
    <3>3. CASE i # 0
      <4>1. g[i - 1] = f[i - 1]
        BY <2>2, <3>3
      <4>2. f[i] = Keeps(f, s, S, n)[i]
        BY <2>1
      <4>3. Keeps(f, s, S, n)[i] = Keeps(g, s, S, n + 1)[i]
        BY <3>1, <3>3, <4>1 DEF Keeps
      <4>. QED
        BY <3>1, <4>2, <4>3
    <3>. QED
      BY <3>2, <3>3
  <2>4. g[n + 1] = Keeps(g, s, S, n + 1)[n + 1]
    BY <2>2 DEF Keeps
  <2>5. g = Keeps(g, s, S, n + 1)
    <3> HIDE DEF g
    <3>1. \A i \in 0..(n + 1) : g[i] = Keeps(g, s, S, n + 1)[i]
      BY <2>3, <2>4
    <3>2. g = [i \in 0..(n + 1) |-> g[i]]
      BY DEF g
    <3>. QED
      BY <3>1, <3>2 DEF Keeps
  <2>. QED
    BY <2>5
<1>. QED
  BY <1>1, <1>2, NatSetInduction

LEMMA JoinsExist ==
  ASSUME NEW s
  PROVE  \A n \in Nat : \E joined : joined = Joins(joined, s, n)
<1> DEFINE G == {n \in Nat : \E joined : joined = Joins(joined, s, n)}
<1>1. 0 \in G
  <2>1. [i \in 1..0 |-> <<>>] = Joins([i \in 1..0 |-> <<>>], s, 0)
    BY DEF Joins
  <2>. QED
    BY <2>1
<1>2. ASSUME NEW n \in Nat, n \in G PROVE n + 1 \in G
  <2>1. PICK f : f = Joins(f, s, n)
    BY <1>2
  <2> DEFINE last == IF n = 0 THEN s[1] ELSE f[n] \o s[n + 1]
             g == [i \in 1..(n + 1) |-> IF i = n + 1 THEN last ELSE f[i]]
  <2>2. \A i \in 1..n : g[i] = f[i]
    OBVIOUS
  <2>3. ASSUME NEW i \in 1..n PROVE g[i] = Joins(g, s, n + 1)[i]
    <3> HIDE DEF g
    <3>1. g[i] = f[i] /\ i \in 1..(n + 1)
      BY <2>2
    <3>2. CASE i = 1
      BY <2>1, <3>1, <3>2 DEF Joins
    <3>3. CASE i # 1
      <4>1. g[i - 1] = f[i - 1]
        BY <2>2, <3>3
      <4>2. f[i] = Joins(f, s, n)[i]
        BY <2>1
      <4>3. Joins(f, s, n)[i] = Joins(g, s, n + 1)[i]
        BY <3>1, <3>3, <4>1 DEF Joins
      <4>. QED
        BY <3>1, <4>2, <4>3
    <3>. QED
      BY <3>2, <3>3
  <2>4. g[n + 1] = Joins(g, s, n + 1)[n + 1]
    BY <2>2 DEF Joins
  <2>5. g = Joins(g, s, n + 1)
    <3> HIDE DEF g
    <3>1. \A i \in 1..(n + 1) : g[i] = Joins(g, s, n + 1)[i]
      BY <2>3, <2>4
    <3>2. g = [i \in 1..(n + 1) |-> g[i]]
      BY DEF g
    <3>. QED
      BY <3>1, <3>2 DEF Joins
  <2>. QED
    BY <2>5
<1>. QED
  BY <1>1, <1>2, NatSetInduction

\* Appending to a sequence, and joining two, adds the elements.
LEMMA AppendElements ==
  ASSUME NEW T, NEW s \in Seq(T), NEW e \in T
  PROVE  Append(s, e) \in Seq(T) /\ ToSet(Append(s, e)) = ToSet(s) \cup {e}
<1>1. Append(s, e) \in Seq(T) /\ Len(Append(s, e)) = Len(s) + 1
  OBVIOUS
<1>2. \A i \in 1..Len(s) : Append(s, e)[i] = s[i]
  OBVIOUS
<1>3. Append(s, e)[Len(s) + 1] = e
  OBVIOUS
<1>4. \A x : x \in ToSet(Append(s, e)) <=> \E i \in 1..(Len(s) + 1) : x = Append(s, e)[i]
  BY <1>1 DEF ToSet
<1>5. \A x : x \in ToSet(s) <=> \E i \in 1..Len(s) : x = s[i]
  BY DEF ToSet
<1>6. 1..(Len(s) + 1) = 1..Len(s) \cup {Len(s) + 1}
  OBVIOUS
<1>. QED
  BY <1>1, <1>2, <1>3, <1>4, <1>5, <1>6

LEMMA JoinElements ==
  ASSUME NEW T, NEW s \in Seq(T), NEW t \in Seq(T)
  PROVE  s \o t \in Seq(T) /\ ToSet(s \o t) = ToSet(s) \cup ToSet(t)
<1>1. s \o t \in Seq(T) /\ Len(s \o t) = Len(s) + Len(t) /\ Len(s) \in Nat /\ Len(t) \in Nat
  OBVIOUS
<1>2. \A i \in 1..Len(s) : (s \o t)[i] = s[i]
  OBVIOUS
<1>3. \A i \in 1..Len(t) : (s \o t)[Len(s) + i] = t[i]
  OBVIOUS
<1>4. ASSUME NEW x \in ToSet(s) PROVE x \in ToSet(s \o t)
  <2>1. PICK i \in 1..Len(s) : x = s[i]
    BY DEF ToSet
  <2>2. i \in 1..Len(s \o t) /\ (s \o t)[i] = x
    BY <1>1, <1>2, <2>1
  <2>. QED
    BY <1>1, <2>2 DEF ToSet
<1>5. ASSUME NEW x \in ToSet(t) PROVE x \in ToSet(s \o t)
  <2>1. PICK i \in 1..Len(t) : x = t[i]
    BY DEF ToSet
  <2>2. Len(s) + i \in 1..Len(s \o t) /\ (s \o t)[Len(s) + i] = x
    BY <1>1, <1>3, <2>1
  <2>. QED
    BY <1>1, <2>2 DEF ToSet
<1>6. ASSUME NEW x \in ToSet(s \o t) PROVE x \in ToSet(s) \cup ToSet(t)
  <2>1. PICK i \in 1..Len(s \o t) : x = (s \o t)[i]
    BY <1>1 DEF ToSet
  <2>2. CASE i <= Len(s)
    <3>1. i \in 1..Len(s) /\ x = s[i]
      BY <1>1, <1>2, <2>1, <2>2
    <3>. QED
      BY <3>1 DEF ToSet
  <2>3. CASE i > Len(s)
    <3>1. i - Len(s) \in 1..Len(t) /\ x = t[i - Len(s)]
      BY <1>1, <1>3, <2>1, <2>3
    <3>. QED
      BY <3>1 DEF ToSet
  <2>. QED
    BY <1>1, <2>1, <2>2, <2>3
<1>. QED
  BY <1>1, <1>4, <1>5, <1>6

\* Among keeps exactly the elements in S.
LEMMA AmongIs ==
  ASSUME NEW T, NEW s \in Seq(T), NEW S
  PROVE  Among(s, S) \in Seq(T) /\ ToSet(Among(s, S)) = ToSet(s) \cap S
<1> DEFINE K == CHOOSE kept : kept = Keeps(kept, s, S, Len(s))
<1>0. Len(s) \in Nat /\ \A i \in 1..Len(s) : s[i] \in T
  OBVIOUS
<1>1. K = Keeps(K, s, S, Len(s))
  <2>1. \E kept : kept = Keeps(kept, s, S, Len(s))
    BY <1>0, KeepsExist
  <2>. QED
    BY <2>1, Zenon
<1>2. Among(s, S) = K[Len(s)]
  BY DEF Among, Keeps
<1> HIDE DEF K
<1>3. \A n \in 0..Len(s) : K[n] = Keeps(K, s, S, Len(s))[n]
  BY <1>1
<1> DEFINE seen(n) == {s[i] : i \in 1..n}
           H == {n \in Nat : n <= Len(s) => K[n] \in Seq(T) /\ ToSet(K[n]) = seen(n) \cap S}
<1>4. 0 \in H
  <2>1. K[0] = <<>>
    BY <1>0, <1>3 DEF Keeps
  <2>2. ToSet(<<>>) = {} /\ seen(0) = {} /\ <<>> \in Seq(T)
    BY DEF ToSet
  <2>. QED
    BY <2>1, <2>2
<1>5. ASSUME NEW n \in Nat, n \in H PROVE n + 1 \in H
  <2> SUFFICES ASSUME n + 1 <= Len(s)
               PROVE  K[n + 1] \in Seq(T) /\ ToSet(K[n + 1]) = seen(n + 1) \cap S
    OBVIOUS
  <2>1. K[n] \in Seq(T) /\ ToSet(K[n]) = seen(n) \cap S
    BY <1>0, <1>5
  <2>2. K[n + 1] = IF s[n + 1] \in S THEN Append(K[n], s[n + 1]) ELSE K[n]
    <3>1. n + 1 \in 0..Len(s) /\ n + 1 # 0 /\ (n + 1) - 1 = n
      BY <1>0
    <3>. QED
      BY <1>3, <3>1 DEF Keeps
  <2>3. seen(n + 1) = seen(n) \cup {s[n + 1]} /\ s[n + 1] \in T
    <3>1. 1..(n + 1) = 1..n \cup {n + 1} /\ n + 1 \in 1..Len(s)
      BY <1>0
    <3>. QED
      BY <1>0, <3>1
  <2> HIDE DEF seen, H
  <2>4. CASE s[n + 1] \in S
    <3>1. K[n + 1] = Append(K[n], s[n + 1])
      BY <2>2, <2>4
    <3>2. Append(K[n], s[n + 1]) \in Seq(T)
          /\ ToSet(Append(K[n], s[n + 1])) = ToSet(K[n]) \cup {s[n + 1]}
      BY <2>1, <2>3, AppendElements
    <3>. QED
      BY <2>1, <2>3, <2>4, <3>1, <3>2
  <2>5. CASE s[n + 1] \notin S
    <3>1. K[n + 1] = K[n]
      BY <2>2, <2>5
    <3>. QED
      BY <2>1, <2>3, <2>5, <3>1
  <2>. QED
    BY <2>4, <2>5
<1>6. Len(s) \in H
  <2> HIDE DEF H
  <2>. QED
    BY <1>0, <1>4, <1>5, NatSetInduction
<1>7. ToSet(s) = seen(Len(s))
  BY DEF ToSet
<1>. QED
  BY <1>0, <1>2, <1>6, <1>7

\* FlattenSeq has the elements of all its parts.
LEMMA FlattenIs ==
  ASSUME NEW T, NEW s \in Seq(Seq(T)), Len(s) # 0
  PROVE  /\ FlattenSeq(s) \in Seq(T)
         /\ ToSet(FlattenSeq(s)) = UNION {ToSet(s[i]) : i \in 1..Len(s)}
<1> DEFINE K == CHOOSE joined : joined = Joins(joined, s, Len(s))
<1>0. Len(s) \in Nat \ {0} /\ \A i \in 1..Len(s) : s[i] \in Seq(T)
  OBVIOUS
<1>1. K = Joins(K, s, Len(s))
  <2>1. \E joined : joined = Joins(joined, s, Len(s))
    BY <1>0, JoinsExist
  <2>. QED
    BY <2>1, Zenon
<1>2. FlattenSeq(s) = K[Len(s)]
  BY DEF FlattenSeq, Joins
<1> HIDE DEF K
<1>3. \A n \in 1..Len(s) : K[n] = Joins(K, s, Len(s))[n]
  BY <1>1
<1> DEFINE seen(n) == UNION {ToSet(s[i]) : i \in 1..n}
           H == {n \in Nat : n + 1 <= Len(s) =>
                   K[n + 1] \in Seq(T) /\ ToSet(K[n + 1]) = seen(n + 1)}
<1>4. 0 \in H
  <2>1. K[1] = s[1] /\ s[1] \in Seq(T)
    BY <1>0, <1>3 DEF Joins
  <2>2. seen(1) = ToSet(s[1])
    <3>1. 1..1 = {1}
      OBVIOUS
    <3>. QED
      BY <3>1
  <2> HIDE DEF seen
  <2>. QED
    BY <2>1, <2>2
<1>5. ASSUME NEW n \in Nat, n \in H PROVE n + 1 \in H
  <2> DEFINE m == n + 1
  <2> SUFFICES ASSUME m + 1 <= Len(s)
               PROVE  K[m + 1] \in Seq(T) /\ ToSet(K[m + 1]) = seen(m + 1)
    OBVIOUS
  <2>1. K[m] \in Seq(T) /\ ToSet(K[m]) = seen(m)
    BY <1>0, <1>5
  <2>2. K[m + 1] = K[m] \o s[m + 1]
    <3>1. m + 1 \in 1..Len(s) /\ m + 1 # 1 /\ (m + 1) - 1 = m
      BY <1>0
    <3>. QED
      BY <1>3, <3>1 DEF Joins
  <2>3. seen(m + 1) = seen(m) \cup ToSet(s[m + 1]) /\ s[m + 1] \in Seq(T)
    <3>1. 1..(m + 1) = 1..m \cup {m + 1} /\ m + 1 \in 1..Len(s)
      BY <1>0
    <3> HIDE DEF m
    <3>. QED
      BY <1>0, <3>1
  <2> HIDE DEF seen, H, m
  <2>. QED
    <3>1. /\ K[m] \o s[m + 1] \in Seq(T)
          /\ ToSet(K[m] \o s[m + 1]) = ToSet(K[m]) \cup ToSet(s[m + 1])
      <4>1. K[m] \in Seq(T) /\ s[m + 1] \in Seq(T)
        BY <2>1, <2>3
      <4>. QED
        BY <4>1, JoinElements
    <3>. QED
      BY <2>1, <2>2, <2>3, <3>1, Zenon
<1>6. Len(s) - 1 \in H
  <2>1. Nat \subseteq H
    <3> HIDE DEF H
    <3>. QED
      BY <1>4, <1>5, NatSetInduction, Zenon
  <2>2. Len(s) - 1 \in Nat
    BY <1>0
  <2> HIDE DEF H
  <2>. QED
    BY <2>1, <2>2
<1>. QED
  BY <1>0, <1>2, <1>6

LEMMA LeastOf ==
  ASSUME NEW S \in SUBSET Nat, S # {}
  PROVE  \E m \in S : \A k \in S : m <= k
<1>1. PICK m \in S : \A k \in S : ~(<<k, m>> \in OpToRel(<, Nat))
  BY NatLessThanWellFounded, WFMin, Zenon
<1>2. \A k \in S : ~(k < m)
  BY <1>1 DEF OpToRel
<1>. QED
  BY <1>2

LEMMA PlacesAre ==
  ASSUME NEW n \in Nat
  PROVE  LET places == [j \in 1..n |-> j] IN
         places \in Seq(1..n) /\ Len(places) = n /\ ToSet(places) = 1..n
BY DEF ToSet

\* FirstOfEachId loses no id and makes up nothing.
LEMMA FirstOfEachIdIs ==
  ASSUME NEW T, NEW items \in Seq(T)
  PROVE  /\ FirstOfEachId(items) \in Seq(T)
         /\ ToSet(FirstOfEachId(items)) \subseteq ToSet(items)
         /\ \A x \in ToSet(items) : \E y \in ToSet(FirstOfEachId(items)) : y.id = x.id
<1> DEFINE n == Len(items)
           places == [i \in 1..n |-> i]
           first == {i \in 1..n : \A j \in 1..(i - 1) : items[j].id # items[i].id}
           kept == Among(places, first)
           result == [k \in 1..Len(kept) |-> items[kept[k]]]
<1>0. n \in Nat /\ \A i \in 1..n : items[i] \in T
  OBVIOUS
<1>1. FirstOfEachId(items) = result
  BY DEF FirstOfEachId
<1>2. kept \in Seq(1..n) /\ ToSet(kept) = first
  <2>1. places \in Seq(1..n) /\ ToSet(places) = 1..n
    BY <1>0, PlacesAre
  <2> HIDE DEF places, first, n
  <2>2. kept \in Seq(1..n) /\ ToSet(kept) = ToSet(places) \cap first
    BY <2>1, AmongIs
  <2>3. first \subseteq 1..n
    BY DEF first, n
  <2>. QED
    BY <2>1, <2>2, <2>3
<1> HIDE DEF kept, places
<1>3. Len(kept) \in Nat /\ DOMAIN kept = 1..Len(kept) /\ \A k \in 1..Len(kept) : kept[k] \in 1..n /\ kept[k] \in first
  BY <1>2 DEF ToSet
<1>4. /\ result \in Seq(T) /\ Len(result) = Len(kept)
      /\ \A k \in 1..Len(kept) : result[k] = items[kept[k]]
  BY <1>0, <1>3
<1> HIDE DEF result
<1>5. ToSet(result) \subseteq ToSet(items)
  <2> SUFFICES ASSUME NEW x \in ToSet(result) PROVE x \in ToSet(items)
    OBVIOUS
  <2>1. PICK k \in 1..Len(kept) : x = items[kept[k]]
    BY <1>4 DEF ToSet
  <2>. QED
    BY <1>3, <2>1 DEF ToSet
<1>6. ASSUME NEW x \in ToSet(items) PROVE \E y \in ToSet(result) : y.id = x.id
  <2>1. PICK i \in 1..n : x = items[i]
    BY DEF ToSet
  <2> DEFINE S == {j \in 1..n : items[j].id = x.id}
  <2>2. PICK j \in S : \A k \in S : j <= k
    <3>1. S \in SUBSET Nat /\ S # {}
      BY <1>0, <2>1
    <3> HIDE DEF S
    <3>. QED
      BY <3>1, LeastOf
  <2>3. j \in first
    BY <1>0, <2>2
  <2>4. PICK k \in 1..Len(kept) : kept[k] = j
    <3>1. j \in ToSet(kept)
      BY <1>2, <2>3
    <3>. QED
      BY <1>3, <3>1 DEF ToSet
  <2>5. result[k] = items[j] /\ items[j].id = x.id
    BY <1>4, <2>2, <2>4
  <2>6. result[k] \in ToSet(result)
    BY <1>4 DEF ToSet
  <2>. QED
    BY <2>5, <2>6
<1>. QED
  BY <1>1, <1>4, <1>5, <1>6

-----------------------------------------------------------------------------
(* A denied step in the graph of its run *)

\* The node of a step among those it gives rise to.
OwnNode(step) ==
  [id |-> StepNode(step), risk |-> SemanticRiskLevel(step), decision |-> step.decision,
   step |-> step.id]

LEMMA SixOf ==
  ASSUME NEW a, NEW b, NEW c, NEW d, NEW e, NEW f
  PROVE  /\ <<a, b, c, d, e, f>> \in Seq({a, b, c, d, e, f})
         /\ ToSet(<<a, b, c, d, e, f>>) = {a, b, c, d, e, f}
<1>1. 1..6 = {1, 2, 3, 4, 5, 6}
  OBVIOUS
<1>2. ToSet(<<a, b, c, d, e, f>>) = {<<a, b, c, d, e, f>>[i] : i \in {1, 2, 3, 4, 5, 6}}
  BY <1>1 DEF ToSet
<1>. QED
  BY <1>2

LEMMA NodesAre ==
  ASSUME NEW step
  PROVE  /\ NodesOf(step) \in Seq(ToSet(NodesOf(step)))
         /\ OwnNode(step) \in ToSet(NodesOf(step))
         /\ \A node \in ToSet(NodesOf(step)) : \A id :
              node.id = <<"step", id>> => node = OwnNode(step)
<1> DEFINE node(id, risk, decision, of) ==
             [id |-> id, risk |-> risk, decision |-> decision, step |-> of]
           a == OwnNode(step)
           b == node(OperationNode(step), SemanticOperationRisk(step.operation), "", 0)
           c == node(ResourceNode(step), SemanticResourceRisk(step.resource), "", 0)
           d == node(BoundaryNode(step), SemanticBoundaryRisk(step.boundary), "", 0)
           e == node(PolicyNode(step), SemanticPolicyRisk(step), "", 0)
           f == node(DecisionNode(step), SemanticRiskLevel(step), step.decision, 0)
<1>1. NodesOf(step) = <<a, b, c, d, e, f>>
  BY DEF NodesOf, OwnNode
<1>2. /\ a.id = StepNode(step) /\ b.id = OperationNode(step) /\ c.id = ResourceNode(step)
      /\ d.id = BoundaryNode(step) /\ e.id = PolicyNode(step) /\ f.id = DecisionNode(step)
  BY DEF OwnNode
<1> HIDE DEF a, b, c, d, e, f
<1>3. ASSUME NEW id
      PROVE  /\ b.id # <<"step", id>> /\ c.id # <<"step", id>> /\ d.id # <<"step", id>>
             /\ e.id # <<"step", id>> /\ f.id # <<"step", id>>
  BY <1>2 DEF OperationNode, ResourceNode, BoundaryNode, PolicyNode, DecisionNode
<1>4. NodesOf(step) \in Seq({a, b, c, d, e, f}) /\ ToSet(NodesOf(step)) = {a, b, c, d, e, f}
  BY <1>1, SixOf
<1>. QED
  BY <1>3, <1>4 DEF a

\* What the graph of a run makes of its steps.
Normalized(steps) ==
  [i \in 1..Len(steps) |-> NormalizeSemanticStep(SemanticStep(steps[i], i), i)]

LEMMA NormalizedIs ==
  ASSUME NEW steps, Audited(steps), NEW i \in 1..Len(steps)
  PROVE  LET step == Normalized(steps)[i] IN
         /\ step.id = steps[i].report.id
         /\ steps[i].report.decision = "deny" =>
              step.decision = "deny" /\ SemanticRiskLevel(step) = "high"
<1> DEFINE raw == SemanticStep(steps[i], i)
           step == NormalizeSemanticStep(raw, i)
<1>1. steps[i] \in AgentStep /\ steps[i].report.id \in Nat \ {0}
  <2>1. steps \in Seq(AgentStep) /\ steps[i].report.id # 0
    BY DEF Audited
  <2>2. \A s \in AgentStep : s.report.id \in Nat
    BY DEF AgentStep
  <2>3. steps[i] \in AgentStep
    BY <2>1
  <2>. QED
    BY <2>1, <2>2, <2>3
<1>2. raw.id = steps[i].report.id /\ raw.decision = steps[i].report.decision
      /\ raw.level = RiskLevelForDecision(steps[i].report.decision)
  BY <1>1 DEF SemanticStep
<1>3. step.id = IF raw.id # 0 THEN raw.id ELSE IF raw.index > 0 THEN raw.index ELSE i
  BY DEF SemanticStep, NormalizeSemanticStep
<1>4. step.decision = Fallback(raw.decision, "review")
  BY DEF SemanticStep, NormalizeSemanticStep
<1>5. step.level = Fallback(raw.level, RiskLevelForDecision(Fallback(raw.decision, "review")))
  BY DEF SemanticStep, NormalizeSemanticStep
<1>6. Normalized(steps)[i] = step
  BY DEF Normalized
<1> HIDE DEF raw, step
<1>7. step.id = steps[i].report.id
  BY <1>1, <1>2, <1>3
<1>8. ASSUME steps[i].report.decision = "deny"
      PROVE  step.decision = "deny" /\ SemanticRiskLevel(step) = "high"
  <2>1. raw.decision = "deny" /\ raw.level = "high"
    BY <1>2, <1>8 DEF RiskLevelForDecision
  <2>2. step.decision = "deny" /\ step.level = "high"
    BY <1>4, <1>5, <2>1 DEF Fallback
  <2>. QED
    BY <2>2 DEF SemanticRiskLevel
<1>. QED
  BY <1>6, <1>7, <1>8

LEMMA DenialHasNode ==
  ASSUME NEW steps, Audited(steps), NEW i \in 1..Len(steps), steps[i].report.decision = "deny"
  PROVE  /\ BuildRiskGraph(steps) # <<>>
         /\ \E T : BuildRiskGraph(steps)[1].nodes \in Seq(T)
         /\ \E node \in ToSet(BuildRiskGraph(steps)[1].nodes) :
              node.step = steps[i].report.id /\ node.risk = "high"
<1> DEFINE n == Len(steps)
           st == Normalized(steps)
           parts == [j \in 1..n |-> NodesOf(st[j])]
           all == FlattenSeq(parts)
           T == UNION {ToSet(NodesOf(st[j])) : j \in 1..n}
<1>0. n \in Nat \ {0} /\ i \in 1..n
  BY DEF Audited
<1>1. BuildRiskGraph(steps) # <<>> /\ BuildRiskGraph(steps)[1].nodes = FirstOfEachId(all)
  <2> DEFINE raw == [j \in 1..n |-> SemanticStep(steps[j], j)]
  <2>1. raw # <<>> /\ Len(raw) = n
    BY <1>0
  <2>2. [j \in 1..n |-> NormalizeSemanticStep(raw[j], j)] = st
    BY DEF Normalized
  <2>3. BuildRiskGraph(steps) = RiskGraphFromSemanticSteps(raw)
    BY DEF BuildRiskGraph
  <2> HIDE DEF raw, st, n
  <2>4. PICK edges, hotspots, crossings, path :
          RiskGraphFromSemanticSteps(raw) =
            <<[nodes |-> FirstOfEachId(all), edges |-> edges, hotspots |-> hotspots,
               crossings |-> crossings, path |-> path]>>
    BY <2>1, <2>2 DEF RiskGraphFromSemanticSteps
  <2>. QED
    BY <2>3, <2>4
<1>2. all \in Seq(T) /\ ToSet(all) = T
  <2>1. ASSUME NEW j \in 1..n PROVE NodesOf(st[j]) \in Seq(T)
    <3>1. NodesOf(st[j]) \in Seq(ToSet(NodesOf(st[j]))) /\ ToSet(NodesOf(st[j])) \subseteq T
      BY NodesAre
    <3> HIDE DEF T, st
    <3>. QED
      BY <3>1
  <2>2. parts \in Seq(Seq(T)) /\ Len(parts) = n /\ \A j \in 1..n : parts[j] = NodesOf(st[j])
    BY <1>0, <2>1
  <2>3. UNION {ToSet(parts[j]) : j \in 1..n} = T
    BY <2>2
  <2> HIDE DEF parts, T, n, st
  <2>. QED
    BY <1>0, <2>2, <2>3, FlattenIs
<1> HIDE DEF all, parts
<1>3. \A j \in 1..n : st[j].id = steps[j].report.id
  BY NormalizedIs
<1>4. st[i].decision = "deny" /\ SemanticRiskLevel(st[i]) = "high"
  BY NormalizedIs
<1> HIDE DEF st
<1>5. OwnNode(st[i]) \in ToSet(all)
  BY <1>0, <1>2, NodesAre
<1>6. PICK node \in ToSet(FirstOfEachId(all)) : node.id = OwnNode(st[i]).id
  BY <1>2, <1>5, FirstOfEachIdIs
<1>7. node \in T /\ FirstOfEachId(all) \in Seq(T)
  BY <1>2, FirstOfEachIdIs
<1>8. PICK j \in 1..n : node \in ToSet(NodesOf(st[j]))
  BY <1>7
<1>9. node.id = <<"step", st[i].id>>
  BY <1>6 DEF OwnNode, StepNode
<1>10. node = OwnNode(st[j])
  BY <1>8, <1>9, NodesAre
<1>11. node.id = <<"step", st[j].id>> /\ node.step = st[j].id
       /\ node.risk = SemanticRiskLevel(st[j])
  BY <1>10 DEF OwnNode, StepNode
<1>12. i = j
  <2>1. st[i].id = st[j].id
    BY <1>9, <1>11
  <2>. QED
    BY <1>0, <1>3, <2>1 DEF Audited
<1>. QED
  BY <1>1, <1>3, <1>4, <1>7, <1>11, <1>12

\* The response of a loop that had a denied step.
LEMMA ResponseDenies ==
  ASSUME NEW steps, Audited(steps), NEW traces, NEW answered,
         NEW i \in 1..Len(steps), steps[i].report.decision = "deny"
  PROVE  LET resp == AgentLoopResponse(steps, traces, answered) IN
         /\ resp.decision = "deny" /\ resp.graph = BuildRiskGraph(steps)
         /\ Len(resp.steps) = Len(steps)
         /\ \A j \in 1..Len(steps) : resp.steps[j].report = steps[j].report
<1> DEFINE resp == AgentLoopResponse(steps, traces, answered)
           audit == AggregateAudit(steps)
<1>1. steps \in Seq(AgentStep) /\ steps # <<>> /\ steps[i] \in ToSet(steps)
  BY DEF Audited, ToSet
<1>2. audit.decision = "deny"
  <2>1. "deny" \in {s.report.decision : s \in ToSet(steps)}
    BY <1>1
  <2>2. audit.decision = Worst({s.report.decision : s \in ToSet(steps)})
    BY <1>1 DEF AggregateAudit
  <2>. QED
    BY <2>1, <2>2, Zenon DEF Worst
<1> HIDE DEF audit
<1>3. /\ resp.decision = IF answered /\ audit.decision # "deny" THEN "review" ELSE audit.decision
      /\ resp.graph = BuildRiskGraph(steps)
      /\ resp.steps = [j \in 1..Len(steps) |->
                         [index |-> steps[j].index, tool |-> steps[j].tool,
                          policy |-> steps[j].policy, report |-> steps[j].report]]
  BY DEF AgentLoopResponse, audit
<1> HIDE DEF resp
<1>4. Len(steps) \in Nat
  BY <1>1
<1>5. Len(resp.steps) = Len(steps) /\ \A j \in 1..Len(steps) : resp.steps[j].report = steps[j].report
  BY <1>3, <1>4
<1>. QED
  BY <1>2, <1>3, <1>5 DEF resp

\* A step with a report that denies has an audit report of its own.
LEMMA DenialHasReport ==
  ASSUME NEW resp, Len(resp.steps) \in Nat, NEW i \in 1..Len(resp.steps),
         resp.steps[i].report.decision = "deny"
  PROVE  \E r \in ToSet(BuildAuditReports(resp)) : r.step = i /\ r.decision = "deny"
<1> DEFINE n == Len(resp.steps)
           reported(j) == resp.steps[j].report.decision # ""
           reportable(j) == reported(j) \/ resp.steps[j].tool # ""
           places == [j \in 1..n |-> j]
           chosen == {j \in 1..n : reportable(j)}
           of == Among(places, chosen)
           entry(j) ==
             IF reported(j)
             THEN [step |-> j, decision |-> resp.steps[j].report.decision]
             ELSE [step |-> j, decision |-> resp.steps[j].policy]
           reports == [k \in 1..Len(of) |-> entry(of[k])]
<1>1. of \in Seq(1..n) /\ i \in ToSet(of)
  <2>1. places \in Seq(1..n) /\ ToSet(places) = 1..n
    BY PlacesAre
  <2>2. i \in chosen
    OBVIOUS
  <2> HIDE DEF places, chosen, n
  <2>3. of \in Seq(1..n) /\ ToSet(of) = ToSet(places) \cap chosen
    BY <2>1, AmongIs
  <2>. QED
    BY <2>1, <2>2, <2>3 DEF n
<1>2. of # <<>> /\ Len(of) \in Nat /\ \E k \in 1..Len(of) : of[k] = i
  <2> HIDE DEF of, n
  <2>1. Len(of) \in Nat /\ DOMAIN of = 1..Len(of)
    BY <1>1
  <2>. QED
    BY <1>1, <2>1 DEF ToSet
<1>3. PICK k \in 1..Len(of) : of[k] = i
  BY <1>2
<1>4. BuildAuditReports(resp) = reports
  <2> DEFINE aggregate == [step |-> 0, decision |-> resp.audit.decision]
  <2>1. BuildAuditReports(resp) =
          IF of = <<>> /\ resp.audit.method # "" THEN <<aggregate>> ELSE reports
    BY DEF BuildAuditReports
  <2> HIDE DEF aggregate, reports, of
  <2>. QED
    BY <1>2, <2>1
<1>5. entry(i).step = i /\ entry(i).decision = "deny"
  OBVIOUS
<1> HIDE DEF of, entry
<1>6. reports[k] = entry(i) /\ DOMAIN reports = 1..Len(of)
  BY <1>3
<1>7. entry(i) \in ToSet(reports)
  <2> HIDE DEF reports
  <2>1. Len(reports) = Len(of)
    BY <1>2, <1>6
  <2>. QED
    BY <1>3, <1>6, <2>1 DEF ToSet
<1>. QED
  BY <1>4, <1>5, <1>7

\* Of the nodes of a graph, those that are high are hotspots of the artifact.
LEMMA HighNodeIsHotspot ==
  ASSUME NEW resp, NEW graph, NEW T, graph.nodes \in Seq(T), Len(resp.audit.violations) \in Nat,
         NEW node \in ToSet(graph.nodes), node.risk = "high"
  PROVE  \E h \in ToSet(RiskHotspots(resp, graph)) : h.step = node.step /\ h.risk = "high"
<1> DEFINE nodes == Among(graph.nodes,
                      {x \in ToSet(graph.nodes) : x.risk \in {"high", "critical"} \/ x.decision = "deny"})
           found == resp.audit.violations
           brief(x) == [step |-> x.step, risk |-> x.risk]
           ofNodes == [i \in 1..Len(nodes) |-> brief(nodes[i])]
           ofAudit == [i \in 1..Len(found) |-> brief(found[i])]
           B == {brief(nodes[i]) : i \in 1..Len(nodes)} \cup {brief(found[i]) : i \in 1..Len(found)}
<1>1. nodes \in Seq(T) /\ node \in ToSet(nodes)
  <2> DEFINE hot == {x \in ToSet(graph.nodes) : x.risk \in {"high", "critical"} \/ x.decision = "deny"}
  <2>1. node \in hot
    OBVIOUS
  <2> HIDE DEF hot
  <2>2. Among(graph.nodes, hot) \in Seq(T) /\ ToSet(Among(graph.nodes, hot)) = ToSet(graph.nodes) \cap hot
    BY AmongIs
  <2>3. Among(graph.nodes, hot) \in Seq(T) /\ node \in ToSet(Among(graph.nodes, hot))
    BY <2>1, <2>2
  <2>. QED
    BY <2>3 DEF hot
<1>2. RiskHotspots(resp, graph) = ofNodes \o ofAudit
  BY DEF RiskHotspots
<1> HIDE DEF nodes
<1>3. Len(nodes) \in Nat /\ \E i \in 1..Len(nodes) : nodes[i] = node
  BY <1>1 DEF ToSet
<1>4. PICK i \in 1..Len(nodes) : nodes[i] = node
  BY <1>3
<1> HIDE DEF brief, found
<1>5. ofNodes \in Seq(B) /\ Len(ofNodes) = Len(nodes) /\ ofNodes[i] = brief(node)
  BY <1>3, <1>4
<1>6. ofAudit \in Seq(B)
  BY DEF found
<1> HIDE DEF ofNodes, ofAudit, B
<1>7. brief(node) \in ToSet(ofNodes)
  BY <1>4, <1>5 DEF ToSet
<1>8. brief(node) \in ToSet(ofNodes \o ofAudit)
  BY <1>5, <1>6, <1>7, JoinElements
<1>9. brief(node).step = node.step /\ brief(node).risk = "high"
  BY DEF brief
<1>. QED
  BY <1>2, <1>8, <1>9

\* The violations of an aggregated audit are a sequence.
LEMMA ViolationsAre ==
  ASSUME NEW steps, Audited(steps), steps # <<>>
  PROVE  Len(AggregateAudit(steps).violations) \in Nat
<1> DEFINE n == Len(steps)
           item(s) == [step |-> s.report.id, risk |-> SeverityForAuditDecision(s.report.decision)]
           part(s) == [k \in 1..s.report.violations |-> item(s)]
           parts == [i \in 1..n |-> part(steps[i])]
           T == {item(steps[i]) : i \in 1..n}
<1>1. n \in Nat \ {0}
  BY DEF Audited
<1>2. AggregateAudit(steps).violations = FlattenSeq(parts)
  BY DEF AggregateAudit
<1>3. ASSUME NEW i \in 1..n PROVE part(steps[i]) \in Seq(T)
  <2>1. steps[i] \in AgentStep
    BY DEF Audited
  <2>2. steps[i].report.violations \in Nat
    BY <2>1 DEF AgentStep
  <2>3. item(steps[i]) \in T
    OBVIOUS
  <2> HIDE DEF item, T
  <2>. QED
    BY <2>2, <2>3
<1> HIDE DEF part, T
<1>4. parts \in Seq(Seq(T)) /\ Len(parts) = n
  BY <1>1, <1>3
<1> HIDE DEF parts
<1>5. FlattenSeq(parts) \in Seq(T)
  BY <1>1, <1>4, FlattenIs
<1>. QED
  BY <1>2, <1>5

\* The decision of the run comes after its steps.
LEMMA AppendLast ==
  ASSUME NEW n \in Nat, NEW S, NEW f \in [1..n -> S], NEW last
  PROVE  Len(f \o <<last>>) = n + 1 /\ (f \o <<last>>)[n + 1] = last
<1> DEFINE T == S \cup {last}
<1>1. f \in Seq(T) /\ Len(f) = n /\ <<last>> \in Seq(T)
  OBVIOUS
<1> HIDE DEF T
<1>2. /\ Len(f \o <<last>>) = Len(f) + Len(<<last>>)
      /\ (f \o <<last>>)[Len(f) + 1] = <<last>>[1]
  BY <1>1
<1>. QED
  BY <1>1, <1>2

\* A response that may be saved is one of these.
LEMMA ResponseIs ==
  ASSUME NEW resp \in Responses
  PROVE  \/ Body(resp) = NonToolResponse("allow")
         \/ Body(resp) = NonToolResponse("deny")
         \/ Body(resp) = IntentGuardResponse
         \/ /\ Audited(Ran(resp).steps)
            /\ Body(resp) = AgentLoopResponse(Ran(resp).steps, Ran(resp).traces, Ran(resp).answered)
BY ResponsesAssumption DEF ResponsesAssumption

\* A run of the history has one of the responses.
LEMMA ResponseOf ==
  ASSUME TypeOK, NEW id \in ToSet(order)
  PROVE  runs[id].response \in Responses
<1>1. id \in 1..Len(runs)
  BY DEF TypeOK, ToSet
<1>2. runs[id] \in Finished
  BY <1>1 DEF TypeOK
<1>. QED
  BY <1>2, PagesAssumption DEF PagesAssumption

\* All of it, for one run of the history.
LEMMA DenialReaches ==
  ASSUME NEW resp \in Responses, NEW id, NEW i \in 1..Len(Body(resp).steps),
         Body(resp).steps[i].report.decision = "deny"
  PROVE  LET artifact == BuildArtifact(id, Body(resp)) IN
         /\ \E h \in ToSet(artifact.hotspots) :
              h.step = Body(resp).steps[i].report.id /\ h.risk = "high"
         /\ \E r \in ToSet(BuildAuditReports(Body(resp))) : r.step = i /\ r.decision = "deny"
         /\ artifact.path[Len(artifact.path)].decision = "deny"
<1> DEFINE body == Body(resp)
           run == Ran(resp)
           artifact == BuildArtifact(id, body)
<1>1. body.steps # <<>>
  OBVIOUS
<1>2. Audited(run.steps) /\ body = AgentLoopResponse(run.steps, run.traces, run.answered)
  <2>1. NonToolResponse("allow").steps = <<>> /\ NonToolResponse("deny").steps = <<>>
        /\ IntentGuardResponse.steps = <<>>
    BY DEF NonToolResponse, IntentGuardResponse
  <2> HIDE DEF body, run
  <2>2. \/ body = NonToolResponse("allow")
        \/ body = NonToolResponse("deny")
        \/ body = IntentGuardResponse
        \/ /\ Audited(run.steps)
           /\ body = AgentLoopResponse(run.steps, run.traces, run.answered)
    BY ResponseIs DEF body, run
  <2>. QED
    BY <1>1, <2>1, <2>2
<1>3. /\ Len(body.steps) = Len(run.steps)
      /\ \A j \in 1..Len(run.steps) : body.steps[j].report = run.steps[j].report
  BY <1>2 DEF AgentLoopResponse, Audited
<1>4. i \in 1..Len(run.steps) /\ run.steps[i].report = body.steps[i].report
  BY <1>3
<1>5. Len(body.steps) \in Nat
  BY <1>2, <1>3 DEF Audited
<1> HIDE DEF body, run
<1>6. body.decision = "deny" /\ body.graph = BuildRiskGraph(run.steps)
  BY <1>2, <1>4, ResponseDenies DEF body
<1>7. \E r \in ToSet(BuildAuditReports(body)) : r.step = i /\ r.decision = "deny"
  BY <1>5, DenialHasReport DEF body
<1>8. artifact.path[Len(artifact.path)].decision = "deny"
  <2> DEFINE n == Len(body.steps)
             before == [j \in 1..n |-> [index |-> j, decision |-> body.steps[j].policy]]
             last == [index |-> n + 1, decision |-> body.decision]
             S == {[index |-> j, decision |-> body.steps[j].policy] : j \in 1..n}
  <2>1. artifact.path = before \o <<last>>
    BY DEF BuildArtifact, DecisionPath
  <2>2. before \in [1..n -> S] /\ n \in Nat
    BY <1>5
  <2> HIDE DEF before, S, n, last, artifact
  <2>3. Len(artifact.path) = n + 1 /\ artifact.path[n + 1] = last
    <3>1. Len(before \o <<last>>) = n + 1 /\ (before \o <<last>>)[n + 1] = last
      BY <2>2, AppendLast
    <3>. QED
      BY <2>1, <3>1, Zenon
  <2>. QED
    BY <1>6, <2>3 DEF last
<1>9. \E h \in ToSet(artifact.hotspots) : h.step = body.steps[i].report.id /\ h.risk = "high"
  <2> DEFINE graph == BuildRiskGraph(run.steps)[1]
  <2> DEFINE report == run.steps[i].report
  <2>1. /\ BuildRiskGraph(run.steps) # <<>>
        /\ \E T : graph.nodes \in Seq(T)
        /\ \E node \in ToSet(graph.nodes) : node.step = report.id /\ node.risk = "high"
    <3>1. report.decision = "deny"
      BY <1>4 DEF body
    <3>. QED
      BY <1>2, <1>4, <3>1, DenialHasNode, Zenon
  <2>2. PICK T : graph.nodes \in Seq(T)
    BY <2>1, Zenon
  <2>3. PICK node \in ToSet(graph.nodes) : node.step = report.id /\ node.risk = "high"
    BY <2>1, Zenon
  <2>4. artifact.hotspots = RiskHotspots(body, graph)
    BY <1>6, <2>1 DEF BuildArtifact, RiskGraphFromResponse
  <2>5. Len(body.audit.violations) \in Nat
    <3>1. body.audit = AggregateAudit(run.steps)
      BY <1>2 DEF AgentLoopResponse
    <3>2. run.steps # <<>>
      BY <1>4
    <3>. QED
      BY <1>2, <3>1, <3>2, ViolationsAre
  <2> HIDE DEF graph, artifact
  <2>6. \E h \in ToSet(RiskHotspots(body, graph)) : h.step = node.step /\ h.risk = "high"
    BY <2>2, <2>3, <2>5, HighNodeIsHotspot
  <2>. QED
    BY <1>4, <2>3, <2>4, <2>6
<1>. QED
  BY <1>7, <1>8, <1>9 DEF body

\* For any responses and bounds: of every run that is there, each denied step
\* is in the exported artifact, under its own id, with a report of its own and
\* under a decision that denies.
THEOREM DenialsReachArtifactAlways == Spec => []DenialsReachArtifact
<1>1. TypeOK => DenialsReachArtifact
  <2> SUFFICES ASSUME TypeOK, NEW id \in ToSet(order), NEW i \in 1..Len(Body(runs[id].response).steps),
                      Body(runs[id].response).steps[i].report.decision = "deny"
               PROVE  LET resp == Body(runs[id].response)
                          artifact == BuildArtifact(id, resp)
                      IN /\ \E h \in ToSet(artifact.hotspots) :
                              h.step = resp.steps[i].report.id /\ h.risk = "high"
                         /\ \E r \in ToSet(BuildAuditReports(resp)) : r.step = i /\ r.decision = "deny"
                         /\ artifact.path[Len(artifact.path)].decision = "deny"
    BY Zenon DEF DenialsReachArtifact
  <2>1. runs[id].response \in Responses
    BY ResponseOf
  <2>. QED
    BY <2>1, DenialReaches
<1>. QED
  BY <1>1, PagesTypeCorrect, PTL

-----------------------------------------------------------------------------
(* One story of every run *)

\* The verdict on a run that each resource shows is its decision.
LEMMA VerdictIs ==
  ASSUME NEW resp, Len(resp.steps) \in Nat, NEW id, NEW resource \in Resources
  PROVE  Verdict(id, resp, resource) = resp.decision
<1>1. Last(BuildArtifact(id, resp).path).decision = resp.decision
  <2> DEFINE n == Len(resp.steps)
             before == [j \in 1..n |-> [index |-> j, decision |-> resp.steps[j].policy]]
             last == [index |-> n + 1, decision |-> resp.decision]
             S == {[index |-> j, decision |-> resp.steps[j].policy] : j \in 1..n}
             path == BuildArtifact(id, resp).path
  <2>1. path = before \o <<last>>
    BY DEF BuildArtifact, DecisionPath
  <2>2. before \in [1..n -> S] /\ n \in Nat
    OBVIOUS
  <2> HIDE DEF before, S, n, last, path
  <2>3. Len(before \o <<last>>) = n + 1 /\ (before \o <<last>>)[n + 1] = last
    BY <2>2, AppendLast
  <2>4. path[Len(path)] = last
    BY <2>1, <2>3, Zenon
  <2>5. Last(path) = last
    BY <2>4, Zenon DEF Last
  <2>. QED
    BY <2>5 DEF last, path
<1>2. SummarizeRun(id, resp).decision = resp.decision
  BY DEF SummarizeRun
<1>3. BuildRunReport(id, resp).decision = resp.decision
  BY DEF BuildRunReport
<1>4. BuildMarkdownReport(id, resp).decision = resp.decision
  BY DEF BuildMarkdownReport
<1>5. CASE resource = "run"
  BY <1>2, <1>5 DEF Verdict
<1>6. CASE resource = "report"
  BY <1>3, <1>6 DEF Verdict
<1>7. CASE resource = "markdown"
  BY <1>4, <1>7 DEF Verdict
<1>8. CASE resource = "artifact"
  BY <1>1, <1>8 DEF Verdict
<1>. QED
  BY <1>5, <1>6, <1>7, <1>8 DEF Resources

LEMMA SingleIs ==
  ASSUME NEW x, NEW r \in ToSet(<<x>>)
  PROVE  r = x
<1>1. DOMAIN <<x>> = {1} /\ <<x>>[1] = x
  OBVIOUS
<1>. QED
  BY <1>1, Zenon DEF ToSet

LEMMA EntriesAre ==
  ASSUME NEW T, NEW s \in Seq(T)
  PROVE  Len(s) \in Nat /\ \A k \in 1..Len(s) : s[k] \in T
OBVIOUS

\* Where every step was audited, a report tells of one or of the whole run.
LEMMA ReportsTell ==
  ASSUME NEW resp, Len(resp.steps) \in Nat,
         \A i \in 1..Len(resp.steps) : resp.steps[i].report.decision # "",
         NEW r \in ToSet(BuildAuditReports(resp))
  PROVE  \/ r.decision = resp.audit.decision
         \/ \E i \in 1..Len(resp.steps) : r.decision = resp.steps[i].report.decision
<1> DEFINE n == Len(resp.steps)
           reported(j) == resp.steps[j].report.decision # ""
           reportable(j) == reported(j) \/ resp.steps[j].tool # ""
           places == [j \in 1..n |-> j]
           chosen == {j \in 1..n : reportable(j)}
           of == Among(places, chosen)
           entry(j) ==
             IF reported(j)
             THEN [step |-> j, decision |-> resp.steps[j].report.decision]
             ELSE [step |-> j, decision |-> resp.steps[j].policy]
           reports == [k \in 1..Len(of) |-> entry(of[k])]
           aggregate == [step |-> 0, decision |-> resp.audit.decision]
<1>1. of \in Seq(1..n)
  <2>1. places \in Seq(1..n)
    BY PlacesAre
  <2> HIDE DEF places, chosen, n
  <2>. QED
    BY <2>1, AmongIs
<1>2. BuildAuditReports(resp) =
        IF of = <<>> /\ resp.audit.method # "" THEN <<aggregate>> ELSE reports
  BY DEF BuildAuditReports
<1>3. \A j \in 1..n : entry(j).decision = resp.steps[j].report.decision
  OBVIOUS
<1>4. aggregate.decision = resp.audit.decision
  OBVIOUS
<1> HIDE DEF of, entry, aggregate
<1>5. CASE r \in ToSet(<<aggregate>>)
  <2>1. r = aggregate
    BY <1>5, SingleIs, Zenon
  <2>. QED
    BY <1>4, <2>1
<1>6. CASE r \in ToSet(reports)
  <2>1. Len(of) \in Nat /\ \A k \in 1..Len(of) : of[k] \in 1..n
    BY <1>1, EntriesAre, Zenon
  <2>2. DOMAIN reports = 1..Len(of) /\ \A k \in 1..Len(of) : reports[k] = entry(of[k])
    OBVIOUS
  <2> HIDE DEF n, reports
  <2>3. PICK k \in 1..Len(of) : r = entry(of[k])
    BY <1>6, <2>2, Zenon DEF ToSet
  <2>4. r.decision = resp.steps[of[k]].report.decision /\ of[k] \in 1..n
    BY <1>3, <2>1, <2>3
  <2>. QED
    BY <2>4 DEF n
<1> HIDE DEF reports
<1>. QED
  BY <1>2, <1>5, <1>6

LEMMA StrictnessIs ==
  ASSUME NEW d
  PROVE  /\ d = "deny" => Strictness(d) = 2
         /\ d = "review" => Strictness(d) = 1
         /\ d \notin {"deny", "review"} => Strictness(d) = 0
<1>1. d = "deny" => Strictness(d) = 2
  BY Zenon DEF Strictness
<1>2. d = "review" => Strictness(d) = 1
  BY Zenon DEF Strictness
<1>3. d \notin {"deny", "review"} => Strictness(d) = 0
  BY Zenon DEF Strictness
<1>. QED
  BY <1>1, <1>2, <1>3

LEMMA StrictnessOrders ==
  ASSUME NEW c, NEW d, c = d \/ d = "deny" \/ c \notin {"deny", "review"}
  PROVE  Strictness(c) <= Strictness(d)
<1>1. Strictness(c) \in {0, 1, 2} /\ Strictness(d) \in {0, 1, 2}
  <2>1. \A e : Strictness(e) = 0 \/ Strictness(e) = 1 \/ Strictness(e) = 2
    BY StrictnessIs, Zenon
  <2>. QED
    BY <2>1
<1>2. CASE c = d
  BY <1>1, <1>2
<1>3. CASE d = "deny"
  <2>1. Strictness(d) = 2
    BY <1>3, StrictnessIs, Zenon
  <2>. QED
    BY <1>1, <2>1
<1>4. CASE c \notin {"deny", "review"}
  <2>1. Strictness(c) = 0
    BY <1>4, StrictnessIs, Zenon
  <2>. QED
    BY <1>1, <2>1
<1>. QED
  BY <1>2, <1>3, <1>4

\* No step of a loop was audited more strictly than the run.
LEMMA AggregateIsStrictest ==
  ASSUME NEW steps, Audited(steps)
  PROVE  /\ AggregateAudit(steps).decision \in {"allow", "review", "deny"}
         /\ \A i \in 1..Len(steps) :
              Strictness(steps[i].report.decision) <= Strictness(AggregateAudit(steps).decision)
<1> DEFINE audit == AggregateAudit(steps)
           decisions == {s.report.decision : s \in ToSet(steps)}
<1>1. audit.decision = IF steps = <<>> THEN "allow" ELSE Worst(decisions)
  BY DEF AggregateAudit
<1>2. \A i \in 1..Len(steps) : /\ steps[i].report.decision \in {"allow", "review", "deny"}
                               /\ steps[i].report.decision \in decisions
                               /\ steps # <<>>
  BY DEF Audited, ToSet
<1> HIDE DEF audit, decisions
<1>3. /\ Worst(decisions) \in {"allow", "review", "deny"}
      /\ "deny" \in decisions => Worst(decisions) = "deny"
      /\ "review" \in decisions => Worst(decisions) \in {"review", "deny"}
  BY DEF Worst
<1>4. audit.decision \in {"allow", "review", "deny"}
  BY <1>1, <1>3
<1>5. ASSUME NEW i \in 1..Len(steps)
      PROVE  Strictness(steps[i].report.decision) <= Strictness(audit.decision)
  <2>1. audit.decision = Worst(decisions)
    BY <1>1, <1>2
  <2>2. CASE steps[i].report.decision = "deny"
    <3>1. audit.decision = "deny"
      BY <1>2, <1>3, <2>1, <2>2
    <3>. QED
      BY <3>1, StrictnessOrders, Zenon
  <2>3. CASE steps[i].report.decision = "review"
    <3>1. audit.decision = "deny" \/ audit.decision = steps[i].report.decision
      BY <1>2, <1>3, <2>1, <2>3
    <3>. QED
      BY <3>1, StrictnessOrders, Zenon
  <2>4. CASE steps[i].report.decision = "allow"
    <3>1. steps[i].report.decision \notin {"deny", "review"}
      BY <2>4
    <3>. QED
      BY <3>1, StrictnessOrders, Zenon
  <2>. QED
    BY <1>2, <2>2, <2>3, <2>4
<1>. QED
  BY <1>4, <1>5 DEF audit

\* What the reports of a response without steps are worth.
LEMMA NoStepsReports ==
  ASSUME NEW resp, resp.steps = <<>>, NEW r \in ToSet(BuildAuditReports(resp))
  PROVE  r.decision = resp.audit.decision
<1>1. Len(resp.steps) = 0 /\ 1..Len(resp.steps) = {}
  OBVIOUS
<1>2. Len(resp.steps) \in Nat
      /\ \A i \in 1..Len(resp.steps) : resp.steps[i].report.decision # ""
  BY <1>1
<1>3. \/ r.decision = resp.audit.decision
      \/ \E i \in 1..Len(resp.steps) : r.decision = resp.steps[i].report.decision
  BY <1>2, ReportsTell, Zenon
<1>. QED
  BY <1>1, <1>3, Zenon

\* One response tells one story.
Reconciled(id, resp) ==
  LET audit == BuildArtifact(id, resp).decision
  IN /\ \A r \in ToSet(BuildAuditReports(resp)) : Strictness(r.decision) <= Strictness(audit)
     /\ \A resource \in Resources :
          LET shown == Verdict(id, resp, resource)
          IN /\ Strictness(audit) <= Strictness(shown)
             /\ shown # audit =>
                  \/ shown = "review" /\ audit = "allow"
                  \/ audit = "" /\ resp.steps = <<>> /\ resp.traces = <<>>

LEMMA ReconciledWhen ==
  ASSUME NEW id, NEW resp, Len(resp.steps) \in Nat,
         \A r \in ToSet(BuildAuditReports(resp)) :
           Strictness(r.decision) <= Strictness(resp.audit.decision),
         Strictness(resp.audit.decision) <= Strictness(resp.decision),
         \/ resp.decision = resp.audit.decision
         \/ resp.decision = "review" /\ resp.audit.decision = "allow"
         \/ resp.audit.decision = "" /\ resp.steps = <<>> /\ resp.traces = <<>>
  PROVE  Reconciled(id, resp)
<1>1. BuildArtifact(id, resp).decision = resp.audit.decision
  BY DEF BuildArtifact
<1>2. \A resource \in Resources : Verdict(id, resp, resource) = resp.decision
  BY VerdictIs
<1>. QED
  BY <1>1, <1>2, Zenon DEF Reconciled

LEMMA ResponseReconciled ==
  ASSUME NEW name \in Responses, NEW id
  PROVE  Reconciled(id, Body(name))
<1> DEFINE body == Body(name)
           run == Ran(name)
<1>1. ASSUME NEW d \in {"allow", "deny"}, body = NonToolResponse(d)
      PROVE  Reconciled(id, body)
  <2> DEFINE answer == NonToolResponse(d)
  <2>1. answer.steps = <<>> /\ answer.traces = <<>> /\ answer.decision = d
        /\ answer.audit.decision = ""
    BY DEF NonToolResponse
  <2>2. body.steps = <<>> /\ body.traces = <<>> /\ body.decision = d /\ body.audit.decision = ""
    BY <1>1, <2>1, Zenon
  <2> HIDE DEF body
  <2>3. \A r \in ToSet(BuildAuditReports(body)) : r.decision = ""
    BY <2>2, NoStepsReports
  <2>4. Strictness("") <= Strictness(d) /\ Strictness("") <= Strictness("")
    <3>1. "" \notin {"deny", "review"}
      OBVIOUS
    <3>. QED
      BY <3>1, StrictnessOrders, Zenon
  <2>5. Len(body.steps) \in Nat
    <3>1. Len(<<>>) \in Nat
      OBVIOUS
    <3>. QED
      BY <2>2, <3>1, Zenon
  <2>. QED
    BY <2>2, <2>3, <2>4, <2>5, ReconciledWhen
<1>2. ASSUME body = IntentGuardResponse
      PROVE  Reconciled(id, body)
  <2>1. body.steps = <<>> /\ body.decision = "deny" /\ body.audit.decision = "deny"
    BY <1>2 DEF IntentGuardResponse
  <2> HIDE DEF body
  <2>2. \A r \in ToSet(BuildAuditReports(body)) : r.decision = "deny"
    BY <2>1, NoStepsReports
  <2>3. Strictness("deny") <= Strictness("deny")
    BY StrictnessOrders, Zenon
  <2>4. Len(body.steps) \in Nat
    BY <2>1
  <2>. QED
    BY <2>1, <2>2, <2>3, <2>4, ReconciledWhen
<1>3. ASSUME Audited(run.steps), body = AgentLoopResponse(run.steps, run.traces, run.answered)
      PROVE  Reconciled(id, body)
  <2> DEFINE audit == AggregateAudit(run.steps)
  <2>1. /\ body.decision = IF run.answered /\ audit.decision # "deny" THEN "review" ELSE audit.decision
        /\ body.audit = audit
        /\ body.steps = [j \in 1..Len(run.steps) |->
                           [index |-> run.steps[j].index, tool |-> run.steps[j].tool,
                            policy |-> run.steps[j].policy, report |-> run.steps[j].report]]
    BY <1>3 DEF AgentLoopResponse
  <2> HIDE DEF body, run
  <2>2. Len(run.steps) \in Nat
    BY <1>3 DEF Audited
  <2>3. Len(body.steps) = Len(run.steps)
        /\ \A j \in 1..Len(run.steps) : body.steps[j].report = run.steps[j].report
    BY <2>1, <2>2
  <2>4. /\ audit.decision \in {"allow", "review", "deny"}
        /\ \A j \in 1..Len(run.steps) :
             Strictness(run.steps[j].report.decision) <= Strictness(audit.decision)
    BY <1>3, AggregateIsStrictest
  <2> HIDE DEF audit
  <2>5. \A j \in 1..Len(body.steps) : body.steps[j].report.decision # ""
    BY <1>3, <2>3 DEF Audited
  <2>6. Strictness(audit.decision) <= Strictness(audit.decision)
    BY StrictnessOrders, Zenon
  <2>7. \A r \in ToSet(BuildAuditReports(body)) : Strictness(r.decision) <= Strictness(audit.decision)
    <3> TAKE r \in ToSet(BuildAuditReports(body))
    <3>1. \/ r.decision = body.audit.decision
          \/ \E j \in 1..Len(body.steps) : r.decision = body.steps[j].report.decision
      BY <2>2, <2>3, <2>5, ReportsTell
    <3>2. CASE r.decision = body.audit.decision
      BY <2>1, <2>6, <3>2
    <3>3. ASSUME NEW j \in 1..Len(body.steps), r.decision = body.steps[j].report.decision
          PROVE  Strictness(r.decision) <= Strictness(audit.decision)
      BY <2>3, <2>4, <3>3
    <3>. QED
      BY <3>1, <3>2, <3>3
  <2>8. body.decision = audit.decision \/ (body.decision = "review" /\ audit.decision = "allow")
    BY <2>1, <2>4
  <2>9. Strictness(audit.decision) <= Strictness(body.decision)
    <3>1. audit.decision = body.decision \/ audit.decision \notin {"deny", "review"}
      BY <2>8
    <3>. QED
      BY <3>1, StrictnessOrders, Zenon
  <2>. QED
    BY <2>1, <2>2, <2>3, <2>7, <2>8, <2>9, ReconciledWhen
<1> HIDE DEF body, run
<1>4. \/ body = NonToolResponse("allow")
      \/ body = NonToolResponse("deny")
      \/ body = IntentGuardResponse
      \/ /\ Audited(run.steps)
         /\ body = AgentLoopResponse(run.steps, run.traces, run.answered)
  BY ResponseIs DEF body, run
<1>5. Reconciled(id, body)
  BY <1>1, <1>2, <1>3, <1>4
<1>. QED
  BY <1>5 DEF body

\* For any responses and bounds: the views of a run tell one story, however the
\* run came about.
THEOREM VerdictsReconcileAlways == Spec => []VerdictsReconcile
<1>1. TypeOK => VerdictsReconcile
  <2> SUFFICES ASSUME TypeOK, NEW id \in ToSet(order)
               PROVE  Reconciled(id, Body(runs[id].response))
    BY Zenon DEF VerdictsReconcile, Reconciled
  <2>1. runs[id].response \in Responses
    BY ResponseOf
  <2>. QED
    BY <2>1, ResponseReconciled
<1>. QED
  BY <1>1, PagesTypeCorrect, PTL
=============================================================================
