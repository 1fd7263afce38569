--------------------------- MODULE RunStoreProofs ---------------------------
(***************************************************************************)
(* What the JSON store keeps true for any number of runs, saves, crashes   *)
(* and faults, and any configured limits: what readers see is consistent   *)
(* whatever failed, and, as long as nothing fails, it is what a restart    *)
(* would bring back.                                                       *)
(***************************************************************************)
EXTENDS RunStore, FiniteSetTheorems, TLAPS

Distinct(s) == \A i, j \in 1..Len(s) : s[i] = s[j] => i = j

-----------------------------------------------------------------------------
(* Induction, sequences, and what load keeps of an index *)

LEMMA NatSetInduction ==
  ASSUME NEW G, 0 \in G, \A n \in Nat : n \in G => n + 1 \in G
  PROVE  Nat \subseteq G
<1>1. SUFFICES ASSUME Nat \ G # {} PROVE FALSE
  OBVIOUS
<1>2. PICK m \in Nat \ G : \A k \in Nat \ G : ~(<<k, m>> \in OpToRel(<, Nat))
  BY <1>1, NatLessThanWellFounded, WFMin, Zenon
<1>3. \A k \in Nat \ G : ~(k < m)
  BY <1>2 DEF OpToRel
<1>4. m # 0 /\ m - 1 \in Nat
  OBVIOUS
<1>5. QED
  BY <1>3, <1>4

LEMMA UpTo ==
  ASSUME NEW N \in Nat, NEW G, 0 \in G, \A n \in Nat : n < N /\ n \in G => n + 1 \in G
  PROVE  0..N \subseteq G
<1> DEFINE H == {n \in Nat : n <= N => n \in G}
<1>1. 0 \in H
  OBVIOUS
<1>2. ASSUME NEW n \in Nat, n \in H PROVE n + 1 \in H
  BY <1>2
<1>3. Nat \subseteq H
  <2> HIDE DEF H
  <2> QED
    BY <1>1, <1>2, NatSetInduction
<1> QED
  BY <1>3

\* The turns of the loop in load, by how many entries of the index it has read.
Turns(kept, stored, ix, n) ==
  [i \in 0..n |-> IF i = 0 THEN <<>>
                  ELSE IF stored[ix[i]] = NoRun \/ ix[i] \in Elems(kept[i - 1]) THEN kept[i - 1]
                  ELSE Append(kept[i - 1], ix[i])]

Reads(kept, stored, ix) == kept = Turns(kept, stored, ix, Len(ix))

LEMMA TurnsExist ==
  ASSUME NEW stored, NEW ix
  PROVE  \A n \in Nat : \E kept : kept = Turns(kept, stored, ix, n)
<1> DEFINE G == {n \in Nat : \E kept : kept = Turns(kept, stored, ix, n)}
<1>1. 0 \in G
  <2>1. [i \in 0..0 |-> <<>>] = Turns([i \in 0..0 |-> <<>>], stored, ix, 0)
    BY DEF Turns
  <2>2. QED
    BY <2>1
<1>2. ASSUME NEW n \in Nat, n \in G PROVE n + 1 \in G
  <2>1. PICK f : f = Turns(f, stored, ix, n)
    BY <1>2
  <2> DEFINE last == IF stored[ix[n + 1]] = NoRun \/ ix[n + 1] \in Elems(f[n]) THEN f[n]
                     ELSE Append(f[n], ix[n + 1])
             g == [i \in 0..(n + 1) |-> IF i = n + 1 THEN last ELSE f[i]]
  <2>2. \A i \in 0..n : g[i] = f[i]
    OBVIOUS
  <2>3. \A i \in 0..n : g[i] = Turns(g, stored, ix, n + 1)[i]
    <3> HIDE DEF g
    <3> SUFFICES ASSUME NEW i \in 0..n PROVE g[i] = Turns(g, stored, ix, n + 1)[i]
      OBVIOUS
    <3>1. g[i] = f[i] /\ i \in 0..(n + 1)
      BY <2>2
    <3>2. CASE i = 0
      BY <2>1, <3>1, <3>2 DEF Turns
    <3>3. CASE i # 0
      <4>1. g[i - 1] = f[i - 1]
        BY <2>2, <3>3
      <4>2. f[i] = Turns(f, stored, ix, n)[i]
        BY <2>1
      <4>3. Turns(f, stored, ix, n)[i] = Turns(g, stored, ix, n + 1)[i]
        BY <3>1, <3>3, <4>1 DEF Turns
      <4> QED
        BY <3>1, <4>2, <4>3
    <3> QED
      BY <3>2, <3>3
  <2>4. g[n + 1] = Turns(g, stored, ix, n + 1)[n + 1]
    BY <2>2 DEF Turns
  <2>5. g = Turns(g, stored, ix, n + 1)
    <3> HIDE DEF g
    <3>1. \A i \in 0..(n + 1) : g[i] = Turns(g, stored, ix, n + 1)[i]
      BY <2>3, <2>4
    <3>2. g = [i \in 0..(n + 1) |-> g[i]]
      BY DEF g
    <3> QED
      BY <3>1, <3>2 DEF Turns
  <2>6. QED
    BY <2>5
<1>3. QED
  BY <1>1, <1>2, NatSetInduction

LEMMA ReadableTurns ==
  ASSUME NEW stored, NEW ix \in Seq(RunIds)
  PROVE  \E kept : /\ Reads(kept, stored, ix)
                   /\ Readable(stored, ix) = kept[Len(ix)]
<1> DEFINE K == CHOOSE kept : kept = Turns(kept, stored, ix, Len(ix))
<1>1. K = Turns(K, stored, ix, Len(ix))
  <2>0. Len(ix) \in Nat
    OBVIOUS
  <2>1. \E kept : kept = Turns(kept, stored, ix, Len(ix))
    BY <2>0, TurnsExist
  <2> QED
    BY <2>1, Zenon
<1>2. Readable(stored, ix) = K[Len(ix)]
  BY DEF Readable, Turns
<1> QED
  BY <1>1, <1>2 DEF Reads


LEMMA AppendFacts ==
  ASSUME NEW S, NEW s \in Seq(S), NEW x \in S
  PROVE  /\ Append(s, x) \in Seq(S)
         /\ Elems(Append(s, x)) = Elems(s) \cup {x}
         /\ Distinct(s) /\ x \notin Elems(s) => Distinct(Append(s, x))
<1>1. /\ Append(s, x) \in Seq(S)
      /\ Len(Append(s, x)) = Len(s) + 1
      /\ \A i \in 1..Len(s) : Append(s, x)[i] = s[i]
      /\ Append(s, x)[Len(s) + 1] = x
  OBVIOUS
<1>2. Elems(Append(s, x)) = Elems(s) \cup {x}
  <2> HIDE <1>1
  <2>1. ASSUME NEW y \in Elems(Append(s, x)) PROVE y \in Elems(s) \cup {x}
    BY <1>1, <2>1 DEF Elems
  <2>2. ASSUME NEW y \in Elems(s) PROVE y \in Elems(Append(s, x))
    <3>1. PICK i \in 1..Len(s) : y = s[i]
      BY DEF Elems
    <3>2. i \in 1..Len(Append(s, x)) /\ Append(s, x)[i] = y
      BY <1>1, <3>1
    <3> QED
      BY <3>2 DEF Elems
  <2>3. x \in Elems(Append(s, x))
    <3>1. Len(s) + 1 \in 1..Len(Append(s, x))
      BY <1>1
    <3> QED
      BY <1>1, <3>1 DEF Elems
  <2> QED
    BY <2>1, <2>2, <2>3
<1>3. Distinct(s) /\ x \notin Elems(s) => Distinct(Append(s, x))
  BY <1>1 DEF Distinct, Elems
<1> QED
  BY <1>1, <1>2, <1>3

LEMMA TailFacts ==
  ASSUME NEW S, NEW s \in Seq(S), s # <<>>
  PROVE  /\ Tail(s) \in Seq(S) /\ Len(Tail(s)) = Len(s) - 1
         /\ \A i \in 1..Len(Tail(s)) : Tail(s)[i] = s[i + 1]
         /\ Head(s) \in Elems(s) /\ Head(s) = s[1] /\ Head(s) \in S
         /\ Elems(s) = Elems(Tail(s)) \cup {Head(s)}
         /\ Distinct(s) => Distinct(Tail(s)) /\ Head(s) \notin Elems(Tail(s))
<1>1. /\ Tail(s) \in Seq(S) /\ Len(Tail(s)) = Len(s) - 1
      /\ \A i \in 1..Len(Tail(s)) : Tail(s)[i] = s[i + 1]
      /\ Head(s) = s[1] /\ Head(s) \in S /\ Len(s) \in Nat /\ Len(s) > 0
  OBVIOUS
<1>2. Head(s) \in Elems(s)
  BY <1>1 DEF Elems
<1>3. Elems(s) = Elems(Tail(s)) \cup {Head(s)}
  <2>1. ASSUME NEW y \in Elems(s) PROVE y \in Elems(Tail(s)) \cup {Head(s)}
    <3>1. PICK i \in 1..Len(s) : y = s[i]
      BY DEF Elems
    <3>2. CASE i = 1
      BY <1>1, <3>1, <3>2
    <3>3. CASE i # 1
      <4>1. i - 1 \in 1..Len(Tail(s)) /\ Tail(s)[i - 1] = y
        BY <1>1, <3>1, <3>3
      <4> QED
        BY <4>1 DEF Elems
    <3> QED
      BY <3>2, <3>3
  <2>2. ASSUME NEW y \in Elems(Tail(s)) PROVE y \in Elems(s)
    <3>1. PICK i \in 1..Len(Tail(s)) : y = Tail(s)[i]
      BY DEF Elems
    <3>2. i + 1 \in 1..Len(s) /\ s[i + 1] = y
      BY <1>1, <3>1
    <3> QED
      BY <3>2 DEF Elems
  <2> QED
    BY <1>2, <2>1, <2>2
<1>4. Distinct(s) => Distinct(Tail(s)) /\ Head(s) \notin Elems(Tail(s))
  BY <1>1 DEF Distinct, Elems
<1> QED
  BY <1>1, <1>2, <1>3, <1>4

LEMMA TurnStep ==
  ASSUME NEW stored, NEW ix \in Seq(RunIds), NEW kept,
         Reads(kept, stored, ix)
  PROVE  /\ kept[0] = <<>>
         /\ \A n \in Nat : n + 1 <= Len(ix) =>
              /\ ix[n + 1] \in RunIds
              /\ kept[n + 1] = IF stored[ix[n + 1]] = NoRun \/ ix[n + 1] \in Elems(kept[n])
                               THEN kept[n] ELSE Append(kept[n], ix[n + 1])
<1>1. Len(ix) \in Nat
  OBVIOUS
<1>2. kept[0] = <<>>
  BY <1>1 DEF Reads, Turns
<1>3. ASSUME NEW n \in Nat, n + 1 <= Len(ix)
      PROVE  /\ ix[n + 1] \in RunIds
             /\ kept[n + 1] = IF stored[ix[n + 1]] = NoRun \/ ix[n + 1] \in Elems(kept[n])
                              THEN kept[n] ELSE Append(kept[n], ix[n + 1])
  <2>1. n + 1 \in 0..Len(ix) /\ n + 1 # 0 /\ (n + 1) - 1 = n
    BY <1>1, <1>3
  <2>2. kept[n + 1] = Turns(kept, stored, ix, Len(ix))[n + 1]
    BY DEF Reads
  <2> QED
    BY <2>1, <2>2 DEF Turns
<1> QED
  BY <1>2, <1>3

\* What has been kept after n entries of the index.
Kept(kept, stored, ix, n) ==
  /\ kept[n] \in Seq(RunIds)
  /\ Distinct(kept[n])
  /\ \A id : id \in Elems(kept[n]) <=> stored[id] # NoRun /\ \E i \in 1..n : ix[i] = id

LEMMA TurnFacts ==
  ASSUME NEW stored, NEW ix \in Seq(RunIds), NEW kept,
         Reads(kept, stored, ix)
  PROVE  \A n \in 0..Len(ix) : Kept(kept, stored, ix, n)
<1> DEFINE P(n) == Kept(kept, stored, ix, n)
<1>0. Len(ix) \in Nat
  OBVIOUS
<1>1. P(0)
  <2>1. kept[0] = <<>>
    BY TurnStep
  <2> QED
    BY <2>1 DEF Kept, Distinct, Elems
<1>2. ASSUME NEW n \in Nat, n < Len(ix), P(n) PROVE P(n + 1)
  <2>1. P(n)
    BY <1>2
  <2>2. /\ ix[n + 1] \in RunIds
        /\ kept[n + 1] = IF stored[ix[n + 1]] = NoRun \/ ix[n + 1] \in Elems(kept[n])
                         THEN kept[n] ELSE Append(kept[n], ix[n + 1])
    <3>1. n + 1 <= Len(ix)
      BY <1>0, <1>2
    <3> QED
      BY <3>1, TurnStep
  <2>3. \A id : (\E i \in 1..(n + 1) : ix[i] = id)
                 <=> (\E i \in 1..n : ix[i] = id) \/ id = ix[n + 1]
    <3>1. 1..(n + 1) = 1..n \cup {n + 1}
      OBVIOUS
    <3> QED
      BY <3>1
  <2>4. CASE stored[ix[n + 1]] = NoRun \/ ix[n + 1] \in Elems(kept[n])
    BY <2>1, <2>2, <2>3, <2>4 DEF Kept
  <2>5. CASE ~(stored[ix[n + 1]] = NoRun \/ ix[n + 1] \in Elems(kept[n]))
    <3>1. kept[n + 1] = Append(kept[n], ix[n + 1])
      BY <2>2, <2>5
    <3>2. kept[n + 1] \in Seq(RunIds) /\ Distinct(kept[n + 1])
          /\ Elems(kept[n + 1]) = Elems(kept[n]) \cup {ix[n + 1]}
      BY <2>1, <2>2, <2>5, <3>1, AppendFacts DEF Kept
    <3> QED
      BY <2>1, <2>3, <2>5, <3>2 DEF Kept
  <2> QED
    BY <2>4, <2>5
<1> QED
  <2> HIDE DEF P
  <2> DEFINE G == {n \in Nat : P(n)}
  <2>1. 0 \in G /\ \A n \in Nat : n < Len(ix) /\ n \in G => n + 1 \in G
    BY <1>1, <1>2
  <2>2. 0..Len(ix) \subseteq G
    <3> HIDE DEF G
    <3> QED
      BY <1>0, <2>1, UpTo
  <2>3. \A n \in 0..Len(ix) : P(n)
    BY <2>2
  <2> QED
    BY <2>3 DEF P

LEMMA ReadableFacts ==
  ASSUME NEW stored, NEW ix \in Seq(RunIds)
  PROVE  /\ Readable(stored, ix) \in Seq(RunIds)
         /\ Distinct(Readable(stored, ix))
         /\ Elems(Readable(stored, ix)) = {id \in Elems(ix) : stored[id] # NoRun}
<1>1. PICK kept : Reads(kept, stored, ix) /\ Readable(stored, ix) = kept[Len(ix)]
  BY ReadableTurns
<1>2. Len(ix) \in 0..Len(ix)
  OBVIOUS
<1>3. Kept(kept, stored, ix, Len(ix))
  BY <1>1, <1>2, TurnFacts
<1>4. \A id : id \in Elems(ix) <=> \E i \in 1..Len(ix) : ix[i] = id
  BY DEF Elems
<1> QED
  BY <1>1, <1>3, <1>4 DEF Kept

LEMMA ReadableFrame ==
  ASSUME NEW s, NEW t, NEW ix \in Seq(RunIds),
         \A id \in Elems(ix) : s[id] = NoRun <=> t[id] = NoRun
  PROVE  Readable(s, ix) = Readable(t, ix)
<1>1. PICK k : Reads(k, s, ix) /\ Readable(s, ix) = k[Len(ix)]
  BY ReadableTurns
<1>2. PICK m : Reads(m, t, ix) /\ Readable(t, ix) = m[Len(ix)]
  BY ReadableTurns
<1>0. Len(ix) \in Nat
  OBVIOUS
<1> DEFINE P(n) == k[n] = m[n]
<1>3. P(0)
  <2>1. k[0] = <<>>
    BY <1>1, TurnStep
  <2>2. m[0] = <<>>
    BY <1>2, TurnStep
  <2> QED
    BY <2>1, <2>2
<1>4. ASSUME NEW n \in Nat, n < Len(ix), P(n) PROVE P(n + 1)
  <2>0. n + 1 <= Len(ix) /\ n + 1 \in 1..Len(ix)
    BY <1>0, <1>4
  <2>2. s[ix[n + 1]] = NoRun <=> t[ix[n + 1]] = NoRun
    BY <2>0 DEF Elems
  <2>3. k[n + 1] = IF s[ix[n + 1]] = NoRun \/ ix[n + 1] \in Elems(k[n])
                   THEN k[n] ELSE Append(k[n], ix[n + 1])
    BY <2>0, <1>1, TurnStep
  <2>4. m[n + 1] = IF t[ix[n + 1]] = NoRun \/ ix[n + 1] \in Elems(m[n])
                   THEN m[n] ELSE Append(m[n], ix[n + 1])
    BY <2>0, <1>2, TurnStep
  <2> QED
    BY <1>4, <2>2, <2>3, <2>4
<1>5. P(Len(ix))
  <2> HIDE DEF P
  <2> DEFINE G == {n \in Nat : P(n)}
  <2>1. 0 \in G /\ \A n \in Nat : n < Len(ix) /\ n \in G => n + 1 \in G
    BY <1>3, <1>4
  <2>2. 0..Len(ix) \subseteq G
    <3> HIDE DEF G
    <3> QED
      BY <1>0, <2>1, UpTo
  <2> QED
    BY <1>0, <2>2
<1> QED
  BY <1>1, <1>2, <1>5

LEMMA ReadableAll ==
  ASSUME NEW s, NEW ix \in Seq(RunIds), Distinct(ix),
         \A id \in Elems(ix) : s[id] # NoRun
  PROVE  Readable(s, ix) = ix
<1>1. PICK k : Reads(k, s, ix) /\ Readable(s, ix) = k[Len(ix)]
  BY ReadableTurns
<1>0. Len(ix) \in Nat
  OBVIOUS
<1> DEFINE P(n) == /\ k[n] \in Seq(RunIds) /\ Len(k[n]) = n
                   /\ \A i \in 1..n : k[n][i] = ix[i]
<1>3. P(0)
  <2>1. k[0] = <<>>
    BY <1>1, TurnStep
  <2> QED
    BY <2>1
<1>4. ASSUME NEW n \in Nat, n < Len(ix), P(n) PROVE P(n + 1)
  <2>1. P(n)
    BY <1>4
  <2>2. n + 1 <= Len(ix) /\ n + 1 \in 1..Len(ix) /\ ix[n + 1] \in RunIds /\ s[ix[n + 1]] # NoRun
    <3>1. n + 1 \in 1..Len(ix)
      BY <1>0, <1>4
    <3> QED
      BY <3>1 DEF Elems
  <2>3. ix[n + 1] \notin Elems(k[n])
    BY <2>1, <2>2 DEF Elems, Distinct
  <2>4. k[n + 1] = Append(k[n], ix[n + 1])
    <3>1. k[n + 1] = IF s[ix[n + 1]] = NoRun \/ ix[n + 1] \in Elems(k[n])
                     THEN k[n] ELSE Append(k[n], ix[n + 1])
      BY <2>2, <1>1, TurnStep
    <3> QED
      BY <2>2, <2>3, <3>1
  <2> QED
    BY <2>1, <2>2, <2>4
<1>5. P(Len(ix))
  <2> HIDE DEF P
  <2> DEFINE G == {n \in Nat : P(n)}
  <2>1. 0 \in G /\ \A n \in Nat : n < Len(ix) /\ n \in G => n + 1 \in G
    BY <1>3, <1>4
  <2>2. 0..Len(ix) \subseteq G
    <3> HIDE DEF G
    <3> QED
      BY <1>0, <2>1, UpTo
  <2> QED
    BY <1>0, <2>2
<1> QED
  BY <1>1, <1>5

\* The turns over an index that lists no run twice.
LEMMA DistinctTurns ==
  ASSUME NEW s, NEW ix \in Seq(RunIds), Distinct(ix), NEW k, Reads(k, s, ix),
         NEW n \in Nat, n < Len(ix)
  PROVE  /\ k[n] \in Seq(RunIds) /\ ix[n + 1] \in RunIds /\ ix[n + 1] \notin Elems(k[n])
         /\ k[n + 1] = IF s[ix[n + 1]] = NoRun THEN k[n] ELSE Append(k[n], ix[n + 1])
<1>1. n \in 0..Len(ix) /\ n + 1 <= Len(ix)
  OBVIOUS
<1>2. Kept(k, s, ix, n)
  BY <1>1, TurnFacts
<1>3. ix[n + 1] \notin {ix[i] : i \in 1..n}
  <2>1. Len(ix) \in Nat /\ n + 1 \in 1..Len(ix) /\ \A i \in 1..n : i \in 1..Len(ix) /\ i # n + 1
    OBVIOUS
  <2> QED
    BY <2>1 DEF Distinct
<1>4. /\ ix[n + 1] \in RunIds
      /\ k[n + 1] = IF s[ix[n + 1]] = NoRun \/ ix[n + 1] \in Elems(k[n])
                    THEN k[n] ELSE Append(k[n], ix[n + 1])
  BY <1>1, TurnStep
<1> QED
  BY <1>2, <1>3, <1>4 DEF Kept

LEMMA FirstStays ==
  ASSUME NEW s, NEW ix \in Seq(RunIds), Distinct(ix), NEW k, Reads(k, s, ix)
  PROVE  \A n \in 0..Len(ix) : k[n] # <<>> => Head(k[n]) = Head(k[Len(ix)])
<1>0. Len(ix) \in Nat
  OBVIOUS
<1> DEFINE P(n) == \A i \in 0..n : k[i] # <<>> => k[n] # <<>> /\ Head(k[i]) = Head(k[n])
<1>1. P(0)
  OBVIOUS
<1>2. ASSUME NEW n \in Nat, n < Len(ix), P(n) PROVE P(n + 1)
  <2>1. /\ k[n] \in Seq(RunIds) /\ ix[n + 1] \in RunIds
        /\ k[n + 1] = IF s[ix[n + 1]] = NoRun THEN k[n] ELSE Append(k[n], ix[n + 1])
    BY <1>2, DistinctTurns
  <2>3. k[n] # <<>> => k[n + 1] # <<>> /\ Head(k[n]) = Head(k[n + 1])
    BY <2>1
  <2> SUFFICES ASSUME NEW i \in 0..(n + 1), k[i] # <<>>
               PROVE  k[n + 1] # <<>> /\ Head(k[i]) = Head(k[n + 1])
    OBVIOUS
  <2>4. i = n + 1 \/ i \in 0..n
    OBVIOUS
  <2> QED
    BY <1>2, <2>3, <2>4
<1>3. P(Len(ix))
  <2> HIDE DEF P
  <2> DEFINE G == {n \in Nat : P(n)}
  <2>1. 0 \in G /\ \A n \in Nat : n < Len(ix) /\ n \in G => n + 1 \in G
    BY <1>1, <1>2
  <2>2. 0..Len(ix) \subseteq G
    <3> HIDE DEF G
    <3> QED
      BY <1>0, <2>1, UpTo
  <2> QED
    BY <1>0, <2>2
<1> QED
  BY <1>3

LEMMA ReadableTail ==
  ASSUME NEW s \in [RunIds -> Times \cup {NoRun}], NEW ix \in Seq(RunIds), Distinct(ix),
         Readable(s, ix) # <<>>
  PROVE  Readable([s EXCEPT ![Head(Readable(s, ix))] = NoRun], ix) = Tail(Readable(s, ix))
<1> DEFINE h == Head(Readable(s, ix))
           t == [s EXCEPT ![h] = NoRun]
<1>1. PICK k : Reads(k, s, ix) /\ Readable(s, ix) = k[Len(ix)]
  BY ReadableTurns
<1>2. PICK m : Reads(m, t, ix) /\ Readable(t, ix) = m[Len(ix)]
  BY ReadableTurns
<1>3. h \in RunIds /\ \A id \in RunIds : t[id] = IF id = h THEN NoRun ELSE s[id]
  <2>1. Readable(s, ix) \in Seq(RunIds)
    BY ReadableFacts
  <2> QED
    BY <2>1, TailFacts
<1>4. \A n \in 0..Len(ix) : k[n] # <<>> => Head(k[n]) = h
  BY <1>1, FirstStays
<1>0. Len(ix) \in Nat
  OBVIOUS
<1> HIDE DEF h, t
<1> DEFINE P(n) == IF k[n] = <<>> THEN m[n] = <<>> ELSE m[n] = Tail(k[n])
<1>5. P(0)
  <2>1. k[0] = <<>>
    BY <1>1, TurnStep
  <2>2. m[0] = <<>>
    BY <1>2, TurnStep
  <2> QED
    BY <2>1, <2>2
<1>6. ASSUME NEW n \in Nat, n < Len(ix), P(n) PROVE P(n + 1)
  <2> DEFINE x == ix[n + 1]
  <2>0. n \in 0..Len(ix) /\ n + 1 \in 0..Len(ix)
    BY <1>0, <1>6
  <2>1. /\ k[n] \in Seq(RunIds) /\ x \in RunIds /\ x \notin Elems(k[n])
        /\ k[n + 1] = IF s[x] = NoRun THEN k[n] ELSE Append(k[n], x)
    BY <1>1, <1>6, DistinctTurns
  <2>2. m[n + 1] = IF t[x] = NoRun THEN m[n] ELSE Append(m[n], x)
    BY <1>2, <1>6, DistinctTurns
  <2>3. t[x] = IF x = h THEN NoRun ELSE s[x]
    BY <1>3, <2>1
  <2>4. k[n] # <<>> => x # h
    BY <1>4, <2>0, <2>1, TailFacts
  <2>5. k[n + 1] # <<>> => Head(k[n + 1]) = h
    BY <1>4, <2>0
  <2>6. P(n)
    BY <1>6
  <2> HIDE DEF x
  <2>7. CASE s[x] = NoRun
    BY <2>1, <2>2, <2>3, <2>6, <2>7 DEF x
  <2>8. CASE s[x] # NoRun /\ k[n] = <<>>
    <3>1. k[n + 1] = <<x>> /\ x = h
      BY <2>1, <2>5, <2>8
    <3> QED
      BY <2>2, <2>3, <2>6, <2>8, <3>1
  <2>9. CASE s[x] # NoRun /\ k[n] # <<>>
    <3>1. k[n + 1] = Append(k[n], x) /\ m[n + 1] = Append(Tail(k[n]), x)
      BY <2>1, <2>2, <2>3, <2>4, <2>6, <2>9
    <3>2. k[n] \in Seq(RunIds) /\ k[n] # <<>> /\ x \in RunIds
      BY <2>1, <2>9 DEF x
    <3>3. Append(Tail(k[n]), x) = Tail(Append(k[n], x)) /\ Append(k[n], x) # <<>>
      BY <3>2
    <3> QED
      BY <3>1, <3>3
  <2> QED
    BY <2>7, <2>8, <2>9
<1>7. P(Len(ix))
  <2> HIDE DEF P
  <2> DEFINE G == {n \in Nat : P(n)}
  <2>1. 0 \in G /\ \A n \in Nat : n < Len(ix) /\ n \in G => n + 1 \in G
    BY <1>5, <1>6
  <2>2. 0..Len(ix) \subseteq G
    <3> HIDE DEF G
    <3> QED
      BY <1>0, <2>1, UpTo
  <2> QED
    BY <1>0, <2>2
<1> QED
  BY <1>1, <1>2, <1>7 DEF t, h
-----------------------------------------------------------------------------
(* What holds whatever fails *)

\* The order lists the keys of the map, each once, within the limit once Save
\* has evicted; all that is stored was saved; "latest" is the newest run.
Listing ==
  /\ Distinct(order)
  /\ \A id \in RunIds : runs[id] # NoRun <=> id \in Elems(order)
  /\ phase \in {"run", "index"} => Len(order) <= limit

Traced ==
  /\ \A id \in RunIds : files[id] # NoRun => id \in Elems(saved)
  /\ Elems(order) \subseteq Elems(saved)
  /\ saving # NoRun => saving.id \in Elems(saved)
  /\ order # <<>> => latest = Last(order) \/ SavedTwice(latest)

-----------------------------------------------------------------------------
(* What holds as long as nothing fails *)

\* A run comes to Save once.
SavedOnce ==
  /\ Distinct(saved)
  /\ \A id \in RunIds : pending[id] # NoRun => id \in drawn
  /\ \A id \in Elems(saved) : id \in drawn /\ pending[id] = NoRun

\* What a restart would recover is in the order of the saves and acknowledged;
\* before there is an index there is nothing to recover.
Durable ==
  /\ \A i, j \in 1..Len(Recovered) : \A a, b \in 1..Len(saved) :
       i < j /\ saved[a] = Recovered[i] /\ saved[b] = Recovered[j] => a < b
  /\ Elems(Recovered) \subseteq acked
  /\ acked \subseteq Elems(saved)
  /\ index = NoIndex => files = Empty /\ acked = {} /\ saving = NoRun /\ saved = <<>>
  /\ index # NoIndex => Distinct(index) /\ Elems(index) \subseteq acked

\* The store in memory is what a restart would recover and the run in hand.
Mirror ==
  /\ phase = "idle" => index # NoIndex
  /\ phase = "evict" /\ saving = NoRun => index = NoIndex
  /\ phase # "down" =>
       /\ order = IF saving = NoRun THEN Recovered ELSE Append(Recovered, saving.id)
       /\ \A id \in Elems(Recovered) : files[id] = runs[id]
  /\ saving # NoRun =>
       /\ saving.id \notin acked
       /\ saving.id = Last(saved)
       /\ runs[saving.id] = saving.at
       /\ files[saving.id] = IF phase = "index" THEN saving.at ELSE NoRun

\* The file that WriteRun leaves for WriteIndex to list.
Unlisted == IF phase = "index" /\ saving # NoRun THEN 1 ELSE 0
FewOrphans == IsFiniteSet(Orphans) /\ Cardinality(Orphans) <= crashes + Unlisted

Clean == faults = 0 => SavedOnce /\ Durable /\ Mirror /\ FewOrphans /\ AckedRunsSurvive

IInv == TypeOK /\ Listing /\ Traced /\ Clean

-----------------------------------------------------------------------------
(* The part of the invariant that holds whatever fails *)

LEMMA Consts ==
  /\ RunIds \subseteq Nat /\ Limits \subseteq Nat \ {0}
  /\ MaxClock \in Nat \ {0} /\ MaxCrashes \in Nat /\ MaxFaults \in Nat /\ MaxSaves \in Nat
  /\ NoRun \notin Nat /\ NoRun \notin RunIds /\ NoRun \notin Times
  /\ NoRun \notin [id : RunIds, at : Times] /\ NoIndex \notin Seq(RunIds)
  /\ Times \subseteq Nat
<1>1. RunIds \subseteq Nat /\ Limits \subseteq Nat \ {0}
  BY StoreAssumption
<1>2. MaxClock \in Nat \ {0} /\ MaxCrashes \in Nat /\ MaxFaults \in Nat /\ MaxSaves \in Nat
  BY StoreAssumption
<1>3. Times \subseteq Nat
  BY <1>2 DEF Times
<1>4. NoRun \notin Nat
  BY StoreAssumption
<1>5. NoRun \notin RunIds
  BY <1>1, <1>4
<1>6. NoRun \notin Times
  BY <1>3, <1>4
<1>7. NoRun \notin [id : RunIds, at : Times]
  BY StoreAssumption, Zenon DEF Times
<1>8. NoIndex \notin Seq(RunIds)
  BY StoreAssumption
<1> QED
  BY <1>1, <1>2, <1>3, <1>4, <1>5, <1>6, <1>7, <1>8

LEMMA InitFirst == Init => TypeOK /\ Listing /\ Traced
<1> SUFFICES ASSUME Init PROVE TypeOK /\ Listing /\ Traced
  OBVIOUS
<1>1. NoRun \notin RunIds /\ \A id \in RunIds : Empty[id] = NoRun
  BY Consts DEF Empty
<1>2. Elems(<<>>) = {}
  BY DEF Elems
<1>3. TypeOK
  BY Consts DEF Init, TypeOK, Phases, Times, Empty
<1>4. Listing
  BY <1>1, <1>2 DEF Init, Listing, Distinct
<1>5. Traced
  BY <1>1, <1>2 DEF Init, Traced
<1> QED
  BY <1>3, <1>4, <1>5

LEMMA SavedTwiceStays ==
  ASSUME NEW id, saved \in Seq(RunIds), NEW x \in RunIds, saved' = Append(saved, x), SavedTwice(id)
  PROVE  SavedTwice(id)'
<1>1. /\ Len(saved') = Len(saved) + 1
      /\ \A i \in 1..Len(saved) : saved'[i] = saved[i]
  OBVIOUS
<1>2. PICK i, j \in 1..Len(saved) : i < j /\ saved[i] = id /\ saved[j] = id
  BY DEF SavedTwice
<1>3. i \in 1..Len(saved') /\ j \in 1..Len(saved')
  BY <1>1
<1> QED
  BY <1>1, <1>2, <1>3 DEF SavedTwice

LEMMA SaveRunFirst ==
  ASSUME TypeOK, Listing, Traced, NEW id \in RunIds, SaveRun(id)
  PROVE  TypeOK' /\ Listing' /\ Traced'
<1> USE DEF SaveRun
<1>0. NoRun \notin RunIds /\ pending[id] \in Times /\ NoRun \notin Times /\ id # NoRun
  BY Consts DEF TypeOK, Times
<1>s. order \in Seq(RunIds) /\ saved \in Seq(RunIds) /\ saved' \in Seq(RunIds)
      /\ Elems(saved') = Elems(saved) \cup {id} /\ Len(saved') = Len(saved) + 1
      /\ \A i \in 1..Len(saved) : saved'[i] = saved[i]
      /\ saved'[Len(saved) + 1] = id
  <2>1. saved \in Seq(RunIds) /\ order \in Seq(RunIds) /\ saved' = Append(saved, id)
    BY DEF TypeOK
  <2>2. Elems(saved') = Elems(saved) \cup {id}
    BY <2>1, AppendFacts
  <2> QED
    BY <2>1, <2>2
<1>r. runs \in [RunIds -> Times \cup {NoRun}] /\ runs' = [runs EXCEPT ![id] = pending[id]]
  BY DEF TypeOK
<1>1. CASE runs[id] = NoRun
  <2>1. order' = Append(order, id) /\ id \notin Elems(order)
    BY <1>1 DEF Listed, Listing
  <2>2. order' \in Seq(RunIds) /\ Elems(order') = Elems(order) \cup {id} /\ Distinct(order')
        /\ Last(order') = id
    BY <1>s, <2>1, AppendFacts DEF Listing, Last
  <2>3. TypeOK'
    BY <1>0, <1>s, <2>2, Consts DEF TypeOK, Phases, disk
  <2>4. Listing'
    BY <1>0, <1>r, <2>2 DEF Listing
  <2>5. Traced'
    BY <1>0, <1>s, <2>2 DEF Traced, disk
  <2> QED
    BY <2>3, <2>4, <2>5
<1>2. CASE runs[id] # NoRun
  <2>1. order' = order /\ id \in Elems(order)
    BY <1>2 DEF Listed, Listing
  <2>2. TypeOK'
    BY <1>0, <1>s, <2>1, Consts DEF TypeOK, Phases, disk
  <2>3. Listing'
    BY <1>0, <1>r, <2>1 DEF Listing
  <2>4. SavedTwice(id)'
    <3>1. id \in Elems(saved)
      BY <2>1 DEF Traced
    <3>2. PICK i \in 1..Len(saved) : saved[i] = id
      BY <3>1 DEF Elems
    <3>3. i \in 1..Len(saved') /\ Len(saved) + 1 \in 1..Len(saved') /\ i < Len(saved) + 1
      BY <1>s
    <3> QED
      BY <1>s, <3>2, <3>3 DEF SavedTwice
  <2>5. Traced'
    BY <1>0, <1>s, <2>1, <2>4 DEF Traced, disk
  <2> QED
    BY <2>2, <2>3, <2>5
<1> QED
  BY <1>1, <1>2

LEMMA EvictFirst ==
  ASSUME TypeOK, Listing, Traced, Evict
  PROVE  TypeOK' /\ Listing' /\ Traced'
<1> USE DEF Evict
<1>1. order \in Seq(RunIds) /\ order # <<>> /\ limit \in Nat \ {0} /\ Len(order) > limit
      /\ NoRun \notin RunIds
  BY Consts DEF TypeOK, OverLimit
<1>2. /\ order' = Tail(order) /\ order' \in Seq(RunIds) /\ Head(order) \in RunIds
      /\ Elems(order) = Elems(order') \cup {Head(order)}
      /\ Distinct(order') /\ Head(order) \notin Elems(order')
      /\ Len(order') = Len(order) - 1
      /\ \A i \in 1..Len(order') : order'[i] = order[i + 1]
  BY <1>1, TailFacts DEF Listing
<1>3. Last(order') = Last(order) /\ order' # <<>>
  <2>1. Len(order') \in 1..Len(order') /\ Len(order') + 1 = Len(order)
    BY <1>1, <1>2
  <2>2. order'[Len(order')] = order[Len(order)]
    BY <1>2, <2>1
  <2>3. order' # <<>>
    <3>1. Len(order') # 0 /\ Len(<<>>) = 0
      BY <1>1, <1>2
    <3> QED
      BY <3>1
  <2> QED
    BY <2>2, <2>3 DEF Last
<1>4. files' \in [RunIds -> Times \cup {NoRun}]
      /\ \A id \in RunIds : files'[id] # NoRun => files[id] # NoRun
  BY <1>2 DEF TypeOK, Removed
<1>5. TypeOK'
  <2>1. faults' \in 0..MaxFaults
    BY Consts DEF TypeOK, Fault, NoFault
  <2>2. runs' \in [RunIds -> Times \cup {NoRun}]
    BY DEF TypeOK
  <2> QED
    BY <1>2, <1>4, <2>1, <2>2 DEF TypeOK
<1>6. Listing'
  BY <1>2 DEF Listing, TypeOK
<1>7. Traced'
  BY <1>1, <1>2, <1>3, <1>4 DEF Traced, SavedTwice
<1> QED
  BY <1>5, <1>6, <1>7

LEMMA LoadedFirst ==
  ASSUME TypeOK, Traced, NEW ids \in Seq(RunIds), Distinct(ids), Loaded(ids),
         \A id \in Elems(ids) : id \in RunIds /\ files[id] # NoRun,
         UNCHANGED <<files, saved, saving>>, phase' \in {"idle", "evict"}, phase = "down"
  PROVE  /\ order' \in Seq(RunIds) /\ runs' \in [RunIds -> Times \cup {NoRun}]
         /\ latest' \in RunIds \cup {NoRun} /\ Listing' /\ Traced'
<1>1. Elems(ids) \subseteq Elems(saved)
  BY DEF Traced
<1>2. ids # <<>> => Last(ids) \in Elems(ids)
  BY DEF Last, Elems
<1>3. saving' = NoRun
  BY DEF TypeOK
<1>4. runs' = [id \in RunIds |-> IF id \in Elems(ids) THEN files[id] ELSE NoRun]
      /\ order' = ids /\ latest' = IF ids = <<>> THEN NoRun ELSE Last(ids)
  BY DEF Loaded
<1>5. runs' \in [RunIds -> Times \cup {NoRun}] /\ latest' \in RunIds \cup {NoRun}
  BY <1>2, <1>4 DEF TypeOK
<1>6. Listing'
  BY <1>4 DEF Listing
<1>7. Traced'
  BY <1>1, <1>3, <1>4 DEF Traced
<1> QED
  BY <1>4, <1>5, <1>6, <1>7

LEMMA RebuiltFacts ==
  ASSUME TypeOK, NEW ids \in BoundedSeq(Stored, Cardinality(Stored)), Rebuilt(ids)
  PROVE  /\ ids \in Seq(RunIds) /\ Distinct(ids)
         /\ \A id \in Elems(ids) : id \in RunIds /\ files[id] # NoRun
<1>1. PICK m \in 0..Cardinality(Stored) : ids \in [1..m -> Stored]
  BY DEF BoundedSeq, SeqOf
<1>2. ids \in Seq(RunIds)
  BY <1>1 DEF Stored
<1>3. \A id \in Elems(ids) : id \in RunIds /\ files[id] # NoRun
  BY DEF Rebuilt, Stored
<1>4. \A i \in 1..Len(ids) : ids[i] \in Nat /\ files[ids[i]] \in Nat
  <2>1. \A i \in 1..Len(ids) : ids[i] \in Elems(ids)
    BY DEF Elems
  <2> QED
    BY <1>3, <2>1, Consts DEF TypeOK
<1>5. \A i, j \in 1..Len(ids) : i < j => ids[i] # ids[j]
  BY <1>4 DEF Rebuilt, Older
<1>6. Distinct(ids)
  BY <1>5 DEF Distinct
<1> QED
  BY <1>2, <1>3, <1>6

LEMMA StartFirst ==
  ASSUME TypeOK, Listing, Traced, Start
  PROVE  TypeOK' /\ Listing' /\ Traced'
<1> USE DEF Start
<1>0. UNCHANGED <<files, index, saved, saving, clock, pending, drawn, crashes, acked>>
      /\ limit' \in Limits /\ phase = "down" /\ faults' \in 0..MaxFaults
  BY Consts DEF disk, TypeOK, Fault, NoFault
<1>1. PICK ids \in Seq(RunIds) :
        /\ Distinct(ids) /\ Loaded(ids) /\ phase' \in {"idle", "evict"}
        /\ \A id \in Elems(ids) : id \in RunIds /\ files[id] # NoRun
  <2>1. CASE index # NoIndex /\ Loaded(Recovered) /\ phase' = "idle"
    <3>1. index \in Seq(RunIds)
      BY <2>1 DEF TypeOK
    <3>2. Recovered \in Seq(RunIds) /\ Distinct(Recovered)
          /\ Elems(Recovered) = {id \in Elems(index) : files[id] # NoRun}
      BY <2>1, <3>1, ReadableFacts DEF Recovered
    <3>3. Elems(index) \subseteq RunIds
      BY <3>1 DEF Elems
    <3> QED
      BY <2>1, <3>2, <3>3
  <2>2. CASE /\ \E ids \in BoundedSeq(Stored, Cardinality(Stored)) : Rebuilt(ids) /\ Loaded(ids)
             /\ phase' = "evict"
    BY <2>2, RebuiltFacts
  <2>3. CASE Loaded(<<>>) /\ phase' = "idle"
    <3>1. <<>> \in Seq(RunIds) /\ Distinct(<<>>) /\ Elems(<<>>) = {}
      BY DEF Distinct, Elems
    <3> QED
      BY <2>3, <3>1
  <2> QED
    BY <2>1, <2>2, <2>3
<1>2. order' \in Seq(RunIds) /\ runs' \in [RunIds -> Times \cup {NoRun}]
      /\ latest' \in RunIds \cup {NoRun} /\ Listing' /\ Traced'
  BY <1>0, <1>1, LoadedFirst
<1>3. saving' = NoRun
  BY <1>0 DEF TypeOK
<1>4. TypeOK'
  BY <1>0, <1>1, <1>2, <1>3 DEF TypeOK, Phases
<1> QED
  BY <1>2, <1>4

LEMMA NextFirst == TypeOK /\ Listing /\ Traced /\ [Next]_vars => TypeOK' /\ Listing' /\ Traced'
<1> SUFFICES ASSUME TypeOK, Listing, Traced, [Next]_vars
             PROVE  TypeOK' /\ Listing' /\ Traced'
  OBVIOUS
<1>0. NoRun \notin RunIds /\ NoRun \notin Times
  BY Consts DEF Times
<1>1. ASSUME NEW id \in RunIds, Stamp(id) PROVE TypeOK' /\ Listing' /\ Traced'
  <2> USE <1>1 DEF Stamp
  <2>1. clock' \in Times /\ pending' \in [RunIds -> Times \cup {NoRun}]
    <3>1. PICK now \in clock..MaxClock : clock' = now /\ pending' = [pending EXCEPT ![id] = now]
      OBVIOUS
    <3>2. now \in Times
      BY Consts DEF TypeOK, Times
    <3> QED
      BY <3>1, <3>2 DEF TypeOK
  <2>2. faults' \in 0..MaxFaults
    BY Consts DEF TypeOK, Fault, NoFault
  <2>3. TypeOK'
    BY <2>1, <2>2 DEF TypeOK, memory, disk
  <2>4. Listing' /\ Traced'
    BY DEF Listing, Traced, memory, disk, SavedTwice
  <2> QED
    BY <2>3, <2>4
<1>2. ASSUME NEW id \in RunIds, SaveRun(id) PROVE TypeOK' /\ Listing' /\ Traced'
  BY <1>2, SaveRunFirst
<1>3. CASE Evict
  BY <1>3, EvictFirst
<1>4. CASE Evicted
  <2> USE <1>4 DEF Evicted
  <2>1. TypeOK'
    BY DEF TypeOK, Phases, memory, disk, AfterEviction
  <2>2. Listing' /\ Traced'
    <3>1. Len(order) <= limit
      BY Consts DEF OverLimit, TypeOK
    <3> QED
      BY <3>1 DEF Listing, Traced, memory, disk, SavedTwice
  <2> QED
    BY <2>1, <2>2
<1>5. CASE WriteRun
  <2> USE <1>5 DEF WriteRun
  <2>1. saving # NoRun /\ saving.id \in RunIds /\ saving.at \in Times
    BY DEF TypeOK
  <2>2. files' \in [RunIds -> Times \cup {NoRun}]
        /\ \A id \in RunIds : files'[id] # NoRun => files[id] # NoRun \/ id = saving.id
    BY <2>1 DEF TypeOK
  <2>3. faults' \in 0..MaxFaults
    BY Consts DEF TypeOK, Fault, NoFault
  <2>4. TypeOK'
    BY <2>1, <2>2, <2>3 DEF TypeOK, memory, Phases
  <2>5. Listing'
    BY DEF Listing, memory
  <2>6. Traced'
    BY <2>1, <2>2 DEF Traced, memory, SavedTwice
  <2> QED
    BY <2>4, <2>5, <2>6
<1>6. CASE WriteIndex
  <2> USE <1>6 DEF WriteIndex
  <2>1. index' \in Seq(RunIds) \cup {NoIndex} /\ faults' \in 0..MaxFaults
    BY Consts DEF TypeOK, Fault, NoFault, IndexContent
  <2>2. acked' \in SUBSET RunIds
    BY DEF TypeOK
  <2>3. TypeOK'
    BY <2>1, <2>2 DEF TypeOK, Phases
  <2>4. Listing' /\ Traced'
    BY DEF Listing, Traced, SavedTwice
  <2> QED
    BY <2>3, <2>4
<1>7. CASE Crash
  <2> USE <1>7 DEF Crash
  <2>1. Elems(<<>>) = {} /\ Distinct(<<>>) /\ \A id \in RunIds : Empty[id] = NoRun
    BY DEF Elems, Distinct, Empty
  <2>2. TypeOK'
    BY Consts DEF TypeOK, disk, Phases, Empty
  <2>3. Listing'
    BY <2>1 DEF Listing
  <2>4. Traced'
    BY <2>1 DEF Traced, disk
  <2> QED
    BY <2>2, <2>3, <2>4
<1>8. CASE Start
  BY <1>8, StartFirst
<1>9. CASE Damage
  <2> USE <1>9 DEF Damage
  <2>1. files' \in [RunIds -> Times \cup {NoRun}] /\ index' \in Seq(RunIds) \cup {NoIndex}
        /\ \A id \in RunIds : files'[id] # NoRun => files[id] # NoRun
    BY DEF TypeOK
  <2>2. TypeOK'
    BY <2>1, Consts DEF TypeOK, Fault, memory
  <2>3. Listing' /\ Traced'
    BY <2>1 DEF Listing, Traced, memory, SavedTwice
  <2> QED
    BY <2>2, <2>3
<1>10. CASE UNCHANGED vars
  BY <1>10 DEF vars, memory, disk, TypeOK, Listing, Traced, SavedTwice
<1> QED
  BY <1>1, <1>2, <1>3, <1>4, <1>5, <1>6, <1>7, <1>8, <1>9, <1>10 DEF Next, LockHolder

-----------------------------------------------------------------------------
(* What the eviction costs *)

LaterThan(s, id) == {i \in 1..Len(s) : \A k \in 1..Len(s) : s[k] = id => i > k}

LEMMA LaterThanIs ==
  ASSUME NEW s \in Seq(RunIds), Distinct(s), NEW p \in 1..Len(s)
  PROVE  Cardinality(LaterThan(s, s[p])) = Len(s) - p
<1>0. Len(s) \in Nat
  OBVIOUS
<1>1. LaterThan(s, s[p]) = (p + 1)..Len(s)
  BY <1>0 DEF LaterThan, Distinct
<1>2. Cardinality((p + 1)..Len(s)) = IF p + 1 > Len(s) THEN 0 ELSE Len(s) - (p + 1) + 1
  <2>1. p + 1 \in Int /\ Len(s) \in Int
    BY <1>0
  <2> QED
    BY <2>1, FS_Interval
<1> QED
  BY <1>0, <1>1, <1>2

LEMMA SmallestLimitFacts ==
  ASSUME Limits # {}
  PROVE  SmallestLimit \in Limits /\ \A m \in Limits : SmallestLimit <= m
<1>1. Limits \subseteq Nat
  BY Consts
<1>2. PICK l \in Limits : \A k \in Limits : ~(<<k, l>> \in OpToRel(<, Nat))
  BY <1>1, NatLessThanWellFounded, WFMin, Zenon
<1>3. \A m \in Limits : l <= m
  <2> SUFFICES ASSUME NEW m \in Limits, ~(l <= m) PROVE FALSE
    OBVIOUS
  <2>1. m \in Nat /\ l \in Nat /\ m < l
    BY <1>1
  <2>2. <<m, l>> \in OpToRel(<, Nat)
    BY <2>1 DEF OpToRel
  <2> QED
    BY <1>2, <2>2
<1>4. \E k \in Limits : \A m \in Limits : k <= m
  BY <1>3
<1> QED
  BY <1>4 DEF SmallestLimit

\* A list whose runs were all saved after the first of them is no longer than
\* the saves since.
LEMMA EnoughLater ==
  ASSUME NEW s \in Seq(RunIds), Distinct(s), NEW p \in 1..Len(s),
         NEW o \in Seq(RunIds), Distinct(o), Len(o) >= 1, o[1] = s[p],
         \A j \in 2..Len(o) : \E b \in (p + 1)..Len(s) : s[b] = o[j]
  PROVE  Len(s) - p >= Len(o) - 1
<1> DEFINE S == 2..Len(o)
           T == (p + 1)..Len(s)
           f == [j \in S |-> CHOOSE b \in T : s[b] = o[j]]
<1>0. Len(s) \in Nat /\ Len(o) \in Nat
  OBVIOUS
<1>1. \A j \in S : f[j] \in T /\ s[f[j]] = o[j]
  <2> SUFFICES ASSUME NEW j \in S PROVE f[j] \in T /\ s[f[j]] = o[j]
    OBVIOUS
  <2>1. \E b \in T : s[b] = o[j]
    OBVIOUS
  <2>2. f[j] = CHOOSE b \in T : s[b] = o[j]
    OBVIOUS
  <2> HIDE DEF T, f
  <2> QED
    BY <2>1, <2>2
<1>2. f \in Injection(S, T)
  <2>1. f \in [S -> T]
    BY <1>1
  <2>2. \A i, j \in S : f[i] = f[j] => i = j
    <3> HIDE DEF f, T
    <3>1. \A i, j \in S : o[i] = o[j] => i = j
      BY <1>0 DEF Distinct
    <3> QED
      BY <1>1, <3>1
  <2> HIDE DEF f, S, T
  <2> QED
    BY <2>1, <2>2 DEF Injection, IsInjective
<1>3. IsFiniteSet(T) /\ Cardinality(T) = (IF p + 1 > Len(s) THEN 0 ELSE Len(s) - (p + 1) + 1)
      /\ Cardinality(S) = (IF 2 > Len(o) THEN 0 ELSE Len(o) - 2 + 1)
  <2>1. p + 1 \in Int /\ Len(s) \in Int /\ 2 \in Int /\ Len(o) \in Int
    BY <1>0
  <2>2. Cardinality(S) = (IF 2 > Len(o) THEN 0 ELSE Len(o) - 2 + 1)
    BY <2>1, FS_Interval
  <2> QED
    BY <2>1, <2>2, FS_Interval
<1>4. Cardinality(S) <= Cardinality(T)
  <2> HIDE DEF f, S, T
  <2> QED
    BY <1>2, <1>3, FS_Injection
<1> QED
  BY <1>0, <1>3, <1>4

-----------------------------------------------------------------------------
(* The part of the invariant that holds as long as nothing fails *)

CleanFacts == SavedOnce /\ Durable /\ Mirror /\ FewOrphans /\ AckedRunsSurvive

LEMMA InitClean == Init => Clean
<1> SUFFICES ASSUME Init PROVE CleanFacts
  BY DEF Clean, CleanFacts
<1> USE DEF Init
<1>1. Elems(<<>>) = {} /\ Recovered = <<>> /\ Distinct(<<>>)
  BY DEF Elems, Recovered, Distinct
<1>2. SavedOnce
  BY <1>1 DEF SavedOnce, Empty
<1>3. Durable
  BY <1>1 DEF Durable
<1>4. Mirror
  BY DEF Mirror
<1>5. Orphans = {}
  BY DEF Orphans, Empty
<1>6. FewOrphans
  BY <1>5, FS_EmptySet DEF FewOrphans, Unlisted
<1>7. AckedRunsSurvive
  BY DEF AckedRunsSurvive
<1> QED
  BY <1>2, <1>3, <1>4, <1>6, <1>7 DEF CleanFacts

LEMMA RecoveredFacts ==
  ASSUME TypeOK
  PROVE  /\ Recovered \in Seq(RunIds) /\ Distinct(Recovered)
         /\ \A id \in Elems(Recovered) : id \in RunIds /\ files[id] # NoRun
<1>1. CASE index = NoIndex
  <2>1. Recovered = <<>> /\ Elems(<<>>) = {} /\ <<>> \in Seq(RunIds) /\ Distinct(<<>>)
    BY <1>1 DEF Recovered, Elems, Distinct
  <2> QED
    BY <2>1
<1>2. CASE index # NoIndex
  <2>1. index \in Seq(RunIds) /\ Recovered = Readable(files, index)
    BY <1>2 DEF TypeOK, Recovered
  <2>2. /\ Recovered \in Seq(RunIds) /\ Distinct(Recovered)
        /\ Elems(Recovered) = {id \in Elems(index) : files[id] # NoRun}
    BY <2>1, ReadableFacts
  <2>3. Elems(index) \subseteq RunIds
    BY <2>1 DEF Elems
  <2> QED
    BY <2>2, <2>3
<1> QED
  BY <1>1, <1>2

\* A step that leaves the disk and the history alone leaves what they say alone.
LEMMA SameDisk ==
  ASSUME UNCHANGED <<files, index, saved, acked>>
  PROVE  /\ Recovered' = Recovered /\ Orphans' = Orphans
         /\ AckedRunsSurvive /\ faults = 0 => (AckedRunsSurvive)'
         /\ Durable /\ saving' = NoRun => Durable'
<1>1. Recovered' = Recovered
  BY DEF Recovered
<1>2. Orphans' = Orphans
  BY <1>1 DEF Orphans
<1>3. AckedRunsSurvive /\ faults = 0 => AckedRunsSurvive'
  BY <1>1 DEF AckedRunsSurvive, SavedAfter
<1>4. Durable /\ saving' = NoRun => Durable'
  BY <1>1 DEF Durable
<1> QED
  BY <1>1, <1>2, <1>3, <1>4

LEMMA StampClean ==
  ASSUME TypeOK, CleanFacts, faults = 0, faults' = 0, NEW id \in RunIds, Stamp(id)
  PROVE  CleanFacts'
<1> USE DEF Stamp, CleanFacts, memory, disk
<1>1. id \notin drawn
  BY DEF Fault
<1>2. SavedOnce'
  <2>1. \A x \in Elems(saved) : x # id /\ pending'[x] = pending[x]
    <3>1. \A x \in Elems(saved) : x \in RunIds /\ x # id
      BY <1>1 DEF SavedOnce, TypeOK, Elems
    <3> QED
      BY <3>1 DEF TypeOK
  <2>2. \A x \in RunIds : pending'[x] # NoRun => x = id \/ pending[x] # NoRun
    BY DEF TypeOK
  <2> QED
    BY <2>1, <2>2 DEF SavedOnce
<1>3. Recovered' = Recovered /\ Orphans' = Orphans /\ AckedRunsSurvive'
  BY SameDisk
<1>4. Durable' /\ Mirror' /\ FewOrphans'
  BY <1>3 DEF Durable, Mirror, FewOrphans, Unlisted
<1> QED
  BY <1>2, <1>3, <1>4

LEMMA SaveRunClean ==
  ASSUME TypeOK, Listing, Traced, CleanFacts, faults = 0, faults' = 0,
         NEW id \in RunIds, SaveRun(id)
  PROVE  CleanFacts'
<1> USE DEF SaveRun, CleanFacts, disk
<1>0. /\ saved \in Seq(RunIds) /\ saved' = Append(saved, id) /\ Elems(saved') = Elems(saved) \cup {id}
      /\ Len(saved) \in Nat /\ Len(saved') = Len(saved) + 1
      /\ \A i \in 1..Len(saved) : saved'[i] = saved[i]
      /\ saved'[Len(saved) + 1] = id
  <2>1. saved \in Seq(RunIds) /\ saved' = Append(saved, id)
    BY DEF TypeOK
  <2>2. Elems(saved') = Elems(saved) \cup {id}
    BY <2>1, AppendFacts
  <2> QED
    BY <2>1, <2>2
<1>1. /\ id \notin Elems(saved) /\ id \in drawn /\ saving = NoRun /\ index # NoIndex
      /\ order = Recovered /\ Elems(Recovered) \subseteq Elems(saved) /\ files[id] = NoRun
      /\ id \notin acked /\ id \notin Elems(Recovered) /\ runs[id] = NoRun
  <2>1. id \notin Elems(saved) /\ id \in drawn /\ saving = NoRun /\ index # NoIndex
    BY DEF SavedOnce, TypeOK, Mirror
  <2>2. order = Recovered /\ Elems(Recovered) \subseteq Elems(saved) /\ id \notin acked
    BY <2>1 DEF Mirror, Durable
  <2>3. id \notin Elems(order) /\ runs[id] = NoRun /\ files[id] = NoRun
    BY <2>1, <2>2 DEF Listing, Traced
  <2> QED
    BY <2>1, <2>2, <2>3
<1>2. SavedOnce'
  <2>1. Distinct(saved')
    BY <1>0, <1>1, AppendFacts DEF SavedOnce
  <2>2. \A x \in RunIds : pending'[x] = IF x = id THEN NoRun ELSE pending[x]
    BY DEF TypeOK
  <2>3. Elems(saved) \subseteq RunIds
    BY <1>0 DEF Elems
  <2> QED
    BY <1>0, <1>1, <2>1, <2>2, <2>3 DEF SavedOnce
<1>3. Recovered' = Recovered /\ Orphans' = Orphans
  <2>1. Recovered' = Recovered
    BY DEF Recovered
  <2> QED
    BY <2>1 DEF Orphans
<1>4. Durable'
  <2>1. \A i \in 1..Len(Recovered) : Recovered[i] # id
    BY <1>1 DEF Elems
  <2>2. ASSUME NEW i \in 1..Len(Recovered'), NEW j \in 1..Len(Recovered'), i < j,
               NEW a \in 1..Len(saved'), NEW b \in 1..Len(saved'),
               saved'[a] = Recovered'[i], saved'[b] = Recovered'[j]
        PROVE  a < b
    <3>0. i \in 1..Len(Recovered) /\ j \in 1..Len(Recovered)
          /\ saved'[a] = Recovered[i] /\ saved'[b] = Recovered[j]
      BY <1>3, <2>2
    <3>1. a \in 1..Len(saved) /\ b \in 1..Len(saved)
      BY <1>0, <2>1, <3>0
    <3>2. saved[a] = Recovered[i] /\ saved[b] = Recovered[j]
      BY <1>0, <3>0, <3>1
    <3> QED
      BY <2>2, <3>0, <3>1, <3>2 DEF Durable
  <2>3. \A i, j \in 1..Len(Recovered') : \A a, b \in 1..Len(saved') :
          i < j /\ saved'[a] = Recovered'[i] /\ saved'[b] = Recovered'[j] => a < b
    BY <2>2
  <2>4. /\ Elems(Recovered)' \subseteq acked'
        /\ acked' \subseteq Elems(saved')
        /\ index' # NoIndex /\ Distinct(index') /\ Elems(index') \subseteq acked'
    BY <1>0, <1>1, <1>3 DEF Durable
  <2> QED
    BY <2>3, <2>4 DEF Durable
<1>5. Mirror'
  <2>1. saving'.id = id /\ saving'.at = pending[id] /\ saving' # NoRun
    BY Consts DEF TypeOK
  <2>2. order' = Append(Recovered, id) /\ runs'[id] = pending[id]
        /\ \A x \in Elems(Recovered) : runs'[x] = runs[x]
    <3>1. Elems(Recovered) \subseteq RunIds
      BY RecoveredFacts
    <3> QED
      BY <1>1, <3>1 DEF Listed, TypeOK
  <2>3. Last(saved') = id
    BY <1>0 DEF Last
  <2> QED
    BY <1>1, <1>3, <2>1, <2>2, <2>3 DEF Mirror
<1>6. FewOrphans'
  BY <1>1, <1>3 DEF FewOrphans, Unlisted
<1>7. AckedRunsSurvive'
  <2> SUFFICES ASSUME NEW x \in acked, x \notin Elems(Recovered)
               PROVE  SavedAfter(x)' >= SmallestLimit
    BY <1>3 DEF AckedRunsSurvive
  <2>1. SavedAfter(x) >= SmallestLimit
    BY DEF AckedRunsSurvive
  <2>2. PICK p \in 1..Len(saved) : saved[p] = x
    BY DEF Durable, Elems
  <2>3. SavedAfter(x) = Len(saved) - p
    BY <1>0, <2>2, LaterThanIs DEF SavedOnce, SavedAfter, LaterThan
  <2>4. saved' \in Seq(RunIds) /\ p \in 1..Len(saved') /\ saved'[p] = x
    BY <1>0, <2>2
  <2>5. SavedAfter(x)' = Len(saved') - p
    BY <1>2, <2>4, LaterThanIs DEF SavedOnce, SavedAfter, LaterThan
  <2>6. SmallestLimit \in Nat
    BY Consts, SmallestLimitFacts DEF TypeOK
  <2> QED
    BY <1>0, <2>1, <2>3, <2>5, <2>6
<1> QED
  BY <1>2, <1>4, <1>5, <1>6, <1>7

LEMMA EvictRecovers ==
  ASSUME TypeOK, Listing, Traced, CleanFacts, faults = 0, faults' = 0, Evict
  PROVE  /\ saving # NoRun /\ saving.id \in RunIds /\ order = Append(Recovered, saving.id)
         /\ Recovered # <<>> /\ Recovered' = Tail(Recovered)
         /\ Head(order) = Head(Recovered) /\ Head(order) \in Elems(Recovered)
         /\ Elems(Recovered') = Elems(Recovered) \ {Head(order)}
         /\ Head(order) \in acked /\ Head(order) # saving.id
<1> USE DEF Evict, CleanFacts
<1> DEFINE h == Head(order)
<1>0. /\ order \in Seq(RunIds) /\ Len(order) > limit /\ limit \in Limits /\ limit \in Nat \ {0}
      /\ files' = [files EXCEPT ![h] = NoRun] /\ Recovered \in Seq(RunIds) /\ Distinct(Recovered)
      /\ files \in [RunIds -> Times \cup {NoRun}] /\ saved \in Seq(RunIds)
      /\ Elems(Recovered) \subseteq RunIds
  BY Consts, RecoveredFacts DEF TypeOK, OverLimit, Fault, Removed
<1>1. saving # NoRun /\ order = Append(Recovered, saving.id) /\ saving.id \in RunIds
  <2>1. saving = NoRun => FALSE
    <3> SUFFICES ASSUME saving = NoRun PROVE FALSE
      OBVIOUS
    <3>1. order = Recovered /\ Recovered = <<>>
      BY DEF Mirror, Recovered
    <3> QED
      BY <1>0, <3>1
  <2> QED
    BY <2>1 DEF Mirror, TypeOK
<1>2. /\ Recovered # <<>> /\ h = Head(Recovered) /\ order' = Append(Tail(Recovered), saving.id)
      /\ Len(order) = Len(Recovered) + 1
  <2>1. Recovered # <<>>
    BY <1>0, <1>1
  <2> QED
    BY <1>0, <1>1, <2>1
<1>3. Recovered' = Tail(Recovered)
  <2>1. index # NoIndex /\ index \in Seq(RunIds) /\ Distinct(index)
    BY <1>1 DEF Durable, TypeOK
  <2> QED
    BY <1>0, <1>2, <2>1, ReadableTail DEF Recovered
<1>4. /\ h \in RunIds /\ h \in Elems(Recovered) /\ h = Recovered[1]
      /\ Elems(Recovered') = Elems(Recovered) \ {h} /\ Recovered' \in Seq(RunIds)
      /\ Len(Recovered') = Len(Recovered) - 1
      /\ \A i \in 1..Len(Recovered') : Recovered'[i] = Recovered[i + 1]
  BY <1>0, <1>2, <1>3, TailFacts
<1>5. h # saving.id /\ h \in acked
  BY <1>1, <1>4 DEF Durable, Mirror
<1> QED
  BY <1>1, <1>2, <1>3, <1>4, <1>5

LEMMA EvictClean ==
  ASSUME TypeOK, Listing, Traced, CleanFacts, faults = 0, faults' = 0, Evict
  PROVE  CleanFacts'
<1> USE DEF Evict, CleanFacts
<1> DEFINE h == Head(order)
<1>0. /\ order \in Seq(RunIds) /\ Len(order) > limit /\ limit \in Limits /\ limit \in Nat \ {0}
      /\ files' = [files EXCEPT ![h] = NoRun] /\ Recovered \in Seq(RunIds) /\ Distinct(Recovered)
      /\ files \in [RunIds -> Times \cup {NoRun}] /\ saved \in Seq(RunIds)
      /\ Elems(Recovered) \subseteq RunIds
  BY Consts, RecoveredFacts DEF TypeOK, OverLimit, Fault, Removed
<1>1. /\ saving # NoRun /\ saving.id \in RunIds /\ order = Append(Recovered, saving.id)
      /\ Recovered # <<>> /\ Recovered' = Tail(Recovered) /\ h = Head(Recovered)
      /\ h \in Elems(Recovered) /\ Elems(Recovered') = Elems(Recovered) \ {h}
      /\ h \in acked /\ h # saving.id
  BY EvictRecovers
<1>2. order' = Append(Tail(Recovered), saving.id) /\ Len(order) = Len(Recovered) + 1
  BY <1>0, <1>1
<1>4. /\ h \in RunIds /\ h = Recovered[1] /\ Recovered' \in Seq(RunIds)
      /\ Len(Recovered') = Len(Recovered) - 1
      /\ \A i \in 1..Len(Recovered') : Recovered'[i] = Recovered[i + 1]
  BY <1>0, <1>1, TailFacts
<1>6. SavedOnce'
  BY DEF SavedOnce
<1>7. Durable'
  <2>1. ASSUME NEW i \in 1..Len(Recovered'), NEW j \in 1..Len(Recovered'), i < j,
               NEW a \in 1..Len(saved), NEW b \in 1..Len(saved),
               saved[a] = Recovered'[i], saved[b] = Recovered'[j]
        PROVE  a < b
    <3>0. Len(Recovered) \in Nat /\ Len(Recovered') = Len(Recovered) - 1
      BY <1>0, <1>4
    <3>1. i + 1 \in 1..Len(Recovered) /\ j + 1 \in 1..Len(Recovered) /\ i + 1 < j + 1
      BY <2>1, <3>0
    <3>2. Recovered[i + 1] = saved[a] /\ Recovered[j + 1] = saved[b]
      BY <1>4, <2>1
    <3> QED
      BY <3>1, <3>2 DEF Durable
  <2>2. \A i, j \in 1..Len(Recovered') : \A a, b \in 1..Len(saved') :
          i < j /\ saved'[a] = Recovered'[i] /\ saved'[b] = Recovered'[j] => a < b
    BY <2>1
  <2>3. /\ Elems(Recovered)' \subseteq acked'
        /\ acked' \subseteq Elems(saved')
        /\ index' # NoIndex /\ Distinct(index') /\ Elems(index') \subseteq acked'
    BY <1>1, <1>4 DEF Durable
  <2> QED
    BY <2>2, <2>3 DEF Durable
<1>8. Mirror'
  <2>1. \A x \in RunIds \ {h} : files'[x] = files[x] /\ runs'[x] = runs[x]
    BY <1>0 DEF TypeOK
  <2>2. \A x \in Elems(Recovered') : files'[x] = runs'[x]
    BY <1>0, <1>1, <1>4, <2>1 DEF Mirror
  <2>3. saving'.id = saving.id /\ runs'[saving.id] = saving.at /\ files'[saving.id] = NoRun
    BY <1>1, <2>1 DEF Mirror
  <2> QED
    BY <1>1, <1>2, <2>2, <2>3 DEF Mirror
<1>9. FewOrphans'
  <2>1. Orphans' = Orphans
    BY <1>0, <1>1 DEF Orphans
  <2> QED
    BY <2>1 DEF FewOrphans, Unlisted
<1>10. AckedRunsSurvive'
  <2>0. SmallestLimit \in Nat /\ SmallestLimit <= limit
    BY <1>0, Consts, SmallestLimitFacts
  <2> SUFFICES ASSUME NEW x \in acked, x \notin Elems(Recovered')
               PROVE  SavedAfter(x) >= SmallestLimit
    BY DEF AckedRunsSurvive, SavedAfter
  <2>1. CASE x \notin Elems(Recovered)
    BY <2>1 DEF AckedRunsSurvive
  <2>2. CASE x = h
    <3>1. PICK p \in 1..Len(saved) : saved[p] = h
      BY <1>1 DEF Durable, Elems
    <3>2. SavedAfter(h) = Len(saved) - p
      BY <1>0, <3>1, LaterThanIs DEF SavedOnce, SavedAfter, LaterThan
    <3>3. order[1] = saved[p] /\ Len(order) >= 1
      BY <1>0, <1>1, <1>4, <3>1
    <3>4. ASSUME NEW j \in 2..Len(order) PROVE \E b \in (p + 1)..Len(saved) : saved[b] = order[j]
      <4>1. CASE j = Len(order)
        <5>1. order[j] = saving.id /\ saving.id = saved[Len(saved)]
          BY <1>0, <1>1, <4>1 DEF Mirror, Last
        <5>2. p # Len(saved)
          BY <1>1, <3>1, <5>1
        <5>3. Len(saved) \in (p + 1)..Len(saved)
          BY <1>0, <5>2
        <5> QED
          BY <5>1, <5>3
      <4>2. CASE j # Len(order)
        <5>1. j \in 1..Len(Recovered) /\ order[j] = Recovered[j]
          BY <1>0, <1>1, <1>2, <4>2
        <5>2. PICK b \in 1..Len(saved) : saved[b] = Recovered[j]
          <6>1. Recovered[j] \in Elems(saved)
            BY <5>1 DEF Durable, Elems
          <6> QED
            BY <6>1 DEF Elems
        <5>3. p < b
          <6>1. 1 \in 1..Len(Recovered) /\ 1 < j
            BY <1>0, <5>1
          <6> QED
            BY <1>4, <3>1, <5>1, <5>2, <6>1 DEF Durable
        <5>4. b \in (p + 1)..Len(saved)
          BY <1>0, <5>3
        <5> QED
          BY <5>1, <5>2, <5>4
      <4> QED
        BY <4>1, <4>2
    <3>5. Len(saved) - p >= Len(order) - 1
      BY <1>0, <3>3, <3>4, EnoughLater DEF SavedOnce, Listing
    <3> QED
      BY <1>0, <2>0, <2>2, <3>2, <3>5
  <2> QED
    BY <1>1, <2>1, <2>2
<1> QED
  BY <1>6, <1>7, <1>8, <1>9, <1>10

LEMMA EvictedClean ==
  ASSUME TypeOK, CleanFacts, faults = 0, faults' = 0, Evicted
  PROVE  CleanFacts'
<1> USE DEF Evicted, CleanFacts, memory, disk
<1>1. Recovered' = Recovered /\ Orphans' = Orphans /\ AckedRunsSurvive'
  BY SameDisk
<1>2. SavedOnce' /\ Durable'
  BY <1>1 DEF SavedOnce, Durable
<1>3. Mirror'
  BY <1>1 DEF Mirror, AfterEviction
<1>4. FewOrphans'
  BY <1>1 DEF FewOrphans, Unlisted, AfterEviction
<1> QED
  BY <1>1, <1>2, <1>3, <1>4

\* The file of a run that no index lists changes nothing a restart recovers.
LEMMA WriteRunRecovers ==
  ASSUME TypeOK, CleanFacts, faults = 0, faults' = 0, WriteRun
  PROVE  Recovered' = Recovered
<1> USE DEF WriteRun, CleanFacts, memory
<1>0. /\ saving # NoRun /\ saving.id \in RunIds /\ saving.at \in Times /\ saving.at # NoRun
      /\ files' = [files EXCEPT ![saving.id] = saving.at] /\ files \in [RunIds -> Times \cup {NoRun}]
      /\ saving.id \notin acked /\ index # NoIndex /\ index \in Seq(RunIds)
      /\ Elems(index) \subseteq acked /\ acked \subseteq RunIds
  BY Consts DEF TypeOK, Mirror, Durable, Fault
<1>1. Recovered' = Recovered
  <2>1. \A id \in Elems(index) : files[id] = NoRun <=> files'[id] = NoRun
    BY <1>0
  <2>2. Readable(files, index) = Readable(files', index)
    <3>1. index \in Seq(RunIds)
      BY <1>0
    <3> QED
      BY <3>1, <2>1, ReadableFrame, Zenon
  <2> QED
    BY <1>0, <2>2 DEF Recovered
<1> QED
  BY <1>1

LEMMA WriteRunClean ==
  ASSUME TypeOK, CleanFacts, faults = 0, faults' = 0, WriteRun
  PROVE  CleanFacts'
<1> USE DEF WriteRun, CleanFacts, memory
<1>0. /\ saving # NoRun /\ saving.id \in RunIds /\ saving.at \in Times /\ saving.at # NoRun
      /\ files' = [files EXCEPT ![saving.id] = saving.at] /\ files \in [RunIds -> Times \cup {NoRun}]
      /\ saving.id \notin acked /\ index # NoIndex /\ index \in Seq(RunIds)
      /\ Elems(index) \subseteq acked /\ acked \subseteq RunIds
  BY Consts DEF TypeOK, Mirror, Durable, Fault
<1>1. Recovered' = Recovered
  BY WriteRunRecovers
<1>2. SavedOnce' /\ Durable'
  BY <1>0, <1>1 DEF SavedOnce, Durable
<1>3. Mirror'
  <2>1. Elems(Recovered) \subseteq acked
    BY DEF Durable
  <2>2. \A id \in Elems(Recovered) : files'[id] = files[id]
    BY <1>0, <2>1
  <2> QED
    BY <1>0, <1>1, <2>2 DEF Mirror
<1>4. FewOrphans'
  <2>1. Orphans' \subseteq Orphans \cup {saving.id}
    BY <1>0, <1>1 DEF Orphans
  <2>2. IsFiniteSet(Orphans \cup {saving.id})
        /\ Cardinality(Orphans \cup {saving.id}) <= Cardinality(Orphans) + 1
    <3>1. IsFiniteSet(Orphans) /\ Cardinality(Orphans) \in Nat
      BY FS_CardinalityType DEF FewOrphans
    <3>2. IsFiniteSet(Orphans \cup {saving.id})
          /\ Cardinality(Orphans \cup {saving.id})
               = IF saving.id \in Orphans THEN Cardinality(Orphans) ELSE Cardinality(Orphans) + 1
      BY <3>1, FS_AddElement, Zenon
    <3> QED
      BY <3>1, <3>2
  <2>3. IsFiniteSet(Orphans') /\ Cardinality(Orphans') <= Cardinality(Orphans \cup {saving.id})
    BY <2>1, <2>2, FS_Subset
  <2>4. Cardinality(Orphans) \in Nat /\ Cardinality(Orphans') \in Nat
        /\ Cardinality(Orphans \cup {saving.id}) \in Nat /\ crashes \in Nat
    BY <2>2, <2>3, FS_CardinalityType, Consts DEF FewOrphans, TypeOK
  <2> QED
    BY <1>0, <2>2, <2>3, <2>4 DEF FewOrphans, Unlisted
<1>5. AckedRunsSurvive'
  BY <1>1 DEF AckedRunsSurvive, SavedAfter
<1> QED
  BY <1>2, <1>3, <1>4, <1>5

LEMMA WriteIndexRecovers ==
  ASSUME TypeOK, Listing, Traced, CleanFacts, faults = 0, faults' = 0, WriteIndex
  PROVE  /\ order \in Seq(RunIds) /\ Distinct(order) /\ Recovered' = order
         /\ order = IF saving = NoRun THEN Recovered ELSE Append(Recovered, saving.id)
         /\ Elems(order) = IF saving = NoRun THEN Elems(Recovered)
                           ELSE Elems(Recovered) \cup {saving.id}
         /\ saving # NoRun =>
              /\ saving.id \in RunIds /\ saving.at \in Times /\ files[saving.id] = saving.at
              /\ runs[saving.id] = saving.at /\ files[saving.id] # NoRun
              /\ saving.id \notin acked /\ saving.id \notin Elems(Recovered)
              /\ saving.id = Last(saved) /\ saving.id \in Elems(saved)
<1> USE DEF WriteIndex, CleanFacts
<1>0. /\ index' = order /\ order \in Seq(RunIds) /\ index' # NoIndex /\ Distinct(order)
      /\ Recovered \in Seq(RunIds) /\ saving' = NoRun /\ Len(Recovered) \in Nat
      /\ \A id \in Elems(Recovered) : id \in RunIds /\ files[id] # NoRun
  BY Consts, RecoveredFacts DEF TypeOK, Listing, Fault, IndexContent
<1>1. order = IF saving = NoRun THEN Recovered ELSE Append(Recovered, saving.id)
  BY DEF Mirror
<1>2. saving # NoRun =>
        /\ saving.id \in RunIds /\ saving.at \in Times /\ files[saving.id] = saving.at
        /\ runs[saving.id] = saving.at /\ files[saving.id] # NoRun
        /\ saving.id \notin acked /\ saving.id \notin Elems(Recovered)
        /\ saving.id = Last(saved) /\ saving.id \in Elems(saved)
  <2>1. saving # NoRun => saving.id \in RunIds /\ saving.at \in Times /\ saving.at # NoRun
    BY Consts DEF TypeOK
  <2> QED
    BY <2>1 DEF Mirror, Durable, Traced
<1>3. Elems(order) = IF saving = NoRun THEN Elems(Recovered) ELSE Elems(Recovered) \cup {saving.id}
  <2>1. CASE saving = NoRun
    BY <1>1, <2>1
  <2>2. CASE saving # NoRun
    <3>1. order = Append(Recovered, saving.id) /\ saving.id \in RunIds
      BY <1>1, <1>2, <2>2
    <3> QED
      BY <1>0, <2>2, <3>1, AppendFacts
  <2> QED
    BY <2>1, <2>2
<1>4. Recovered' = order
  <2>1. \A id \in Elems(order) : files[id] # NoRun
    BY <1>0, <1>2, <1>3
  <2>2. Readable(files, order) = order
    BY <1>0, <2>1, ReadableAll
  <2> QED
    BY <1>0, <2>2 DEF Recovered
<1> QED
  BY <1>0, <1>1, <1>2, <1>3, <1>4

LEMMA WriteIndexClean ==
  ASSUME TypeOK, Listing, Traced, CleanFacts, faults = 0, faults' = 0, WriteIndex
  PROVE  CleanFacts'
<1> USE DEF WriteIndex, CleanFacts
<1>0. /\ index' = order /\ order \in Seq(RunIds) /\ index' # NoIndex /\ Distinct(order)
      /\ Recovered \in Seq(RunIds) /\ saving' = NoRun /\ Len(Recovered) \in Nat
      /\ \A id \in Elems(Recovered) : id \in RunIds /\ files[id] # NoRun
  BY Consts, RecoveredFacts DEF TypeOK, Listing, Fault, IndexContent
<1>1. order = IF saving = NoRun THEN Recovered ELSE Append(Recovered, saving.id)
  BY WriteIndexRecovers
<1>2. saving # NoRun =>
        /\ saving.id \in RunIds /\ saving.at \in Times /\ files[saving.id] = saving.at
        /\ runs[saving.id] = saving.at /\ files[saving.id] # NoRun
        /\ saving.id \notin acked /\ saving.id \notin Elems(Recovered)
        /\ saving.id = Last(saved) /\ saving.id \in Elems(saved)
  BY WriteIndexRecovers
<1>3. Elems(order) = IF saving = NoRun THEN Elems(Recovered) ELSE Elems(Recovered) \cup {saving.id}
  BY WriteIndexRecovers
<1>4. Recovered' = order
  BY WriteIndexRecovers
<1>5. acked' = IF saving = NoRun THEN acked ELSE acked \cup {saving.id}
  OBVIOUS
<1>6. SavedOnce'
  BY DEF SavedOnce
<1>7. Durable'
  <2>1. ASSUME NEW i \in 1..Len(order), NEW j \in 1..Len(order), i < j,
               NEW a \in 1..Len(saved), NEW b \in 1..Len(saved),
               saved[a] = order[i], saved[b] = order[j]
        PROVE  a < b
    <3>1. CASE saving = NoRun
      BY <1>1, <2>1, <3>1 DEF Durable
    <3>2. CASE saving # NoRun
      <4>1. i \in 1..Len(Recovered) /\ order[i] = Recovered[i]
        BY <1>0, <1>1, <2>1, <3>2
      <4>2. CASE j = Len(Recovered) + 1
        <5>1. order[j] = saved[Len(saved)] /\ Len(saved) \in Nat
          BY <1>0, <1>1, <1>2, <3>2, <4>2 DEF Last, TypeOK
        <5>2. b = Len(saved)
          BY <2>1, <5>1 DEF SavedOnce, Distinct
        <5>3. a # b
          BY <2>1, <1>0 DEF Distinct
        <5> QED
          BY <5>1, <5>2, <5>3
      <4>3. CASE j # Len(Recovered) + 1
        <5>1. j \in 1..Len(Recovered) /\ order[j] = Recovered[j]
          BY <1>0, <1>1, <2>1, <3>2, <4>3
        <5> QED
          BY <2>1, <4>1, <5>1 DEF Durable
      <4> QED
        BY <4>2, <4>3
    <3> QED
      BY <3>1, <3>2
  <2>2. \A i, j \in 1..Len(Recovered') : \A a, b \in 1..Len(saved') :
          i < j /\ saved'[a] = Recovered'[i] /\ saved'[b] = Recovered'[j] => a < b
    BY <1>4, <2>1
  <2>3. /\ Elems(Recovered') \subseteq acked'
        /\ acked' \subseteq Elems(saved')
        /\ index' # NoIndex /\ Distinct(index') /\ Elems(index') \subseteq acked'
    BY <1>0, <1>2, <1>3, <1>4 DEF Durable
  <2> QED
    BY <2>2, <2>3 DEF Durable
<1>8. Mirror'
  BY <1>0, <1>2, <1>3, <1>4 DEF Mirror
<1>9. FewOrphans'
  <2>0. IsFiniteSet(Orphans) /\ Cardinality(Orphans) \in Nat
    BY FS_CardinalityType DEF FewOrphans
  <2>1. CASE saving = NoRun
    <3>1. Orphans' = Orphans
      BY <1>3, <1>4, <2>1 DEF Orphans
    <3> QED
      BY <1>0, <2>1, <3>1 DEF FewOrphans, Unlisted
  <2>2. CASE saving # NoRun
    <3>1. Orphans' = Orphans \ {saving.id} /\ saving.id \in Orphans
      BY <1>2, <1>3, <1>4, <2>2 DEF Orphans
    <3>2. IsFiniteSet(Orphans \ {saving.id})
          /\ Cardinality(Orphans \ {saving.id})
               = IF saving.id \in Orphans THEN Cardinality(Orphans) - 1 ELSE Cardinality(Orphans)
      BY <2>0, FS_RemoveElement, Zenon
    <3>3. crashes \in Nat
      BY Consts DEF TypeOK
    <3> QED
      BY <1>0, <2>0, <2>2, <3>1, <3>2, <3>3 DEF FewOrphans, Unlisted
  <2> QED
    BY <2>1, <2>2
<1>10. AckedRunsSurvive'
  BY <1>3, <1>4 DEF AckedRunsSurvive, SavedAfter
<1> QED
  BY <1>6, <1>7, <1>8, <1>9, <1>10

LEMMA CrashClean ==
  ASSUME TypeOK, CleanFacts, faults = 0, faults' = 0, Crash
  PROVE  CleanFacts'
<1> USE DEF Crash, CleanFacts, disk
<1>1. Recovered' = Recovered /\ Orphans' = Orphans /\ AckedRunsSurvive' /\ Durable'
  BY SameDisk
<1>2. SavedOnce'
  <2>1. Elems(saved) \subseteq RunIds
    BY DEF TypeOK, Elems
  <2> QED
    BY <2>1 DEF SavedOnce, Empty
<1>3. Mirror'
  BY DEF Mirror
<1>4. FewOrphans'
  <2>1. crashes \in Nat /\ crashes' = crashes + 1
    BY Consts DEF TypeOK
  <2>2. IsFiniteSet(Orphans) /\ Cardinality(Orphans) \in Nat
    BY FS_CardinalityType DEF FewOrphans
  <2> QED
    BY <1>1, <2>1, <2>2 DEF FewOrphans, Unlisted
<1> QED
  BY <1>1, <1>2, <1>3, <1>4

LEMMA StartClean ==
  ASSUME TypeOK, CleanFacts, faults = 0, faults' = 0, Start
  PROVE  CleanFacts'
<1> USE DEF Start, CleanFacts, disk
<1>1. saving' = NoRun /\ saving = NoRun
  BY DEF TypeOK
<1>2. Recovered' = Recovered /\ Orphans' = Orphans /\ AckedRunsSurvive' /\ Durable'
  BY <1>1, SameDisk
<1>3. SavedOnce'
  BY DEF SavedOnce
<1>4. FewOrphans'
  BY <1>1, <1>2 DEF FewOrphans, Unlisted
<1>5. Mirror'
  <2>1. CASE index # NoIndex /\ Loaded(Recovered) /\ phase' = "idle"
    <3>1. Elems(Recovered) \subseteq RunIds
      BY RecoveredFacts
    <3> QED
      BY <1>1, <1>2, <2>1, <3>1 DEF Mirror, Loaded
  <2>2. CASE /\ index = NoIndex /\ phase' = "evict"
             /\ \E ids \in BoundedSeq(Stored, Cardinality(Stored)) : Rebuilt(ids) /\ Loaded(ids)
    <3>1. PICK ids \in BoundedSeq(Stored, Cardinality(Stored)) : Rebuilt(ids) /\ Loaded(ids)
      BY <2>2
    <3>2. ids \in Seq(RunIds) /\ \A id \in Elems(ids) : id \in RunIds /\ files[id] # NoRun
      BY <3>1, RebuiltFacts
    <3>3. files = Empty
      BY <2>2 DEF Durable
    <3>4. Elems(ids) = {}
      BY <3>2, <3>3 DEF Empty
    <3>5. ids = <<>>
      <4>1. 1 \notin 1..Len(ids) /\ Len(ids) \in Nat
        BY <3>2, <3>4 DEF Elems
      <4> QED
        BY <3>2, <4>1
    <3>6. Recovered = <<>>
      BY <2>2 DEF Recovered
    <3>7. Elems(Recovered) = {}
      BY <3>6 DEF Elems
    <3> QED
      BY <1>1, <1>2, <2>2, <3>1, <3>5, <3>6, <3>7 DEF Mirror, Loaded
  <2> QED
    BY <2>1, <2>2 DEF Fault
<1> QED
  BY <1>2, <1>3, <1>4, <1>5

LEMMA NextClean == TypeOK /\ Listing /\ Traced /\ Clean /\ [Next]_vars => Clean'
<1> SUFFICES ASSUME TypeOK, Listing, Traced, Clean, [Next]_vars, faults' = 0
             PROVE  CleanFacts'
  BY DEF Clean, CleanFacts
<1>1. faults = 0
  BY Consts DEF TypeOK, Next, LockHolder, Stamp, SaveRun, Evict, Evicted, WriteRun, WriteIndex,
     Crash, Start, Damage, Fault, NoFault, vars
<1>2. CleanFacts
  BY <1>1 DEF Clean, CleanFacts
<1>3. ASSUME NEW id \in RunIds, Stamp(id) PROVE CleanFacts'
  BY <1>1, <1>2, <1>3, StampClean
<1>4. ASSUME NEW id \in RunIds, SaveRun(id) PROVE CleanFacts'
  BY <1>1, <1>2, <1>4, SaveRunClean
<1>5. CASE Evict
  BY <1>1, <1>2, <1>5, EvictClean
<1>6. CASE Evicted
  BY <1>1, <1>2, <1>6, EvictedClean
<1>7. CASE WriteRun
  BY <1>1, <1>2, <1>7, WriteRunClean
<1>8. CASE WriteIndex
  BY <1>1, <1>2, <1>8, WriteIndexClean
<1>9. CASE Crash
  BY <1>1, <1>2, <1>9, CrashClean
<1>10. CASE Start
  BY <1>1, <1>2, <1>10, StartClean
<1>11. CASE Damage
  BY <1>1, <1>11 DEF Damage, Fault
<1>12. CASE UNCHANGED vars
  <2> USE <1>12 DEF vars, memory, disk
  <2>1. Recovered' = Recovered /\ Orphans' = Orphans /\ AckedRunsSurvive'
    BY <1>1, <1>2, SameDisk DEF CleanFacts
  <2> QED
    BY <1>2, <2>1 DEF CleanFacts, SavedOnce, Durable, Mirror, FewOrphans, Unlisted
<1> QED
  BY <1>3, <1>4, <1>5, <1>6, <1>7, <1>8, <1>9, <1>10, <1>11, <1>12 DEF Next, LockHolder

-----------------------------------------------------------------------------
(* Theorems *)

LEMMA Inductive == Spec => []IInv
<1>1. Init => IInv
  BY InitFirst, InitClean DEF IInv
<1>2. IInv /\ [Next]_vars => IInv'
  BY NextFirst, NextClean DEF IInv
<1> QED
  BY <1>1, <1>2, PTL DEF Spec

\* Types, and the phases of Save and load in which a run is in hand.
THEOREM TypeCorrect == Spec => []TypeOK
<1>1. IInv => TypeOK
  BY DEF IInv
<1> QED
  BY <1>1, Inductive, PTL

\* Whatever failed before, Get, List and "latest" agree with each other.
THEOREM ReadersAgree == Spec => []HistoryConsistent
<1>1. IInv => HistoryConsistent
  <2> SUFFICES ASSUME IInv PROVE HistoryConsistent
    OBVIOUS
  <2>1. order # <<>> => Last(order) \in Elems(order)
    <3>1. order \in Seq(RunIds)
      BY DEF IInv, TypeOK
    <3>2. order # <<>> => Len(order) \in 1..Len(order)
      BY <3>1
    <3> QED
      BY <3>2 DEF Last, Elems
  <2> QED
    BY <2>1 DEF IInv, Listing, Traced, Distinct, HistoryConsistent
<1> QED
  BY <1>1, Inductive, PTL

\* Save and a rebuild return with the history within the limit.
THEOREM SaveBounds == Spec => SaveBoundsHistory
<1>1. IInv => (phase = "index" => Len(order) <= limit)
  BY DEF IInv, Listing
<1>2. IInv /\ [Next]_vars => [phase = "index" /\ phase' = "idle" => Len(order) <= limit]_vars
  BY <1>1
<1> QED
  BY <1>2, Inductive, PTL DEF Spec, SaveBoundsHistory

\* As long as nothing fails, a restart brings back what readers see.
THEOREM RestartIsInvisible == Spec => []RestartShowsTheSame
<1>1. IInv => RestartShowsTheSame
  BY DEF IInv, TypeOK, Clean, Mirror, RestartShowsTheSame
<1> QED
  BY <1>1, Inductive, PTL

\* A run whose Save returned is lost only to as many later runs as the smallest limit.
THEOREM AckedSurvive == Spec => []AckedRunsSurvive
<1>1. IInv => AckedRunsSurvive
  BY DEF IInv, Clean, AckedRunsSurvive
<1> QED
  BY <1>1, Inductive, PTL

\* Only a crash leaves a file behind that nothing lists, one at most.
THEOREM NoLeak == Spec => []NoFileLeak
<1>1. IInv => NoFileLeak
  <2> SUFFICES ASSUME IInv, phase = "idle", faults = 0 PROVE Cardinality(Orphans) <= crashes
    BY DEF NoFileLeak
  <2>1. Cardinality(Orphans) <= crashes + 0
    BY DEF IInv, Clean, FewOrphans, Unlisted
  <2>2. crashes \in Nat
    BY Consts DEF IInv, TypeOK
  <2>3. IsFiniteSet(Orphans) /\ Cardinality(Orphans) \in Nat
    BY FS_CardinalityType DEF IInv, Clean, FewOrphans
  <2> QED
    BY <2>1, <2>2, <2>3
<1> QED
  BY <1>1, Inductive, PTL

\* An eviction, and the index that lists a new run, are what RunHistory lets
\* happen; every other step leaves the durable history alone.
LEMMA HistoryStep ==
  ASSUME TypeOK, Listing, Traced, Clean, [Next]_vars, faults' = 0
  PROVE  [History!HistoryNext]_<<Recovered, limit, acked \ Elems(Recovered)>>
<1> DEFINE Same == UNCHANGED <<Recovered, limit, acked \ Elems(Recovered)>>
<1>1. faults = 0
  BY Consts DEF TypeOK, Next, LockHolder, Stamp, SaveRun, Evict, Evicted, WriteRun, WriteIndex,
     Crash, Start, Damage, Fault, NoFault, vars
<1>2. SavedOnce /\ Durable /\ Mirror
  BY <1>1 DEF Clean
<1>3. ASSUME UNCHANGED <<files, index, limit, acked>> PROVE Same
  BY <1>3 DEF Recovered
<1>4. CASE \E id \in RunIds : Stamp(id) \/ SaveRun(id)
  BY <1>3, <1>4 DEF Stamp, SaveRun, memory, disk
<1>5. CASE Evicted \/ Crash \/ UNCHANGED vars
  BY <1>3, <1>5 DEF Evicted, Crash, vars, memory, disk
<1>6. CASE Start
  <2>1. limit' \in Limits /\ UNCHANGED <<Recovered, acked>>
    BY <1>6 DEF Start, Recovered, disk
  <2> QED
    BY <2>1 DEF History!HistoryNext, History!Reconfigure
<1>7. CASE Damage
  BY <1>1, <1>7 DEF Damage, Fault
<1>8. CASE WriteRun
  <2>1. Recovered' = Recovered
    BY <1>1, <1>2, <1>8, WriteRunRecovers DEF CleanFacts, Clean
  <2> QED
    BY <1>8, <2>1 DEF WriteRun, memory
<1>9. CASE Evict
  <2> DEFINE h == Head(order)
  <2>1. /\ order = Append(Recovered, saving.id) /\ Recovered # <<>>
        /\ Recovered' = Tail(Recovered) /\ h = Head(Recovered) /\ h \in Elems(Recovered)
        /\ Elems(Recovered') = Elems(Recovered) \ {h} /\ h \in acked /\ saving.id \in RunIds
    BY <1>1, <1>9, EvictRecovers DEF CleanFacts, Clean
  <2>2. Len(Recovered) >= limit
    <3>1. Len(order) > limit /\ limit \in Nat /\ Recovered \in Seq(RunIds)
      BY <1>9, Consts, RecoveredFacts DEF Evict, OverLimit, TypeOK
    <3> QED
      BY <2>1, <3>1
  <2>3. UNCHANGED <<limit, acked>>
    BY <1>9 DEF Evict
  <2>4. acked' \ Elems(Recovered') = (acked \ Elems(Recovered)) \cup {Head(Recovered)}
    BY <2>1, <2>3
  <2> QED
    BY <2>1, <2>2, <2>3, <2>4 DEF History!HistoryNext, History!Trim
<1>10. CASE WriteIndex
  <2>1. /\ Recovered' = order /\ order \in Seq(RunIds)
        /\ order = IF saving = NoRun THEN Recovered ELSE Append(Recovered, saving.id)
        /\ Elems(order) = IF saving = NoRun THEN Elems(Recovered)
                          ELSE Elems(Recovered) \cup {saving.id}
        /\ saving # NoRun => /\ saving.id \in RunIds /\ saving.id \notin acked
                             /\ saving.id \notin Elems(Recovered)
    BY <1>1, <1>10, WriteIndexRecovers DEF CleanFacts, Clean
  <2>2. UNCHANGED limit /\ acked' = IF saving = NoRun THEN acked ELSE acked \cup {saving.id}
    BY <1>10 DEF WriteIndex
  <2>3. CASE saving = NoRun
    BY <2>1, <2>2, <2>3
  <2>4. CASE saving # NoRun
    <3>1. Len(Recovered) < limit
      <4>1. Len(order) <= limit /\ limit \in Nat /\ Recovered \in Seq(RunIds)
        BY <1>10, Consts, RecoveredFacts DEF Listing, WriteIndex, TypeOK
      <4> QED
        BY <2>1, <2>4, <4>1
    <3>2. acked' \ Elems(Recovered') = acked \ Elems(Recovered)
      BY <2>1, <2>2, <2>4
    <3>3. saving.id \in RunIds \ ({Recovered[i] : i \in 1..Len(Recovered)}
                                   \cup (acked \ Elems(Recovered)))
      BY <2>1, <2>4 DEF Elems
    <3>4. Recovered' = Append(Recovered, saving.id)
      BY <2>1, <2>4
    <3> QED
      BY <2>2, <3>1, <3>2, <3>3, <3>4 DEF History!HistoryNext, History!Commit
  <2> QED
    BY <2>3, <2>4
<1> QED
  BY <1>4, <1>5, <1>6, <1>7, <1>8, <1>9, <1>10 DEF Next, LockHolder

\* The store implements RunHistory: as long as nothing fails, an acknowledged
\* run enters the durable history, the oldest one leaves it only to make room, and
\* a crash or a restart at any step changes nothing.
THEOREM StoreImplementsHistory == Spec => ImplementsHistory
<1>1. Init => History!HistoryInit
  BY DEF Init, History!HistoryInit, Recovered
<1>2. IInv /\ [Next]_vars
        => [faults' = 0 => History!HistoryNext]_<<Recovered, limit, acked \ Elems(Recovered)>>
  BY HistoryStep DEF IInv
<1> QED
  BY <1>1, <1>2, Inductive, PTL DEF Spec, ImplementsHistory
=============================================================================
