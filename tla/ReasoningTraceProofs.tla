------------------------ MODULE ReasoningTraceProofs ------------------------
(* Theorems about ReasoningTrace, for any number of spans, events and statuses. *)
EXTENDS ReasoningTrace, TLAPS

\* Every copy of a span, in the current array or an old one, shows at most what
\* was asked of the span.
CopiesAsked ==
  \A a \in 1..Len(arrays) : \A i \in 1..Len(arrays[a]) :
    i <= Len(asked) /\ ShowsAtMost(arrays[a][i], asked[i])

\* A pointer leads to its own span, that of the newest span into the current array.
PointersLead ==
  /\ \A i \in 1..Len(pointer) : i \in 1..Len(arrays[pointer[i]])
  /\ Len(pointer) # 0 => pointer[Len(pointer)] = Len(arrays)

SettledEnded == \A i \in settled : i \in Started /\ Spans[i].ended

Inv ==
  /\ TypeOK
  /\ Len(pointer) = Len(Spans) /\ Len(attrs) = Len(Spans) /\ Len(asked) = Len(Spans)
  /\ CopiesAsked
  /\ PointersLead
  /\ SettledEnded

LEMMA InitInv == Init => Inv
<1> SUFFICES ASSUME Init PROVE Inv
  OBVIOUS
<1>1. arrays \in Seq(Seq(Span)) /\ Len(arrays) = 1 /\ arrays[1] = <<>>
  BY DEF Init
<1>2. Spans = <<>> /\ Last(arrays) = <<>> /\ Len(<<>>) = 0
  BY <1>1 DEF Spans, Last
<1>3. /\ pointer = <<>> /\ attrs = <<>> /\ asked = <<>> /\ settled = {}
      /\ MaxSpans \in Nat /\ arrays # <<>>
  BY <1>1, TraceAssumption DEF TraceAssumption, Init
<1>4. TypeOK
  BY <1>1, <1>2, <1>3 DEF TypeOK
<1>5. CopiesAsked
  <2>1. \A a \in 1..Len(arrays) : Len(arrays[a]) = 0
    BY <1>1, <1>2
  <2>. QED
    BY <2>1 DEF CopiesAsked
<1>6. PointersLead /\ SettledEnded
  BY <1>2, <1>3 DEF PointersLead, SettledEnded
<1>. QED
  BY <1>2, <1>3, <1>4, <1>5, <1>6 DEF Inv

\* What the type of the variables says of the current array.
LEMMA SpansIs ==
  ASSUME Inv
  PROVE  /\ arrays \in Seq(Seq(Span)) /\ Len(arrays) \in Nat \ {0}
         /\ Spans = arrays[Len(arrays)] /\ Spans \in Seq(Span) /\ Len(Spans) \in Nat
BY DEF Inv, TypeOK, Spans, Last

\* The copy that the pointer of a span leads to.
LEMMA CopyIs ==
  ASSUME Inv, NEW i \in Started
  PROVE  /\ pointer[i] \in 1..Len(arrays) /\ i \in 1..Len(arrays[pointer[i]])
         /\ arrays[pointer[i]][i] \in Span /\ asked[i] \in Span
         /\ ShowsAtMost(arrays[pointer[i]][i], asked[i])
<1>1. arrays \in Seq(Seq(Span)) /\ Len(arrays) \in Nat \ {0} /\ Len(Spans) \in Nat
  BY SpansIs
<1>2. /\ i \in 1..Len(pointer) /\ pointer \in Seq(1..Len(arrays))
      /\ i \in 1..Len(asked) /\ asked \in Seq(Span)
  BY DEF Inv, TypeOK, Started
<1>3. pointer[i] \in 1..Len(arrays) /\ asked[i] \in Span
  BY <1>2
<1>4. arrays[pointer[i]] \in Seq(Span) /\ i \in 1..Len(arrays[pointer[i]])
  BY <1>1, <1>2, <1>3 DEF Inv, PointersLead
<1>5. arrays[pointer[i]][i] \in Span
  BY <1>4
<1>. QED
  BY <1>3, <1>4, <1>5 DEF Inv, CopiesAsked

LEMMA StartInv == Inv /\ StartSpan => Inv'
<1> SUFFICES ASSUME Inv, StartSpan PROVE Inv'
  OBVIOUS
<1> DEFINE n == Len(Spans) + 1
           grown == Append(Spans, NewSpan)
<1>1. /\ arrays \in Seq(Seq(Span)) /\ Len(arrays) \in Nat \ {0}
      /\ Spans = arrays[Len(arrays)] /\ Spans \in Seq(Span) /\ Len(Spans) \in Nat
  BY SpansIs
<1>2. NewSpan \in Span /\ ShowsAtMost(NewSpan, NewSpan) /\ MaxEvents \in Nat
  BY TraceAssumption DEF TraceAssumption, NewSpan, Span, ShowsAtMost
<1>3. /\ grown \in Seq(Span) /\ Len(grown) = n /\ grown[n] = NewSpan
      /\ \A i \in 1..Len(Spans) : grown[i] = Spans[i]
  BY <1>1, <1>2
<1> HIDE DEF grown
<1>4. /\ arrays' \in Seq(Seq(Span)) /\ Len(arrays') \in Nat \ {0} /\ arrays'[Len(arrays')] = grown
      /\ Len(arrays') >= Len(arrays)
      /\ \A a \in 1..Len(arrays') : a # Len(arrays') => a \in 1..Len(arrays) /\ arrays'[a] = arrays[a]
      /\ \A a \in 1..Len(arrays) : Len(arrays'[a]) >= Len(arrays[a])
  <2>1. CASE Full
    <3>1. arrays' = Append(arrays, grown)
      BY <2>1 DEF StartSpan, grown
    <3>. QED
      BY <1>1, <1>3, <3>1
  <2>2. CASE ~Full
    <3>1. arrays' = [arrays EXCEPT ![Len(arrays)] = grown]
      BY <1>1, <2>2 DEF StartSpan, grown
    <3>. QED
      BY <1>1, <1>3, <3>1
  <2>. QED
    BY <2>1, <2>2
<1>5. Spans' = grown /\ Started' = 1..n
  BY <1>3, <1>4 DEF Spans, Last, Started
<1>6. /\ pointer \in Seq(1..Len(arrays)) /\ attrs \in Seq(0..MaxEvents) /\ asked \in Seq(Span)
      /\ Len(pointer) = Len(Spans) /\ Len(attrs) = Len(Spans) /\ Len(asked) = Len(Spans)
      /\ Len(Spans) < MaxSpans /\ MaxSpans \in Nat
  BY TraceAssumption DEF TraceAssumption, Inv, TypeOK, StartSpan
<1>7. /\ pointer' \in Seq(1..Len(arrays')) /\ Len(pointer') = n /\ pointer'[n] = Len(arrays')
      /\ \A i \in 1..Len(Spans) : pointer'[i] = pointer[i]
  <2>1. pointer' = Append(pointer, Len(arrays'))
    BY DEF StartSpan
  <2>2. pointer \in Seq(1..Len(arrays')) /\ Len(arrays') \in 1..Len(arrays')
    BY <1>1, <1>4, <1>6
  <2>. QED
    BY <1>6, <2>1, <2>2
<1>8. attrs' \in Seq(0..MaxEvents) /\ Len(attrs') = n
  <2>1. attrs' = Append(attrs, 0) /\ 0 \in 0..MaxEvents
    BY <1>2 DEF StartSpan
  <2>. QED
    BY <1>6, <2>1
<1>9. /\ asked' \in Seq(Span) /\ Len(asked') = n /\ asked'[n] = NewSpan
      /\ \A i \in 1..Len(Spans) : asked'[i] = asked[i]
  <2>1. asked' = Append(asked, NewSpan)
    BY DEF StartSpan
  <2>. QED
    BY <1>2, <1>6, <2>1
<1>10. TypeOK'
  <2>1. arrays' # <<>> /\ settled' \subseteq 1..MaxSpans
    BY <1>4 DEF StartSpan, Inv, TypeOK
  <2>2. Len(Spans') <= MaxSpans
    BY <1>1, <1>3, <1>5, <1>6
  <2>. QED
    BY <1>4, <1>7, <1>8, <1>9, <2>1, <2>2 DEF TypeOK, Spans
<1>11. CopiesAsked'
  <2> SUFFICES ASSUME NEW a \in 1..Len(arrays'), NEW i \in 1..Len(arrays'[a])
               PROVE  i <= Len(asked') /\ ShowsAtMost(arrays'[a][i], asked'[i])
    BY DEF CopiesAsked
  <2>1. \A b \in 1..Len(arrays) : \A k \in 1..Len(arrays[b]) :
          k \in 1..Len(Spans) /\ ShowsAtMost(arrays[b][k], asked[k])
    BY <1>1, <1>6 DEF Inv, CopiesAsked
  <2>2. CASE a # Len(arrays')
    <3>1. a \in 1..Len(arrays) /\ arrays'[a] = arrays[a]
      BY <1>4, <2>2
    <3>2. i \in 1..Len(Spans)
      BY <2>1, <3>1
    <3>3. arrays'[a][i] = arrays[a][i] /\ i \in 1..Len(arrays[a]) /\ asked'[i] = asked[i]
      BY <1>9, <3>1, <3>2
    <3>4. i <= Len(asked')
      BY <1>1, <1>9, <3>2
    <3>. QED
      BY <2>1, <3>1, <3>3, <3>4
  <2>3. CASE a = Len(arrays')
    <3>1. arrays'[a] = grown /\ i \in 1..n
      BY <1>3, <1>4, <2>3
    <3>2. CASE i = n
      BY <1>1, <1>2, <1>3, <1>9, <3>1, <3>2
    <3>3. CASE i \in 1..Len(Spans)
      <4>1. grown[i] = arrays[Len(arrays)][i] /\ asked'[i] = asked[i]
        BY <1>1, <1>3, <1>9, <3>3
      <4>2. Len(arrays) \in 1..Len(arrays) /\ i \in 1..Len(arrays[Len(arrays)]) /\ i <= n
        BY <1>1, <3>3
      <4>. QED
        BY <1>9, <2>1, <3>1, <4>1, <4>2
    <3>. QED
      BY <1>1, <3>1, <3>2, <3>3
  <2>. QED
    BY <2>2, <2>3
<1>12. PointersLead'
  <2>1. ASSUME NEW i \in 1..n PROVE i \in 1..Len(arrays'[pointer'[i]])
    <3>1. CASE i = n
      BY <1>1, <1>3, <1>4, <1>7, <3>1
    <3>2. CASE i \in 1..Len(Spans)
      <4>1. pointer[i] \in 1..Len(arrays) /\ i \in 1..Len(arrays[pointer[i]])
        BY <1>6, <3>2 DEF Inv, PointersLead
      <4>2. Len(arrays'[pointer[i]]) >= Len(arrays[pointer[i]])
        BY <1>4, <4>1
      <4>3. arrays[pointer[i]] \in Seq(Span) /\ arrays'[pointer[i]] \in Seq(Span)
        BY <1>1, <1>4, <4>1, SMTT(40)
      <4>. QED
        BY <1>7, <3>2, <4>1, <4>2, <4>3, SMTT(40)
    <3>. QED
      BY <1>1, <3>1, <3>2
  <2>. QED
    BY <1>7, <2>1 DEF PointersLead
<1>13. SettledEnded'
  <2>1. \A i \in settled : i \in 1..Len(Spans) /\ Spans[i].ended
    BY DEF Inv, SettledEnded, Started
  <2>2. \A i \in 1..Len(Spans) : i \in 1..n /\ Spans'[i] = Spans[i]
    BY <1>1, <1>3, <1>5
  <2>3. settled' = settled
    BY DEF StartSpan
  <2>. QED
    BY <1>5, <2>1, <2>2, <2>3, Zenon DEF SettledEnded
<1>. QED
  BY <1>3, <1>5, <1>7, <1>8, <1>9, <1>10, <1>11, <1>12, <1>13 DEF Inv

\* One array is replaced, the others stay.
LEMMA ReplaceIs ==
  ASSUME NEW S, NEW s \in Seq(S), NEW p \in 1..Len(s), NEW x \in S
  PROVE  LET t == [s EXCEPT ![p] = x] IN
         /\ t \in Seq(S) /\ Len(t) = Len(s) /\ t[p] = x
         /\ \A a \in 1..Len(s) \ {p} : t[a] = s[a]
OBVIOUS

\* An operation on one span through its pointer.
LEMMA WriteInv ==
  ASSUME Inv, NEW i \in Started, NEW here \in Span, NEW there \in Span,
         ShowsAtMost(there, here),
         arrays[pointer[i]][i].ended => there.ended,
         asked[i].ended => here.ended /\ here.status = asked[i].status,
         asked[i].events <= here.events,
         arrays' = [arrays EXCEPT ![pointer[i]][i] = there],
         asked' = [asked EXCEPT ![i] = here],
         settled' = settled \/ (i = Len(Spans) /\ there.ended /\ settled' = settled \cup {i}),
         UNCHANGED <<pointer, attrs>>
  PROVE  Inv'
<1> DEFINE p == pointer[i]
<1>1. /\ arrays \in Seq(Seq(Span)) /\ Len(arrays) \in Nat \ {0}
      /\ Spans = arrays[Len(arrays)] /\ Spans \in Seq(Span) /\ Len(Spans) \in Nat
  BY SpansIs
<1>2. /\ pointer \in Seq(1..Len(arrays)) /\ asked \in Seq(Span)
      /\ Len(pointer) = Len(Spans) /\ Len(attrs) = Len(Spans) /\ Len(asked) = Len(Spans)
      /\ i \in 1..Len(Spans)
  BY DEF Inv, TypeOK, Started
<1>3. p \in 1..Len(arrays) /\ arrays[p] \in Seq(Span) /\ i \in 1..Len(arrays[p])
  BY <1>1, <1>2, SMTT(30) DEF Inv, PointersLead
<1> DEFINE row == [arrays[p] EXCEPT ![i] = there]
<1>4. arrays' = [arrays EXCEPT ![p] = row] /\ row \in Seq(Span)
  BY <1>3
<1> HIDE DEF p, row
<1>5. /\ arrays' \in Seq(Seq(Span)) /\ Len(arrays') = Len(arrays)
      /\ \A a \in 1..Len(arrays) \ {p} : arrays'[a] = arrays[a]
      /\ arrays'[p] = row
  <2>1. LET t == [arrays EXCEPT ![p] = row] IN
        /\ t \in Seq(Seq(Span)) /\ Len(t) = Len(arrays) /\ t[p] = row
        /\ \A a \in 1..Len(arrays) \ {p} : t[a] = arrays[a]
    BY <1>1, <1>3, <1>4, ReplaceIs
  <2>. QED
    BY <1>4, <2>1
<1>6. /\ Len(arrays'[p]) = Len(arrays[p]) /\ arrays'[p][i] = there
      /\ \A k \in 1..Len(arrays[p]) \ {i} : arrays'[p][k] = arrays[p][k]
  BY <1>3, <1>5 DEF row
<1>7. \A a \in 1..Len(arrays) : Len(arrays'[a]) = Len(arrays[a])
  BY <1>5, <1>6
<1>8. Spans' = arrays'[Len(arrays)] /\ Len(Spans') = Len(Spans) /\ Started' = Started
  BY <1>1, <1>5, <1>7 DEF Spans, Last, Started
<1>9. /\ asked' \in Seq(Span) /\ Len(asked') = Len(asked) /\ asked'[i] = here
      /\ \A k \in 1..Len(asked) \ {i} : asked'[k] = asked[k]
  BY <1>2
<1>10. TypeOK'
  <2>1. settled' \subseteq 1..MaxSpans
    <3>1. Len(Spans) <= MaxSpans /\ MaxSpans \in Nat /\ settled \subseteq 1..MaxSpans
      BY TraceAssumption DEF TraceAssumption, Inv, TypeOK, Spans
    <3>2. i \in 1..MaxSpans
      BY <1>1, <1>2, <3>1
    <3>. QED
      BY <3>1, <3>2
  <2>2. pointer' \in Seq(1..Len(arrays')) /\ attrs' \in Seq(0..MaxEvents) /\ arrays' # <<>>
    BY <1>1, <1>2, <1>5 DEF Inv, TypeOK
  <2>3. Len(Spans') <= MaxSpans
    BY <1>8 DEF Inv, TypeOK, Spans
  <2>. QED
    BY <1>5, <1>9, <2>1, <2>2, <2>3 DEF TypeOK, Spans
<1>11. CopiesAsked'
  <2> SUFFICES ASSUME NEW a \in 1..Len(arrays'), NEW k \in 1..Len(arrays'[a])
               PROVE  k <= Len(asked') /\ ShowsAtMost(arrays'[a][k], asked'[k])
    BY DEF CopiesAsked
  <2>1. /\ a \in 1..Len(arrays) /\ k \in 1..Len(arrays[a]) /\ arrays[a] \in Seq(Span)
        /\ arrays[a][k] \in Span
    BY <1>1, <1>5, <1>7
  <2>2. k <= Len(asked) /\ ShowsAtMost(arrays[a][k], asked[k])
    BY <2>1 DEF Inv, CopiesAsked
  <2>3. k \in 1..Len(asked) /\ asked[k] \in Span
    BY <1>2, <2>1, <2>2
  <2>4. CASE a = p /\ k = i
    BY <1>6, <1>9, <2>2, <2>4
  <2>5. CASE ~(a = p /\ k = i)
    <3>1. arrays'[a][k] = arrays[a][k]
      BY <1>5, <1>6, <2>1, <2>5
    <3>2. CASE k # i
      BY <1>9, <2>2, <2>3, <3>1, <3>2
    <3>3. CASE k = i
      <4>1. arrays[a][k].events \in Nat /\ asked[k].events \in Nat /\ here.events \in Nat
        BY <2>1, <2>3 DEF Span
      <4>2. ShowsAtMost(arrays[a][k], here)
        BY <2>2, <3>3, <4>1 DEF ShowsAtMost
      <4>. QED
        BY <1>9, <2>2, <3>1, <3>3, <4>2
    <3>. QED
      BY <3>2, <3>3
  <2>. QED
    BY <2>4, <2>5
<1>12. PointersLead'
  <2>1. \A k \in 1..Len(pointer) : pointer[k] \in 1..Len(arrays) /\ k \in 1..Len(arrays[pointer[k]])
    BY <1>2 DEF Inv, PointersLead
  <2>2. \A k \in 1..Len(pointer) : Len(arrays'[pointer[k]]) = Len(arrays[pointer[k]])
    BY <1>7, <2>1
  <2>3. \A k \in 1..Len(pointer) : k \in 1..Len(arrays'[pointer[k]])
    BY <2>1, <2>2, Zenon
  <2>4. pointer' = pointer /\ (Len(pointer) # 0 => pointer[Len(pointer)] = Len(arrays'))
    BY <1>5 DEF Inv, PointersLead
  <2>. QED
    BY <2>3, <2>4, Zenon DEF PointersLead
<1>13. SettledEnded'
  <2>1. \A k \in Started : Spans[k].ended => Spans'[k].ended
    <3> TAKE k \in Started
    <3>1. CASE p = Len(arrays) /\ k = i
      BY <1>1, <1>6, <1>8, <3>1 DEF p
    <3>2. CASE ~(p = Len(arrays) /\ k = i)
      <4>1. Spans'[k] = Spans[k]
        BY <1>1, <1>5, <1>6, <1>8, <3>2 DEF Started
      <4>. QED
        BY <4>1
    <3>. QED
      BY <3>1, <3>2
  <2>2. i = Len(Spans) => p = Len(arrays)
    BY <1>2 DEF Inv, PointersLead, p
  <2>3. i = Len(Spans) => Spans'[i] = there
    BY <1>6, <1>8, <2>2
  <2>. QED
    BY <1>8, <2>1, <2>3 DEF Inv, SettledEnded
<1>. QED
  BY <1>2, <1>8, <1>9, <1>10, <1>11, <1>12, <1>13 DEF Inv

LEMMA EndInv ==
  ASSUME Inv, NEW i \in Started, NEW status \in Statuses, EndSpan(i, status)
  PROVE  Inv'
<1> DEFINE there == Finished(arrays[pointer[i]][i], status)
           here == Finished(asked[i], status)
<1>1. /\ arrays[pointer[i]][i] \in Span /\ asked[i] \in Span
      /\ ShowsAtMost(arrays[pointer[i]][i], asked[i]) /\ ~asked[i].ended
  BY CopyIs DEF EndSpan
<1>2. /\ there \in Span /\ here \in Span /\ there.ended /\ here.ended
      /\ there.status = here.status
      /\ there.events = arrays[pointer[i]][i].events /\ here.events = asked[i].events
  BY <1>1 DEF Finished, Span
<1>3. /\ arrays' = [arrays EXCEPT ![pointer[i]][i] = there]
      /\ asked' = [asked EXCEPT ![i] = here]
      /\ settled' = settled \/ (i = Len(Spans) /\ settled' = settled \cup {i})
      /\ UNCHANGED <<pointer, attrs>>
  BY DEF EndSpan
<1> HIDE DEF there, here
<1>4. asked[i].events <= here.events /\ ShowsAtMost(there, here)
  BY <1>1, <1>2 DEF Span, ShowsAtMost
<1>. QED
  BY <1>1, <1>2, <1>3, <1>4, WriteInv

LEMMA EventInv ==
  ASSUME Inv, NEW i \in Started, AddEvent(i)
  PROVE  Inv'
<1> DEFINE there == WithEvent(arrays[pointer[i]][i])
           here == WithEvent(asked[i])
<1>1. /\ arrays[pointer[i]][i] \in Span /\ asked[i] \in Span
      /\ ShowsAtMost(arrays[pointer[i]][i], asked[i])
  BY CopyIs
<1>2. /\ there.events = arrays[pointer[i]][i].events + 1 /\ here.events = asked[i].events + 1
      /\ there.ended = arrays[pointer[i]][i].ended /\ here.ended = asked[i].ended
      /\ there.status = arrays[pointer[i]][i].status /\ here.status = asked[i].status
      /\ there = [status |-> there.status, ended |-> there.ended, events |-> there.events]
      /\ here = [status |-> here.status, ended |-> here.ended, events |-> here.events]
  BY DEF WithEvent
<1>3. /\ arrays' = [arrays EXCEPT ![pointer[i]][i] = there]
      /\ asked' = [asked EXCEPT ![i] = here]
      /\ settled' = settled /\ asked[i].events < MaxEvents
      /\ UNCHANGED <<pointer, attrs>>
  BY DEF AddEvent
<1> HIDE DEF there, here
<1>4. MaxEvents \in Nat /\ arrays[pointer[i]][i].events \in Nat /\ asked[i].events \in Nat
  BY <1>1, TraceAssumption DEF TraceAssumption, Span
<1>5. /\ there.events \in 0..MaxEvents /\ here.events \in 0..MaxEvents
      /\ asked[i].events <= here.events /\ ShowsAtMost(there, here)
  BY <1>1, <1>2, <1>3, <1>4 DEF ShowsAtMost
<1>6. there \in Span /\ here \in Span
  BY <1>1, <1>2, <1>5 DEF Span
<1>. QED
  BY <1>1, <1>2, <1>3, <1>5, <1>6, WriteInv

LEMMA AttrInv ==
  ASSUME Inv, NEW i \in Started, SetAttr(i)
  PROVE  Inv'
<1>1. /\ attrs \in Seq(0..MaxEvents) /\ i \in 1..Len(attrs) /\ MaxEvents \in Nat
      /\ attrs[i] < MaxEvents /\ attrs' = [attrs EXCEPT ![i] = attrs[i] + 1]
      /\ UNCHANGED <<arrays, pointer, asked, settled>>
  BY TraceAssumption DEF TraceAssumption, Inv, TypeOK, SetAttr, Started
<1>2. attrs' \in Seq(0..MaxEvents) /\ Len(attrs') = Len(attrs)
  BY <1>1
<1>. QED
  BY <1>1, <1>2 DEF Inv, TypeOK, CopiesAsked, PointersLead, SettledEnded, Spans, Started

LEMMA Invariant == Spec => []Inv
<1>1. Inv /\ [Next]_vars => Inv'
  <2> SUFFICES ASSUME Inv, [Next]_vars PROVE Inv'
    OBVIOUS
  <2>1. CASE UNCHANGED vars
    BY <2>1 DEF vars, Inv, TypeOK, CopiesAsked, PointersLead, SettledEnded, Spans, Started
  <2>. QED
    BY <2>1, StartInv, EndInv, EventInv, AttrInv DEF Next
<1>. QED
  BY <1>1, InitInv, PTL DEF Spec

\* For any number of spans and however the slice grows, an operation on one span
\* leaves no mark, end, status or event, on another.
THEOREM ShowsOnlyWhatWasAskedAlways == Spec => []ShowsOnlyWhatWasAsked
<1>1. Inv => ShowsOnlyWhatWasAsked
  <2> SUFFICES ASSUME Inv PROVE ShowsOnlyWhatWasAsked
    OBVIOUS
  <2>1. /\ Len(arrays) \in 1..Len(arrays) /\ Spans = arrays[Len(arrays)]
        /\ Len(Spans) = Len(asked)
    BY SpansIs DEF Inv
  <2>. QED
    BY <2>1 DEF Inv, CopiesAsked, ShowsOnlyWhatWasAsked, Started
<1>. QED
  BY <1>1, Invariant, PTL

\* For any number of spans, a span that was ended before the next one was started
\* is ended, with the status it was ended with, in the trace the client gets.
THEOREM LeafSpansEndedAlways == Spec => []LeafSpansEnded
<1>1. Inv => LeafSpansEnded
  <2> SUFFICES ASSUME Inv, NEW i \in settled
               PROVE  Spans[i].ended /\ Spans[i].status = asked[i].status
    BY DEF LeafSpansEnded
  <2>1. i \in Started /\ Spans[i].ended
    BY DEF Inv, SettledEnded
  <2>2. /\ Len(arrays) \in 1..Len(arrays) /\ Spans = arrays[Len(arrays)]
        /\ i \in 1..Len(Spans)
    BY <2>1, SpansIs DEF Started
  <2>3. ShowsAtMost(Spans[i], asked[i])
    BY <2>2 DEF Inv, CopiesAsked
  <2>. QED
    BY <2>1, <2>3 DEF ShowsAtMost
<1>. QED
  BY <1>1, Invariant, PTL
=============================================================================
