--------------------------- MODULE ReasoningTrace ---------------------------
(***************************************************************************)
(* The builder of the reasoning trace (internal/reasoningtrace/types.go).  *)
(* StartSpan appends a span to the slice that is returned to the client    *)
(* and keeps a pointer into that slice; EndSpan, AddEvent and SetAttr      *)
(* write through the pointer.  A slice that grows moves to a larger array, *)
(* and a pointer taken before still points into the old one.               *)
(*                                                                         *)
(* The spans are the numbers 1, 2, ... in the order they are started;      *)
(* under the builder's lock every operation is atomic.                     *)
(***************************************************************************)
EXTENDS Naturals, Sequences, FiniteSets, SequencesExt

CONSTANTS
  Statuses,   \* the statuses EndSpan is called with
  MaxSpans,   \* bound: spans of a trace
  MaxEvents   \* bound: events and attributes of a span

ASSUME TraceAssumption == {MaxSpans, MaxEvents} \subseteq Nat /\ "ok" \in Statuses

VARIABLES
  arrays,   \* every backing array so far; the last one is Trace.Spans
  pointer,  \* TraceBuilder.spans: the array each span's pointer points into
  attrs,    \* how many attributes each span's map holds; copies share the map
  asked,    \* history: what the callers asked of each span
  settled   \* history: spans ended while they were the newest span

vars == <<arrays, pointer, attrs, asked, settled>>

\* A span with its own fields; `ended' is whether EndedAt is set.
Span == [status : Statuses, ended : BOOLEAN, events : 0..MaxEvents]

NewSpan == [status |-> "ok", ended |-> FALSE, events |-> 0]

TypeOK ==
  /\ arrays \in Seq(Seq(Span)) /\ arrays # <<>>
  /\ pointer \in Seq(1..Len(arrays))
  /\ attrs \in Seq(0..MaxEvents)
  /\ asked \in Seq(Span)
  /\ settled \subseteq 1..MaxSpans
  /\ Len(Last(arrays)) <= MaxSpans

Init == arrays = << <<>> >> /\ pointer = <<>> /\ attrs = <<>> /\ asked = <<>> /\ settled = {}

Spans == Last(arrays)    \* ReasoningTrace.Spans
Started == 1..Len(Spans)

\* append finds the array full: with 168-byte spans its capacity is 0, and then
\* the powers of two.
Full == Len(Spans) \in {0, 1, 2, 4, 8, 16}

StartSpan ==
  /\ Len(Spans) < MaxSpans
  /\ arrays' = IF Full THEN Append(arrays, Append(Spans, NewSpan))
                       ELSE [arrays EXCEPT ![Len(arrays)] = Append(@, NewSpan)]
  /\ pointer' = Append(pointer, Len(arrays'))
  /\ attrs' = Append(attrs, 0)
  /\ asked' = Append(asked, NewSpan)
  /\ UNCHANGED settled

Finished(span, status) == [status |-> status, ended |-> TRUE, events |-> span.events]
WithEvent(span) == [status |-> span.status, ended |-> span.ended, events |-> span.events + 1]

\* Mistakes: the newest span is finished instead; the status is not set.
EndSpanNewest(i, status) ==
  /\ ~asked[i].ended
  /\ arrays' = [arrays EXCEPT ![Len(arrays)][Len(Spans)] = Finished(@, status)]
  /\ asked' = [asked EXCEPT ![i] = Finished(@, status)]
  /\ settled' = IF i = Len(Spans) THEN settled \cup {i} ELSE settled
  /\ UNCHANGED <<pointer, attrs>>

EndSpanNoStatus(i, status) ==
  /\ ~asked[i].ended
  /\ arrays' = [arrays EXCEPT ![pointer[i]][i].ended = TRUE]
  /\ asked' = [asked EXCEPT ![i] = Finished(@, status)]
  /\ settled' = IF i = Len(Spans) THEN settled \cup {i} ELSE settled
  /\ UNCHANGED <<pointer, attrs>>

\* FinishSpan, on the span its pointer leads to.  No caller ends a span twice,
\* or with an empty status, which would keep the one it has.
EndSpan(i, status) ==
  /\ ~asked[i].ended
  /\ arrays' = [arrays EXCEPT ![pointer[i]][i] = Finished(@, status)]
  /\ asked' = [asked EXCEPT ![i] = Finished(@, status)]
  /\ settled' = IF i = Len(Spans) THEN settled \cup {i} ELSE settled
  /\ UNCHANGED <<pointer, attrs>>

\* AddEventToSpan appends to the events of that span only.
AddEvent(i) ==
  /\ asked[i].events < MaxEvents
  /\ arrays' = [arrays EXCEPT ![pointer[i]][i] = WithEvent(@)]
  /\ asked' = [asked EXCEPT ![i] = WithEvent(@)]
  /\ UNCHANGED <<pointer, attrs, settled>>

\* SetSpanAttribute writes to the map that every copy of the span shares.
SetAttr(i) ==
  /\ attrs[i] < MaxEvents
  /\ attrs' = [attrs EXCEPT ![i] = @ + 1]
  /\ UNCHANGED <<arrays, pointer, asked, settled>>

Next ==
  \/ StartSpan
  \/ \E i \in Started :
       \/ \E status \in Statuses : EndSpan(i, status)
       \/ AddEvent(i)
       \/ SetAttr(i)

Spec == Init /\ [][Next]_vars

-----------------------------------------------------------------------------
(* Properties *)

\* What a copy of a span shows was asked of it: its events, and that it is
\* ended, with the status it was ended with; else it has the one it started with.
ShowsAtMost(copy, all) ==
  /\ copy.ended => all.ended /\ copy.status = all.status
  /\ ~copy.ended => copy.status = NewSpan.status
  /\ copy.events <= all.events

\* The trace never shows on a span what was not asked of that span: however the
\* slice grows and wherever the pointers lead, an operation on one span leaves
\* no mark, end, status or event, on another.  (TraceBuilder)
ShowsOnlyWhatWasAsked ==
  /\ Len(Spans) = Len(asked)
  /\ \A i \in Started : ShowsAtMost(Spans[i], asked[i])

\* A span that is ended before the next one is started is ended, with that
\* status, in the trace the client gets, however the slice grows afterwards.
\* The tool_policy and exec_proxy spans of a step are of this kind.
LeafSpansEnded ==
  \A i \in settled : Spans[i].ended /\ Spans[i].status = asked[i].status
=============================================================================
