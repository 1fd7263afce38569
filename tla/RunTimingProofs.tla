-------------------------- MODULE RunTimingProofs --------------------------
(* Theorems about RunTiming, for every value of its time-outs and bounds. *)
EXTENDS RunTiming, TLAPS

-----------------------------------------------------------------------------
(* Type correctness *)

\* Until the loop ends, a step of it is still to be counted.
StepOpen == pc \in Remote \cup {"tool", "audit"} => steps < MaxSteps

Inv == TypeOK /\ StepOpen

LEMMA InitInv == Init => Inv
<1> SUFFICES ASSUME Init PROVE Inv
  OBVIOUS
<1>1. over \in BOOLEAN /\ saved \in BOOLEAN
  BY DEF Init
<1>2. steps \in 0..MaxSteps /\ commands \in 0..MaxCommands /\ steps < MaxSteps
  BY TimingAssumption DEF TimingAssumption, Init
<1>3. now \in Nat /\ attempt \in 0..MaxRetries /\ began \in 0..now /\ since \in 0..now
  BY DEF Init, MaxRetries
<1>4. /\ pc \in Points /\ wire \in Wires
      /\ client \in {"waiting", "answered", "cut", "expired", "gone"}
      /\ doomed \in 0..now \cup {NotYet}
  BY DEF Init, Points, Remote, Wires
<1>. QED
  BY <1>1, <1>2, <1>3, <1>4 DEF Inv, TypeOK, StepOpen

LEMMA NextInv == Inv /\ [Next]_vars => Inv'
<1> SUFFICES ASSUME Inv, [Next]_vars PROVE Inv'
  OBVIOUS
<1> USE TimingAssumption DEF TimingAssumption, Inv, TypeOK, StepOpen, Points, Remote, Wires, MaxRetries
<1>1. CASE Send
  BY <1>1 DEF Send, InCall
<1>2. CASE CallEnds
  BY <1>2 DEF CallEnds, AfterCall, BeginCall, InCall, callVars
<1>3. CASE TransientFailure
  BY <1>3 DEF TransientFailure, InCall
<1>4. CASE BackoffEnds
  BY <1>4 DEF BackoffEnds, InCall
<1>5. CASE CommandEnds
  BY <1>5 DEF CommandEnds, callVars
<1>6. CASE ToolEnds
  BY <1>6 DEF ToolEnds, callVars
<1>7. CASE AuditEnds
  BY <1>7 DEF AuditEnds, MoreSteps, BeginCall, callVars
<1>8. CASE Save
  BY <1>8 DEF Save, Saved, callVars
<1>9. CASE Write
  BY <1>9 DEF Write, callVars
<1>10. CASE ClientTimesOut \/ ClientLeaves \/ ContextEnds
  <2>1. doomed' \in 0..now \cup {NotYet}
    BY <1>10 DEF ClientTimesOut, ClientLeaves, ContextEnds, Doom
  <2>2. /\ UNCHANGED <<now, pc, wire, attempt, began, since, commands, steps, saved>>
        /\ client' \in {client, "expired", "gone"}
    BY <1>10 DEF ClientTimesOut, ClientLeaves, ContextEnds, callVars
  <2>3. over' \in BOOLEAN
    BY <1>10 DEF ClientTimesOut, ClientLeaves, ContextEnds
  <2>. QED
    BY <2>1, <2>2, <2>3
<1>11. CASE Tick
  <2>1. now' = now + 1 /\ UNCHANGED <<pc, wire, attempt, began, since, commands, steps,
                                      over, client, saved, doomed>>
    BY <1>11 DEF Tick, callVars
  <2>2. now' \in Nat /\ 0..now \subseteq 0..now'
    BY <2>1
  <2>3. began' \in 0..now' /\ since' \in 0..now' /\ doomed' \in 0..now' \cup {NotYet}
    BY <2>1, <2>2
  <2>. QED
    BY <2>1, <2>2, <2>3
<1>12. CASE UNCHANGED vars
  BY <1>12 DEF vars, callVars
<1>. QED
  BY <1>1, <1>2, <1>3, <1>4, <1>5, <1>6, <1>7, <1>8, <1>9, <1>10, <1>11, <1>12
     DEF Next, Handler

LEMMA Invariant == Spec => []Inv
  BY InitInv, NextInv, PTL DEF Spec

\* Every variable keeps its type, whatever the time-outs are.
THEOREM TimingTypeCorrect == Spec => []TypeOK
<1>1. Inv => TypeOK
  BY DEF Inv
<1>. QED
  BY <1>1, Invariant, PTL

-----------------------------------------------------------------------------
(* The retries of a remote call *)

\* What the backoffs before attempt k take, and what all before it may take.
Waited(k) == IF k = 0 THEN 0 ELSE IF k = 1 THEN 1 ELSE 3
Spent(k)  == IF k = 0 THEN 0 ELSE IF k = 1 THEN CallTimeout + 1 ELSE 2 * CallTimeout + 3

\* Where a call stands between the earliest and the latest it can be there.
CallInv ==
  pc \in Remote =>
    /\ wire = "ready" =>
         now = since /\ began + Waited(attempt) <= since /\ since <= began + Spent(attempt)
    /\ wire = "sent" =>
         /\ began + Waited(attempt) <= since /\ since <= began + Spent(attempt)
         /\ now <= since + CallTimeout
    /\ wire = "backoff" =>
         /\ attempt > 0
         /\ began + Waited(attempt - 1) <= since
         /\ since <= began + Spent(attempt - 1) + CallTimeout
         /\ now <= since + Delay(attempt)

LEMMA NextCallInv == Inv /\ CallInv /\ [Next]_vars => CallInv'
<1> SUFFICES ASSUME Inv, CallInv, [Next]_vars PROVE CallInv'
  OBVIOUS
<1> USE TimingAssumption DEF TimingAssumption, Inv, TypeOK, CallInv, Points, Remote, Wires, MaxRetries,
        Waited, Spent, Delay
<1>1. CASE Send
  BY <1>1 DEF Send, InCall
<1>2. CASE CallEnds
  BY <1>2 DEF CallEnds, AfterCall, BeginCall, InCall
<1>3. CASE TransientFailure
  BY <1>3 DEF TransientFailure, InCall
<1>4. CASE BackoffEnds
  BY <1>4 DEF BackoffEnds, InCall
<1>5. CASE CommandEnds
  BY <1>5 DEF CommandEnds
<1>6. CASE ToolEnds
  BY <1>6 DEF ToolEnds
<1>7. CASE AuditEnds
  BY <1>7 DEF AuditEnds, BeginCall
<1>8. CASE Save \/ Write
  BY <1>8 DEF Save, Write
<1>9. CASE ClientTimesOut \/ ClientLeaves \/ ContextEnds
  BY <1>9 DEF ClientTimesOut, ClientLeaves, ContextEnds, callVars
<1>10. CASE Tick
  BY <1>10 DEF Tick, MayWait, InCall, callVars
<1>11. CASE UNCHANGED vars
  BY <1>11 DEF vars, callVars
<1>. QED
  BY <1>1, <1>2, <1>3, <1>4, <1>5, <1>6, <1>7, <1>8, <1>9, <1>10, <1>11
     DEF Next, Handler

LEMMA CallInvariant == Spec => [](Inv /\ CallInv)
<1>1. Init => CallInv
  BY TimingAssumption DEF TimingAssumption, Init, CallInv, Waited, Spent
<1>. QED
  BY <1>1, InitInv, NextInv, NextCallInv, PTL DEF Spec

\* A remote call takes at most three attempts and both backoffs, for any
\* time-out of an attempt.
THEOREM CallsAreBounded == Spec => []CallBounded
<1>1. Inv /\ CallInv => CallBounded
  BY TimingAssumption
     DEF TimingAssumption, Inv, TypeOK, CallInv, CallBounded, Wires, MaxRetries, Spent, Delay
<1>. QED
  BY <1>1, CallInvariant, PTL

\* Repeated requests of one call keep their distance from its beginning.
THEOREM RetriesAreSpaced == Spec => []RetriesSpaced
<1>1. Inv /\ CallInv => RetriesSpaced
  BY DEF Inv, TypeOK, CallInv, RetriesSpaced, InCall, MaxRetries, Waited
<1>. QED
  BY <1>1, CallInvariant, PTL

-----------------------------------------------------------------------------
(* The end of a run *)

\* A run is doomed exactly by what ends its context, and time stands still then.
DoomInv ==
  pc # "done" =>
    /\ doomed # NotYet <=> over \/ client \in {"expired", "gone"}
    /\ doomed # NotYet => now = doomed
    /\ now <= RunDeadline

LEMMA NextDoomInv == Inv /\ DoomInv /\ [Next]_vars => DoomInv'
<1> SUFFICES ASSUME Inv, DoomInv, [Next]_vars PROVE DoomInv'
  OBVIOUS
<1> USE TimingAssumption DEF TimingAssumption, Inv, TypeOK, DoomInv
<1>1. CASE Send \/ CallEnds \/ TransientFailure \/ BackoffEnds
  BY <1>1 DEF Send, CallEnds, TransientFailure, BackoffEnds, InCall, Remote
<1>2. CASE CommandEnds \/ ToolEnds \/ AuditEnds \/ Save
  BY <1>2 DEF CommandEnds, ToolEnds, AuditEnds, Save
<1>3. CASE Write
  BY <1>3 DEF Write
<1>4. CASE ClientTimesOut \/ ClientLeaves \/ ContextEnds
  BY <1>4 DEF ClientTimesOut, ClientLeaves, ContextEnds, Doom
<1>5. CASE Tick
  <2>1. ~over /\ pc # "done"
    BY <1>5 DEF Tick, MayWait, InCall, Remote
  <2>2. now < RunDeadline /\ client \notin {"expired", "gone"}
    BY <1>5, <2>1 DEF Tick, ContextDue
  <2>3. doomed = NotYet
    BY <2>1, <2>2
  <2>. QED
    BY <1>5, <2>1, <2>2, <2>3 DEF Tick
<1>6. CASE UNCHANGED vars
  BY <1>6 DEF vars
<1>. QED
  BY <1>1, <1>2, <1>3, <1>4, <1>5, <1>6 DEF Next, Handler

\* A run without a client or past its deadline is over within the second,
\* whatever time-outs are configured.
THEOREM RunsEndPromptly == Spec => []EndsPromptly
<1>1. Init => DoomInv
  BY TimingAssumption DEF TimingAssumption, Init, DoomInv
<1>2. DoomInv => EndsPromptly
  BY DEF DoomInv, EndsPromptly
<1>. QED
  BY <1>1, <1>2, InitInv, NextInv, NextDoomInv, PTL DEF Spec

\* Between Save and the end, the run is in the store; and the client is told
\* of it at the end only.
KeptInv ==
  /\ pc \in {"write", "done"} => saved
  /\ client \in {"answered", "cut"} => pc = "done"

\* No run is lost, and none is announced before it is saved.
THEOREM RunsAreKeptAlways == Spec => []RunsAreKept
<1>1. Init => KeptInv
  BY DEF Init, KeptInv
<1>2. KeptInv /\ [Next]_vars => KeptInv'
  <2> SUFFICES ASSUME KeptInv, [Next]_vars PROVE KeptInv'
    OBVIOUS
  <2> USE DEF KeptInv
  <2>1. CASE Send \/ CallEnds \/ TransientFailure \/ BackoffEnds
    BY <2>1 DEF Send, CallEnds, TransientFailure, BackoffEnds, AfterCall, BeginCall,
                InCall, Remote
  <2>2. CASE CommandEnds \/ ToolEnds \/ AuditEnds
    BY <2>2 DEF CommandEnds, ToolEnds, AuditEnds, BeginCall
  <2>3. CASE Save
    BY <2>3 DEF Save, Saved
  <2>4. CASE Write
    BY <2>4 DEF Write
  <2>5. CASE ClientTimesOut \/ ClientLeaves \/ ContextEnds \/ Tick
    BY <2>5 DEF ClientTimesOut, ClientLeaves, ContextEnds, Tick
  <2>6. CASE UNCHANGED vars
    BY <2>6 DEF vars
  <2>. QED
    BY <2>1, <2>2, <2>3, <2>4, <2>5, <2>6 DEF Next, Handler
<1>3. KeptInv => RunsAreKept
  BY DEF KeptInv, RunsAreKept
<1>. QED
  BY <1>1, <1>2, <1>3, PTL DEF Spec
=============================================================================
