--------------------------- MODULE ExecutionProofs ---------------------------
(***************************************************************************)
(* Theorems about Execution, for every number of threads, contexts, slots  *)
(* and slices: its handles use the scheduler as Scheduler describes it,    *)
(* one of them at a time is in a slice, none is passed by twice, and no    *)
(* run is left behind in a context.                                        *)
(***************************************************************************)
EXTENDS Execution, TLAPS, FiniteSetTheorems, SequenceTheorems

\* What is proved of the scheduler, about the scheduler of the handles.
SP == INSTANCE SchedulerProofs

----------------------------------------------------------------------------
(* The two instances of Scheduler are the same.                            *)

LEMMA SameOperators ==
  /\ SP!Slot = Slot
  /\ \A q, s : SP!RemoveFirst(q, s) = Sched!RemoveFirst(q, s)
  /\ \A q, s : SP!PushBack(q, s) = Sched!PushBack(q, s)
  /\ \A q, s : SP!Rotate(q, s) = Sched!Rotate(q, s)
<1>1. \A q, s : SP!RemoveFirst(q, s) = Sched!RemoveFirst(q, s)
  BY DEF SP!RemoveFirst, Sched!RemoveFirst, SP!RemoveAt, Sched!RemoveAt,
         SP!SelectInSeq, Sched!SelectInSeq, SP!Min, Sched!Min
<1>2. \A q, s : SP!PushBack(q, s) = Sched!PushBack(q, s)
  BY DEF SP!PushBack, Sched!PushBack, SP!Contains, Sched!Contains
<1>3. \A q, s : SP!Rotate(q, s) = Sched!Rotate(q, s)
  BY DEF SP!Rotate, Sched!Rotate, SP!IsHead, Sched!IsHead
<1> QED
  BY <1>1, <1>2, <1>3 DEF SP!Slot, Slot, Sched!Slot

LEMMA SameInit == Sched!Init => SP!Init
BY SameOperators DEF Sched!Init, SP!Init, Slot

LEMMA SameAdmit ==
  ASSUME NEW t \in Thread
  PROVE  Sched!Admit(t) => SP!Admit(t)
<1>1. Sched!Busy(t) <=> SP!Busy(t)
  BY SameOperators DEF Sched!Busy, SP!Busy, Sched!Releasing, SP!Releasing, Slot
<1> QED
  BY <1>1, Zenon
     DEF Sched!Admit, SP!Admit, Sched!AdmitActive, SP!AdmitActive,
         Sched!AdmitQueued, SP!AdmitQueued, Sched!AdmitRefused, SP!AdmitRefused,
         Sched!HasRoom, SP!HasRoom, Sched!Enqueue, SP!Enqueue, Sched!NewSlot, SP!NewSlot

LEMMA SameDrop ==
  ASSUME NEW s \in Slot
  PROVE  /\ Sched!DropSlot(s) => SP!DropSlot(s)
         /\ Sched!ReleaseActive(s) => SP!ReleaseActive(s)
         /\ Sched!ReleaseQueued(s) => SP!ReleaseQueued(s)
<1>1. \A t : Sched!Busy(t) <=> SP!Busy(t)
  BY SameOperators DEF Sched!Busy, SP!Busy, Sched!Releasing, SP!Releasing, Slot
<1>2. Sched!DropSlot(s) => SP!DropSlot(s)
  BY <1>1 DEF Sched!DropSlot, SP!DropSlot, Sched!ReleaseCall, SP!ReleaseCall
<1>3. Sched!ReleaseActive(s) => SP!ReleaseActive(s)
  BY SameOperators, Zenon
     DEF Sched!ReleaseActive, SP!ReleaseActive, Sched!RemoveTurn, SP!RemoveTurn,
         Sched!NobodyWaits, SP!NobodyWaits
<1>4. Sched!ReleaseQueued(s) => SP!ReleaseQueued(s)
  BY SameOperators, Zenon
     DEF Sched!ReleaseQueued, SP!ReleaseQueued, Sched!LeaveQueue, SP!LeaveQueue
<1> QED
  BY <1>2, <1>3, <1>4

LEMMA SameTurn ==
  ASSUME NEW s \in Slot
  PROVE  /\ Sched!RunTurnPushBack(s) => SP!RunTurnPushBack(s)
         /\ Sched!RunTurnRotate(s) => SP!RunTurnRotate(s)
         /\ Sched!RunTurnRemove(s) => SP!RunTurnRemove(s)
<1>1. \A t : Sched!Busy(t) <=> SP!Busy(t)
  BY SameOperators DEF Sched!Busy, SP!Busy, Sched!Releasing, SP!Releasing, Slot
<1>2. \A q : Sched!UseTurn(s, q) => SP!UseTurn(s, q)
  BY <1>1, Zenon DEF Sched!UseTurn, SP!UseTurn
<1> QED
  BY <1>2, SameOperators
     DEF Sched!RunTurnPushBack, SP!RunTurnPushBack, Sched!RunTurnRotate, SP!RunTurnRotate,
         Sched!RunTurnRemove, SP!RunTurnRemove, Sched!RemoveTurn, SP!RemoveTurn

LEMMA SameStep == [Sched!Next]_(Sched!vars) => [SP!Next]_(SP!vars)
<1>1. UNCHANGED Sched!vars => UNCHANGED SP!vars
  BY DEF Sched!vars, SP!vars
<1>2. Sched!Next => SP!Next
  BY SameAdmit, SameDrop, SameTurn, SameOperators DEF Sched!Next, SP!Next, Slot
<1> QED
  BY <1>1, <1>2

----------------------------------------------------------------------------
(* Every step of the handles is a step of the scheduler or leaves it alone. *)

LEMMA SchedulerStep == [Next]_vars => [Sched!Next]_(Sched!vars)
<1> SUFFICES ASSUME [Next]_vars
             PROVE  [Sched!Next]_(Sched!vars)
  OBVIOUS
<1>1. CASE UNCHANGED vars
  BY <1>1 DEF vars, changing, scheduler, Sched!vars
<1>2. ASSUME NEW t \in Thread, CreateExecution(t) \/ Execute(t)
      PROVE  Sched!Next
  BY <1>2 DEF CreateExecution, Execute, Start, Sched!Next
<1>3. ASSUME NEW s \in Slot, Poll(s)
      PROVE  [Sched!Next]_(Sched!vars)
  <2>1. Register(s) => [Sched!Next]_(Sched!vars)
    BY DEF Register, Sched!Next, scheduler, Sched!vars, Slot
  <2>2. CASE PollCancelledInQueue(s)
    BY <2>2 DEF PollCancelledInQueue, scheduler, Sched!vars
  <2>3. CASE PollCancelledInHostCall(s)
    BY <2>3 DEF PollCancelledInHostCall, Sched!Next, Slot
  <2> QED
    BY <1>3, <2>1, <2>2, <2>3 DEF Poll, PollPromoted, PollHostResult, PollReady
<1>4. ASSUME NEW s \in Slot, EndSlice(s)
      PROVE  Sched!Next
  <2>1. Sched!RunTurnRotate(s) \/ Sched!RunTurnRemove(s)
    BY <1>4, Zenon DEF EndSlice, SliceYields, SliceCallsHost, SliceTerminates, TurnAfterYield,
              LeaveTurn, Sched!RunTurnRotate
  <2> QED
    BY <2>1 DEF Sched!Next, Slot
<1>5. ASSUME NEW s \in Slot, CheckHead(s) \/ Pause(s) \/ Resume(s) \/ HostCompletes(s)
      PROVE  UNCHANGED Sched!vars
  BY <1>5 DEF CheckHead, Pause, Resume, HostCompletes, scheduler, Sched!vars
<1>6. ASSUME NEW s \in Slot, DropHandle(s) \/ ReleaseSlot(s)
      PROVE  Sched!Next
  BY <1>6 DEF DropHandle, ReleaseSlot, Sched!Next, Slot
<1>7. ASSUME NEW c \in Context, Cancel(c)
      PROVE  UNCHANGED Sched!vars
  BY <1>7 DEF Cancel, scheduler, Sched!vars
<1> QED
  BY <1>1, <1>2, <1>3, <1>4, <1>5, <1>6, <1>7 DEF Next

(***************************************************************************)
(* src/engine.rs: create_execution, poll and Drop call the scheduler's     *)
(* methods as scheduler.rs means them to be called; whatever the handles,  *)
(* the contexts and the threads do, the scheduler sees a behaviour of its  *)
(* own.                                                                    *)
(***************************************************************************)
THEOREM ImplementsSchedulerHolds == Spec => ImplementsScheduler
<1>1. Init => Sched!Init
  BY DEF Init
<1>2. [Next]_vars => [Sched!Next]_(Sched!vars)
  BY SchedulerStep
<1> QED
  BY <1>1, <1>2, PTL DEF Spec, ImplementsScheduler, Sched!Spec

LEMMA SchedulerInv == SP!Inv /\ [Next]_vars => SP!Inv'
BY SchedulerStep, SameStep, SP!StepInv, SchedulerAssumption

\* The scheduler's theorems hold of the engine.
LEMMA SchedulerInvHolds == Spec => []SP!Inv
<1>1. Init => SP!Inv
  BY SameInit, SP!InitInv, SchedulerAssumption DEF Init
<1>2. SP!Inv /\ [Next]_vars => SP!Inv'
  BY SchedulerInv
<1> QED
  BY <1>1, <1>2, PTL DEF Spec

----------------------------------------------------------------------------
(* The run turn: a sequence of slots, each once.                           *)

Once(q) == \A i, j \in 1 .. Len(q) : q[i] = q[j] => i = j

\* What the handles need to know of the scheduler.
LEMMA RunTurnFacts ==
  ASSUME SP!Inv
  PROVE  /\ Sched!TypeOK
         /\ run_turn \in Seq(Slot) /\ Len(run_turn) \in Nat
         /\ Once(run_turn)
         /\ \A s \in Slot : Contains(run_turn, s) =>
              slot_state[s] = "active" /\ token[s] \in {"held", "release_active"}
         /\ \A s \in Slot : token[s] = "none" <=> slot_state[s] = "none"
         /\ \A s \in Slot : s >= next_slot_id => token[s] = "none"
<1>1. SP!TypeOK /\ SP!Fresh /\ SP!RunTurnLive
  BY DEF SP!Inv
<1>2. Sched!TypeOK
  BY <1>1, SameOperators DEF SP!TypeOK, Sched!TypeOK, Slot
<1>3. run_turn \in Seq(Slot) /\ Len(run_turn) \in Nat /\ DOMAIN run_turn = 1 .. Len(run_turn)
  BY <1>2, LenProperties DEF Sched!TypeOK, Slot
<1>4. Once(run_turn)
  BY <1>1, <1>3 DEF SP!RunTurnLive, SP!IsInjective, Once
<1>5. ASSUME NEW s \in Slot, Contains(run_turn, s)
      PROVE  slot_state[s] = "active" /\ token[s] \in {"held", "release_active"}
  BY <1>1, <1>3, <1>5 DEF SP!RunTurnLive, SP!ToSet, Contains
<1> QED
  BY <1>1, <1>2, <1>3, <1>4, <1>5, SameOperators DEF SP!Fresh

\* It is no longer than the engine has active slots.
LEMMA RunTurnLength ==
  ASSUME SP!Inv
  PROVE  Len(run_turn) <= MaxActive
<1> DEFINE n == Len(run_turn)
           A == SP!ActiveSlots
<1>1. \A S : SP!Cardinality(S) = Cardinality(S) /\ (SP!IsFiniteSet(S) <=> IsFiniteSet(S))
  BY DEF SP!Cardinality, Cardinality, SP!IsFiniteSet, IsFiniteSet
<1>2. IsFiniteSet(A) /\ Cardinality(A) \in Nat /\ Cardinality(A) <= MaxActive
  <2>1. SP!IsFiniteSet(A) /\ SP!Cardinality(A) \in Nat
    BY SP!ActiveSlotsFinite, SchedulerAssumption
  <2>2. /\ SP!Cardinality(A) <= active /\ active <= MaxActive
        /\ active \in Nat
    BY DEF SP!Inv, SP!NeverOversubscribed, SP!TypeOK
  <2> HIDE DEF A
  <2>3. IsFiniteSet(A) /\ Cardinality(A) = SP!Cardinality(A)
    BY <1>1, <2>1
  <2> QED
    BY <2>1, <2>2, <2>3, SchedulerAssumption
<1>3. n \in Nat /\ run_turn \in [1 .. n -> Slot]
  BY RunTurnFacts, LenProperties
<1>4. run_turn \in Injection(1 .. n, A)
  <2>1. \A i \in 1 .. n : run_turn[i] \in A
    BY <1>3, RunTurnFacts, SameOperators DEF SP!ActiveSlots, Contains
  <2> QED
    BY <1>3, <2>1, RunTurnFacts DEF Injection, IsInjective, Once
<1>5. Cardinality(1 .. n) <= Cardinality(A)
  BY <1>2, <1>4, FS_Injection
<1>6. Cardinality(1 .. n) = n
  BY <1>3, FS_Interval
<1> HIDE DEF A
<1> QED
  BY <1>2, <1>3, <1>5, <1>6, SchedulerAssumption

LEMMA LastOrEarlier ==
  ASSUME NEW n \in Nat, NEW i \in 1 .. n
  PROVE  i = n \/ i < n
OBVIOUS

\* Leaving the run turn: the others keep their order, and nobody falls back.
LEMMA RemoveTurnFacts ==
  ASSUME NEW q \in Seq(Slot), Once(q), NEW s \in Slot
  PROVE  /\ Sched!RemoveTurn(q, s) \in Seq(Slot)
         /\ \A u : Contains(Sched!RemoveTurn(q, s), u) <=> Contains(q, u) /\ u # s
         /\ \A u : u # s /\ Sched!IsHead(q, u) => Sched!IsHead(Sched!RemoveTurn(q, s), u)
         /\ \A i \in 1 .. Len(Sched!RemoveTurn(q, s)) :
              \E j \in 1 .. Len(q) : /\ Sched!RemoveTurn(q, s)[i] = q[j]
                                     /\ i <= j
                                     /\ Sched!IsHead(q, s) => i < j
<1> DEFINE r == Sched!RemoveTurn(q, s)
<1>1. Len(q) \in Nat /\ DOMAIN q = 1 .. Len(q)
  BY LenProperties
<1>2. r = SP!RemoveFirst(q, s)
  BY SameOperators DEF Sched!RemoveTurn
<1>3. SP!IsInjective(q)
  BY <1>1 DEF SP!IsInjective, Once
<1>4. r \in Seq(Slot) /\ SP!ToSet(r) = SP!ToSet(q) \ {s}
  BY <1>2, <1>3, SP!RemoveFirstElements, SchedulerAssumption
<1>5. Len(r) \in Nat /\ DOMAIN r = 1 .. Len(r)
  BY <1>4, LenProperties
<1>6. CASE \A i \in 1 .. Len(q) : q[i] # s
  <2>1. r = q
    BY <1>6 DEF Sched!RemoveTurn, Sched!RemoveFirst
  <2>2. ~Sched!IsHead(q, s)
    BY <1>1, <1>6, EmptySeq DEF Sched!IsHead
  <2> HIDE DEF r
  <2> QED
    BY <1>1, <1>4, <1>6, <2>1, <2>2 DEF Contains, r
<1>7. CASE \E i \in 1 .. Len(q) : q[i] = s
  <2>1. PICK k \in 1 .. Len(q) : q[k] = s
    BY <1>7
  <2>2. /\ Len(r) = Len(q) - 1
        /\ \A j \in 1 .. Len(q) - 1 : r[j] = IF j < k THEN q[j] ELSE q[j + 1]
    BY <1>2, <1>3, <2>1, SP!RemoveFirstPositions, SchedulerAssumption
  <2> HIDE DEF r
  <2>3. \A u : Contains(r, u) <=> Contains(q, u) /\ u # s
    BY <1>1, <1>4, <1>5 DEF Contains, SP!ToSet
  <2>4. ASSUME NEW u, u # s, Sched!IsHead(q, u)
        PROVE  Sched!IsHead(r, u)
    <3>1. q[1] = u /\ k # 1
      BY <1>1, <2>1, <2>4 DEF Sched!IsHead
    <3>2. 1 \in 1 .. Len(r) /\ r[1] = u
      BY <1>1, <2>1, <2>2, <3>1
    <3> QED
      BY <1>4, <1>5, <3>2, EmptySeq DEF Sched!IsHead
  <2>5. ASSUME NEW i \in 1 .. Len(r)
        PROVE  \E j \in 1 .. Len(q) :
                 r[i] = q[j] /\ i <= j /\ (Sched!IsHead(q, s) => i < j)
    <3>1. CASE i < k
      <4>1. i \in 1 .. Len(q) /\ r[i] = q[i] /\ i <= i
        BY <1>1, <2>2, <3>1
      <4>2. ~Sched!IsHead(q, s)
        BY <1>1, <2>1, <3>1 DEF Sched!IsHead, Once
      <4> QED
        BY <4>1, <4>2
    <3>2. CASE ~(i < k)
      <4>1. i + 1 \in 1 .. Len(q) /\ r[i] = q[i + 1] /\ i < i + 1 /\ i <= i + 1
        BY <1>1, <2>2, <3>2
      <4> QED
        BY <4>1
    <3> QED
      BY <3>1, <3>2
  <2> QED
    BY <1>4, <2>3, <2>4, <2>5 DEF r
<1> QED
  BY <1>6, <1>7

\* Joining it: at the back, or not at all.
LEMMA PushBackFacts ==
  ASSUME NEW q \in Seq(Slot), NEW s \in Slot
  PROVE  /\ \A u : Contains(Sched!PushBack(q, s), u) <=> Contains(q, u) \/ u = s
         /\ \A u : Sched!IsHead(q, u) => Sched!IsHead(Sched!PushBack(q, s), u)
         /\ \A i \in 1 .. Len(Sched!PushBack(q, s)) :
              \/ i \in 1 .. Len(q) /\ Sched!PushBack(q, s)[i] = q[i]
              \/ Sched!PushBack(q, s)[i] = s
<1> DEFINE r == Sched!PushBack(q, s)
<1>1. Len(q) \in Nat /\ DOMAIN q = 1 .. Len(q)
  BY LenProperties
<1>2. CASE Contains(q, s)
  <2>1. r = q
    BY <1>2 DEF Sched!PushBack, Sched!Contains, Contains
  <2> QED
    BY <1>1, <1>2, <2>1 DEF r
<1>3. CASE ~Contains(q, s)
  <2>1. r = Append(q, s)
    BY <1>3 DEF Sched!PushBack, Sched!Contains, Contains
  <2>2. /\ r \in Seq(Slot)
        /\ Len(r) = Len(q) + 1
        /\ \A i \in 1 .. Len(q) : r[i] = q[i]
        /\ r[Len(q) + 1] = s
    BY <2>1, AppendProperties
  <2> HIDE DEF r
  <2>3. \A u : Contains(r, u) <=> Contains(q, u) \/ u = s
    BY <1>1, <2>2 DEF Contains
  <2>4. ASSUME NEW u, Sched!IsHead(q, u)
        PROVE  Sched!IsHead(r, u)
    <3>1. 1 \in 1 .. Len(q) /\ q[1] = u
      BY <1>1, <2>4, EmptySeq DEF Sched!IsHead
    <3> QED
      BY <1>1, <2>2, <3>1, EmptySeq DEF Sched!IsHead
  <2> QED
    BY <1>1, <2>2, <2>3, <2>4 DEF r
<1> QED
  BY <1>2, <1>3

\* Yielding: the head goes to the back and everyone else moves up.
LEMMA RotateFacts ==
  ASSUME NEW q \in Seq(Slot), NEW s \in Slot, Sched!IsHead(q, s)
  PROVE  /\ Len(Sched!Rotate(q, s)) = Len(q)
         /\ \A u : Contains(Sched!Rotate(q, s), u) <=> Contains(q, u)
         /\ \A i \in 1 .. Len(q) - 1 : Sched!Rotate(q, s)[i] = q[i + 1]
         /\ Sched!Rotate(q, s)[Len(q)] = s
<1> DEFINE r == Sched!Rotate(q, s)
<1>1. Len(q) \in Nat /\ DOMAIN q = 1 .. Len(q)
  BY LenProperties
<1>2. q # << >> /\ Len(q) # 0 /\ q[1] = s
  BY <1>1, EmptySeq DEF Sched!IsHead
<1>3. r = Append(Tail(q), s)
  BY DEF Sched!Rotate
<1>4. /\ Tail(q) \in Seq(Slot)
      /\ Len(Tail(q)) = Len(q) - 1
      /\ \A i \in 1 .. Len(Tail(q)) : Tail(q)[i] = q[i + 1]
  BY <1>2, HeadTailProperties
<1>5. /\ Len(r) = Len(q)
      /\ \A i \in 1 .. Len(q) - 1 : r[i] = q[i + 1]
      /\ r[Len(q)] = s
  <2>1. /\ Len(r) = Len(Tail(q)) + 1
        /\ \A i \in 1 .. Len(Tail(q)) : r[i] = Tail(q)[i]
        /\ r[Len(Tail(q)) + 1] = s
    BY <1>3, <1>4, AppendProperties
  <2> HIDE DEF r
  <2> QED
    BY <1>1, <1>4, <2>1
<1> HIDE DEF r
<1>6. ASSUME NEW u, Contains(r, u)
      PROVE  Contains(q, u)
  <2>1. PICK i \in 1 .. Len(q) : r[i] = u
    BY <1>5, <1>6 DEF Contains
  <2>2. CASE i = Len(q)
    <3>1. 1 \in 1 .. Len(q)
      BY <1>1, <1>2
    <3> QED
      BY <1>2, <1>5, <2>1, <2>2, <3>1 DEF Contains
  <2>3. CASE i < Len(q)
    <3>1. i \in 1 .. Len(q) - 1 /\ i + 1 \in 1 .. Len(q)
      BY <1>1, <2>3
    <3> QED
      BY <1>5, <2>1, <3>1 DEF Contains
  <2> QED
    BY <1>1, <2>2, <2>3, LastOrEarlier
<1>7. ASSUME NEW u, Contains(q, u)
      PROVE  Contains(r, u)
  <2>1. PICK i \in 1 .. Len(q) : q[i] = u
    BY <1>7 DEF Contains
  <2>2. CASE i = 1
    BY <1>1, <1>2, <1>5, <2>1, <2>2 DEF Contains
  <2>3. CASE i # 1
    <3>1. i - 1 \in 1 .. Len(q) - 1 /\ (i - 1) + 1 = i
      BY <1>1, <2>1, <2>3
    <3>2. r[i - 1] = u /\ i - 1 \in 1 .. Len(r)
      BY <1>1, <1>5, <2>1, <3>1
    <3> QED
      BY <3>2 DEF Contains
  <2> QED
    BY <2>2, <2>3
<1> QED
  BY <1>5, <1>6, <1>7 DEF r

----------------------------------------------------------------------------
(* The inductive invariant of the handles.                                 *)

\* What they need to know of the scheduler.
TurnFacts ==
  /\ Sched!TypeOK
  /\ run_turn \in Seq(Slot) /\ Len(run_turn) \in Nat /\ Len(run_turn) <= MaxActive
  /\ Once(run_turn)
  /\ \A s \in Slot : Contains(run_turn, s) =>
       slot_state[s] = "active" /\ token[s] \in {"held", "release_active"}
  /\ \A s \in Slot : token[s] = "none" <=> slot_state[s] = "none"
  /\ \A s \in Slot : s >= next_slot_id => token[s] = "none"

LEMMA TurnFactsHold == SP!Inv => TurnFacts
BY RunTurnFacts, RunTurnLength DEF TurnFacts

\* A slot without a handle has not been touched.
Blank ==
  \A s \in Slot : token[s] = "none" =>
    state[s] = "None" /\ stage[s] = "idle" /\ ~registered[s] /\ ~started[s]

\* A poll under way has registered its turn; a queued handle has done nothing.
StagesFit ==
  \A s \in Slot :
    /\ stage[s] # "idle" => token[s] = "held" /\ registered[s]
    /\ stage[s] = "registered" =>
         state[s] \in {"Created", "SliceFuelExhausted", "HostCallPending"}
    /\ state[s] = "AdmissionQueued" => ~registered[s] /\ ~started[s]

\* The slices a handle has watched and those still before it fit the limit.
TurnsBounded ==
  /\ \A s \in Slot : waited[s] < MaxActive
  /\ \A i \in 1 .. Len(run_turn) : waited[run_turn[i]] + i <= MaxActive

Handles ==
  /\ TypeOK
  /\ Blank
  /\ StagesFit
  /\ OneSliceAtATime
  /\ TurnMatchesHandle
  /\ NoSessionLeak
  /\ TurnsBounded

\* Steps that change neither a turn nor what a handle believes of it.
LEMMA FrameHandles ==
  ASSUME Handles, TypeOK',
         UNCHANGED <<token, state, stage, registered, started, context,
                     session, run_turn, waited>>
  PROVE  Handles'
<1>1. Blank' /\ StagesFit'
  BY DEF Handles, Blank, StagesFit
<1>2. OneSliceAtATime' /\ TurnMatchesHandle'
  BY DEF Handles, OneSliceAtATime, InSlice, Sched!IsHead, TurnMatchesHandle, Live
<1>3. NoSessionLeak'
  BY DEF Handles, NoSessionLeak, Live
<1>4. TurnsBounded'
  BY DEF Handles, TurnsBounded
<1> QED
  BY <1>1, <1>2, <1>3, <1>4 DEF Handles

LEMMA InitHandles ==
  ASSUME Init, TurnFacts
  PROVE  Handles
<1>1. run_turn = << >> /\ token = [s \in Slot |-> "none"]
  BY DEF Init, Sched!Init, Slot
<1>2. Len(run_turn) = 0
  BY <1>1, EmptySeq
<1>3. TypeOK
  <2>1. NoSlot \in 0 .. MaxSlots
    BY SchedulerAssumption DEF NoSlot
  <2>2. MaxSlices \in Nat /\ 0 \in 0 .. MaxSlices
    BY ExecutionAssumption
  <2>3. host \in Hosts
    BY DEF Init
  <2> QED
    BY <2>1, <2>2, <2>3 DEF Init, TypeOK, TurnFacts, States, Outcomes
<1>4. Blank /\ StagesFit
  BY DEF Init, Blank, StagesFit
<1>5. OneSliceAtATime /\ TurnMatchesHandle
  BY <1>1, <1>2
     DEF Init, OneSliceAtATime, InSlice, TurnMatchesHandle, Live, Contains
<1>6. NoSessionLeak
  BY DEF Init, NoSessionLeak
<1>7. TurnsBounded
  BY <1>2, SchedulerAssumption DEF Init, TurnsBounded
<1> QED
  BY <1>3, <1>4, <1>5, <1>6, <1>7 DEF Handles

----------------------------------------------------------------------------
(* One lemma per action.                                                   *)

\* The first state of a handle, by the mirror of its slot.
LEMMA FirstState ==
  ASSUME NEW m
  PROVE  LET x == CASE m = "active" -> "Created"
                    [] m = "queued" -> "AdmissionQueued"
                    [] OTHER -> "None"
         IN  /\ x \in {"Created", "AdmissionQueued", "None"}
             /\ m = "none" => x = "None"
<1>1. CASE m = "active"
  BY <1>1, Zenon
<1>2. CASE m = "queued"
  BY <1>2, Zenon
<1>3. CASE m # "active" /\ m # "queued"
  BY <1>3, Zenon
<1> QED
  BY <1>1, <1>2, <1>3

LEMMA StartHandles ==
  ASSUME TurnFacts, TurnFacts', Handles,
         NEW t \in Thread, NEW inExecute \in BOOLEAN, Start(t, inExecute)
  PROVE  Handles'
<1> DEFINE n == next_slot_id
           first == CASE slot_state'[n] = "active" -> "Created"
                      [] slot_state'[n] = "queued" -> "AdmissionQueued"
                      [] OTHER -> "None"
<1>1. /\ n \in Slot /\ token[n] = "none"
      /\ run_turn' = run_turn
      /\ token' = [token EXCEPT ![n] = "held"] \/ token' = token
  <2>1. Sched!Admit(t)
    BY DEF Start
  <2>2. n \in Nat /\ n < MaxSlots
    BY <2>1 DEF Sched!Admit, TurnFacts, Sched!TypeOK
  <2>3. n \in Slot
    BY <2>2, SchedulerAssumption DEF Slot, Sched!Slot
  <2>4. token' = [token EXCEPT ![n] = "held"] \/ token' = token
    BY <2>1 DEF Sched!Admit, Sched!AdmitActive, Sched!AdmitQueued, Sched!AdmitRefused,
                Sched!NewSlot
  <2> QED
    BY <2>1, <2>2, <2>3, <2>4 DEF Sched!Admit, TurnFacts
<1>2. state' = [state EXCEPT ![n] = first]
  BY DEF Start
<1>3. /\ first \in {"Created", "AdmissionQueued", "None"}
      /\ slot_state'[n] = "none" => first = "None"
  BY FirstState
<1>4. UNCHANGED <<paused, stage, outcome, started, registered, ticket,
                  context, slices, cancelled, session, waited, host>>
  BY DEF Start
<1>5. execute' \in [Thread -> 0 .. MaxSlots]
  BY <1>1, SchedulerAssumption DEF Start, Handles, TypeOK, Slot, Sched!Slot
<1>6. /\ token \in [Slot -> {"none", "held", "release_active", "release_queued", "dropped"}]
      /\ token' \in [Slot -> {"none", "held", "release_active", "release_queued", "dropped"}]
      /\ state \in [Slot -> States]
  BY DEF TurnFacts, Sched!TypeOK, Slot, Handles, TypeOK
<1> HIDE DEF n, first
<1>7. TypeOK'
  BY <1>1, <1>2, <1>3, <1>4, <1>5 DEF Handles, TypeOK, TurnFacts, States
<1>8. ASSUME token'[n] = "none"
      PROVE  first = "None"
  BY <1>1, <1>3, <1>8 DEF TurnFacts
<1>9. state[n] = "None" /\ stage[n] = "idle" /\ ~registered[n] /\ ~started[n]
  BY <1>1 DEF Handles, Blank
<1>10. /\ \A s \in Slot \ {n} : state'[s] = state[s] /\ token'[s] = token[s]
       /\ state'[n] = first
  BY <1>1, <1>2, <1>6
<1>11. Blank' /\ StagesFit'
  BY <1>3, <1>4, <1>8, <1>9, <1>10 DEF Handles, Blank, StagesFit
<1>12. ~Contains(run_turn, n)
  BY <1>1 DEF TurnFacts
<1>13. OneSliceAtATime' /\ TurnMatchesHandle'
  BY <1>1, <1>3, <1>4, <1>9, <1>10, <1>12
     DEF Handles, OneSliceAtATime, InSlice, Sched!IsHead, TurnMatchesHandle, Live
<1>14. NoSessionLeak'
  <2>1. ASSUME NEW c \in Context, session[c]
        PROVE  \E s \in Slot : context[s] = c /\ Live(s)' /\ started[s]
    <3>1. PICK s \in Slot : context[s] = c /\ Live(s) /\ started[s]
      BY <2>1 DEF Handles, NoSessionLeak
    <3>2. s # n
      BY <1>9, <3>1
    <3> QED
      BY <1>10, <3>1, <3>2 DEF Live
  <2> QED
    BY <1>4, <2>1 DEF NoSessionLeak
<1>15. TurnsBounded'
  BY <1>1, <1>4 DEF Handles, TurnsBounded
<1> QED
  BY <1>7, <1>11, <1>13, <1>14, <1>15 DEF Handles

LEMMA PollCancelledInQueueHandles ==
  ASSUME TurnFacts, TurnFacts', Handles, NEW s \in Slot, PollCancelledInQueue(s)
  PROVE  Handles'
<1>1. /\ token[s] = "held" /\ state[s] = "AdmissionQueued"
      /\ state' = [state EXCEPT ![s] = "Terminal"]
      /\ outcome' = [outcome EXCEPT ![s] = "Cancelled"]
      /\ UNCHANGED <<scheduler, paused, stage, started, registered, ticket, context,
                     slices, cancelled, session, execute, waited, host>>
  BY DEF PollCancelledInQueue, Pollable, Callable, FinishTerminal
<1>2. run_turn' = run_turn /\ token' = token
  BY <1>1 DEF scheduler
<1>3. TypeOK'
  BY <1>1, <1>2 DEF Handles, TypeOK, TurnFacts, States, Outcomes
<1>4. ~registered[s] /\ ~started[s] /\ stage[s] = "idle"
  BY <1>1 DEF Handles, StagesFit
<1>5. ~Contains(run_turn, s)
  BY <1>1, <1>4 DEF Handles, TurnMatchesHandle, Live
<1>6. \A u \in Slot : state'[u] = IF u = s THEN "Terminal" ELSE state[u]
  BY <1>1 DEF Handles, TypeOK
<1>7. Blank' /\ StagesFit'
  BY <1>1, <1>2, <1>4, <1>6 DEF Handles, Blank, StagesFit
<1>8. OneSliceAtATime' /\ TurnMatchesHandle'
  BY <1>1, <1>2, <1>4, <1>5, <1>6
     DEF Handles, OneSliceAtATime, InSlice, Sched!IsHead, TurnMatchesHandle, Live
<1>9. NoSessionLeak'
  BY <1>1, <1>2, <1>4, <1>6 DEF Handles, NoSessionLeak, Live
<1>10. TurnsBounded'
  BY <1>1, <1>2 DEF Handles, TurnsBounded
<1> QED
  BY <1>3, <1>7, <1>8, <1>9, <1>10 DEF Handles

\* The polls that register a turn.
LEMMA RegisterHandles ==
  ASSUME TurnFacts, TurnFacts', Handles, TypeOK', NEW s \in Slot, Register(s),
         token[s] = "held", state[s] # "Terminal", stage[s] = "idle",
         NEW x \in {"Created", "SliceFuelExhausted", "HostCallPending"},
         state' = [state EXCEPT ![s] = x],
         UNCHANGED <<started, context, session>>
  PROVE  Handles'
<1>1. /\ stage' = [stage EXCEPT ![s] = "registered"]
      /\ registered' = [registered EXCEPT ![s] = TRUE]
  BY DEF Register
<1>2. Contains(run_turn, s) <=> registered[s]
  BY DEF Handles, TurnMatchesHandle, Live
<1>3. /\ token' = token
      /\ \A u : Contains(run_turn', u) <=> Contains(run_turn, u) \/ u = s
      /\ \A u : Sched!IsHead(run_turn, u) => Sched!IsHead(run_turn', u)
      /\ \A u \in Slot : waited'[u] = waited[u] \/ waited'[u] = 0
      /\ \A i \in 1 .. Len(run_turn') :
           \/ i \in 1 .. Len(run_turn) /\ run_turn'[i] = run_turn[i]
           \/ waited'[run_turn'[i]] = 0
  <2>1. CASE registered[s]
    BY <1>2, <2>1 DEF Register, scheduler
  <2>2. CASE ~registered[s]
    <3>1. /\ token' = token
          /\ run_turn' = Sched!PushBack(run_turn, s)
          /\ waited' = [waited EXCEPT ![s] = 0]
      BY <2>2 DEF Register, Sched!RunTurnPushBack, Sched!UseTurn
    <3>2. \A u \in Slot : waited'[u] = IF u = s THEN 0 ELSE waited[u]
      BY <3>1 DEF Handles, TypeOK
    <3>3. run_turn \in Seq(Slot)
      BY DEF TurnFacts
    <3> QED
      BY <3>1, <3>2, <3>3, PushBackFacts
  <2> QED
    BY <2>1, <2>2
<1>4. /\ state'[s] = x /\ stage'[s] = "registered" /\ registered'[s]
      /\ \A u \in Slot \ {s} :
           state'[u] = state[u] /\ stage'[u] = stage[u] /\ registered'[u] = registered[u]
  BY <1>1 DEF Handles, TypeOK
<1>5. Blank' /\ StagesFit'
  <2>1. Blank'
    BY <1>3, <1>4 DEF Handles, Blank
  <2>2. ASSUME NEW u \in Slot
        PROVE  /\ stage'[u] # "idle" => token[u] = "held" /\ registered'[u]
               /\ stage'[u] = "registered" =>
                    state'[u] \in {"Created", "SliceFuelExhausted", "HostCallPending"}
               /\ state'[u] = "AdmissionQueued" => ~registered'[u] /\ ~started[u]
    <3>1. CASE u = s
      BY <1>4, <3>1
    <3>2. CASE u # s
      BY <1>4, <3>2 DEF Handles, StagesFit
    <3> QED
      BY <3>1, <3>2
  <2> QED
    BY <1>3, <2>1, <2>2 DEF StagesFit
<1>6. OneSliceAtATime'
  <2>1. ASSUME NEW u \in Slot
        PROVE  /\ stage'[u] \in {"slice", "late_slice"} => Sched!IsHead(run_turn', u)
               /\ stage'[u] \in {"slice", "late_slice"} <=> state'[u] = "Running"
    <3>1. CASE u = s
      BY <1>4, <3>1
    <3>2. CASE u # s
      BY <1>3, <1>4, <3>2 DEF Handles, OneSliceAtATime, InSlice
    <3> QED
      BY <3>1, <3>2
  <2>2. \A u : Sched!IsHead(run_turn', u) = Sched!IsHead(run_turn, u)'
    BY DEF Sched!IsHead
  <2> QED
    BY <2>1, <2>2 DEF OneSliceAtATime, InSlice
<1>7. TurnMatchesHandle'
  BY <1>3, <1>4 DEF Handles, TurnMatchesHandle, Live
<1>8. NoSessionLeak'
  BY <1>3, <1>4 DEF Handles, NoSessionLeak, Live
<1>9. TurnsBounded'
  <2>1. \A u \in Slot : waited'[u] < MaxActive
    BY <1>3, SchedulerAssumption DEF Handles, TurnsBounded
  <2>2. ASSUME NEW i \in 1 .. Len(run_turn')
        PROVE  waited'[run_turn'[i]] + i <= MaxActive
    <3>1. CASE waited'[run_turn'[i]] = 0
      BY <3>1, SchedulerAssumption DEF TurnFacts
    <3>2. CASE i \in 1 .. Len(run_turn) /\ run_turn'[i] = run_turn[i] /\ waited'[run_turn'[i]] # 0
      <4>1. run_turn[i] \in Slot
        BY <3>2, ElementOfSeq DEF TurnFacts
      <4>2. waited'[run_turn'[i]] = waited[run_turn[i]]
        BY <1>3, <3>2, <4>1
      <4> QED
        BY <3>2, <4>2 DEF Handles, TurnsBounded
    <3> QED
      BY <1>3, <3>1, <3>2
  <2> QED
    BY <2>1, <2>2 DEF TurnsBounded
<1> QED
  BY <1>5, <1>6, <1>7, <1>8, <1>9 DEF Handles

\* A pollable handle is in no poll.
LEMMA CallableIsIdle ==
  ASSUME Handles, NEW s \in Slot, Callable(s)
  PROVE  token[s] = "held" /\ stage[s] = "idle"
BY DEF Callable, FreeFor, Handles, TypeOK

LEMMA PollRegistersHandles ==
  ASSUME TurnFacts, TurnFacts', Handles, NEW s \in Slot,
         PollPromoted(s) \/ PollHostResult(s) \/ PollReady(s)
  PROVE  Handles'
<1>1. token[s] = "held" /\ stage[s] = "idle" /\ Register(s)
  BY CallableIsIdle DEF PollPromoted, PollHostResult, PollReady, Pollable
<1>2. /\ state[s] # "Terminal"
      /\ UNCHANGED <<paused, outcome, started, context, slices, cancelled,
                     session, execute, host>>
      /\ ticket' = ticket \/ ticket' = [ticket EXCEPT ![s] = "none"]
  BY DEF PollPromoted, PollHostResult, PollReady
<1>3. PICK x \in {"Created", "SliceFuelExhausted", "HostCallPending"} :
        state' = [state EXCEPT ![s] = x]
  <2>1. CASE PollPromoted(s)
    BY <2>1 DEF PollPromoted
  <2>2. CASE PollHostResult(s) \/ PollReady(s)
    <3>1. state' = state /\ state[s] \in {"Created", "SliceFuelExhausted", "HostCallPending"}
      BY <2>2 DEF PollHostResult, PollReady
    <3>2. state = [state EXCEPT ![s] = state[s]]
      BY DEF Handles, TypeOK
    <3> QED
      BY <3>1, <3>2
  <2> QED
    BY <2>1, <2>2
<1>4. TypeOK'
  <2>1. waited' \in [Slot -> Nat]
    BY <1>1 DEF Register, Handles, TypeOK
  <2>2. /\ stage' = [stage EXCEPT ![s] = "registered"]
        /\ registered' = [registered EXCEPT ![s] = TRUE]
    BY <1>1 DEF Register
  <2>3. state' \in [Slot -> States]
    BY <1>3 DEF Handles, TypeOK, States
  <2>4. ticket' \in [Slot -> {"none", "waiting", "ready"}]
    BY <1>2 DEF Handles, TypeOK
  <2> QED
    BY <1>2, <2>1, <2>2, <2>3, <2>4 DEF Handles, TypeOK, TurnFacts
<1> QED
  BY <1>1, <1>2, <1>3, <1>4, RegisterHandles

LEMMA PollCancelledInHostCallHandles ==
  ASSUME TurnFacts, TurnFacts', Handles, NEW s \in Slot, PollCancelledInHostCall(s)
  PROVE  Handles'
<1>1. /\ state' = [state EXCEPT ![s] = "Terminal"]
      /\ outcome' = [outcome EXCEPT ![s] = "Cancelled"]
      /\ ticket' = [ticket EXCEPT ![s] = "none"]
      /\ registered' = [registered EXCEPT ![s] = FALSE]
      /\ session' = [session EXCEPT ![context[s]] = FALSE]
      /\ UNCHANGED <<paused, stage, started, context, slices, cancelled,
                     execute, waited, host>>
  BY DEF PollCancelledInHostCall, FinishTerminal, AbortSession
<1>2. token' = token /\ run_turn' = Sched!RemoveTurn(run_turn, s)
  BY DEF PollCancelledInHostCall, Sched!RunTurnRemove, Sched!UseTurn
<1>3. token[s] = "held" /\ stage[s] = "idle" /\ context[s] \in Context
  BY CallableIsIdle DEF PollCancelledInHostCall, Pollable, Handles, TypeOK
<1>4. TypeOK'
  BY <1>1, <1>3 DEF Handles, TypeOK, TurnFacts, States, Outcomes
<1>5. run_turn \in Seq(Slot) /\ Once(run_turn)
  BY DEF TurnFacts
<1>6. /\ \A u : Contains(run_turn', u) <=> Contains(run_turn, u) /\ u # s
      /\ \A u : u # s /\ Sched!IsHead(run_turn, u) => Sched!IsHead(run_turn', u)
      /\ \A i \in 1 .. Len(run_turn') :
           \E j \in 1 .. Len(run_turn) : run_turn'[i] = run_turn[j] /\ i <= j
  BY <1>2, <1>5, RemoveTurnFacts
<1>7. \A u \in Slot : /\ state'[u] = IF u = s THEN "Terminal" ELSE state[u]
                      /\ registered'[u] = IF u = s THEN FALSE ELSE registered[u]
  BY <1>1 DEF Handles, TypeOK
<1>8. Blank' /\ StagesFit'
  BY <1>1, <1>2, <1>3, <1>7 DEF Handles, Blank, StagesFit
<1>9. OneSliceAtATime'
  BY <1>1, <1>3, <1>6, <1>7
     DEF Handles, OneSliceAtATime, InSlice, Sched!IsHead
<1>10. TurnMatchesHandle'
  BY <1>2, <1>6, <1>7 DEF Handles, TurnMatchesHandle, Live
<1>11. NoSessionLeak'
  <2>1. \A c \in Context : session'[c] => session[c] /\ c # context[s]
    BY <1>1, <1>3 DEF Handles, TypeOK
  <2> QED
    BY <1>1, <1>2, <1>7, <2>1 DEF Handles, NoSessionLeak, Live
<1>12. TurnsBounded'
  <2>1. ASSUME NEW i \in 1 .. Len(run_turn')
        PROVE  waited[run_turn'[i]] + i <= MaxActive
    <3>1. PICK j \in 1 .. Len(run_turn) : run_turn'[i] = run_turn[j] /\ i <= j
      BY <1>6
    <3>2. waited[run_turn[j]] \in Nat
      BY <3>1, ElementOfSeq DEF TurnFacts, Handles, TypeOK
    <3>3. waited[run_turn[j]] + j <= MaxActive
      BY DEF Handles, TurnsBounded
    <3> QED
      BY <3>1, <3>2, <3>3, SchedulerAssumption DEF TurnFacts
  <2> QED
    BY <1>1, <2>1 DEF Handles, TurnsBounded
<1> QED
  BY <1>4, <1>8, <1>9, <1>10, <1>11, <1>12 DEF Handles

LEMMA CheckHeadHandles ==
  ASSUME TurnFacts, TurnFacts', Handles, NEW s \in Slot, CheckHead(s)
  PROVE  Handles'
<1>1. /\ stage[s] = "registered"
      /\ UNCHANGED <<scheduler, paused, outcome, started, registered, ticket,
                     context, slices, cancelled, session, execute, waited, host>>
      /\ \/ /\ Sched!IsHead(run_turn, s)
            /\ stage' = [stage EXCEPT ![s] = SliceBegins(s)]
            /\ state' = [state EXCEPT ![s] = "Running"]
         \/ /\ stage' = [stage EXCEPT ![s] = "idle"]
            /\ state' = state
  BY DEF CheckHead, AtHead
<1>2. run_turn' = run_turn /\ token' = token
  BY <1>1 DEF scheduler
<1>3. SliceBegins(s) \in {"slice", "late_slice"}
  BY DEF SliceBegins
<1>4. /\ token[s] = "held" /\ registered[s]
      /\ state[s] \in {"Created", "SliceFuelExhausted", "HostCallPending"}
  BY <1>1 DEF Handles, StagesFit
<1>5. TypeOK'
  <2>1. /\ state' \in [Slot -> States]
        /\ stage' \in [Slot -> {"idle", "registered", "slice", "late_slice"}]
    BY <1>1, <1>3 DEF Handles, TypeOK, States
  <2> QED
    BY <1>1, <2>1 DEF Handles, TypeOK, TurnFacts
<1>6. /\ \A u \in Slot \ {s} : state'[u] = state[u] /\ stage'[u] = stage[u]
      /\ \/ /\ Sched!IsHead(run_turn, s)
            /\ stage'[s] \in {"slice", "late_slice"} /\ state'[s] = "Running"
         \/ stage'[s] = "idle" /\ state'[s] = state[s]
  BY <1>1, <1>3 DEF Handles, TypeOK
<1>7. Blank' /\ StagesFit'
  BY <1>1, <1>2, <1>4, <1>6 DEF Handles, Blank, StagesFit
<1>8. OneSliceAtATime'
  BY <1>2, <1>4, <1>6 DEF Handles, OneSliceAtATime, InSlice, Sched!IsHead
<1>9. TurnMatchesHandle'
  BY <1>1, <1>2, <1>4, <1>6 DEF Handles, TurnMatchesHandle, Live
<1>10. NoSessionLeak'
  <2>1. \A u \in Slot : Live(u) => Live(u)'
    BY <1>2, <1>4, <1>6 DEF Live
  <2> QED
    BY <1>1, <2>1 DEF Handles, NoSessionLeak
<1>11. TurnsBounded'
  BY <1>1, <1>2 DEF Handles, TurnsBounded
<1> QED
  BY <1>5, <1>7, <1>8, <1>9, <1>10, <1>11 DEF Handles

\* Whatever ends a slice: nobody else is in one, and who waited moves up.
LEMMA SliceEndsHandles ==
  ASSUME TurnFacts, TurnFacts', Handles, TypeOK', NEW s \in Slot,
         NEW inProgress \in BOOLEAN, SliceEnds(s, inProgress), token' = token,
         NEW x \in {"SliceFuelExhausted", "HostCallPending", "Terminal"},
         state' = [state EXCEPT ![s] = x],
         NEW r \in BOOLEAN, registered' = [registered EXCEPT ![s] = r],
         x # "Terminal" => (r <=> x = "SliceFuelExhausted"),
         NEW f \in BOOLEAN, started' = [started EXCEPT ![s] = f],
         inProgress => f /\ x # "Terminal",
         \A u \in Slot : Contains(run_turn', u) <=>
                           Contains(run_turn, u) /\ (u # s \/ x = "SliceFuelExhausted"),
         \A i \in 1 .. Len(run_turn') :
           \/ run_turn'[i] = s
           \/ \E j \in 1 .. Len(run_turn) : run_turn'[i] = run_turn[j] /\ i < j
  PROVE  Handles'
<1>1. /\ InSlice(s)
      /\ stage' = [stage EXCEPT ![s] = "idle"]
      /\ session' = [session EXCEPT ![context[s]] = inProgress]
      /\ waited' = [u \in Slot |->
                      IF u # s /\ Contains(run_turn, u) THEN waited[u] + 1 ELSE 0]
      /\ UNCHANGED <<paused, context, cancelled, execute, host>>
  BY DEF SliceEnds, CountWaiting
<1>2. /\ token[s] = "held" /\ registered[s] /\ state[s] = "Running"
      /\ Sched!IsHead(run_turn, s) /\ Contains(run_turn, s)
      /\ context[s] \in Context
  BY <1>1 DEF InSlice, Handles, StagesFit, OneSliceAtATime, TurnMatchesHandle, Live, TypeOK
<1>3. \A u \in Slot : u # s => ~InSlice(u) /\ state[u] # "Running"
  BY <1>2 DEF Handles, OneSliceAtATime, Sched!IsHead
<1>4. /\ state'[s] = x /\ stage'[s] = "idle" /\ registered'[s] = r /\ started'[s] = f
      /\ \A u \in Slot \ {s} :
           /\ state'[u] = state[u] /\ stage'[u] = stage[u]
           /\ registered'[u] = registered[u] /\ started'[u] = started[u]
  BY <1>1 DEF Handles, TypeOK
<1>5. Blank'
  BY <1>2, <1>4 DEF Handles, Blank
<1>6. StagesFit'
  <2>1. ASSUME NEW u \in Slot
        PROVE  /\ stage'[u] # "idle" => token[u] = "held" /\ registered'[u]
               /\ stage'[u] = "registered" =>
                    state'[u] \in {"Created", "SliceFuelExhausted", "HostCallPending"}
               /\ state'[u] = "AdmissionQueued" => ~registered'[u] /\ ~started'[u]
    <3>1. CASE u = s
      BY <1>4, <3>1
    <3>2. CASE u # s
      BY <1>4, <3>2 DEF Handles, StagesFit
    <3> QED
      BY <3>1, <3>2
  <2> QED
    BY <2>1 DEF StagesFit
<1>7. OneSliceAtATime'
  <2>1. ASSUME NEW u \in Slot
        PROVE  stage'[u] \notin {"slice", "late_slice"} /\ state'[u] # "Running"
    <3>1. CASE u = s
      BY <1>4, <3>1
    <3>2. CASE u # s
      BY <1>3, <1>4, <3>2 DEF InSlice
    <3> QED
      BY <3>1, <3>2
  <2> QED
    BY <2>1 DEF OneSliceAtATime, InSlice
<1>8. TurnMatchesHandle'
  <2>1. ASSUME NEW u \in Slot
        PROVE  /\ token[u] = "held" /\ state'[u] # "Terminal" =>
                    (registered'[u] <=> Contains(run_turn', u))
               /\ state'[u] = "Terminal" => ~Contains(run_turn', u)
    <3>1. CASE u = s
      BY <1>2, <1>4, <3>1
    <3>2. CASE u # s
      BY <1>4, <3>2 DEF Handles, TurnMatchesHandle, Live
    <3> QED
      BY <3>1, <3>2
  <2> QED
    BY <2>1 DEF TurnMatchesHandle, Live
<1>9. NoSessionLeak'
  <2>1. ASSUME NEW c \in Context, session'[c]
        PROVE  \E u \in Slot : context[u] = c /\ Live(u)' /\ started'[u]
    <3>1. CASE c = context[s]
      <4>1. inProgress
        BY <1>1, <2>1, <3>1 DEF Handles, TypeOK
      <4>2. Live(s)' /\ started'[s]
        BY <1>2, <1>4, <4>1 DEF Live
      <4> QED
        BY <3>1, <4>2
    <3>2. CASE c # context[s]
      <4>1. session[c]
        BY <1>1, <2>1, <3>2 DEF Handles, TypeOK
      <4>2. PICK u \in Slot : context[u] = c /\ Live(u) /\ started[u]
        BY <4>1 DEF Handles, NoSessionLeak
      <4>3. u # s
        BY <3>2, <4>2
      <4> QED
        BY <1>4, <4>2, <4>3 DEF Live
    <3> QED
      BY <3>1, <3>2
  <2> QED
    BY <1>1, <2>1 DEF NoSessionLeak
<1>10. TurnsBounded'
  <2>1. ASSUME NEW j \in 1 .. Len(run_turn)
        PROVE  run_turn[j] \in Slot /\ waited[run_turn[j]] \in Nat
               /\ waited[run_turn[j]] + j <= MaxActive
    <3>1. run_turn[j] \in Slot
      BY ElementOfSeq DEF TurnFacts
    <3> QED
      BY <3>1 DEF Handles, TypeOK, TurnsBounded
  <2>2. ASSUME NEW u \in Slot
        PROVE  waited'[u] < MaxActive
    <3>1. CASE u # s /\ Contains(run_turn, u)
      <4>1. PICK j \in 1 .. Len(run_turn) : run_turn[j] = u
        BY <3>1 DEF Contains
      <4>2. j # 1
        BY <1>2, <3>1, <4>1 DEF Sched!IsHead
      <4>3. waited'[u] = waited[u] + 1
        BY <1>1, <3>1
      <4>4. waited[u] \in Nat /\ waited[u] + j <= MaxActive /\ j \in Nat
        BY <2>1, <4>1 DEF TurnFacts
      <4> QED
        BY <4>2, <4>3, <4>4, SchedulerAssumption
    <3>2. CASE ~(u # s /\ Contains(run_turn, u))
      BY <1>1, <3>2, SchedulerAssumption
    <3> QED
      BY <3>1, <3>2
  <2>3. ASSUME NEW i \in 1 .. Len(run_turn')
        PROVE  waited'[run_turn'[i]] + i <= MaxActive
    <3>1. i \in Nat /\ i <= MaxActive
      BY SchedulerAssumption DEF TurnFacts
    <3>2. CASE run_turn'[i] = s
      <4>1. waited'[s] = 0
        BY <1>1
      <4> QED
        BY <3>1, <3>2, <4>1, SchedulerAssumption
    <3>3. CASE run_turn'[i] # s
      <4>1. PICK j \in 1 .. Len(run_turn) : run_turn'[i] = run_turn[j] /\ i < j
        BY <3>3
      <4>2. Contains(run_turn, run_turn[j])
        BY DEF Contains
      <4>3. waited'[run_turn[j]] = waited[run_turn[j]] + 1
        BY <1>1, <2>1, <3>3, <4>1, <4>2
      <4>4. j \in Nat /\ i < j
        BY <4>1 DEF TurnFacts
      <4> QED
        BY <2>1, <3>1, <4>1, <4>3, <4>4, SchedulerAssumption
    <3> QED
      BY <3>2, <3>3
  <2> QED
    BY <2>2, <2>3 DEF TurnsBounded
<1> QED
  BY <1>5, <1>6, <1>7, <1>8, <1>9, <1>10 DEF Handles

\* The run turn at the end of a slice.
LEMMA TurnEnds ==
  ASSUME TurnFacts, NEW s \in Slot, Sched!IsHead(run_turn, s)
  PROVE  /\ run_turn' = Sched!Rotate(run_turn, s) =>
              /\ \A u \in Slot : Contains(run_turn', u) <=> Contains(run_turn, u)
              /\ \A i \in 1 .. Len(run_turn') :
                   \/ run_turn'[i] = s
                   \/ \E j \in 1 .. Len(run_turn) : run_turn'[i] = run_turn[j] /\ i < j
         /\ run_turn' = Sched!RemoveTurn(run_turn, s) =>
              /\ \A u \in Slot : Contains(run_turn', u) <=> Contains(run_turn, u) /\ u # s
              /\ \A i \in 1 .. Len(run_turn') :
                   \E j \in 1 .. Len(run_turn) : run_turn'[i] = run_turn[j] /\ i < j
<1>1. run_turn \in Seq(Slot) /\ Once(run_turn) /\ Len(run_turn) \in Nat
  BY DEF TurnFacts
<1>2. ASSUME run_turn' = Sched!Rotate(run_turn, s)
      PROVE  /\ \A u \in Slot : Contains(run_turn', u) <=> Contains(run_turn, u)
             /\ \A i \in 1 .. Len(run_turn') :
                  \/ run_turn'[i] = s
                  \/ \E j \in 1 .. Len(run_turn) : run_turn'[i] = run_turn[j] /\ i < j
  <2>1. /\ Len(run_turn') = Len(run_turn)
        /\ \A u : Contains(run_turn', u) <=> Contains(run_turn, u)
        /\ \A i \in 1 .. Len(run_turn) - 1 : run_turn'[i] = run_turn[i + 1]
        /\ run_turn'[Len(run_turn)] = s
    BY <1>1, <1>2, RotateFacts
  <2>2. ASSUME NEW i \in 1 .. Len(run_turn), i < Len(run_turn)
        PROVE  \E j \in 1 .. Len(run_turn) : run_turn'[i] = run_turn[j] /\ i < j
    <3>1. i \in 1 .. Len(run_turn) - 1 /\ i + 1 \in 1 .. Len(run_turn) /\ i < i + 1
      BY <1>1, <2>2
    <3> QED
      BY <2>1, <3>1
  <2> QED
    BY <1>1, <2>1, <2>2, LastOrEarlier
<1>3. ASSUME run_turn' = Sched!RemoveTurn(run_turn, s)
      PROVE  /\ \A u \in Slot : Contains(run_turn', u) <=> Contains(run_turn, u) /\ u # s
             /\ \A i \in 1 .. Len(run_turn') :
                  \E j \in 1 .. Len(run_turn) : run_turn'[i] = run_turn[j] /\ i < j
  <2> DEFINE r == Sched!RemoveTurn(run_turn, s)
  <2>1. /\ \A u : Contains(r, u) <=> Contains(run_turn, u) /\ u # s
        /\ \A i \in 1 .. Len(r) :
             \E j \in 1 .. Len(run_turn) : /\ r[i] = run_turn[j]
                                           /\ i <= j
                                           /\ Sched!IsHead(run_turn, s) => i < j
    BY <1>1, RemoveTurnFacts
  <2>2. run_turn' = r
    BY <1>3
  <2> HIDE DEF r
  <2> QED
    BY <2>1, <2>2
<1> QED
  BY <1>2, <1>3

\* A script has not had its last slice while its handle is not terminal.
SlicesLeft == \A s \in Slot : state[s] # "Terminal" => slices[s] < MaxSlices

\* Without the scheduler and the histories: the types of a slice's end.
LEMMA SliceEndsTypes ==
  ASSUME TurnFacts', Handles, SlicesLeft, NEW s \in Slot,
         NEW inProgress \in BOOLEAN, SliceEnds(s, inProgress),
         state' \in [Slot -> States], outcome' \in [Slot -> Outcomes],
         started' \in [Slot -> BOOLEAN], registered' \in [Slot -> BOOLEAN],
         ticket' \in [Slot -> {"none", "waiting", "ready"}]
  PROVE  TypeOK'
<1>1. /\ InSlice(s)
      /\ stage' = [stage EXCEPT ![s] = "idle"]
      /\ slices' = [slices EXCEPT ![s] = @ + 1]
      /\ session' = [session EXCEPT ![context[s]] = inProgress]
      /\ waited' = [u \in Slot |->
                      IF u # s /\ Contains(run_turn, u) THEN waited[u] + 1 ELSE 0]
      /\ UNCHANGED <<paused, context, cancelled, execute, host>>
  BY DEF SliceEnds, CountWaiting
<1>2. slices[s] \in 0 .. MaxSlices /\ slices[s] < MaxSlices
  BY <1>1 DEF Handles, TypeOK, OneSliceAtATime, SlicesLeft
<1>3. slices[s] + 1 \in 0 .. MaxSlices
  BY <1>2, ExecutionAssumption
<1>4. slices' \in [Slot -> 0 .. MaxSlices] /\ waited' \in [Slot -> Nat]
  BY <1>1, <1>3 DEF Handles, TypeOK
<1>5. /\ stage' \in [Slot -> {"idle", "registered", "slice", "late_slice"}]
      /\ session' \in [Context -> BOOLEAN]
  BY <1>1 DEF Handles, TypeOK
<1> QED
  BY <1>1, <1>4, <1>5 DEF TypeOK, TurnFacts, Handles

LEMMA EndSliceHandles ==
  ASSUME TurnFacts, TurnFacts', Handles, SlicesLeft, NEW s \in Slot, EndSlice(s)
  PROVE  Handles'
<1>1. InSlice(s)
  BY DEF EndSlice, SliceYields, SliceCallsHost, SliceTerminates, SliceEnds
<1>2. Sched!IsHead(run_turn, s) /\ registered[s]
  BY <1>1 DEF Handles, OneSliceAtATime, StagesFit, InSlice
<1>3. CASE SliceYields(s)
  <2>1. /\ SliceEnds(s, TRUE)
        /\ started' = [started EXCEPT ![s] = TRUE]
        /\ state' = [state EXCEPT ![s] = "SliceFuelExhausted"]
        /\ token' = token /\ run_turn' = Sched!Rotate(run_turn, s)
        /\ UNCHANGED <<outcome, registered, ticket>>
    BY <1>3 DEF SliceYields, Sched!UseTurn, TurnAfterYield
  <2>2. registered' = [registered EXCEPT ![s] = TRUE]
    BY <1>2, <2>1 DEF Handles, TypeOK
  <2>3. TypeOK'
    <3>1. state' \in [Slot -> States] /\ started' \in [Slot -> BOOLEAN]
      BY <2>1 DEF Handles, TypeOK, States
    <3> QED
      BY <2>1, <3>1, SliceEndsTypes DEF Handles, TypeOK
  <2> QED
    BY <1>2, <2>1, <2>2, <2>3, TurnEnds, SliceEndsHandles
<1>4. CASE SliceCallsHost(s)
  <2>1. /\ SliceEnds(s, TRUE)
        /\ started' = [started EXCEPT ![s] = TRUE]
        /\ state' = [state EXCEPT ![s] = "HostCallPending"]
        /\ ticket' = [ticket EXCEPT ![s] = "waiting"]
        /\ registered' = [registered EXCEPT ![s] = FALSE]
        /\ token' = token /\ run_turn' = Sched!RemoveTurn(run_turn, s)
        /\ outcome' = outcome
    BY <1>4 DEF SliceCallsHost, Sched!RunTurnRemove, Sched!UseTurn
  <2>2. TypeOK'
    <3>1. /\ state' \in [Slot -> States] /\ started' \in [Slot -> BOOLEAN]
          /\ ticket' \in [Slot -> {"none", "waiting", "ready"}]
          /\ registered' \in [Slot -> BOOLEAN]
      BY <2>1 DEF Handles, TypeOK, States
    <3> QED
      BY <2>1, <3>1, SliceEndsTypes DEF Handles, TypeOK
  <2> QED
    BY <1>2, <2>1, <2>2, TurnEnds, SliceEndsHandles
<1>5. ASSUME NEW o \in Outcomes, SliceTerminates(s, o)
      PROVE  Handles'
  <2> DEFINE f == started[s] \/ o # "LinkError"
  <2>1. /\ SliceEnds(s, FALSE)
        /\ started' = [started EXCEPT ![s] = f]
        /\ state' = [state EXCEPT ![s] = "Terminal"]
        /\ outcome' = [outcome EXCEPT ![s] = o]
        /\ token' = token /\ run_turn' = Sched!RemoveTurn(run_turn, s)
        /\ UNCHANGED <<registered, ticket>>
    BY <1>5 DEF SliceTerminates, FinishTerminal, LeaveTurn, Sched!RunTurnRemove, Sched!UseTurn
  <2>2. registered' = [registered EXCEPT ![s] = TRUE]
    BY <1>2, <2>1 DEF Handles, TypeOK
  <2>3. f \in BOOLEAN
    BY DEF Handles, TypeOK
  <2> HIDE DEF f
  <2>4. TypeOK'
    <3>1. /\ state' \in [Slot -> States] /\ started' \in [Slot -> BOOLEAN]
          /\ outcome' \in [Slot -> Outcomes]
      BY <2>1, <2>3 DEF Handles, TypeOK, States
    <3> QED
      BY <2>1, <3>1, SliceEndsTypes DEF Handles, TypeOK
  <2> QED
    BY <1>2, <2>1, <2>2, <2>3, <2>4, TurnEnds, SliceEndsHandles
<1> QED
  BY <1>3, <1>4, <1>5 DEF EndSlice, Outcomes

LEMMA DropHandleHandles ==
  ASSUME TurnFacts, TurnFacts', Handles, NEW s \in Slot, DropHandle(s)
  PROVE  Handles'
<1>1. /\ Callable(s) /\ Sched!DropSlot(s)
      /\ \/ state[s] = "Terminal" /\ UNCHANGED <<cancelled, ticket, session>>
         \/ /\ cancelled' = [cancelled EXCEPT ![context[s]] = TRUE]
            /\ ticket' = [ticket EXCEPT ![s] = "none"]
            /\ session' = [session EXCEPT ![context[s]] = FALSE]
      /\ UNCHANGED <<state, paused, stage, outcome, started, registered,
                     context, slices, execute, waited, host>>
  BY DEF DropHandle, AbortSession
<1>2. token[s] = "held" /\ stage[s] = "idle" /\ context[s] \in Context
  BY <1>1, CallableIsIdle DEF Handles, TypeOK
<1>3. /\ run_turn' = run_turn
      /\ token'[s] \in {"release_active", "release_queued"}
      /\ \A u \in Slot \ {s} : token'[u] = token[u]
  BY <1>1 DEF Sched!DropSlot, Sched!ReleaseCall, TurnFacts, Sched!TypeOK, Slot
<1>4. TypeOK'
  <2>1. /\ cancelled' \in [Context -> BOOLEAN] /\ session' \in [Context -> BOOLEAN]
        /\ ticket' \in [Slot -> {"none", "waiting", "ready"}]
    BY <1>1 DEF Handles, TypeOK
  <2> QED
    BY <1>1, <2>1 DEF Handles, TypeOK, TurnFacts
<1>5. Blank' /\ StagesFit'
  BY <1>1, <1>2, <1>3 DEF Handles, Blank, StagesFit
<1>6. OneSliceAtATime'
  BY <1>1, <1>3 DEF Handles, OneSliceAtATime, InSlice, Sched!IsHead
<1>7. TurnMatchesHandle'
  BY <1>1, <1>3 DEF Handles, TurnMatchesHandle, Live
<1>8. NoSessionLeak'
  <2>1. ASSUME NEW c \in Context, session'[c]
        PROVE  \E u \in Slot : context[u] = c /\ Live(u)' /\ started[u]
    <3>1. session[c] /\ (state[s] = "Terminal" \/ c # context[s])
      BY <1>1, <1>2, <2>1 DEF Handles, TypeOK
    <3>2. PICK u \in Slot : context[u] = c /\ Live(u) /\ started[u]
      BY <3>1 DEF Handles, NoSessionLeak
    <3>3. u # s
      BY <3>1, <3>2 DEF Live
    <3> QED
      BY <1>1, <1>3, <3>2, <3>3 DEF Live
  <2> QED
    BY <1>1, <2>1 DEF NoSessionLeak
<1>9. TurnsBounded'
  BY <1>1, <1>3 DEF Handles, TurnsBounded
<1> QED
  BY <1>4, <1>5, <1>6, <1>7, <1>8, <1>9 DEF Handles

LEMMA ReleaseSlotHandles ==
  ASSUME TurnFacts, TurnFacts', Handles, NEW s \in Slot, ReleaseSlot(s)
  PROVE  Handles'
<1>1. /\ Sched!ReleaseActive(s) \/ Sched!ReleaseQueued(s)
      /\ execute' = [t \in Thread |-> IF execute[t] = s THEN NoSlot ELSE execute[t]]
      /\ UNCHANGED <<state, paused, stage, outcome, started, registered, ticket,
                     context, slices, cancelled, session, waited, host>>
  BY DEF ReleaseSlot, handle
<1>2. /\ token[s] \in {"release_active", "release_queued"}
      /\ token' = [token EXCEPT ![s] = "dropped"]
      /\ run_turn' = run_turn \/ run_turn' = Sched!RemoveTurn(run_turn, s)
  BY <1>1 DEF Sched!ReleaseActive, Sched!ReleaseQueued
<1>3. /\ token'[s] = "dropped"
      /\ \A u \in Slot \ {s} : token'[u] = token[u]
  BY <1>2 DEF TurnFacts, Sched!TypeOK, Slot
<1>4. run_turn \in Seq(Slot) /\ Once(run_turn) /\ Len(run_turn) \in Nat
  BY DEF TurnFacts
<1>5. /\ \A u \in Slot \ {s} : Contains(run_turn', u) <=> Contains(run_turn, u)
      /\ Contains(run_turn', s) => Contains(run_turn, s)
      /\ \A u : u # s /\ Sched!IsHead(run_turn, u) => Sched!IsHead(run_turn', u)
      /\ \A i \in 1 .. Len(run_turn') :
           \E j \in 1 .. Len(run_turn) : run_turn'[i] = run_turn[j] /\ i <= j
  <2>1. CASE run_turn' = run_turn
    <3>1. \A i \in 1 .. Len(run_turn) : i <= i
      BY <1>4
    <3> QED
      BY <2>1, <3>1
  <2>2. CASE run_turn' = Sched!RemoveTurn(run_turn, s)
    <3> DEFINE r == Sched!RemoveTurn(run_turn, s)
    <3>1. /\ \A u : Contains(r, u) <=> Contains(run_turn, u) /\ u # s
          /\ \A u : u # s /\ Sched!IsHead(run_turn, u) => Sched!IsHead(r, u)
          /\ \A i \in 1 .. Len(r) :
               \E j \in 1 .. Len(run_turn) : r[i] = run_turn[j] /\ i <= j
      BY <1>4, RemoveTurnFacts
    <3> HIDE DEF r
    <3> QED
      BY <2>2, <3>1 DEF r
  <2> QED
    BY <1>2, <2>1, <2>2
<1>6. stage[s] = "idle"
  BY <1>2 DEF Handles, StagesFit
<1>7. TypeOK'
  <2>1. execute' \in [Thread -> 0 .. MaxSlots]
    BY <1>1, SchedulerAssumption DEF NoSlot, Handles, TypeOK
  <2> QED
    BY <1>1, <2>1 DEF Handles, TypeOK, TurnFacts
<1>8. Blank' /\ StagesFit'
  BY <1>1, <1>3, <1>6 DEF Handles, Blank, StagesFit
<1>9. OneSliceAtATime'
  BY <1>1, <1>5, <1>6 DEF Handles, OneSliceAtATime, InSlice, Sched!IsHead
<1>10. TurnMatchesHandle'
  BY <1>1, <1>3, <1>5 DEF Handles, TurnMatchesHandle, Live
<1>11. NoSessionLeak'
  <2>1. \A u \in Slot : Live(u) => Live(u)'
    BY <1>1, <1>2, <1>3 DEF Live
  <2> QED
    BY <1>1, <2>1 DEF Handles, NoSessionLeak
<1>12. TurnsBounded'
  <2>1. ASSUME NEW i \in 1 .. Len(run_turn')
        PROVE  waited[run_turn'[i]] + i <= MaxActive
    <3>1. PICK j \in 1 .. Len(run_turn) : run_turn'[i] = run_turn[j] /\ i <= j
      BY <1>5
    <3>2. waited[run_turn[j]] \in Nat
      BY <3>1, ElementOfSeq DEF TurnFacts, Handles, TypeOK
    <3>3. waited[run_turn[j]] + j <= MaxActive
      BY DEF Handles, TurnsBounded
    <3> QED
      BY <3>1, <3>2, <3>3, SchedulerAssumption DEF TurnFacts
  <2> QED
    BY <1>1, <2>1 DEF Handles, TurnsBounded
<1> QED
  BY <1>7, <1>8, <1>9, <1>10, <1>11, <1>12 DEF Handles

LEMMA SlicesLeftStep ==
  ASSUME TurnFacts, Handles, SlicesLeft, [Next]_vars
  PROVE  SlicesLeft'
<1>1. ASSUME UNCHANGED slices,
             \A s \in Slot : state[s] = "Terminal" => state'[s] = "Terminal"
      PROVE  SlicesLeft'
  BY <1>1 DEF SlicesLeft
<1>2. ASSUME NEW t \in Thread, NEW b \in BOOLEAN, Start(t, b)
      PROVE  SlicesLeft'
  <2>1. slices' = slices /\ \E x : state' = [state EXCEPT ![next_slot_id] = x]
    BY <1>2 DEF Start
  <2>2. \A s \in Slot : s = next_slot_id => state[s] # "Terminal"
    <3>1. \A s \in Slot : s = next_slot_id => s >= next_slot_id
      BY SchedulerAssumption DEF Slot, Sched!Slot
    <3> QED
      BY <3>1 DEF TurnFacts, Handles, Blank
  <2> QED
    BY <1>1, <2>1, <2>2 DEF Handles, TypeOK
<1>3. ASSUME NEW s \in Slot, Poll(s) \/ CheckHead(s)
      PROVE  SlicesLeft'
  <2>1. UNCHANGED slices
    BY <1>3 DEF Poll, PollCancelledInQueue, PollPromoted, PollCancelledInHostCall,
                PollHostResult, PollReady, CheckHead
  <2>2. \/ state' = [state EXCEPT ![s] = "Terminal"]
        \/ state' = state
        \/ /\ state[s] # "Terminal"
           /\ \E x : state' = [state EXCEPT ![s] = x]
    BY <1>3
       DEF Poll, PollCancelledInQueue, PollPromoted, PollCancelledInHostCall, FinishTerminal,
           PollHostResult, PollReady, CheckHead, Handles, StagesFit
  <2> QED
    BY <1>1, <2>1, <2>2 DEF Handles, TypeOK
<1>4. ASSUME NEW s \in Slot, EndSlice(s)
      PROVE  SlicesLeft'
  <2>1. slices' = [slices EXCEPT ![s] = @ + 1]
    BY <1>4 DEF EndSlice, SliceYields, SliceCallsHost, SliceTerminates, SliceEnds
  <2>2. \/ state' = [state EXCEPT ![s] = "Terminal"]
        \/ slices[s] + 1 < MaxSlices /\ \E x : state' = [state EXCEPT ![s] = x]
    BY <1>4 DEF EndSlice, SliceYields, SliceCallsHost, SliceTerminates, FinishTerminal
  <2> QED
    BY <2>1, <2>2 DEF Handles, TypeOK, SlicesLeft
<1>5. ASSUME NEW s \in Slot,
             Pause(s) \/ Resume(s) \/ HostCompletes(s) \/ DropHandle(s) \/ ReleaseSlot(s)
      PROVE  SlicesLeft'
  BY <1>1, <1>5 DEF Pause, Resume, HostCompletes, DropHandle, ReleaseSlot, handle
<1>6. ASSUME NEW c \in Context, Cancel(c)
      PROVE  SlicesLeft'
  BY <1>1, <1>6 DEF Cancel, handle
<1>7. CASE UNCHANGED vars
  BY <1>1, <1>7 DEF vars, changing, handle
<1> QED
  BY <1>2, <1>3, <1>4, <1>5, <1>6, <1>7 DEF Next, CreateExecution, Execute

LEMMA StepHandles ==
  ASSUME TurnFacts, TurnFacts', Handles, SlicesLeft, [Next]_vars
  PROVE  Handles'
<1>1. ASSUME NEW s \in Slot, Pause(s) \/ Resume(s)
      PROVE  Handles'
  <2>1. /\ paused' \in [Slot -> BOOLEAN]
        /\ UNCHANGED <<scheduler, state, stage, outcome, started, registered, ticket,
                       context, slices, cancelled, session, execute, waited, host>>
    BY <1>1 DEF Pause, Resume, Handles, TypeOK
  <2>2. TypeOK' /\ token' = token /\ run_turn' = run_turn
    BY <2>1 DEF Handles, TypeOK, TurnFacts, scheduler
  <2> QED
    BY <2>1, <2>2, FrameHandles
<1>2. ASSUME NEW s \in Slot, HostCompletes(s)
      PROVE  Handles'
  <2>1. /\ ticket' \in [Slot -> {"none", "waiting", "ready"}]
        /\ UNCHANGED <<scheduler, state, paused, stage, outcome, started, registered,
                       context, slices, cancelled, session, execute, waited, host>>
    BY <1>2 DEF HostCompletes, Handles, TypeOK
  <2>2. TypeOK' /\ token' = token /\ run_turn' = run_turn
    BY <2>1 DEF Handles, TypeOK, TurnFacts, scheduler
  <2> QED
    BY <2>1, <2>2, FrameHandles
<1>3. ASSUME NEW c \in Context, Cancel(c)
      PROVE  Handles'
  <2>1. /\ cancelled' \in [Context -> BOOLEAN]
        /\ UNCHANGED <<scheduler, handle, session, execute, waited, host>>
    BY <1>3 DEF Cancel, Handles, TypeOK
  <2>2. TypeOK' /\ token' = token /\ run_turn' = run_turn
    BY <2>1 DEF Handles, TypeOK, TurnFacts, scheduler, handle
  <2> QED
    BY <2>1, <2>2, FrameHandles DEF handle
<1>4. CASE UNCHANGED vars
  <2>1. TypeOK' /\ token' = token /\ run_turn' = run_turn
    BY <1>4 DEF Handles, TypeOK, TurnFacts, vars, changing, scheduler, handle
  <2> QED
    BY <1>4, <2>1, FrameHandles DEF vars, changing, handle
<1>5. ASSUME NEW s \in Slot, Poll(s) \/ CheckHead(s) \/ EndSlice(s)
                               \/ DropHandle(s) \/ ReleaseSlot(s)
      PROVE  Handles'
  BY <1>5, PollCancelledInQueueHandles, PollRegistersHandles,
     PollCancelledInHostCallHandles, CheckHeadHandles, EndSliceHandles,
     DropHandleHandles, ReleaseSlotHandles DEF Poll
<1>6. ASSUME NEW t \in Thread, CreateExecution(t) \/ Execute(t)
      PROVE  Handles'
  BY <1>6, StartHandles DEF CreateExecution, Execute
<1> QED
  BY <1>1, <1>2, <1>3, <1>4, <1>5, <1>6 DEF Next

----------------------------------------------------------------------------

ExecutionInv == SP!Inv /\ Handles /\ SlicesLeft

LEMMA ExecutionInvHolds == Spec => []ExecutionInv
<1>1. Init => ExecutionInv
  <2> SUFFICES ASSUME Init
               PROVE  ExecutionInv
    OBVIOUS
  <2>1. SP!Inv
    BY SameInit, SP!InitInv, SchedulerAssumption DEF Init
  <2>2. Handles
    BY <2>1, TurnFactsHold, InitHandles
  <2>3. SlicesLeft
    BY ExecutionAssumption DEF Init, SlicesLeft
  <2> QED
    BY <2>1, <2>2, <2>3 DEF ExecutionInv
<1>2. ExecutionInv /\ [Next]_vars => SP!Inv'
  BY SchedulerInv DEF ExecutionInv
<1>3. ExecutionInv => TurnFacts
  BY TurnFactsHold DEF ExecutionInv
<1>4. (SP!Inv => TurnFacts)'
  BY TurnFactsHold, PTL
<1>5. ExecutionInv /\ [Next]_vars => ExecutionInv'
  BY <1>2, <1>3, <1>4, StepHandles, SlicesLeftStep DEF ExecutionInv
<1> QED
  BY <1>1, <1>5, PTL DEF Spec

(***************************************************************************)
(* src/engine.rs, poll: whatever the threads, the drops and the cancels    *)
(* interleave, at most one handle of the engine is in a slice and it is at *)
(* the head of the run turn; and a handle's own flag never disagrees with  *)
(* the shared queue.                                                       *)
(***************************************************************************)
THEOREM SlicesTakeTurnsHolds == Spec => []SlicesTakeTurns
<1>1. ExecutionInv => SlicesTakeTurns
  BY DEF ExecutionInv, Handles, SlicesTakeTurns
<1> QED
  BY <1>1, ExecutionInvHolds, PTL

(***************************************************************************)
(* src/scheduler.rs, run_turn_rotate and run_turn_push_back, as poll uses  *)
(* them: while a handle waits for its turn the others take fewer slices    *)
(* than the engine admits executions, for every limit.                     *)
(***************************************************************************)
THEOREM BoundedBypassHolds == Spec => []BoundedBypass
<1>1. ExecutionInv => BoundedBypass
  BY DEF ExecutionInv, Handles, TurnsBounded, BoundedBypass
<1> QED
  BY <1>1, ExecutionInvHolds, PTL

(***************************************************************************)
(* src/engine.rs, Drop, finish_terminal and the cancel of a pending host   *)
(* call: a run is in progress in a context only while a started, live      *)
(* handle borrows it, so the next execution finds the context clean.       *)
(***************************************************************************)
THEOREM NoSessionLeakHolds == Spec => []NoSessionLeak
<1>1. ExecutionInv => NoSessionLeak
  BY DEF ExecutionInv, Handles
<1> QED
  BY <1>1, ExecutionInvHolds, PTL

=============================================================================
