----------------------------- MODULE Scheduler -----------------------------
(***************************************************************************)
(* src/scheduler.rs: the one object every execution of an Engine shares.   *)
(* A single mutex protects SchedulerInner (the active count, the admission *)
(* queue, the run-turn queue and the id counter); every method below takes *)
(* it once, so one method is one action.                                   *)
(*                                                                         *)
(* Two things are outside the mutex.  The SlotState mirror is an atomic    *)
(* byte that methods write under the lock and handles read without it.     *)
(* And AdmissionSlot, the RAII token a handle owns, decides in its Drop    *)
(* which release method to call by reading that mirror first: the read     *)
(* and the call are two steps, and another thread may run between them.    *)
(*                                                                         *)
(* Handles live on threads.  A thread in the middle of a Drop does nothing *)
(* else, so with one thread the two steps of Drop are atomic; with several *)
(* they are not.  Slot ids are consumed even by refused admissions, as in  *)
(* the code; MaxSlots bounds how many admissions a behaviour attempts.     *)
(***************************************************************************)
EXTENDS Integers, Sequences, FiniteSets, SequencesExt

CONSTANTS
  Thread,      \* host threads that create and drop handles
  MaxSlots,    \* bound: admissions attempted in one behaviour
  MaxActive,   \* EngineLimits::max_active_executions (NonZeroUsize)
  MaxQueued    \* EngineLimits::max_queued_executions (0 is allowed)

ASSUME ThreadAssumption == Thread # {}
ASSUME LimitsAssumption ==
  /\ MaxSlots \in Nat
  /\ MaxActive \in Nat \ {0}
  /\ MaxQueued \in Nat

Slot == 0 .. MaxSlots - 1

VARIABLES
  active,           \* SchedulerInner.active
  admission_queue,  \* SchedulerInner.admission_queue: slot ids, oldest first
  run_turn,         \* SchedulerInner.run_turn: slot ids, head first
  next_slot_id,     \* SchedulerInner.next_slot_id
  slot_state,       \* the SlotState mirror of each slot ("none": no slot)
  kind,             \* AdmissionSlot.kind, fixed when the slot is created
  token,            \* how far the AdmissionSlot of each slot has come
  owner             \* the thread its handle was created on

vars == <<active, admission_queue, run_turn, next_slot_id,
          slot_state, kind, token, owner>>

inner == <<active, admission_queue, run_turn, next_slot_id>>

----------------------------------------------------------------------------

Init ==
  /\ active = 0
  /\ admission_queue = << >>
  /\ run_turn = << >>
  /\ next_slot_id = 0
  /\ slot_state = [s \in Slot |-> "none"]
  /\ kind = [s \in Slot |-> "Active"]
  /\ token = [s \in Slot |-> "none"]
  /\ owner \in [Slot -> Thread]

\* The thread of slot s is between the mirror read and the release call.
Releasing(s) == token[s] \in {"release_active", "release_queued"}

Busy(t) == \E s \in Slot : owner[s] = t /\ Releasing(s)

\* SlotState::new plus the AdmissionSlot that admit returns.
NewSlot(s, k, mirror) ==
  /\ slot_state' = [slot_state EXCEPT ![s] = mirror]
  /\ kind' = [kind EXCEPT ![s] = k]
  /\ token' = [token EXCEPT ![s] = "held"]

\* Faulty variants of the definitions below are marked "Variant".  The
\* specification never uses them; substituting one for the definition that
\* follows it shows that a property notices the mistake.

\* Variant: an off-by-one in admit's comparison, one too many or too few.
HasRoomForOneMore == active <= MaxActive
HasRoomButOne == active + 1 < MaxActive

HasRoom == active < MaxActive

\* Variant: push_front instead of push_back.
EnqueueFirst(q, s) == <<s>> \o q

Enqueue(q, s) == Append(q, s)

AdmitActive ==
  /\ HasRoom
  /\ active' = active + 1
  /\ NewSlot(next_slot_id, "Active", "active")
  /\ UNCHANGED admission_queue

AdmitQueued ==
  /\ ~HasRoom
  /\ Len(admission_queue) < MaxQueued
  /\ admission_queue' = Enqueue(admission_queue, next_slot_id)
  /\ NewSlot(next_slot_id, "Queued", "queued")
  /\ UNCHANGED active

\* StartError::Backpressure: the id is spent, nothing else changes.
AdmitRefused ==
  /\ ~HasRoom
  /\ Len(admission_queue) >= MaxQueued
  /\ UNCHANGED <<active, admission_queue, slot_state, kind, token>>

Admit(t) ==
  /\ next_slot_id < MaxSlots
  /\ owner[next_slot_id] = t
  /\ ~Busy(t)
  /\ next_slot_id' = next_slot_id + 1
  /\ AdmitActive \/ AdmitQueued \/ AdmitRefused
  /\ UNCHANGED <<run_turn, owner>>

----------------------------------------------------------------------------
\* The run-turn methods, as functions of the queue they are applied to.

PushBack(q, s) == IF Contains(q, s) THEN q ELSE Append(q, s)

IsHead(q, s) == q # << >> /\ Head(q) = s

Rotate(q, s) == IF IsHead(q, s) THEN Append(Tail(q), s) ELSE q

\* Variant: the slot keeps its turn.
KeepTurn(q, s) == q

RemoveTurn(q, s) == RemoveFirst(q, s)

----------------------------------------------------------------------------
\* Variant: a promoted handle is still released as a queued one.
ReleaseCallByKind(s) ==
  IF kind[s] = "Active" THEN "release_active" ELSE "release_queued"

\* Drop for AdmissionSlot: a queued token reads the mirror to find out
\* whether it was promoted in the meantime.
ReleaseCall(s) ==
  IF kind[s] = "Active" \/ slot_state[s] = "active"
  THEN "release_active" ELSE "release_queued"

\* The first half of Drop: the read.  The call it chose comes later.
DropSlot(s) ==
  /\ token[s] = "held"
  /\ ~Busy(owner[s])
  /\ token' = [token EXCEPT ![s] = ReleaseCall(s)]
  /\ UNCHANGED <<active, admission_queue, run_turn, next_slot_id,
                 slot_state, kind, owner>>

NobodyWaits == admission_queue = << >>

\* release_active: give the active slot back and, under the same lock, turn
\* the oldest queue entry into an active slot.
ReleaseActive(s) ==
  /\ token[s] = "release_active"
  /\ token' = [token EXCEPT ![s] = "dropped"]
  /\ IF slot_state[s] = "released"
     THEN UNCHANGED <<active, admission_queue, run_turn, slot_state>>
     ELSE /\ run_turn' = RemoveTurn(run_turn, s)
          /\ IF NobodyWaits
             THEN /\ active' = active - 1
                  /\ slot_state' = [slot_state EXCEPT ![s] = "released"]
                  /\ UNCHANGED admission_queue
             ELSE /\ active' = (active - 1) + 1
                  /\ slot_state' = [slot_state EXCEPT
                                      ![s] = "released",
                                      ![Head(admission_queue)] = "active"]
                  /\ admission_queue' = Tail(admission_queue)
  /\ UNCHANGED <<next_slot_id, kind, owner>>

\* Variant: the entry of a dropped handle stays in the queue.
StayInQueue(q, s) == q

LeaveQueue(q, s) == RemoveFirst(q, s)

\* release_queued: leave the queue.  The entry may already be gone, because
\* a promotion ran after the token read the mirror.
ReleaseQueued(s) ==
  /\ token[s] = "release_queued"
  /\ token' = [token EXCEPT ![s] = "dropped"]
  /\ IF slot_state[s] = "released"
     THEN UNCHANGED <<admission_queue, slot_state>>
     ELSE /\ admission_queue' = LeaveQueue(admission_queue, s)
          /\ slot_state' = [slot_state EXCEPT ![s] = "released"]
  /\ UNCHANGED <<active, run_turn, next_slot_id, kind, owner>>

----------------------------------------------------------------------------
\* Only the handle that owns slot s calls these, on its own thread, and it
\* registers for a turn only after it saw itself active (engine.rs, poll).
UseTurn(s, q) ==
  /\ token[s] = "held"
  /\ ~Busy(owner[s])
  /\ run_turn' = q
  /\ UNCHANGED <<active, admission_queue, next_slot_id,
                 slot_state, kind, token, owner>>

RunTurnPushBack(s) == slot_state[s] = "active" /\ UseTurn(s, PushBack(run_turn, s))

RunTurnRotate(s) == UseTurn(s, Rotate(run_turn, s))

RunTurnRemove(s) == UseTurn(s, RemoveTurn(run_turn, s))

----------------------------------------------------------------------------

Next ==
  \/ \E t \in Thread : Admit(t)
  \/ \E s \in Slot :
       \/ DropSlot(s)
       \/ ReleaseActive(s)
       \/ ReleaseQueued(s)
       \/ RunTurnPushBack(s)
       \/ RunTurnRotate(s)
       \/ RunTurnRemove(s)

Spec == Init /\ [][Next]_vars

\* The host drops every handle that holds an active slot in the end, and a
\* Drop that has begun runs to its end.  Nothing is assumed of queued handles.
Fairness ==
  \A s \in Slot :
    /\ WF_vars(DropSlot(s) /\ slot_state[s] = "active")
    /\ WF_vars(ReleaseActive(s))
    /\ WF_vars(ReleaseQueued(s))

FairSpec == Spec /\ Fairness

----------------------------------------------------------------------------

TypeOK ==
  /\ active \in Nat
  /\ admission_queue \in Seq(Slot)
  /\ run_turn \in Seq(Slot)
  /\ next_slot_id \in 0 .. MaxSlots
  /\ slot_state \in [Slot -> {"none", "queued", "active", "released"}]
  /\ kind \in [Slot -> {"Active", "Queued"}]
  /\ token \in [Slot -> {"none", "held", "release_active",
                         "release_queued", "dropped"}]
  /\ owner \in [Slot -> Thread]

ActiveSlots == {s \in Slot : slot_state[s] = "active"}

(***************************************************************************)
(* The engine never runs more executions than max_active_executions, even  *)
(* when handles are dropped on several threads at once: the counter admit  *)
(* compares with the limit never falls below the number of slots whose     *)
(* mirror says active (SchedulerInner.active, admit, release_active).      *)
(***************************************************************************)
NeverOversubscribed ==
  /\ Cardinality(ActiveSlots) <= active
  /\ active <= MaxActive

(***************************************************************************)
(* Every active slot is given back exactly once: the counter is the number *)
(* of slots that are active, so no capacity is ever lost.  This is what    *)
(* the AdmissionSlot comments call the one authoritative account (INV-6).  *)
(***************************************************************************)
ExactAccounting == active = Cardinality(ActiveSlots)

(***************************************************************************)
(* The queue and the mirrors agree: exactly the slots whose mirror says    *)
(* queued are in the queue, each once and in order of arrival.  A dropped  *)
(* handle left in the queue would later be handed an active slot nobody    *)
(* can release (release_queued, release_active).                           *)
(***************************************************************************)
QueueMatchesMirrors ==
  /\ \A i, j \in 1 .. Len(admission_queue) :
       i < j => admission_queue[i] < admission_queue[j]
  /\ ToSet(admission_queue) = {s \in Slot : slot_state[s] = "queued"}

(***************************************************************************)
(* A handle waits only while the engine is full: release_active promotes   *)
(* under the lock it frees the slot with, and nothing else lowers active.  *)
(***************************************************************************)
NoIdleCapacity == admission_queue # << >> => active = MaxActive

(***************************************************************************)
(* Admission is first come, first served: while an execution waits, no     *)
(* execution that was admitted after it runs (push_back and pop_front of   *)
(* admission_queue, and admit never overtaking the queue).                 *)
(***************************************************************************)
NoOvertaking ==
  \A early, late \in Slot :
    early < late /\ slot_state[early] = "queued" => slot_state[late] # "active"

(***************************************************************************)
(* The run-turn queue holds live active slots, each once.  A slot that     *)
(* were left behind at its head by a dropped handle would stop every other *)
(* execution of the engine, because only the head may work (is_head).      *)
(***************************************************************************)
RunTurnLive ==
  /\ IsInjective(run_turn)
  /\ \A s \in ToSet(run_turn) :
       slot_state[s] = "active" /\ token[s] \in {"held", "release_active"}

(***************************************************************************)
(* An execution that waits for a slot is promoted or withdrawn in the end, *)
(* if the host drops the handles that run: no slot is lost and nobody is   *)
(* passed over forever (release_active's promotion).                       *)
(***************************************************************************)
NoStarvation ==
  \A s \in Slot : slot_state[s] = "queued" ~> slot_state[s] # "queued"

\* What this module implements: the bounded, first-come admission above.
Promise == INSTANCE Admission WITH
  Execution <- Slot,
  running <- ActiveSlots,
  waiting <- admission_queue,
  refused <- {s \in Slot : s < next_slot_id /\ token[s] = "none"},
  gone <- {s \in Slot : slot_state[s] = "released"}

(***************************************************************************)
(* The scheduler implements Admission: an arrival is refused or made to    *)
(* wait only when the running set is really full, and every place given    *)
(* back goes to the head of the line at once.                              *)
(***************************************************************************)
ImplementsAdmission == Promise!Spec

=============================================================================
