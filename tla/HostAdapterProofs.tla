------------------------- MODULE HostAdapterProofs -------------------------
(***************************************************************************)
(* Theorems of HostCall, AdapterExecutor and HostAdapter: an answer that   *)
(* has come is there and was announced to the waker the handle sleeps on,  *)
(* and the executor counts its jobs exactly, for all wakers, jobs and      *)
(* limits.                                                                 *)
(***************************************************************************)
EXTENDS HostAdapter, FiniteSetTheorems, TLAPS

----------------------------------------------------------------------------
(* The inductive invariant of HostCall. *)

Waiting == wait \in {"entering", "pending"}

\* The handle's thread is inside register_waker of the token or the ticket.
Registering == step \in {"store_token_waker", "store_waker", "check_ready"}

\* Between two registrations, outside of poll.
Settled == step \in {"idle", "enter", "was_set"}

\* Where the handle's thread can be in a wait.
StepsFit ==
  /\ step # "idle" => Waiting
  /\ wait = "entering" => step \in {"store_waker", "check_ready", "enter"}
  /\ step = "take" => ready

\* complete stores the result before it raises ready, and the ticket is not
\* discarded before the wait ends.
StoredFirst ==
  /\ ready => completing \in {"ready", "waking", "done"}
  /\ Waiting => /\ ~discarded
                /\ completing \in {"ready", "waking", "done"} => ready
                /\ result = IF completing = "working" THEN "none" ELSE "answer"

\* The waker of the handle is the ticket's, or will be.
Registered ==
  /\ Registering => setting # NoWaker
  /\ step = "check_ready" => ticket_waker = setting
  /\ ~Registering /\ handle_waker # NoWaker => ticket_waker = handle_waker

\* From the moment complete has read a waker, the handle's was called, or is
\* the one that complete read and will call.
Announced ==
  Waiting /\ Settled /\ handle_waker # NoWaker =>
    /\ completing = "waking" => handle_waker \in woken \/ complete_saw = handle_waker
    /\ completing = "done" => handle_waker \in woken

IInv == TypeOK /\ StepsFit /\ StoredFirst /\ Registered /\ Announced

----------------------------------------------------------------------------
(* The initial state, and one lemma per thread. *)

LEMMA InitIInv == Init => IInv
<1> SUFFICES ASSUME Init
             PROVE  IInv
  OBVIOUS
<1>1. TypeOK
  <2>1. step \in {"enter", "store_waker"}
    BY DEF Init
  <2>2. sets \in 0 .. MaxSets
    BY WakerAssumption DEF Init
  <2>3. polls_after_set \in BOOLEAN /\ discarded \in BOOLEAN /\ ready \in BOOLEAN
          /\ flag \in BOOLEAN
    BY Zenon DEF Init
  <2>4. /\ handle_waker \in Wakers /\ setting \in Wakers /\ token_waker \in Wakers
        /\ ticket_waker \in Wakers /\ complete_saw \in Wakers /\ cancel_saw \in Wakers
        /\ woken \subseteq Waker
    BY DEF Init, Wakers
  <2> QED
    BY <2>1, <2>2, <2>3, <2>4 DEF Init, TypeOK
<1>2. StepsFit /\ StoredFirst /\ Announced
  BY DEF Init, StepsFit, StoredFirst, Announced, Waiting, Settled
<1>3. Registered
  BY DEF Init, Registered, Registering
<1> QED
  BY <1>1, <1>2, <1>3 DEF IInv

\* The adapter's thread.
LEMMA CompleteIInv ==
  ASSUME IInv, Complete
  PROVE  IInv'
<1> USE DEF IInv, TypeOK, StepsFit, StoredFirst, Registered, Announced, Waiting,
            Registering, Settled, ticket, completer, token, canceller, handle
<1>1. CASE StoreResult
  BY <1>1 DEF StoreResult
<1>2. CASE SetReady
  BY <1>2 DEF SetReady
<1>3. CASE ReadTicketWaker
  BY <1>3 DEF ReadTicketWaker
<1>4. CASE WakeForAnswer
  BY <1>4 DEF WakeForAnswer, Wake, Wakers
<1> QED
  BY <1>1, <1>2, <1>3, <1>4 DEF Complete

\* Whoever cancels.
LEMMA CancelIInv ==
  ASSUME IInv, Cancel
  PROVE  IInv'
<1> USE DEF IInv, TypeOK, StepsFit, StoredFirst, Registered, Announced, Waiting,
            Registering, Settled, ticket, completer, token, canceller, handle
<1>1. CASE RaiseFlag
  BY <1>1 DEF RaiseFlag
<1>2. CASE ReadTokenWaker
  BY <1>2 DEF ReadTokenWaker
<1>3. CASE WakeForCancel
  BY <1>3 DEF WakeForCancel, Wake, Wakers
<1> QED
  BY <1>1, <1>2, <1>3 DEF Cancel

\* The handle's thread in set_waker and in the end of the slice.
LEMMA RegisterIInv ==
  ASSUME IInv,
         (\E w \in Wakers : SetWaker(w)) \/ RegisterOnToken \/ RegisterOnTicket
           \/ CheckReady \/ Return
  PROVE  IInv'
<1> USE DEF IInv, TypeOK, StepsFit, StoredFirst, Registered, Announced, Waiting,
            Registering, Settled, ticket, completer, token, canceller, handle
<1>1. ASSUME NEW w \in Wakers, SetWaker(w)
      PROVE  IInv'
  <2>1. TypeOK'
    BY <1>1, WakerAssumption DEF SetWaker, Wakers
  <2>2. StepsFit' /\ StoredFirst'
    BY <1>1 DEF SetWaker
  <2>3. Registered' /\ Announced'
    BY <1>1 DEF SetWaker, Wakers
  <2> QED
    BY <2>1, <2>2, <2>3
<1>2. CASE RegisterOnToken
  BY <1>2 DEF RegisterOnToken, Replace
<1>3. CASE RegisterOnTicket
  BY <1>3 DEF RegisterOnTicket, Replace
<1>4. CASE CheckReady
  <2>1. TypeOK'
    BY <1>4 DEF CheckReady, ReadyAgain, Wake, Wakers
  <2>2. StepsFit' /\ StoredFirst' /\ Registered'
    BY <1>4 DEF CheckReady
  <2>3. CASE ready
    BY <1>4, <2>1, <2>2, <2>3 DEF CheckReady, ReadyAgain, Wake
  <2>4. CASE ~ready
    <3>1. completing \notin {"waking", "done"} \/ ~Waiting
      BY <2>4
    <3>2. Announced'
      BY <1>4, <2>2, <3>1 DEF CheckReady
    <3> QED
      BY <2>1, <2>2, <3>2
  <2> QED
    BY <2>3, <2>4
<1>5. CASE Return
  BY <1>5 DEF Return
<1> QED
  BY <1>1, <1>2, <1>3, <1>4, <1>5

\* The handle's thread in poll and in the drop.
LEMMA PollIInv ==
  ASSUME IInv, Poll \/ DropHandle
  PROVE  IInv'
<1> USE DEF IInv, TypeOK, StepsFit, StoredFirst, Registered, Announced, Waiting,
            Registering, Settled, ticket, completer, token, canceller, handle
<1>1. CASE BeginPoll
  <2>1. TypeOK'
    BY <1>1 DEF BeginPoll
  <2>2. StepsFit' /\ StoredFirst' /\ Registered' /\ Announced'
    BY <1>1 DEF BeginPoll
  <2> QED
    BY <2>1, <2>2
<1>2. CASE PollCheckpoint
  BY <1>2 DEF PollCheckpoint, EndWait
<1>3. CASE PollLoadReady
  <2>1. CASE ready
    BY <1>3, <2>1 DEF PollLoadReady
  <2>2. CASE ~ready
    <3>1. TypeOK' /\ StepsFit' /\ StoredFirst' /\ Registered'
      BY <1>3, <2>2 DEF PollLoadReady
    <3>2. Announced'
      BY <1>3, <2>2 DEF PollLoadReady
    <3> QED
      BY <3>1, <3>2
  <2> QED
    BY <2>1, <2>2
<1>4. CASE PollTake
  BY <1>4 DEF PollTake, EndWait
<1>5. CASE DropHandle
  BY <1>5 DEF DropHandle, EndWait, Wake, Wakers
<1> QED
  BY <1>1, <1>2, <1>3, <1>4, <1>5 DEF Poll

LEMMA NextIInv == IInv /\ [Next]_vars => IInv'
<1> SUFFICES ASSUME IInv, [Next]_vars
             PROVE  IInv'
  OBVIOUS
<1>1. CASE Next
  BY <1>1, CompleteIInv, CancelIInv, RegisterIInv, PollIInv DEF Next, HandleStep, Poll
<1>2. CASE UNCHANGED vars
  BY <1>2 DEF vars, ticket, completer, token, canceller, handle, IInv, TypeOK, StepsFit,
              StoredFirst, Registered, Announced, Waiting, Registering, Settled
<1> QED
  BY <1>1, <1>2

LEMMA IInvKeepsAnswer == IInv => AnswerIsKept
BY DEF IInv, AnswerIsKept, TypeOK, ReadyMeansAnswer, AnswerIsAnnounced, Asleep, StoredFirst,
       Announced, Waiting, Settled

(***************************************************************************)
(* src/host_pending.rs, complete, register_waker and try_take: in every    *)
(* interleaving an answer that came during the wait is there until poll    *)
(* takes it, and once complete has returned the waker that a sleeping      *)
(* handle was given has been called.                                       *)
(***************************************************************************)
THEOREM AnswerIsKeptHolds == Spec => []AnswerIsKept
<1>1. Init => IInv
  BY InitIInv
<1>2. IInv /\ [Next]_vars => IInv'
  BY NextIInv
<1>3. IInv => AnswerIsKept
  BY IInvKeepsAnswer
<1> QED
  BY <1>1, <1>2, <1>3, PTL DEF Spec

----------------------------------------------------------------------------
(* The executor, and the call it serves. *)

\* A step of the composition is a step of each part or leaves it alone.
LEMMA StepOfHostCall == [AdapterNext]_all => [Next]_vars
BY DEF AdapterNext, FunctionReturns, CompleteReturns, FunctionPanics, OtherJob, Elsewhere, all,
       Next, Complete, Cancel, HandleStep

LEMMA StepOfExecutor == [AdapterNext]_all => [Executor!Next]_executor
<1> SUFFICES ASSUME [AdapterNext]_all
             PROVE  [Executor!Next]_executor
  OBVIOUS
<1>1. CASE UNCHANGED all
  BY <1>1 DEF all
<1>2. CASE FunctionReturns \/ Elsewhere
  BY <1>2 DEF FunctionReturns, Elsewhere
<1>3. CASE CompleteReturns \/ FunctionPanics
  BY <1>3, AdapterAssumption DEF CompleteReturns, FunctionPanics, Executor!Next
<1>4. CASE \E j \in Job : OtherJob(j)
  BY <1>4 DEF OtherJob, Executor!Next
<1> QED
  BY <1>1, <1>2, <1>3, <1>4 DEF AdapterNext

(***************************************************************************)
(* src/host_pending.rs: a call served by the executor is one that HostCall *)
(* describes; the job adds the panic, after which nobody completes.        *)
(***************************************************************************)
THEOREM ImplementsHostCall == AdapterSpec => Spec
<1>1. AdapterInit => Init
  BY DEF AdapterInit
<1>2. [AdapterNext]_all => [Next]_vars
  BY StepOfHostCall
<1> QED
  BY <1>1, <1>2, PTL DEF AdapterSpec, Spec

(***************************************************************************)
(* What is inductive of the count that submit compares                     *)
(* (src/host_pending.rs:400): a job is counted from the moment it has a    *)
(* thread until it leaves it, or for good when it panics.                  *)
(***************************************************************************)
Counted == {j \in Job : job[j] \in {"running", "completed", "panicked"}}

CountInv ==
  /\ Executor!TypeOK
  /\ outstanding = Cardinality(Counted)
  /\ outstanding <= MaxQueued

LEMMA CountedIsFinite == IsFiniteSet(Counted) /\ Cardinality(Counted) \in Nat
<1>1. Counted \subseteq Job
  BY DEF Counted
<1>2. IsFiniteSet(Counted)
  BY <1>1, AdapterAssumption, FS_Subset
<1> QED
  BY <1>2, FS_CardinalityType

LEMMA CountInit == AdapterInit => CountInv
<1> SUFFICES ASSUME AdapterInit
             PROVE  CountInv
  OBVIOUS
<1>1. Counted = {Mine}
  BY AdapterAssumption DEF AdapterInit, Counted
<1>2. Cardinality(Counted) = 1
  BY <1>1, FS_Singleton
<1>3. Executor!TypeOK
  BY DEF AdapterInit, Executor!TypeOK
<1> QED
  BY <1>2, <1>3, AdapterAssumption
     DEF AdapterInit, CountInv

LEMMA CountNext == CountInv /\ [Executor!Next]_executor => CountInv'
<1> SUFFICES ASSUME CountInv, [Executor!Next]_executor
             PROVE  CountInv'
  OBVIOUS
<1>1. /\ outstanding \in Nat
      /\ job \in [Job -> {"new", "QueueFull", "running", "completed", "left", "panicked"}]
      /\ outstanding = Cardinality(Counted) /\ outstanding <= MaxQueued
  BY DEF CountInv, Executor!TypeOK
<1>2. SUFFICES /\ job' \in [Job -> {"new", "QueueFull", "running", "completed", "left",
                                    "panicked"}]
               /\ outstanding' \in Nat
               /\ outstanding' = Cardinality(Counted') /\ outstanding' <= MaxQueued
  BY DEF CountInv, Executor!TypeOK
<1>3. CASE UNCHANGED executor
  BY <1>1, <1>3 DEF executor, Counted
<1>4. ASSUME NEW j \in Job, Executor!Submit(j), outstanding < MaxQueued
      PROVE  /\ job' \in [Job -> {"new", "QueueFull", "running", "completed", "left",
                                  "panicked"}]
             /\ outstanding' \in Nat
             /\ outstanding' = Cardinality(Counted') /\ outstanding' <= MaxQueued
  <2>1. /\ job[j] = "new" /\ outstanding' = outstanding + 1
        /\ job' = [job EXCEPT ![j] = "running"]
    BY <1>4 DEF Executor!Submit, Executor!Room
  <2>2. Counted' = Counted \union {j} /\ j \notin Counted
    BY <1>1, <2>1 DEF Counted
  <2>3. Cardinality(Counted \union {j}) = Cardinality(Counted) + 1
    BY <2>2, CountedIsFinite, FS_AddElement
  <2>4. outstanding' = Cardinality(Counted')
    BY <1>1, <2>1, <2>2, <2>3
  <2>5. outstanding' \in Nat /\ outstanding' <= MaxQueued
    BY <1>1, <1>4, <2>1, AdapterAssumption
  <2> QED
    BY <1>1, <2>1, <2>4, <2>5
<1>5. ASSUME NEW j \in Job,
             \/ Executor!Submit(j) /\ ~(outstanding < MaxQueued)
             \/ Executor!Complete(j) \/ Executor!Panic(j)
      PROVE  /\ job' \in [Job -> {"new", "QueueFull", "running", "completed", "left",
                                  "panicked"}]
             /\ outstanding' = outstanding /\ Counted' = Counted
  BY <1>1, <1>5
     DEF Executor!Submit, Executor!Room, Executor!Complete, Executor!Panic, Counted
<1>6. ASSUME NEW j \in Job, Executor!Leave(j)
      PROVE  /\ job' \in [Job -> {"new", "QueueFull", "running", "completed", "left",
                                  "panicked"}]
             /\ outstanding' \in Nat
             /\ outstanding' = Cardinality(Counted') /\ outstanding' <= MaxQueued
  <2>1. /\ job[j] = "completed" /\ job' = [job EXCEPT ![j] = "left"]
        /\ outstanding' = IF outstanding = 0 THEN 0 ELSE outstanding - 1
    BY <1>6 DEF Executor!Leave, Executor!LowerCount
  <2>2. Counted' = Counted \ {j} /\ j \in Counted
    BY <1>1, <2>1 DEF Counted
  <2>3. Cardinality(Counted \ {j}) = Cardinality(Counted) - 1
    BY <2>2, CountedIsFinite, FS_RemoveElement
  <2>4. Counted # {}
    BY <2>2
  <2>5. Cardinality(Counted) # 0
    BY <2>4, CountedIsFinite, FS_EmptySet
  <2>6. outstanding' = outstanding - 1 /\ outstanding # 0
    BY <1>1, <2>1, <2>5
  <2>7. outstanding' = Cardinality(Counted')
    BY <1>1, <2>2, <2>3, <2>6
  <2>8. outstanding' \in Nat /\ outstanding' <= MaxQueued
    BY <1>1, <2>6, AdapterAssumption
  <2> QED
    BY <1>1, <2>1, <2>7, <2>8
<1> QED
  BY <1>1, <1>3, <1>4, <1>5, <1>6 DEF Executor!Next

LEMMA CountInvCoversJobs == CountInv => CountCoversJobs
<1> SUFFICES ASSUME CountInv
             PROVE  CountCoversJobs
  OBVIOUS
<1>1. /\ Executor!TypeOK
      /\ outstanding = Cardinality(Counted) /\ outstanding <= MaxQueued
  BY DEF CountInv
<1>2. WithThread \subseteq Counted
  BY DEF WithThread, Executor!On, Counted
<1>3. Cardinality(WithThread) <= Cardinality(Counted)
  BY <1>2, CountedIsFinite, FS_Subset
<1>4. Executor!On({"panicked"}) = {} => WithThread = Counted
  BY DEF WithThread, Executor!On, Counted
<1> QED
  BY <1>1, <1>3, <1>4 DEF CountCoversJobs

(***************************************************************************)
(* src/host_pending.rs, AdapterExecutor: for any number of jobs and any    *)
(* limit the count covers the jobs that have a thread, is their number     *)
(* while none has panicked, and keeps the limit.                           *)
(***************************************************************************)
THEOREM CountCoversJobsHolds == AdapterSpec => []CountCoversJobs
<1>1. AdapterInit => CountInv
  BY CountInit
<1>2. CountInv /\ [AdapterNext]_all => CountInv'
  BY StepOfExecutor, CountNext
<1>3. CountInv => CountCoversJobs
  BY CountInvCoversJobs
<1> QED
  BY <1>1, <1>2, <1>3, PTL DEF AdapterSpec

============================================================================
