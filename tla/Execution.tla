----------------------------- MODULE Execution -----------------------------
(***************************************************************************)
(* src/engine.rs: execution handles that share one Scheduler.              *)
(*                                                                         *)
(* A handle is identified with the slot its admission got.  It lives on    *)
(* one thread and borrows one ExecutionContext until it is dropped; the    *)
(* context (its cancellation token, its session) outlives it and may be    *)
(* borrowed again.  poll takes the scheduler's mutex several times, so it  *)
(* is split where another thread may come between: PollX runs the guards   *)
(* and registers for a turn, CheckHead asks is_head, EndSlice is the slice *)
(* and what poll does with its result.  Between them the thread that polls *)
(* does nothing else.                                                      *)
(*                                                                         *)
(* Abstractions: create_execution and start differ only in the name of the *)
(* first state (both link on the first poll), so "Created" is both.        *)
(* ExplicitYield is never triggered and the audit queue yield is reported  *)
(* as a slice yield.  A slice has fuel to reach one checkpoint, so one     *)
(* that starts after a cancel cannot yield or complete; one the cancel     *)
(* finds running may have passed its last checkpoint.  No context has a    *)
(* working clock (new_with_clock rejects every clock): no deadline passes. *)
(* A context is not Send, so it stays on one thread like its handles.      *)
(***************************************************************************)
EXTENDS Integers, Sequences, FiniteSets, SequencesExt

CONSTANTS
  Thread, MaxSlots, MaxActive, MaxQueued,   \* see Scheduler
  Context,     \* ExecutionContexts the host keeps
  MaxSlices,   \* bound: slices a script takes at most
  MaxCancels,  \* bound: contexts that are cancelled when a host cancels one
  Hosts        \* hosts: the calls they make, and how many handles

\* Cancel a context's token, run scripts that make cooperative host calls,
\* pause and resume handles, call Engine::execute.
Calls == {"cancel", "call_host", "pause", "execute"}

\* Of the engine's limits, as in Scheduler.
ASSUME SchedulerAssumption ==
  /\ Thread # {}
  /\ MaxSlots \in Nat
  /\ MaxActive \in Nat \ {0}
  /\ MaxQueued \in Nat

ASSUME ExecutionAssumption ==
  /\ MaxSlices \in Nat \ {0}
  /\ MaxCancels \in Nat
  /\ Hosts \subseteq [calls : SUBSET Calls, handles : 0 .. MaxSlots]

VARIABLES
  active, admission_queue, run_turn, next_slot_id,   \* see Scheduler
  slot_state, kind, token, owner

scheduler == <<active, admission_queue, run_turn, next_slot_id,
               slot_state, kind, token, owner>>

Sched == INSTANCE Scheduler

Slot == Sched!Slot

VARIABLES
  state,       \* ExecutionHandle.state; a Paused handle keeps its resume_to
  paused,      \* state is Paused(resume_to = state)
  stage,       \* where its poll is: "idle", "registered", "slice", or
               \* "late_slice" (a slice that began after a cancel)
  outcome,     \* ExecutionHandle.outcome
  started,     \* ExecutionHandle.started
  registered,  \* ExecutionHandle.run_turn_registered
  ticket,      \* pending_ticket: "none", "waiting" or "ready"
  context,     \* the context the handle borrows
  slices,      \* slices it has run, at most MaxSlices
  cancelled,   \* the CancellationToken of each context
  session,     \* Evaluator.session of each context: a run is in progress
  execute,     \* the handle a thread drives inside Engine::execute
  host,        \* this behaviour's host, which does not change
  waited       \* history: slices of others since its turn was registered

handle == <<state, paused, stage, outcome, started, registered, ticket,
            context, slices>>

changing == <<scheduler, handle, cancelled, session, execute, waited>>

vars == <<changing, host>>

NoSlot == MaxSlots      \* not a slot: the thread is not in Engine::execute

Live(s) == token[s] = "held" /\ state[s] # "Terminal"

Borrowed(c) ==
  \E s \in Slot : context[s] = c
    /\ token[s] \in {"held", "release_active", "release_queued"}

\* Thread t runs host code that may call a method of handle s: it is in no
\* poll and in no drop, and if it is in execute, s is the handle it drives.
FreeFor(t, s) ==
  /\ \A u \in Slot : owner[u] = t => stage[u] = "idle"
  /\ ~Sched!Busy(t)
  /\ execute[t] \in {NoSlot, s}

Callable(s) == token[s] = "held" /\ FreeFor(owner[s], s)

----------------------------------------------------------------------------

Init ==
  /\ Sched!Init
  /\ state = [s \in Slot |-> "None"]
  /\ paused = [s \in Slot |-> FALSE]
  /\ stage = [s \in Slot |-> "idle"]
  /\ outcome = [s \in Slot |-> "None"]
  /\ started = [s \in Slot |-> FALSE]
  /\ registered = [s \in Slot |-> FALSE]
  /\ ticket = [s \in Slot |-> "none"]
  /\ context \in {f \in [Slot -> Context] :
                    \A s, u \in Slot : f[s] = f[u] => owner[s] = owner[u]}
  /\ slices = [s \in Slot |-> 0]
  /\ cancelled = [c \in Context |-> FALSE]
  /\ session = [c \in Context |-> FALSE]
  /\ execute = [t \in Thread |-> NoSlot]
  /\ host \in Hosts
  /\ waited = [s \in Slot |-> 0]

\* admit, then new_handle if it gave a slot; Backpressure makes no handle
\* and leaves the context alone.  execute keeps its thread until the end.
Start(t, inExecute) ==
  LET s == next_slot_id IN
  /\ s < host.handles
  /\ execute[t] = NoSlot
  /\ FreeFor(t, s)
  /\ ~Borrowed(context[s])
  /\ Sched!Admit(t)
  /\ state' = [state EXCEPT ![s] =
                 CASE slot_state'[s] = "active" -> "Created"
                   [] slot_state'[s] = "queued" -> "AdmissionQueued"
                   [] OTHER -> "None"]
  /\ execute' = IF inExecute /\ token'[s] = "held"
                THEN [execute EXCEPT ![t] = s] ELSE execute
  /\ UNCHANGED <<paused, stage, outcome, started, registered, ticket,
                 context, slices, cancelled, session, waited, host>>

CreateExecution(t) == Start(t, FALSE)

Execute(t) == "execute" \in host.calls /\ Start(t, TRUE)

----------------------------------------------------------------------------
\* poll, up to the registration of the turn.

\* finish_terminal.
FinishTerminal(s, o) ==
  /\ state' = [state EXCEPT ![s] = "Terminal"]
  /\ outcome' = [outcome EXCEPT ![s] = o]

\* The end of poll's guards: a turn is registered unless it is already.
Register(s) ==
  /\ stage' = [stage EXCEPT ![s] = "registered"]
  /\ registered' = [registered EXCEPT ![s] = TRUE]
  /\ IF registered[s]
     THEN UNCHANGED <<scheduler, waited>>
     ELSE /\ Sched!RunTurnPushBack(s)
          /\ waited' = [waited EXCEPT ![s] = 0]

Pollable(s) == Callable(s) /\ ~paused[s]

\* checkpoint_terminal, of which only the cancel can fire.
Checkpoint(s) == cancelled[context[s]]

\* Waiting for admission: a cancel is seen first, then the promotion.
PollCancelledInQueue(s) ==
  /\ Pollable(s)
  /\ state[s] = "AdmissionQueued"
  /\ Checkpoint(s)
  /\ FinishTerminal(s, "Cancelled")
  /\ UNCHANGED <<scheduler, paused, stage, started, registered, ticket,
                 context, slices, cancelled, session, execute, waited, host>>

PollPromoted(s) ==
  /\ Pollable(s)
  /\ state[s] = "AdmissionQueued"
  /\ ~Checkpoint(s)
  /\ slot_state[s] = "active"
  /\ state' = [state EXCEPT ![s] = "Created"]
  /\ Register(s)
  /\ UNCHANGED <<paused, outcome, started, ticket, context, slices,
                 cancelled, session, execute, host>>

\* Variant: the abandoned run stays in the context.
KeepSession(c) == session

\* abort_session, as far as the handle sees it.
AbortSession(c) == [session EXCEPT ![c] = FALSE]

\* Waiting for a host call: the cancel is seen before the result.
PollCancelledInHostCall(s) ==
  /\ Pollable(s)
  /\ state[s] = "HostCallPending"
  /\ Checkpoint(s)
  /\ Sched!RunTurnRemove(s)
  /\ FinishTerminal(s, "Cancelled")
  /\ ticket' = [ticket EXCEPT ![s] = "none"]
  /\ registered' = [registered EXCEPT ![s] = FALSE]
  /\ session' = AbortSession(context[s])
  /\ UNCHANGED <<paused, stage, started, context, slices, cancelled,
                 execute, waited, host>>

\* try_take gives the result and resume_host_call injects it.  The state
\* stays HostCallPending until the handle is at the head of the turn.  Its
\* refusal of another call_id has no step: the session waits for the call that
\* the same slice stored on the handle, and a ticket gives its result once.
PollHostResult(s) ==
  /\ Pollable(s)
  /\ state[s] = "HostCallPending"
  /\ ~Checkpoint(s)
  /\ ticket[s] = "ready"
  /\ ticket' = [ticket EXCEPT ![s] = "none"]
  /\ Register(s)
  /\ UNCHANGED <<state, paused, outcome, started, context, slices,
                 cancelled, session, execute, host>>

PollReady(s) ==
  /\ Pollable(s)
  /\ state[s] \in {"Created", "SliceFuelExhausted"}
  /\ Register(s)
  /\ UNCHANGED <<state, paused, outcome, started, ticket, context, slices,
                 cancelled, session, execute, host>>

----------------------------------------------------------------------------
\* poll, from is_head on.

\* Variant: every registered handle may run.
InTurn(q, s) == Contains(q, s)

AtHead(q, s) == Sched!IsHead(q, s)

\* What the checkpoints of the slice that begins now will find.
SliceBegins(s) == IF cancelled[context[s]] THEN "late_slice" ELSE "slice"

\* Not at the head: SchedulerPreempted, and nothing else happens.
CheckHead(s) ==
  /\ stage[s] = "registered"
  /\ IF AtHead(run_turn, s)
     THEN /\ stage' = [stage EXCEPT ![s] = SliceBegins(s)]
          /\ state' = [state EXCEPT ![s] = "Running"]
     ELSE /\ stage' = [stage EXCEPT ![s] = "idle"]
          /\ UNCHANGED state
  /\ UNCHANGED <<scheduler, paused, outcome, started, registered, ticket,
                 context, slices, cancelled, session, execute, waited, host>>

InSlice(s) == stage[s] \in {"slice", "late_slice"}

\* Variants: a handle that yields stays at the head, queues up again without
\* leaving it, or leaves the queue while its flag says that it is there.
KeepTheTurn(q, s) == q
QueueTwice(q, s) == Append(q, s)
ForgetTheTurn(q, s) == Sched!RemoveTurn(q, s)

TurnAfterYield(q, s) == Sched!Rotate(q, s)

\* History only: whoever is registered waited for this slice.
CountWaiting(s) ==
  waited' = [u \in Slot |->
               IF u # s /\ Contains(run_turn, u) THEN waited[u] + 1 ELSE 0]

\* What every end of a slice does.  A run in progress is the context's
\* session; begin_execution opens it on the first slice.
SliceEnds(s, inProgress) ==
  /\ InSlice(s)
  /\ stage' = [stage EXCEPT ![s] = "idle"]
  /\ slices' = [slices EXCEPT ![s] = @ + 1]
  /\ session' = [session EXCEPT ![context[s]] = inProgress]
  /\ CountWaiting(s)
  /\ UNCHANGED <<paused, context, cancelled, execute, host>>

SliceYields(s) ==
  /\ slices[s] + 1 < MaxSlices
  /\ SliceEnds(s, TRUE)
  /\ started' = [started EXCEPT ![s] = TRUE]
  /\ Sched!UseTurn(s, TurnAfterYield(run_turn, s))
  /\ state' = [state EXCEPT ![s] = "SliceFuelExhausted"]
  /\ UNCHANGED <<outcome, registered, ticket>>

\* The ticket moves to the handle and the turn is given up.
SliceCallsHost(s) ==
  /\ "call_host" \in host.calls
  /\ slices[s] + 1 < MaxSlices
  /\ SliceEnds(s, TRUE)
  /\ started' = [started EXCEPT ![s] = TRUE]
  /\ Sched!RunTurnRemove(s)
  /\ state' = [state EXCEPT ![s] = "HostCallPending"]
  /\ ticket' = [ticket EXCEPT ![s] = "waiting"]
  /\ registered' = [registered EXCEPT ![s] = FALSE]
  /\ UNCHANGED outcome

\* Variant: the turn is not given up at the end.
KeepTerminalTurn(s) ==
  Sched!UseTurn(s, run_turn)

LeaveTurn(s) == Sched!RunTurnRemove(s)

SliceTerminates(s, o) ==
  /\ o = "LinkError" => ~started[s]
  /\ SliceEnds(s, FALSE)
  /\ started' = [started EXCEPT ![s] = started[s] \/ o # "LinkError"]
  /\ LeaveTurn(s)
  /\ FinishTerminal(s, o)
  /\ UNCHANGED <<registered, ticket>>

\* A cancel that comes during the slice may be seen or not; one that came
\* before it ends the run unless an error does so first.
EndSlice(s) ==
  \/ stage[s] = "slice" /\ SliceYields(s)
  \/ stage[s] = "slice" /\ SliceCallsHost(s)
  \/ stage[s] = "slice" /\ SliceTerminates(s, "Completed")
  \/ SliceTerminates(s, "RuntimeError")
  \/ SliceTerminates(s, "LinkError")
  \/ cancelled[context[s]] /\ SliceTerminates(s, "Cancelled")

----------------------------------------------------------------------------
\* The rest of the handle, and the other threads.

Pause(s) ==
  /\ "pause" \in host.calls
  /\ Callable(s)
  /\ ~paused[s] /\ state[s] # "Terminal"
  /\ paused' = [paused EXCEPT ![s] = TRUE]
  /\ UNCHANGED <<scheduler, state, stage, outcome, started, registered,
                 ticket, context, slices, cancelled, session, execute, waited, host>>

Resume(s) ==
  /\ Callable(s)
  /\ paused[s]
  /\ paused' = [paused EXCEPT ![s] = FALSE]
  /\ UNCHANGED <<scheduler, state, stage, outcome, started, registered,
                 ticket, context, slices, cancelled, session, execute, waited, host>>

\* CancellationToken::cancel, from any thread that holds a clone.
Cancel(c) ==
  /\ "cancel" \in host.calls
  /\ ~cancelled[c]
  /\ Cardinality({d \in Context : cancelled[d]}) < MaxCancels
  /\ \E s \in Slot : context[s] = c /\ Live(s)
  /\ cancelled' = [cancelled EXCEPT ![c] = TRUE]
  /\ UNCHANGED <<scheduler, handle, session, execute, waited, host>>

\* The adapter completes the call (HostCall.tla has the steps).
HostCompletes(s) ==
  /\ ticket[s] = "waiting"
  /\ ticket' = [ticket EXCEPT ![s] = "ready"]
  /\ UNCHANGED <<scheduler, state, paused, stage, outcome, started,
                 registered, context, slices, cancelled, session, execute, waited, host>>

\* Drop for ExecutionHandle up to the mirror read of its slot.  execute
\* returns, and so drops its handle, only when it is terminal.
DropHandle(s) ==
  /\ Callable(s)
  /\ execute[owner[s]] = s => state[s] = "Terminal"
  /\ Sched!DropSlot(s)
  /\ IF state[s] = "Terminal"
     THEN UNCHANGED <<cancelled, ticket, session>>
     ELSE /\ cancelled' = [cancelled EXCEPT ![context[s]] = TRUE]
          /\ ticket' = [ticket EXCEPT ![s] = "none"]
          /\ session' = AbortSession(context[s])
  /\ UNCHANGED <<state, paused, stage, outcome, started, registered,
                 context, slices, execute, waited, host>>

\* The release that ends the drop; a thread in execute returns to its host.
ReleaseSlot(s) ==
  /\ Sched!ReleaseActive(s) \/ Sched!ReleaseQueued(s)
  /\ execute' = [t \in Thread |-> IF execute[t] = s THEN NoSlot ELSE execute[t]]
  /\ UNCHANGED <<handle, cancelled, session, waited, host>>

----------------------------------------------------------------------------

Poll(s) ==
  \/ PollCancelledInQueue(s)
  \/ PollPromoted(s)
  \/ PollCancelledInHostCall(s)
  \/ PollHostResult(s)
  \/ PollReady(s)

Next ==
  \/ \E t \in Thread : CreateExecution(t) \/ Execute(t)
  \/ \E s \in Slot :
       \/ Poll(s)
       \/ CheckHead(s)
       \/ EndSlice(s)
       \/ Pause(s)
       \/ Resume(s)
       \/ HostCompletes(s)
       \/ DropHandle(s)
       \/ ReleaseSlot(s)
  \/ \E c \in Context : Cancel(c)

Spec == Init /\ [][Next]_vars

\* A poll or a drop that has begun ends.  The host polls every handle again
\* and again, resumes what it paused, and drops what is terminal.
Fairness ==
  \A s \in Slot :
    /\ WF_changing(CheckHead(s) \/ EndSlice(s) \/ ReleaseSlot(s))
    /\ SF_changing(Poll(s))
    /\ SF_changing(Resume(s) \/ (DropHandle(s) /\ state[s] = "Terminal"))

FairSpec == Spec /\ Fairness

----------------------------------------------------------------------------

States == {"None", "Created", "AdmissionQueued", "Running",
           "SliceFuelExhausted", "HostCallPending", "Terminal"}

Outcomes == {"None", "Completed", "RuntimeError", "LinkError", "Cancelled"}

TypeOK ==
  /\ Sched!TypeOK
  /\ state \in [Slot -> States]
  /\ paused \in [Slot -> BOOLEAN]
  /\ stage \in [Slot -> {"idle", "registered", "slice", "late_slice"}]
  /\ outcome \in [Slot -> Outcomes]
  /\ started \in [Slot -> BOOLEAN]
  /\ registered \in [Slot -> BOOLEAN]
  /\ ticket \in [Slot -> {"none", "waiting", "ready"}]
  /\ context \in [Slot -> Context]
  /\ slices \in [Slot -> 0 .. MaxSlices]
  /\ cancelled \in [Context -> BOOLEAN]
  /\ session \in [Context -> BOOLEAN]
  /\ execute \in [Thread -> 0 .. MaxSlots]
  /\ host \in Hosts
  /\ waited \in [Slot -> Nat]

(***************************************************************************)
(* The scheduler part of every behaviour is a behaviour of Scheduler: the  *)
(* handles call its methods as that module assumes, so what is proved of   *)
(* it holds here (poll, Drop and create_execution as callers).             *)
(***************************************************************************)
ImplementsScheduler == Sched!Spec

(***************************************************************************)
(* Although poll asks is_head and then works without the lock, at most one *)
(* execution of the whole engine is in a slice at a time, and it is at the *)
(* head of the run turn until the slice ends (poll steps 5 and 6).         *)
(***************************************************************************)
OneSliceAtATime ==
  \A s \in Slot :
    /\ InSlice(s) => Sched!IsHead(run_turn, s)
    /\ InSlice(s) <=> state[s] = "Running"

(***************************************************************************)
(* A handle's own flag and the shared queue never disagree: a live handle  *)
(* is in the run turn exactly when it believes so, and one that ended is   *)
(* not.  A flag left set would keep the handle from ever registering       *)
(* again; a turn left behind would stop the engine (run_turn_registered).  *)
(***************************************************************************)
TurnMatchesHandle ==
  \A s \in Slot :
    /\ Live(s) => (registered[s] <=> Contains(run_turn, s))
    /\ state[s] = "Terminal" => ~Contains(run_turn, s)

(***************************************************************************)
(* The slices take turns, in the order of the shared queue (poll); types.  *)
(***************************************************************************)
SlicesTakeTurns == TypeOK /\ OneSliceAtATime /\ TurnMatchesHandle

(***************************************************************************)
(* A registered handle watches each other active execution take at most    *)
(* one slice before its own turn, whatever the hosts' threads do           *)
(* (run_turn_rotate after every yield, registration at the back).          *)
(***************************************************************************)
BoundedBypass == \A s \in Slot : waited[s] < MaxActive

(***************************************************************************)
(* A context that no live handle borrows has no run in progress: a handle  *)
(* that is dropped or cancelled half-way takes its session with it, so the *)
(* next execution starts clean (abort_session, begin_execution).           *)
(***************************************************************************)
NoSessionLeak ==
  \A c \in Context :
    session[c] => \E s \in Slot : context[s] = c /\ Live(s) /\ started[s]

\* Handles whose hold on the others the code does not bound: one that waits
\* for a host call may have lost its answer and be at the head of the turn
\* (AnswerResumes), and Engine::execute keeps the other handles of its thread
\* from being polled, and from being dropped when it waits for their slot.
Waiting(s) == Live(s) /\ state[s] = "HostCallPending"

Blocked(t) ==
  /\ execute[t] # NoSlot
  /\ \E s \in Slot \ {execute[t]} :
       /\ owner[s] = t /\ token[s] = "held"
       /\ Live(s) \/ slot_state[execute[t]] = "queued"

(***************************************************************************)
(* If the host keeps polling, every execution ends, one driven by execute  *)
(* included: nobody waits for a turn or a slot forever, and a cancel ends  *)
(* a wait for an answer that never comes.  The only excuses are that       *)
(* another execution waits for a host call, that it does itself and is not *)
(* cancelled, or that execute was called beside a handle in its way (poll, *)
(* its checkpoints, run_turn_*, release_active, drive_to_outcome).         *)
(***************************************************************************)
EveryoneFinishes ==
  \A s \in Slot :
    Live(s) /\ state[s] # "None"
      ~> \/ ~Live(s)
         \/ Waiting(s) /\ ~cancelled[context[s]]
         \/ \E u \in Slot \ {s} : Waiting(u)
         \/ \E t \in Thread : Blocked(t)

(***************************************************************************)
(* docs/execution-control.md 9.2: a yielded execution goes back to the run *)
(* turn when its reason is resolved.  poll takes the answer of a host call *)
(* but keeps the state HostCallPending while another handle is at the      *)
(* head, and later polls wait for the answer they already took.            *)
(***************************************************************************)
AnswerResumes ==
  \A s \in Slot :
    Live(s) /\ state[s] = "HostCallPending" /\ ticket[s] = "ready"
      ~> ~Live(s) \/ state[s] # "HostCallPending"

=============================================================================
