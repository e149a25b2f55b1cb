------------------------------ MODULE HostCall ------------------------------
(***************************************************************************)
(* src/host_pending.rs, with the CancellationToken of src/budget.rs and    *)
(* set_waker and poll of src/engine.rs: how a handle that waits for a host *)
(* call learns that it may go on.                                          *)
(*                                                                         *)
(* Three threads.  The handle's own thread polls and sets wakers; the      *)
(* adapter's thread completes the ticket; any thread cancels.  They share  *)
(* the ticket (a mutex and the atomic ready) and the token (an atomic flag *)
(* and a mutex), and every access is a step.  wake only hints: the host    *)
(* polls when the waker it set has been called, and may poll at any time.  *)
(*                                                                         *)
(* One wait is modelled, from the slice that made the ticket to the end of *)
(* the wait.  MaxSets bounds how often the host changes the waker.         *)
(***************************************************************************)
EXTENDS Naturals

CONSTANTS
  Waker,         \* ExecutionWakers the host has
  NoWaker,       \* Option::None
  MaxSets        \* bound: calls of set_waker during the wait

ASSUME WakerAssumption == NoWaker \notin Waker /\ MaxSets \in Nat

VARIABLES
  result,        \* TicketState.result: "none" or "answer"
  ticket_waker,  \* TicketState.waker
  discarded,     \* TicketState.cancelled
  ready,         \* TicketShared.ready
  completing,    \* where complete is
  complete_saw,  \* the waker complete read
  flag,          \* CancellationToken.flag
  token_waker,   \* CancellationToken.waker
  cancelling,    \* where cancel is
  cancel_saw,    \* the waker cancel read
  wait,          \* "entering", "pending", "resumed", "cancelled" or "dropped"
  step,          \* what the handle's thread is doing
  setting,       \* the waker set_waker was called with
  handle_waker,  \* ExecutionHandle.waker
  sets,          \* calls of set_waker so far
  polls_after_set,  \* the host's habit: it also polls after every set_waker
  woken          \* wakers called since the host last answered them by a poll

ticket == <<result, ticket_waker, discarded, ready>>
completer == <<completing, complete_saw>>
token == <<flag, token_waker>>
canceller == <<cancelling, cancel_saw>>
handle == <<wait, step, setting, handle_waker, sets, polls_after_set>>

vars == <<ticket, completer, token, canceller, handle, woken>>

Wakers == Waker \union {NoWaker}

\* ExecutionWaker::wake, on whatever waker was read.
Wake(w) == woken' = woken \union ({w} \ {NoWaker})

----------------------------------------------------------------------------
\* new_ticket, and the handle as the slice that calls the host leaves it: its
\* waker, if it has one, is on the token and will be registered on the ticket.

Init ==
  /\ result = "none" /\ ticket_waker = NoWaker
  /\ discarded = FALSE /\ ready = FALSE
  /\ completing = "working" /\ complete_saw = NoWaker
  /\ handle_waker \in Wakers
  /\ flag = FALSE /\ token_waker = handle_waker
  /\ cancelling = "no" /\ cancel_saw = NoWaker
  /\ wait = "entering"
  /\ step = IF handle_waker = NoWaker THEN "enter" ELSE "store_waker"
  /\ setting = handle_waker
  /\ sets = 0
  /\ polls_after_set \in BOOLEAN
  /\ woken = {}

----------------------------------------------------------------------------
\* HostCallCompleter::complete, on the adapter's thread.

\* The mutex: the result is stored unless there is one.
StoreResult ==
  /\ completing = "working"
  /\ completing' = IF result = "none" THEN "stored" ELSE "done"
  /\ result' = "answer"
  /\ UNCHANGED <<ticket_waker, discarded, ready, complete_saw, token,
                 canceller, handle, woken>>

\* Variant: ready may be set before the result is stored.
SetReadyEarly ==
  /\ completing \in {"working", "stored"}
  /\ ready' = TRUE
  /\ completing' = IF completing = "working" THEN "working" ELSE "ready"
  /\ UNCHANGED <<result, ticket_waker, discarded, complete_saw, token,
                 canceller, handle, woken>>

SetReady ==
  /\ completing = "stored"
  /\ ready' = TRUE
  /\ completing' = "ready"
  /\ UNCHANGED <<result, ticket_waker, discarded, complete_saw, token,
                 canceller, handle, woken>>

ReadTicketWaker ==
  /\ completing = "ready"
  /\ complete_saw' = ticket_waker
  /\ completing' = "waking"
  /\ UNCHANGED <<ticket, token, canceller, handle, woken>>

WakeForAnswer ==
  /\ completing = "waking"
  /\ Wake(complete_saw)
  /\ completing' = "done"
  /\ UNCHANGED <<ticket, complete_saw, token, canceller, handle>>

Complete == StoreResult \/ SetReady \/ ReadTicketWaker \/ WakeForAnswer

----------------------------------------------------------------------------
\* CancellationToken::cancel, on any thread.

RaiseFlag ==
  /\ cancelling = "no"
  /\ cancelling' = IF flag THEN "done" ELSE "flagged"
  /\ flag' = TRUE
  /\ UNCHANGED <<ticket, completer, token_waker, cancel_saw, handle, woken>>

ReadTokenWaker ==
  /\ cancelling = "flagged"
  /\ cancel_saw' = token_waker
  /\ cancelling' = "waking"
  /\ UNCHANGED <<ticket, completer, token, handle, woken>>

WakeForCancel ==
  /\ cancelling = "waking"
  /\ Wake(cancel_saw)
  /\ cancelling' = "done"
  /\ UNCHANGED <<ticket, completer, token, cancel_saw, handle>>

Cancel == RaiseFlag \/ ReadTokenWaker \/ WakeForCancel

----------------------------------------------------------------------------
\* set_waker, on the handle's thread.  None only clears the handle's field.

SetWaker(w) ==
  /\ wait = "pending" /\ step = "idle"
  /\ sets < MaxSets
  /\ sets' = sets + 1
  /\ IF w = NoWaker
     THEN /\ handle_waker' = NoWaker
          /\ UNCHANGED <<step, setting>>
     ELSE /\ setting' = w
          /\ step' = "store_token_waker"
          /\ UNCHANGED handle_waker
  /\ UNCHANGED <<ticket, completer, token, canceller, wait, polls_after_set,
                 woken>>

\* Variant: the first waker stays registered.
KeepFirst(old, new) == IF old = NoWaker THEN new ELSE old

\* A registration replaces the earlier one.
Replace(old, new) == new

\* CancellationToken::register_waker: the flag is not looked at again.
RegisterOnToken ==
  /\ step = "store_token_waker"
  /\ token_waker' = Replace(token_waker, setting)
  /\ step' = "store_waker"
  /\ UNCHANGED <<ticket, completer, flag, canceller, wait, setting,
                 handle_waker, sets, polls_after_set, woken>>

\* HostCallTicket::register_waker: store the waker ...
RegisterOnTicket ==
  /\ step = "store_waker"
  /\ ticket_waker' = Replace(ticket_waker, setting)
  /\ step' = "check_ready"
  /\ UNCHANGED <<result, discarded, ready, completer, token, canceller, wait,
                 setting, handle_waker, sets, polls_after_set, woken>>

\* Variant: the second look at ready is left out.
NotReady == FALSE

\* ... and wake it at once if the answer came first.
ReadyAgain == ready

CheckReady ==
  /\ step = "check_ready"
  /\ handle_waker' = setting
  /\ step' = IF wait = "entering" THEN "enter" ELSE "was_set"
  /\ IF ReadyAgain THEN Wake(setting) ELSE UNCHANGED woken
  /\ UNCHANGED <<ticket, completer, token, canceller, wait, setting, sets,
                 polls_after_set>>

\* The end of poll or of set_waker.
Return ==
  /\ \/ step = "enter" /\ wait' = "pending" /\ step' = "idle"
     \/ /\ step = "was_set"
        /\ step' = IF polls_after_set THEN "checkpoint" ELSE "idle"
        /\ UNCHANGED wait
  /\ UNCHANGED <<ticket, completer, token, canceller, setting, handle_waker,
                 sets, polls_after_set, woken>>

----------------------------------------------------------------------------
\* poll of a handle in HostCallPending, on the handle's thread.

BeginPoll ==
  /\ wait = "pending" /\ step = "idle"
  /\ step' = "checkpoint"
  /\ woken' = woken \ {handle_waker}
  /\ UNCHANGED <<ticket, completer, token, canceller, wait, setting,
                 handle_waker, sets, polls_after_set>>

\* The wait ends and the ticket is cancelled: a late answer is discarded.
EndWait(how) ==
  /\ wait' = how
  /\ step' = "idle"
  /\ discarded' = TRUE
  /\ result' = "none"

PollCheckpoint ==
  /\ step = "checkpoint"
  /\ IF flag
     THEN EndWait("cancelled")
     ELSE /\ step' = "load_ready"
          /\ UNCHANGED <<wait, discarded, result>>
  /\ UNCHANGED <<ticket_waker, ready, completer, token, canceller, setting,
                 handle_waker, sets, polls_after_set, woken>>

\* try_take: without ready it does not touch the mutex.
PollLoadReady ==
  /\ step = "load_ready"
  /\ step' = IF ready THEN "take" ELSE "idle"
  /\ UNCHANGED <<ticket, completer, token, canceller, wait, setting,
                 handle_waker, sets, polls_after_set, woken>>

\* The answer is injected and the ticket dropped.
PollTake ==
  /\ step = "take"
  /\ IF ~discarded /\ result = "answer"
     THEN EndWait("resumed")
     ELSE /\ step' = "idle"
          /\ UNCHANGED <<wait, discarded, result>>
  /\ UNCHANGED <<ticket_waker, ready, completer, token, canceller, setting,
                 handle_waker, sets, polls_after_set, woken>>

Poll == BeginPoll \/ PollCheckpoint \/ PollLoadReady \/ PollTake

\* Drop for the handle: cancel the token (waking its waker), then the ticket.
DropHandle ==
  /\ wait = "pending" /\ step = "idle"
  /\ flag' = TRUE
  /\ IF flag THEN UNCHANGED woken ELSE Wake(token_waker)
  /\ EndWait("dropped")
  /\ UNCHANGED <<ticket_waker, ready, completer, token_waker, canceller,
                 setting, handle_waker, sets, polls_after_set>>

----------------------------------------------------------------------------

HandleStep ==
  \/ RegisterOnToken
  \/ RegisterOnTicket
  \/ CheckReady
  \/ Return
  \/ PollCheckpoint
  \/ PollLoadReady
  \/ PollTake

Next ==
  \/ Complete
  \/ Cancel
  \/ \E w \in Wakers : SetWaker(w)
  \/ BeginPoll
  \/ HandleStep
  \/ DropHandle

Spec == Init /\ [][Next]_vars

\* Whatever has begun ends.  The host polls when its waker was called; it
\* need not poll otherwise.  The adapter need not answer.
Fairness ==
  /\ WF_vars(HandleStep)
  /\ WF_vars(SetReady \/ ReadTicketWaker \/ WakeForAnswer)
  /\ WF_vars(ReadTokenWaker \/ WakeForCancel)
  /\ WF_vars(BeginPoll /\ handle_waker \in woken)

FairSpec == Spec /\ Fairness

----------------------------------------------------------------------------

TypeOK ==
  /\ result \in {"none", "answer"}
  /\ ticket_waker \in Wakers /\ token_waker \in Wakers
  /\ complete_saw \in Wakers /\ cancel_saw \in Wakers
  /\ setting \in Wakers /\ handle_waker \in Wakers
  /\ discarded \in BOOLEAN /\ ready \in BOOLEAN /\ flag \in BOOLEAN
  /\ completing \in {"working", "stored", "ready", "waking", "done"}
  /\ cancelling \in {"no", "flagged", "waking", "done"}
  /\ wait \in {"entering", "pending", "resumed", "cancelled", "dropped"}
  /\ step \in {"idle", "enter", "was_set", "store_token_waker", "store_waker",
               "check_ready", "checkpoint", "load_ready", "take"}
  /\ sets \in 0 .. MaxSets /\ polls_after_set \in BOOLEAN
  /\ woken \subseteq Waker

\* The handle waits with the waker w set, and its thread does nothing.
Asleep(w) ==
  /\ wait = "pending" /\ step = "idle"
  /\ handle_waker = w /\ w # NoWaker

(***************************************************************************)
(* No lost wake: when the answer is ready and complete has returned, the   *)
(* waker of a sleeping handle has been called since its last poll.  Both   *)
(* orders count on it: ready is set before the waker is read, and the      *)
(* waker is stored before ready is looked at again (complete,              *)
(* register_waker, set_waker).                                             *)
(***************************************************************************)
AnswerIsAnnounced ==
  \A w \in Waker : Asleep(w) /\ ready /\ completing = "done" => w \in woken

(***************************************************************************)
(* An answer that came in time is never lost: while the wait lasts and     *)
(* nothing was cancelled, a ready ticket still holds its result, however   *)
(* often the host polled (try_take takes the result only to deliver it).   *)
(***************************************************************************)
ReadyMeansAnswer ==
  ready /\ wait \in {"entering", "pending"} => result = "answer"

(***************************************************************************)
(* An answer is neither lost nor passed over in silence (complete,         *)
(* register_waker, try_take), the types with it.                           *)
(***************************************************************************)
AnswerIsKept == TypeOK /\ ReadyMeansAnswer /\ AnswerIsAnnounced

(***************************************************************************)
(* A host that polls only when it is woken gets the answer: no order of    *)
(* complete, set_waker and poll leaves the handle asleep with a result in  *)
(* its ticket (docs/execution-control.md 9.1, no busy polling).            *)
(***************************************************************************)
AnswerArrives ==
  ready /\ wait = "pending" /\ handle_waker # NoWaker
    ~> wait # "pending" \/ handle_waker = NoWaker

(***************************************************************************)
(* The same of a cancel.  It holds of hosts that poll once after every     *)
(* set_waker; of others it does not, because the token's register_waker    *)
(* does not look at its flag again after storing the waker.                *)
(***************************************************************************)
CancelArrives ==
  polls_after_set /\ flag /\ wait = "pending" /\ handle_waker # NoWaker
    ~> wait # "pending" \/ handle_waker = NoWaker

(***************************************************************************)
(* No host that polls when it is woken waits for ever for what is there    *)
(* (complete, cancel, set_waker).                                          *)
(***************************************************************************)
WakesArrive == AnswerArrives /\ CancelArrives

=============================================================================
