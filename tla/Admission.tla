----------------------------- MODULE Admission -----------------------------
(***************************************************************************)
(* What the engine promises about admission, without mutexes, mirrors or   *)
(* release tokens: a bounded set of running executions in front of a       *)
(* bounded waiting line served in order of arrival.  An arrival runs at    *)
(* once when there is room, waits when only the line has room, and is      *)
(* refused only when both are full.  Whoever leaves the running set hands  *)
(* its place to the head of the line in the same step.                     *)
(*                                                                         *)
(* docs/execution-control.md sections 9.1 and 12 state this promise;       *)
(* Scheduler.tla is the code that is meant to keep it.                     *)
(***************************************************************************)
EXTENDS Integers, Sequences, FiniteSets, SequencesExt

CONSTANTS
  Execution,   \* identities executions may have
  MaxActive,   \* EngineLimits::max_active_executions
  MaxQueued    \* EngineLimits::max_queued_executions

VARIABLES
  running,     \* executions that own an active slot
  waiting,     \* the admission line, oldest first
  refused,     \* arrivals answered with Backpressure
  gone         \* executions that gave their place back

vars == <<running, waiting, refused, gone>>

Seen == running \union ToSet(waiting) \union refused \union gone

Init ==
  /\ running = {}
  /\ waiting = << >>
  /\ refused = {}
  /\ gone = {}

Run(e) ==
  /\ e \in Execution \ Seen
  /\ Cardinality(running) < MaxActive
  /\ running' = running \union {e}
  /\ UNCHANGED <<waiting, refused, gone>>

Wait(e) ==
  /\ e \in Execution \ Seen
  /\ Cardinality(running) = MaxActive
  /\ Len(waiting) < MaxQueued
  /\ waiting' = Append(waiting, e)
  /\ UNCHANGED <<running, refused, gone>>

Refuse(e) ==
  /\ e \in Execution \ Seen
  /\ Cardinality(running) = MaxActive
  /\ Len(waiting) = MaxQueued
  /\ refused' = refused \union {e}
  /\ UNCHANGED <<running, waiting, gone>>

Finish(e) ==
  /\ e \in running
  /\ IF waiting = << >>
     THEN /\ running' = running \ {e}
          /\ UNCHANGED waiting
     ELSE /\ running' = (running \ {e}) \union {Head(waiting)}
          /\ waiting' = Tail(waiting)
  /\ gone' = gone \union {e}
  /\ UNCHANGED refused

GiveUp(e) ==
  /\ e \in ToSet(waiting)
  /\ waiting' = RemoveFirst(waiting, e)
  /\ gone' = gone \union {e}
  /\ UNCHANGED <<running, refused>>

Next ==
  \E e \in Execution : Run(e) \/ Wait(e) \/ Refuse(e) \/ Finish(e) \/ GiveUp(e)

Spec == Init /\ [][Next]_vars

=============================================================================
