---------------------------- MODULE HostAdapter ----------------------------
(***************************************************************************)
(* A host call served by the AdapterExecutor (src/host_pending.rs): the    *)
(* job Mine runs the host's function and completes the ticket that the     *)
(* handle of HostCall waits for, beside other jobs.  If its function       *)
(* panics, the completer is dropped and nobody completes the ticket; the   *)
(* cancel observer of the job reads the token but does not stop it.        *)
(***************************************************************************)
EXTENDS HostCall, FiniteSets

CONSTANTS
  Job, MaxQueued,   \* see AdapterExecutor
  Mine              \* the job of the call

ASSUME AdapterAssumption ==
  IsFiniteSet(Job) /\ Mine \in Job /\ MaxQueued \in Nat \ {0}

VARIABLES outstanding, job

executor == <<outstanding, job>>

Executor == INSTANCE AdapterExecutor

all == <<vars, executor>>

\* The slice that made the ticket submitted its job first.
AdapterInit ==
  /\ Init
  /\ outstanding = 1
  /\ job = [j \in Job |-> IF j = Mine THEN "running" ELSE "new"]

\* The job's thread: the function returns and complete begins ...
FunctionReturns ==
  /\ job[Mine] = "running"
  /\ StoreResult
  /\ UNCHANGED executor

\* ... and complete returns to the job.
CompleteReturns == WakeForAnswer /\ Executor!Complete(Mine)

FunctionPanics ==
  /\ completing = "working"
  /\ Executor!Panic(Mine)
  /\ UNCHANGED vars

\* The other jobs; a job that ended leaves its thread, the job Mine included.
OtherJob(j) ==
  \/ Executor!Submit(j) /\ UNCHANGED vars
  \/ j # Mine /\ Executor!Complete(j) /\ UNCHANGED vars
  \/ j # Mine /\ Executor!Panic(j) /\ UNCHANGED vars
  \/ Executor!Leave(j) /\ UNCHANGED vars

\* Every other step of HostCall.
Elsewhere ==
  \/ SetReady /\ UNCHANGED executor
  \/ ReadTicketWaker /\ UNCHANGED executor
  \/ RaiseFlag /\ UNCHANGED executor
  \/ ReadTokenWaker /\ UNCHANGED executor
  \/ WakeForCancel /\ UNCHANGED executor
  \/ \E w \in Wakers : SetWaker(w) /\ UNCHANGED executor
  \/ BeginPoll /\ UNCHANGED executor
  \/ RegisterOnToken /\ UNCHANGED executor
  \/ RegisterOnTicket /\ UNCHANGED executor
  \/ CheckReady /\ UNCHANGED executor
  \/ Return /\ UNCHANGED executor
  \/ PollCheckpoint /\ UNCHANGED executor
  \/ PollLoadReady /\ UNCHANGED executor
  \/ PollTake /\ UNCHANGED executor
  \/ DropHandle /\ UNCHANGED executor

AdapterNext ==
  \/ FunctionReturns
  \/ CompleteReturns
  \/ FunctionPanics
  \/ \E j \in Job : OtherJob(j)
  \/ Elsewhere

\* The fairness of HostCall: the function need not return.
AdapterSpec == AdapterInit /\ [][AdapterNext]_all /\ Fairness

----------------------------------------------------------------------------

(***************************************************************************)
(* The count that submit compares is "queue + the running jobs in total"   *)
(* (host_pending.rs:373): it never falls behind the jobs that have a       *)
(* thread, so that there are never more of them than max_queued, and while *)
(* no job has panicked it is their number.  It is more than that for good  *)
(* after a panic, which leaves the thread before the count is lowered      *)
(* (host_pending.rs:424): a place is lost, in the end all of them.         *)
(***************************************************************************)
WithThread == Executor!On({"running", "completed"})
CountCoversJobs ==
  /\ Executor!TypeOK
  /\ Cardinality(WithThread) <= outstanding
  /\ outstanding <= MaxQueued
  /\ Executor!On({"panicked"}) = {} => outstanding = Cardinality(WithThread)

============================================================================
