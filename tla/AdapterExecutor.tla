-------------------------- MODULE AdapterExecutor --------------------------
(***************************************************************************)
(* src/host_pending.rs, AdapterExecutor: jobs of cooperative host calls on *)
(* threads of their own.  submit compares the count of outstanding jobs    *)
(* with max_queued under a mutex and starts one thread per accepted job;   *)
(* the thread runs the job, completes its ticket, and only then lowers the *)
(* count.  max_threads and max_concurrency are stored and never compared.  *)
(***************************************************************************)
EXTENDS Integers

CONSTANTS
  Job,       \* jobs submitted in one behaviour
  MaxQueued  \* AdapterExecutorLimits::max_queued

VARIABLES
  outstanding,  \* ExecutorInner.outstanding
  job           \* where each job is

vars == <<outstanding, job>>

Init ==
  /\ outstanding = 0
  /\ job = [j \in Job |-> "new"]

Room == outstanding < MaxQueued

Submit(j) ==
  /\ job[j] = "new"
  /\ IF Room
     THEN /\ outstanding' = outstanding + 1
          /\ job' = [job EXCEPT ![j] = "running"]
     ELSE /\ job' = [job EXCEPT ![j] = "QueueFull"]
          /\ UNCHANGED outstanding

\* complete: from here on the handle can take the answer.
Complete(j) ==
  /\ job[j] = "running"
  /\ job' = [job EXCEPT ![j] = "completed"]
  /\ UNCHANGED outstanding

\* Variant: the count is not lowered.
KeepCount == outstanding

\* saturating_sub(1).
LowerCount == IF outstanding = 0 THEN 0 ELSE outstanding - 1

Leave(j) ==
  /\ job[j] = "completed"
  /\ outstanding' = LowerCount
  /\ job' = [job EXCEPT ![j] = "left"]

\* The thread unwinds: neither complete nor the count is reached.
Panic(j) ==
  /\ job[j] = "running"
  /\ job' = [job EXCEPT ![j] = "panicked"]
  /\ UNCHANGED outstanding

Next == \E j \in Job : Submit(j) \/ Complete(j) \/ Leave(j) \/ Panic(j)

Spec == Init /\ [][Next]_vars

----------------------------------------------------------------------------

On(where) == {j \in Job : job[j] \in where}

TypeOK ==
  /\ outstanding \in Nat
  /\ job \in [Job -> {"new", "QueueFull", "running", "completed", "left",
                      "panicked"}]

=============================================================================
