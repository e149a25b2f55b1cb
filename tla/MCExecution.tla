---------------------------- MODULE MCExecution ----------------------------
(* Hosts for the runs of Execution: the calls they make, and the threads    *)
(* and contexts of their handles.                                           *)
EXTENDS Execution

Host(calls, handles) == [calls |-> calls, handles |-> handles]

CallingHosts == {Host({"call_host"}, 2)}
LiveHosts ==
  {Host({"cancel"}, 3), Host({}, 3), Host({"cancel", "call_host", "pause"}, 2),
   Host({"execute"}, 2)}

\* Liveness cannot use symmetry: of the assignments of threads and contexts
\* that differ in names alone there is one.  Two handles share a thread, a
\* context, or neither.  Three handles have a context each; they share one
\* thread when the host cancels, and else the second has its own.
LiveInit ==
  /\ Init
  /\ owner[0] = 0 /\ context[0] = 0 /\ context[1] <= 1
  /\ \A s \in Slot : s >= host.handles => context[s] = s /\ owner[s] = owner[0]
  /\ host.handles = 3 =>
       /\ context = [s \in Slot |-> s]
       /\ owner = IF "cancel" \in host.calls THEN [s \in Slot |-> 0]
                  ELSE [s \in Slot |-> s % 2]

LiveSpec == LiveInit /\ [][Next]_vars /\ Fairness

=============================================================================
