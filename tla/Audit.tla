-------------------------------- MODULE Audit --------------------------------
(***************************************************************************)
(* src/embedding.rs, src/audit.rs, src/eval.rs: a context that runs        *)
(* scripts under an audit sink, one run after another.                     *)
(*                                                                         *)
(* The facade appends every event to the journal of the run and hands it   *)
(* to the sink, one at a time.  The evaluator works in slices and leaves   *)
(* its events in audit_events; the facade flushes them after each slice.   *)
(* A sink that answers Pending makes the run yield: the evaluator then     *)
(* records two more events, which the same flush has to deliver.  The      *)
(* cancellation token, the clock and the completer of a ticket belong to   *)
(* other threads and move at any time.                                     *)
(*                                                                         *)
(* Abstractions: every event has size one, so one limit stands for the     *)
(* event and the byte limit of the journal; a refusal of the sink is       *)
(* Failed, an acknowledgement of another execution or sequence, or a call  *)
(* back into the engine that spoilt the answer; a charge is of one         *)
(* resource; the language state is a count of effects.  The facade polls   *)
(* the ticket and registers a waker that does nothing.                     *)
(***************************************************************************)
EXTENDS Integers, Sequences, FiniteSets

CONSTANTS
  Scripts,       \* bound: for each run of the context, the scripts it may run
  Rooms,         \* what a journal may hold besides its Terminal
  SliceFuel,     \* statements that a slice may run
  QueueLimit,    \* AuditBudget.max_pending_bytes, in events
  ChargeFlush,   \* CHARGE_FLUSH_THRESHOLD
  MaxResends     \* AUDIT_BACKPRESSURE_MAX_RESENDS

Statement == {"work", "call", "fail", "exit", "panic", "nolink"}

ASSUME AuditAssumption ==
  /\ Scripts \in Seq(SUBSET Seq(Statement))
  /\ Rooms \subseteq Nat
  /\ {SliceFuel, QueueLimit, ChargeFlush, MaxResends} \subseteq Nat \ {0}

VARIABLES
  running,       \* ExecutionContext.running
  poisoned,      \* ExecutionContext.poisoned
  session,       \* Evaluator.session is Some
  effects,       \* the language state
  todo,          \* statements that are left
  used,          \* Evaluator.slice_fuel_used
  progress,      \* Evaluator.audit_queue_progress
  drive,         \* what the last slice returned
  audit_events,  \* Evaluator.audit_events
  group,         \* BudgetChargeAccumulator.groups: charges in the open group
  finalized,     \* BudgetChargeAccumulator.finalized: full groups
  spent,         \* BudgetLedger.committed
  audit_queue,   \* AuditQueueMeter.bytes
  poll_index,    \* Evaluator.poll_index
  last_yield,    \* Evaluator.last_yield_reason and last_yield_poll_index
  saved_yield,   \* Evaluator.saved_yield_before_backpressure
  batch,         \* events that flush_events drained and has not delivered
  room,          \* the limit of AuditBudget for the normal events
  journal,       \* the events of AuditJournal, from sequence 0
  ticket,        \* AuditTicketShared: what the completer has left in it
  resends,       \* resends of the batch in flight
  stop,          \* the token is cancelled or the deadline has passed
  at,            \* where the facade is
  reply,         \* what the last run returned
  runs,          \* history: runs so far, at most Len(Scripts)
  sunk,          \* history: sequences that the sink has acknowledged
  before,        \* history: the language state when the run began
  worked,        \* history: effects of this run
  torn           \* history: a run died with its session open

state == <<running, poisoned, session, effects, reply, runs, before, torn>>
program == <<todo, used, progress, worked>>
charges == <<group, finalized, spent>>
yields == <<poll_index, last_yield, saved_yield>>
stream == <<audit_events, audit_queue>>
delivery == <<batch, journal, sunk>>
waiting == <<ticket, resends>>
vars == <<state, program, drive, charges, yields, stream, delivery, waiting,
          room, stop, at>>

NoYield == [reason |-> "none", index |-> 0]
NoReply == [kind |-> "none", outcome |-> "none", failure |-> "none"]
Outcome(o) == [kind |-> "Outcome", outcome |-> o, failure |-> "none"]
AuditFailed(o, f) == [kind |-> "AuditFailed", outcome |-> o, failure |-> f]

Outcomes == {"Completed", "Exited", "RuntimeError", "Cancelled",
             "DeadlineExceeded", "InternalFailure", "AuditFailure"}
Successes == {"Completed", "Exited"}

Started == [kind |-> "Started"]
Charged(n) == [kind |-> "Charged", amount |-> n]
Yielded(y) == [kind |-> "Yielded", yield |-> y, usage |-> spent]
Resumed(y) == [kind |-> "Resumed", yield |-> y, usage |-> spent]
Terminal(o, u) == [kind |-> "Terminal", outcome |-> o, usage |-> u]

\* builtin_core.rs: the three events of one host call, in this order.
Triple == <<[kind |-> "HostCallStarted"], [kind |-> "CapabilityDecision"],
            [kind |-> "HostCallFinished"]>>

----------------------------------------------------------------------------
\* The evaluator's side of the stream.

Push(events) ==
  /\ audit_events' = audit_events \o events
  /\ audit_queue' = audit_queue + Len(events)

\* drain_budget_charges
Drained == [i \in 1..finalized |-> Charged(ChargeFlush)]
             \o (IF group > 0 THEN <<Charged(group)>> ELSE <<>>)

Drain == group' = 0 /\ finalized' = 0 /\ UNCHANGED spent

NoteCharge ==
  /\ spent' = spent + 1
  /\ group' = (group + 1) % ChargeFlush
  /\ finalized' = finalized + (group + 1) \div ChargeFlush

QueueBytes == audit_queue + finalized

\* A yield closes the charges of the slice before it takes its place.
RecordYield(reason) ==
  LET y == [reason |-> reason, index |-> poll_index]
  IN  /\ Push(Append(Drained, Yielded(y)))
      /\ Drain
      /\ last_yield' = y
      /\ poll_index' = poll_index + 1

FinalizeSession(committed) ==
  /\ session' = FALSE
  /\ effects' = IF committed THEN effects ELSE before

----------------------------------------------------------------------------
\* Between two runs.

Return(r) ==
  /\ at' = "rest"
  /\ running' = FALSE
  /\ poisoned' = (r = Outcome("InternalFailure"))
  /\ reply' = r
  /\ ticket' = "none" /\ resends' = 0

Close(outcome, usage) == journal' = Append(journal, Terminal(outcome, usage))
Closing == journal[Len(journal)].kind = "Terminal"

\* run and run_audited.  The host may pick the same context again whatever
\* the last run returned: run reports a failed audit as Cancelled.
Begins == at = "rest" /\ runs < Len(Scripts) /\ runs' = runs + 1

TurnAway ==
  /\ Begins
  /\ poisoned \/ running
  /\ reply' = Outcome("InternalFailure")
  /\ UNCHANGED <<running, poisoned, session, effects, before, torn, program,
       drive, charges, yields, stream, delivery, waiting, room, stop, at>>

\* The script cannot be parsed again, or the request has no execution id.
FailPrecondition ==
  /\ Begins
  /\ ~poisoned /\ ~running
  /\ Return(Outcome("InternalFailure"))
  /\ UNCHANGED <<session, effects, before, torn, program, drive, charges,
       yields, stream, delivery, room, stop>>

\* AuditJournal::open and append_normal of ExecutionStarted.
Open(s) ==
  /\ Begins
  /\ s \in Scripts[runs + 1]
  /\ ~poisoned /\ ~running
  /\ todo' = s
  /\ before' = effects /\ worked' = 0
  /\ drive' = "none" /\ stop' = "none"
  /\ sunk' = {}
  /\ IF room > 0
       THEN /\ journal' = <<Started>>
            /\ at' = "started" /\ running' = TRUE
            /\ UNCHANGED <<poisoned, reply, waiting>>
       ELSE /\ journal' = <<>>
            /\ Return(AuditFailed("InternalFailure", "BudgetExceeded"))
  /\ UNCHANGED <<session, effects, torn, used, progress, charges, yields,
                 stream, batch, room>>

\* The sink answers ExecutionStarted.
StartedAck ==
  /\ at = "started"
  /\ sunk' = {0}
  /\ at' = "install"
  /\ UNCHANGED <<state, program, drive, charges, yields, stream, batch,
                 journal, waiting, room, stop>>

StartedRefused ==
  /\ at = "started"
  /\ Close("AuditFailure", 0)
  /\ at' = "lastword"
  /\ UNCHANGED <<state, program, drive, charges, yields, stream, batch, sunk,
                 waiting, room, stop>>

\* The Terminal is submitted once, whatever the sink answers.
LastWord ==
  /\ at = "lastword"
  /\ sunk' \in {sunk, sunk \union {1}}
  /\ Return(AuditFailed("AuditFailure", "Sink"))
  /\ UNCHANGED <<session, effects, before, torn, runs, program, drive,
                 charges, yields, stream, batch, journal, room, stop>>

----------------------------------------------------------------------------
\* run_audited_driver: install, begin, and one slice after another.

\* install_execution_state resets the evaluator's audit state, then looks at
\* the token; set_audit_queue.
Install ==
  /\ at = "install"
  /\ audit_events' = <<>> /\ audit_queue' = 0
  /\ group' = 0 /\ finalized' = 0 /\ spent' = 0
  /\ poll_index' = 0 /\ last_yield' = NoYield /\ saved_yield' = NoYield
  /\ IF stop = "Cancelled"
       THEN drive' = "Cancelled" /\ at' = "terminal"
       ELSE drive' = drive /\ at' = "begin"
  /\ UNCHANGED <<state, program, delivery, waiting, room, stop>>

\* begin_execution charges the link: it fails on a stop, or by itself.
LinkFails ==
  /\ at = "begin"
  /\ \/ /\ stop # "none"
        /\ drive' = stop /\ UNCHANGED charges
     \/ /\ stop = "none" /\ todo # <<>> /\ Head(todo) = "nolink"
        /\ drive' = "RuntimeError" /\ NoteCharge
  /\ at' = "flush"
  /\ UNCHANGED <<state, program, yields, stream, delivery, waiting, room,
                 stop>>

Link ==
  /\ at = "begin"
  /\ stop = "none"
  /\ todo = <<>> \/ Head(todo) # "nolink"
  /\ session' = TRUE
  /\ NoteCharge
  /\ at' = "slice"
  /\ UNCHANGED <<running, poisoned, effects, reply, runs, before, torn,
                 program, drive, yields, stream, delivery, waiting, room,
                 stop>>

\* run_slice reports the resume before it runs anything.
ResumeSlice ==
  /\ at = "slice"
  /\ Push(IF last_yield = NoYield THEN <<>> ELSE <<Resumed(last_yield)>>)
  /\ last_yield' = NoYield
  /\ used' = 0 /\ progress' = FALSE
  /\ at' = "boundary"
  /\ UNCHANGED <<state, todo, worked, drive, charges, poll_index,
                 saved_yield, delivery, waiting, room, stop>>

\* The order in which run_driver looks at a boundary.  The root frame is there
\* until a boundary finds it without statements.
AtBoundary(what) ==
  /\ at = "boundary"
  /\ what = IF used >= SliceFuel THEN "fuel"
            ELSE IF progress /\ QueueBytes >= QueueLimit THEN "queue"
            ELSE IF stop # "none" THEN "stop"
            ELSE IF todo = <<>> THEN "finish" ELSE "execute"

EndSlice(outcome) ==
  /\ FinalizeSession(outcome \in Successes)
  /\ drive' = outcome
  /\ at' = "flush"

Finish ==
  /\ AtBoundary("finish")
  /\ EndSlice("Completed")
  /\ UNCHANGED <<running, poisoned, reply, runs, before, torn, program,
       charges, yields, stream, delivery, waiting, room, stop>>

StopSlice ==
  /\ AtBoundary("stop")
  /\ EndSlice(stop)
  /\ UNCHANGED <<running, poisoned, reply, runs, before, torn, program,
       charges, yields, stream, delivery, waiting, room, stop>>

YieldSlice ==
  /\ \/ AtBoundary("fuel") /\ RecordYield("SliceFuelExhausted")
     \/ AtBoundary("queue") /\ RecordYield("AuditBackpressure")
  /\ drive' = "Yielded"
  /\ at' = "flush"
  /\ UNCHANGED <<state, program, saved_yield, delivery, waiting, room, stop>>

\* One statement: an effect on the language state, a host call that has
\* happened by the time its events are recorded, or an end of the script.
Executes(kind) ==
  /\ AtBoundary("execute")
  /\ Head(todo) = kind
  /\ todo' = Tail(todo)

Work ==
  /\ Executes("work")
  /\ effects' = effects + 1 /\ worked' = worked + 1
  /\ NoteCharge
  /\ used' = used + 1 /\ progress' = TRUE
  /\ UNCHANGED <<running, poisoned, session, reply, runs, before, torn,
       drive, yields, stream, delivery, waiting, room, stop, at>>

Call ==
  /\ Executes("call")
  /\ Push(Triple)
  /\ NoteCharge
  /\ used' = used + 1 /\ progress' = TRUE
  /\ UNCHANGED <<state, worked, drive, yields, delivery, waiting, room, stop,
                 at>>

EndScript ==
  /\ \/ Executes("fail") /\ EndSlice("RuntimeError")
     \/ Executes("exit") /\ EndSlice("Exited")
  /\ UNCHANGED <<running, poisoned, reply, runs, before, torn, used,
       progress, worked, charges, yields, stream, delivery, waiting, room,
       stop>>

\* catch_host_unwind around the driver: the session stays as it was.
Unwind ==
  /\ drive' = "InternalFailure"
  /\ batch' = <<>>
  /\ torn' = (torn \/ session)
  /\ at' = "terminal"
  /\ UNCHANGED <<running, poisoned, session, effects, reply, runs, before,
       used, progress, worked, charges, yields, stream, journal, sunk, room,
       stop>>

Panic == Executes("panic") /\ Unwind /\ UNCHANGED waiting

----------------------------------------------------------------------------
\* flush_events and deliver.

\* Variant: the charges it drains are not counted into the queue again.
FlushUncounted ==
  LET events == audit_events \o Drained
  IN  /\ at = "flush"
      /\ batch' = events
      /\ audit_events' = <<>>
      /\ Drain
      /\ at' = IF events # <<>> THEN "append"
               ELSE IF drive = "Yielded" THEN "slice" ELSE "terminal"
      /\ UNCHANGED <<state, program, drive, yields, audit_queue, journal,
                     sunk, waiting, room, stop>>

Flush ==
  LET events == audit_events \o Drained
  IN  /\ at = "flush"
      /\ batch' = events
      /\ audit_events' = <<>>
      /\ audit_queue' = audit_queue + Len(Drained)
      /\ Drain
      /\ at' = IF events # <<>> THEN "append"
               ELSE IF drive = "Yielded" THEN "slice" ELSE "terminal"
      /\ UNCHANGED <<state, program, drive, yields, journal, sunk, waiting,
                     room, stop>>

\* Variant: a triple is admitted one event at a time.
NeededOne(e) == 1

\* append_normal; can_reserve_host_call asks for the whole of a triple.
Needed(e) == IF e.kind = "HostCallStarted" THEN Len(Triple) ELSE 1
Fits(e) == Len(journal) + Needed(e) <= room

\* Variant: the outcome is reported because its Terminal is in the journal.
GiveUpUnlessTerminal(failure) ==
  /\ Return(IF Closing THEN Outcome(drive)
            ELSE AuditFailed(IF drive = "Yielded" THEN "Cancelled" ELSE drive,
                             failure))
  /\ IF drive = "Yielded" THEN FinalizeSession(FALSE)
                          ELSE UNCHANGED <<session, effects>>
  /\ batch' = <<>>
  /\ UNCHANGED <<before, torn, runs, program, drive, charges, yields, stream,
                 journal, sunk, room, stop>>

\* Variant: a session that yielded is left open.
GiveUpWithSession(failure) ==
  /\ Return(AuditFailed(IF drive = "Yielded" THEN "Cancelled" ELSE drive,
                        failure))
  /\ batch' = <<>>
  /\ UNCHANGED <<session, effects, before, torn, runs, program, drive,
                 charges, yields, stream, journal, sunk, room, stop>>

\* A flush that fails ends the run without a Terminal: a session that yielded
\* is aborted, a slice that ended has already committed or rolled back.  If it
\* is the Terminal that fails, nothing is left to undo.
GiveUp(failure) ==
  /\ Return(AuditFailed(IF drive = "Yielded" THEN "Cancelled" ELSE drive,
                        failure))
  /\ IF drive = "Yielded" THEN FinalizeSession(FALSE)
                          ELSE UNCHANGED <<session, effects>>
  /\ batch' = <<>>
  /\ UNCHANGED <<before, torn, runs, program, drive, charges, yields, stream,
                 journal, sunk, room, stop>>

AppendEvent ==
  /\ at = "append"
  /\ Fits(Head(batch))
  /\ journal' = Append(journal, Head(batch))
  /\ at' = "submit"
  /\ UNCHANGED <<state, program, drive, charges, yields, stream, batch, sunk,
                 waiting, room, stop>>

JournalFull ==
  /\ at = "append"
  /\ ~Fits(Head(batch))
  /\ GiveUp("BudgetExceeded")

AppendTerminal ==
  /\ at = "terminal"
  /\ Close(drive, spent)
  /\ at' = "submit"
  /\ UNCHANGED <<state, program, drive, charges, yields, stream, batch, sunk,
                 waiting, room, stop>>

\* The sink has the event in flight; audit_queue_release.
Delivered(resumed) ==
  /\ sunk' = sunk \union {Len(journal) - 1}
  /\ audit_events' = audit_events \o resumed
  /\ IF Closing
       THEN /\ Return(Outcome(drive))
            /\ audit_queue' = audit_queue + Len(resumed)
            /\ UNCHANGED batch
       ELSE /\ batch' = Tail(batch)
            /\ audit_queue' = audit_queue + Len(resumed) - 1
            /\ at' = IF Len(batch) = 1 THEN "flush" ELSE "append"
            /\ ticket' = "none" /\ resends' = 0
            /\ UNCHANGED <<running, poisoned, reply>>
  /\ UNCHANGED <<session, effects, before, torn, runs, program, drive,
                 charges, poll_index, journal, room, stop>>

\* The sink is called for the first time with this batch, or again.
Submitted == at \in {"submit", "resend"}

Ack == at = "submit" /\ Delivered(<<>>) /\ UNCHANGED <<last_yield, saved_yield>>

Refuse ==
  /\ \/ Submitted
     \/ at = "pending" /\ stop = "none" /\ ticket = "refused"
  /\ GiveUp("Sink")

\* Variant: the yield of the slice is not saved.
WaitUnsaved ==
  /\ at = "submit"
  /\ saved_yield' = NoYield
  /\ RecordYield("AuditBackpressure")
  /\ ticket' = "open" /\ resends' = 0
  /\ at' = "pending"
  /\ UNCHANGED <<state, program, drive, delivery, room, stop>>

\* Pending: record_backpressure_yield.
Wait ==
  /\ at = "submit"
  /\ saved_yield' = last_yield
  /\ RecordYield("AuditBackpressure")
  /\ ticket' = "open" /\ resends' = 0
  /\ at' = "pending"
  /\ UNCHANGED <<state, program, drive, delivery, room, stop>>

\* The completer of the ticket, on a thread of the sink.
Complete(answer) ==
  /\ at = "pending" /\ ticket = "open"
  /\ ticket' = answer
  /\ UNCHANGED <<state, program, drive, charges, yields, stream, delivery,
                 resends, room, stop, at>>

\* No stop, and nothing in the ticket: the batch is sent again.
Resend ==
  /\ at = "pending" /\ stop = "none" /\ ticket = "open"
  /\ at' = "resend"
  /\ UNCHANGED <<state, program, drive, charges, yields, stream, delivery,
                 waiting, room, stop>>

\* try_take or the answer to a resend: record_backpressure_resume.
Resume ==
  /\ \/ at = "resend"
     \/ at = "pending" /\ stop = "none" /\ ticket = "acked"
  /\ Delivered(<<Resumed(last_yield)>>)
  /\ last_yield' = saved_yield /\ saved_yield' = NoYield

\* Variant: each new ticket starts the count of resends again.
StillPendingAfresh ==
  /\ at = "resend"
  /\ resends + 1 < MaxResends
  /\ resends' = 0
  /\ at' = "pending"
  /\ UNCHANGED <<state, program, drive, charges, yields, stream, delivery,
                 ticket, room, stop>>

StillPending ==
  /\ at = "resend"
  /\ resends + 1 < MaxResends
  /\ resends' = resends + 1
  /\ at' = "pending"
  /\ UNCHANGED <<state, program, drive, charges, yields, stream, delivery,
                 ticket, room, stop>>

WaitedTooLong ==
  /\ \/ at = "pending" /\ stop # "none"
     \/ at = "resend" /\ resends + 1 >= MaxResends
  /\ GiveUp("BackpressureDeadline")

\* The sink panics.  Around the driver the panic is caught; while the facade
\* delivers Started or Terminal itself nothing catches it, and the host gets
\* it with the context still marked as running.
SinkPanics ==
  /\ Submitted /\ ~Closing
  /\ Unwind
  /\ ticket' = "none" /\ resends' = 0
  /\ UNCHANGED todo

SinkEscapes ==
  /\ \/ at \in {"started", "lastword"}
     \/ Submitted /\ Closing
  /\ at' = "rest"
  /\ reply' = [kind |-> "Panic", outcome |-> "none", failure |-> "none"]
  /\ ticket' = "none" /\ resends' = 0
  /\ UNCHANGED <<running, poisoned, session, effects, before, torn, runs,
       program, drive, charges, yields, stream, delivery, room, stop>>

\* CancellationToken::cancel and the clock, on other threads.
Stop(why) ==
  /\ at # "rest"
  /\ \/ stop = "none"
     \/ stop = "DeadlineExceeded" /\ why = "Cancelled"
  /\ stop' = why
  /\ UNCHANGED <<state, program, drive, charges, yields, stream, delivery,
                 waiting, room, at>>

----------------------------------------------------------------------------
Init ==
  /\ running = FALSE /\ poisoned = FALSE /\ session = FALSE
  /\ effects = 0 /\ before = 0 /\ worked = 0 /\ torn = FALSE
  /\ reply = NoReply /\ runs = 0
  /\ todo = <<>> /\ used = 0 /\ progress = FALSE /\ drive = "none"
  /\ group = 0 /\ finalized = 0 /\ spent = 0
  /\ poll_index = 0 /\ last_yield = NoYield /\ saved_yield = NoYield
  /\ audit_events = <<>> /\ audit_queue = 0
  /\ batch = <<>> /\ journal = <<>> /\ sunk = {}
  /\ ticket = "none" /\ resends = 0
  /\ room \in Rooms
  /\ stop = "none"
  /\ at = "rest"

Facade ==
  \/ StartedAck \/ StartedRefused \/ LastWord
  \/ Install \/ LinkFails \/ Link
  \/ ResumeSlice \/ Finish \/ StopSlice \/ YieldSlice
  \/ Work \/ Call \/ EndScript \/ Panic
  \/ Flush \/ AppendEvent \/ JournalFull \/ AppendTerminal
  \/ Ack \/ Refuse \/ Wait \/ Resend \/ Resume
  \/ StillPending \/ WaitedTooLong \/ SinkPanics \/ SinkEscapes

Next ==
  \/ TurnAway \/ FailPrecondition
  \/ \E s \in UNION {Scripts[i] : i \in DOMAIN Scripts} : Open(s)
  \/ Facade
  \/ \E answer \in {"acked", "refused"} : Complete(answer)
  \/ \E why \in {"Cancelled", "DeadlineExceeded"} : Stop(why)

\* The thread that called run keeps running, and the sink answers.
Spec == Init /\ [][Next]_vars /\ WF_vars(Facade)

----------------------------------------------------------------------------
Yield == [reason : {"none", "SliceFuelExhausted", "AuditBackpressure"},
          index : Nat]
Event ==
  {Started} \union {Triple[i] : i \in 1..3}
    \union [kind : {"Charged"}, amount : 1..ChargeFlush]
    \union [kind : {"Yielded", "Resumed"}, yield : Yield, usage : Nat]
    \union [kind : {"Terminal"}, outcome : Outcomes, usage : Nat]

\* Every variable holds a value of the Rust type it stands for, and the open
\* charge group is closed before it reaches the threshold (audit.rs:997).
TypeOK ==
  /\ {running, poisoned, session, progress, torn} \subseteq BOOLEAN
  /\ {effects, before, worked, used, finalized, spent, audit_queue,
      poll_index, resends, runs} \subseteq Nat
  /\ todo \in Seq(Statement)
  /\ drive \in Outcomes \union {"none", "Yielded"}
  /\ group \in 0..(ChargeFlush - 1)
  /\ {last_yield, saved_yield} \subseteq Yield
  /\ {audit_events, batch, journal} \subseteq Seq(Event)
  /\ room \in Rooms
  /\ ticket \in {"none", "open", "acked", "refused"}
  /\ resends < MaxResends
  /\ stop \in {"none", "Cancelled", "DeadlineExceeded"}
  /\ reply \in [kind : {"none", "Outcome", "AuditFailed", "Panic"},
                outcome : Outcomes \union {"none"},
                failure : {"none", "Sink", "BudgetExceeded",
                           "BackpressureDeadline"}]
  /\ sunk \subseteq Nat

\* What the host is told of a run that started is what the sink knows: the
\* journal ends with a Terminal of this outcome and the sink has acknowledged
\* every event up to it.  Before it acknowledged ExecutionStarted the script
\* had no effect at all (docs/determinism-and-audit.md:534, embedding.rs:2347).
AuditedReports ==
  /\ at = "rest" /\ reply.kind = "Outcome" /\ ~poisoned /\ ~running
       /\ journal # <<>> =>
       /\ journal[Len(journal)].kind = "Terminal"
       /\ journal[Len(journal)].outcome = reply.outcome
       /\ sunk = 0..(Len(journal) - 1)
  /\ effects # before \/ (session /\ ~torn) => 0 \in sunk

\* The events of the run, in the order in which the sink is to see them.  The
\* first event of batch is in the journal already while it is in flight.
InFlight == at \in {"submit", "pending", "resend"} /\ ~Closing
Stream == journal \o (IF InFlight THEN Tail(batch) ELSE batch) \o audit_events

\* What a reader of a stream knows: the charges so far, the yields that are
\* open and the number of all yields.
Nothing == [charged |-> 0, open |-> <<>>, yields |-> 0]

Reading(known, e) ==
  [charged |-> known.charged + (IF e.kind = "Charged" THEN e.amount ELSE 0),
   open |-> CASE e.kind = "Yielded" -> Append(known.open, e.yield)
              [] e.kind = "Resumed" ->
                   SubSeq(known.open, 1, Len(known.open) - 1)
              [] OTHER -> known.open,
   yields |-> known.yields + (IF e.kind = "Yielded" THEN 1 ELSE 0)]

\* What is known after each event of s.
Read(s) ==
  LET read[i \in 0..Len(s)] ==
        IF i = 0 THEN Nothing ELSE Reading(read[i - 1], s[i])
  IN  read

FollowsFrom(known, e) ==
  /\ e.kind \in {"Yielded", "Resumed", "Terminal"} => e.usage = known.charged
  /\ e.kind = "Yielded" =>
       Len(known.open) < 2 /\ e.yield.index = known.yields
  /\ e.kind = "Resumed" =>
       known.open # <<>> /\ e.yield = known.open[Len(known.open)]
  /\ e.kind = "Terminal" => known.open = <<>>

\* The script is at work, and no panic has dropped a batch.
InRun == /\ at \notin {"rest", "started", "lastword", "install"}
         /\ drive # "InternalFailure"

\* Wherever the sink makes the run wait, charges come before the yield that
\* closes them: the usage in every Yielded, Resumed and Terminal is the sum of
\* the charges before it (rule 7 of docs/determinism-and-audit.md:539, 527).
\* A Resumed answers the innermost open yield, which is at most the second
\* (eval.rs:1447), yields are numbered in order, and none is open at Terminal.
StreamAddsUp ==
  InRun => LET read == Read(Stream)
           IN  \A i \in DOMAIN Stream : FollowsFrom(read[i - 1], Stream[i])

\* The queue that makes a run yield holds the events that the sink has not
\* acknowledged, no more and no less, through every wait: after a flush it is
\* empty (the debug_assert of embedding.rs:3214).
QueueIsUnacknowledged ==
  InRun => audit_queue = Len(audit_events) + Len(batch)

\* With the types: what the sink sees and what it has yet to see is what happened
\* (embedding.rs:3164).
EventsAddUp == TypeOK /\ StreamAddsUp /\ QueueIsUnacknowledged

\* Every triple that begins in s is whole.
Whole(s) == \A i \in DOMAIN s :
  s[i].kind = "HostCallStarted" =>
    i + 2 <= Len(s) /\ SubSeq(s, i, i + 2) = Triple

\* The three events of a host call stay together, and a journal that runs full
\* holds all of them or none (can_reserve_host_call, audit.rs:1483).
TriplesWhole ==
  /\ InRun => Whole(Stream)
  /\ at = "rest" /\ reply.failure = "BudgetExceeded" => Whole(journal)

\* A run that returns keeps its effects if and only if its own outcome is a
\* success, whether or not the audit failed, and leaves no open session; only
\* a panic whose Terminal then fails leaves one in a context that is not
\* poisoned (docs/embedding-api.md:513, eval.rs:1783).
RestsClean ==
  at = "rest" /\ ~running /\ ~poisoned =>
    /\ session => torn
    /\ reply.kind = "Outcome" =>
         effects = before + (IF reply.outcome \in Successes THEN worked ELSE 0)
    /\ reply.kind = "AuditFailed" /\ reply.outcome # "InternalFailure" =>
         effects = before + (IF reply.outcome \in Successes THEN worked ELSE 0)

\* Both: what the host is told is what the sink knows and what the context
\* keeps (embedding.rs:2347, 2475).
ReportsAreTrue == AuditedReports /\ RestsClean

\* A sink that answers Pending to everything cannot keep run from returning:
\* the resends are bounded and so is the journal (embedding.rs:2998, 3164).
Returns == at # "rest" ~> at = "rest"

=============================================================================
