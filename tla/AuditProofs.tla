---------------------------- MODULE AuditProofs ----------------------------
(***************************************************************************)
(* Theorems about Audit, for all scripts, budgets, fuels and thresholds:   *)
(* what a run reports is what the sink knows and the context keeps; the    *)
(* events of a run add up, in the evaluator, in the batch and in the       *)
(* journal; and a journal holds host calls whole.                          *)
(*                                                                         *)
(* The inductive invariant has two layers.  ReportInv says where the       *)
(* facade stands, what the sink has acknowledged and what the language     *)
(* state is worth; AuditInv adds the queue, the pauses, what a reader of   *)
(* the stream knows at its end, and the room reserved for a host call.     *)
(***************************************************************************)
EXTENDS Audit, TLAPS, FiniteSetTheorems, SequenceTheorems, WellFoundedInduction

\* The events that an evaluator records: all but the Terminal.
Normal ==
  {Started} \union {Triple[i] : i \in 1..3}
    \union [kind : {"Charged"}, amount : 1..ChargeFlush]
    \union [kind : {"Yielded", "Resumed"}, yield : Yield, usage : Nat]

Places == {"rest", "started", "lastword", "install", "begin", "slice",
           "boundary", "flush", "append", "submit", "pending", "resend",
           "terminal"}
Early == {"started", "lastword", "install", "begin"}
Late == {"flush", "append", "submit", "pending", "resend", "terminal"}
Submission == {"submit", "pending", "resend"}
AtWork == at \in {"slice", "boundary"}
Waits == at \in {"pending", "resend"}

----------------------------------------------------------------------------
\* The types, split so that a step need only prove what it disturbs.

FlagTypes ==
  /\ running \in BOOLEAN /\ poisoned \in BOOLEAN /\ session \in BOOLEAN
  /\ torn \in BOOLEAN /\ progress \in BOOLEAN

ContextTypes ==
  /\ effects \in Nat /\ before \in Nat /\ worked \in Nat /\ used \in Nat
  /\ resends \in Nat /\ runs \in Nat /\ resends < MaxResends
  /\ todo \in Seq(Statement)
  /\ drive \in Outcomes \union {"none", "Yielded"}
  /\ room \in Rooms
  /\ ticket \in {"none", "open", "acked", "refused"}
  /\ stop \in {"none", "Cancelled", "DeadlineExceeded"}
  /\ at \in Places

ReplyTypes ==
  reply \in [kind : {"none", "Outcome", "AuditFailed", "Panic"},
            outcome : Outcomes \union {"none"},
            failure : {"none", "Sink", "BudgetExceeded",
                       "BackpressureDeadline"}]

ChargeTypes ==
  /\ finalized \in Nat /\ spent \in Nat
  /\ group \in 0..(ChargeFlush - 1)

YieldTypes ==
  /\ poll_index \in Nat
  /\ last_yield \in Yield /\ saved_yield \in Yield

StreamTypes ==
  /\ audit_queue \in Int
  /\ audit_events \in Seq(Normal) /\ batch \in Seq(Normal)
  /\ journal \in Seq(Event)
  /\ sunk \in SUBSET Nat

Types == /\ FlagTypes /\ ContextTypes /\ ReplyTypes
         /\ ChargeTypes /\ YieldTypes /\ StreamTypes

----------------------------------------------------------------------------
\* The first layer: where the facade stands.

\* What the driver has returned, by where the facade is.
Control ==
  /\ at # "rest" => running /\ ~poisoned
  /\ at \in Early => drive = "none"
  /\ AtWork => drive \in {"none", "Yielded"}
  /\ at \in Late => drive # "none"
  /\ at \in Late /\ drive = "InternalFailure" =>
       at = "terminal" \/ (at \in Submission /\ Closing)
  /\ at = "terminal" => drive # "Yielded"

\* A journal closes with the outcome of the driver, and only to be submitted.
Journals ==
  /\ at \in Early \ {"lastword"} => journal = <<Started>>
  /\ at # "rest" => journal # <<>>
  /\ at \notin {"rest", "lastword"} /\ Closing =>
       at \in Submission /\ drive # "Yielded"
  /\ at \in Submission /\ Closing => journal[Len(journal)].outcome = drive

\* A batch is there while events of it are to be delivered.
Batches ==
  /\ at = "append" => batch # <<>>
  /\ InFlight => batch # <<>>
  /\ at # "append" /\ ~InFlight => batch = <<>>

Course == Types /\ Control /\ Journals /\ Batches

\* The sink has acknowledged the journal but for the event in flight.
Acknowledged ==
  /\ at \in {"started", "lastword"} => sunk = {}
  /\ at \notin {"rest", "started", "lastword"} => 0 \in sunk
  /\ InRun /\ at \notin Submission =>
       sunk = 0..(Len(journal) - 1)
  /\ InRun /\ at \in Submission =>
       sunk = 0..(Len(journal) - 2)
  /\ at = "install" => sunk = {0}

\* The language state is what it was, with the work of a run that goes on or
\* has succeeded; a session is open while a run is in it, or was torn.
Accounts ==
  /\ at \in Early => effects = before /\ worked = 0 /\ (session => torn)
  /\ AtWork => session /\ effects = before + worked
  /\ at \in Late =>
       /\ drive = "Yielded" => session /\ effects = before + worked
       /\ drive # "Yielded" => (session => torn)
       /\ drive \notin {"Yielded", "InternalFailure"} =>
            effects = before + (IF drive \in Successes THEN worked ELSE 0)

\* The inductive invariant of the reports.
ReportInv == Course /\ Accounts /\ Acknowledged /\ ReportsAreTrue

----------------------------------------------------------------------------
\* The second layer: the stream.

\* The queue counts what the sink has not seen, and never below nothing.
Queued == audit_queue \in Nat /\ QueueIsUnacknowledged

\* No charge is left where a flush has been.
Closed ==
  /\ at \in {"append", "submit", "pending", "resend", "terminal"} /\ InRun =>
       group = 0 /\ finalized = 0
  /\ at = "terminal" /\ InRun => audit_events = <<>>
  /\ at = "submit" /\ Closing /\ InRun => audit_events = <<>>

IsYield(y) == y.reason # "none"

\* Which yield is open: of the slice, and under it of the waiting sink.
YieldsInv == InRun =>
  /\ at \in {"begin", "boundary", "terminal"} => last_yield = NoYield
  /\ ~Waits => saved_yield = NoYield
  /\ at = "slice" =>
       \/ last_yield = NoYield
       \/ IsYield(last_yield) /\ group = 0 /\ finalized = 0
  /\ at \in {"flush", "append", "submit"} =>
       IF drive = "Yielded" THEN IsYield(last_yield) ELSE last_yield = NoYield
  /\ Waits => /\ IsYield(last_yield)
              /\ IF drive = "Yielded" THEN IsYield(saved_yield)
                                      ELSE saved_yield = NoYield

Pauses == Closed /\ YieldsInv

Owed == IF last_yield = NoYield THEN <<>> ELSE <<last_yield>>
OwedBefore == IF saved_yield = NoYield THEN <<>> ELSE <<saved_yield>>

\* What a reader of the whole stream of the run knows at its end.
Told == [charged |-> spent - (group + ChargeFlush * finalized),
         open |-> OwedBefore \o Owed,
         yields |-> poll_index]

LastRead(s) == Read(s)[Len(s)]
AllFollow(s) == \A i \in DOMAIN s : FollowsFrom(Read(s)[i - 1], s[i])

Tells(s) == s \in Seq(Event) /\ AllFollow(s) /\ Whole(s)
Telling == InRun => Tells(Stream) /\ LastRead(Stream) = Told

\* A host call in the journal has the room of its three events.
Reserved == at # "rest" =>
  \A i \in DOMAIN journal :
    journal[i].kind = "HostCallStarted" => i + 2 <= room

FullIsWhole ==
  at = "rest" /\ reply.failure = "BudgetExceeded" => Whole(journal)

\* The inductive invariant.
AuditInv == ReportInv /\ Queued /\ Pauses /\ Telling /\ Reserved /\ FullIsWhole

----------------------------------------------------------------------------
\* What the constants and the events are.

\* What AuditAssumption says of each constant.
LEMMA ConstantsTypes ==
  /\ \A s \in UNION {Scripts[i] : i \in DOMAIN Scripts} : s \in Seq(Statement)
  /\ SliceFuel \in Nat \ {0} /\ QueueLimit \in Nat \ {0}
  /\ ChargeFlush \in Nat \ {0} /\ MaxResends \in Nat \ {0}
  /\ Rooms \subseteq Nat
<1>1. \A s \in UNION {Scripts[i] : i \in DOMAIN Scripts} : s \in Seq(Statement)
  <2> SUFFICES ASSUME NEW i \in DOMAIN Scripts, NEW s \in Scripts[i]
               PROVE  s \in Seq(Statement)
    OBVIOUS
  <2>1. Scripts[i] \in SUBSET Seq(Statement)
    <3> DEFINE Choices == SUBSET Seq(Statement)
    <3>1. Scripts \in Seq(Choices)
      BY AuditAssumption
    <3> HIDE DEF Choices
    <3>2. Scripts[i] \in Choices
      BY <3>1, ElementOfSeq
    <3> QED  BY <3>2 DEF Choices
  <2> QED  BY <2>1
<1> QED  BY <1>1, AuditAssumption

\* The events of an evaluator, and a Terminal, are events; only a Terminal is
\* one that ends a journal.
LEMMA Vocabulary ==
  /\ Normal \subseteq Event
  /\ \A e \in Normal : e.kind # "Terminal"
  /\ Started \in Normal
  /\ Triple \in Seq(Normal)
  /\ \A n \in 1..ChargeFlush : Charged(n) \in Normal
  /\ \A y \in Yield, u \in Nat :
       /\ [kind |-> "Yielded", yield |-> y, usage |-> u] \in Normal
       /\ [kind |-> "Resumed", yield |-> y, usage |-> u] \in Normal
  /\ \A o \in Outcomes, u \in Nat :
       /\ Terminal(o, u) \in Event
       /\ Terminal(o, u).kind = "Terminal"
       /\ Terminal(o, u).outcome = o
       /\ Terminal(o, u).usage = u
<1>1. Normal \subseteq Event
  BY DEF Normal, Event
<1>2. \A e \in Normal : e.kind # "Terminal"
  BY DEF Normal, Started, Triple
<1>3. Triple \in Seq(Normal)
  <2>1. \A i \in 1..3 : Triple[i] \in Normal
    BY DEF Normal
  <2>2. Triple[1] \in Normal /\ Triple[2] \in Normal /\ Triple[3] \in Normal
    BY <2>1
  <2>3. Len(Triple) = 3 /\ Triple = [i \in 1..3 |-> Triple[i]]
    BY DEF Triple
  <2> QED  BY <2>1, <2>3
<1>4. \A n \in 1..ChargeFlush : Charged(n) \in Normal
  BY DEF Normal, Charged
<1>5. \A y \in Yield, u \in Nat :
        /\ [kind |-> "Yielded", yield |-> y, usage |-> u] \in Normal
        /\ [kind |-> "Resumed", yield |-> y, usage |-> u] \in Normal
  BY DEF Normal
<1>6. Started \in Normal
  BY DEF Normal
<1>7. \A o \in Outcomes, u \in Nat :
        /\ Terminal(o, u) \in Event
        /\ Terminal(o, u).kind = "Terminal"
        /\ Terminal(o, u).outcome = o
        /\ Terminal(o, u).usage = u
  BY DEF Event, Terminal
<1> QED  BY <1>1, <1>2, <1>3, <1>4, <1>5, <1>6, <1>7

\* A sequence over a set is one over a larger set.
LEMMA SeqWiden ==
  ASSUME NEW S, NEW T, S \subseteq T, NEW s \in Seq(S)
  PROVE  s \in Seq(T)
OBVIOUS

\* drain_budget_charges leaves charges: full groups and a last one.
LEMMA DrainedType ==
  ASSUME finalized \in Nat, group \in 0..(ChargeFlush - 1)
  PROVE  /\ Drained \in Seq(Normal)
         /\ Len(Drained) \in Nat
<1> DEFINE full == [i \in 1..finalized |-> Charged(ChargeFlush)]
           rest == IF group > 0 THEN <<Charged(group)>> ELSE <<>>
<1>1. full \in Seq(Normal)
  <2>1. Charged(ChargeFlush) \in Normal
    BY Vocabulary, ConstantsTypes
  <2> QED  BY <2>1
<1>2. rest \in Seq(Normal)
  <2>1. CASE group > 0
    <3>1. Charged(group) \in Normal
      BY <2>1, Vocabulary, ConstantsTypes
    <3> QED  BY <2>1, <3>1
  <2>2. CASE ~(group > 0)
    BY <2>2
  <2> QED  BY <2>1, <2>2
<1>3. Drained = full \o rest
  BY DEF Drained
<1> HIDE DEF full, rest
<1>4. Drained \in Seq(Normal)
  BY <1>1, <1>2, <1>3
<1> QED  BY <1>4

\* What the evaluator has recorded and the sink has not seen.
LEMMA YieldRecord ==
  ASSUME Types, NEW reason \in {"SliceFuelExhausted", "AuditBackpressure"}
  PROVE  LET y == [reason |-> reason, index |-> poll_index]
         IN  /\ y \in Yield
             /\ Append(Drained, Yielded(y)) \in Seq(Normal)
             /\ Append(Drained, Yielded(y)) # <<>>
<1> DEFINE y == [reason |-> reason, index |-> poll_index]
<1>1. y \in Yield
  BY DEF Types, YieldTypes, Yield
<1>2. Yielded(y) \in Normal
  BY <1>1, Vocabulary DEF Yielded, Types, ChargeTypes
<1>3. Drained \in Seq(Normal)
  BY DrainedType DEF Types, ChargeTypes
<1> HIDE DEF y
<1>4. Append(Drained, Yielded(y)) \in Seq(Normal)
  BY <1>2, <1>3
<1>5. Append(Drained, Yielded(y)) # <<>>
  BY <1>2, <1>3, AppendProperties
<1> QED  BY <1>1, <1>4, <1>5 DEF y

\* A flush that fails ends the run with a failed audit: a session that yielded
\* is finalized and its effects are gone, a finished slice keeps its own.
LEMMA GiveUpFacts ==
  ASSUME NEW f \in {"Sink", "BudgetExceeded", "BackpressureDeadline"},
         GiveUp(f), Types, drive # "none"
  PROVE  /\ at' = "rest" /\ ~running' /\ ~poisoned'
         /\ drive = "Yielded" => /\ reply' = AuditFailed("Cancelled", f)
                                 /\ ~session' /\ effects' = before
         /\ drive # "Yielded" => /\ reply' = AuditFailed(drive, f)
                                 /\ session' = session /\ effects' = effects
         /\ batch' = <<>>
         /\ UNCHANGED <<before, torn, runs, program, drive, charges, yields,
                        stream, journal, sunk, room, stop>>
         /\ FlagTypes' /\ ContextTypes' /\ ReplyTypes'
<1> DEFINE outcome == IF drive = "Yielded" THEN "Cancelled" ELSE drive
<1>1. outcome \in Outcomes
  BY DEF Types, ContextTypes, Outcomes
<1>2. AuditFailed(outcome, f) # Outcome("InternalFailure")
  BY DEF AuditFailed, Outcome
<1>3. Return(AuditFailed(outcome, f))
  BY DEF GiveUp
<1> HIDE DEF outcome
<1>4. /\ at' = "rest" /\ ~running' /\ ~poisoned'
      /\ ticket' = "none" /\ resends' = 0
      /\ reply' = AuditFailed(outcome, f)
      /\ running' \in BOOLEAN /\ poisoned' \in BOOLEAN
  BY <1>2, <1>3 DEF Return
<1>5. ReplyTypes'
  BY <1>1, <1>4 DEF ReplyTypes, AuditFailed
<1>6. /\ batch' = <<>>
      /\ UNCHANGED <<before, torn, runs, program, drive, charges, yields,
                     stream, journal, sunk, room, stop>>
  BY DEF GiveUp
<1>7. /\ drive = "Yielded" => session' = FALSE /\ effects' = before
      /\ drive # "Yielded" => UNCHANGED <<session, effects>>
  BY DEF GiveUp, FinalizeSession
<1>8. FlagTypes'
  BY <1>4, <1>6, <1>7 DEF FlagTypes, Types, program
<1>9. ContextTypes'
  BY <1>4, <1>6, <1>7, ConstantsTypes DEF ContextTypes, Types, program, Places
<1> QED  BY <1>4, <1>5, <1>6, <1>7, <1>8, <1>9 DEF outcome

\* An event the sink has: the run returns when it was the Terminal, and goes
\* on with the batch otherwise.
LEMMA DeliveredFacts ==
  ASSUME NEW resumed \in Seq(Normal), Delivered(resumed), Types, Control,
         Journals, at \in Submission
  PROVE  /\ Closing => /\ at' = "rest" /\ ~running' /\ batch' = batch
                       /\ reply' = Outcome(drive)
                       /\ poisoned' <=> drive = "InternalFailure"
         /\ ~Closing => /\ at' = IF Len(batch) = 1 THEN "flush" ELSE "append"
                        /\ running' /\ ~poisoned' /\ batch' = Tail(batch)
         /\ UNCHANGED <<session, effects, before, torn, runs, program, drive,
                        charges, poll_index, journal, room, stop>>
         /\ FlagTypes' /\ ContextTypes' /\ ReplyTypes'
<1>1. running /\ ~poisoned /\ drive # "none"
  BY DEF Control, Submission, Late
<1>2. UNCHANGED <<session, effects, before, torn, runs, program, drive,
                  charges, poll_index, journal, room, stop>>
  BY DEF Delivered
<1>3. CASE Closing
  <2>1. Return(Outcome(drive)) /\ batch' = batch
    BY <1>3 DEF Delivered
  <2>2. drive \in Outcomes
    BY <1>1, <1>3 DEF Journals, Types, ContextTypes, Submission
  <2>3. Outcome(drive) = Outcome("InternalFailure")
          <=> drive = "InternalFailure"
    BY DEF Outcome
  <2>4. /\ at' = "rest" /\ ~running' /\ reply' = Outcome(drive)
        /\ poisoned' <=> drive = "InternalFailure"
        /\ ticket' = "none" /\ resends' = 0
        /\ running' \in BOOLEAN /\ poisoned' \in BOOLEAN
    BY <2>1, <2>3 DEF Return
  <2>5. ReplyTypes'
    BY <2>2, <2>4 DEF ReplyTypes, Outcome
  <2>6. FlagTypes'
    BY <2>4, <1>2 DEF FlagTypes, Types, program
  <2>7. ContextTypes'
    BY <2>4, <1>2, ConstantsTypes DEF ContextTypes, Types, program, Places
  <2> QED  BY <1>2, <1>3, <2>1, <2>4, <2>5, <2>6, <2>7
<1>4. CASE ~Closing
  <2>1. /\ at' = IF Len(batch) = 1 THEN "flush" ELSE "append"
        /\ batch' = Tail(batch)
        /\ ticket' = "none" /\ resends' = 0
        /\ UNCHANGED <<running, poisoned, reply>>
    BY <1>4 DEF Delivered
  <2>2. ReplyTypes'
    BY <2>1 DEF ReplyTypes, Types
  <2>3. FlagTypes'
    BY <2>1, <1>2 DEF FlagTypes, Types, program
  <2>4. ContextTypes'
    BY <2>1, <1>2, ConstantsTypes DEF ContextTypes, Types, program, Places
  <2> QED  BY <1>1, <1>2, <1>4, <2>1, <2>2, <2>3, <2>4
<1> QED  BY <1>3, <1>4

\* What is pushed and delivered are events that an evaluator records.
LEMMA ResumedType ==
  ASSUME Types
  PROVE  /\ <<>> \in Seq(Normal)
         /\ <<Resumed(last_yield)>> \in Seq(Normal)
<1>1. Resumed(last_yield) \in Normal
  BY Vocabulary DEF Types, YieldTypes, ChargeTypes, Resumed
<1> QED  BY <1>1

\* Every step keeps the types of the flags.
LEMMA FlagTypesStep ==
  ASSUME Types, Control, Journals, [Next]_vars
  PROVE  FlagTypes'
<1>1. CASE JournalFull
  BY <1>1, GiveUpFacts DEF JournalFull, Control, Late
<1>2. CASE Ack
  BY <1>2, DeliveredFacts, ResumedType DEF Ack, Submission
<1>3. CASE Refuse
  BY <1>3, GiveUpFacts DEF Refuse, Submitted, Control, Late
<1>4. CASE Resume
  BY <1>4, DeliveredFacts, ResumedType DEF Resume, Submission
<1>5. CASE WaitedTooLong
  BY <1>5, GiveUpFacts DEF WaitedTooLong, Control, Late
<1> USE DEF Types, FlagTypes, vars, state, program, charges, yields, stream,
            delivery, waiting
<1>6. CASE TurnAway  BY <1>6 DEF TurnAway, Begins, Outcome
<1>7. CASE FailPrecondition  BY <1>7 DEF FailPrecondition, Begins, Return
<1>8. ASSUME NEW s \in UNION {Scripts[i] : i \in DOMAIN Scripts}, Open(s)
      PROVE  FlagTypes'
  BY <1>8 DEF Open, Begins, Return
<1>9. CASE StartedAck  BY <1>9 DEF StartedAck
<1>10. CASE StartedRefused  BY <1>10 DEF StartedRefused, Close
<1>11. CASE LastWord  BY <1>11 DEF LastWord, Return
<1>12. CASE Install  BY <1>12 DEF Install, NoYield, Yield
<1>13. CASE LinkFails  BY <1>13 DEF LinkFails, NoteCharge
<1>14. CASE Link  BY <1>14 DEF Link, NoteCharge
<1>15. CASE ResumeSlice
  BY <1>15 DEF ResumeSlice, Push, NoYield, Yield, Resumed
<1>16. CASE Finish  BY <1>16 DEF Finish, AtBoundary, EndSlice, FinalizeSession
<1>17. CASE StopSlice
  BY <1>17 DEF StopSlice, AtBoundary, EndSlice, FinalizeSession
<1>18. CASE YieldSlice
  BY <1>18 DEF YieldSlice, AtBoundary, RecordYield, Push, Drain
<1>19. CASE Work  BY <1>19 DEF Work, Executes, AtBoundary, NoteCharge
<1>20. CASE Call  BY <1>20 DEF Call, Executes, AtBoundary, NoteCharge, Push
<1>21. CASE EndScript
  BY <1>21 DEF EndScript, Executes, AtBoundary, EndSlice, FinalizeSession
<1>22. CASE Panic  BY <1>22 DEF Panic, Executes, AtBoundary, Unwind
<1>23. CASE Flush  BY <1>23 DEF Flush, Drain
<1>24. CASE AppendEvent  BY <1>24 DEF AppendEvent
<1>25. CASE AppendTerminal  BY <1>25 DEF AppendTerminal, Close
<1>26. CASE Wait  BY <1>26 DEF Wait, RecordYield, Push, Drain
<1>27. CASE Resend  BY <1>27 DEF Resend
<1>28. CASE StillPending  BY <1>28 DEF StillPending
<1>29. CASE SinkPanics  BY <1>29 DEF SinkPanics, Unwind, Submitted
<1>30. CASE SinkEscapes  BY <1>30 DEF SinkEscapes, Submitted
<1>31. ASSUME NEW answer \in {"acked", "refused"}, Complete(answer)
      PROVE  FlagTypes'
  BY <1>31 DEF Complete
<1>32. ASSUME NEW why \in {"Cancelled", "DeadlineExceeded"}, Stop(why)
      PROVE  FlagTypes'
  BY <1>32 DEF Stop
<1>33. CASE UNCHANGED vars  BY <1>33
<1> QED  BY <1>1, <1>2, <1>3, <1>4, <1>5, <1>6, <1>7, <1>8, <1>9, <1>10, <1>11,
            <1>12, <1>13, <1>14, <1>15, <1>16, <1>17, <1>18, <1>19, <1>20,
            <1>21, <1>22, <1>23, <1>24, <1>25, <1>26, <1>27, <1>28, <1>29,
            <1>30, <1>31, <1>32, <1>33
         DEF Next, Facade

\* Every step keeps the types of the counters and the places.
LEMMA ContextTypesStep ==
  ASSUME Types, Control, Journals, [Next]_vars
  PROVE  ContextTypes'
<1>1. CASE JournalFull
  BY <1>1, GiveUpFacts DEF JournalFull, Control, Late
<1>2. CASE Ack
  BY <1>2, DeliveredFacts, ResumedType DEF Ack, Submission
<1>3. CASE Refuse
  BY <1>3, GiveUpFacts DEF Refuse, Submitted, Control, Late
<1>4. CASE Resume
  BY <1>4, DeliveredFacts, ResumedType DEF Resume, Submission
<1>5. CASE WaitedTooLong
  BY <1>5, GiveUpFacts DEF WaitedTooLong, Control, Late
<1> USE ConstantsTypes
        DEF Types, ContextTypes, Control, Outcomes, Places, Early, Late,
            AtWork, Submission, vars, state, program, charges, yields, stream,
            delivery, waiting
<1>6. CASE TurnAway  BY <1>6 DEF TurnAway, Begins, Outcome
<1>7. CASE FailPrecondition  BY <1>7 DEF FailPrecondition, Begins, Return
<1>8. ASSUME NEW s \in UNION {Scripts[i] : i \in DOMAIN Scripts}, Open(s)
      PROVE  ContextTypes'
  BY <1>8 DEF Open, Begins, Return
<1>9. CASE StartedAck  BY <1>9 DEF StartedAck
<1>10. CASE StartedRefused  BY <1>10 DEF StartedRefused, Close
<1>11. CASE LastWord  BY <1>11 DEF LastWord, Return
<1>12. CASE Install  BY <1>12 DEF Install, NoYield, Yield
<1>13. CASE LinkFails  BY <1>13 DEF LinkFails, NoteCharge
<1>14. CASE Link  BY <1>14 DEF Link, NoteCharge
<1>15. CASE ResumeSlice
  BY <1>15 DEF ResumeSlice, Push, NoYield, Yield, Resumed
<1>16. CASE Finish  BY <1>16 DEF Finish, AtBoundary, EndSlice, FinalizeSession
<1>17. CASE StopSlice
  BY <1>17 DEF StopSlice, AtBoundary, EndSlice, FinalizeSession
<1>18. CASE YieldSlice
  BY <1>18 DEF YieldSlice, AtBoundary, RecordYield, Push, Drain
<1>19. CASE Work  BY <1>19 DEF Work, Executes, AtBoundary, NoteCharge
<1>20. CASE Call  BY <1>20 DEF Call, Executes, AtBoundary, NoteCharge, Push
<1>21. CASE EndScript
  BY <1>21 DEF EndScript, Executes, AtBoundary, EndSlice, FinalizeSession
<1>22. CASE Panic  BY <1>22 DEF Panic, Executes, AtBoundary, Unwind
<1>23. CASE Flush  BY <1>23 DEF Flush, Drain
<1>24. CASE AppendEvent  BY <1>24 DEF AppendEvent
<1>25. CASE AppendTerminal  BY <1>25 DEF AppendTerminal, Close
<1>26. CASE Wait  BY <1>26 DEF Wait, RecordYield, Push, Drain
<1>27. CASE Resend  BY <1>27 DEF Resend
<1>28. CASE StillPending  BY <1>28 DEF StillPending
<1>29. CASE SinkPanics  BY <1>29 DEF SinkPanics, Unwind, Submitted
<1>30. CASE SinkEscapes  BY <1>30 DEF SinkEscapes, Submitted
<1>31. ASSUME NEW answer \in {"acked", "refused"}, Complete(answer)
      PROVE  ContextTypes'
  BY <1>31 DEF Complete
<1>32. ASSUME NEW why \in {"Cancelled", "DeadlineExceeded"}, Stop(why)
      PROVE  ContextTypes'
  BY <1>32 DEF Stop
<1>33. CASE UNCHANGED vars  BY <1>33
<1> QED  BY <1>1, <1>2, <1>3, <1>4, <1>5, <1>6, <1>7, <1>8, <1>9, <1>10, <1>11,
            <1>12, <1>13, <1>14, <1>15, <1>16, <1>17, <1>18, <1>19, <1>20,
            <1>21, <1>22, <1>23, <1>24, <1>25, <1>26, <1>27, <1>28, <1>29,
            <1>30, <1>31, <1>32, <1>33
         DEF Next, Facade

\* Every step leaves a reply of run_audited.
LEMMA ReplyTypesStep ==
  ASSUME Types, Control, Journals, [Next]_vars
  PROVE  ReplyTypes'
<1>1. CASE JournalFull
  BY <1>1, GiveUpFacts DEF JournalFull, Control, Late
<1>2. CASE Ack
  BY <1>2, DeliveredFacts, ResumedType DEF Ack, Submission
<1>3. CASE Refuse
  BY <1>3, GiveUpFacts DEF Refuse, Submitted, Control, Late
<1>4. CASE Resume
  BY <1>4, DeliveredFacts, ResumedType DEF Resume, Submission
<1>5. CASE WaitedTooLong
  BY <1>5, GiveUpFacts DEF WaitedTooLong, Control, Late
<1> USE DEF Types, ContextTypes, ReplyTypes, Control, Outcomes, Late,
            Submission, vars, state, program, charges, yields, stream,
            delivery, waiting
<1>6. CASE TurnAway  BY <1>6 DEF TurnAway, Begins, Outcome
<1>7. CASE FailPrecondition
  BY <1>7 DEF FailPrecondition, Begins, Return, Outcome
<1>8. ASSUME NEW s \in UNION {Scripts[i] : i \in DOMAIN Scripts}, Open(s)
      PROVE  ReplyTypes'
  BY <1>8 DEF Open, Begins, Return, AuditFailed, Started
<1>9. CASE StartedAck  BY <1>9 DEF StartedAck
<1>10. CASE StartedRefused  BY <1>10 DEF StartedRefused, Close
<1>11. CASE LastWord  BY <1>11 DEF LastWord, Return, AuditFailed, Outcome
<1>12. CASE Install  BY <1>12 DEF Install, NoYield, Yield
<1>13. CASE LinkFails  BY <1>13 DEF LinkFails, NoteCharge
<1>14. CASE Link  BY <1>14 DEF Link, NoteCharge
<1>15. CASE ResumeSlice
  BY <1>15 DEF ResumeSlice, Push, NoYield, Yield, Resumed
<1>16. CASE Finish  BY <1>16 DEF Finish, AtBoundary, EndSlice, FinalizeSession
<1>17. CASE StopSlice
  BY <1>17 DEF StopSlice, AtBoundary, EndSlice, FinalizeSession
<1>18. CASE YieldSlice
  BY <1>18 DEF YieldSlice, AtBoundary, RecordYield, Push, Drain
<1>19. CASE Work  BY <1>19 DEF Work, Executes, AtBoundary, NoteCharge
<1>20. CASE Call  BY <1>20 DEF Call, Executes, AtBoundary, NoteCharge, Push
<1>21. CASE EndScript
  BY <1>21 DEF EndScript, Executes, AtBoundary, EndSlice, FinalizeSession
<1>22. CASE Panic  BY <1>22 DEF Panic, Executes, AtBoundary, Unwind
<1>23. CASE Flush  BY <1>23 DEF Flush, Drain
<1>24. CASE AppendEvent  BY <1>24 DEF AppendEvent
<1>25. CASE AppendTerminal  BY <1>25 DEF AppendTerminal, Close
<1>26. CASE Wait  BY <1>26 DEF Wait, RecordYield, Push, Drain
<1>27. CASE Resend  BY <1>27 DEF Resend
<1>28. CASE StillPending  BY <1>28 DEF StillPending
<1>29. CASE SinkPanics  BY <1>29 DEF SinkPanics, Unwind, Submitted
<1>30. CASE SinkEscapes  BY <1>30 DEF SinkEscapes, Submitted
<1>31. ASSUME NEW answer \in {"acked", "refused"}, Complete(answer)
      PROVE  ReplyTypes'
  BY <1>31 DEF Complete
<1>32. ASSUME NEW why \in {"Cancelled", "DeadlineExceeded"}, Stop(why)
      PROVE  ReplyTypes'
  BY <1>32 DEF Stop
<1>33. CASE UNCHANGED vars  BY <1>33
<1> QED  BY <1>1, <1>2, <1>3, <1>4, <1>5, <1>6, <1>7, <1>8, <1>9, <1>10, <1>11,
            <1>12, <1>13, <1>14, <1>15, <1>16, <1>17, <1>18, <1>19, <1>20,
            <1>21, <1>22, <1>23, <1>24, <1>25, <1>26, <1>27, <1>28, <1>29,
            <1>30, <1>31, <1>32, <1>33
         DEF Next, Facade

\* Every step keeps the open group below CHARGE_FLUSH_THRESHOLD.
LEMMA ChargeTypesStep ==
  ASSUME Types, [Next]_vars
  PROVE  ChargeTypes'
<1> USE ConstantsTypes
        DEF Types, ChargeTypes, vars, state, program, charges, yields, stream,
            delivery, waiting
<1>1. CASE TurnAway  BY <1>1 DEF TurnAway, Begins, Outcome
<1>2. CASE FailPrecondition
  BY <1>2 DEF FailPrecondition, Begins, Return, Outcome
<1>3. ASSUME NEW s \in UNION {Scripts[i] : i \in DOMAIN Scripts}, Open(s)
      PROVE  ChargeTypes'
  BY <1>3 DEF Open, Begins, Return, AuditFailed, Started
<1>4. CASE StartedAck  BY <1>4 DEF StartedAck
<1>5. CASE StartedRefused  BY <1>5 DEF StartedRefused, Close
<1>6. CASE LastWord  BY <1>6 DEF LastWord, Return, AuditFailed, Outcome
<1>7. CASE Install  BY <1>7 DEF Install, NoYield, Yield
<1>8. CASE LinkFails  BY <1>8 DEF LinkFails, NoteCharge
<1>9. CASE Link  BY <1>9 DEF Link, NoteCharge
<1>10. CASE ResumeSlice
  BY <1>10 DEF ResumeSlice, Push, NoYield, Yield, Resumed
<1>11. CASE Finish  BY <1>11 DEF Finish, AtBoundary, EndSlice, FinalizeSession
<1>12. CASE StopSlice
  BY <1>12 DEF StopSlice, AtBoundary, EndSlice, FinalizeSession
<1>13. CASE YieldSlice
  BY <1>13 DEF YieldSlice, AtBoundary, RecordYield, Push, Drain
<1>14. CASE Work  BY <1>14 DEF Work, Executes, AtBoundary, NoteCharge
<1>15. CASE Call  BY <1>15 DEF Call, NoteCharge
<1>16. CASE EndScript
  BY <1>16 DEF EndScript, Executes, AtBoundary, EndSlice, FinalizeSession
<1>17. CASE Panic  BY <1>17 DEF Panic, Executes, AtBoundary, Unwind
<1>18. CASE Flush  BY <1>18 DEF Flush, Drain
<1>19. CASE AppendEvent  BY <1>19 DEF AppendEvent
<1>20. CASE JournalFull
  BY <1>20
     DEF JournalFull, GiveUp, Return, FinalizeSession, AuditFailed, Outcome
<1>21. CASE AppendTerminal  BY <1>21 DEF AppendTerminal, Close
<1>22. CASE Ack  BY <1>22 DEF Ack, Delivered, Return, Outcome
<1>23. CASE Refuse
  BY <1>23
     DEF Refuse, Submitted, GiveUp, Return, FinalizeSession, AuditFailed,
         Outcome
<1>24. CASE Wait  BY <1>24 DEF Wait, RecordYield, Push, Drain
<1>25. CASE Resend  BY <1>25 DEF Resend
<1>26. CASE Resume
  BY <1>26 DEF Resume, Delivered, Return, Outcome, NoYield, Yield
<1>27. CASE StillPending  BY <1>27 DEF StillPending
<1>28. CASE WaitedTooLong
  BY <1>28
     DEF WaitedTooLong, GiveUp, Return, FinalizeSession, AuditFailed, Outcome
<1>29. CASE SinkPanics  BY <1>29 DEF SinkPanics, Unwind, Submitted
<1>30. CASE SinkEscapes  BY <1>30 DEF SinkEscapes, Submitted
<1>31. ASSUME NEW answer \in {"acked", "refused"}, Complete(answer)
      PROVE  ChargeTypes'
  BY <1>31 DEF Complete
<1>32. ASSUME NEW why \in {"Cancelled", "DeadlineExceeded"}, Stop(why)
      PROVE  ChargeTypes'
  BY <1>32 DEF Stop
<1>33. CASE UNCHANGED vars  BY <1>33
<1> QED  BY <1>1, <1>2, <1>3, <1>4, <1>5, <1>6, <1>7, <1>8, <1>9, <1>10, <1>11,
            <1>12, <1>13, <1>14, <1>15, <1>16, <1>17, <1>18, <1>19, <1>20,
            <1>21, <1>22, <1>23, <1>24, <1>25, <1>26, <1>27, <1>28, <1>29,
            <1>30, <1>31, <1>32, <1>33
         DEF Next, Facade

\* Every step keeps the types of the yields.
LEMMA YieldTypesStep ==
  ASSUME Types, [Next]_vars
  PROVE  YieldTypes'
<1> USE YieldRecord
        DEF Types, YieldTypes, vars, state, program, charges, yields, stream,
            delivery, waiting
<1>1. CASE TurnAway  BY <1>1 DEF TurnAway, Begins, Outcome
<1>2. CASE FailPrecondition
  BY <1>2 DEF FailPrecondition, Begins, Return, Outcome
<1>3. ASSUME NEW s \in UNION {Scripts[i] : i \in DOMAIN Scripts}, Open(s)
      PROVE  YieldTypes'
  BY <1>3 DEF Open, Begins, Return, AuditFailed, Started
<1>4. CASE StartedAck  BY <1>4 DEF StartedAck
<1>5. CASE StartedRefused  BY <1>5 DEF StartedRefused, Close
<1>6. CASE LastWord  BY <1>6 DEF LastWord, Return, AuditFailed, Outcome
<1>7. CASE Install  BY <1>7 DEF Install, NoYield, Yield
<1>8. CASE LinkFails  BY <1>8 DEF LinkFails, NoteCharge
<1>9. CASE Link  BY <1>9 DEF Link, NoteCharge
<1>10. CASE ResumeSlice
  BY <1>10 DEF ResumeSlice, Push, NoYield, Yield, Resumed
<1>11. CASE Finish  BY <1>11 DEF Finish, AtBoundary, EndSlice, FinalizeSession
<1>12. CASE StopSlice
  BY <1>12 DEF StopSlice, AtBoundary, EndSlice, FinalizeSession
<1>13. CASE YieldSlice
  BY <1>13 DEF YieldSlice, AtBoundary, RecordYield, Push, Drain
<1>14. CASE Work  BY <1>14 DEF Work, Executes, AtBoundary, NoteCharge
<1>15. CASE Call  BY <1>15 DEF Call, Executes, AtBoundary, NoteCharge, Push
<1>16. CASE EndScript
  BY <1>16 DEF EndScript, Executes, AtBoundary, EndSlice, FinalizeSession
<1>17. CASE Panic  BY <1>17 DEF Panic, Executes, AtBoundary, Unwind
<1>18. CASE Flush  BY <1>18 DEF Flush, Drain
<1>19. CASE AppendEvent  BY <1>19 DEF AppendEvent
<1>20. CASE JournalFull
  BY <1>20
     DEF JournalFull, GiveUp, Return, FinalizeSession, AuditFailed, Outcome
<1>21. CASE AppendTerminal  BY <1>21 DEF AppendTerminal, Close
<1>22. CASE Ack  BY <1>22 DEF Ack, Delivered, Return, Outcome
<1>23. CASE Refuse
  BY <1>23
     DEF Refuse, Submitted, GiveUp, Return, FinalizeSession, AuditFailed,
         Outcome
<1>24. CASE Wait  BY <1>24 DEF Wait, RecordYield, Push, Drain
<1>25. CASE Resend  BY <1>25 DEF Resend
<1>26. CASE Resume
  BY <1>26 DEF Resume, Delivered, Return, Outcome, NoYield, Yield
<1>27. CASE StillPending  BY <1>27 DEF StillPending
<1>28. CASE WaitedTooLong
  BY <1>28
     DEF WaitedTooLong, GiveUp, Return, FinalizeSession, AuditFailed, Outcome
<1>29. CASE SinkPanics  BY <1>29 DEF SinkPanics, Unwind, Submitted
<1>30. CASE SinkEscapes  BY <1>30 DEF SinkEscapes, Submitted
<1>31. ASSUME NEW answer \in {"acked", "refused"}, Complete(answer)
      PROVE  YieldTypes'
  BY <1>31 DEF Complete
<1>32. ASSUME NEW why \in {"Cancelled", "DeadlineExceeded"}, Stop(why)
      PROVE  YieldTypes'
  BY <1>32 DEF Stop
<1>33. CASE UNCHANGED vars  BY <1>33
<1> QED  BY <1>1, <1>2, <1>3, <1>4, <1>5, <1>6, <1>7, <1>8, <1>9, <1>10, <1>11,
            <1>12, <1>13, <1>14, <1>15, <1>16, <1>17, <1>18, <1>19, <1>20,
            <1>21, <1>22, <1>23, <1>24, <1>25, <1>26, <1>27, <1>28, <1>29,
            <1>30, <1>31, <1>32, <1>33
         DEF Next, Facade

\* Pushing events of an evaluator keeps its queue one of events.
LEMMA PushFacts ==
  ASSUME Types, NEW events \in Seq(Normal), Push(events)
  PROVE  audit_events' \in Seq(Normal) /\ audit_queue' \in Int
BY DEF Push, Types, StreamTypes

\* record_yield leaves the yield it has numbered, and no charge.
LEMMA RecordYieldFacts ==
  ASSUME Types, NEW reason \in {"SliceFuelExhausted", "AuditBackpressure"},
         RecordYield(reason)
  PROVE  /\ audit_events' \in Seq(Normal) /\ audit_queue' \in Int
         /\ last_yield' = [reason |-> reason, index |-> poll_index]
         /\ last_yield' \in Yield /\ poll_index' = poll_index + 1
         /\ group' = 0 /\ finalized' = 0 /\ spent' = spent
<1> DEFINE y == [reason |-> reason, index |-> poll_index]
<1>1. Append(Drained, Yielded(y)) \in Seq(Normal) /\ y \in Yield
  BY YieldRecord
<1>2. /\ Push(Append(Drained, Yielded(y)))
      /\ Drain
      /\ last_yield' = y /\ poll_index' = poll_index + 1
  BY DEF RecordYield
<1> HIDE DEF y
<1>3. audit_events' \in Seq(Normal) /\ audit_queue' \in Int
  BY <1>1, <1>2, PushFacts
<1> QED  BY <1>1, <1>2, <1>3 DEF y, Drain

\* A journal is closed by one Terminal with the outcome it is given.
LEMMA CloseFacts ==
  ASSUME Types, NEW outcome \in Outcomes, NEW usage \in Nat,
         Close(outcome, usage)
  PROVE  /\ journal' \in Seq(Event) /\ journal' # <<>>
         /\ Len(journal') = Len(journal) + 1
         /\ journal'[Len(journal')] = Terminal(outcome, usage)
         /\ Closing'
<1>1. Terminal(outcome, usage) \in Event
        /\ Terminal(outcome, usage).kind = "Terminal"
  BY Vocabulary
<1>2. /\ journal \in Seq(Event)
      /\ journal' = Append(journal, Terminal(outcome, usage))
  BY DEF Close, Types, StreamTypes
<1> QED  BY <1>1, <1>2, AppendProperties DEF Closing

\* What a flush drains, and how it moves to the journal.
LEMMA FlushFacts ==
  ASSUME Types, Flush
  PROVE  /\ batch' = audit_events \o Drained /\ batch' \in Seq(Normal)
         /\ audit_events' = <<>>
         /\ Len(Drained) \in Nat /\ audit_queue' = audit_queue + Len(Drained)
         /\ at' = IF batch' # <<>> THEN "append"
                  ELSE IF drive = "Yielded" THEN "slice" ELSE "terminal"
<1>1. Drained \in Seq(Normal) /\ Len(Drained) \in Nat
  BY DrainedType DEF Types, ChargeTypes
<1> QED  BY <1>1 DEF Flush, Types, StreamTypes

\* append_normal appends the head of the batch, which is no Terminal.
LEMMA AppendEventFacts ==
  ASSUME Types, Batches, AppendEvent
  PROVE  /\ Head(batch) \in Normal /\ Head(batch).kind # "Terminal"
         /\ journal' = Append(journal, Head(batch))
         /\ journal' \in Seq(Event) /\ journal' # <<>>
         /\ Len(journal') = Len(journal) + 1
         /\ ~Closing'
<1>1. batch \in Seq(Normal) /\ batch # <<>> /\ journal \in Seq(Event)
  BY DEF AppendEvent, Batches, Types, StreamTypes
<1>2. Head(batch) \in Normal
  BY <1>1
<1>3. Head(batch) \in Event /\ Head(batch).kind # "Terminal"
  BY <1>2, Vocabulary
<1>4. journal' = Append(journal, Head(batch))
  BY DEF AppendEvent
<1>5. /\ journal' \in Seq(Event) /\ journal' # <<>>
      /\ Len(journal') = Len(journal) + 1
      /\ journal'[Len(journal')] = Head(batch)
  BY <1>1, <1>3, <1>4, AppendProperties
<1> QED  BY <1>2, <1>3, <1>4, <1>5 DEF Closing

\* A flush that fails keeps the types of the stream.
LEMMA GiveUpStreams ==
  ASSUME NEW f \in {"Sink", "BudgetExceeded", "BackpressureDeadline"},
         GiveUp(f), Types, drive # "none"
  PROVE  StreamTypes'
<1>1. batch' = <<>> /\ UNCHANGED <<stream, journal, sunk>>
  BY GiveUpFacts
<1>2. <<>> \in Seq(Normal)
  OBVIOUS
<1> QED  BY <1>1, <1>2 DEF Types, StreamTypes, stream

\* A delivery keeps the types of the stream.
LEMMA DeliveredStreams ==
  ASSUME NEW resumed \in Seq(Normal), Delivered(resumed), Types, Journals,
         Batches, at \in Submission
  PROVE  StreamTypes'
<1>1. journal \in Seq(Event) /\ journal # <<>> /\ Len(journal) \in Nat \ {0}
  <2>1. journal \in Seq(Event) /\ journal # <<>>
    BY DEF Types, StreamTypes, Journals, Submission
  <2> QED  BY <2>1
<1>2. sunk' = sunk \union {Len(journal) - 1} /\ sunk' \in SUBSET Nat
  <2>1. sunk' = sunk \union {Len(journal) - 1}
    BY DEF Delivered
  <2>2. sunk \in SUBSET Nat /\ Len(journal) - 1 \in Nat
    BY <1>1 DEF Types, StreamTypes
  <2> QED  BY <2>1, <2>2
<1>3. audit_events' = audit_events \o resumed /\ Len(resumed) \in Nat
  BY DEF Delivered
<1>4. audit_queue' \in Int
  BY <1>3 DEF Delivered, Types, StreamTypes
<1>5. batch' \in Seq(Normal)
  <2>1. CASE Closing
    BY <2>1 DEF Delivered, Types, StreamTypes
  <2>2. CASE ~Closing
    <3>1. batch # <<>> /\ batch \in Seq(Normal)
      BY <2>2 DEF Batches, InFlight, Types, StreamTypes, Submission
    <3>2. Tail(batch) \in Seq(Normal)
      BY <3>1
    <3> QED  BY <2>2, <3>2 DEF Delivered
  <2> QED  BY <2>1, <2>2
<1> QED  BY <1>1, <1>2, <1>3, <1>4, <1>5 DEF Delivered, Types, StreamTypes

\* Every step keeps the types of the stream.
LEMMA StreamTypesStep ==
  ASSUME Types, Control, Journals, Batches, [Next]_vars
  PROVE  StreamTypes'
<1>1. ASSUME NEW s \in UNION {Scripts[i] : i \in DOMAIN Scripts}, Open(s)
      PROVE  StreamTypes'
  <2>1. journal' \in Seq(Event) /\ sunk' = {}
    <3>1. journal' = <<Started>> \/ journal' = <<>>
      BY <1>1 DEF Open
    <3>2. <<>> \in Seq(Event) /\ <<Started>> \in Seq(Event)
      BY Vocabulary
    <3> QED  BY <1>1, <3>1, <3>2 DEF Open
  <2> QED  BY <1>1, <2>1 DEF Open, Types, StreamTypes, stream
<1>2. CASE ResumeSlice
  <2>1. Push(IF last_yield = NoYield THEN <<>> ELSE <<Resumed(last_yield)>>)
    BY <1>2 DEF ResumeSlice
  <2>2. (IF last_yield = NoYield THEN <<>> ELSE <<Resumed(last_yield)>>)
          \in Seq(Normal)
    BY ResumedType
  <2>3. audit_events' \in Seq(Normal) /\ audit_queue' \in Int
    BY <2>1, <2>2, PushFacts
  <2> QED  BY <1>2, <2>3 DEF ResumeSlice, Types, StreamTypes, stream, delivery
<1>3. CASE JournalFull
  BY <1>3, GiveUpStreams DEF JournalFull, Control, Late
<1>4. CASE AppendTerminal
  <2>1. drive \in Outcomes /\ spent \in Nat
    BY <1>4 DEF AppendTerminal, Types, ContextTypes, ChargeTypes, Control, Late
  <2> QED  BY <1>4, <2>1, CloseFacts
              DEF AppendTerminal, Types, StreamTypes, stream, delivery
<1>5. CASE Ack
  <2>1. Delivered(<<>>) /\ <<>> \in Seq(Normal) /\ at \in Submission
    BY <1>5, ResumedType DEF Ack, Submission
  <2> QED  BY <2>1, DeliveredStreams
<1>6. CASE Refuse
  BY <1>6, GiveUpStreams DEF Refuse, Submitted, Control, Late
<1>7. CASE Resume
  <2>1. /\ Delivered(<<Resumed(last_yield)>>)
        /\ <<Resumed(last_yield)>> \in Seq(Normal) /\ at \in Submission
    BY <1>7, ResumedType DEF Resume, Submission
  <2> QED  BY <2>1, DeliveredStreams
<1>8. CASE WaitedTooLong
  BY <1>8, GiveUpStreams DEF WaitedTooLong, Control, Late
<1> USE Vocabulary
        DEF Types, StreamTypes, vars, state, program, charges, yields, stream,
            delivery, waiting
<1>9. CASE TurnAway  BY <1>9 DEF TurnAway, Begins, Outcome
<1>10. CASE FailPrecondition
  BY <1>10 DEF FailPrecondition, Begins, Return, Outcome
<1>11. CASE StartedAck  BY <1>11 DEF StartedAck
<1>12. CASE StartedRefused  BY <1>12, CloseFacts DEF StartedRefused, Outcomes
<1>13. CASE LastWord  BY <1>13 DEF LastWord, Return, AuditFailed, Outcome
<1>14. CASE Install  BY <1>14 DEF Install, NoYield, Yield
<1>15. CASE LinkFails  BY <1>15 DEF LinkFails, NoteCharge
<1>16. CASE Link  BY <1>16 DEF Link, NoteCharge
<1>17. CASE Finish  BY <1>17 DEF Finish, AtBoundary, EndSlice, FinalizeSession
<1>18. CASE StopSlice
  BY <1>18 DEF StopSlice, AtBoundary, EndSlice, FinalizeSession
<1>19. CASE YieldSlice  BY <1>19, RecordYieldFacts DEF YieldSlice
<1>20. CASE Work  BY <1>20 DEF Work, Executes, AtBoundary, NoteCharge
<1>21. CASE Call  BY <1>21, PushFacts DEF Call
<1>22. CASE EndScript
  BY <1>22 DEF EndScript, Executes, AtBoundary, EndSlice, FinalizeSession
<1>23. CASE Panic  BY <1>23 DEF Panic, Executes, AtBoundary, Unwind
<1>24. CASE Flush  BY <1>24, FlushFacts DEF Flush
<1>25. CASE AppendEvent  BY <1>25, AppendEventFacts DEF AppendEvent
<1>26. CASE Wait  BY <1>26, RecordYieldFacts DEF Wait
<1>27. CASE Resend  BY <1>27 DEF Resend
<1>28. CASE StillPending  BY <1>28 DEF StillPending
<1>29. CASE SinkPanics  BY <1>29 DEF SinkPanics, Unwind, Submitted
<1>30. CASE SinkEscapes  BY <1>30 DEF SinkEscapes, Submitted
<1>31. ASSUME NEW answer \in {"acked", "refused"}, Complete(answer)
      PROVE  StreamTypes'
  BY <1>31 DEF Complete
<1>32. ASSUME NEW why \in {"Cancelled", "DeadlineExceeded"}, Stop(why)
      PROVE  StreamTypes'
  BY <1>32 DEF Stop
<1>33. CASE UNCHANGED vars  BY <1>33
<1> QED  BY <1>1, <1>2, <1>3, <1>4, <1>5, <1>6, <1>7, <1>8, <1>9, <1>10, <1>11,
            <1>12, <1>13, <1>14, <1>15, <1>16, <1>17, <1>18, <1>19, <1>20,
            <1>21, <1>22, <1>23, <1>24, <1>25, <1>26, <1>27, <1>28, <1>29,
            <1>30, <1>31, <1>32, <1>33
         DEF Next, Facade

\* Every step keeps what the driver has returned in line with the place.
LEMMA ControlStep ==
  ASSUME Types, Control, Journals, Batches, [Next]_vars
  PROVE  Control'
<1>1. CASE JournalFull
  BY <1>1, GiveUpFacts
     DEF JournalFull, Control, Early, Late, AtWork, Submission, Types,
         ContextTypes
<1>2. CASE AppendTerminal
  <2>1. drive \in Outcomes /\ spent \in Nat
    BY <1>2 DEF AppendTerminal, Types, ContextTypes, ChargeTypes, Control, Late
  <2> QED  BY <1>2, <2>1, CloseFacts
              DEF AppendTerminal, state, Control, Early, Late, AtWork,
                  Submission, Types, ContextTypes
<1>3. CASE Ack
  BY <1>3, DeliveredFacts, ResumedType
     DEF Ack, Submission, Control, Early, Late, AtWork, Types
<1>4. CASE Refuse
  BY <1>4, GiveUpFacts
     DEF Refuse, Submitted, Control, Early, Late, AtWork, Submission, Types,
         ContextTypes
<1>5. CASE Resume
  BY <1>5, DeliveredFacts, ResumedType
     DEF Resume, Submission, Control, Early, Late, AtWork, Types
<1>6. CASE WaitedTooLong
  BY <1>6, GiveUpFacts
     DEF WaitedTooLong, Control, Early, Late, AtWork, Submission, Types,
         ContextTypes
<1> USE DEF Types, ContextTypes, Control, Outcomes, Early, Late, AtWork,
            Submission, Closing, vars, state, program, charges, yields, stream,
            delivery, waiting
<1>7. CASE TurnAway  BY <1>7 DEF TurnAway, Begins, Outcome
<1>8. CASE FailPrecondition
  BY <1>8 DEF FailPrecondition, Begins, Return, Outcome
<1>9. ASSUME NEW s \in UNION {Scripts[i] : i \in DOMAIN Scripts}, Open(s)
      PROVE  Control'
  BY <1>9 DEF Open, Begins, Return, AuditFailed, Started
<1>10. CASE StartedAck  BY <1>10 DEF StartedAck
<1>11. CASE StartedRefused  BY <1>11 DEF StartedRefused, Close
<1>12. CASE LastWord  BY <1>12 DEF LastWord, Return, AuditFailed, Outcome
<1>13. CASE Install  BY <1>13 DEF Install, NoYield, Yield
<1>14. CASE LinkFails  BY <1>14 DEF LinkFails, NoteCharge
<1>15. CASE Link  BY <1>15 DEF Link, NoteCharge
<1>16. CASE ResumeSlice
  BY <1>16 DEF ResumeSlice, Push, NoYield, Yield, Resumed
<1>17. CASE Finish  BY <1>17 DEF Finish, AtBoundary, EndSlice, FinalizeSession
<1>18. CASE StopSlice
  BY <1>18 DEF StopSlice, AtBoundary, EndSlice, FinalizeSession
<1>19. CASE YieldSlice
  BY <1>19 DEF YieldSlice, AtBoundary, RecordYield, Push, Drain
<1>20. CASE Work  BY <1>20 DEF Work, Executes, AtBoundary, NoteCharge
<1>21. CASE Call  BY <1>21 DEF Call, Executes, AtBoundary, NoteCharge, Push
<1>22. CASE EndScript
  BY <1>22 DEF EndScript, Executes, AtBoundary, EndSlice, FinalizeSession
<1>23. CASE Panic  BY <1>23 DEF Panic, Executes, AtBoundary, Unwind
<1>24. CASE Flush  BY <1>24 DEF Flush, Drain
<1>25. CASE AppendEvent  BY <1>25 DEF AppendEvent
<1>26. CASE Wait  BY <1>26 DEF Wait, RecordYield, Push, Drain
<1>27. CASE Resend  BY <1>27 DEF Resend
<1>28. CASE StillPending  BY <1>28 DEF StillPending
<1>29. CASE SinkPanics  BY <1>29 DEF SinkPanics, Unwind, Submitted
<1>30. CASE SinkEscapes  BY <1>30 DEF SinkEscapes, Submitted
<1>31. ASSUME NEW answer \in {"acked", "refused"}, Complete(answer)
      PROVE  Control'
  BY <1>31 DEF Complete
<1>32. ASSUME NEW why \in {"Cancelled", "DeadlineExceeded"}, Stop(why)
      PROVE  Control'
  BY <1>32 DEF Stop
<1>33. CASE UNCHANGED vars  BY <1>33
<1> QED  BY <1>1, <1>2, <1>3, <1>4, <1>5, <1>6, <1>7, <1>8, <1>9, <1>10, <1>11,
            <1>12, <1>13, <1>14, <1>15, <1>16, <1>17, <1>18, <1>19, <1>20,
            <1>21, <1>22, <1>23, <1>24, <1>25, <1>26, <1>27, <1>28, <1>29,
            <1>30, <1>31, <1>32, <1>33
         DEF Next, Facade

\* Every step keeps the journal open until the Terminal is submitted.
LEMMA JournalsStep ==
  ASSUME Types, Control, Journals, Batches, [Next]_vars
  PROVE  Journals'
<1>1. ASSUME NEW s \in UNION {Scripts[i] : i \in DOMAIN Scripts}, Open(s)
      PROVE  Journals'
  <2>1. (journal' = <<Started>> /\ at' = "started") \/ at' = "rest"
    BY <1>1 DEF Open, Return
  <2>2. journal' = <<Started>> => journal' # <<>> /\ ~Closing'
    BY Vocabulary DEF Closing
  <2> QED  BY <2>1, <2>2 DEF Journals, Early, Submission
<1>2. CASE JournalFull
  BY <1>2, GiveUpFacts
     DEF JournalFull, Journals, Early, Submission, Closing, Control, Late,
         AtWork
<1>3. CASE AppendTerminal
  <2>1. drive \in Outcomes /\ spent \in Nat
    BY <1>3 DEF AppendTerminal, Types, ContextTypes, ChargeTypes, Control, Late
  <2>2. Terminal(drive, spent).outcome = drive
    BY <2>1, Vocabulary
  <2> QED  BY <1>3, <2>1, <2>2, CloseFacts
              DEF AppendTerminal, Journals, Control, Late, Early, Submission
<1>4. CASE Ack
  BY <1>4, DeliveredFacts, ResumedType
     DEF Ack, Journals, Types, Early, Submission, Closing, Control, Late,
         AtWork
<1>5. CASE Refuse
  BY <1>5, GiveUpFacts
     DEF Refuse, Submitted, Journals, Early, Submission, Closing, Control,
         Late, AtWork
<1>6. CASE Resume
  BY <1>6, DeliveredFacts, ResumedType
     DEF Resume, Journals, Types, Early, Submission, Closing, Control, Late,
         AtWork
<1>7. CASE WaitedTooLong
  BY <1>7, GiveUpFacts
     DEF WaitedTooLong, Journals, Early, Submission, Closing, Control, Late,
         AtWork
<1> USE DEF Journals, Early, Submission, Closing, Control, Late, AtWork, vars,
            state, program, charges, yields, stream, delivery, waiting
<1>8. CASE TurnAway  BY <1>8 DEF TurnAway, Begins, Outcome
<1>9. CASE FailPrecondition
  BY <1>9 DEF FailPrecondition, Begins, Return, Outcome
<1>10. CASE StartedAck  BY <1>10 DEF StartedAck
<1>11. CASE StartedRefused  BY <1>11, CloseFacts DEF StartedRefused, Outcomes
<1>12. CASE LastWord  BY <1>12 DEF LastWord, Return, AuditFailed, Outcome
<1>13. CASE Install  BY <1>13 DEF Install, NoYield, Yield
<1>14. CASE LinkFails  BY <1>14 DEF LinkFails, NoteCharge
<1>15. CASE Link  BY <1>15 DEF Link, NoteCharge
<1>16. CASE ResumeSlice
  BY <1>16 DEF ResumeSlice, Push, NoYield, Yield, Resumed
<1>17. CASE Finish  BY <1>17 DEF Finish, AtBoundary, EndSlice, FinalizeSession
<1>18. CASE StopSlice
  BY <1>18 DEF StopSlice, AtBoundary, EndSlice, FinalizeSession
<1>19. CASE YieldSlice
  BY <1>19 DEF YieldSlice, AtBoundary, RecordYield, Push, Drain
<1>20. CASE Work  BY <1>20 DEF Work, Executes, AtBoundary, NoteCharge
<1>21. CASE Call  BY <1>21 DEF Call, Executes, AtBoundary, NoteCharge, Push
<1>22. CASE EndScript
  BY <1>22 DEF EndScript, Executes, AtBoundary, EndSlice, FinalizeSession
<1>23. CASE Panic  BY <1>23 DEF Panic, Executes, AtBoundary, Unwind
<1>24. CASE Flush  BY <1>24, FlushFacts DEF Flush
<1>25. CASE AppendEvent  BY <1>25, AppendEventFacts DEF AppendEvent
<1>26. CASE Wait  BY <1>26 DEF Wait, RecordYield, Push, Drain
<1>27. CASE Resend  BY <1>27 DEF Resend
<1>28. CASE StillPending  BY <1>28 DEF StillPending
<1>29. CASE SinkPanics  BY <1>29 DEF SinkPanics, Unwind, Submitted
<1>30. CASE SinkEscapes  BY <1>30 DEF SinkEscapes, Submitted
<1>31. ASSUME NEW answer \in {"acked", "refused"}, Complete(answer)
      PROVE  Journals'
  BY <1>31 DEF Complete
<1>32. ASSUME NEW why \in {"Cancelled", "DeadlineExceeded"}, Stop(why)
      PROVE  Journals'
  BY <1>32 DEF Stop
<1>33. CASE UNCHANGED vars  BY <1>33
<1> QED  BY <1>1, <1>2, <1>3, <1>4, <1>5, <1>6, <1>7, <1>8, <1>9, <1>10, <1>11,
            <1>12, <1>13, <1>14, <1>15, <1>16, <1>17, <1>18, <1>19, <1>20,
            <1>21, <1>22, <1>23, <1>24, <1>25, <1>26, <1>27, <1>28, <1>29,
            <1>30, <1>31, <1>32, <1>33
         DEF Next, Facade

\* The tail of a sequence is empty when the sequence has one element.
LEMMA LastOne ==
  ASSUME NEW S, NEW s \in Seq(S), s # <<>>
  PROVE  /\ Len(s) = 1 => Tail(s) = <<>>
         /\ Len(s) # 1 => Tail(s) # <<>>
<1>1. Len(s) \in Nat \ {0}
  OBVIOUS
<1>2. Tail(s) \in Seq(S) /\ Len(Tail(s)) = Len(s) - 1
  BY HeadTailProperties
<1> DEFINE t == Tail(s)
<1>3. t \in Seq(S) /\ Len(t) = Len(s) - 1
  BY <1>2
<1> HIDE DEF t
<1>4. Len(t) = 0 <=> t = <<>>
  BY <1>3, EmptySeq, Zenon
<1>5. Len(s) = 1 => t = <<>>
  BY <1>3, <1>4
<1>6. Len(s) # 1 => t # <<>>
  BY <1>1, <1>3, <1>4
<1> QED  BY <1>5, <1>6 DEF t

\* A delivery takes the event from the batch, and the last one ends it.
LEMMA DeliveredBatches ==
  ASSUME NEW resumed \in Seq(Normal), Delivered(resumed), Types, Control,
         Journals, Batches, at \in Submission
  PROVE  Batches'
<1>1. CASE Closing
  <2>1. at' = "rest" /\ batch' = batch
    BY <1>1, DeliveredFacts
  <2> QED  BY <1>1, <2>1 DEF Batches, InFlight, Submission
<1>2. CASE ~Closing
  <2>1. batch # <<>> /\ batch \in Seq(Normal)
    BY <1>2 DEF Batches, InFlight, Submission, Types, StreamTypes
  <2>2. /\ at' = IF Len(batch) = 1 THEN "flush" ELSE "append"
        /\ batch' = Tail(batch)
    BY <1>2, DeliveredFacts
  <2> QED  BY <2>1, <2>2, LastOne DEF Batches, InFlight
<1> QED  BY <1>1, <1>2

\* Every step keeps a batch while events of it are to be delivered.
LEMMA BatchesStep ==
  ASSUME Types, Control, Journals, Batches, [Next]_vars
  PROVE  Batches'
<1>1. CASE JournalFull
  BY <1>1, GiveUpFacts
     DEF JournalFull, Batches, Control, Late, InFlight, Submission, Closing
<1>2. CASE AppendTerminal
  <2>1. drive \in Outcomes /\ spent \in Nat
    BY <1>2 DEF AppendTerminal, Types, ContextTypes, ChargeTypes, Control, Late
  <2> QED  BY <1>2, <2>1, CloseFacts DEF AppendTerminal, Batches, InFlight
<1>3. CASE Ack
  <2>1. Delivered(<<>>) /\ <<>> \in Seq(Normal) /\ at \in Submission
    BY <1>3, ResumedType DEF Ack, Submission
  <2> QED  BY <2>1, DeliveredBatches
<1>4. CASE Refuse
  BY <1>4, GiveUpFacts
     DEF Refuse, Submitted, Batches, Control, Late, InFlight, Submission,
         Closing
<1>5. CASE Resume
  <2>1. /\ Delivered(<<Resumed(last_yield)>>)
        /\ <<Resumed(last_yield)>> \in Seq(Normal) /\ at \in Submission
    BY <1>5, ResumedType DEF Resume, Submission
  <2> QED  BY <2>1, DeliveredBatches
<1>6. CASE WaitedTooLong
  BY <1>6, GiveUpFacts
     DEF WaitedTooLong, Batches, Control, Late, InFlight, Submission, Closing
<1> USE DEF Batches, Journals, InFlight, Submission, Closing, vars, state,
            program, charges, yields, stream, delivery, waiting
<1>7. CASE TurnAway  BY <1>7 DEF TurnAway, Begins, Outcome
<1>8. CASE FailPrecondition
  BY <1>8 DEF FailPrecondition, Begins, Return, Outcome
<1>9. ASSUME NEW s \in UNION {Scripts[i] : i \in DOMAIN Scripts}, Open(s)
      PROVE  Batches'
  BY <1>9 DEF Open, Begins, Return, AuditFailed, Started
<1>10. CASE StartedAck  BY <1>10 DEF StartedAck
<1>11. CASE StartedRefused  BY <1>11 DEF StartedRefused, Close
<1>12. CASE LastWord  BY <1>12 DEF LastWord, Return, AuditFailed, Outcome
<1>13. CASE Install  BY <1>13 DEF Install, NoYield, Yield
<1>14. CASE LinkFails  BY <1>14 DEF LinkFails, NoteCharge
<1>15. CASE Link  BY <1>15 DEF Link, NoteCharge
<1>16. CASE ResumeSlice
  BY <1>16 DEF ResumeSlice, Push, NoYield, Yield, Resumed
<1>17. CASE Finish  BY <1>17 DEF Finish, AtBoundary, EndSlice, FinalizeSession
<1>18. CASE StopSlice
  BY <1>18 DEF StopSlice, AtBoundary, EndSlice, FinalizeSession
<1>19. CASE YieldSlice
  BY <1>19 DEF YieldSlice, AtBoundary, RecordYield, Push, Drain
<1>20. CASE Work  BY <1>20 DEF Work, Executes, AtBoundary, NoteCharge
<1>21. CASE Call  BY <1>21 DEF Call, Executes, AtBoundary, NoteCharge, Push
<1>22. CASE EndScript
  BY <1>22 DEF EndScript, Executes, AtBoundary, EndSlice, FinalizeSession
<1>23. CASE Panic  BY <1>23 DEF Panic, Executes, AtBoundary, Unwind
<1>24. CASE Flush  BY <1>24, FlushFacts
<1>25. CASE AppendEvent  BY <1>25, AppendEventFacts DEF AppendEvent
<1>26. CASE Wait  BY <1>26 DEF Wait, RecordYield, Push, Drain
<1>27. CASE Resend  BY <1>27 DEF Resend
<1>28. CASE StillPending  BY <1>28 DEF StillPending
<1>29. CASE SinkPanics  BY <1>29 DEF SinkPanics, Unwind, Submitted
<1>30. CASE SinkEscapes  BY <1>30 DEF SinkEscapes, Submitted
<1>31. ASSUME NEW answer \in {"acked", "refused"}, Complete(answer)
      PROVE  Batches'
  BY <1>31 DEF Complete
<1>32. ASSUME NEW why \in {"Cancelled", "DeadlineExceeded"}, Stop(why)
      PROVE  Batches'
  BY <1>32 DEF Stop
<1>33. CASE UNCHANGED vars  BY <1>33
<1> QED  BY <1>1, <1>2, <1>3, <1>4, <1>5, <1>6, <1>7, <1>8, <1>9, <1>10, <1>11,
            <1>12, <1>13, <1>14, <1>15, <1>16, <1>17, <1>18, <1>19, <1>20,
            <1>21, <1>22, <1>23, <1>24, <1>25, <1>26, <1>27, <1>28, <1>29,
            <1>30, <1>31, <1>32, <1>33
         DEF Next, Facade

\* Every step keeps the course of the facade.
LEMMA CourseStep ==
  ASSUME Course, [Next]_vars
  PROVE  Course'
<1>1. Types'
  BY FlagTypesStep, ContextTypesStep, ReplyTypesStep, ChargeTypesStep,
     YieldTypesStep, StreamTypesStep DEF Course, Types
<1> QED  BY <1>1, ControlStep, JournalsStep, BatchesStep DEF Course

\* A delivery adds the last sequence of the journal to what the sink has.
LEMMA DeliveredAcknowledged ==
  ASSUME NEW resumed \in Seq(Normal), Delivered(resumed), Course,
         Acknowledged, at \in Submission
  PROVE  Acknowledged'
<1>1. journal \in Seq(Event) /\ Len(journal) \in Nat
  BY DEF Course, Types, StreamTypes
<1>2. 0 \in sunk /\ sunk' = sunk \union {Len(journal) - 1} /\ journal' = journal
        /\ drive' = drive
  BY DEF Delivered, Acknowledged, Submission, program, Course
<1>3. CASE Closing
  <2>1. at' = "rest"
    BY <1>3, DeliveredFacts DEF Course
  <2> QED  BY <2>1 DEF Acknowledged, InRun
<1>4. CASE ~Closing
  <2>1. at' \in {"flush", "append"}
    BY <1>4, DeliveredFacts DEF Course
  <2>2. ASSUME InRun'
        PROVE  sunk' = 0..(Len(journal') - 1)
    <3>1. InRun /\ sunk = 0..(Len(journal) - 2)
      BY <1>2, <2>2 DEF InRun, Acknowledged, Submission
    <3>2. Len(journal) - 2 \in Nat
      BY <1>1, <1>2, <3>1
    <3>3. 0..(Len(journal) - 1)
            = 0..(Len(journal) - 2) \union {Len(journal) - 1}
      BY <1>1, <3>2
    <3> QED  BY <1>2, <3>1, <3>3
  <2> QED  BY <1>2, <2>1, <2>2 DEF Acknowledged, Submission
<1> QED  BY <1>3, <1>4

\* Every step keeps the sink behind the journal by the event in flight.
LEMMA AcknowledgedStep ==
  ASSUME Course, Acknowledged, [Next]_vars
  PROVE  Acknowledged'
<1>1. ASSUME NEW s \in UNION {Scripts[i] : i \in DOMAIN Scripts}, Open(s)
      PROVE  Acknowledged'
  <2>1. sunk' = {} /\ at' \in {"rest", "started"}
    BY <1>1 DEF Open, Return
  <2> QED  BY <2>1 DEF Acknowledged, InRun, Submission
<1>2. CASE Install
  <2>1. /\ journal = <<Started>> /\ journal' = journal /\ sunk = {0}
        /\ sunk' = sunk
    BY <1>2 DEF Install, delivery, Course, Journals, Early, Acknowledged
  <2>2. sunk' = 0..(Len(journal') - 1)
    BY <2>1
  <2> QED  BY <1>2, <2>1, <2>2 DEF Install, Acknowledged, Submission
<1>3. CASE AppendEvent
  <2>1. Len(journal) \in Nat
    BY DEF Course, Types, StreamTypes
  <2> QED  BY <1>3, <2>1, AppendEventFacts
              DEF AppendEvent, Acknowledged, InRun, Submission, Course,
                  Control, Early, Late, AtWork
<1>4. CASE JournalFull
  BY <1>4, GiveUpFacts
     DEF JournalFull, Course, Control, Late, Acknowledged, InRun, Submission
<1>5. CASE AppendTerminal
  <2>1. drive \in Outcomes /\ spent \in Nat
    BY <1>5
       DEF AppendTerminal, Course, Types, ContextTypes, ChargeTypes, Control,
           Late
  <2>2. Len(journal) \in Nat
    BY DEF Course, Types, StreamTypes
  <2> QED  BY <1>5, <2>1, <2>2, CloseFacts
              DEF AppendTerminal, Acknowledged, InRun, Submission, Course,
                  Control, Early, Late, AtWork
<1>6. CASE Ack
  <2>1. Delivered(<<>>) /\ <<>> \in Seq(Normal) /\ at \in Submission
    BY <1>6, ResumedType DEF Ack, Submission, Course
  <2> QED  BY <2>1, DeliveredAcknowledged
<1>7. CASE Refuse
  BY <1>7, GiveUpFacts
     DEF Refuse, Submitted, Course, Control, Late, Acknowledged, InRun,
         Submission
<1>8. CASE Resume
  <2>1. /\ Delivered(<<Resumed(last_yield)>>)
        /\ <<Resumed(last_yield)>> \in Seq(Normal) /\ at \in Submission
    BY <1>8, ResumedType DEF Resume, Submission, Course
  <2> QED  BY <2>1, DeliveredAcknowledged
<1>9. CASE WaitedTooLong
  BY <1>9, GiveUpFacts
     DEF WaitedTooLong, Course, Control, Late, Acknowledged, InRun, Submission
<1> USE DEF Acknowledged, InRun, Submission, Journals, Started, Course,
            Control, Early, Late, AtWork, vars, state, program, charges,
            yields, stream, delivery, waiting
<1>10. CASE TurnAway  BY <1>10 DEF TurnAway, Begins, Outcome
<1>11. CASE FailPrecondition
  BY <1>11 DEF FailPrecondition, Begins, Return, Outcome
<1>12. CASE StartedAck  BY <1>12 DEF StartedAck
<1>13. CASE StartedRefused  BY <1>13, CloseFacts DEF StartedRefused, Outcomes
<1>14. CASE LastWord  BY <1>14 DEF LastWord, Return, AuditFailed, Outcome
<1>15. CASE LinkFails  BY <1>15 DEF LinkFails, NoteCharge
<1>16. CASE Link  BY <1>16 DEF Link, NoteCharge
<1>17. CASE ResumeSlice
  BY <1>17 DEF ResumeSlice, Push, NoYield, Yield, Resumed
<1>18. CASE Finish  BY <1>18 DEF Finish, AtBoundary, EndSlice, FinalizeSession
<1>19. CASE StopSlice
  BY <1>19 DEF StopSlice, AtBoundary, EndSlice, FinalizeSession
<1>20. CASE YieldSlice
  BY <1>20 DEF YieldSlice, AtBoundary, RecordYield, Push, Drain
<1>21. CASE Work  BY <1>21 DEF Work, Executes, AtBoundary, NoteCharge
<1>22. CASE Call  BY <1>22 DEF Call, Executes, AtBoundary, NoteCharge, Push
<1>23. CASE EndScript
  BY <1>23 DEF EndScript, Executes, AtBoundary, EndSlice, FinalizeSession
<1>24. CASE Panic  BY <1>24 DEF Panic, Executes, AtBoundary, Unwind
<1>25. CASE Flush  BY <1>25, FlushFacts DEF Flush
<1>26. CASE Wait  BY <1>26 DEF Wait, RecordYield, Push, Drain
<1>27. CASE Resend  BY <1>27 DEF Resend
<1>28. CASE StillPending  BY <1>28 DEF StillPending
<1>29. CASE SinkPanics  BY <1>29 DEF SinkPanics, Unwind, Submitted
<1>30. CASE SinkEscapes  BY <1>30 DEF SinkEscapes, Submitted
<1>31. ASSUME NEW answer \in {"acked", "refused"}, Complete(answer)
      PROVE  Acknowledged'
  BY <1>31 DEF Complete
<1>32. ASSUME NEW why \in {"Cancelled", "DeadlineExceeded"}, Stop(why)
      PROVE  Acknowledged'
  BY <1>32 DEF Stop
<1>33. CASE UNCHANGED vars  BY <1>33
<1> QED  BY <1>1, <1>2, <1>3, <1>4, <1>5, <1>6, <1>7, <1>8, <1>9, <1>10, <1>11,
            <1>12, <1>13, <1>14, <1>15, <1>16, <1>17, <1>18, <1>19, <1>20,
            <1>21, <1>22, <1>23, <1>24, <1>25, <1>26, <1>27, <1>28, <1>29,
            <1>30, <1>31, <1>32, <1>33
         DEF Next, Facade

\* Every step keeps the language state and the session in step with the run.
LEMMA AccountsStep ==
  ASSUME Course, Accounts, ReportsAreTrue, [Next]_vars
  PROVE  Accounts'
<1>1. CASE JournalFull
  BY <1>1, GiveUpFacts
     DEF JournalFull, Accounts, Early, Late, AtWork, Course, Control
<1>2. CASE Ack
  BY <1>2, DeliveredFacts, ResumedType
     DEF Ack, Submission, program, Accounts, Early, Late, AtWork, Course,
         Control
<1>3. CASE Refuse
  BY <1>3, GiveUpFacts
     DEF Refuse, Submitted, Accounts, Early, Late, AtWork, Course, Control
<1>4. CASE Resume
  BY <1>4, DeliveredFacts, ResumedType
     DEF Resume, Submission, program, Accounts, Early, Late, AtWork, Course,
         Control
<1>5. CASE WaitedTooLong
  BY <1>5, GiveUpFacts
     DEF WaitedTooLong, Accounts, Early, Late, AtWork, Course, Control
<1> USE DEF Accounts, Early, Late, AtWork, Course, Control, Types, FlagTypes,
            ContextTypes, Outcomes, Successes, vars, state, program, charges,
            yields, stream, delivery, waiting
<1>6. CASE TurnAway  BY <1>6 DEF TurnAway, Begins, Outcome
<1>7. CASE FailPrecondition
  BY <1>7 DEF FailPrecondition, Begins, Return, Outcome
<1>8. ASSUME NEW s \in UNION {Scripts[i] : i \in DOMAIN Scripts}, Open(s)
      PROVE  Accounts'
  BY <1>8 DEF Open, Begins, Return, ReportsAreTrue, RestsClean, AuditFailed
<1>9. CASE StartedAck  BY <1>9 DEF StartedAck
<1>10. CASE StartedRefused  BY <1>10 DEF StartedRefused, Close
<1>11. CASE LastWord  BY <1>11 DEF LastWord, Return, AuditFailed, Outcome
<1>12. CASE Install  BY <1>12 DEF Install, NoYield, Yield
<1>13. CASE LinkFails  BY <1>13 DEF LinkFails, NoteCharge
<1>14. CASE Link  BY <1>14 DEF Link, NoteCharge
<1>15. CASE ResumeSlice
  BY <1>15 DEF ResumeSlice, Push, NoYield, Yield, Resumed
<1>16. CASE Finish  BY <1>16 DEF Finish, AtBoundary, EndSlice, FinalizeSession
<1>17. CASE StopSlice
  BY <1>17 DEF StopSlice, AtBoundary, EndSlice, FinalizeSession
<1>18. CASE YieldSlice
  BY <1>18 DEF YieldSlice, AtBoundary, RecordYield, Push, Drain
<1>19. CASE Work  BY <1>19 DEF Work, Executes, AtBoundary, NoteCharge
<1>20. CASE Call  BY <1>20 DEF Call, Executes, AtBoundary, NoteCharge, Push
<1>21. CASE EndScript
  BY <1>21 DEF EndScript, Executes, AtBoundary, EndSlice, FinalizeSession
<1>22. CASE Panic  BY <1>22 DEF Panic, Executes, AtBoundary, Unwind
<1>23. CASE Flush  BY <1>23 DEF Flush, Drain
<1>24. CASE AppendEvent  BY <1>24 DEF AppendEvent
<1>25. CASE AppendTerminal  BY <1>25 DEF AppendTerminal, Close
<1>26. CASE Wait  BY <1>26 DEF Wait, RecordYield, Push, Drain
<1>27. CASE Resend  BY <1>27 DEF Resend
<1>28. CASE StillPending  BY <1>28 DEF StillPending
<1>29. CASE SinkPanics  BY <1>29 DEF SinkPanics, Unwind, Submitted
<1>30. CASE SinkEscapes  BY <1>30 DEF SinkEscapes, Submitted
<1>31. ASSUME NEW answer \in {"acked", "refused"}, Complete(answer)
      PROVE  Accounts'
  BY <1>31 DEF Complete
<1>32. ASSUME NEW why \in {"Cancelled", "DeadlineExceeded"}, Stop(why)
      PROVE  Accounts'
  BY <1>32 DEF Stop
<1>33. CASE UNCHANGED vars  BY <1>33
<1> QED  BY <1>1, <1>2, <1>3, <1>4, <1>5, <1>6, <1>7, <1>8, <1>9, <1>10, <1>11,
            <1>12, <1>13, <1>14, <1>15, <1>16, <1>17, <1>18, <1>19, <1>20,
            <1>21, <1>22, <1>23, <1>24, <1>25, <1>26, <1>27, <1>28, <1>29,
            <1>30, <1>31, <1>32, <1>33
         DEF Next, Facade

\* Inside a run the last report is about a run that is over.
LEMMA ReportsAwayFromRest ==
  ASSUME Course, Accounts, Acknowledged, at # "rest"
  PROVE  ReportsAreTrue
<1>1. at \in Early \union Late \/ AtWork
  BY DEF Course, Types, ContextTypes, Places, Early, Late, AtWork
<1>2. session \in BOOLEAN /\ torn \in BOOLEAN
  BY DEF Course, Types, FlagTypes
<1>3. effects # before \/ (session /\ ~torn) => 0 \in sunk
  BY <1>1, <1>2 DEF Accounts, Acknowledged, Early, Late, AtWork
<1> QED  BY <1>3 DEF ReportsAreTrue, AuditedReports, RestsClean

\* A failed audit is reported as the sink and the context stand.
LEMMA GiveUpReports ==
  ASSUME NEW f \in {"Sink", "BudgetExceeded", "BackpressureDeadline"},
         GiveUp(f), Course, Accounts, Acknowledged, ReportsAreTrue, at \in Late
  PROVE  ReportsAreTrue'
<1>1. drive # "none" /\ Types /\ session \in BOOLEAN /\ torn \in BOOLEAN
  BY DEF Course, Control, Late, Types, FlagTypes
<1>2. /\ at' = "rest" /\ UNCHANGED <<before, torn, worked, sunk>>
      /\ drive = "Yielded" => /\ reply' = AuditFailed("Cancelled", f)
                              /\ ~session' /\ effects' = before
      /\ drive # "Yielded" => /\ reply' = AuditFailed(drive, f)
                              /\ session' = session /\ effects' = effects
  BY <1>1, GiveUpFacts DEF program
<1>3. 0 \in sunk
  BY DEF Acknowledged, Late
<1>4. AuditedReports'
  BY <1>2, <1>3 DEF AuditedReports, AuditFailed
<1>5. before \in Nat /\ worked \in Nat
  BY DEF Course, Types, ContextTypes
<1>6. RestsClean'
  <2>1. CASE drive = "Yielded"
    BY <1>2, <1>5, <2>1 DEF RestsClean, AuditFailed, Successes
  <2>2. CASE drive # "Yielded"
    <3>1. session => torn
      BY <2>2 DEF Accounts
    <3>2. drive # "InternalFailure" =>
            effects = before + (IF drive \in Successes THEN worked ELSE 0)
      BY <2>2 DEF Accounts
    <3> QED  BY <1>2, <2>2, <3>1, <3>2 DEF RestsClean, AuditFailed
  <2> QED  BY <2>1, <2>2
<1> QED  BY <1>4, <1>6 DEF ReportsAreTrue

\* An outcome is reported when its Terminal is delivered.
LEMMA DeliveredReports ==
  ASSUME NEW resumed \in Seq(Normal), Delivered(resumed), Course, Accounts,
         Acknowledged, at \in Submission, Closing
  PROVE  ReportsAreTrue'
<1>1. Types /\ Control /\ Journals /\ Batches /\ session \in BOOLEAN
        /\ torn \in BOOLEAN /\ Len(journal) \in Nat
  BY DEF Course, Types, FlagTypes, StreamTypes
<1>2. /\ at' = "rest" /\ reply' = Outcome(drive)
      /\ poisoned' <=> drive = "InternalFailure"
      /\ UNCHANGED <<session, effects, before, torn, worked, journal, drive>>
  BY <1>1, DeliveredFacts DEF program
<1>3. /\ drive # "Yielded" /\ drive # "none"
      /\ journal[Len(journal)].outcome = drive
  BY <1>1 DEF Journals, Control, Submission, Late
<1>4. 0 \in sunk /\ sunk' = sunk \union {Len(journal) - 1}
  BY DEF Acknowledged, Submission, Delivered
<1>5. (session => torn)
        /\ (drive # "InternalFailure" =>
              effects = before + (IF drive \in Successes THEN worked ELSE 0))
  BY <1>3 DEF Accounts, Late, Submission
<1>6. ASSUME drive # "InternalFailure"
      PROVE  sunk' = 0..(Len(journal') - 1)
  <2>1. sunk = 0..(Len(journal) - 2)
    BY <1>6 DEF Acknowledged, InRun, Submission
  <2>2. Len(journal) - 2 \in Nat
    BY <1>1, <1>4, <2>1
  <2>3. 0..(Len(journal) - 1) = 0..(Len(journal) - 2) \union {Len(journal) - 1}
    BY <1>1, <2>2
  <2> QED  BY <1>2, <1>4, <2>1, <2>3
<1>7. AuditedReports'
  BY <1>2, <1>3, <1>4, <1>6 DEF AuditedReports, Outcome, Closing
<1>8. RestsClean'
  BY <1>2, <1>3, <1>5 DEF RestsClean, Outcome
<1> QED  BY <1>7, <1>8 DEF ReportsAreTrue

\* Every step keeps the reports true.
LEMMA ReportsStep ==
  ASSUME Course, Accounts, Acknowledged, ReportsAreTrue, [Next]_vars
  PROVE  ReportsAreTrue'
<1>1. CASE at' # "rest"
  <2>1. Course' /\ Accounts' /\ Acknowledged'
    BY CourseStep, AccountsStep, AcknowledgedStep
  <2>2. (Course /\ Accounts /\ Acknowledged /\ at # "rest" => ReportsAreTrue)'
    BY ReportsAwayFromRest, PTL
  <2> QED  BY <1>1, <2>1, <2>2
<1>2. CASE at' = "rest"
  <2>1. CASE TurnAway
    BY <1>2, <2>1 DEF TurnAway, Begins, ReportsAreTrue, AuditedReports,
       RestsClean, program, delivery
  <2>2. CASE FailPrecondition
    <3>1. /\ poisoned' = (Outcome("InternalFailure")
                            = Outcome("InternalFailure"))
          /\ UNCHANGED <<session, effects, before, torn, sunk>>
      BY <2>2 DEF FailPrecondition, Return, delivery
    <3> QED  BY <3>1 DEF ReportsAreTrue, AuditedReports, RestsClean
  <2>3. ASSUME NEW s \in UNION {Scripts[i] : i \in DOMAIN Scripts}, Open(s)
        PROVE  ReportsAreTrue'
    <3>1. /\ at = "rest" /\ ~poisoned /\ ~running
          /\ effects' = effects /\ before' = effects
          /\ session' = session /\ torn' = torn /\ sunk' = {}
      BY <2>3 DEF Open, Begins
    <3>2. reply' = AuditFailed("InternalFailure", "BudgetExceeded")
      BY <1>2, <2>3 DEF Open, Return
    <3>3. session => torn
      BY <3>1 DEF ReportsAreTrue, RestsClean
    <3> QED  BY <3>1, <3>2, <3>3
             DEF ReportsAreTrue, AuditedReports, RestsClean, AuditFailed
  <2>4. CASE LastWord
    <3>1. /\ at = "lastword" /\ reply' = AuditFailed("AuditFailure", "Sink")
          /\ UNCHANGED <<session, effects, before, torn>>
      BY <2>4 DEF LastWord, Return
    <3>2. effects = before /\ (session => torn) /\ before \in Nat
      BY <3>1 DEF Accounts, Early, Course, Types, ContextTypes
    <3> QED  BY <3>1, <3>2 DEF ReportsAreTrue, AuditedReports, RestsClean,
             AuditFailed, Successes
  <2>5. CASE JournalFull \/ Refuse \/ WaitedTooLong
    <3>1. PICK f \in {"Sink", "BudgetExceeded", "BackpressureDeadline"} :
            GiveUp(f) /\ at \in Late
      BY <2>5 DEF JournalFull, Refuse, WaitedTooLong, Submitted, Late
    <3> QED  BY <3>1, GiveUpReports
  <2>6. CASE Ack \/ Resume
    <3>1. PICK resumed \in Seq(Normal) : Delivered(resumed) /\ at \in Submission
      BY <2>6, ResumedType DEF Ack, Resume, Submission, Course
    <3>2. Closing
      BY <1>2, <3>1, DeliveredFacts DEF Course
    <3> QED  BY <3>1, <3>2, DeliveredReports
  <2>7. CASE SinkEscapes
    <3>1. /\ at # "rest" /\ reply'.kind = "Panic"
          /\ UNCHANGED <<running, session, effects, before, torn, sunk>>
      BY <2>7 DEF SinkEscapes, Submitted, delivery
    <3>2. running' /\ (effects # before \/ (session /\ ~torn) => 0 \in sunk)
      BY <3>1, ReportsAwayFromRest
         DEF Course, Control, ReportsAreTrue, AuditedReports
    <3> QED  BY <3>1, <3>2 DEF ReportsAreTrue, AuditedReports, RestsClean
  <2>8. CASE UNCHANGED vars
    BY <2>8 DEF vars, state, program, delivery, ReportsAreTrue,
       AuditedReports, RestsClean
  <2>9. ASSUME NEW answer \in {"acked", "refused"}, Complete(answer)
        PROVE  FALSE
    BY <1>2, <2>9 DEF Complete
  <2>10. ASSUME NEW why \in {"Cancelled", "DeadlineExceeded"}, Stop(why)
         PROVE  FALSE
    BY <1>2, <2>10 DEF Stop
  <2>11. CASE StartedAck \/ StartedRefused \/ Install \/ LinkFails \/ Link
              \/ ResumeSlice \/ Finish \/ StopSlice \/ YieldSlice
    BY <1>2, <2>11 DEF StartedAck, StartedRefused, Install, LinkFails, Link,
       ResumeSlice, Finish, StopSlice, YieldSlice, EndSlice
  <2>12. CASE Work \/ Call \/ EndScript \/ Panic \/ Flush \/ AppendEvent
              \/ AppendTerminal
    BY <1>2, <2>12 DEF Work, Call, EndScript, Panic, Unwind, EndSlice,
       Executes, AtBoundary, Flush, AppendEvent, AppendTerminal
  <2>13. CASE Wait \/ Resend \/ StillPending \/ SinkPanics
    BY <1>2, <2>13 DEF Wait, Resend, StillPending, SinkPanics, Unwind
  <2> QED  BY <2>1, <2>2, <2>3, <2>4, <2>5, <2>6, <2>7, <2>8, <2>9, <2>10,
           <2>11, <2>12, <2>13 DEF Next, Facade
<1> QED  BY <1>1, <1>2

----------------------------------------------------------------------------
\* The reports.

\* The first layer holds of a fresh context.
LEMMA InitReportInv ==
  ASSUME Init
  PROVE  ReportInv
<1>1. FlagTypes /\ ChargeTypes /\ YieldTypes
  <2>1. FlagTypes
    BY DEF Init, FlagTypes
  <2>2. ChargeTypes
    BY ConstantsTypes DEF Init, ChargeTypes
  <2>3. YieldTypes
    BY DEF Init, YieldTypes, NoYield, Yield
  <2> QED  BY <2>1, <2>2, <2>3
<1>2. ContextTypes
  BY ConstantsTypes DEF Init, ContextTypes, Places
<1>3. ReplyTypes
  BY DEF Init, ReplyTypes, NoReply
<1>4. StreamTypes
  BY DEF Init, StreamTypes
<1>5. Control /\ Journals /\ Batches /\ Accounts /\ Acknowledged
  BY DEF Init, Control, Journals, Batches, Accounts, Acknowledged, InRun,
     InFlight, Early, Late, AtWork, Submission
<1>6. ReportsAreTrue
  BY DEF Init, ReportsAreTrue, AuditedReports, RestsClean, NoReply
<1> QED  BY <1>1, <1>2, <1>3, <1>4, <1>5, <1>6 DEF ReportInv, Course, Types

\* Every step keeps the first layer.
LEMMA ReportInvStep == ReportInv /\ [Next]_vars => ReportInv'
BY CourseStep, AccountsStep, AcknowledgedStep, ReportsStep DEF ReportInv

(***************************************************************************)
(* The first layer holds of every context under an audit sink.             *)
(***************************************************************************)
THEOREM ReportInvHolds == Spec => []ReportInv
BY InitReportInv, ReportInvStep, PTL DEF Spec

(***************************************************************************)
(* What a run reports is what the sink knows and what the context keeps: an *)
(* outcome is reported only when its Terminal is acknowledged, and effects *)
(* are kept exactly when that outcome is a success, whatever the sink, the *)
(* token and the clock do (embedding.rs:2347, 2475).                       *)
(***************************************************************************)
THEOREM ReportsAreTrueHolds == Spec => []ReportsAreTrue
<1>1. ReportInv => ReportsAreTrue
  BY DEF ReportInv
<1> QED  BY <1>1, ReportInvHolds, PTL

----------------------------------------------------------------------------
\* The queue.

\* Where the driver works and where a batch is in flight, a run is going on.
LEMMA Alive ==
  ASSUME Course
  PROVE  /\ at \in {"begin", "slice", "boundary", "flush", "append"} => InRun
         /\ InFlight => InRun
  BY DEF Course, Control, Early, Late, AtWork, InRun, InFlight, Submission

\* Pushed events are counted into the queue.
LEMMA PushQueued ==
  ASSUME NEW events \in Seq(Normal), Push(events), Course, Queued,
         batch' = batch, InRun' => InRun
  PROVE  Queued'
<1>1. /\ audit_events' = audit_events \o events
      /\ audit_queue' = audit_queue + Len(events)
  BY DEF Push
<1>2. audit_events \in Seq(Normal) /\ batch \in Seq(Normal)
  BY DEF Course, Types, StreamTypes
<1>3. Len(audit_events') = Len(audit_events) + Len(events)
        /\ Len(audit_events) \in Nat /\ Len(events) \in Nat
        /\ Len(batch) \in Nat
  BY <1>1, <1>2
<1>4. audit_queue' \in Nat
  BY <1>1, <1>3 DEF Queued
<1>5. InRun' => audit_queue' = Len(audit_events') + Len(batch')
  BY <1>1, <1>3 DEF Queued, QueueIsUnacknowledged
<1> QED  BY <1>4, <1>5 DEF Queued, QueueIsUnacknowledged

\* A delivered event is counted out of the queue, its Resumed into it.
LEMMA DeliveredQueued ==
  ASSUME NEW resumed \in Seq(Normal), Delivered(resumed), Course, Queued,
         at \in Submission
  PROVE  Queued'
<1>1. /\ audit_events' = audit_events \o resumed
      /\ audit_events \in Seq(Normal) /\ batch \in Seq(Normal)
  BY DEF Delivered, Course, Types, StreamTypes
<1>2. Len(audit_events') = Len(audit_events) + Len(resumed)
        /\ Len(audit_events) \in Nat /\ Len(resumed) \in Nat
  BY <1>1
<1>3. CASE Closing
  <2>1. at' = "rest" /\ audit_queue' = audit_queue + Len(resumed)
    BY <1>3, DeliveredFacts DEF Delivered, Course
  <2> QED  BY <1>2, <2>1 DEF Queued, QueueIsUnacknowledged, InRun
<1>4. CASE ~Closing
  <2>1. InRun /\ batch # <<>>
    BY <1>4 DEF Course, Control, Batches, InFlight, InRun, Submission, Late
  <2>2. audit_queue = Len(audit_events) + Len(batch)
    BY <2>1 DEF Queued, QueueIsUnacknowledged
  <2>3. Len(batch) \in Nat \ {0} /\ Len(Tail(batch)) = Len(batch) - 1
    BY <1>1, <2>1
  <2>4. batch' = Tail(batch) /\ audit_queue' = audit_queue + Len(resumed) - 1
    BY <1>4 DEF Delivered
  <2> QED  BY <1>2, <2>2, <2>3, <2>4 DEF Queued, QueueIsUnacknowledged
<1> QED  BY <1>3, <1>4

\* Every step keeps the queue equal to what the sink has not seen.
LEMMA QueuedStep ==
  ASSUME Course, Queued, [Next]_vars
  PROVE  Queued'
<1>1. ASSUME NEW s \in UNION {Scripts[i] : i \in DOMAIN Scripts}, Open(s)
      PROVE  Queued'
  <2>1. at' \in {"rest", "started"} /\ audit_queue' = audit_queue
    BY <1>1 DEF Open, Return, stream
  <2> QED  BY <2>1 DEF Queued, QueueIsUnacknowledged, InRun
<1>2. CASE Install
  <2>1. audit_events' = <<>> /\ audit_queue' = 0 /\ batch' = batch
          /\ batch = <<>>
    BY <1>2 DEF Install, delivery, Course, Batches, InFlight
  <2> QED  BY <2>1 DEF Queued, QueueIsUnacknowledged
<1>3. CASE ResumeSlice
  <2>1. PICK events \in Seq(Normal) : Push(events)
    BY <1>3, ResumedType DEF ResumeSlice, Course
  <2> QED  BY <1>3, <2>1, PushQueued, Alive DEF ResumeSlice, InRun, delivery
<1>4. CASE YieldSlice
  <2>1. PICK events \in Seq(Normal) : Push(events)
    BY <1>4, YieldRecord DEF YieldSlice, RecordYield, Course
  <2> QED  BY <1>4, <2>1, PushQueued, Alive
              DEF YieldSlice, AtBoundary, InRun, delivery
<1>5. CASE Call
  <2>1. PICK events \in Seq(Normal) : Push(events)
    BY <1>5, Vocabulary DEF Call, Course
  <2> QED  BY <1>5, <2>1, PushQueued, Alive
              DEF Call, Executes, AtBoundary, InRun, delivery
<1>6. CASE Flush
  <2>1. /\ batch' = audit_events \o Drained /\ audit_events' = <<>>
        /\ audit_queue' = audit_queue + Len(Drained)
        /\ Drained \in Seq(Normal) /\ audit_events \in Seq(Normal)
    BY <1>6, FlushFacts, DrainedType
       DEF Course, Types, StreamTypes, ChargeTypes
  <2>2. batch = <<>>
    BY <1>6 DEF Flush, Course, Batches, InFlight
  <2>3. InRun
    BY <1>6, Alive DEF Flush
  <2>4. Len(batch') = Len(audit_events) + Len(Drained)
    BY <2>1
  <2> QED  BY <2>1, <2>2, <2>3, <2>4 DEF Queued, QueueIsUnacknowledged
<1>7. CASE JournalFull
  BY <1>7, GiveUpFacts
     DEF JournalFull, stream, Queued, QueueIsUnacknowledged, InRun, Course,
         Types, StreamTypes, Control, Late, Submission
<1>8. CASE Ack
  <2>1. Delivered(<<>>) /\ <<>> \in Seq(Normal) /\ at \in Submission
    BY <1>8, ResumedType DEF Ack, Submission, Course
  <2> QED  BY <2>1, DeliveredQueued
<1>9. CASE Refuse
  BY <1>9, GiveUpFacts
     DEF Refuse, Submitted, stream, Queued, QueueIsUnacknowledged, InRun,
         Course, Types, StreamTypes, Control, Late, Submission
<1>10. CASE Wait
  <2>1. PICK events \in Seq(Normal) : Push(events)
    BY <1>10, YieldRecord DEF Wait, RecordYield, Course
  <2> QED  BY <1>10, <2>1, PushQueued, Alive DEF Wait, InRun, delivery
<1>11. CASE Resume
  <2>1. /\ Delivered(<<Resumed(last_yield)>>)
        /\ <<Resumed(last_yield)>> \in Seq(Normal) /\ at \in Submission
    BY <1>11, ResumedType DEF Resume, Submission, Course
  <2> QED  BY <2>1, DeliveredQueued
<1>12. CASE WaitedTooLong
  BY <1>12, GiveUpFacts
     DEF WaitedTooLong, stream, Queued, QueueIsUnacknowledged, InRun, Course,
         Types, StreamTypes, Control, Late, Submission
<1> USE Alive
        DEF Queued, QueueIsUnacknowledged, InRun, vars, state, program,
            charges, yields, stream, delivery, waiting
<1>13. CASE TurnAway  BY <1>13 DEF TurnAway, Begins, Outcome
<1>14. CASE FailPrecondition
  BY <1>14 DEF FailPrecondition, Begins, Return, Outcome
<1>15. CASE StartedAck  BY <1>15 DEF StartedAck
<1>16. CASE StartedRefused  BY <1>16 DEF StartedRefused, Close
<1>17. CASE LastWord  BY <1>17 DEF LastWord, Return, AuditFailed, Outcome
<1>18. CASE LinkFails  BY <1>18 DEF LinkFails, NoteCharge
<1>19. CASE Link  BY <1>19 DEF Link, NoteCharge
<1>20. CASE Finish  BY <1>20 DEF Finish, AtBoundary, EndSlice, FinalizeSession
<1>21. CASE StopSlice
  BY <1>21 DEF StopSlice, AtBoundary, EndSlice, FinalizeSession
<1>22. CASE Work  BY <1>22 DEF Work, Executes, AtBoundary, NoteCharge
<1>23. CASE EndScript
  BY <1>23 DEF EndScript, Executes, AtBoundary, EndSlice, FinalizeSession
<1>24. CASE Panic  BY <1>24 DEF Panic, Executes, AtBoundary, Unwind
<1>25. CASE AppendEvent  BY <1>25 DEF AppendEvent
<1>26. CASE AppendTerminal  BY <1>26 DEF AppendTerminal
<1>27. CASE Resend  BY <1>27 DEF Resend
<1>28. CASE StillPending  BY <1>28 DEF StillPending
<1>29. CASE SinkPanics  BY <1>29 DEF SinkPanics, Unwind, Submitted
<1>30. CASE SinkEscapes  BY <1>30 DEF SinkEscapes, Submitted
<1>31. ASSUME NEW answer \in {"acked", "refused"}, Complete(answer)
      PROVE  Queued'
  BY <1>31 DEF Complete
<1>32. ASSUME NEW why \in {"Cancelled", "DeadlineExceeded"}, Stop(why)
      PROVE  Queued'
  BY <1>32 DEF Stop
<1>33. CASE UNCHANGED vars  BY <1>33
<1> QED  BY <1>1, <1>2, <1>3, <1>4, <1>5, <1>6, <1>7, <1>8, <1>9, <1>10, <1>11,
            <1>12, <1>13, <1>14, <1>15, <1>16, <1>17, <1>18, <1>19, <1>20,
            <1>21, <1>22, <1>23, <1>24, <1>25, <1>26, <1>27, <1>28, <1>29,
            <1>30, <1>31, <1>32, <1>33
         DEF Next, Facade

----------------------------------------------------------------------------
\* The yields and the charges.

\* Every step keeps each pause with the yield that is open in it.
LEMMA PausesStep ==
  ASSUME Course, Pauses, [Next]_vars
  PROVE  Pauses'
<1>1. CASE Flush
  <2>1. Flush /\ batch' = audit_events \o Drained /\ audit_events' = <<>>
         /\ group' = 0 /\ finalized' = 0 /\ UNCHANGED <<drive, yields, journal>>
         /\ at = "flush" /\ at' \in {"append", "slice", "terminal"}
         /\ (at' = "slice" => drive = "Yielded")
         /\ (at' = "terminal" => drive # "Yielded")
    BY <1>1 DEF Flush, Drain
  <2> QED  BY <2>1
              DEF yields, Pauses, Closed, YieldsInv, InRun, Waits, IsYield,
                  NoYield
<1>2. CASE AppendEvent
  <2>1. ~Closing'
    BY <1>2, AppendEventFacts DEF Course
  <2> QED  BY <1>2, <2>1
              DEF AppendEvent, charges, yields, stream, Pauses, Closed,
                  YieldsInv, InRun, Waits, IsYield, NoYield
<1>3. CASE JournalFull
  BY <1>3, GiveUpFacts
     DEF JournalFull, Course, Control, Early, Late, Submission, AtWork, Pauses,
         Closed, YieldsInv, InRun
<1>4. CASE Ack
  <2>1. Delivered(<<>>) /\ <<>> \in Seq(Normal) /\ at \in Submission
    BY <1>4, ResumedType DEF Ack, Submission, Course
  <2> QED  BY <1>4, <2>1, DeliveredFacts
              DEF Ack, charges, Pauses, Closed, YieldsInv, InRun, Waits,
                  IsYield, NoYield, Course, Control, Early, Late, Submission,
                  AtWork
<1>5. CASE Refuse
  BY <1>5, GiveUpFacts
     DEF Refuse, Submitted, Course, Control, Early, Late, Submission, AtWork,
         Pauses, Closed, YieldsInv, InRun
<1>6. CASE Resume
  <2>1. /\ Delivered(<<Resumed(last_yield)>>)
        /\ <<Resumed(last_yield)>> \in Seq(Normal) /\ at \in Submission
    BY <1>6, ResumedType DEF Resume, Submission, Course
  <2> QED  BY <1>6, <2>1, DeliveredFacts
              DEF Resume, charges, Pauses, Closed, YieldsInv, InRun, Waits,
                  IsYield, NoYield, Course, Control, Early, Late, Submission,
                  AtWork
<1>7. CASE WaitedTooLong
  BY <1>7, GiveUpFacts
     DEF WaitedTooLong, Course, Control, Early, Late, Submission, AtWork,
         Pauses, Closed, YieldsInv, InRun
<1> USE DEF Pauses, Closed, YieldsInv, InRun, Waits, IsYield, NoYield, Types,
            ContextTypes, Course, Control, Early, Late, Submission, AtWork,
            vars, state, program, charges, yields, stream, delivery, waiting
<1>8. CASE TurnAway  BY <1>8 DEF TurnAway, Begins, Outcome
<1>9. CASE FailPrecondition
  BY <1>9 DEF FailPrecondition, Begins, Return, Outcome
<1>10. ASSUME NEW s \in UNION {Scripts[i] : i \in DOMAIN Scripts}, Open(s)
      PROVE  Pauses'
  BY <1>10 DEF Open, Begins, Return, AuditFailed, Started
<1>11. CASE StartedAck  BY <1>11 DEF StartedAck
<1>12. CASE StartedRefused  BY <1>12 DEF StartedRefused, Close
<1>13. CASE LastWord  BY <1>13 DEF LastWord, Return, AuditFailed, Outcome
<1>14. CASE Install  BY <1>14 DEF Install, Yield
<1>15. CASE LinkFails  BY <1>15 DEF LinkFails, NoteCharge
<1>16. CASE Link  BY <1>16 DEF Link, NoteCharge
<1>17. CASE ResumeSlice  BY <1>17 DEF ResumeSlice, Push, Yield, Resumed
<1>18. CASE Finish  BY <1>18 DEF Finish, AtBoundary, EndSlice, FinalizeSession
<1>19. CASE StopSlice
  BY <1>19 DEF StopSlice, AtBoundary, EndSlice, FinalizeSession
<1>20. CASE YieldSlice
  BY <1>20 DEF YieldSlice, AtBoundary, RecordYield, Push, Drain
<1>21. CASE Work  BY <1>21 DEF Work, Executes, AtBoundary, NoteCharge
<1>22. CASE Call  BY <1>22 DEF Call, Executes, AtBoundary, NoteCharge, Push
<1>23. CASE EndScript
  BY <1>23 DEF EndScript, Executes, AtBoundary, EndSlice, FinalizeSession
<1>24. CASE Panic  BY <1>24 DEF Panic, Executes, AtBoundary, Unwind
<1>25. CASE AppendTerminal  BY <1>25 DEF AppendTerminal, Journals
<1>26. CASE Wait  BY <1>26 DEF Wait, RecordYield, Push, Drain
<1>27. CASE Resend  BY <1>27 DEF Resend
<1>28. CASE StillPending  BY <1>28 DEF StillPending
<1>29. CASE SinkPanics  BY <1>29 DEF SinkPanics, Unwind, Submitted
<1>30. CASE SinkEscapes  BY <1>30 DEF SinkEscapes, Submitted
<1>31. ASSUME NEW answer \in {"acked", "refused"}, Complete(answer)
      PROVE  Pauses'
  BY <1>31 DEF Complete
<1>32. ASSUME NEW why \in {"Cancelled", "DeadlineExceeded"}, Stop(why)
      PROVE  Pauses'
  BY <1>32 DEF Stop, Closing
<1>33. CASE UNCHANGED vars  BY <1>33 DEF Closing
<1> QED  BY <1>1, <1>2, <1>3, <1>4, <1>5, <1>6, <1>7, <1>8, <1>9, <1>10, <1>11,
            <1>12, <1>13, <1>14, <1>15, <1>16, <1>17, <1>18, <1>19, <1>20,
            <1>21, <1>22, <1>23, <1>24, <1>25, <1>26, <1>27, <1>28, <1>29,
            <1>30, <1>31, <1>32, <1>33
         DEF Next, Facade

----------------------------------------------------------------------------
\* Reading a stream.

\* Induction over a set of natural numbers.
LEMMA Induction ==
  ASSUME NEW P, 0 \in P, \A n \in Nat : n \in P => n + 1 \in P
  PROVE  \A n \in Nat : n \in P
<1> DEFINE below == {p \in Nat \X Nat : p[1] < p[2]}
           T == Nat \ P
<1>1. below = OpToRel(<, Nat)
  BY Zenon DEF OpToRel
<1>2. IsWellFoundedOn(below, Nat)
  BY <1>1, NatLessThanWellFounded, Zenon
<1> HIDE DEF below
<1>3. ASSUME T # {}
      PROVE  FALSE
  <2>1. T \in SUBSET Nat
    OBVIOUS
  <2> HIDE DEF T
  <2>2. PICK m \in T : \A k \in T : <<k, m>> \notin below
    BY <1>2, <1>3, <2>1, WFMin
  <2>3. m \in Nat \ {0}
    BY DEF T
  <2>4. m - 1 \in Nat /\ m - 1 < m
    BY <2>3
  <2>5. <<m - 1, m>> \in below
    BY <2>3, <2>4 DEF below
  <2>6. m - 1 \in P
    BY <2>2, <2>4, <2>5 DEF T
  <2>7. m \in P
    BY <2>4, <2>6, <2>3
  <2> QED  BY <2>7 DEF T
<1> QED  BY <1>3

\* What a reader of a stream knows.
Known == [charged : Int, open : Seq(Yield), yields : Nat]

\* A charge has an amount, a yield and a resume have a yield.
LEMMA EventFields ==
  ASSUME NEW e \in Event
  PROVE  /\ e.kind = "Charged" => e.amount \in Nat
         /\ e.kind \in {"Yielded", "Resumed"} => e.yield \in Yield
BY ConstantsTypes DEF Event, Started, Triple

\* What a reader knows after one more event.
LEMMA ReadingType ==
  ASSUME NEW known \in Known, NEW e \in Event
  PROVE  Reading(known, e) \in Known
<1>1. /\ known.charged \in Int /\ known.open \in Seq(Yield)
      /\ known.yields \in Nat
  BY DEF Known
<1>2. known.charged + (IF e.kind = "Charged" THEN e.amount ELSE 0) \in Int
  BY <1>1, EventFields
<1>3. known.yields + (IF e.kind = "Yielded" THEN 1 ELSE 0) \in Nat
  BY <1>1
<1>4. (CASE e.kind = "Yielded" -> Append(known.open, e.yield)
         [] e.kind = "Resumed" -> SubSeq(known.open, 1, Len(known.open) - 1)
         [] OTHER -> known.open) \in Seq(Yield)
  <2>1. CASE e.kind = "Yielded"
    <3>1. e.yield \in Yield
      BY <2>1, EventFields
    <3> QED  BY <1>1, <2>1, <3>1
  <2>2. CASE e.kind = "Resumed"
    <3>1. SubSeq(known.open, 1, Len(known.open) - 1) \in Seq(Yield)
      BY <1>1
    <3> QED  BY <2>2, <3>1
  <2>3. CASE e.kind \notin {"Yielded", "Resumed"}
    BY <1>1, <2>3
  <2> QED  BY <2>1, <2>2, <2>3
<1> QED  BY <1>2, <1>3, <1>4 DEF Reading, Known

Reads(f, s, n) ==
  f = [i \in 0..n |-> IF i = 0 THEN Nothing ELSE Reading(f[i - 1], s[i])]

\* A reader of the first n events, one event at a time.
LEMMA ReadsExists ==
  ASSUME NEW s \in Seq(Event)
  PROVE  \A n \in 0..Len(s) : \E f : Reads(f, s, n)
<1> DEFINE P == {n \in Nat : n <= Len(s) => \E f : Reads(f, s, n)}
<1>1. 0 \in P
  <2> DEFINE f == [i \in 0..0 |-> Nothing]
  <2>1. Reads(f, s, 0)
    BY DEF Reads
  <2> QED  BY <2>1
<1>2. ASSUME NEW n \in Nat, n \in P
      PROVE  n + 1 \in P
  <2> SUFFICES ASSUME n + 1 <= Len(s)
               PROVE  \E f : Reads(f, s, n + 1)
    OBVIOUS
  <2>1. n <= Len(s)
    OBVIOUS
  <2>2. PICK f : Reads(f, s, n)
    BY <1>2, <2>1
  <2> DEFINE g == [i \in 0..(n + 1) |->
                     IF i = n + 1 THEN Reading(f[n], s[n + 1]) ELSE f[i]]
  <2>3. \A i \in 0..n :
          f[i] = IF i = 0 THEN Nothing ELSE Reading(f[i - 1], s[i])
    BY <2>2 DEF Reads
  <2>4. ASSUME NEW i \in 0..(n + 1)
        PROVE  g[i] = IF i = 0 THEN Nothing ELSE Reading(g[i - 1], s[i])
    <3>1. CASE i = n + 1
      <4>1. i - 1 = n /\ n \in 0..(n + 1) /\ n # n + 1
        BY <3>1
      <4>2. g[i - 1] = f[n]
        BY <4>1
      <4> QED  BY <3>1, <4>2
    <3>2. CASE i # n + 1 /\ i # 0
      <4>1. i \in 0..n /\ i - 1 \in 0..(n + 1) /\ i - 1 # n + 1
        BY <3>2
      <4>2. g[i] = f[i] /\ g[i - 1] = f[i - 1]
        BY <3>2, <4>1
      <4> QED  BY <2>3, <3>2, <4>1, <4>2
    <3>3. CASE i = 0
      BY <2>3, <3>3
    <3> QED  BY <3>1, <3>2, <3>3
  <2>5. Reads(g, s, n + 1)
    BY <2>4 DEF Reads
  <2> QED  BY <2>5
<1> HIDE DEF P
<1>3. \A n \in Nat : n \in P
  BY <1>1, <1>2, Induction
<1> QED  BY <1>3 DEF P

\* Read is a reader of every event, starting from nothing.
LEMMA ReadFacts ==
  ASSUME NEW s \in Seq(Event)
  PROVE  /\ Reads(Read(s), s, Len(s))
         /\ Read(s)[0] = Nothing
         /\ \A i \in 1..Len(s) : Read(s)[i] = Reading(Read(s)[i - 1], s[i])
<1>1. \E f : Reads(f, s, Len(s))
  BY ReadsExists
<1>2. Read(s) = CHOOSE f : Reads(f, s, Len(s))
  BY DEF Read, Reads
<1>3. Reads(Read(s), s, Len(s))
  BY <1>1, <1>2
<1>4. \A i \in 0..Len(s) :
        Read(s)[i] = IF i = 0 THEN Nothing ELSE Reading(Read(s)[i - 1], s[i])
  BY <1>3 DEF Reads
<1> QED  BY <1>3, <1>4

\* What a reader knows after each event.
LEMMA ReadType ==
  ASSUME NEW s \in Seq(Event)
  PROVE  \A i \in 0..Len(s) : Read(s)[i] \in Known
<1> DEFINE P == {n \in Nat : n <= Len(s) => Read(s)[n] \in Known}
<1>1. 0 \in P
  <2>1. <<>> \in Seq(Yield)
    OBVIOUS
  <2>2. Nothing \in Known
    BY <2>1 DEF Nothing, Known
  <2> QED  BY <2>2, ReadFacts
<1>2. ASSUME NEW n \in Nat, n \in P
      PROVE  n + 1 \in P
  <2> SUFFICES ASSUME n + 1 <= Len(s)
               PROVE  Read(s)[n + 1] \in Known
    OBVIOUS
  <2>1. Read(s)[n] \in Known /\ n + 1 \in 1..Len(s) /\ (n + 1) - 1 = n
    BY <1>2
  <2>2. Read(s)[n + 1] = Reading(Read(s)[n], s[n + 1])
    BY <2>1, ReadFacts
  <2>3. s[n + 1] \in Event
    BY <2>1
  <2> QED  BY <2>1, <2>2, <2>3, ReadingType
<1> HIDE DEF P
<1>3. \A n \in Nat : n \in P
  BY <1>1, <1>2, Induction
<1> QED  BY <1>3 DEF P

\* What follows does not change what is known of the beginning.
LEMMA ReadAppend ==
  ASSUME NEW s \in Seq(Event), NEW e \in Event
  PROVE  /\ \A i \in 0..Len(s) : Read(Append(s, e))[i] = Read(s)[i]
         /\ Read(Append(s, e))[Len(s) + 1] = Reading(Read(s)[Len(s)], e)
<1> DEFINE t == Append(s, e)
<1>1. t \in Seq(Event) /\ Len(t) = Len(s) + 1 /\ t[Len(s) + 1] = e
        /\ \A i \in 1..Len(s) : t[i] = s[i]
  BY AppendProperties
<1> DEFINE P == {n \in Nat : n <= Len(s) => Read(t)[n] = Read(s)[n]}
<1> HIDE DEF t
<1>2. 0 \in P
  BY <1>1, ReadFacts
<1>3. ASSUME NEW n \in Nat, n \in P
      PROVE  n + 1 \in P
  <2> SUFFICES ASSUME n + 1 <= Len(s)
               PROVE  Read(t)[n + 1] = Read(s)[n + 1]
    OBVIOUS
  <2>1. Read(t)[n] = Read(s)[n] /\ n + 1 \in 1..Len(s) /\ n + 1 \in 1..Len(t)
          /\ (n + 1) - 1 = n
    BY <1>1, <1>3
  <2>2. Read(s)[n + 1] = Reading(Read(s)[n], s[n + 1])
    BY <2>1, ReadFacts
  <2>3. Read(t)[n + 1] = Reading(Read(t)[n], t[n + 1])
    BY <1>1, <2>1, ReadFacts
  <2> QED  BY <1>1, <2>1, <2>2, <2>3
<1> HIDE DEF P
<1>4. \A n \in Nat : n \in P
  BY <1>2, <1>3, Induction
<1>5. \A i \in 0..Len(s) : Read(t)[i] = Read(s)[i]
  BY <1>4 DEF P
<1>6. Read(t)[Len(s) + 1] = Reading(Read(t)[Len(s)], t[Len(s) + 1])
  <2>1. Len(s) \in Nat /\ Len(s) + 1 \in 1..Len(t) /\ (Len(s) + 1) - 1 = Len(s)
    BY <1>1
  <2> QED  BY <1>1, <2>1, ReadFacts
<1>7. Read(t)[Len(s) + 1] = Reading(Read(s)[Len(s)], e)
  BY <1>1, <1>5, <1>6
<1> QED  BY <1>5, <1>7 DEF t

\* Appending to the second of two sequences appends to both.
LEMMA ConcatAppend ==
  ASSUME NEW S, NEW s \in Seq(S), NEW t \in Seq(S), NEW e \in S
  PROVE  s \o Append(t, e) = Append(s \o t, e)
<1> DEFINE u == Append(t, e)
           v == s \o t
<1>1. /\ u \in Seq(S) /\ Len(u) = Len(t) + 1 /\ u[Len(t) + 1] = e
      /\ \A i \in 1..Len(t) : u[i] = t[i]
  BY AppendProperties
<1>2. v \in Seq(S) /\ Len(v) = Len(s) + Len(t)
  BY ConcatProperties
<1>3. \A i \in 1..(Len(s) + Len(t)) :
        v[i] = IF i <= Len(s) THEN s[i] ELSE t[i - Len(s)]
  BY ConcatProperties
<1> HIDE DEF u, v
<1>4. /\ s \o u \in Seq(S) /\ Len(s \o u) = Len(s) + Len(u)
      /\ \A i \in 1..(Len(s) + Len(u)) :
           (s \o u)[i] = IF i <= Len(s) THEN s[i] ELSE u[i - Len(s)]
  BY <1>1, ConcatProperties
<1>5. /\ Append(v, e) \in Seq(S) /\ Len(Append(v, e)) = Len(v) + 1
      /\ Append(v, e)[Len(v) + 1] = e
      /\ \A i \in 1..Len(v) : Append(v, e)[i] = v[i]
  <2>1. v \in Seq(S) /\ e \in S
    BY <1>2
  <2> QED  BY ONLY <2>1, AppendProperties
<1>6. Len(s) \in Nat /\ Len(t) \in Nat
  OBVIOUS
<1>7. ASSUME NEW i \in 1..Len(s \o u)
      PROVE  (s \o u)[i] = Append(v, e)[i]
  <2>1. CASE i = Len(s) + Len(t) + 1
    BY <1>1, <1>2, <1>4, <1>5, <1>6, <2>1
  <2>2. CASE i # Len(s) + Len(t) + 1
    <3>1. i \in 1..(Len(s) + Len(t)) /\ i \in 1..Len(v)
      BY <1>1, <1>2, <1>4, <1>6, <2>2
    <3>2. Append(v, e)[i] = v[i]
      BY <1>5, <3>1
    <3>3. CASE i <= Len(s)
      BY <1>3, <1>4, <3>1, <3>2, <3>3
    <3>4. CASE i > Len(s)
      <4>1. i - Len(s) \in 1..Len(t)
        BY <1>6, <3>1, <3>4
      <4> QED  BY <1>1, <1>3, <1>4, <3>1, <3>2, <3>4, <4>1
    <3> QED  BY <1>6, <3>1, <3>3, <3>4
  <2> QED  BY <2>1, <2>2
<1>8. Len(s \o u) = Len(Append(v, e))
  BY <1>1, <1>2, <1>4, <1>5, <1>6
<1>9. s \o u = Append(v, e)
  BY <1>4, <1>5, <1>7, <1>8, SeqEqual
<1> QED  BY <1>9 DEF u, v

\* A stream that adds up still does with one more event that follows from it.
LEMMA FollowAppend ==
  ASSUME NEW s \in Seq(Event), NEW e \in Event, AllFollow(s),
         FollowsFrom(LastRead(s), e)
  PROVE  /\ Append(s, e) \in Seq(Event) /\ AllFollow(Append(s, e))
         /\ LastRead(s) \in Known
         /\ LastRead(Append(s, e)) = Reading(LastRead(s), e)
<1> DEFINE t == Append(s, e)
<1>1. t \in Seq(Event) /\ Len(t) = Len(s) + 1 /\ t[Len(s) + 1] = e
        /\ \A i \in 1..Len(s) : t[i] = s[i]
  BY AppendProperties
<1>2. Len(s) \in Nat /\ DOMAIN s = 1..Len(s)
  OBVIOUS
<1>3. LastRead(s) \in Known
  BY <1>2, ReadType DEF LastRead
<1>4. /\ \A i \in 0..Len(s) : Read(t)[i] = Read(s)[i]
      /\ Read(t)[Len(s) + 1] = Reading(Read(s)[Len(s)], e)
  BY ReadAppend
<1> HIDE DEF t
<1>5. LastRead(t) = Reading(LastRead(s), e)
  BY <1>1, <1>4 DEF LastRead
<1>6. DOMAIN t = 1..Len(t)
  BY <1>1
<1>7. ASSUME NEW i \in DOMAIN t
      PROVE  FollowsFrom(Read(t)[i - 1], t[i])
  <2>1. CASE i = Len(s) + 1
    <3>1. i - 1 = Len(s) /\ Len(s) \in 0..Len(s)
      BY <1>2, <2>1
    <3>2. Read(t)[i - 1] = LastRead(s)
      BY <1>4, <3>1 DEF LastRead
    <3> QED  BY <1>1, <2>1, <3>2
  <2>2. CASE i # Len(s) + 1
    <3>1. i \in DOMAIN s /\ i - 1 \in 0..Len(s) /\ i \in 1..Len(s)
      BY <1>1, <1>2, <1>6, <2>2
    <3>2. Read(t)[i - 1] = Read(s)[i - 1] /\ t[i] = s[i]
      BY <1>1, <1>4, <3>1
    <3> QED  BY <3>1, <3>2 DEF AllFollow
  <2> QED  BY <2>1, <2>2
<1> QED  BY <1>1, <1>3, <1>5, <1>7 DEF AllFollow, t

\* Events that say nothing of charges and yields.
LEMMA FollowQuiet ==
  ASSUME NEW s \in Seq(Event), NEW e \in Event, AllFollow(s),
         e.kind \notin {"Charged", "Yielded", "Resumed", "Terminal"}
  PROVE  /\ AllFollow(Append(s, e))
         /\ LastRead(Append(s, e)) = LastRead(s)
<1>1. FollowsFrom(LastRead(s), e)
  BY DEF FollowsFrom
<1>2. /\ AllFollow(Append(s, e)) /\ LastRead(s) \in Known
      /\ LastRead(Append(s, e)) = Reading(LastRead(s), e)
  BY <1>1, FollowAppend
<1> DEFINE k == LastRead(s)
<1>3. k \in Known
  BY <1>2
<1> HIDE DEF k
<1>4. Reading(k, e) = [charged |-> k.charged, open |-> k.open,
                       yields |-> k.yields]
  BY <1>3 DEF Reading, Known
<1>5. k = [charged |-> k.charged, open |-> k.open, yields |-> k.yields]
  BY <1>3 DEF Known
<1> QED  BY <1>2, <1>4, <1>5 DEF k

\* A charge adds its amount to what a reader knows.
LEMMA FollowCharge ==
  ASSUME NEW s \in Seq(Event), AllFollow(s), NEW n \in 1..ChargeFlush
  PROVE  /\ Append(s, Charged(n)) \in Seq(Event)
         /\ AllFollow(Append(s, Charged(n)))
         /\ LastRead(s) \in Known
         /\ LastRead(Append(s, Charged(n))) =
              [charged |-> LastRead(s).charged + n, open |-> LastRead(s).open,
               yields |-> LastRead(s).yields]
<1>1. Charged(n) \in Event
  BY Vocabulary
<1>2. Charged(n).kind = "Charged" /\ Charged(n).amount = n
  BY DEF Charged
<1>3. FollowsFrom(LastRead(s), Charged(n))
  BY <1>2 DEF FollowsFrom
<1>4. /\ Append(s, Charged(n)) \in Seq(Event)
      /\ AllFollow(Append(s, Charged(n))) /\ LastRead(s) \in Known
      /\ LastRead(Append(s, Charged(n))) = Reading(LastRead(s), Charged(n))
  BY <1>1, <1>3, FollowAppend
<1> DEFINE k == LastRead(s)
<1>5. k \in Known
  BY <1>4
<1> HIDE DEF k
<1>6. Reading(k, Charged(n)) = [charged |-> k.charged + n, open |-> k.open,
                                yields |-> k.yields]
  BY <1>2, <1>5 DEF Reading, Known
<1> QED  BY <1>4, <1>6 DEF k

\* The full groups of a drain, one after another.
Groups(n) == [i \in 1..n |-> Charged(ChargeFlush)]

\* So do any number of full groups.
LEMMA FollowGroups ==
  ASSUME NEW s \in Seq(Event), AllFollow(s)
  PROVE  \A n \in Nat :
           /\ s \o Groups(n) \in Seq(Event) /\ Groups(n) \in Seq(Event)
           /\ AllFollow(s \o Groups(n))
           /\ LastRead(s \o Groups(n)) =
                [charged |-> LastRead(s).charged + ChargeFlush * n,
                 open |-> LastRead(s).open, yields |-> LastRead(s).yields]
<1>0. Charged(ChargeFlush) \in Event /\ ChargeFlush \in 1..ChargeFlush
        /\ ChargeFlush \in Nat
  <2>1. ChargeFlush \in 1..ChargeFlush /\ ChargeFlush \in Nat
    BY ConstantsTypes
  <2> QED  BY <2>1, Vocabulary
<1>1. \A n \in Nat : Groups(n) \in Seq(Event)
  BY <1>0 DEF Groups
<1>2. LastRead(s) \in Known
  <2>1. Len(s) \in 0..Len(s)
    OBVIOUS
  <2> QED  BY <2>1, ReadType DEF LastRead
<1> DEFINE k == LastRead(s)
           Goal(n) ==
             /\ AllFollow(s \o Groups(n))
             /\ LastRead(s \o Groups(n)) =
                  [charged |-> k.charged + ChargeFlush * n,
                   open |-> k.open, yields |-> k.yields]
           P == {n \in Nat : Goal(n)}
<1>3. k \in Known /\ k.charged \in Int
  BY <1>2 DEF Known
<1> HIDE DEF k
<1>4. 0 \in P
  <2>1. Groups(0) = <<>>
    BY DEF Groups
  <2>2. s \o Groups(0) = s
    BY <2>1
  <2>3. k = [charged |-> k.charged + ChargeFlush * 0, open |-> k.open,
             yields |-> k.yields]
    BY <1>0, <1>3 DEF Known
  <2>4. LastRead(s) = k
    BY DEF k
  <2> QED  BY <2>2, <2>3, <2>4
<1>5. ASSUME NEW n \in Nat, n \in P
      PROVE  n + 1 \in P
  <2> DEFINE t == s \o Groups(n)
  <2>1. t \in Seq(Event) /\ Goal(n)
    BY <1>1, <1>5, ConcatProperties
  <2>2. Groups(n + 1) = Append(Groups(n), Charged(ChargeFlush))
    <3>1. Groups(n) \in Seq(Event) /\ Len(Groups(n)) = n
      BY <1>1 DEF Groups
    <3>2. Groups(n + 1) \in Seq(Event) /\ Len(Groups(n + 1)) = n + 1
      BY <1>1 DEF Groups
    <3> DEFINE u == Append(Groups(n), Charged(ChargeFlush))
    <3>3. /\ u \in Seq(Event) /\ Len(u) = n + 1
          /\ u[n + 1] = Charged(ChargeFlush)
          /\ \A i \in 1..n : u[i] = Groups(n)[i]
      BY <1>0, <3>1, AppendProperties
    <3> HIDE DEF u
    <3>4. \A i \in 1..(n + 1) : u[i] = Groups(n + 1)[i]
      BY <3>3 DEF Groups
    <3>5. u = Groups(n + 1)
      BY <3>2, <3>3, <3>4, SeqEqual
    <3> QED  BY <3>5 DEF u
  <2>3. s \o Groups(n + 1) = Append(t, Charged(ChargeFlush))
    <3>1. Groups(n) \in Seq(Event) /\ Charged(ChargeFlush) \in Event
      BY <1>0, <1>1
    <3>2. s \o Append(Groups(n), Charged(ChargeFlush))
            = Append(t, Charged(ChargeFlush))
      BY <3>1, ConcatAppend
    <3> QED  BY <2>2, <3>2
  <2> DEFINE kt == LastRead(t)
  <2>4. kt = [charged |-> k.charged + ChargeFlush * n, open |-> k.open,
              yields |-> k.yields] /\ AllFollow(t)
    BY <2>1
  <2> HIDE DEF t
  <2>5. /\ AllFollow(Append(t, Charged(ChargeFlush)))
        /\ LastRead(Append(t, Charged(ChargeFlush))) =
             [charged |-> kt.charged + ChargeFlush, open |-> kt.open,
              yields |-> kt.yields]
    BY <1>0, <2>1, <2>4, FollowCharge
  <2> HIDE DEF kt
  <2>6. ChargeFlush * (n + 1) = ChargeFlush * n + ChargeFlush
          /\ ChargeFlush * n \in Nat
    BY <1>0
  <2>7. kt.charged + ChargeFlush = k.charged + ChargeFlush * (n + 1)
          /\ kt.open = k.open /\ kt.yields = k.yields
    BY <1>0, <1>3, <2>4, <2>6
  <2>8. Goal(n + 1)
    BY <2>3, <2>5, <2>7
  <2> QED  BY <2>8
<1> HIDE DEF P
<1>6. \A n \in Nat : n \in P
  BY <1>4, <1>5, Induction
<1>7. \A n \in Nat : Goal(n)
  BY <1>6 DEF P
<1>8. \A n \in Nat : s \o Groups(n) \in Seq(Event)
  BY <1>1, ConcatProperties
<1> QED  BY <1>1, <1>7, <1>8 DEF k

\* What drain_budget_charges leaves adds the charges that were open.
LEMMA FollowDrained ==
  ASSUME NEW s \in Seq(Event), AllFollow(s),
         finalized \in Nat, group \in 0..(ChargeFlush - 1)
  PROVE  /\ s \o Drained \in Seq(Event) /\ AllFollow(s \o Drained)
         /\ LastRead(s \o Drained) =
              [charged |-> LastRead(s).charged + (group + ChargeFlush * finalized),
               open |-> LastRead(s).open, yields |-> LastRead(s).yields]
<1> DEFINE g == Groups(finalized)
           t == s \o g
           kt == LastRead(t)
           full == ChargeFlush * finalized
<1>1. /\ t \in Seq(Event) /\ g \in Seq(Event) /\ AllFollow(t)
      /\ kt = [charged |-> LastRead(s).charged + full,
               open |-> LastRead(s).open, yields |-> LastRead(s).yields]
  BY FollowGroups
<1>2. Drained = g \o (IF group > 0 THEN <<Charged(group)>> ELSE <<>>)
  BY DEF Drained, Groups
<1>3. LastRead(s).charged \in Int /\ full \in Int
  <2>1. Len(s) \in 0..Len(s)
    OBVIOUS
  <2>2. LastRead(s) \in Known
    BY <2>1, ReadType DEF LastRead
  <2> QED  BY <2>2, ConstantsTypes DEF Known
<1> HIDE DEF g, full
<1>4. CASE group = 0
  <2>1. Drained = g
    BY <1>1, <1>2, <1>4, ConcatEmptySeq
  <2>2. LastRead(s).charged + full = LastRead(s).charged + (group + full)
    BY <1>3, <1>4
  <2> QED  BY <1>1, <2>1, <2>2 DEF full
<1>5. CASE group > 0
  <2>1. group \in 1..ChargeFlush /\ Charged(group) \in Event
    BY <1>5, ConstantsTypes, Vocabulary
  <2>2. Drained = Append(g, Charged(group))
    BY <1>1, <1>2, <1>5, <2>1, AppendIsConcat
  <2>3. s \o Drained = Append(t, Charged(group))
    BY <1>1, <2>1, <2>2, ConcatAppend
  <2> HIDE DEF t
  <2>4. /\ Append(t, Charged(group)) \in Seq(Event)
        /\ AllFollow(Append(t, Charged(group)))
        /\ LastRead(Append(t, Charged(group))) =
             [charged |-> kt.charged + group, open |-> kt.open,
              yields |-> kt.yields]
    BY <1>1, <2>1, FollowCharge
  <2> HIDE DEF kt
  <2>5. /\ kt.charged + group = LastRead(s).charged + (group + full)
        /\ kt.open = LastRead(s).open /\ kt.yields = LastRead(s).yields
    BY <1>1, <1>3, <1>5
  <2> QED  BY <2>3, <2>4, <2>5 DEF full
<1> QED  BY <1>4, <1>5

----------------------------------------------------------------------------
\* Whole triples.

HasTriple(s, i) == /\ i + 2 <= Len(s) /\ s[i] = Triple[1]
                   /\ s[i + 1] = Triple[2] /\ s[i + 2] = Triple[3]

\* A triple at a place, event by event.
LEMMA WholePointwise ==
  ASSUME NEW s \in Seq(Event), NEW i \in DOMAIN s
  PROVE  (i + 2 <= Len(s) /\ SubSeq(s, i, i + 2) = Triple) <=> HasTriple(s, i)
<1> DEFINE t == SubSeq(s, i, i + 2)
<1>1. i \in Nat \ {0} /\ Len(s) \in Nat /\ i <= Len(s)
  OBVIOUS
<1>2. ASSUME i + 2 <= Len(s)
      PROVE  t = Triple <=> HasTriple(s, i)
  <2>1. \A j \in i..(i + 2) : s[j] \in Event
    BY <1>1, <1>2
  <2>2. t \in Seq(Event) /\ Len(t) = 3
          /\ t[1] = s[i] /\ t[2] = s[i + 1] /\ t[3] = s[i + 2]
    <3>1. /\ t \in Seq(Event)
          /\ Len(t) = IF i <= i + 2 THEN (i + 2) - i + 1 ELSE 0
          /\ \A j \in 1..((i + 2) - i + 1) : t[j] = s[i + j - 1]
      BY <1>1, <2>1, SubSeqProperties
    <3> HIDE DEF t
    <3>2. Len(t) = 3 /\ \A j \in 1..3 : t[j] = s[i + j - 1]
      BY <1>1, <3>1
    <3>3. t[1] = s[i + 1 - 1] /\ t[2] = s[i + 2 - 1] /\ t[3] = s[i + 3 - 1]
      BY <3>2
    <3>4. i + 1 - 1 = i /\ i + 2 - 1 = i + 1 /\ i + 3 - 1 = i + 2
      BY <1>1
    <3> QED  BY <3>1, <3>2, <3>3, <3>4
  <2> HIDE DEF t
  <2>3. Triple \in Seq(Event) /\ Len(Triple) = 3
    BY Vocabulary, SeqMonotonic DEF Triple
  <2>4. t = Triple <=> t[1] = Triple[1] /\ t[2] = Triple[2] /\ t[3] = Triple[3]
    <3>1. ASSUME t[1] = Triple[1] /\ t[2] = Triple[2] /\ t[3] = Triple[3]
          PROVE  t = Triple
      <4>1. \A j \in 1..Len(t) : t[j] = Triple[j]
        BY <2>2, <3>1
      <4> QED  BY <2>2, <2>3, <4>1, SeqEqual
    <3> QED  BY <3>1
  <2> QED  BY <1>2, <2>2, <2>4 DEF HasTriple
<1> QED  BY <1>2 DEF HasTriple

\* A stream made of two streams of whole triples is one.
LEMMA WholeConcat ==
  ASSUME NEW s \in Seq(Event), NEW t \in Seq(Event), Whole(s), Whole(t)
  PROVE  Whole(s \o t)
<1> DEFINE u == s \o t
<1>1. /\ u \in Seq(Event) /\ Len(u) = Len(s) + Len(t)
      /\ \A i \in 1..(Len(s) + Len(t)) :
           u[i] = IF i <= Len(s) THEN s[i] ELSE t[i - Len(s)]
  BY ConcatProperties
<1>2. Len(s) \in Nat /\ Len(t) \in Nat /\ DOMAIN s = 1..Len(s)
        /\ DOMAIN t = 1..Len(t)
  OBVIOUS
<1> HIDE DEF u
<1>3. ASSUME NEW i \in DOMAIN u, u[i].kind = "HostCallStarted"
      PROVE  HasTriple(u, i)
  <2>1. i \in 1..(Len(s) + Len(t))
    BY <1>1
  <2>2. CASE i <= Len(s)
    <3>1. i \in DOMAIN s /\ s[i].kind = "HostCallStarted"
      BY <1>1, <1>2, <1>3, <2>1, <2>2
    <3>2. HasTriple(s, i)
      BY <3>1, WholePointwise DEF Whole
    <3>3. i + 2 <= Len(s) /\ {i, i + 1, i + 2} \subseteq 1..(Len(s) + Len(t))
      BY <1>2, <2>1, <3>2 DEF HasTriple
    <3>4. u[i] = s[i] /\ u[i + 1] = s[i + 1] /\ u[i + 2] = s[i + 2]
      BY <1>1, <1>2, <2>1, <3>3
    <3> QED  BY <1>1, <1>2, <2>1, <3>2, <3>3, <3>4 DEF HasTriple
  <2>3. CASE i > Len(s)
    <3> DEFINE j == i - Len(s)
    <3>1. j \in DOMAIN t /\ t[j].kind = "HostCallStarted"
      BY <1>1, <1>2, <1>3, <2>1, <2>3
    <3>2. HasTriple(t, j)
      BY <3>1, WholePointwise DEF Whole
    <3>3. j + 2 <= Len(t) /\ i = Len(s) + j /\ j \in Nat
      BY <1>2, <2>1, <2>3, <3>2 DEF HasTriple
    <3> HIDE DEF j
    <3>4. /\ {i, i + 1, i + 2} \subseteq 1..(Len(s) + Len(t))
          /\ ~(i <= Len(s)) /\ ~(i + 1 <= Len(s)) /\ ~(i + 2 <= Len(s))
          /\ i - Len(s) = j /\ (i + 1) - Len(s) = j + 1
          /\ (i + 2) - Len(s) = j + 2
      BY <1>2, <2>1, <2>3, <3>3
    <3>5. u[i] = t[j] /\ u[i + 1] = t[j + 1] /\ u[i + 2] = t[j + 2]
      BY <1>1, <3>4
    <3> QED  BY <1>1, <1>2, <3>2, <3>3, <3>5 DEF HasTriple
  <2> QED  BY <1>2, <2>1, <2>2, <2>3
<1>4. Whole(u)
  BY <1>1, <1>3, WholePointwise DEF Whole
<1> QED  BY <1>4 DEF u

\* Events that begin no host call are whole.
LEMMA WholeQuiet ==
  ASSUME NEW s \in Seq(Event),
         \A i \in DOMAIN s : s[i].kind # "HostCallStarted"
  PROVE  Whole(s)
BY DEF Whole

\* The three events of a host call are whole.
LEMMA TripleIsWhole == Triple \in Seq(Event) /\ Whole(Triple)
<1>1. Triple \in Seq(Event) /\ Len(Triple) = 3 /\ DOMAIN Triple = 1..3
  BY Vocabulary, SeqMonotonic DEF Triple
<1>2. /\ Triple[1].kind = "HostCallStarted"
      /\ Triple[2].kind # "HostCallStarted"
      /\ Triple[3].kind # "HostCallStarted"
  BY DEF Triple
<1>3. ASSUME NEW i \in DOMAIN Triple, Triple[i].kind = "HostCallStarted"
      PROVE  HasTriple(Triple, i)
  <2>1. i = 1
    BY <1>1, <1>2, <1>3
  <2> QED  BY <1>1, <2>1 DEF HasTriple
<1> QED  BY <1>1, <1>3, WholePointwise DEF Whole

\* Charges are no host calls.
LEMMA DrainedIsWhole ==
  ASSUME finalized \in Nat, group \in 0..(ChargeFlush - 1)
  PROVE  Drained \in Seq(Event) /\ Whole(Drained)
<1> DEFINE g == Groups(finalized)
           rest == IF group > 0 THEN <<Charged(group)>> ELSE <<>>
<1>1. Charged(ChargeFlush) \in Event /\ Charged(ChargeFlush).kind = "Charged"
  BY ConstantsTypes, Vocabulary DEF Charged
<1>2. g \in Seq(Event) /\ Whole(g)
  <2>1. g \in Seq(Event) /\ DOMAIN g = 1..finalized
    BY <1>1 DEF Groups
  <2>2. \A i \in DOMAIN g : g[i].kind # "HostCallStarted"
    BY <1>1 DEF Groups
  <2> HIDE DEF g
  <2> QED  BY <2>1, <2>2, WholeQuiet
<1>3. rest \in Seq(Event) /\ Whole(rest)
  <2>1. CASE group > 0
    <3>1. Charged(group) \in Event /\ Charged(group).kind # "HostCallStarted"
      BY <2>1, ConstantsTypes, Vocabulary DEF Charged
    <3>2. rest = <<Charged(group)>>
      BY <2>1
    <3> HIDE DEF rest
    <3>3. rest \in Seq(Event)
            /\ \A i \in DOMAIN rest : rest[i].kind # "HostCallStarted"
      BY <3>1, <3>2
    <3> QED  BY <3>3, WholeQuiet
  <2>2. CASE ~(group > 0)
    <3>1. rest = <<>>
      BY <2>2
    <3> HIDE DEF rest
    <3>2. rest \in Seq(Event)
            /\ \A i \in DOMAIN rest : rest[i].kind # "HostCallStarted"
      BY <3>1
    <3> QED  BY <3>2, WholeQuiet
  <2> QED  BY <2>1, <2>2
<1>4. Drained = g \o rest
  BY DEF Drained, Groups
<1> HIDE DEF g, rest
<1> QED  BY <1>2, <1>3, <1>4, WholeConcat, ConcatProperties

----------------------------------------------------------------------------
\* How the stream of a run grows.

\* The stream of a run is one of events.
LEMMA StreamType ==
  ASSUME Course
  PROVE  /\ Stream \in Seq(Event) /\ journal \in Seq(Event)
         /\ audit_events \in Seq(Event) /\ batch \in Seq(Event)
         /\ (IF InFlight THEN Tail(batch) ELSE batch) \in Seq(Event)
<1>1. /\ journal \in Seq(Event) /\ audit_events \in Seq(Event)
      /\ batch \in Seq(Event)
  BY Vocabulary, SeqMonotonic DEF Course, Types, StreamTypes
<1> DEFINE left == IF InFlight THEN Tail(batch) ELSE batch
<1>2. left \in Seq(Event)
  BY <1>1, HeadTailProperties DEF Course, Batches
<1>3. Stream = (journal \o left) \o audit_events
  BY DEF Stream
<1> HIDE DEF left
<1>4. Stream \in Seq(Event)
  BY <1>1, <1>2, <1>3, ConcatProperties
<1> QED  BY <1>1, <1>2, <1>4 DEF left

\* What is pushed comes at the end of the stream.
LEMMA PushStream ==
  ASSUME Course, NEW events \in Seq(Event),
         audit_events' = audit_events \o events,
         journal' = journal, batch' = batch, InFlight' <=> InFlight
  PROVE  Stream' = Stream \o events
<1> DEFINE left == IF InFlight THEN Tail(batch) ELSE batch
<1>1. /\ left \in Seq(Event) /\ journal \in Seq(Event)
      /\ audit_events \in Seq(Event)
  BY StreamType
<1>2. Stream = (journal \o left) \o audit_events
  BY DEF Stream
<1>3. Stream' = (journal \o left) \o (audit_events \o events)
  BY DEF Stream
<1> HIDE DEF left
<1> DEFINE base == journal \o left
<1>4. base \in Seq(Event)
  BY <1>1, ConcatProperties
<1> HIDE DEF base
<1>5. (base \o audit_events) \o events = base \o (audit_events \o events)
  <2>1. audit_events \in Seq(Event) /\ events \in Seq(Event)
    BY <1>1
  <2> QED  BY ONLY <1>4, <2>1, ConcatAssociative
<1> QED  BY <1>2, <1>3, <1>5 DEF base

\* A flush adds the charges it drains, and moves the rest as it is.
LEMMA FlushStream ==
  ASSUME Course, Flush
  PROVE  Stream' = Stream \o Drained
<1>1. /\ batch' = audit_events \o Drained /\ audit_events' = <<>>
      /\ journal' = journal /\ at = "flush"
      /\ at' \in {"append", "slice", "terminal"}
  BY DEF Flush
<1>2. ~InFlight /\ batch = <<>> /\ ~InFlight'
  BY <1>1 DEF InFlight, Course, Batches
<1>3. Drained \in Seq(Event)
  BY DrainedIsWhole DEF Course, Types, ChargeTypes
<1>4. journal \in Seq(Event) /\ audit_events \in Seq(Event)
  BY StreamType
<1>5. Stream = journal \o audit_events
  BY <1>2, <1>4, ConcatEmptySeq DEF Stream
<1>6. Stream' = (journal \o (audit_events \o Drained)) \o <<>>
  BY <1>1, <1>2 DEF Stream
<1>7. Stream' = journal \o (audit_events \o Drained)
  BY <1>3, <1>4, <1>6, ConcatEmptySeq, ConcatProperties
<1> QED  BY <1>3, <1>4, <1>5, <1>7, ConcatAssociative

\* Appending to the journal moves an event, and changes no stream.
LEMMA AppendEventStream ==
  ASSUME Course, AppendEvent
  PROVE  Stream' = Stream
<1>1. /\ at = "append" /\ at' = "submit" /\ batch' = batch
      /\ audit_events' = audit_events
      /\ journal' = Append(journal, Head(batch)) /\ ~Closing'
  BY AppendEventFacts DEF AppendEvent, stream, Course
<1>2. ~InFlight /\ InFlight' /\ batch # <<>>
  BY <1>1 DEF InFlight, Course, Batches
<1>3. /\ journal \in Seq(Event) /\ audit_events \in Seq(Event)
      /\ batch \in Seq(Event)
  BY StreamType
<1>4. Head(batch) \in Event /\ Tail(batch) \in Seq(Event)
  BY <1>2, <1>3, HeadTailProperties
<1>5. batch = <<Head(batch)>> \o Tail(batch)
  BY <1>2, <1>3
<1>6. Append(journal, Head(batch)) \o Tail(batch) = journal \o batch
  <2>1. Append(journal, Head(batch)) = journal \o <<Head(batch)>>
    BY <1>3, <1>4, AppendIsConcat
  <2>2. <<Head(batch)>> \in Seq(Event)
    BY <1>4
  <2>3. (journal \o <<Head(batch)>>) \o Tail(batch)
          = journal \o (<<Head(batch)>> \o Tail(batch))
    BY <1>3, <1>4, <2>2, ConcatAssociative
  <2> QED  BY <1>5, <2>1, <2>3
<1>7. Stream = (journal \o batch) \o audit_events
  BY <1>2 DEF Stream
<1>8. Stream' = (Append(journal, Head(batch)) \o Tail(batch)) \o audit_events
  BY <1>1, <1>2 DEF Stream
<1> QED  BY <1>6, <1>7, <1>8

\* A delivery adds the Resumed of the wait, if there was one.
LEMMA DeliveredStream ==
  ASSUME Course, NEW resumed \in Seq(Normal), Delivered(resumed),
         at \in Submission, ~Closing
  PROVE  Stream' = Stream \o resumed
<1>1. /\ at' \in {"flush", "append"} /\ journal' = journal
      /\ batch' = Tail(batch) /\ audit_events' = audit_events \o resumed
  BY DEF Delivered
<1>2. InFlight /\ ~InFlight'
  BY <1>1 DEF InFlight, Submission
<1>3. resumed \in Seq(Event)
  BY Vocabulary, SeqMonotonic
<1>4. journal \in Seq(Event) /\ audit_events \in Seq(Event)
        /\ Tail(batch) \in Seq(Event)
  BY <1>2, StreamType
<1>5. Stream = (journal \o Tail(batch)) \o audit_events
  BY <1>2 DEF Stream
<1>6. Stream' = (journal \o Tail(batch)) \o (audit_events \o resumed)
  BY <1>1, <1>2 DEF Stream
<1> DEFINE base == journal \o Tail(batch)
<1>7. base \in Seq(Event)
  BY <1>4, ConcatProperties
<1> HIDE DEF base
<1>8. (base \o audit_events) \o resumed = base \o (audit_events \o resumed)
  BY <1>3, <1>4, <1>7, ConcatAssociative, SMTT(30)
<1> QED  BY <1>5, <1>6, <1>8 DEF base

\* The Terminal comes last, with the usage of the ledger.
LEMMA TerminalStream ==
  ASSUME Course, Pauses, AppendTerminal, InRun
  PROVE  /\ drive \in Outcomes /\ spent \in Nat
         /\ Stream' = Append(Stream, Terminal(drive, spent))
         /\ Stream' = Stream \o <<Terminal(drive, spent)>>
<1>1. /\ at = "terminal" /\ at' = "submit" /\ batch' = batch
      /\ audit_events' = audit_events
      /\ journal' = Append(journal, Terminal(drive, spent))
  BY DEF AppendTerminal, Close, stream
<1>2. drive \in Outcomes /\ spent \in Nat
  BY <1>1 DEF Course, Types, ContextTypes, ChargeTypes, Control, Late
<1>3. batch = <<>> /\ audit_events = <<>> /\ ~InFlight
  BY <1>1 DEF Course, Batches, InFlight, Pauses, Closed
<1>4. Closing'
  BY <1>1, <1>2, CloseFacts DEF AppendTerminal, Course
<1>5. journal \in Seq(Event) /\ Terminal(drive, spent) \in Event
        /\ journal' \in Seq(Event)
  BY <1>1, <1>2, StreamType, Vocabulary, AppendProperties
<1>6. Stream = journal
  BY <1>3, <1>5, ConcatEmptySeq DEF Stream
<1>7. Stream' = journal'
  <2>1. ~InFlight'
    BY <1>4 DEF InFlight
  <2>2. Stream' = (journal' \o <<>>) \o <<>>
    BY <1>1, <1>3, <2>1 DEF Stream
  <2> QED  BY <1>5, <2>2, ConcatEmptySeq
<1> QED  BY <1>1, <1>2, <1>5, <1>6, <1>7, AppendIsConcat

\* A run starts with the event that started its journal.
LEMMA InstallStream ==
  ASSUME Course, Install
  PROVE  Stream' = <<Started>>
<1>1. /\ at = "install" /\ at' \in {"begin", "terminal"} /\ batch' = batch
      /\ audit_events' = <<>> /\ journal' = journal
  BY DEF Install, delivery
<1>2. journal = <<Started>> /\ batch = <<>> /\ ~InFlight'
  BY <1>1 DEF Course, Journals, Batches, InFlight, Early
<1>3. Stream' = (<<Started>> \o <<>>) \o <<>>
  BY <1>1, <1>2 DEF Stream
<1>4. <<Started>> \in Seq(Event)
  BY Vocabulary
<1> QED  BY <1>3, <1>4, ConcatEmptySeq

\* A step that touches none of its parts keeps the stream.
LEMMA SameStream ==
  ASSUME UNCHANGED <<journal, batch, audit_events>>, InFlight' <=> InFlight
  PROVE  Stream' = Stream
BY DEF Stream

----------------------------------------------------------------------------
\* What the whole stream tells, as it grows.

\* What the stream has to tell is knowledge of a reader.
LEMMA ToldType ==
  ASSUME Course
  PROVE  /\ Told \in Known
         /\ Told.charged = spent - (group + ChargeFlush * finalized)
         /\ Told.open = OwedBefore \o Owed
         /\ Told.yields = poll_index
         /\ spent \in Nat /\ poll_index \in Nat
         /\ group \in Nat /\ ChargeFlush * finalized \in Nat
<1>1. spent \in Nat /\ poll_index \in Nat /\ group \in Nat
        /\ ChargeFlush * finalized \in Nat
        /\ last_yield \in Yield /\ saved_yield \in Yield
  BY ConstantsTypes DEF Course, Types, ChargeTypes, YieldTypes
<1>2. Owed \in Seq(Yield) /\ OwedBefore \in Seq(Yield)
  BY <1>1 DEF Owed, OwedBefore
<1>3. OwedBefore \o Owed \in Seq(Yield)
  BY <1>2, ConcatProperties
<1>4. spent - (group + ChargeFlush * finalized) \in Int
  BY <1>1
<1> QED  BY <1>1, <1>3, <1>4 DEF Told, Known

\* A charge is open until it is drained: spent and open groups grow together.
LEMMA NoteChargeTold ==
  ASSUME Course, NoteCharge, UNCHANGED yields
  PROVE  Told' = Told
<1>1. spent \in Nat /\ finalized \in Nat /\ group \in 0..(ChargeFlush - 1)
        /\ ChargeFlush \in Nat \ {0}
  BY ConstantsTypes DEF Course, Types, ChargeTypes
<1>2. /\ spent' = spent + 1 /\ group' = (group + 1) % ChargeFlush
      /\ finalized' = finalized + (group + 1) \div ChargeFlush
  BY DEF NoteCharge
<1>3. group' + ChargeFlush * finalized' = group + ChargeFlush * finalized + 1
  <2>1. CASE group + 1 < ChargeFlush
    <3>1. /\ (group + 1) % ChargeFlush = group + 1
          /\ (group + 1) \div ChargeFlush = 0
      BY <1>1, <2>1
    <3>2. group' = group + 1 /\ finalized' = finalized
      BY <1>1, <1>2, <3>1
    <3>3. ChargeFlush * finalized \in Nat
      BY <1>1
    <3> QED  BY <1>1, <3>2, <3>3
  <2>2. CASE group + 1 = ChargeFlush
    <3>1. (group + 1) % ChargeFlush = 0 /\ (group + 1) \div ChargeFlush = 1
      BY <1>1, <2>2
    <3>2. group' = 0 /\ finalized' = finalized + 1
      BY <1>1, <1>2, <3>1
    <3>3. ChargeFlush * (finalized + 1) = ChargeFlush * finalized + ChargeFlush
            /\ ChargeFlush * finalized \in Nat
      BY <1>1
    <3> QED  BY <1>1, <2>2, <3>2, <3>3
  <2> QED  BY <1>1, <2>1, <2>2
<1>4. ChargeFlush * finalized \in Nat
  BY <1>1
<1>5. spent' - (group' + ChargeFlush * finalized')
        = spent - (group + ChargeFlush * finalized)
  <2> DEFINE a == group' + ChargeFlush * finalized'
             b == group + ChargeFlush * finalized
  <2>1. a = b + 1 /\ b \in Nat
    BY <1>1, <1>3, <1>4
  <2> HIDE DEF a, b
  <2>2. spent' - a = spent - b
    BY <1>1, <1>2, <2>1
  <2> QED  BY <2>2 DEF a, b
<1>6. OwedBefore' = OwedBefore /\ Owed' = Owed /\ poll_index' = poll_index
  BY DEF yields, OwedBefore, Owed
<1> QED  BY <1>5, <1>6 DEF Told

\* A step that touches no charge and no yield has nothing new to tell.
LEMMA SameTold ==
  ASSUME UNCHANGED <<charges, yields>>
  PROVE  Told' = Told
BY DEF charges, yields, Told, OwedBefore, Owed

\* A single event that begins no triple.
LEMMA TellsOne ==
  ASSUME NEW s \in Seq(Event), Tells(s), NEW e \in Event,
         e.kind # "HostCallStarted", FollowsFrom(LastRead(s), e)
  PROVE  /\ Tells(Append(s, e)) /\ Append(s, e) = s \o <<e>>
         /\ LastRead(Append(s, e)) = Reading(LastRead(s), e)
<1>1. AllFollow(s) /\ Whole(s)
  BY DEF Tells
<1>2. Append(s, e) \in Seq(Event) /\ AllFollow(Append(s, e))
        /\ LastRead(Append(s, e)) = Reading(LastRead(s), e)
  BY <1>1, FollowAppend
<1>3. Append(s, e) = s \o <<e>>
  BY AppendIsConcat
<1> DEFINE t == <<e>>
<1>4. t \in Seq(Event) /\ \A i \in DOMAIN t : t[i].kind # "HostCallStarted"
  OBVIOUS
<1> HIDE DEF t
<1>5. Whole(t)
  BY <1>4, WholeQuiet
<1>6. Whole(s \o t)
  BY <1>1, <1>4, <1>5, WholeConcat
<1> QED  BY <1>2, <1>3, <1>6 DEF Tells, t

\* A host call tells nothing of charges and yields.
LEMMA TellsTriple ==
  ASSUME NEW s \in Seq(Event), Tells(s)
  PROVE  Tells(s \o Triple) /\ LastRead(s \o Triple) = LastRead(s)
<1>1. Whole(s \o Triple) /\ s \o Triple \in Seq(Event)
  BY TripleIsWhole, WholeConcat, ConcatProperties DEF Tells
<1> DEFINE e1 == Triple[1]
           e2 == Triple[2]
           e3 == Triple[3]
           s1 == Append(s, e1)
           s2 == Append(s1, e2)
           s3 == Append(s2, e3)
           quiet == {"HostCallStarted", "CapabilityDecision", "HostCallFinished"}
<1>2. /\ e1 \in Event /\ e2 \in Event /\ e3 \in Event
      /\ e1.kind \in quiet /\ e2.kind \in quiet /\ e3.kind \in quiet
      /\ Triple = Append(Append(Append(<<>>, e1), e2), e3)
  <2>1. Triple[1] \in Event /\ Triple[2] \in Event /\ Triple[3] \in Event
    BY DEF Event
  <2> QED  BY <2>1 DEF Triple
<1> HIDE DEF e1, e2, e3
<1>3. s1 \in Seq(Event) /\ s2 \in Seq(Event)
  BY <1>2
<1>4. AllFollow(s1) /\ LastRead(s1) = LastRead(s)
  BY <1>2, FollowQuiet DEF Tells
<1>5. AllFollow(s2) /\ LastRead(s2) = LastRead(s)
  <2> HIDE DEF s1
  <2> QED  BY <1>2, <1>3, <1>4, FollowQuiet
<1>6. AllFollow(s3) /\ LastRead(s3) = LastRead(s)
  <2> HIDE DEF s1, s2
  <2> QED  BY <1>2, <1>3, <1>5, FollowQuiet
<1>7. s \o Triple = s3
  <2> DEFINE t1 == Append(<<>>, e1)
             t2 == Append(t1, e2)
  <2>1. <<>> \in Seq(Event) /\ t1 \in Seq(Event) /\ t2 \in Seq(Event)
    BY <1>2
  <2>2. s \o <<>> = s
    BY ConcatEmptySeq
  <2>3. s \o t1 = s1
    BY <1>2, <2>1, <2>2, ConcatAppend
  <2> HIDE DEF t1, s1
  <2>4. s \o t2 = s2
    BY <1>2, <2>1, <2>3, ConcatAppend
  <2> HIDE DEF t2, s2
  <2>5. s \o Append(t2, e3) = s3
    BY <1>2, <2>1, <2>4, ConcatAppend
  <2> QED  BY <1>2, <2>5 DEF t1, t2
<1> QED  BY <1>1, <1>6, <1>7 DEF Tells

\* A yield closes the charges of the slice before it takes its place.
LEMMA TellsYielded ==
  ASSUME Course, NEW s \in Seq(Event), Tells(s), LastRead(s) = Told,
         Len(Told.open) < 2,
         NEW reason \in {"SliceFuelExhausted", "AuditBackpressure"}
  PROVE  LET y == [reason |-> reason, index |-> poll_index]
             t == s \o Append(Drained, Yielded(y))
         IN  /\ Tells(t) /\ Append(Drained, Yielded(y)) \in Seq(Normal)
             /\ y \in Yield
             /\ LastRead(t) = [charged |-> spent, open |-> Append(Told.open, y),
                               yields |-> poll_index + 1]
<1> DEFINE y == [reason |-> reason, index |-> poll_index]
           e == Yielded(y)
           d == s \o Drained
<1>1. y \in Yield /\ Append(Drained, e) \in Seq(Normal) /\ y.index = poll_index
  BY YieldRecord DEF Course
<1>2. Drained \in Seq(Event) /\ Whole(Drained)
  BY DrainedIsWhole DEF Course, Types, ChargeTypes
<1>3. /\ d \in Seq(Event) /\ AllFollow(d)
      /\ LastRead(d) =
           [charged |-> Told.charged + (group + ChargeFlush * finalized),
            open |-> Told.open, yields |-> Told.yields]
  BY FollowDrained DEF Tells, Course, Types, ChargeTypes
<1>4. Told.charged + (group + ChargeFlush * finalized) = spent
        /\ Told.yields = poll_index
  <2> DEFINE a == group + ChargeFlush * finalized
  <2>1. a \in Nat /\ spent \in Nat /\ Told.charged = spent - a
    BY ToldType
  <2> HIDE DEF a
  <2>2. Told.charged + a = spent
    BY <2>1
  <2> QED  BY <2>2, ToldType DEF a
<1> DEFINE k == LastRead(d)
<1>5. k = [charged |-> spent, open |-> Told.open, yields |-> poll_index]
  BY <1>3, <1>4
<1>6. Tells(d)
  BY <1>2, <1>3, WholeConcat DEF Tells
<1>7. e \in Event /\ e.kind = "Yielded" /\ e.usage = spent /\ e.yield = y
  <2>1. e \in Normal
    BY <1>1, Vocabulary, ToldType DEF Yielded
  <2> QED  BY <2>1, Vocabulary DEF Yielded
<1> HIDE DEF y, e
<1>8. FollowsFrom(k, e)
  BY <1>1, <1>5, <1>7 DEF FollowsFrom
<1> HIDE DEF d
<1>9. Tells(Append(d, e)) /\ LastRead(Append(d, e)) = Reading(k, e)
  BY <1>3, <1>6, <1>7, <1>8, TellsOne
<1>10. Reading(k, e) = [charged |-> spent, open |-> Append(Told.open, y),
                        yields |-> poll_index + 1]
  <2>1. spent \in Nat /\ poll_index \in Nat
    BY ToldType
  <2>2. k.charged = spent /\ k.open = Told.open /\ k.yields = poll_index
    BY <1>5
  <2> HIDE DEF k
  <2> QED  BY <1>7, <2>1, <2>2, SMTT(30) DEF Reading
<1>11. s \o Append(Drained, e) = Append(d, e)
  BY <1>2, <1>7, ConcatAppend DEF d
<1> QED  BY <1>1, <1>9, <1>10, <1>11 DEF y, e

\* A resume answers the innermost yield.
LEMMA TellsResumed ==
  ASSUME Course, NEW s \in Seq(Event), Tells(s), LastRead(s) = Told,
         group = 0, finalized = 0, NEW o \in Seq(Yield),
         Told.open = Append(o, last_yield)
  PROVE  /\ Tells(s \o <<Resumed(last_yield)>>)
         /\ LastRead(s \o <<Resumed(last_yield)>>) =
              [charged |-> spent, open |-> o, yields |-> poll_index]
<1> DEFINE e == Resumed(last_yield)
<1>1. last_yield \in Yield /\ spent \in Nat /\ poll_index \in Nat
  BY DEF Course, Types, ChargeTypes, YieldTypes
<1>2. e \in Event /\ e.kind = "Resumed" /\ e.usage = spent
        /\ e.yield = last_yield
  <2>1. e \in Normal
    BY <1>1, Vocabulary DEF Resumed
  <2> QED  BY <2>1, Vocabulary DEF Resumed
<1>3. Told.charged = spent /\ Told.yields = poll_index
  <2>1. ChargeFlush * 0 = 0
    BY ConstantsTypes
  <2>2. group + ChargeFlush * finalized = 0
    BY <2>1
  <2>3. Told.charged = spent - 0 /\ Told.yields = poll_index
    BY <2>2, ToldType
  <2> QED  BY <1>1, <2>3
<1> DEFINE p == Append(o, last_yield)
<1>4. /\ p # <<>> /\ Len(p) = Len(o) + 1 /\ p[Len(p)] = last_yield
      /\ SubSeq(p, 1, Len(p) - 1) = o
  <2>1. /\ p \in Seq(Yield) /\ p # <<>> /\ Len(p) = Len(o) + 1
        /\ p[Len(o) + 1] = last_yield /\ \A i \in 1..Len(o) : p[i] = o[i]
    BY <1>1, AppendProperties
  <2> HIDE DEF p
  <2>2. Len(p) - 1 = Len(o) /\ Len(o) \in Nat
    BY <2>1
  <2> DEFINE q == SubSeq(p, 1, Len(o))
  <2>3. q \in Seq(Yield) /\ Len(q) = Len(o) /\ \A i \in 1..Len(o) : q[i] = p[i]
    <3>1. \A i \in 1..Len(o) : p[i] \in Yield
      BY <2>1, <2>2
    <3> QED  BY <2>2, <3>1
  <2> HIDE DEF q
  <2>4. q = o
    BY <2>1, <2>3, SeqEqual
  <2> QED  BY <2>1, <2>2, <2>4 DEF q
<1> HIDE DEF p
<1>5. Told.open = p
  BY DEF p
<1> HIDE DEF e
<1>6. FollowsFrom(Told, e)
  BY <1>2, <1>3, <1>4, <1>5 DEF FollowsFrom
<1>7. Tells(Append(s, e)) /\ Append(s, e) = s \o <<e>>
        /\ LastRead(Append(s, e)) = Reading(Told, e)
  BY <1>2, <1>6, TellsOne
<1>8. Reading(Told, e) = [charged |-> spent, open |-> o, yields |-> poll_index]
  BY <1>1, <1>2, <1>3, <1>4, <1>5 DEF Reading
<1> QED  BY <1>7, <1>8 DEF e

\* A step that changes neither the stream nor what it has to tell.
LEMMA TellingSame ==
  ASSUME Telling, InRun' => InRun, Stream' = Stream, Told' = Told
  PROVE  Telling'
BY DEF Telling

\* A fresh run has told nothing yet.
LEMMA TellingInstall ==
  ASSUME Course, Install
  PROVE  Telling'
<1>1. Stream' = <<Started>>
  BY InstallStream
<1>2. Started \in Event /\ Started.kind = "Started"
  BY Vocabulary DEF Started
<1> DEFINE e == <<>>
<1>3. e \in Seq(Event) /\ Len(e) = 0 /\ DOMAIN e = {}
  OBVIOUS
<1>4. Tells(e)
  BY <1>3 DEF Tells, AllFollow, Whole
<1>5. LastRead(e) = Nothing
  BY <1>3, ReadFacts DEF LastRead
<1>6. <<Started>> = Append(e, Started)
  OBVIOUS
<1> HIDE DEF e
<1>7. Tells(Append(e, Started))
  <2>1. FollowsFrom(LastRead(e), Started)
    BY <1>2 DEF FollowsFrom
  <2> QED  BY <1>2, <1>3, <1>4, <2>1, TellsOne
<1>8. LastRead(Append(e, Started)) = Nothing
  BY <1>2, <1>3, <1>4, <1>5, FollowQuiet DEF Tells
<1>9. Told' = Nothing
  <2>1. /\ spent' = 0 /\ group' = 0 /\ finalized' = 0 /\ poll_index' = 0
        /\ last_yield' = NoYield /\ saved_yield' = NoYield
    BY DEF Install
  <2>2. ChargeFlush * 0 = 0
    BY ConstantsTypes
  <2>3. spent' - (group' + ChargeFlush * finalized') = 0
    BY <2>1, <2>2
  <2>4. OwedBefore' \o Owed' = <<>>
    BY <2>1 DEF OwedBefore, Owed
  <2> QED  BY <2>1, <2>3, <2>4 DEF Told, Nothing
<1> QED  BY <1>1, <1>6, <1>7, <1>8, <1>9 DEF Telling

\* A host call pushes its triple and notes one charge.
LEMMA TellingCall ==
  ASSUME Course, Telling, Call
  PROVE  Telling'
<1>1. InRun
  BY Alive DEF Call, Executes, AtBoundary
<1>2. /\ audit_events' = audit_events \o Triple
      /\ UNCHANGED <<journal, batch, at>> /\ UNCHANGED yields /\ NoteCharge
  BY DEF Call, Push, delivery
<1>3. InFlight' <=> InFlight
  BY <1>2 DEF InFlight, Closing
<1>4. Stream' = Stream \o Triple
  BY <1>2, <1>3, PushStream, TripleIsWhole
<1>5. Told' = Told
  BY <1>2, NoteChargeTold
<1> QED  BY <1>1, <1>4, <1>5, StreamType, TellsTriple DEF Telling

\* A slice that begins answers the yield of the slice before.
LEMMA TellingResumeSlice ==
  ASSUME Course, Pauses, Telling, ResumeSlice
  PROVE  Telling'
<1>1. InRun /\ at = "slice" /\ at' = "boundary"
  BY Alive DEF ResumeSlice
<1>2. /\ Push(IF last_yield = NoYield THEN <<>> ELSE <<Resumed(last_yield)>>)
      /\ UNCHANGED <<journal, batch, group, finalized, spent, poll_index,
                     saved_yield>>
      /\ last_yield' = NoYield
  BY DEF ResumeSlice, delivery, charges
<1>3. InFlight' <=> InFlight
  BY <1>1 DEF InFlight
<1>4. saved_yield = NoYield
  BY <1>1 DEF Pauses, YieldsInv, Waits
<1>5. OwedBefore = <<>> /\ OwedBefore' = <<>> /\ Owed' = <<>>
  BY <1>2, <1>4 DEF OwedBefore, Owed
<1>6. CASE last_yield = NoYield
  <2>1. audit_events' = audit_events
    <3>1. audit_events \in Seq(Event)
      BY StreamType
    <3>2. audit_events' = audit_events \o <<>>
      BY <1>2, <1>6 DEF Push
    <3> QED  BY <3>1, <3>2, ConcatEmptySeq
  <2>2. Stream' = Stream
    BY <1>2, <1>3, <2>1, SameStream
  <2>3. Told' = Told
    BY <1>2, <1>6 DEF Told, OwedBefore, Owed
  <2> QED  BY <1>1, <2>2, <2>3, TellingSame
<1>7. CASE last_yield # NoYield
  <2>1. group = 0 /\ finalized = 0
    BY <1>1, <1>7 DEF Pauses, YieldsInv
  <2>2. audit_events' = audit_events \o <<Resumed(last_yield)>>
          /\ <<Resumed(last_yield)>> \in Seq(Event)
    BY <1>2, <1>7, ResumedType, Vocabulary, SeqMonotonic DEF Push, Course
  <2>3. Stream' = Stream \o <<Resumed(last_yield)>>
    BY <1>2, <1>3, <2>2, PushStream
  <2>4. Told.open = Append(<<>>, last_yield) /\ <<>> \in Seq(Yield)
    <3>1. Told.open = <<>> \o <<last_yield>>
      BY <1>5, <1>7, ToldType DEF Owed
    <3> QED  BY <3>1
  <2>5. /\ Tells(Stream')
        /\ LastRead(Stream') = [charged |-> spent, open |-> <<>>,
                                yields |-> poll_index]
    BY <1>1, <2>1, <2>3, <2>4, StreamType, TellsResumed DEF Telling
  <2>6. Told' = [charged |-> spent, open |-> <<>>, yields |-> poll_index]
    <3>1. OwedBefore' \o Owed' = <<>>
      BY <1>5
    <3>2. spent' - (group' + ChargeFlush * finalized') = spent
      <4>1. ChargeFlush * 0 = 0
        BY ConstantsTypes
      <4> QED  BY <1>2, <2>1, <4>1, ToldType
    <3> QED  BY <1>2, <3>1, <3>2 DEF Told
  <2> QED  BY <2>5, <2>6 DEF Telling
<1> QED  BY <1>6, <1>7

\* Both waits: of the slice for its fuel or its queue, of a batch for its sink.
LEMMA TellingYield ==
  ASSUME Course, Telling, InRun,
         NEW reason \in {"SliceFuelExhausted", "AuditBackpressure"},
         RecordYield(reason), UNCHANGED <<journal, batch>>,
         InFlight' <=> InFlight, saved_yield = NoYield,
         saved_yield' = last_yield
  PROVE  Telling'
<1> DEFINE y == [reason |-> reason, index |-> poll_index]
           events == Append(Drained, Yielded(y))
<1>1. /\ audit_events' = audit_events \o events
      /\ group' = 0 /\ finalized' = 0 /\ spent' = spent
      /\ last_yield' = y /\ poll_index' = poll_index + 1
  BY DEF RecordYield, Push, Drain
<1>2. Told.open = Owed /\ Len(Owed) < 2
  <2>1. Told.open = <<>> \o Owed
    BY ToldType DEF OwedBefore
  <2>2. Owed = <<>> \/ Owed = <<last_yield>>
    BY DEF Owed
  <2> QED  BY <2>1, <2>2
<1>3. /\ Tells(Stream \o events) /\ events \in Seq(Normal) /\ y \in Yield
      /\ LastRead(Stream \o events) =
           [charged |-> spent, open |-> Append(Told.open, y),
            yields |-> poll_index + 1]
  BY <1>2, StreamType, TellsYielded DEF Telling
<1>4. y # NoYield
  BY DEF NoYield
<1> HIDE DEF y, events
<1>5. events \in Seq(Event)
  BY <1>3, Vocabulary, SeqMonotonic
<1>6. Stream' = Stream \o events
  BY <1>1, <1>5, PushStream
<1>7. Told' = [charged |-> spent, open |-> Append(Told.open, y),
               yields |-> poll_index + 1]
  <2>1. spent' - (group' + ChargeFlush * finalized') = spent
    <3>1. ChargeFlush * 0 = 0
      BY ConstantsTypes
    <3> QED  BY <1>1, <3>1, ToldType
  <2>2. OwedBefore' = Owed /\ Owed' = <<y>>
    BY <1>1, <1>4 DEF OwedBefore, Owed
  <2>3. OwedBefore' \o Owed' = Append(Owed, y)
    <3>1. Owed = <<>> \/ Owed = <<last_yield>>
      BY DEF Owed
    <3> QED  BY <2>2, <3>1
  <2> QED  BY <1>1, <1>2, <2>1, <2>3 DEF Told
<1> QED  BY <1>3, <1>6, <1>7 DEF Telling

\* A flush tells the open charges.
LEMMA TellingFlush ==
  ASSUME Course, Telling, Flush
  PROVE  Telling'
<1>1. /\ InRun /\ UNCHANGED yields /\ spent' = spent /\ group' = 0
      /\ finalized' = 0
  BY Alive DEF Flush, Drain
<1>2. Stream' = Stream \o Drained
  BY FlushStream
<1>3. Tells(Stream) /\ LastRead(Stream) = Told
  BY <1>1 DEF Telling
<1>4. /\ Stream' \in Seq(Event) /\ AllFollow(Stream')
      /\ LastRead(Stream') =
           [charged |-> Told.charged + (group + ChargeFlush * finalized),
            open |-> Told.open, yields |-> Told.yields]
  BY <1>2, <1>3, FollowDrained DEF Tells, Course, Types, ChargeTypes
<1>5. Whole(Stream')
  BY <1>2, <1>3, DrainedIsWhole, WholeConcat
     DEF Tells, Course, Types, ChargeTypes
<1>6. Told.charged + (group + ChargeFlush * finalized) = spent
  <2> DEFINE a == group + ChargeFlush * finalized
  <2>1. a \in Nat /\ spent \in Nat /\ Told.charged = spent - a
    BY ToldType
  <2> HIDE DEF a
  <2>2. Told.charged + a = spent
    BY <2>1
  <2> QED  BY <2>2 DEF a
<1>7. Told' = [charged |-> spent, open |-> Told.open, yields |-> Told.yields]
  <2>1. spent' - (group' + ChargeFlush * finalized') = spent
    <3>1. ChargeFlush * 0 = 0
      BY ConstantsTypes
    <3> QED  BY <1>1, <3>1, ToldType
  <2>2. OwedBefore' = OwedBefore /\ Owed' = Owed /\ poll_index' = poll_index
    BY <1>1 DEF yields, OwedBefore, Owed
  <2> QED  BY <2>1, <2>2, ToldType DEF Told
<1> QED  BY <1>4, <1>5, <1>6, <1>7 DEF Telling, Tells

\* The Terminal finds every charge told and no yield open.
LEMMA TellingTerminal ==
  ASSUME Course, Pauses, Telling, AppendTerminal
  PROVE  Telling'
<1>1. at = "terminal" /\ UNCHANGED <<drive, group, finalized, spent, poll_index,
                                     last_yield, saved_yield>>
  BY DEF AppendTerminal, charges, yields
<1> SUFFICES ASSUME InRun'
             PROVE  Tells(Stream') /\ LastRead(Stream') = Told'
  BY DEF Telling
<1>2. InRun
  BY <1>1 DEF InRun
<1>3. /\ drive \in Outcomes /\ spent \in Nat
      /\ Stream' = Append(Stream, Terminal(drive, spent))
  BY <1>2, TerminalStream
<1>4. /\ group = 0 /\ finalized = 0 /\ last_yield = NoYield
      /\ saved_yield = NoYield
  BY <1>1, <1>2 DEF Pauses, Closed, YieldsInv, Waits
<1>5. Told.charged = spent /\ Told.open = <<>>
  <2>1. ChargeFlush * 0 = 0
    BY ConstantsTypes
  <2>2. group + ChargeFlush * finalized = 0
    BY <1>4, <2>1
  <2>3. Told.charged = spent - 0
    BY <2>2, ToldType
  <2>4. OwedBefore \o Owed = <<>>
    BY <1>4 DEF OwedBefore, Owed
  <2> QED  BY <1>3, <2>3, <2>4, ToldType
<1> DEFINE e == Terminal(drive, spent)
<1>6. e \in Event /\ e.kind = "Terminal" /\ e.usage = spent
  BY <1>3, Vocabulary
<1> HIDE DEF e
<1>7. FollowsFrom(Told, e)
  BY <1>5, <1>6 DEF FollowsFrom
<1>8. /\ Tells(Append(Stream, e))
      /\ LastRead(Append(Stream, e)) = Reading(Told, e)
  BY <1>2, <1>6, <1>7, StreamType, TellsOne DEF Telling
<1>9. Reading(Told, e) = Told
  <2> DEFINE k == Told
  <2>1. k \in Known
    BY ToldType
  <2> HIDE DEF k
  <2>2. Reading(k, e) = [charged |-> k.charged, open |-> k.open,
                         yields |-> k.yields]
    BY <1>6, <2>1 DEF Reading, Known
  <2>3. k = [charged |-> k.charged, open |-> k.open, yields |-> k.yields]
    BY <2>1 DEF Known
  <2> QED  BY <2>2, <2>3 DEF k
<1>10. Told' = Told
  BY <1>1 DEF Told, OwedBefore, Owed
<1> QED  BY <1>3, <1>8, <1>9, <1>10 DEF e

\* An acknowledgement without a wait tells nothing.
LEMMA TellingAck ==
  ASSUME Course, Telling, Ack
  PROVE  Telling'
<1>1. Delivered(<<>>) /\ <<>> \in Seq(Normal) /\ at \in Submission
        /\ UNCHANGED <<charges, yields>>
  BY ResumedType DEF Ack, Submission, Course, Delivered, yields
<1>2. CASE Closing
  <2>1. at' = "rest"
    BY <1>1, <1>2, DeliveredFacts DEF Course
  <2> QED  BY <2>1 DEF Telling, InRun
<1>3. CASE ~Closing
  <2>1. InRun
    BY <1>1, <1>3, Alive DEF InFlight, Submission
  <2>2. Stream' = Stream \o <<>>
    BY <1>1, <1>3, DeliveredStream
  <2>3. Stream' = Stream
    BY <2>2, StreamType, ConcatEmptySeq
  <2>4. Told' = Told
    BY <1>1, SameTold
  <2> QED  BY <2>1, <2>3, <2>4, TellingSame
<1> QED  BY <1>2, <1>3

\* An acknowledgement after a wait answers the yield of the wait.
LEMMA TellingResume ==
  ASSUME Course, Pauses, Telling, Resume
  PROVE  Telling'
<1> DEFINE events == <<Resumed(last_yield)>>
<1>1. /\ Delivered(events) /\ events \in Seq(Normal) /\ at \in {"pending", "resend"}
      /\ at \in Submission /\ UNCHANGED <<charges, poll_index>>
      /\ last_yield' = saved_yield /\ saved_yield' = NoYield
  BY ResumedType DEF Resume, Submission, Course, Delivered
<1> HIDE DEF events
<1>2. CASE Closing
  <2>1. at' = "rest"
    BY <1>1, <1>2, DeliveredFacts DEF Course
  <2> QED  BY <2>1 DEF Telling, InRun
<1>3. CASE ~Closing
  <2>1. InRun
    BY <1>1, <1>3, Alive DEF InFlight, Submission
  <2>2. Stream' = Stream \o events
    BY <1>1, <1>3, DeliveredStream
  <2>3. group = 0 /\ finalized = 0 /\ last_yield.reason # "none"
    BY <1>1, <2>1 DEF Pauses, Closed, YieldsInv, Waits, IsYield
  <2>4. Owed = <<last_yield>> /\ last_yield \in Yield
    BY <2>3 DEF Owed, NoYield, Course, Types, YieldTypes
  <2>5. OwedBefore \in Seq(Yield)
    BY DEF OwedBefore, Course, Types, YieldTypes
  <2>6. Told.open = Append(OwedBefore, last_yield)
    BY <2>4, <2>5, ToldType, AppendIsConcat
  <2>7. /\ Tells(Stream')
        /\ LastRead(Stream') = [charged |-> spent, open |-> OwedBefore,
                                yields |-> poll_index]
    BY <2>1, <2>2, <2>3, <2>5, <2>6, StreamType, TellsResumed
       DEF Telling, events
  <2>8. Told' = [charged |-> spent, open |-> OwedBefore, yields |-> poll_index]
    <3>1. spent' - (group' + ChargeFlush * finalized') = spent
      <4>1. ChargeFlush * 0 = 0
        BY ConstantsTypes
      <4> QED  BY <1>1, <2>3, <4>1, ToldType DEF charges
    <3>2. OwedBefore' = <<>> /\ Owed' = OwedBefore
      BY <1>1 DEF OwedBefore, Owed
    <3>3. OwedBefore' \o Owed' = OwedBefore
      BY <2>5, <3>2, ConcatEmptySeq
    <3> QED  BY <1>1, <3>1, <3>3 DEF Told
  <2> QED  BY <2>7, <2>8 DEF Telling
<1> QED  BY <1>2, <1>3

\* Every step keeps the stream one that adds up to its end.
LEMMA TellingStep ==
  ASSUME Course, Pauses, Telling, [Next]_vars
  PROVE  Telling'
<1> SUFFICES ASSUME InRun'
             PROVE  Telling'
  BY DEF Telling
<1>1. CASE Install
  BY <1>1, TellingInstall
<1>2. CASE LinkFails
  <2>1. InRun /\ at' = "flush"
    BY <1>2, Alive DEF LinkFails
  <2>2. Stream' = Stream
    BY <1>2, <2>1, SameStream DEF LinkFails, stream, delivery, InFlight
  <2>3. Told' = Told
    BY <1>2, SameTold, NoteChargeTold DEF LinkFails
  <2> QED  BY <2>1, <2>2, <2>3, TellingSame
<1>3. CASE Link
  <2>1. InRun /\ at' = "slice"
    BY <1>3, Alive DEF Link
  <2>2. Stream' = Stream
    BY <1>3, <2>1, SameStream DEF Link, stream, delivery, InFlight
  <2>3. Told' = Told
    BY <1>3, NoteChargeTold DEF Link
  <2> QED  BY <2>1, <2>2, <2>3, TellingSame
<1>4. CASE ResumeSlice
  BY <1>4, TellingResumeSlice
<1>5. CASE Finish \/ StopSlice \/ EndScript
  <2>1. /\ InRun /\ at = "boundary" /\ at' = "flush"
        /\ UNCHANGED <<charges, yields, stream, delivery>>
    BY <1>5, Alive DEF Finish, StopSlice, EndScript, EndSlice, Executes,
       AtBoundary
  <2>2. Stream' = Stream
    BY <2>1, SameStream DEF stream, delivery, InFlight
  <2> QED  BY <2>1, <2>2, SameTold, TellingSame
<1>6. CASE YieldSlice
  <2>1. InRun /\ at = "boundary" /\ at' = "flush"
          /\ saved_yield' = saved_yield /\ UNCHANGED <<journal, batch>>
    BY <1>6, Alive DEF YieldSlice, AtBoundary, delivery
  <2>2. saved_yield = NoYield /\ last_yield = NoYield
    BY <2>1 DEF Pauses, YieldsInv, Waits
  <2>3. InFlight' <=> InFlight
    BY <2>1 DEF InFlight
  <2>4. PICK reason \in {"SliceFuelExhausted", "AuditBackpressure"} :
          RecordYield(reason)
    BY <1>6 DEF YieldSlice
  <2> QED  BY <2>1, <2>2, <2>3, <2>4, TellingYield
<1>7. CASE Work
  <2>1. InRun /\ at = "boundary" /\ at' = at
    BY <1>7, Alive DEF Work, Executes, AtBoundary
  <2>2. Stream' = Stream
    BY <1>7, <2>1, SameStream DEF Work, stream, delivery, InFlight
  <2>3. Told' = Told
    BY <1>7, NoteChargeTold DEF Work
  <2> QED  BY <2>1, <2>2, <2>3, TellingSame
<1>8. CASE Call
  BY <1>8, TellingCall
<1>9. CASE Flush
  BY <1>9, TellingFlush
<1>10. CASE AppendEvent
  <2>1. InRun /\ UNCHANGED <<charges, yields>>
    BY <1>10, Alive DEF AppendEvent
  <2> QED  BY <1>10, <2>1, AppendEventStream, SameTold, TellingSame
<1>11. CASE AppendTerminal
  BY <1>11, TellingTerminal
<1>12. CASE Ack
  BY <1>12, TellingAck
<1>13. CASE Wait
  <2>1. /\ InRun /\ at = "submit" /\ at' = "pending" /\ drive' = drive
        /\ saved_yield' = last_yield /\ RecordYield("AuditBackpressure")
        /\ UNCHANGED <<journal, batch>>
    BY <1>13 DEF Wait, InRun, program, delivery
  <2>2. saved_yield = NoYield
    BY <2>1 DEF Pauses, YieldsInv, Waits
  <2>3. InFlight' <=> InFlight
    BY <2>1 DEF InFlight, Closing
  <2> QED  BY <2>1, <2>2, <2>3, TellingYield
<1>14. CASE Resume
  BY <1>14, TellingResume
<1>15. CASE Resend \/ StillPending
  <2>1. /\ at \in Submission /\ at' \in Submission /\ drive' = drive
        /\ UNCHANGED <<charges, yields, stream, delivery>>
    BY <1>15 DEF Resend, StillPending, program, Submission
  <2>2. InRun /\ Stream' = Stream
    BY <2>1, SameStream
       DEF InRun, Submission, InFlight, Closing, stream, delivery
  <2> QED  BY <2>1, <2>2, SameTold, TellingSame
<1>16. ASSUME \/ \E answer \in {"acked", "refused"} : Complete(answer)
              \/ \E why \in {"Cancelled", "DeadlineExceeded"} : Stop(why)
              \/ UNCHANGED vars
       PROVE  Telling'
  <2>1. /\ at' = at /\ drive' = drive
        /\ UNCHANGED <<charges, yields, stream, delivery>>
    BY <1>16 DEF Complete, Stop, vars
  <2>2. InRun /\ Stream' = Stream
    BY <2>1, SameStream DEF InRun, InFlight, Closing, stream, delivery
  <2> QED  BY <2>1, <2>2, SameTold, TellingSame
<1>17. ASSUME \/ TurnAway \/ FailPrecondition \/ LastWord \/ SinkEscapes
              \/ \E s \in UNION {Scripts[i] : i \in DOMAIN Scripts} : Open(s)
              \/ StartedAck \/ StartedRefused
       PROVE  FALSE
  <2>1. at' \in {"rest", "started", "install", "lastword"}
    BY <1>17 DEF TurnAway, FailPrecondition, LastWord, SinkEscapes, Open,
       Begins, Return, StartedAck, StartedRefused
  <2> QED  BY <2>1 DEF InRun
<1>18. ASSUME \/ JournalFull \/ Refuse \/ WaitedTooLong
       PROVE  FALSE
  <2>1. PICK f \in {"Sink", "BudgetExceeded", "BackpressureDeadline"} :
          GiveUp(f)
    BY <1>18 DEF JournalFull, Refuse, WaitedTooLong
  <2>2. at' = "rest"
    BY <2>1 DEF GiveUp, Return
  <2> QED  BY <2>2 DEF InRun
<1>19. ASSUME Panic \/ SinkPanics
       PROVE  FALSE
  BY <1>19 DEF Panic, SinkPanics, Unwind, InRun
<1> QED  BY <1>1, <1>2, <1>3, <1>4, <1>5, <1>6, <1>7, <1>8, <1>9, <1>10, <1>11,
         <1>12, <1>13, <1>14, <1>15, <1>16, <1>17, <1>18, <1>19 DEF Next, Facade

----------------------------------------------------------------------------
\* A journal that runs full.

\* can_reserve_host_call: every step keeps the room of a host call.
LEMMA ReservedStep ==
  ASSUME Course, Reserved, [Next]_vars
  PROVE  Reserved'
<1>0. room' = room
  BY DEF Next, Facade, TurnAway, FailPrecondition, Open, StartedAck,
     StartedRefused, LastWord, Install, LinkFails, Link, ResumeSlice, Finish,
     StopSlice, YieldSlice, Work, Call, EndScript, Panic, Unwind, Flush,
     AppendEvent, JournalFull, GiveUp, AppendTerminal, Ack, Delivered, Refuse,
     Wait, Resend, Resume, StillPending, WaitedTooLong, SinkPanics,
     SinkEscapes, Complete, Stop, vars
<1>1. CASE at = "rest"
  <2>1. CASE at' = "rest"
    BY <2>1 DEF Reserved
  <2>2. CASE at' # "rest"
    <3>1. PICK s \in UNION {Scripts[i] : i \in DOMAIN Scripts} : Open(s)
      BY <1>1, <2>2 DEF Next, Facade, TurnAway, FailPrecondition, Return,
         StartedAck, StartedRefused, LastWord, Install, LinkFails, Link,
         ResumeSlice, Finish, StopSlice, YieldSlice, Work, Call, EndScript,
         Panic, Executes, AtBoundary, Flush, AppendEvent, JournalFull,
         AppendTerminal, Ack, Refuse, Submitted, Wait, Resend, Resume,
         StillPending, WaitedTooLong, SinkPanics, SinkEscapes, Complete, Stop,
         vars
    <3>2. journal' = <<Started>>
      BY <2>2, <3>1 DEF Open, Return
    <3> QED  BY <3>2 DEF Reserved, Started
  <2> QED  BY <2>1, <2>2
<1>2. CASE at # "rest" /\ journal' = journal
  BY <1>0, <1>2 DEF Reserved
<1>3. CASE AppendEvent
  <2>1. /\ at = "append" /\ journal' = Append(journal, Head(batch))
        /\ Len(journal) + Needed(Head(batch)) <= room
    BY <1>3 DEF AppendEvent, Fits
  <2>2. journal \in Seq(Event) /\ Head(batch) \in Event /\ Len(journal) \in Nat
    BY <1>3, AppendEventFacts, StreamType, Vocabulary DEF Course
  <2>3. /\ Len(journal') = Len(journal) + 1 /\ DOMAIN journal' = 1..Len(journal')
        /\ journal'[Len(journal) + 1] = Head(batch)
        /\ \A i \in 1..Len(journal) : journal'[i] = journal[i]
    <3>1. Append(journal, Head(batch)) \in Seq(Event)
      BY <2>2
    <3> QED  BY <2>1, <2>2, <3>1, AppendProperties
  <2>4. ASSUME NEW i \in DOMAIN journal', journal'[i].kind = "HostCallStarted"
        PROVE  i + 2 <= room
    <3>1. CASE i = Len(journal) + 1
      <4>1. Needed(Head(batch)) = 3
        BY <2>3, <2>4, <3>1 DEF Needed, Triple
      <4>2. room \in Nat
        BY ConstantsTypes DEF Course, Types, ContextTypes
      <4> QED  BY <2>1, <2>2, <3>1, <4>1, <4>2
    <3>2. CASE i # Len(journal) + 1
      <4>1. i \in 1..Len(journal) /\ journal'[i] = journal[i]
        BY <2>2, <2>3, <3>2
      <4> QED  BY <2>1, <2>2, <2>4, <4>1 DEF Reserved
    <3> QED  BY <3>1, <3>2
  <2> QED  BY <1>0, <2>4 DEF Reserved
<1>4. CASE AppendTerminal \/ StartedRefused
  <2>1. PICK o \in Outcomes, u \in Nat :
          journal' = Append(journal, Terminal(o, u))
    BY <1>4 DEF AppendTerminal, StartedRefused, Close, Outcomes, Course, Types,
       ContextTypes, ChargeTypes, Control, Late
  <2> DEFINE e == Terminal(o, u)
  <2>2. e \in Event /\ e.kind = "Terminal" /\ journal \in Seq(Event)
    BY StreamType, Vocabulary
  <2> HIDE DEF e
  <2>3. /\ Len(journal') = Len(journal) + 1 /\ DOMAIN journal' = 1..Len(journal')
        /\ journal'[Len(journal) + 1] = e
        /\ \A i \in 1..Len(journal) : journal'[i] = journal[i]
    <3>1. journal' = Append(journal, e)
      BY <2>1 DEF e
    <3>2. Append(journal, e) \in Seq(Event)
      BY <2>2
    <3> QED  BY <2>2, <3>1, <3>2, AppendProperties
  <2>4. at # "rest"
    BY <1>4 DEF AppendTerminal, StartedRefused
  <2>5. ASSUME NEW i \in DOMAIN journal', journal'[i].kind = "HostCallStarted"
        PROVE  i + 2 <= room
    <3>1. i # Len(journal) + 1
      BY <2>2, <2>3, <2>5
    <3>2. i \in 1..Len(journal) /\ journal'[i] = journal[i]
      BY <2>2, <2>3, <3>1
    <3> QED  BY <2>2, <2>4, <2>5, <3>2 DEF Reserved
  <2> QED  BY <1>0, <2>5 DEF Reserved
<1>5. CASE ~AppendEvent /\ ~AppendTerminal /\ ~StartedRefused /\ at # "rest"
  <2>1. journal' = journal
    BY <1>5 DEF Next, Facade, TurnAway, FailPrecondition, Begins, Open,
       StartedAck, LastWord, Install, LinkFails, Link, ResumeSlice, Finish,
       StopSlice, YieldSlice, Work, Call, EndScript, Panic, Unwind, Flush,
       JournalFull, GiveUp, Ack, Delivered, Refuse, Wait, Resend, Resume,
       StillPending, WaitedTooLong, SinkPanics, SinkEscapes, Complete, Stop,
       vars, delivery
  <2> QED  BY <1>2, <1>5, <2>1
<1> QED  BY <1>1, <1>3, <1>4, <1>5

\* The journal stands before the first event that did not fit: a triple that
\* it holds in part would have had its room.
LEMMA FullJournal ==
  ASSUME Course, Reserved, Telling, JournalFull
  PROVE  Whole(journal)
<1>1. at = "append" /\ ~Fits(Head(batch)) /\ batch # <<>> /\ ~InFlight /\ InRun
  BY Alive DEF JournalFull, Course, Batches, InFlight
<1>2. /\ journal \in Seq(Event) /\ batch \in Seq(Event)
      /\ audit_events \in Seq(Event)
  BY StreamType
<1> DEFINE n == Len(journal)
           s == Stream
           rest == batch \o audit_events
<1>3. n \in Nat /\ room \in Nat
  BY <1>2, ConstantsTypes DEF Course, Types, ContextTypes
<1>4. s = journal \o rest /\ rest \in Seq(Event) /\ rest # <<>>
        /\ rest[1] = Head(batch) /\ Len(rest) \in Nat \ {0}
  <2>1. s = (journal \o batch) \o audit_events
    BY <1>1 DEF Stream
  <2>2. s = journal \o rest
    BY <1>2, <2>1, ConcatAssociative
  <2>3. rest \in Seq(Event) /\ Len(rest) = Len(batch) + Len(audit_events)
          /\ \A i \in 1..(Len(batch) + Len(audit_events)) :
               rest[i] = IF i <= Len(batch) THEN batch[i]
                         ELSE audit_events[i - Len(batch)]
    BY <1>2, ConcatProperties
  <2>4. Len(batch) \in Nat \ {0} /\ Len(audit_events) \in Nat
    BY <1>1, <1>2, EmptySeq
  <2>5. rest[1] = batch[1] /\ Head(batch) = batch[1]
    BY <1>2, <2>3, <2>4
  <2>6. Len(rest) \in Nat \ {0}
    BY <2>3, <2>4
  <2> QED  BY <2>2, <2>3, <2>5, <2>6
<1> HIDE DEF rest, s
<1>5. /\ s \in Seq(Event) /\ Len(s) = n + Len(rest)
      /\ \A i \in 1..(n + Len(rest)) :
           s[i] = IF i <= n THEN journal[i] ELSE rest[i - n]
  BY <1>2, <1>4, ConcatProperties
<1>6. Whole(s)
  BY <1>1 DEF Telling, Tells, s
<1>7. ASSUME NEW i \in DOMAIN journal, journal[i].kind = "HostCallStarted"
      PROVE  HasTriple(journal, i)
  <2>1. i \in 1..n /\ i \in 1..(n + Len(rest)) /\ s[i] = journal[i]
          /\ i \in DOMAIN s
    BY <1>2, <1>3, <1>4, <1>5
  <2>2. HasTriple(s, i)
    BY <1>5, <1>6, <1>7, <2>1, WholePointwise DEF Whole
  <2>3. i + 2 <= room
    BY <1>1, <1>7 DEF Reserved
  <2>4. i + 2 <= n
    <3>1. SUFFICES ASSUME ~(i + 2 <= n)
                   PROVE  FALSE
      OBVIOUS
    <3>2. n + 1 = i + 1 \/ n + 1 = i + 2
      BY <1>3, <2>1, <3>1
    <3>3. s[n + 1] = Head(batch)
      <4>1. n + 1 \in 1..(n + Len(rest)) /\ ~(n + 1 <= n) /\ (n + 1) - n = 1
        BY <1>3, <1>4
      <4> QED  BY <1>4, <1>5, <4>1
    <3>4. Head(batch) = Triple[2] \/ Head(batch) = Triple[3]
      BY <2>2, <3>2, <3>3 DEF HasTriple
    <3>5. Needed(Head(batch)) = 1
      BY <3>4 DEF Needed, Triple
    <3> QED  BY <1>1, <1>3, <2>1, <2>3, <3>1, <3>5 DEF Fits
  <2>5. {i, i + 1, i + 2} \subseteq 1..n
    BY <1>3, <2>1, <2>4
  <2>6. \A j \in 1..n : s[j] = journal[j]
    BY <1>3, <1>4, <1>5
  <2>7. /\ s[i] = journal[i] /\ s[i + 1] = journal[i + 1]
        /\ s[i + 2] = journal[i + 2]
    BY <2>5, <2>6
  <2> QED  BY <2>2, <2>4, <2>7 DEF HasTriple
<1> QED  BY <1>2, <1>7, WholePointwise DEF Whole

\* Every step keeps a journal that ran full one of whole host calls.
LEMMA FullIsWholeStep ==
  ASSUME Course, Reserved, Telling, FullIsWhole, [Next]_vars
  PROVE  FullIsWhole'
<1> SUFFICES ASSUME at' = "rest", reply'.failure = "BudgetExceeded"
             PROVE  Whole(journal')
  BY DEF FullIsWhole, Whole
<1>1. ASSUME NEW s \in UNION {Scripts[i] : i \in DOMAIN Scripts}, Open(s)
      PROVE  Whole(journal')
  <2>1. journal' = <<>>
    BY <1>1 DEF Open
  <2> QED  BY <2>1 DEF Whole
<1>2. CASE JournalFull
  <2>1. journal' = journal
    BY <1>2 DEF JournalFull, GiveUp
  <2> QED  BY <1>2, <2>1, FullJournal
<1>3. CASE UNCHANGED vars
  BY <1>3 DEF vars, state, delivery, FullIsWhole
<1>4. ASSUME TurnAway \/ FailPrecondition \/ LastWord \/ SinkEscapes
      PROVE  FALSE
  BY <1>4 DEF TurnAway, FailPrecondition, LastWord, SinkEscapes, Return,
     Outcome, AuditFailed
<1>5. ASSUME Refuse \/ WaitedTooLong
      PROVE  FALSE
  <2>1. PICK f \in {"Sink", "BackpressureDeadline"} : GiveUp(f)
    BY <1>5 DEF Refuse, WaitedTooLong
  <2>2. reply'.failure = f
    BY <2>1 DEF GiveUp, Return, AuditFailed
  <2> QED  BY <2>2
<1>6. ASSUME Ack \/ Resume
      PROVE  FALSE
  <2>1. PICK resumed : Delivered(resumed)
    BY <1>6 DEF Ack, Resume
  <2>2. reply' = Outcome(drive)
    BY <2>1 DEF Delivered, Return
  <2> QED  BY <2>2 DEF Outcome
<1>7. ASSUME \/ \E answer \in {"acked", "refused"} : Complete(answer)
             \/ \E why \in {"Cancelled", "DeadlineExceeded"} : Stop(why)
      PROVE  FALSE
  BY <1>7 DEF Complete, Stop
<1>8. ASSUME \/ StartedAck \/ StartedRefused \/ Install \/ LinkFails \/ Link
             \/ ResumeSlice \/ Finish \/ StopSlice \/ YieldSlice
      PROVE  FALSE
  BY <1>8 DEF StartedAck, StartedRefused, Install, LinkFails, Link,
     ResumeSlice, Finish, StopSlice, YieldSlice, EndSlice
<1>9. ASSUME \/ Work \/ Call \/ EndScript \/ Panic \/ Flush \/ AppendEvent
             \/ AppendTerminal
      PROVE  FALSE
  BY <1>9 DEF Work, Call, EndScript, Panic, Unwind, EndSlice, Executes,
     AtBoundary, Flush, AppendEvent, AppendTerminal
<1>10. ASSUME Wait \/ Resend \/ StillPending \/ SinkPanics
       PROVE  FALSE
  BY <1>10 DEF Wait, Resend, StillPending, SinkPanics, Unwind
<1> QED  BY <1>1, <1>2, <1>3, <1>4, <1>5, <1>6, <1>7, <1>8, <1>9, <1>10
         DEF Next, Facade

----------------------------------------------------------------------------
\* The stream and the invariant.

\* The invariant holds of a fresh context.
LEMMA InitAuditInv ==
  ASSUME Init
  PROVE  AuditInv
<1>1. ReportInv
  BY InitReportInv
<1>2. ~InRun /\ at = "rest" /\ journal = <<>> /\ audit_queue = 0
        /\ reply.failure = "none"
  BY DEF Init, InRun, NoReply
<1> QED  BY <1>1, <1>2 DEF AuditInv, Queued, QueueIsUnacknowledged, Pauses,
         Closed, YieldsInv, Telling, Reserved, FullIsWhole

\* Every step keeps the invariant.
LEMMA AuditInvStep == AuditInv /\ [Next]_vars => AuditInv'
<1> SUFFICES ASSUME AuditInv, [Next]_vars
             PROVE  AuditInv'
  OBVIOUS
<1>1. ReportInv'
  BY ReportInvStep DEF AuditInv
<1>2. Course
  BY DEF AuditInv, ReportInv
<1> QED  BY <1>1, <1>2, QueuedStep, PausesStep, TellingStep, ReservedStep,
            FullIsWholeStep DEF AuditInv

(***************************************************************************)
(* The inductive invariant holds of every context under an audit sink.     *)
(***************************************************************************)
THEOREM AuditInvHolds == Spec => []AuditInv
BY InitAuditInv, AuditInvStep, PTL DEF Spec

\* The invariant contains the types that the run checks.
LEMMA InvIsTypeOK ==
  ASSUME AuditInv
  PROVE  TypeOK
<1>1. Types /\ audit_queue \in Nat
  BY DEF AuditInv, ReportInv, Course, Queued
<1>2. /\ audit_events \in Seq(Event) /\ batch \in Seq(Event)
      /\ journal \in Seq(Event)
  BY StreamType DEF AuditInv, ReportInv, Course
<1>3. {running, poisoned, session, progress, torn} \subseteq BOOLEAN
  BY <1>1 DEF Types, FlagTypes
<1>4. {effects, before, worked, used, finalized, spent, audit_queue,
       poll_index, resends, runs} \subseteq Nat
  BY <1>1 DEF Types, ContextTypes, ChargeTypes, YieldTypes
<1> QED  BY <1>1, <1>2, <1>3, <1>4 DEF TypeOK, Types, ContextTypes, ReplyTypes,
         ChargeTypes, YieldTypes, StreamTypes

(***************************************************************************)
(* The stream of a run adds up at every moment: the usage in an event is the *)
(* sum of the charges before it, a resume answers the innermost yield,     *)
(* yields are numbered in order and are all answered before the Terminal, and *)
(* the queue counts what the sink has not seen (eval.rs:1447, budget.rs,   *)
(* embedding.rs:3164).                                                     *)
(***************************************************************************)
THEOREM EventsAddUpHolds == Spec => []EventsAddUp
<1>1. AuditInv => EventsAddUp
  <2> SUFFICES ASSUME AuditInv
               PROVE  EventsAddUp
    OBVIOUS
  <2>1. TypeOK
    BY InvIsTypeOK
  <2>2. StreamAddsUp
    BY DEF AuditInv, Telling, Tells, AllFollow, StreamAddsUp
  <2>3. QueueIsUnacknowledged
    BY DEF AuditInv, Queued
  <2> QED  BY <2>1, <2>2, <2>3 DEF EventsAddUp
<1> QED  BY <1>1, AuditInvHolds, PTL

(***************************************************************************)
(* The stream holds host calls whole, and so does a journal that ran full: *)
(* the first event of a triple is appended only when all three fit         *)
(* (audit.rs:1483).                                                        *)
(***************************************************************************)
THEOREM TriplesWholeHolds == Spec => []TriplesWhole
<1>1. AuditInv => TriplesWhole
  BY DEF AuditInv, Telling, Tells, FullIsWhole, TriplesWhole
<1> QED  BY <1>1, AuditInvHolds, PTL
=============================================================================
