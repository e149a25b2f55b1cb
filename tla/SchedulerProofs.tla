--------------------------- MODULE SchedulerProofs ---------------------------
(***************************************************************************)
(* Theorems about Scheduler for every set of threads and every limit.      *)
(* The inductive invariant Inv is a conjunction of named parts: the        *)
(* invariants the runs check, and three facts that connect a token with    *)
(* its mirror.                                                             *)
(***************************************************************************)
EXTENDS Scheduler, TLAPS, FiniteSetTheorems, SequenceTheorems

----------------------------------------------------------------------------
\* Sequences without repetitions.

Increasing(q) == \A i, j \in 1 .. Len(q) : i < j => q[i] < q[j]

\* Removing the element at position i shifts the later ones down by one.
LEMMA RemoveFirstPositions ==
  ASSUME NEW S, NEW q \in Seq(S), IsInjective(q),
         NEW i \in 1 .. Len(q)
  PROVE  /\ RemoveFirst(q, q[i]) \in Seq(S)
         /\ Len(RemoveFirst(q, q[i])) = Len(q) - 1
         /\ \A j \in 1 .. Len(q) - 1 :
              RemoveFirst(q, q[i])[j] = IF j < i THEN q[j] ELSE q[j + 1]
<1> DEFINE I == {k \in 1 .. Len(q) : q[k] = q[i]}
           before == SubSeq(q, 1, i - 1)
           after == SubSeq(q, i + 1, Len(q))
<1>1. /\ Len(q) \in Nat
      /\ DOMAIN q = 1 .. Len(q)
      /\ \A k \in 1 .. Len(q) : q[k] \in S
  BY LenProperties, ElementOfSeq
<1>2. I = {i}
  BY <1>1 DEF IsInjective
<1>3. Min(I) = i
  BY <1>1, <1>2 DEF Min
<1>4. SelectInSeq(q, LAMBDA v : v = q[i]) = i
  BY <1>2, <1>3 DEF SelectInSeq
<1>5. RemoveFirst(q, q[i]) = before \o after
  BY <1>1, <1>4 DEF RemoveFirst, RemoveAt
<1>6. /\ before \in Seq(S)
      /\ Len(before) = i - 1
      /\ \A j \in 1 .. i - 1 : before[j] = q[j]
  <2>1. \A j \in 1 .. i - 1 : q[j] \in S
    BY <1>1
  <2>2. 1 \in Int /\ i - 1 \in Int
    OBVIOUS
  <2> QED BY <2>1, <2>2, SubSeqProperties
<1>7. /\ after \in Seq(S)
      /\ Len(after) = Len(q) - i
      /\ \A j \in 1 .. Len(q) - i : after[j] = q[i + j]
  <2>1. \A j \in i + 1 .. Len(q) : q[j] \in S
    BY <1>1
  <2>2. i + 1 \in Int /\ Len(q) \in Int
    BY <1>1
  <2>3. /\ after \in Seq(S)
        /\ Len(after) = IF i + 1 <= Len(q) THEN Len(q) - (i + 1) + 1 ELSE 0
        /\ \A j \in 1 .. Len(q) - (i + 1) + 1 : after[j] = q[(i + 1) + j - 1]
    BY <2>1, <2>2, SubSeqProperties
  <2> HIDE DEF after
  <2>4. Len(after) = Len(q) - i
    <3>1. ASSUME NEW n \in Nat, NEW k \in 1 .. n
          PROVE  (IF k + 1 <= n THEN n - (k + 1) + 1 ELSE 0) = n - k
      OBVIOUS
    <3>2. (IF i + 1 <= Len(q) THEN Len(q) - (i + 1) + 1 ELSE 0) = Len(q) - i
      BY <1>1, <3>1
    <3> QED BY <2>3, <3>2
  <2>5. ASSUME NEW j \in 1 .. Len(q) - i PROVE after[j] = q[i + j]
    <3>1. Len(q) - (i + 1) + 1 = Len(q) - i /\ (i + 1) + j - 1 = i + j
      BY <1>1
    <3> QED BY <2>3, <3>1
  <2> QED BY <2>3, <2>4, <2>5
<1>8. /\ before \o after \in Seq(S)
      /\ Len(before \o after) = Len(before) + Len(after)
      /\ \A j \in 1 .. Len(before) + Len(after) :
           (before \o after)[j] =
             IF j <= Len(before) THEN before[j] ELSE after[j - Len(before)]
  BY <1>6, <1>7, ConcatProperties
<1> HIDE DEF I, before, after
<1> QED BY <1>1, <1>5, <1>6, <1>7, <1>8

\* What RemoveFirst does to the elements of such a sequence.
LEMMA RemoveFirstElements ==
  ASSUME NEW S, NEW q \in Seq(S), IsInjective(q), NEW e
  PROVE  /\ RemoveFirst(q, e) \in Seq(S)
         /\ ToSet(RemoveFirst(q, e)) = ToSet(q) \ {e}
         /\ IsInjective(RemoveFirst(q, e))
<1>1. /\ Len(q) \in Nat
      /\ DOMAIN q = 1 .. Len(q)
  BY LenProperties
<1>2. CASE \A i \in 1 .. Len(q) : q[i] # e
  BY <1>1, <1>2 DEF RemoveFirst, ToSet
<1>3. CASE \E i \in 1 .. Len(q) : q[i] = e
  <2>1. PICK i \in 1 .. Len(q) : q[i] = e
    BY <1>3
  <2> DEFINE r == RemoveFirst(q, e)
  <2>2. /\ r \in Seq(S)
        /\ Len(r) = Len(q) - 1
        /\ \A j \in 1 .. Len(q) - 1 : r[j] = IF j < i THEN q[j] ELSE q[j + 1]
    BY <2>1, RemoveFirstPositions
  <2>3. DOMAIN r = 1 .. Len(q) - 1
    BY <2>2, LenProperties
  <2> HIDE DEF r
  <2>4. ASSUME NEW x \in ToSet(r) PROVE x \in ToSet(q) \ {e}
    <3>1. PICK j \in 1 .. Len(q) - 1 : x = r[j]
      BY <2>3 DEF ToSet
    <3>2. PICK k \in 1 .. Len(q) : k # i /\ x = q[k]
      <4>1. CASE j < i
        BY <1>1, <2>2, <3>1, <4>1
      <4>2. CASE ~(j < i)
        <5>1. j + 1 \in 1 .. Len(q) /\ j + 1 # i
          BY <1>1, <4>2
        <5> QED BY <2>2, <3>1, <4>2, <5>1
      <4> QED BY <4>1, <4>2
    <3> QED BY <1>1, <2>1, <3>2 DEF ToSet, IsInjective
  <2>5. ASSUME NEW x \in ToSet(q) \ {e} PROVE x \in ToSet(r)
    <3>1. PICK k \in 1 .. Len(q) : x = q[k]
      BY <1>1 DEF ToSet
    <3>2. k # i
      BY <2>1, <3>1
    <3>3. CASE k < i
      <4>1. k \in 1 .. Len(q) - 1 /\ r[k] = q[k]
        BY <1>1, <2>2, <3>3
      <4> QED BY <2>3, <3>1, <4>1 DEF ToSet
    <3>4. CASE k > i
      <4>1. k - 1 \in 1 .. Len(q) - 1 /\ r[k - 1] = q[k]
        BY <1>1, <2>2, <3>4
      <4> QED BY <2>3, <3>1, <4>1 DEF ToSet
    <3> QED BY <3>2, <3>3, <3>4
  <2>6. IsInjective(r)
    <3>1. ASSUME NEW a \in 1 .. Len(q) - 1, NEW b \in 1 .. Len(q) - 1,
                 r[a] = r[b]
          PROVE  a = b
      <4> DEFINE from(j) == IF j < i THEN j ELSE j + 1
      <4>1. \A j \in 1 .. Len(q) - 1 :
              from(j) \in 1 .. Len(q) /\ r[j] = q[from(j)]
        BY <1>1, <2>2
      <4>2. from(a) = from(b)
        BY <1>1, <3>1, <4>1 DEF IsInjective
      <4> QED BY <4>2
    <3> QED BY <2>3, <3>1 DEF IsInjective
  <2> QED BY <2>2, <2>4, <2>5, <2>6 DEF r
<1> QED BY <1>2, <1>3

----------------------------------------------------------------------------
\* The inductive invariant.

\* Slots whose admission has not happened, or was refused, are blank.
Fresh ==
  \A s \in Slot :
    /\ s >= next_slot_id => token[s] = "none"
    /\ token[s] = "none" <=> slot_state[s] = "none"

\* How far a token can be from its mirror: a promotion may come after the
\* read of the mirror, a release may not.
TokenMatchesMirror ==
  \A s \in Slot :
    /\ token[s] = "held" => slot_state[s] \in {"queued", "active"}
    /\ token[s] = "release_active" => slot_state[s] = "active"
    /\ token[s] = "release_queued" => slot_state[s] \in {"queued", "active"}
    /\ token[s] = "dropped" => slot_state[s] = "released"

\* A slot admitted as active stays active until its token releases it.
KindMatchesMirror ==
  \A s \in Slot : kind[s] = "Active" => slot_state[s] # "queued"

Inv ==
  /\ TypeOK
  /\ Fresh
  /\ TokenMatchesMirror
  /\ KindMatchesMirror
  /\ NeverOversubscribed
  /\ QueueMatchesMirrors
  /\ NoIdleCapacity
  /\ NoOvertaking
  /\ RunTurnLive

----------------------------------------------------------------------------
\* Facts about the slots.

LEMMA ActiveSlotsFinite ==
  /\ IsFiniteSet(ActiveSlots)
  /\ Cardinality(ActiveSlots) \in Nat
<1>1. IsFiniteSet(Slot)
  BY LimitsAssumption, FS_Interval DEF Slot
<1>2. ActiveSlots \in SUBSET Slot
  BY DEF ActiveSlots
<1> QED BY <1>1, <1>2, FS_Subset, FS_CardinalityType

\* A sequence in order of arrival repeats nothing.
LEMMA IncreasingIsInjective ==
  ASSUME NEW q \in Seq(Slot), Increasing(q)
  PROVE  IsInjective(q)
<1>1. Len(q) \in Nat /\ DOMAIN q = 1 .. Len(q)
  BY LenProperties
<1>2. \A i \in 1 .. Len(q) : q[i] \in Int
  BY ElementOfSeq, LimitsAssumption DEF Slot
<1>3. ASSUME NEW i \in 1 .. Len(q), NEW j \in 1 .. Len(q), q[i] = q[j]
      PROVE  i = j
  <2>1. ~(i < j)
    BY <1>2, <1>3 DEF Increasing
  <2>2. ~(j < i)
    BY <1>2, <1>3 DEF Increasing
  <2> QED BY <1>1, <2>1, <2>2
<1> QED BY <1>1, <1>3 DEF IsInjective

\* Leaving the queue keeps its order.
LEMMA RemoveFirstIncreasing ==
  ASSUME NEW q \in Seq(Slot), Increasing(q), NEW e
  PROVE  /\ RemoveFirst(q, e) \in Seq(Slot)
         /\ Increasing(RemoveFirst(q, e))
         /\ ToSet(RemoveFirst(q, e)) = ToSet(q) \ {e}
<1>1. IsInjective(q)
  BY IncreasingIsInjective
<1>2. /\ RemoveFirst(q, e) \in Seq(Slot)
      /\ ToSet(RemoveFirst(q, e)) = ToSet(q) \ {e}
  BY <1>1, RemoveFirstElements
<1>3. Len(q) \in Nat
  BY LenProperties
<1>4. CASE \A i \in 1 .. Len(q) : q[i] # e
  BY <1>2, <1>4 DEF RemoveFirst
<1>5. CASE \E i \in 1 .. Len(q) : q[i] = e
  <2>1. PICK k \in 1 .. Len(q) : q[k] = e
    BY <1>5
  <2> DEFINE r == RemoveFirst(q, e)
             from(j) == IF j < k THEN j ELSE j + 1
  <2>2. /\ Len(r) = Len(q) - 1
        /\ \A j \in 1 .. Len(q) - 1 : r[j] = IF j < k THEN q[j] ELSE q[j + 1]
    BY <1>1, <2>1, RemoveFirstPositions
  <2> HIDE DEF r
  <2>3. \A j \in 1 .. Len(q) - 1 : from(j) \in 1 .. Len(q) /\ r[j] = q[from(j)]
    BY <1>3, <2>2
  <2>4. ASSUME NEW a \in 1 .. Len(q) - 1, NEW b \in 1 .. Len(q) - 1, a < b
        PROVE  r[a] < r[b]
    <3>1. from(a) < from(b)
      BY <1>3, <2>4
    <3> HIDE DEF from
    <3> QED BY <2>3, <3>1 DEF Increasing
  <2>5. Increasing(r)
    BY <2>2, <2>4 DEF Increasing
  <2> QED BY <1>2, <2>5 DEF r
<1> QED BY <1>4, <1>5

\* The head of the queue is its oldest entry; serving it removes only it.
LEMMA TailIncreasing ==
  ASSUME NEW q \in Seq(Slot), Increasing(q), q # << >>
  PROVE  /\ Head(q) \in Slot
         /\ Tail(q) \in Seq(Slot)
         /\ Increasing(Tail(q))
         /\ ToSet(Tail(q)) = ToSet(q) \ {Head(q)}
         /\ Head(q) \in ToSet(q)
         /\ \A s \in ToSet(Tail(q)) : Head(q) < s
<1>1. /\ Len(q) \in Nat /\ Len(q) # 0
      /\ DOMAIN q = 1 .. Len(q)
      /\ Head(q) = q[1]
  BY LenProperties, EmptySeq
<1>2. /\ Head(q) \in Slot
      /\ Tail(q) \in Seq(Slot)
      /\ Len(Tail(q)) = Len(q) - 1
      /\ \A i \in 1 .. Len(Tail(q)) : Tail(q)[i] = q[i + 1]
  BY HeadTailProperties
<1>3. DOMAIN Tail(q) = 1 .. Len(q) - 1
  BY <1>2, LenProperties
<1>4. Increasing(Tail(q))
  <2>1. ASSUME NEW a \in 1 .. Len(Tail(q)), NEW b \in 1 .. Len(Tail(q)), a < b
        PROVE  Tail(q)[a] < Tail(q)[b]
    <3>1. a + 1 \in 1 .. Len(q) /\ b + 1 \in 1 .. Len(q) /\ a + 1 < b + 1
      BY <1>1, <1>2, <2>1
    <3> QED BY <1>2, <3>1 DEF Increasing
  <2> QED BY <2>1 DEF Increasing
<1>5. ASSUME NEW s \in ToSet(Tail(q))
      PROVE  s \in ToSet(q) /\ Head(q) < s
  <2>1. PICK i \in 1 .. Len(q) - 1 : s = Tail(q)[i]
    BY <1>3 DEF ToSet
  <2>2. i + 1 \in 1 .. Len(q) /\ 1 \in 1 .. Len(q) /\ 1 < i + 1
    BY <1>1
  <2>3. s = q[i + 1]
    BY <1>2, <2>1
  <2> QED BY <1>1, <2>2, <2>3 DEF ToSet, Increasing
<1>6. ASSUME NEW s \in ToSet(q), s # Head(q)
      PROVE  s \in ToSet(Tail(q))
  <2>1. PICK i \in 1 .. Len(q) : s = q[i]
    BY <1>1 DEF ToSet
  <2>2. i - 1 \in 1 .. Len(q) - 1 /\ (i - 1) + 1 = i
    BY <1>1, <1>6, <2>1
  <2>3. Tail(q)[i - 1] = s
    BY <1>2, <2>1, <2>2
  <2> QED BY <1>3, <2>2, <2>3 DEF ToSet
<1>7. Head(q) \in ToSet(q)
  BY <1>1 DEF ToSet
<1>8. Head(q) \in Int
  BY <1>2, LimitsAssumption DEF Slot
<1> QED BY <1>2, <1>4, <1>5, <1>6, <1>7, <1>8

\* Joining the queue behind every entry keeps its order.
LEMMA AppendIncreasing ==
  ASSUME NEW q \in Seq(Slot), Increasing(q), NEW e \in Slot,
         \A s \in ToSet(q) : s < e
  PROVE  /\ Append(q, e) \in Seq(Slot)
         /\ Increasing(Append(q, e))
         /\ ToSet(Append(q, e)) = ToSet(q) \union {e}
<1>1. Len(q) \in Nat /\ DOMAIN q = 1 .. Len(q)
  BY LenProperties
<1>2. /\ Append(q, e) \in Seq(Slot)
      /\ Len(Append(q, e)) = Len(q) + 1
      /\ \A i \in 1 .. Len(q) : Append(q, e)[i] = q[i]
      /\ Append(q, e)[Len(q) + 1] = e
  BY AppendProperties
<1>3. DOMAIN Append(q, e) = 1 .. Len(q) + 1
  BY <1>2, LenProperties
<1>4. \A i \in 1 .. Len(q) : q[i] < e
  BY <1>1 DEF ToSet
<1>5. Increasing(Append(q, e))
  <2>1. ASSUME NEW a \in 1 .. Len(q) + 1, NEW b \in 1 .. Len(q) + 1, a < b
        PROVE  Append(q, e)[a] < Append(q, e)[b]
    <3>1. CASE b = Len(q) + 1
      BY <1>1, <1>2, <1>4, <2>1, <3>1
    <3>2. CASE b # Len(q) + 1
      BY <1>1, <1>2, <2>1, <3>2 DEF Increasing
    <3> QED BY <3>1, <3>2
  <2> QED BY <1>2, <2>1 DEF Increasing
<1>6. ToSet(Append(q, e)) = ToSet(q) \union {e}
  BY <1>1, <1>2, <1>3 DEF ToSet
<1> QED BY <1>2, <1>5, <1>6

----------------------------------------------------------------------------
\* One lemma per action.

LEMMA InitInv == Init => Inv
<1> SUFFICES ASSUME Init PROVE Inv
  OBVIOUS
<1> USE DEF Init
<1>1. TypeOK
  BY LimitsAssumption, EmptySeq DEF TypeOK
<1>2. Fresh /\ TokenMatchesMirror /\ KindMatchesMirror
  BY DEF Fresh, TokenMatchesMirror, KindMatchesMirror
<1>3. NeverOversubscribed
  <2>1. ActiveSlots = {}
    BY DEF ActiveSlots
  <2> QED BY <2>1, FS_EmptySet, LimitsAssumption DEF NeverOversubscribed
<1>4. QueueMatchesMirrors
  BY EmptySeq DEF QueueMatchesMirrors, ToSet
<1>5. NoIdleCapacity /\ NoOvertaking
  BY DEF NoIdleCapacity, NoOvertaking
<1>6. RunTurnLive
  BY DEF RunTurnLive, IsInjective, ToSet
<1> QED BY <1>1, <1>2, <1>3, <1>4, <1>5, <1>6 DEF Inv

LEMMA AdmitInv ==
  ASSUME Inv, NEW t \in Thread, Admit(t)
  PROVE  Inv'
<1> DEFINE n == next_slot_id
<1>1. /\ n \in Slot
      /\ n + 1 \in 0 .. MaxSlots
      /\ next_slot_id' = n + 1
      /\ run_turn' = run_turn /\ owner' = owner
      /\ token[n] = "none" /\ slot_state[n] = "none"
  BY LimitsAssumption DEF Inv, TypeOK, Fresh, Admit, Slot
<1>2. \A s \in ToSet(run_turn) : s # n
  BY <1>1 DEF Inv, RunTurnLive
<1>3. CASE AdmitActive
  <2>1. /\ active' = active + 1
        /\ active < MaxActive
        /\ admission_queue' = admission_queue
        /\ slot_state' = [slot_state EXCEPT ![n] = "active"]
        /\ kind' = [kind EXCEPT ![n] = "Active"]
        /\ token' = [token EXCEPT ![n] = "held"]
    BY <1>3 DEF AdmitActive, HasRoom, NewSlot
  <2>2. TypeOK'
    BY <1>1, <2>1 DEF Inv, TypeOK
  <2>3. Fresh'
    BY <1>1, <2>1 DEF Inv, TypeOK, Fresh, Slot
  <2>4. TokenMatchesMirror' /\ KindMatchesMirror'
    BY <1>1, <2>1 DEF Inv, TypeOK, TokenMatchesMirror, KindMatchesMirror
  <2>5. NeverOversubscribed'
    <3>1. ActiveSlots' = ActiveSlots \union {n}
      BY <1>1, <2>1 DEF Inv, TypeOK, ActiveSlots
    <3>2. Cardinality(ActiveSlots') <= Cardinality(ActiveSlots) + 1
      <4>1. IsFiniteSet(ActiveSlots) /\ Cardinality(ActiveSlots) \in Nat
        BY ActiveSlotsFinite, FS_CardinalityType
      <4>2. Cardinality(ActiveSlots \union {n})
              = IF n \in ActiveSlots THEN Cardinality(ActiveSlots)
                                     ELSE Cardinality(ActiveSlots) + 1
        BY <4>1, FS_AddElement
      <4> QED BY <3>1, <4>1, <4>2
    <3>3. Cardinality(ActiveSlots') \in Nat
      BY <3>1, ActiveSlotsFinite, FS_AddElement, FS_CardinalityType
    <3> QED BY <2>1, <3>2, <3>3, ActiveSlotsFinite, LimitsAssumption
            DEF Inv, TypeOK, NeverOversubscribed
  <2>6. admission_queue = << >>
    BY <2>1, LimitsAssumption DEF Inv, TypeOK, NoIdleCapacity
  <2>7. \A s \in Slot : slot_state[s] # "queued"
    BY <2>6 DEF Inv, QueueMatchesMirrors, ToSet
  <2>8. QueueMatchesMirrors'
    BY <1>1, <2>1, <2>6, <2>7 DEF Inv, TypeOK, QueueMatchesMirrors, ToSet
  <2>9. NoIdleCapacity' /\ NoOvertaking'
    BY <1>1, <2>1, <2>6, <2>7 DEF Inv, TypeOK, NoIdleCapacity, NoOvertaking
  <2>10. RunTurnLive'
    BY <1>1, <1>2, <2>1 DEF Inv, TypeOK, RunTurnLive
  <2> QED BY <2>2, <2>3, <2>4, <2>5, <2>8, <2>9, <2>10 DEF Inv
<1>4. CASE AdmitQueued
  <2>1. /\ active' = active
        /\ ~(active < MaxActive)
        /\ admission_queue' = Append(admission_queue, n)
        /\ slot_state' = [slot_state EXCEPT ![n] = "queued"]
        /\ kind' = [kind EXCEPT ![n] = "Queued"]
        /\ token' = [token EXCEPT ![n] = "held"]
    BY <1>4 DEF AdmitQueued, HasRoom, NewSlot, Enqueue
  <2>2. /\ Append(admission_queue, n) \in Seq(Slot)
        /\ Increasing(Append(admission_queue, n))
        /\ ToSet(Append(admission_queue, n)) = ToSet(admission_queue) \union {n}
    <3>1. \A s \in ToSet(admission_queue) : s < n
      BY LimitsAssumption
         DEF Inv, TypeOK, Fresh, QueueMatchesMirrors, Slot
    <3>2. Increasing(admission_queue)
      BY DEF Inv, QueueMatchesMirrors, Increasing
    <3> QED BY <1>1, <3>1, <3>2, AppendIncreasing DEF Inv, TypeOK
  <2>3. TypeOK'
    BY <1>1, <2>1, <2>2 DEF Inv, TypeOK
  <2>4. Fresh'
    BY <1>1, <2>1 DEF Inv, TypeOK, Fresh, Slot
  <2>5. TokenMatchesMirror' /\ KindMatchesMirror'
    BY <1>1, <2>1 DEF Inv, TypeOK, TokenMatchesMirror, KindMatchesMirror
  <2>6. NeverOversubscribed'
    <3>1. ActiveSlots' = ActiveSlots
      BY <1>1, <2>1 DEF Inv, TypeOK, ActiveSlots
    <3> QED BY <2>1, <3>1 DEF Inv, NeverOversubscribed
  <2>7. QueueMatchesMirrors'
    BY <1>1, <2>1, <2>2 DEF Inv, TypeOK, QueueMatchesMirrors, Increasing
  <2>8. NoIdleCapacity'
    BY <2>1, LimitsAssumption DEF Inv, TypeOK, NoIdleCapacity, NeverOversubscribed
  <2>9. NoOvertaking'
    <3>1. \A s \in Slot : n < s => slot_state[s] # "active"
      BY DEF Inv, Fresh, TypeOK, Slot
    <3> QED BY <1>1, <2>1, <3>1 DEF Inv, TypeOK, NoOvertaking
  <2>10. RunTurnLive'
    BY <1>1, <1>2, <2>1 DEF Inv, TypeOK, RunTurnLive
  <2> QED BY <2>3, <2>4, <2>5, <2>6, <2>7, <2>8, <2>9, <2>10 DEF Inv
<1>5. CASE AdmitRefused
  <2>1. UNCHANGED <<active, admission_queue, slot_state, kind, token, run_turn>>
    BY <1>1, <1>5 DEF AdmitRefused
  <2>2. TypeOK'
    BY <1>1, <2>1 DEF Inv, TypeOK
  <2>3. Fresh'
    BY <1>1, <2>1 DEF Inv, TypeOK, Fresh, Slot
  <2>4. TokenMatchesMirror' /\ KindMatchesMirror'
    BY <2>1 DEF Inv, TokenMatchesMirror, KindMatchesMirror
  <2>5. NeverOversubscribed' /\ NoIdleCapacity' /\ NoOvertaking'
    BY <2>1 DEF Inv, NeverOversubscribed, ActiveSlots, NoIdleCapacity, NoOvertaking
  <2>6. QueueMatchesMirrors' /\ RunTurnLive'
    BY <2>1 DEF Inv, QueueMatchesMirrors, RunTurnLive
  <2> QED BY <2>2, <2>3, <2>4, <2>5, <2>6 DEF Inv
<1> QED BY <1>3, <1>4, <1>5 DEF Admit

LEMMA DropSlotInv ==
  ASSUME Inv, NEW s \in Slot, DropSlot(s)
  PROVE  Inv'
<1>1. /\ token[s] = "held"
      /\ token' = [token EXCEPT ![s] = ReleaseCall(s)]
      /\ UNCHANGED <<active, admission_queue, run_turn, next_slot_id,
                     slot_state, kind, owner>>
  BY DEF DropSlot
<1>2. /\ slot_state[s] = "active" => ReleaseCall(s) = "release_active"
      /\ slot_state[s] = "queued" => ReleaseCall(s) = "release_queued"
      /\ slot_state[s] \in {"queued", "active"}
  BY <1>1 DEF Inv, TokenMatchesMirror, KindMatchesMirror, ReleaseCall
<1>3. TypeOK'
  BY <1>1, <1>2 DEF Inv, TypeOK
<1>4. Fresh' /\ TokenMatchesMirror' /\ KindMatchesMirror'
  BY <1>1, <1>2
     DEF Inv, TypeOK, Fresh, TokenMatchesMirror, KindMatchesMirror
<1>5. NeverOversubscribed' /\ NoIdleCapacity' /\ NoOvertaking'
  BY <1>1 DEF Inv, NeverOversubscribed, ActiveSlots, NoIdleCapacity, NoOvertaking
<1>6. QueueMatchesMirrors'
  BY <1>1 DEF Inv, QueueMatchesMirrors
<1>7. RunTurnLive'
  BY <1>1, <1>2 DEF Inv, TypeOK, RunTurnLive, ToSet
<1> QED BY <1>3, <1>4, <1>5, <1>6, <1>7 DEF Inv

LEMMA ReleaseActiveInv ==
  ASSUME Inv, NEW s \in Slot, ReleaseActive(s)
  PROVE  Inv'
<1> DEFINE h == Head(admission_queue)
<1>1. /\ token[s] = "release_active"
      /\ slot_state[s] = "active"
      /\ token' = [token EXCEPT ![s] = "dropped"]
      /\ run_turn' = RemoveFirst(run_turn, s)
      /\ UNCHANGED <<next_slot_id, kind, owner>>
  BY DEF Inv, TokenMatchesMirror, ReleaseActive, RemoveTurn
<1>2. /\ run_turn' \in Seq(Slot)
      /\ ToSet(run_turn') = ToSet(run_turn) \ {s}
      /\ IsInjective(run_turn')
  BY <1>1, RemoveFirstElements DEF Inv, TypeOK, RunTurnLive
<1>3. Cardinality(ActiveSlots \ {s}) = Cardinality(ActiveSlots) - 1
      /\ IsFiniteSet(ActiveSlots \ {s})
  BY <1>1, ActiveSlotsFinite, FS_RemoveElement DEF ActiveSlots
<1>4. active \in Nat \ {0}
  <2>1. Cardinality(ActiveSlots \ {s}) \in Nat
    BY <1>3, FS_CardinalityType
  <2> QED BY <1>3, <2>1, ActiveSlotsFinite DEF Inv, TypeOK, NeverOversubscribed
<1>5. CASE NobodyWaits
  <2>1. /\ active' = active - 1
        /\ slot_state' = [slot_state EXCEPT ![s] = "released"]
        /\ admission_queue' = admission_queue
        /\ admission_queue = << >>
    BY <1>1, <1>5 DEF ReleaseActive, NobodyWaits
  <2>2. TypeOK'
    BY <1>1, <1>2, <1>4, <2>1 DEF Inv, TypeOK
  <2>3. Fresh' /\ TokenMatchesMirror' /\ KindMatchesMirror'
    BY <1>1, <2>1
       DEF Inv, TypeOK, Fresh, TokenMatchesMirror, KindMatchesMirror
  <2>4. NeverOversubscribed'
    <3>1. ActiveSlots' = ActiveSlots \ {s}
      BY <2>1 DEF Inv, TypeOK, ActiveSlots
    <3> QED BY <1>3, <1>4, <2>1, <3>1, ActiveSlotsFinite, LimitsAssumption
            DEF Inv, NeverOversubscribed
  <2>5. QueueMatchesMirrors'
    BY <1>1, <2>1 DEF Inv, TypeOK, QueueMatchesMirrors
  <2>6. NoIdleCapacity' /\ NoOvertaking'
    BY <2>1 DEF Inv, TypeOK, NoIdleCapacity, NoOvertaking
  <2>7. RunTurnLive'
    BY <1>1, <1>2, <2>1 DEF Inv, TypeOK, RunTurnLive
  <2> QED BY <2>2, <2>3, <2>4, <2>5, <2>6, <2>7 DEF Inv
<1>6. CASE ~NobodyWaits
  <2>1. /\ active' = (active - 1) + 1
        /\ slot_state' = [slot_state EXCEPT ![s] = "released", ![h] = "active"]
        /\ admission_queue' = Tail(admission_queue)
        /\ admission_queue # << >>
    BY <1>1, <1>6 DEF ReleaseActive, NobodyWaits
  <2>2. /\ h \in Slot
        /\ Tail(admission_queue) \in Seq(Slot)
        /\ Increasing(Tail(admission_queue))
        /\ ToSet(Tail(admission_queue)) = ToSet(admission_queue) \ {h}
        /\ h \in ToSet(admission_queue)
        /\ \A u \in ToSet(Tail(admission_queue)) : h < u
    <3>1. Increasing(admission_queue)
      BY DEF Inv, QueueMatchesMirrors, Increasing
    <3> QED BY <2>1, <3>1, TailIncreasing DEF Inv, TypeOK
  <2>3. slot_state[h] = "queued" /\ h # s
    BY <1>1, <2>2 DEF Inv, QueueMatchesMirrors
  <2>4. active' = active
    BY <1>4, <2>1
  <2>5. TypeOK'
    BY <1>1, <1>2, <2>1, <2>2, <2>4 DEF Inv, TypeOK
  <2>6. Fresh' /\ TokenMatchesMirror' /\ KindMatchesMirror'
    BY <1>1, <2>1, <2>2, <2>3
       DEF Inv, TypeOK, Fresh, TokenMatchesMirror, KindMatchesMirror
  <2>7. NeverOversubscribed'
    <3>1. ActiveSlots' = (ActiveSlots \ {s}) \union {h}
      BY <2>1, <2>2, <2>3 DEF Inv, TypeOK, ActiveSlots
    <3>2. h \notin ActiveSlots \ {s}
      BY <2>3 DEF ActiveSlots
    <3>3. Cardinality(ActiveSlots') = Cardinality(ActiveSlots)
      <4> HIDE DEF h
      <4>1. Cardinality(ActiveSlots') = Cardinality(ActiveSlots \ {s}) + 1
        BY <1>3, <3>1, <3>2, FS_AddElement
      <4> QED BY <1>3, <4>1, ActiveSlotsFinite
    <3> QED BY <2>4, <3>3 DEF Inv, NeverOversubscribed
  <2>8. QueueMatchesMirrors'
    BY <1>1, <2>1, <2>2, <2>3 DEF Inv, TypeOK, QueueMatchesMirrors, Increasing
  <2>9. NoIdleCapacity'
    BY <2>1, <2>4 DEF Inv, NoIdleCapacity
  <2>10. NoOvertaking'
    <3>1. ASSUME NEW early \in Slot, NEW late \in Slot, early < late,
                 slot_state'[early] = "queued"
          PROVE  slot_state'[late] # "active"
      <4>1. slot_state[early] = "queued" /\ early # h
        BY <2>1, <2>2, <2>3, <3>1 DEF Inv, TypeOK
      <4>2. h < early
        BY <2>2, <4>1 DEF Inv, QueueMatchesMirrors
      <4>3. late # h
        BY <3>1, <4>2, <2>2, LimitsAssumption DEF Slot
      <4> QED BY <2>1, <2>2, <3>1, <4>1, <4>3 DEF Inv, TypeOK, NoOvertaking
    <3> QED BY <3>1 DEF NoOvertaking
  <2>11. RunTurnLive'
    <3>1. ASSUME NEW u \in ToSet(run_turn')
          PROVE  slot_state'[u] = "active" /\ token'[u] \in {"held", "release_active"}
      <4>1. /\ u \in ToSet(run_turn) /\ u # s
            /\ slot_state[u] = "active"
            /\ token[u] \in {"held", "release_active"}
        BY <1>2, <3>1 DEF Inv, RunTurnLive
      <4>2. u \in Slot /\ u # h
        BY <2>3, <4>1 DEF Inv, TypeOK, ToSet
      <4> HIDE DEF h
      <4> QED BY <1>1, <2>1, <4>1, <4>2 DEF Inv, TypeOK
    <3> QED BY <1>2, <3>1 DEF RunTurnLive
  <2> QED BY <2>5, <2>6, <2>7, <2>8, <2>9, <2>10, <2>11 DEF Inv
<1> QED BY <1>5, <1>6

LEMMA ReleaseQueuedInv ==
  ASSUME Inv, NEW s \in Slot, ReleaseQueued(s)
  PROVE  Inv'
<1>1. /\ token[s] = "release_queued"
      /\ slot_state[s] \in {"queued", "active"}
      /\ token' = [token EXCEPT ![s] = "dropped"]
      /\ admission_queue' = RemoveFirst(admission_queue, s)
      /\ slot_state' = [slot_state EXCEPT ![s] = "released"]
      /\ UNCHANGED <<active, run_turn, next_slot_id, kind, owner>>
  BY DEF Inv, TokenMatchesMirror, ReleaseQueued, LeaveQueue
<1>2. /\ RemoveFirst(admission_queue, s) \in Seq(Slot)
      /\ Increasing(RemoveFirst(admission_queue, s))
      /\ ToSet(RemoveFirst(admission_queue, s)) = ToSet(admission_queue) \ {s}
  <2>1. Increasing(admission_queue)
    BY DEF Inv, QueueMatchesMirrors, Increasing
  <2> QED BY <2>1, RemoveFirstIncreasing DEF Inv, TypeOK
<1>3. TypeOK'
  BY <1>1, <1>2 DEF Inv, TypeOK
<1>4. Fresh' /\ TokenMatchesMirror' /\ KindMatchesMirror'
  BY <1>1 DEF Inv, TypeOK, Fresh, TokenMatchesMirror, KindMatchesMirror
<1>5. NeverOversubscribed'
  <2>1. ActiveSlots' = ActiveSlots \ {s}
    BY <1>1 DEF Inv, TypeOK, ActiveSlots
  <2>2. Cardinality(ActiveSlots') <= Cardinality(ActiveSlots)
    BY <2>1, ActiveSlotsFinite, FS_RemoveElement
  <2>3. Cardinality(ActiveSlots') \in Nat
    BY <2>1, ActiveSlotsFinite, FS_RemoveElement, FS_CardinalityType
  <2> QED BY <1>1, <2>2, <2>3, ActiveSlotsFinite
          DEF Inv, TypeOK, NeverOversubscribed
<1>6. QueueMatchesMirrors'
  BY <1>1, <1>2 DEF Inv, TypeOK, QueueMatchesMirrors, Increasing
<1>7. NoIdleCapacity'
  <2>1. admission_queue' # << >> => admission_queue # << >>
    BY <1>1 DEF RemoveFirst
  <2> QED BY <1>1, <2>1 DEF Inv, NoIdleCapacity
<1>8. NoOvertaking'
  BY <1>1 DEF Inv, TypeOK, NoOvertaking
<1>9. RunTurnLive'
  BY <1>1 DEF Inv, TypeOK, RunTurnLive, ToSet
<1> QED BY <1>3, <1>4, <1>5, <1>6, <1>7, <1>8, <1>9 DEF Inv

\* The run-turn methods rearrange run_turn only.
LEMMA UseTurnInv ==
  ASSUME Inv, NEW s \in Slot, NEW q \in Seq(Slot), UseTurn(s, q),
         IsInjective(q),
         \A u \in ToSet(q) : u \in ToSet(run_turn) \/ (u = s /\ slot_state[s] = "active")
  PROVE  Inv'
<1>1. /\ token[s] = "held"
      /\ run_turn' = q
      /\ UNCHANGED <<active, admission_queue, next_slot_id,
                     slot_state, kind, token, owner>>
  BY DEF UseTurn
<1>2. TypeOK'
  BY <1>1 DEF Inv, TypeOK
<1>3. Fresh' /\ TokenMatchesMirror' /\ KindMatchesMirror'
  BY <1>1 DEF Inv, Fresh, TokenMatchesMirror, KindMatchesMirror
<1>4. NeverOversubscribed' /\ NoIdleCapacity' /\ NoOvertaking'
  BY <1>1 DEF Inv, NeverOversubscribed, ActiveSlots, NoIdleCapacity, NoOvertaking
<1>5. QueueMatchesMirrors'
  BY <1>1 DEF Inv, QueueMatchesMirrors
<1>6. RunTurnLive'
  BY <1>1 DEF Inv, RunTurnLive
<1> QED BY <1>2, <1>3, <1>4, <1>5, <1>6 DEF Inv

LEMMA RunTurnInv ==
  ASSUME Inv, NEW s \in Slot,
         RunTurnPushBack(s) \/ RunTurnRotate(s) \/ RunTurnRemove(s)
  PROVE  Inv'
<1>1. /\ run_turn \in Seq(Slot)
      /\ IsInjective(run_turn)
      /\ Len(run_turn) \in Nat
      /\ DOMAIN run_turn = 1 .. Len(run_turn)
  BY LenProperties DEF Inv, TypeOK, RunTurnLive
<1>2. CASE RunTurnPushBack(s)
  <2>1. CASE Contains(run_turn, s)
    <3>1. UseTurn(s, run_turn)
      BY <1>2, <2>1 DEF RunTurnPushBack, PushBack
    <3> QED BY <1>1, <3>1, UseTurnInv
  <2>2. CASE ~Contains(run_turn, s)
    <3> DEFINE q == Append(run_turn, s)
    <3>1. UseTurn(s, q) /\ slot_state[s] = "active"
      BY <1>2, <2>2 DEF RunTurnPushBack, PushBack
    <3>2. /\ q \in Seq(Slot)
          /\ Len(q) = Len(run_turn) + 1
          /\ \A i \in 1 .. Len(run_turn) : q[i] = run_turn[i]
          /\ q[Len(run_turn) + 1] = s
      BY <1>1, AppendProperties
    <3>3. DOMAIN q = 1 .. Len(run_turn) + 1
      BY <3>2, LenProperties
    <3> HIDE DEF q
    <3>4. IsInjective(q)
      BY <1>1, <2>2, <3>2, <3>3 DEF IsInjective, Contains
    <3>5. \A u \in ToSet(q) : u \in ToSet(run_turn) \/ u = s
      BY <1>1, <3>2, <3>3 DEF ToSet
    <3> QED BY <3>1, <3>2, <3>4, <3>5, UseTurnInv
  <2> QED BY <2>1, <2>2
<1>3. CASE RunTurnRotate(s)
  <2>1. CASE ~IsHead(run_turn, s)
    <3>1. UseTurn(s, run_turn)
      BY <1>3, <2>1 DEF RunTurnRotate, Rotate
    <3> QED BY <1>1, <3>1, UseTurnInv
  <2>2. CASE IsHead(run_turn, s)
    <3> DEFINE tl == Tail(run_turn)
               q == Append(tl, s)
    <3>1. /\ UseTurn(s, q)
          /\ run_turn # << >>
          /\ s = run_turn[1]
      BY <1>3, <2>2 DEF RunTurnRotate, Rotate, IsHead
    <3>2. /\ tl \in Seq(Slot)
          /\ Len(tl) = Len(run_turn) - 1
          /\ \A i \in 1 .. Len(tl) : tl[i] = run_turn[i + 1]
          /\ Len(run_turn) # 0
      BY <1>1, <3>1, HeadTailProperties, EmptySeq
    <3>3. /\ q \in Seq(Slot)
          /\ Len(q) = Len(run_turn)
          /\ \A i \in 1 .. Len(run_turn) - 1 : q[i] = run_turn[i + 1]
          /\ q[Len(run_turn)] = run_turn[1]
      <4> HIDE DEF tl
      <4>1. /\ q \in Seq(Slot)
            /\ Len(q) = Len(tl) + 1
            /\ \A i \in 1 .. Len(tl) : q[i] = tl[i]
            /\ q[Len(tl) + 1] = s
        BY <3>2, AppendProperties
      <4>2. Len(tl) + 1 = Len(run_turn)
        BY <1>1, <3>2
      <4> QED BY <3>1, <3>2, <4>1, <4>2
    <3>4. DOMAIN q = 1 .. Len(run_turn)
      BY <3>3, LenProperties
    <3> HIDE DEF q
    <3> DEFINE n == Len(run_turn)
               from(i) == IF i = n THEN 1 ELSE i + 1
    <3>a. n \in Nat \ {0}
      BY <1>1, <3>2
    <3>b. ASSUME NEW i \in 1 .. n, i # n
          PROVE  i \in 1 .. n - 1 /\ i + 1 \in 1 .. n
      <4> HIDE DEF n
      <4> QED BY <3>a, <3>b
    <3>5. \A i \in 1 .. n : from(i) \in 1 .. n /\ q[i] = run_turn[from(i)]
      <4> HIDE DEF n
      <4>1. /\ \A i \in 1 .. n - 1 : q[i] = run_turn[i + 1]
            /\ q[n] = run_turn[1]
        BY <3>3 DEF n
      <4> QED BY <3>a, <3>b, <4>1
    <3>6. \A i, j \in 1 .. n : from(i) = from(j) => i = j
      <4> HIDE DEF n
      <4> QED BY <3>a
    <3> HIDE DEF from
    <3>7. IsInjective(q)
      BY <1>1, <3>4, <3>5, <3>6 DEF IsInjective
    <3>8. \A u \in ToSet(q) : u \in ToSet(run_turn)
      BY <1>1, <3>4, <3>5 DEF ToSet
    <3> QED BY <3>1, <3>3, <3>7, <3>8, UseTurnInv
  <2> QED BY <2>1, <2>2
<1>4. CASE RunTurnRemove(s)
  <2> DEFINE q == RemoveFirst(run_turn, s)
  <2>1. UseTurn(s, q)
    BY <1>4 DEF RunTurnRemove, RemoveTurn
  <2>2. /\ q \in Seq(Slot)
        /\ ToSet(q) = ToSet(run_turn) \ {s}
        /\ IsInjective(q)
    BY <1>1, RemoveFirstElements
  <2> HIDE DEF q
  <2> QED BY <2>1, <2>2, UseTurnInv
<1> QED BY <1>2, <1>3, <1>4

LEMMA StutterInv == Inv /\ UNCHANGED vars => Inv'
  BY DEF Inv, vars, TypeOK, Fresh, TokenMatchesMirror, KindMatchesMirror,
         NeverOversubscribed, ActiveSlots, QueueMatchesMirrors,
         NoIdleCapacity, NoOvertaking, RunTurnLive

LEMMA StepInv == Inv /\ [Next]_vars => Inv'
<1> SUFFICES ASSUME Inv, Next PROVE Inv'
  BY StutterInv
<1>1. CASE \E t \in Thread : Admit(t)
  BY <1>1, AdmitInv
<1>2. ASSUME NEW s \in Slot, DropSlot(s) PROVE Inv'
  BY <1>2, DropSlotInv
<1>3. ASSUME NEW s \in Slot, ReleaseActive(s) PROVE Inv'
  BY <1>3, ReleaseActiveInv
<1>4. ASSUME NEW s \in Slot, ReleaseQueued(s) PROVE Inv'
  BY <1>4, ReleaseQueuedInv
<1>5. ASSUME NEW s \in Slot,
             RunTurnPushBack(s) \/ RunTurnRotate(s) \/ RunTurnRemove(s)
      PROVE  Inv'
  BY <1>5, RunTurnInv
<1> QED BY <1>1, <1>2, <1>3, <1>4, <1>5 DEF Next

(***************************************************************************)
(* The inductive invariant holds in every reachable state, whatever the    *)
(* threads and the limits: SchedulerShared keeps its counter, its queues   *)
(* and the mirrors consistent under every interleaving of drops.           *)
(***************************************************************************)
THEOREM InvHolds == Spec => []Inv
<1>1. Init => Inv
  BY InitInv
<1>2. Inv /\ [Next]_vars => Inv'
  BY StepInv
<1> QED BY <1>1, <1>2, PTL DEF Spec

(***************************************************************************)
(* Every variable keeps its type; in particular `active -= 1` in           *)
(* release_active never runs below zero (active is a usize).               *)
(***************************************************************************)
THEOREM TypeCorrect == Spec => []TypeOK
<1>1. Inv => TypeOK
  BY DEF Inv
<1> QED BY <1>1, InvHolds, PTL

(***************************************************************************)
(* At most max_active_executions slots are active at any time, for any     *)
(* number of threads (admit, release_active and the Drop race included).   *)
(***************************************************************************)
THEOREM NeverOversubscribedHolds == Spec => []NeverOversubscribed
<1>1. Inv => NeverOversubscribed
  BY DEF Inv
<1> QED BY <1>1, InvHolds, PTL

(***************************************************************************)
(* The admission queue is exactly the slots whose mirror says queued, in   *)
(* order of arrival and without repetition.                                *)
(***************************************************************************)
THEOREM QueueMatchesMirrorsHolds == Spec => []QueueMatchesMirrors
<1>1. Inv => QueueMatchesMirrors
  BY DEF Inv
<1> QED BY <1>1, InvHolds, PTL

(***************************************************************************)
(* Nobody waits while admit would find room, and nobody is overtaken: the  *)
(* promise of a first-come admission queue, for every limit.               *)
(***************************************************************************)
THEOREM FirstComeFirstServed == Spec => [](NoIdleCapacity /\ NoOvertaking)
<1>1. Inv => NoIdleCapacity /\ NoOvertaking
  BY DEF Inv
<1> QED BY <1>1, InvHolds, PTL

(***************************************************************************)
(* The run-turn queue never holds a slot nobody can remove any more: a     *)
(* dropped slot leaves it in the same step that frees it.                  *)
(***************************************************************************)
THEOREM RunTurnLiveHolds == Spec => []RunTurnLive
<1>1. Inv => RunTurnLive
  BY DEF Inv
<1> QED BY <1>1, InvHolds, PTL

----------------------------------------------------------------------------
\* With every handle on one thread, Drop is atomic and nothing is lost.

OneThread == \A t, u \in Thread : t = u

\* A thread releases one slot at a time, so with one thread nothing comes
\* between the read of the mirror and the call that acts on it.
OneRelease == \A s, u \in Slot : Releasing(s) /\ Releasing(u) => s = u

ReadIsCurrent ==
  \A s \in Slot : token[s] = "release_queued" => slot_state[s] = "queued"

QueueBounded == Len(admission_queue) <= MaxQueued

OneThreadInv ==
  /\ Inv
  /\ OneRelease
  /\ ReadIsCurrent
  /\ ExactAccounting
  /\ QueueBounded

LEMMA OneThreadInit == Init => OneThreadInv
<1> SUFFICES ASSUME Init PROVE OneThreadInv
  OBVIOUS
<1>1. Inv
  BY InitInv
<1>2. OneRelease /\ ReadIsCurrent
  BY DEF Init, OneRelease, ReadIsCurrent, Releasing
<1>3. ExactAccounting
  <2>1. ActiveSlots = {}
    BY DEF Init, ActiveSlots
  <2> QED BY <2>1, FS_EmptySet DEF Init, ExactAccounting
<1>4. QueueBounded
  BY LimitsAssumption, EmptySeq DEF Init, QueueBounded
<1> QED BY <1>1, <1>2, <1>3, <1>4 DEF OneThreadInv

\* Leaving a sequence does not lengthen it.
LEMMA RemoveFirstLen ==
  ASSUME NEW S, NEW q \in Seq(S), IsInjective(q), NEW e
  PROVE  Len(RemoveFirst(q, e)) <= Len(q)
<1>1. Len(q) \in Nat
  BY LenProperties
<1>2. CASE \A i \in 1 .. Len(q) : q[i] # e
  BY <1>1, <1>2 DEF RemoveFirst
<1>3. CASE \E i \in 1 .. Len(q) : q[i] = e
  <2>1. Len(RemoveFirst(q, e)) = Len(q) - 1
    BY <1>3, RemoveFirstPositions
  <2> QED BY <1>1, <2>1
<1> QED BY <1>2, <1>3

LEMMA OneThreadStep ==
  ASSUME OneThread, OneThreadInv, [Next]_vars
  PROVE  OneThreadInv'
<1>1. Inv /\ Inv'
  BY StepInv DEF OneThreadInv
<1>2. \A s, u \in Slot : owner[s] = owner[u]
  BY <1>1 DEF OneThread, Inv, TypeOK
<1>3. Len(admission_queue) \in Nat
  BY <1>1, LenProperties DEF Inv, TypeOK
<1>4. ASSUME NEW t \in Thread, Admit(t)
      PROVE  OneThreadInv'
  <2> DEFINE n == next_slot_id
  <2>1. n \in Slot /\ token[n] = "none" /\ slot_state[n] = "none"
    BY <1>1, <1>4, LimitsAssumption DEF Inv, TypeOK, Fresh, Admit, Slot
  <2>2. CASE AdmitActive
    <3>1. /\ active' = active + 1
          /\ admission_queue' = admission_queue
          /\ slot_state' = [slot_state EXCEPT ![n] = "active"]
          /\ token' = [token EXCEPT ![n] = "held"]
      BY <2>2 DEF AdmitActive, NewSlot
    <3>2. OneRelease' /\ ReadIsCurrent' /\ QueueBounded'
      BY <1>1, <2>1, <3>1 DEF OneThreadInv, Inv, TypeOK, OneRelease, Releasing,
                              ReadIsCurrent, QueueBounded
    <3>3. ActiveSlots' = ActiveSlots \union {n} /\ n \notin ActiveSlots
      BY <1>1, <2>1, <3>1 DEF Inv, TypeOK, ActiveSlots
    <3>4. Cardinality(ActiveSlots \union {n}) = Cardinality(ActiveSlots) + 1
      BY <3>3, ActiveSlotsFinite, FS_AddElement
    <3> QED BY <1>1, <3>1, <3>2, <3>3, <3>4 DEF OneThreadInv, ExactAccounting
  <2>3. CASE AdmitQueued
    <3>1. /\ active' = active
          /\ Len(admission_queue) < MaxQueued
          /\ admission_queue' = Append(admission_queue, n)
          /\ slot_state' = [slot_state EXCEPT ![n] = "queued"]
          /\ token' = [token EXCEPT ![n] = "held"]
      BY <2>3 DEF AdmitQueued, NewSlot, Enqueue
    <3>2. OneRelease' /\ ReadIsCurrent'
      BY <1>1, <2>1, <3>1 DEF OneThreadInv, Inv, TypeOK, OneRelease, Releasing,
                              ReadIsCurrent
    <3>3. Len(Append(admission_queue, n)) = Len(admission_queue) + 1
      BY <1>1, <2>1, AppendProperties DEF Inv, TypeOK
    <3>4. QueueBounded'
      BY <1>3, <3>1, <3>3, LimitsAssumption DEF QueueBounded
    <3>5. ActiveSlots' = ActiveSlots
      BY <1>1, <2>1, <3>1 DEF Inv, TypeOK, ActiveSlots
    <3> QED BY <1>1, <3>1, <3>2, <3>4, <3>5 DEF OneThreadInv, ExactAccounting
  <2>4. CASE AdmitRefused
    BY <1>1, <2>4 DEF AdmitRefused, OneThreadInv, OneRelease, Releasing,
       ReadIsCurrent, ExactAccounting, ActiveSlots, QueueBounded
  <2> QED BY <1>4, <2>2, <2>3, <2>4 DEF Admit
<1>5. ASSUME NEW s \in Slot, DropSlot(s)
      PROVE  OneThreadInv'
  <2>1. /\ token[s] = "held"
        /\ token' = [token EXCEPT ![s] = ReleaseCall(s)]
        /\ UNCHANGED <<active, admission_queue, slot_state>>
        /\ \A u \in Slot : ~Releasing(u)
    BY <1>2, <1>5 DEF DropSlot, Busy
  <2>2. OneRelease'
    BY <1>1, <2>1 DEF Inv, TypeOK, OneRelease, Releasing
  <2>3. ReadIsCurrent'
    BY <1>1, <2>1 DEF OneThreadInv, Inv, TypeOK, TokenMatchesMirror, ReadIsCurrent,
                      ReleaseCall
  <2> QED BY <1>1, <2>1, <2>2, <2>3
          DEF OneThreadInv, ExactAccounting, ActiveSlots, QueueBounded
<1>6. ASSUME NEW s \in Slot, ReleaseActive(s)
      PROVE  OneThreadInv'
  <2> DEFINE h == Head(admission_queue)
  <2>1. /\ token[s] = "release_active"
        /\ slot_state[s] = "active"
        /\ token' = [token EXCEPT ![s] = "dropped"]
    BY <1>1, <1>6 DEF Inv, TokenMatchesMirror, ReleaseActive
  <2>2. \A u \in Slot : token[u] # "release_queued" /\ (Releasing(u) => u = s)
    BY <2>1 DEF OneThreadInv, OneRelease, Releasing
  <2>3. OneRelease' /\ ReadIsCurrent'
    BY <1>1, <2>1, <2>2 DEF Inv, TypeOK, OneRelease, Releasing, ReadIsCurrent
  <2>4. /\ Cardinality(ActiveSlots \ {s}) = Cardinality(ActiveSlots) - 1
        /\ IsFiniteSet(ActiveSlots \ {s})
    BY <2>1, ActiveSlotsFinite, FS_RemoveElement DEF ActiveSlots
  <2>5. CASE NobodyWaits
    <3>1. /\ active' = active - 1
          /\ slot_state' = [slot_state EXCEPT ![s] = "released"]
          /\ admission_queue' = admission_queue
      BY <1>6, <2>1, <2>5 DEF ReleaseActive
    <3>2. ActiveSlots' = ActiveSlots \ {s}
      BY <1>1, <3>1 DEF Inv, TypeOK, ActiveSlots
    <3> QED BY <1>1, <2>3, <2>4, <3>1, <3>2
            DEF OneThreadInv, ExactAccounting, QueueBounded
  <2>6. CASE ~NobodyWaits
    <3>1. /\ active' = (active - 1) + 1
          /\ slot_state' = [slot_state EXCEPT ![s] = "released", ![h] = "active"]
          /\ admission_queue' = Tail(admission_queue)
          /\ admission_queue # << >>
      BY <1>6, <2>1, <2>6 DEF ReleaseActive, NobodyWaits
    <3>2. /\ h \in Slot /\ slot_state[h] = "queued"
          /\ Len(Tail(admission_queue)) = Len(admission_queue) - 1
      <4>1. Increasing(admission_queue)
        BY <1>1 DEF Inv, QueueMatchesMirrors, Increasing
      <4>2. h \in ToSet(admission_queue)
        BY <1>1, <3>1, <4>1, TailIncreasing DEF Inv, TypeOK
      <4> QED BY <1>1, <3>1, <4>2, HeadTailProperties
              DEF Inv, TypeOK, QueueMatchesMirrors
    <3> HIDE DEF h
    <3>3. /\ ActiveSlots' = (ActiveSlots \ {s}) \union {h}
          /\ h \notin ActiveSlots \ {s}
      BY <1>1, <2>1, <3>1, <3>2 DEF Inv, TypeOK, ActiveSlots
    <3>4. Cardinality(ActiveSlots') = Cardinality(ActiveSlots \ {s}) + 1
      BY <2>4, <3>3, FS_AddElement
    <3>5. ExactAccounting'
      BY <2>4, <3>1, <3>4 DEF OneThreadInv, ExactAccounting
    <3>6. QueueBounded'
      BY <1>3, <3>1, <3>2, LimitsAssumption DEF OneThreadInv, QueueBounded
    <3> QED BY <1>1, <2>3, <3>5, <3>6 DEF OneThreadInv
  <2> QED BY <2>5, <2>6
<1>7. ASSUME NEW s \in Slot, ReleaseQueued(s)
      PROVE  OneThreadInv'
  <2>1. /\ token[s] = "release_queued"
        /\ slot_state[s] = "queued"
        /\ token' = [token EXCEPT ![s] = "dropped"]
        /\ slot_state' = [slot_state EXCEPT ![s] = "released"]
        /\ admission_queue' = RemoveFirst(admission_queue, s)
        /\ active' = active
    BY <1>7 DEF OneThreadInv, ReadIsCurrent, ReleaseQueued, LeaveQueue
  <2>2. OneRelease' /\ ReadIsCurrent'
    BY <1>1, <2>1 DEF OneThreadInv, Inv, TypeOK, OneRelease, Releasing, ReadIsCurrent
  <2>3. ActiveSlots' = ActiveSlots
    BY <1>1, <2>1 DEF Inv, TypeOK, ActiveSlots
  <2>4. QueueBounded'
    <3>1. Increasing(admission_queue)
      BY <1>1 DEF Inv, QueueMatchesMirrors, Increasing
    <3>2. Len(admission_queue') <= Len(admission_queue) /\ Len(admission_queue') \in Nat
      BY <1>1, <2>1, <3>1, IncreasingIsInjective, RemoveFirstLen, LenProperties
         DEF Inv, TypeOK
    <3> QED BY <1>3, <3>2, LimitsAssumption DEF OneThreadInv, QueueBounded
  <2> QED BY <1>1, <2>1, <2>2, <2>3, <2>4 DEF OneThreadInv, ExactAccounting
<1>8. ASSUME UNCHANGED <<active, admission_queue, slot_state, token>>
      PROVE  OneThreadInv'
  BY <1>1, <1>8 DEF OneThreadInv, OneRelease, Releasing, ReadIsCurrent,
                    ExactAccounting, ActiveSlots, QueueBounded
<1>9. ASSUME NEW s \in Slot,
             RunTurnPushBack(s) \/ RunTurnRotate(s) \/ RunTurnRemove(s)
      PROVE  OneThreadInv'
  BY <1>8, <1>9 DEF RunTurnPushBack, RunTurnRotate, RunTurnRemove, UseTurn
<1>10. CASE UNCHANGED vars
  BY <1>8, <1>10 DEF vars
<1> QED BY <1>4, <1>5, <1>6, <1>7, <1>9, <1>10 DEF Next

(***************************************************************************)
(* If all handles live on one thread, `active` is exactly the number of    *)
(* active slots for ever: the account of INV-6 is exact, for every limit.  *)
(***************************************************************************)
THEOREM ExactAccountingOnOneThread ==
  ASSUME OneThread
  PROVE  Spec => []ExactAccounting
<1>1. Init => OneThreadInv
  BY OneThreadInit
<1>2. OneThreadInv /\ [Next]_vars => OneThreadInv'
  BY OneThreadStep
<1>3. OneThreadInv => ExactAccounting
  BY DEF OneThreadInv
<1> QED BY <1>1, <1>2, <1>3, PTL DEF Spec

----------------------------------------------------------------------------
\* The refinement: one lemma per action, then the two facts it needs.

\* The library operators mean the same inside the instance.
LEMMA PromiseOperators ==
  /\ \A S : Promise!Cardinality(S) = Cardinality(S)
  /\ \A q : Promise!ToSet(q) = ToSet(q)
  /\ \A q, e : Promise!RemoveFirst(q, e) = RemoveFirst(q, e)
<1>1. \A S : Promise!Cardinality(S) = Cardinality(S)
  BY DEF Cardinality, Promise!Cardinality
<1>2. \A q : Promise!ToSet(q) = ToSet(q)
  BY DEF ToSet, Promise!ToSet
<1>3. \A q, e : Promise!RemoveFirst(q, e) = RemoveFirst(q, e)
  BY DEF RemoveFirst, Promise!RemoveFirst, RemoveAt, Promise!RemoveAt,
         SelectInSeq, Promise!SelectInSeq, Min, Promise!Min
<1> QED BY <1>1, <1>2, <1>3

LEMMA RefineInit == Init => Promise!Init
<1> SUFFICES ASSUME Init PROVE Promise!Init
  OBVIOUS
<1>1. ActiveSlots = {} /\ admission_queue = << >>
  BY DEF Init, ActiveSlots
<1>2. {s \in Slot : s < next_slot_id /\ token[s] = "none"} = {}
  BY LimitsAssumption DEF Init, Slot
<1>3. {s \in Slot : slot_state[s] = "released"} = {}
  BY DEF Init
<1> QED BY <1>1, <1>2, <1>3 DEF Promise!Init

\* A slot that was not handed out yet is new to the abstract specification.
LEMMA NextSlotIsNew ==
  ASSUME Inv, next_slot_id < MaxSlots
  PROVE  next_slot_id \in Slot \ Promise!Seen
<1>1. next_slot_id \in Slot
  BY LimitsAssumption DEF Inv, TypeOK, Slot
<1>2. token[next_slot_id] = "none" /\ slot_state[next_slot_id] = "none"
  BY <1>1 DEF Inv, TypeOK, Fresh, Slot
<1>3. next_slot_id \notin ToSet(admission_queue)
  BY <1>2 DEF Inv, QueueMatchesMirrors
<1>4. ~(next_slot_id < next_slot_id)
  BY LimitsAssumption DEF Inv, TypeOK
<1> QED BY <1>1, <1>2, <1>3, <1>4, PromiseOperators
        DEF ActiveSlots, Promise!Seen

LEMMA RefineAdmit ==
  ASSUME OneThreadInv, NEW t \in Thread, Admit(t)
  PROVE  Promise!Next
<1> DEFINE n == next_slot_id
           Refused == {s \in Slot : s < next_slot_id /\ token[s] = "none"}
           Gone == {s \in Slot : slot_state[s] = "released"}
<1>1. Inv /\ n < MaxSlots /\ next_slot_id' = n + 1
  BY DEF OneThreadInv, Admit
<1>2. n \in Slot \ Promise!Seen /\ n \in Slot
  BY <1>1, NextSlotIsNew
<1>3. token[n] = "none" /\ slot_state[n] = "none"
  BY <1>1, <1>2 DEF Inv, TypeOK, Fresh, Slot
<1>4. \A s \in Slot : s < n + 1 <=> s < n \/ s = n
  BY <1>1, LimitsAssumption DEF Inv, TypeOK, Slot
<1>5. active = Cardinality(ActiveSlots) /\ active \in Nat /\ active <= MaxActive
  BY <1>1 DEF OneThreadInv, ExactAccounting, Inv, TypeOK, NeverOversubscribed
<1>9. ~(n < n)
  BY <1>1, LimitsAssumption DEF Inv, TypeOK
<1>6. CASE AdmitActive
  <2>1. /\ active < MaxActive
        /\ admission_queue' = admission_queue
        /\ slot_state' = [slot_state EXCEPT ![n] = "active"]
        /\ token' = [token EXCEPT ![n] = "held"]
    BY <1>6 DEF AdmitActive, HasRoom, NewSlot
  <2>2. ActiveSlots' = ActiveSlots \union {n} /\ Gone' = Gone
    BY <1>1, <1>2, <1>3, <2>1 DEF Inv, TypeOK, ActiveSlots
  <2>3. Refused' = Refused
    BY <1>1, <1>2, <1>3, <1>4, <1>9, <2>1 DEF Inv, TypeOK
  <2>4. Promise!Run(n)
    BY <1>2, <1>5, <2>1, <2>2, <2>3, PromiseOperators DEF Promise!Run
  <2> QED BY <1>2, <2>4 DEF Promise!Next
<1>7. CASE AdmitQueued
  <2>1. /\ ~(active < MaxActive)
        /\ Len(admission_queue) < MaxQueued
        /\ admission_queue' = Append(admission_queue, n)
        /\ slot_state' = [slot_state EXCEPT ![n] = "queued"]
        /\ token' = [token EXCEPT ![n] = "held"]
    BY <1>7 DEF AdmitQueued, HasRoom, Enqueue, NewSlot
  <2>2. ActiveSlots' = ActiveSlots /\ Gone' = Gone
    BY <1>1, <1>2, <1>3, <2>1 DEF Inv, TypeOK, ActiveSlots
  <2>3. Refused' = Refused
    BY <1>1, <1>2, <1>3, <1>4, <1>9, <2>1 DEF Inv, TypeOK
  <2>4. Cardinality(ActiveSlots) = MaxActive
    BY <1>5, <2>1, LimitsAssumption
  <2>5. Promise!Wait(n)
    BY <1>2, <2>1, <2>2, <2>3, <2>4, PromiseOperators DEF Promise!Wait
  <2> QED BY <1>2, <2>5 DEF Promise!Next
<1>8. CASE AdmitRefused
  <2>1. /\ ~(active < MaxActive)
        /\ Len(admission_queue) >= MaxQueued
        /\ UNCHANGED <<admission_queue, slot_state, token>>
    BY <1>8 DEF AdmitRefused, HasRoom
  <2>2. ActiveSlots' = ActiveSlots /\ Gone' = Gone
    BY <2>1 DEF ActiveSlots
  <2>3. Refused' = Refused \union {n}
    BY <1>1, <1>2, <1>3, <1>4, <2>1
  <2>4. Cardinality(ActiveSlots) = MaxActive
    BY <1>5, <2>1, LimitsAssumption
  <2>5. Len(admission_queue) = MaxQueued
    <3>1. Len(admission_queue) \in Nat
      BY <1>1, LenProperties DEF Inv, TypeOK
    <3> QED BY <2>1, <3>1, LimitsAssumption DEF OneThreadInv, QueueBounded
  <2>6. PICK e \in Slot : e = n
    BY <1>2
  <2>7. Promise!Refuse(e)
    BY <1>2, <2>1, <2>2, <2>3, <2>4, <2>5, <2>6, PromiseOperators
       DEF Promise!Refuse
  <2> QED BY <2>7 DEF Promise!Next
<1> QED BY <1>6, <1>7, <1>8 DEF Admit

LEMMA RefineReleaseActive ==
  ASSUME OneThreadInv, NEW s \in Slot, ReleaseActive(s)
  PROVE  Promise!Next
<1> DEFINE h == Head(admission_queue)
           Refused == {u \in Slot : u < next_slot_id /\ token[u] = "none"}
           Gone == {u \in Slot : slot_state[u] = "released"}
<1>1. /\ Inv
      /\ token[s] = "release_active"
      /\ slot_state[s] = "active"
      /\ token' = [token EXCEPT ![s] = "dropped"]
      /\ next_slot_id' = next_slot_id
  BY DEF OneThreadInv, Inv, TokenMatchesMirror, ReleaseActive
<1>2. Refused' = Refused /\ s \in ActiveSlots
  BY <1>1 DEF Inv, TypeOK, ActiveSlots
<1>3. CASE NobodyWaits
  <2>1. /\ slot_state' = [slot_state EXCEPT ![s] = "released"]
        /\ admission_queue' = admission_queue
        /\ admission_queue = << >>
    BY <1>1, <1>3 DEF ReleaseActive, NobodyWaits
  <2>2. ActiveSlots' = ActiveSlots \ {s} /\ Gone' = Gone \union {s}
    BY <1>1, <2>1 DEF Inv, TypeOK, ActiveSlots
  <2>3. Promise!Finish(s)
    BY <1>2, <2>1, <2>2, PromiseOperators DEF Promise!Finish
  <2> QED BY <2>3 DEF Promise!Next
<1>4. CASE ~NobodyWaits
  <2>1. /\ slot_state' = [slot_state EXCEPT ![s] = "released", ![h] = "active"]
        /\ admission_queue' = Tail(admission_queue)
        /\ admission_queue # << >>
    BY <1>1, <1>4 DEF ReleaseActive, NobodyWaits
  <2>2. h \in Slot /\ slot_state[h] = "queued"
    <3>1. Increasing(admission_queue)
      BY <1>1 DEF Inv, QueueMatchesMirrors, Increasing
    <3> QED BY <1>1, <2>1, <3>1, TailIncreasing DEF Inv, TypeOK, QueueMatchesMirrors
  <2>3. ActiveSlots' = (ActiveSlots \ {s}) \union {h} /\ Gone' = Gone \union {s}
    <3> HIDE DEF h
    <3> QED BY <1>1, <2>1, <2>2 DEF Inv, TypeOK, ActiveSlots
  <2>4. Promise!Finish(s)
    BY <1>2, <2>1, <2>3, PromiseOperators DEF Promise!Finish
  <2> QED BY <2>4 DEF Promise!Next
<1> QED BY <1>3, <1>4

LEMMA RefineReleaseQueued ==
  ASSUME OneThreadInv, NEW s \in Slot, ReleaseQueued(s)
  PROVE  Promise!Next
<1> DEFINE Refused == {u \in Slot : u < next_slot_id /\ token[u] = "none"}
           Gone == {u \in Slot : slot_state[u] = "released"}
<1>1. /\ Inv
      /\ token[s] = "release_queued"
      /\ slot_state[s] = "queued"
      /\ token' = [token EXCEPT ![s] = "dropped"]
      /\ slot_state' = [slot_state EXCEPT ![s] = "released"]
      /\ admission_queue' = RemoveFirst(admission_queue, s)
      /\ next_slot_id' = next_slot_id
  BY DEF OneThreadInv, ReadIsCurrent, ReleaseQueued, LeaveQueue
<1>2. s \in ToSet(admission_queue)
  BY <1>1 DEF Inv, QueueMatchesMirrors
<1>3. ActiveSlots' = ActiveSlots /\ Gone' = Gone \union {s} /\ Refused' = Refused
  BY <1>1 DEF Inv, TypeOK, ActiveSlots
<1>4. Promise!GiveUp(s)
  BY <1>1, <1>2, <1>3, PromiseOperators DEF Promise!GiveUp
<1> QED BY <1>4 DEF Promise!Next

\* What leaves the admission state alone is a stutter of the promise.
LEMMA RefineStutter ==
  ASSUME UNCHANGED <<admission_queue, slot_state, next_slot_id>>,
         \A s \in Slot : token'[s] = "none" <=> token[s] = "none"
  PROVE  UNCHANGED Promise!vars
<1>1. ActiveSlots' = ActiveSlots
  BY DEF ActiveSlots
<1>2. {s \in Slot : s < next_slot_id /\ token[s] = "none"}' =
        {s \in Slot : s < next_slot_id /\ token[s] = "none"}
  OBVIOUS
<1> QED BY <1>1, <1>2 DEF Promise!vars

LEMMA RefineStep ==
  ASSUME OneThreadInv, [Next]_vars
  PROVE  [Promise!Next]_(Promise!vars)
<1>1. ASSUME NEW t \in Thread, Admit(t) PROVE Promise!Next
  BY <1>1, RefineAdmit
<1>2. ASSUME NEW s \in Slot, DropSlot(s) PROVE UNCHANGED Promise!vars
  <2>1. /\ token[s] = "held"
        /\ token' = [token EXCEPT ![s] = ReleaseCall(s)]
        /\ UNCHANGED <<admission_queue, slot_state, next_slot_id>>
    BY <1>2 DEF DropSlot
  <2>2. \A u \in Slot : token'[u] = "none" <=> token[u] = "none"
    BY <2>1 DEF OneThreadInv, Inv, TypeOK, ReleaseCall
  <2> QED BY <2>1, <2>2, RefineStutter
<1>3. ASSUME NEW s \in Slot, ReleaseActive(s) PROVE Promise!Next
  BY <1>3, RefineReleaseActive
<1>4. ASSUME NEW s \in Slot, ReleaseQueued(s) PROVE Promise!Next
  BY <1>4, RefineReleaseQueued
<1>5. ASSUME NEW s \in Slot,
             RunTurnPushBack(s) \/ RunTurnRotate(s) \/ RunTurnRemove(s)
      PROVE  UNCHANGED Promise!vars
  BY <1>5, RefineStutter
     DEF RunTurnPushBack, RunTurnRotate, RunTurnRemove, UseTurn
<1>6. CASE UNCHANGED vars
  BY <1>6, RefineStutter DEF vars
<1> QED BY <1>1, <1>2, <1>3, <1>4, <1>5, <1>6 DEF Next

(***************************************************************************)
(* On one thread the scheduler implements first-come bounded admission for *)
(* every limit: each step of its mutex and its drops is an arrival, a      *)
(* refusal, a hand-over or a withdrawal of Admission, or changes nothing.  *)
(***************************************************************************)
THEOREM ImplementsAdmissionOnOneThread ==
  ASSUME OneThread
  PROVE  Spec => ImplementsAdmission
<1>1. Init => Promise!Init
  BY RefineInit
<1>2. Init => OneThreadInv
  BY OneThreadInit
<1>3. OneThreadInv /\ [Next]_vars => OneThreadInv'
  BY OneThreadStep
<1>4. OneThreadInv /\ [Next]_vars => [Promise!Next]_(Promise!vars)
  BY RefineStep
<1> QED BY <1>1, <1>2, <1>3, <1>4, PTL DEF Spec, ImplementsAdmission, Promise!Spec

=============================================================================
