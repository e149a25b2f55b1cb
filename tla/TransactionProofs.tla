------------------------- MODULE TransactionProofs -------------------------
(***************************************************************************)
(* Proofs about Transaction, for all names, values, modules, cells and     *)
(* bounds: the types, that a rollback restores the language state, and     *)
(* that the stack of scopes comes back.                                    *)
(*                                                                         *)
(* The heart is Covered: at every moment of a transactional run, undoing   *)
(* the journal would give back each binding and each cell that the run     *)
(* found.  It survives an allocation only because the journal owns what it *)
(* may have to restore: FoundIsOwned.                                      *)
(***************************************************************************)
EXTENDS Transaction, TLAPS, WellFoundedInduction

\* The cells the last run found.
Found == Reachable(Bound(before.scopes), before.content)

\* What the parts of the state are when a run is and is not in progress.
Shape ==
  /\ running => ended = "none"
  /\ ~running => frames = <<>>
  /\ journal <=> running /\ transactional
  /\ ~journal => /\ \A i \in 1 .. MaxScopes, n \in Name : entries[i][n] = Unseen
                 /\ \A c \in Cell : originals[c] = Unseen
  /\ Len(before.scopes) \in 1 .. Len(scopes)

\* The frames lie above one another, and above the scopes the run found.
Nested ==
  /\ \A k \in DOMAIN frames :
       frames[k].scope_base \in Len(before.scopes) .. (Len(scopes) - 1)
  /\ \A j, k \in DOMAIN frames :
       j < k => frames[j].scope_base < frames[k].scope_base
  /\ running => IF frames = <<>> THEN Len(scopes) = Len(before.scopes)
                ELSE frames[1].scope_base = Len(before.scopes)

\* The journal and the state together are the state the run found.
Covered ==
  journal =>
    /\ \A i \in 1 .. Len(before.scopes), n \in Name :
         before.scopes[i][n] =
           IF entries[i][n] = Unseen THEN scopes[i][n] ELSE entries[i][n]
    /\ \A c \in Found :
         before.content[c] =
           IF originals[c] = Unseen THEN content[c] ELSE originals[c]

Imported ==
  running => /\ loaded = before.loaded \union newly_loaded
             /\ newly_loaded \intersect before.loaded = {}

IInv ==
  /\ TypeOK
  /\ Shape
  /\ Nested
  /\ Covered
  /\ Imported
  /\ RollbackRestores
  /\ ScopesReturn

----------------------------------------------------------------------------

\* Undo entries are told from what they hold.
LEMMA UnseenIsNoValue ==
  Unseen \notin Value /\ Unseen \notin Cell \union {NoCell} /\ NoCell \notin Cell
  BY TransactionAssumption DEF Value, Closure

\* A fresh context satisfies the invariant.
LEMMA InitIInv == Init => IInv
<1> SUFFICES ASSUME Init PROVE IInv
  OBVIOUS
<1>1. EmptyScope \in Scope
  BY DEF EmptyScope, Scope
<1>2. scopes = <<EmptyScope>> /\ scopes \in Seq(Scope) /\ Len(scopes) = 1
  BY <1>1 DEF Init
<1>3. content \in [Cell -> Value]
  <2>1. (CHOOSE d \in Data : TRUE) \in Value
    BY TransactionAssumption DEF Value
  <2> QED
    BY <2>1 DEF Init
<1>4. frames = <<>> /\ DOMAIN frames = {} /\ Len(frames) = 0
  BY DEF Init
<1>5. before.scopes = scopes /\ before.content = content /\ before.loaded = {}
  BY DEF Init
<1>6. TypeOK
  <2>1. entries \in EntryType /\ originals \in [Cell -> Value \union {Unseen}]
    BY DEF Init, EntryType
  <2>2. before \in [scopes : Seq(Scope), content : [Cell -> Value],
                    loaded : SUBSET Module]
    BY <1>2, <1>3 DEF Init
  <2>3. 1 \in 1 .. MaxScopes /\ 0 \in 0 .. MaxWork
    BY TransactionAssumption
  <2>4. /\ journal \in BOOLEAN /\ running \in BOOLEAN /\ transactional \in BOOLEAN
    BY DEF Init
  <2> QED
    BY <1>2, <1>3, <1>4, <2>1, <2>2, <2>3, <2>4 DEF Init, TypeOK
<1>7. Shape
  <2>1. ~journal /\ ~running
    BY DEF Init
  <2>2. Len(before.scopes) \in 1 .. Len(scopes)
    BY <1>2, <1>5
  <2>3. /\ \A i \in 1 .. MaxScopes, n \in Name : entries[i][n] = Unseen
        /\ \A c \in Cell : originals[c] = Unseen
    BY DEF Init
  <2> QED
    BY <1>4, <2>1, <2>2, <2>3 DEF Shape
<1>8. Nested
  BY <1>4 DEF Init, Nested
<1>9. Covered /\ Imported /\ RollbackRestores /\ ScopesReturn
  BY DEF Init, Covered, Imported, RollbackRestores, ScopesReturn
<1> QED
  BY <1>6, <1>7, <1>8, <1>9 DEF IInv

----------------------------------------------------------------------------
\* Lemmas the actions share.

\* The first scopes of a stack are a stack.
LEMMA Shortened ==
  ASSUME NEW S, NEW s \in Seq(S), NEW n \in 1 .. Len(s)
  PROVE /\ SubSeq(s, 1, n) \in Seq(S)
        /\ Len(SubSeq(s, 1, n)) = n
        /\ \A i \in 1 .. n : SubSeq(s, 1, n)[i] = s[i]
  OBVIOUS

\* So is a stack without its top.
LEMMA Popped ==
  ASSUME NEW S, NEW s \in Seq(S), s # <<>>
  PROVE /\ Len(s) \in Nat \ {0} /\ DOMAIN s = 1 .. Len(s) /\ s[Len(s)] \in S
        /\ SubSeq(s, 1, Len(s) - 1) \in Seq(S)
        /\ DOMAIN SubSeq(s, 1, Len(s) - 1) = 1 .. (Len(s) - 1)
        /\ \A k \in 1 .. (Len(s) - 1) : SubSeq(s, 1, Len(s) - 1)[k] = s[k]
        /\ SubSeq(s, 1, Len(s) - 1) = <<>> => Len(s) = 1
<1>1. Len(s) \in Nat \ {0} /\ DOMAIN s = 1 .. Len(s) /\ s[Len(s)] \in S
  OBVIOUS
<1>2. /\ SubSeq(s, 1, Len(s) - 1) \in Seq(S)
      /\ Len(SubSeq(s, 1, Len(s) - 1)) = Len(s) - 1
      /\ \A k \in 1 .. (Len(s) - 1) : SubSeq(s, 1, Len(s) - 1)[k] = s[k]
  BY <1>1
<1>3. DOMAIN SubSeq(s, 1, Len(s) - 1) = 1 .. (Len(s) - 1)
  BY <1>2
<1>4. SubSeq(s, 1, Len(s) - 1) = <<>> => Len(s) = 1
  <2> DEFINE popped == SubSeq(s, 1, Len(s) - 1)
             n == Len(s)
  <2>1. n \in Nat /\ Len(popped) = n - 1
    BY <1>1, <1>2
  <2> HIDE DEF popped, n
  <2>2. popped = <<>> => Len(popped) = 0
    OBVIOUS
  <2>3. popped = <<>> => n = 1
    <3>1. ASSUME popped = <<>> PROVE n - 1 = 0
      BY <2>1, <2>2, <3>1
    <3> QED
      BY <2>1, <3>1
  <2> QED
    BY <2>3, Zenon DEF popped, n
<1> QED
  BY <1>1, <1>2, <1>3, <1>4

\* So is a stack with one more.
LEMMA Pushed ==
  ASSUME NEW S, NEW s \in Seq(S), NEW e \in S
  PROVE /\ Append(s, e) \in Seq(S)
        /\ Len(Append(s, e)) = Len(s) + 1
        /\ \A i \in 1 .. Len(s) : Append(s, e)[i] = s[i]
        /\ Append(s, e)[Len(s) + 1] = e
  OBVIOUS

\* So is a stack with one of them replaced.
LEMMA Replaced ==
  ASSUME NEW S, NEW s \in Seq(S), NEW i \in 1 .. Len(s), NEW e \in S
  PROVE /\ [s EXCEPT ![i] = e] \in Seq(S)
        /\ Len([s EXCEPT ![i] = e]) = Len(s)
  OBVIOUS

\* How many scopes there are, and how many the run found.
LEMMA Positions ==
  ASSUME TypeOK, Shape
  PROVE /\ Len(scopes) \in Nat /\ Len(before.scopes) \in Nat
        /\ DOMAIN scopes = 1 .. Len(scopes)
        /\ before.scopes \in Seq(Scope)
        /\ DOMAIN before.scopes = 1 .. Len(before.scopes)
        /\ 1 .. Len(before.scopes) \subseteq 1 .. Len(scopes)
        /\ 1 .. Len(scopes) \subseteq 1 .. MaxScopes
        /\ 1 <= Len(before.scopes) /\ Len(before.scopes) <= Len(scopes)
        /\ Len(scopes) <= MaxScopes /\ MaxScopes \in Nat
        /\ Len(scopes) \in Len(before.scopes) .. Len(scopes)
<1>1. scopes \in Seq(Scope) /\ before.scopes \in Seq(Scope)
  BY DEF TypeOK
<1>2. /\ Len(scopes) \in Nat /\ Len(before.scopes) \in Nat
      /\ DOMAIN scopes = 1 .. Len(scopes)
      /\ DOMAIN before.scopes = 1 .. Len(before.scopes)
  BY <1>1
<1>3. Len(scopes) \in 1 .. MaxScopes /\ Len(before.scopes) \in 1 .. Len(scopes)
  BY DEF TypeOK, Shape
<1>4. MaxScopes \in Nat
  BY TransactionAssumption
<1> DEFINE a == Len(scopes)
           b == Len(before.scopes)
<1>5. a \in Nat /\ b \in Nat /\ a \in 1 .. MaxScopes /\ b \in 1 .. a
  BY <1>2, <1>3
<1> HIDE DEF a, b
<1>6. /\ 1 .. b \subseteq 1 .. a /\ 1 .. a \subseteq 1 .. MaxScopes
      /\ 1 <= b /\ b <= a /\ a <= MaxScopes /\ a \in b .. a
  BY <1>4, <1>5
<1> QED
  BY <1>1, <1>2, <1>4, <1>6 DEF a, b

\* A step of a run says nothing of how runs end.
LEMMA StillRunning ==
  ASSUME IInv, running, run' = run
  PROVE RollbackRestores' /\ ScopesReturn' /\ running' /\ ended' = "none"
  BY DEF IInv, Shape, RollbackRestores, ScopesReturn, run

\* The journal of a run owns, or the scopes still reach, whatever the run
\* found: no address in Found is given out again before the run ends.
LEMMA FoundIsOwned ==
  ASSUME TypeOK, Covered, journal, Len(before.scopes) \in 1 .. Len(scopes)
  PROVE Found \subseteq Reachable(Owned, content)
<1> DEFINE B == Bound(before.scopes)
           F == before.content
<1>1. before.scopes \in Seq(Scope) /\ F \in [Cell -> Value]
  BY DEF TypeOK
<1>2. B \subseteq Cell
  BY <1>1 DEF Bound, Scope
<1>3. B \subseteq Found
  BY <1>2 DEF Found, Reachable
<1>4. SUFFICES ASSUME NEW c \in Found, NEW S \in SUBSET Cell,
                      Owned \subseteq S, ClosedUnder(S, content)
               PROVE c \in S
  BY DEF Found, Reachable
<1>5. B \subseteq S
  <2> SUFFICES ASSUME NEW i \in DOMAIN before.scopes, NEW n \in Name,
                      before.scopes[i][n] # NoCell
               PROVE before.scopes[i][n] \in S
    BY DEF Bound
  <2>1. i \in 1 .. Len(before.scopes) /\ i \in DOMAIN scopes /\ i \in 1 .. MaxScopes
    <3>1. Len(scopes) \in Nat /\ Len(scopes) \in 1 .. MaxScopes
          /\ DOMAIN scopes = 1 .. Len(scopes)
      BY DEF TypeOK
    <3>2. DOMAIN before.scopes = 1 .. Len(before.scopes)
      BY <1>1
    <3> HIDE <1>1
    <3> QED
      BY <3>1, <3>2, TransactionAssumption
  <2>2. CASE entries[i][n] = Unseen
    <3>1. before.scopes[i][n] = scopes[i][n]
      BY <2>1, <2>2 DEF Covered
    <3> QED
      BY <1>4, <2>1, <3>1 DEF Owned, Bound
  <2>3. CASE entries[i][n] # Unseen
    <3>1. before.scopes[i][n] = entries[i][n]
      BY <2>1, <2>3 DEF Covered
    <3> QED
      BY <1>4, <2>1, <2>3, <3>1 DEF Owned, Recorded
  <2> QED
    BY <2>2, <2>3
<1>6. ClosedUnder(S \intersect Found, F)
  <2> SUFFICES ASSUME NEW d \in S \intersect Found, NEW e \in Refs(F[d])
               PROVE e \in S \intersect Found
    BY DEF ClosedUnder
  <2>1. d \in Cell /\ F[d] \in Closure /\ e = F[d].cell /\ e \in Cell
    BY DEF Refs, Closure
  <2>2. e \in Found
    BY <2>1 DEF Found, Reachable, ClosedUnder
  <2>3. CASE originals[d] = Unseen
    <3>1. F[d] = content[d]
      BY <2>3 DEF Covered
    <3> QED
      BY <1>4, <2>2, <3>1 DEF ClosedUnder
  <2>4. CASE originals[d] # Unseen
    <3>1. F[d] = originals[d]
      BY <2>4 DEF Covered
    <3>2. e \in Recorded
      BY <2>1, <3>1 DEF Recorded
    <3> QED
      BY <1>4, <2>2, <3>2 DEF Owned
  <2> QED
    BY <2>3, <2>4
<1> HIDE DEF B, F
<1>7. S \intersect Found \in SUBSET Cell /\ B \subseteq S \intersect Found
  BY <1>3, <1>5
<1>8. c \in S \intersect Found
  BY <1>6, <1>7 DEF Found, Reachable, B, F
<1> QED
  BY <1>8

----------------------------------------------------------------------------
\* Each action preserves the invariant.

LEMMA BeginIInv ==
  ASSUME IInv, NEW t \in BOOLEAN, NEW I \in SUBSET Module, Begin(t, I)
  PROVE IInv'
<1>1. /\ before'.scopes = scopes /\ before'.content = content
      /\ before'.loaded = loaded
      /\ scopes' = scopes /\ content' = content /\ frames' = frames
      /\ entries' = entries /\ originals' = originals
      /\ journal' = t /\ transactional' = t /\ running' /\ ~running
      /\ ended' = "none"
  BY DEF Begin, env
<1>2. TypeOK'
  <2>1. work' \in 0 .. MaxWork
    BY TransactionAssumption DEF IInv, TypeOK, Begin, CountWork
  <2>2. before' \in [scopes : Seq(Scope), content : [Cell -> Value],
                     loaded : SUBSET Module]
    BY DEF IInv, TypeOK, Begin
  <2>3. journal' \in BOOLEAN /\ running' \in BOOLEAN /\ transactional' \in BOOLEAN
    BY DEF Begin
  <2>4. newly_loaded' \subseteq Module /\ loaded' \subseteq Module
    BY DEF IInv, TypeOK, Begin
  <2> QED
    BY <2>1, <2>2, <2>3, <2>4 DEF IInv, TypeOK, Begin, env
<1>3. frames = <<>> /\ ~journal
  BY <1>1 DEF IInv, Shape
<1>4. Shape'
  <2>1. Len(scopes) \in 1 .. Len(scopes)
    BY DEF IInv, TypeOK
  <2>2. /\ \A i \in 1 .. MaxScopes, n \in Name : entries[i][n] = Unseen
        /\ \A c \in Cell : originals[c] = Unseen
    BY <1>3 DEF IInv, Shape
  <2> QED
    BY <1>1, <1>3, <2>1, <2>2 DEF Shape
<1>5. Nested'
  BY <1>1, <1>3 DEF Nested
<1>6. Covered'
  <2> SUFFICES ASSUME t PROVE Covered'
    BY <1>1 DEF Covered
  <2>1. \A i \in 1 .. Len(scopes), n \in Name : entries[i][n] = Unseen
    <3>1. 1 .. Len(scopes) \subseteq 1 .. MaxScopes
      BY Positions DEF IInv
    <3> QED
      BY <1>3, <3>1 DEF IInv, Shape
  <2>2. \A c \in Cell : originals[c] = Unseen
    BY <1>3 DEF IInv, Shape
  <2>3. Found' \subseteq Cell
    BY DEF Found, Reachable
  <2> QED
    BY <1>1, <2>1, <2>2, <2>3 DEF Covered
<1>7. Imported'
  BY <1>1 DEF Imported, Begin
<1>8. RollbackRestores' /\ ScopesReturn'
  BY <1>1 DEF RollbackRestores, ScopesReturn
<1> QED
  BY <1>2, <1>4, <1>5, <1>6, <1>7, <1>8 DEF IInv

\* A statement that leaves the number of scopes, the frames and the run as
\* they are.
LEMMA StatementIInv ==
  ASSUME IInv, running, run' = run, frames' = frames, journal' = journal,
         loaded' = loaded, TypeOK', Covered', Len(scopes') = Len(scopes),
         ~journal => entries' = entries /\ originals' = originals
  PROVE IInv'
<1>1. RollbackRestores' /\ ScopesReturn' /\ running' /\ ended' = "none"
  BY StillRunning
<1>2. before' = before /\ transactional' = transactional /\ newly_loaded' = newly_loaded
  BY DEF run
<1>3. Shape'
  BY <1>1, <1>2 DEF IInv, Shape
<1>4. Nested'
  BY <1>1, <1>2 DEF IInv, Nested
<1>5. Imported'
  BY <1>1, <1>2 DEF IInv, Imported
<1> QED
  BY <1>1, <1>3, <1>4, <1>5 DEF IInv

\* A new binding, in a cell nobody reaches.
LEMMA DefineIInv ==
  ASSUME IInv, NEW n \in Name, NEW v \in Value, Define(n, v)
  PROVE IInv'
<1> DEFINE top == Len(scopes)
<1>1. PICK c \in Cell : /\ Fresh(c)
                       /\ content' = [content EXCEPT ![c] = v]
                       /\ scopes' = [scopes EXCEPT ![top][n] = c]
  BY DEF Define
<1>2. /\ running /\ run' = run /\ frames' = frames /\ journal' = journal
      /\ loaded' = loaded /\ ran' = ran /\ frame_base' = frame_base
      /\ originals' = originals /\ JournalEntry(top, n) /\ CountWork
  BY DEF Define
<1>3. TypeOK /\ Shape /\ Covered /\ before' = before
  BY <1>2 DEF IInv, run
<1>4. /\ top \in 1 .. Len(scopes) /\ top \in 1 .. MaxScopes
      /\ scopes \in Seq(Scope) /\ scopes[top] \in Scope
  BY <1>3, Positions DEF TypeOK
<1>5. /\ scopes' \in Seq(Scope) /\ Len(scopes') = Len(scopes)
  <2>1. [scopes[top] EXCEPT ![n] = c] \in Scope
    BY <1>4 DEF Scope
  <2>2. scopes' = [scopes EXCEPT ![top] = [scopes[top] EXCEPT ![n] = c]]
    BY <1>1
  <2> QED
    BY <1>4, <2>1, <2>2, Replaced
<1>6. entries \in EntryType /\ entries' \in EntryType
  <2>1. entries \in EntryType
    BY <1>3 DEF TypeOK
  <2>2. scopes[top][n] \in Cell \union {NoCell, Unseen}
    BY <1>4 DEF Scope
  <2> HIDE DEF top
  <2> QED
    BY <1>2, <1>4, <2>1, <2>2 DEF JournalEntry, EntryType
<1>7. TypeOK'
  <2>1. content' \in [Cell -> Value]
    BY <1>1, <1>3 DEF TypeOK
  <2>2. Len(scopes') \in 1 .. MaxScopes
    BY <1>3, <1>5 DEF TypeOK
  <2>3. work' \in 0 .. MaxWork
    BY <1>2, <1>3, TransactionAssumption DEF TypeOK, CountWork
  <2> QED
    BY <1>2, <1>3, <1>5, <1>6, <2>1, <2>2, <2>3 DEF TypeOK, run
<1>8. Covered'
  <2> SUFFICES ASSUME journal
               PROVE  /\ \A i \in 1 .. Len(before.scopes), m \in Name :
                            before.scopes[i][m] =
                              IF entries'[i][m] = Unseen
                              THEN scopes'[i][m] ELSE entries'[i][m]
                      /\ \A d \in Found :
                            before.content[d] =
                              IF originals[d] = Unseen
                              THEN content'[d] ELSE originals[d]
    BY <1>2, <1>3 DEF Covered, Found
  <2>1. ASSUME NEW i \in 1 .. Len(before.scopes), NEW m \in Name
        PROVE  before.scopes[i][m] =
                 IF entries'[i][m] = Unseen THEN scopes'[i][m] ELSE entries'[i][m]
    <3>1. i \in DOMAIN scopes /\ i \in 1 .. MaxScopes /\ scopes[i] \in Scope
      BY <1>3, <1>4, Positions
    <3>2. before.scopes[i][m] =
            IF entries[i][m] = Unseen THEN scopes[i][m] ELSE entries[i][m]
      BY <1>3 DEF Covered
    <3>3. scopes[i][m] # Unseen
      BY <3>1, UnseenIsNoValue DEF Scope
    <3>4. ASSUME i # top \/ m # n
          PROVE  scopes'[i][m] = scopes[i][m] /\ entries'[i][m] = entries[i][m]
      BY <1>1, <1>2, <1>4, <1>6, <3>1, <3>4 DEF JournalEntry, EntryType, Scope
    <3>5. ASSUME i = top, m = n
          PROVE  entries'[i][m] = IF entries[i][m] = Unseen THEN scopes[i][m]
                                  ELSE entries[i][m]
      BY <1>2, <1>4, <1>6, <3>1, <3>5 DEF JournalEntry, EntryType
    <3> QED
      BY <3>2, <3>3, <3>4, <3>5
  <2>2. ASSUME NEW d \in Found
        PROVE  before.content[d] =
                 IF originals[d] = Unseen THEN content'[d] ELSE originals[d]
    <3>1. d # c
      BY <1>1, <1>3, FoundIsOwned DEF Fresh, Shape
    <3>2. d \in Cell
      BY DEF Found, Reachable
    <3>3. content'[d] = content[d]
      BY <1>1, <1>3, <3>1, <3>2 DEF TypeOK
    <3> QED
      BY <1>3, <3>3 DEF Covered
  <2> QED
    BY <2>1, <2>2
<1>9. ~journal => entries' = entries /\ originals' = originals
  BY <1>2 DEF JournalEntry
<1> QED
  BY <1>2, <1>5, <1>7, <1>8, <1>9, StatementIInv

\* A new value in a cell that is in use.
LEMMA AssignIInv ==
  ASSUME IInv, NEW n \in Name, NEW v \in Value, Assign(n, v)
  PROVE IInv'
<1>1. PICK i \in 1 .. Len(scopes) :
        /\ IsVisible(n, i)
        /\ JournalCell(scopes[i][n])
        /\ content' = [content EXCEPT ![scopes[i][n]] = v]
  BY DEF Assign
<1>2. /\ running /\ run' = run /\ frames' = frames /\ journal' = journal
      /\ loaded' = loaded /\ ran' = ran /\ frame_base' = frame_base
      /\ scopes' = scopes /\ entries' = entries /\ CountWork
  BY DEF Assign
<1>3. TypeOK /\ Shape /\ Covered /\ before' = before
  BY <1>2 DEF IInv, run
<1> DEFINE c == scopes[i][n]
<1>4. c \in Cell
  <2>1. scopes[i] \in Scope
    BY <1>3, Positions DEF TypeOK
  <2> QED
    BY <1>1, <2>1 DEF IsVisible, Scope
<1> HIDE DEF c
<1>5. /\ JournalCell(c) /\ content' = [content EXCEPT ![c] = v]
  BY <1>1 DEF c
<1>6. /\ content \in [Cell -> Value]
      /\ originals \in [Cell -> Value \union {Unseen}]
  BY <1>3 DEF TypeOK
<1>7. TypeOK'
  <2>1. content' \in [Cell -> Value]
    BY <1>5, <1>6
  <2>2. originals' \in [Cell -> Value \union {Unseen}]
    BY <1>4, <1>5, <1>6 DEF JournalCell
  <2>3. work' \in 0 .. MaxWork
    BY <1>2, <1>3, TransactionAssumption DEF TypeOK, CountWork
  <2> QED
    BY <1>2, <1>3, <2>1, <2>2, <2>3 DEF TypeOK, run
<1>8. Covered'
  <2> SUFFICES ASSUME journal, NEW e \in Found
               PROVE  before.content[e] =
                        IF originals'[e] = Unseen THEN content'[e] ELSE originals'[e]
    BY <1>2, <1>3 DEF Covered, Found
  <2>1. e \in Cell /\ content[e] # Unseen
    BY <1>6, UnseenIsNoValue DEF Found, Reachable
  <2>2. before.content[e] =
          IF originals[e] = Unseen THEN content[e] ELSE originals[e]
    BY <1>3 DEF Covered
  <2> QED
    BY <1>4, <1>5, <1>6, <2>1, <2>2 DEF JournalCell
<1>9. ~journal => entries' = entries /\ originals' = originals
  BY <1>2, <1>5 DEF JournalCell
<1> QED
  BY <1>2, <1>7, <1>8, <1>9, StatementIInv

\* Where a frame may stand.
FrameType == [kind : {"block", "call"},
              scope_base : 1 .. MaxScopes, frame_base : 1 .. MaxScopes]

\* A block or a call goes on the stack.
LEMMA PushIInv ==
  ASSUME IInv, running, run' = run, journal' = journal, loaded' = loaded,
         originals' = originals, content' = content,
         ~journal => entries' = entries,
         \A i \in 1 .. Len(scopes) : entries'[i] = entries[i],
         NEW kind \in {"block", "call"}, frames' = Append(frames, Frame(kind)),
         NEW e \in Scope, scopes' = Append(scopes, e), TypeOK'
  PROVE IInv'
<1>1. RollbackRestores' /\ ScopesReturn' /\ running' /\ ended' = "none"
  BY StillRunning
<1>2. before' = before /\ transactional' = transactional /\ newly_loaded' = newly_loaded
  BY DEF run
<1>3. /\ TypeOK /\ Shape /\ Nested /\ Covered /\ Imported
      /\ scopes \in Seq(Scope) /\ frames \in Seq(FrameType)
  BY DEF IInv, TypeOK, FrameType
<1>4. /\ Len(scopes') = Len(scopes) + 1
      /\ \A i \in 1 .. Len(scopes) : scopes'[i] = scopes[i]
  BY <1>3, Pushed
<1>5. Shape'
  <2>1. Len(before.scopes) \in 1 .. Len(scopes')
    BY <1>3, <1>4, Positions
  <2> QED
    BY <1>1, <1>2, <1>3, <2>1 DEF Shape
<1>6. Nested'
  <2>1. Frame(kind) = [kind |-> kind, scope_base |-> Len(scopes), frame_base |-> frame_base]
    BY DEF Frame
  <2>2. Frame(kind) \in FrameType
    BY <1>3, <2>1 DEF TypeOK, FrameType
  <2> DEFINE K == Len(frames)
  <2>3. /\ K \in Nat /\ DOMAIN frames = 1 .. K /\ DOMAIN frames' = 1 .. (K + 1)
        /\ \A k \in 1 .. K : frames'[k] = frames[k]
        /\ frames'[K + 1] = Frame(kind)
        /\ frames = <<>> <=> K = 0
        /\ frames' # <<>>
    BY <1>3, <2>2, Pushed
  <2>4. frames'[K + 1].scope_base = Len(scopes)
    BY <2>1, <2>3
  <2>5. /\ Len(scopes) \in Nat /\ Len(before.scopes) \in Nat
        /\ Len(before.scopes) <= Len(scopes)
        /\ Len(scopes) \in Len(before.scopes) .. Len(scopes)
    BY <1>3, Positions
  <2> HIDE DEF K
  <2>6. \A k \in DOMAIN frames' :
          frames'[k].scope_base \in Len(before.scopes) .. (Len(scopes') - 1)
    <3> SUFFICES ASSUME NEW k \in 1 .. (K + 1)
                 PROVE frames'[k].scope_base \in Len(before.scopes) .. Len(scopes)
      BY <1>4, <2>3, <2>5
    <3>1. CASE k = K + 1
      BY <2>4, <2>5, <3>1
    <3>2. CASE k \in 1 .. K
      <4>1. frames[k].scope_base \in Len(before.scopes) .. (Len(scopes) - 1)
        BY <1>3, <2>3, <3>2 DEF Nested
      <4> QED
        BY <2>3, <2>5, <3>2, <4>1
    <3> QED
      BY <2>3, <3>1, <3>2
  <2>7. \A j, k \in DOMAIN frames' :
          j < k => frames'[j].scope_base < frames'[k].scope_base
    <3> SUFFICES ASSUME NEW j \in 1 .. (K + 1), NEW k \in 1 .. (K + 1), j < k
                 PROVE frames'[j].scope_base < frames'[k].scope_base
      BY <2>3
    <3>1. j \in 1 .. K
      BY <2>3
    <3>2. CASE k = K + 1
      <4>1. frames[j].scope_base \in Len(before.scopes) .. (Len(scopes) - 1)
        BY <1>3, <2>3, <3>1 DEF Nested
      <4> QED
        BY <2>3, <2>4, <2>5, <3>1, <3>2, <4>1
    <3>3. CASE k \in 1 .. K
      BY <1>3, <2>3, <3>1, <3>3 DEF Nested
    <3> QED
      BY <2>3, <3>2, <3>3
  <2>8. frames'[1].scope_base = Len(before.scopes)
    <3>1. CASE K = 0
      BY <1>3, <2>3, <2>4, <3>1 DEF Nested
    <3>2. CASE K # 0
      <4>1. frames[1].scope_base = Len(before.scopes)
        BY <1>3, <2>3, <3>2 DEF Nested
      <4> QED
        BY <2>3, <3>2, <4>1
    <3> QED
      BY <3>1, <3>2
  <2> QED
    BY <1>2, <2>3, <2>6, <2>7, <2>8 DEF Nested
<1>7. Covered'
  <2> SUFFICES ASSUME journal, NEW i \in 1 .. Len(before.scopes), NEW m \in Name
               PROVE before.scopes[i][m] = IF entries'[i][m] = Unseen
                                           THEN scopes'[i][m] ELSE entries'[i][m]
    BY <1>2, <1>3 DEF Covered, Found
  <2>1. i \in 1 .. Len(scopes)
    BY <1>3, Positions
  <2> QED
    BY <1>3, <1>4, <2>1 DEF Covered
<1>8. Imported'
  BY <1>2, <1>3 DEF Imported
<1> QED
  BY <1>1, <1>5, <1>6, <1>7, <1>8 DEF IInv

LEMMA PushScopeIInv ==
  ASSUME IInv, PushScope
  PROVE IInv'
<1>1. TypeOK /\ Shape /\ scopes \in Seq(Scope) /\ EmptyScope \in Scope
  BY DEF IInv, TypeOK, EmptyScope, Scope
<1>2. /\ running /\ run' = run /\ journal' = journal /\ loaded' = loaded
      /\ ran' = ran /\ frame_base' = frame_base /\ content' = content
      /\ entries' = entries /\ originals' = originals
      /\ scopes' = Append(scopes, EmptyScope)
      /\ frames' = Append(frames, Frame("block"))
      /\ Len(scopes) < MaxScopes /\ CountWork
  BY DEF PushScope, undo
<1>3. scopes' \in Seq(Scope) /\ Len(scopes') \in 1 .. MaxScopes
  BY <1>1, <1>2, Pushed, Positions
<1>4. frames' \in Seq(FrameType)
  BY <1>1, <1>2 DEF TypeOK, Frame, FrameType
<1>5. work' \in 0 .. MaxWork
  BY <1>1, <1>2, TransactionAssumption DEF TypeOK, CountWork
<1>6. TypeOK'
  BY <1>1, <1>2, <1>3, <1>4, <1>5 DEF TypeOK, run, FrameType
<1> QED
  BY <1>1, <1>2, <1>6, PushIInv

LEMMA CallIInv ==
  ASSUME IInv, NEW n \in Name, Call(n)
  PROVE IInv'
<1>1. TypeOK /\ Shape /\ scopes \in Seq(Scope)
  BY DEF IInv, TypeOK
<1>2. PICK v \in Closure :
        /\ scopes' = Append(scopes, [EmptyScope EXCEPT ![v.name] = v.cell])
        /\ entries' = IF journal /\ entries[Len(scopes) + 1][v.name] = Unseen
                      THEN [entries EXCEPT ![Len(scopes) + 1][v.name] = NoCell]
                      ELSE entries
  BY DEF Call
<1> DEFINE e == [EmptyScope EXCEPT ![v.name] = v.cell]
           top == Len(scopes) + 1
<1>3. e \in Scope /\ v.name \in Name
  BY <1>2 DEF EmptyScope, Scope, Closure
<1>4. /\ running /\ run' = run /\ journal' = journal /\ loaded' = loaded
      /\ ran' = ran /\ frame_base' = top /\ content' = content
      /\ originals' = originals
      /\ frames' = Append(frames, Frame("call"))
      /\ Len(scopes) < MaxScopes /\ CountWork
  BY DEF Call
<1>5. top \in 1 .. MaxScopes /\ \A i \in 1 .. Len(scopes) : i # top
  BY <1>1, <1>4, Positions
<1>6. scopes' \in Seq(Scope) /\ Len(scopes') = top
  BY <1>1, <1>2, <1>3, Pushed
<1>7. frames' \in Seq(FrameType)
  BY <1>1, <1>4 DEF TypeOK, Frame, FrameType
<1>8. work' \in 0 .. MaxWork
  BY <1>1, <1>4, TransactionAssumption DEF TypeOK, CountWork
<1>9. entries \in EntryType
  BY <1>1 DEF TypeOK
<1> HIDE DEF top
<1>10. entries' \in EntryType /\ \A i \in 1 .. Len(scopes) : entries'[i] = entries[i]
  <2>1. entries' = IF journal /\ entries[top][v.name] = Unseen
                   THEN [entries EXCEPT ![top][v.name] = NoCell] ELSE entries
    BY <1>2 DEF top
  <2>2. 1 .. Len(scopes) \subseteq 1 .. MaxScopes
    BY <1>1, Positions
  <2> QED
    BY <1>3, <1>5, <1>9, <2>1, <2>2 DEF EntryType
<1>11. TypeOK'
  BY <1>1, <1>4, <1>5, <1>6, <1>7, <1>8, <1>10 DEF TypeOK, run, FrameType
<1>12. ~journal => entries' = entries
  BY <1>2
<1> HIDE DEF e
<1> QED
  BY <1>1, <1>2, <1>3, <1>4, <1>10, <1>11, <1>12, PushIInv DEF e

\* The frame on top goes, with the scopes above its base.
LEMMA PopFrameIInv ==
  ASSUME IInv, PopFrame
  PROVE IInv'
<1> DEFINE K == Len(frames)
           b == frames[K].scope_base
<1>1. /\ TypeOK /\ Shape /\ Nested /\ Covered /\ Imported
      /\ scopes \in Seq(Scope) /\ frames \in Seq(FrameType)
  BY DEF IInv, TypeOK, FrameType
<1>2. /\ running /\ frames # <<>> /\ run' = run /\ journal' = journal
      /\ loaded' = loaded /\ ran' = ran /\ content' = content
      /\ entries' = entries /\ originals' = originals /\ work' = work
      /\ scopes' = SubSeq(scopes, 1, b)
      /\ frame_base' = BaseBelow(K)
      /\ frames' = SubSeq(frames, 1, K - 1)
  BY DEF PopFrame, undo
<1>3. RollbackRestores' /\ ScopesReturn' /\ running' /\ ended' = "none"
  BY <1>2, StillRunning
<1>4. before' = before /\ transactional' = transactional /\ newly_loaded' = newly_loaded
  BY <1>2 DEF run
<1>5. /\ K \in Nat \ {0} /\ DOMAIN frames = 1 .. K /\ frames[K] \in FrameType
      /\ frames' \in Seq(FrameType) /\ DOMAIN frames' = 1 .. (K - 1)
      /\ \A k \in 1 .. (K - 1) : frames'[k] = frames[k]
      /\ frames' = <<>> => K = 1
  BY <1>1, <1>2, Popped
<1>6. b \in Len(before.scopes) .. (Len(scopes) - 1)
  BY <1>1, <1>5 DEF Nested
<1> HIDE DEF K
<1>7. /\ b \in 1 .. Len(scopes) /\ b \in 1 .. MaxScopes
      /\ Len(before.scopes) \in 1 .. b /\ b \in Nat
  BY <1>1, <1>6, Positions
<1>8. /\ scopes' \in Seq(Scope) /\ Len(scopes') = b
      /\ \A i \in 1 .. b : scopes'[i] = scopes[i]
  BY <1>1, <1>2, <1>7, Shortened
<1>9. TypeOK'
  <2>1. frame_base' \in 1 .. MaxScopes
    BY <1>1, <1>2, <1>5 DEF BaseBelow, TypeOK, FrameType
  <2> QED
    BY <1>1, <1>2, <1>5, <1>7, <1>8, <2>1 DEF TypeOK, run, FrameType
<1>10. Shape'
  BY <1>1, <1>2, <1>3, <1>4, <1>7, <1>8 DEF Shape
<1>11. Nested'
  <2>1. ASSUME NEW k \in 1 .. (K - 1)
        PROVE frames'[k].scope_base \in Len(before.scopes) .. (b - 1)
    <3>1. k \in 1 .. K /\ K \in 1 .. K /\ k < K
      BY <1>5
    <3>2. /\ frames[k].scope_base \in Len(before.scopes) .. (Len(scopes) - 1)
          /\ frames[k].scope_base < b
      BY <1>1, <1>5, <3>1 DEF Nested
    <3>3. Len(before.scopes) \in Nat /\ Len(scopes) \in Nat
      BY <1>1, Positions
    <3> HIDE DEF b
    <3>4. frames[k].scope_base \in Len(before.scopes) .. (b - 1)
      BY <1>7, <3>2, <3>3
    <3> QED
      BY <1>5, <3>4
  <2>2. ASSUME NEW j \in 1 .. (K - 1), NEW k \in 1 .. (K - 1), j < k
        PROVE frames'[j].scope_base < frames'[k].scope_base
    <3>1. j \in 1 .. K /\ k \in 1 .. K
      BY <1>5
    <3> QED
      BY <1>1, <1>5, <2>2, <3>1 DEF Nested
  <2>3. frames[1].scope_base = Len(before.scopes)
    BY <1>1, <1>2 DEF Nested
  <2>4. frames' = <<>> => b = Len(before.scopes)
    BY <1>5, <2>3
  <2>5. frames' # <<>> => frames'[1].scope_base = Len(before.scopes)
    <3>1. frames' # <<>> => 1 \in 1 .. (K - 1)
      BY <1>5
    <3> QED
      BY <1>5, <2>3, <3>1
  <2> QED
    BY <1>4, <1>5, <1>8, <2>1, <2>2, <2>4, <2>5 DEF Nested
<1>12. Covered'
  <2>1. \A i \in 1 .. Len(before.scopes) : scopes'[i] = scopes[i]
    BY <1>7, <1>8
  <2>2. Found' = Found
    BY <1>4 DEF Found
  <2> HIDE DEF b
  <2> SUFFICES ASSUME journal
               PROVE  /\ \A i \in 1 .. Len(before.scopes), n \in Name :
                            before.scopes[i][n] =
                              IF entries[i][n] = Unseen
                              THEN scopes'[i][n] ELSE entries[i][n]
                      /\ \A c \in Found :
                            before.content[c] =
                              IF originals[c] = Unseen
                              THEN content[c] ELSE originals[c]
    BY <1>2, <1>4, <2>2 DEF Covered
  <2>3. /\ \A i \in 1 .. Len(before.scopes), n \in Name :
              before.scopes[i][n] =
                IF entries[i][n] = Unseen THEN scopes[i][n] ELSE entries[i][n]
        /\ \A c \in Found :
              before.content[c] =
                IF originals[c] = Unseen THEN content[c] ELSE originals[c]
    BY <1>1 DEF Covered
  <2> QED
    BY <2>1, <2>3
<1>13. Imported'
  BY <1>1, <1>2, <1>4 DEF Imported
<1> QED
  BY <1>3, <1>9, <1>10, <1>11, <1>12, <1>13 DEF IInv

LEMMA ModuleDoneIInv ==
  ASSUME IInv, NEW m \in Module, ModuleDone(m)
  PROVE IInv'
<1>1. /\ running /\ run' = run /\ frames' = frames /\ journal' = journal
      /\ loaded' = loaded /\ scopes' = scopes /\ frame_base' = frame_base
      /\ content' = content /\ entries' = entries /\ originals' = originals
      /\ work' = work /\ ran' = ran \union {m} /\ before' = before
  BY DEF ModuleDone, env, undo, run
<1>2. TypeOK'
  BY <1>1 DEF IInv, TypeOK, run
<1>3. Covered'
  BY <1>1 DEF IInv, Covered, Found
<1> QED
  BY <1>1, <1>2, <1>3, StatementIInv

----------------------------------------------------------------------------
\* The end of a run.

\* Every scope the run pushed comes off, whatever the frames.
LEMMA Unwound ==
  ASSUME IInv, running
  PROVE /\ UnwoundScopes \in Seq(Scope)
        /\ Len(UnwoundScopes) = Len(before.scopes)
        /\ \A i \in 1 .. Len(before.scopes) : UnwoundScopes[i] = scopes[i]
<1>1. TypeOK /\ Shape /\ Nested /\ scopes \in Seq(Scope)
  BY DEF IInv, TypeOK
<1>2. CASE frames = <<>>
  BY <1>1, <1>2 DEF UnwoundScopes, Nested
<1>3. CASE frames # <<>>
  <2>1. UnwoundScopes = SubSeq(scopes, 1, Len(before.scopes))
    BY <1>1, <1>3 DEF UnwoundScopes, Nested
  <2>2. Len(before.scopes) \in 1 .. Len(scopes)
    BY <1>1 DEF Shape
  <2> QED
    BY <1>1, <2>1, <2>2, Shortened
<1> QED
  BY <1>2, <1>3

\* abort_session leaves at least what the run found.
LEMMA Aborted ==
  ASSUME IInv, running
  PROVE /\ AbortedScopes \in Seq(Scope)
        /\ Len(AbortedScopes) \in 1 .. MaxScopes
        /\ Len(before.scopes) \in 1 .. Len(AbortedScopes)
        /\ \A i \in 1 .. Len(before.scopes) : AbortedScopes[i] = scopes[i]
<1>1. TypeOK /\ Shape /\ Nested /\ scopes \in Seq(Scope)
  BY DEF IInv, TypeOK
<1>2. CASE OutermostCall = {}
  BY <1>1, <1>2 DEF AbortedScopes, TypeOK, Shape
<1>3. CASE OutermostCall # {}
  <2>1. PICK b \in Len(before.scopes) .. (Len(scopes) - 1) :
          AbortedScopes = SubSeq(scopes, 1, b)
    <3> DEFINE k == CHOOSE j \in OutermostCall : TRUE
    <3>1. k \in DOMAIN frames
      BY <1>3 DEF OutermostCall
    <3>2. frames[k].scope_base \in Len(before.scopes) .. (Len(scopes) - 1)
      BY <1>1, <3>1 DEF Nested
    <3> QED
      BY <1>3, <3>2 DEF AbortedScopes
  <2>2. /\ b \in 1 .. Len(scopes) /\ b \in 1 .. MaxScopes
        /\ Len(before.scopes) \in 1 .. b
        /\ 1 .. Len(before.scopes) \subseteq 1 .. b
    BY <1>1, <2>1, Positions
  <2>3. /\ SubSeq(scopes, 1, b) \in Seq(Scope) /\ Len(SubSeq(scopes, 1, b)) = b
        /\ \A i \in 1 .. b : SubSeq(scopes, 1, b)[i] = scopes[i]
    BY <1>1, <2>2, Shortened
  <2> QED
    BY <2>1, <2>2, <2>3
<1> QED
  BY <1>2, <1>3

LEMMA UnwoundBaseType ==
  ASSUME TypeOK
  PROVE UnwoundBase \in 1 .. MaxScopes
<1>1. ASSUME NEW k \in DOMAIN frames PROVE BaseBelow(k) \in 1 .. MaxScopes
  <2>1. frames \in Seq(FrameType)
    BY DEF TypeOK, FrameType
  <2>2. frames[k] \in FrameType
    BY <2>1
  <2> QED
    BY <2>2 DEF BaseBelow, TypeOK, FrameType
<1> QED
  BY <1>1 DEF UnwoundBase, OutermostCall, TypeOK

\* What ends a run and leaves a stack of the right length is all right.
LEMMA EndIInv ==
  ASSUME IInv, running, NEW how \in {"committed", "failed", "aborted"},
         Finalize(how), NEW s \in Seq(Scope), scopes' = s,
         Len(s) \in 1 .. MaxScopes, Len(before.scopes) \in 1 .. Len(s),
         frame_base' = UnwoundBase, content' \in [Cell -> Value],
         loaded' \subseteq Module, ran' \subseteq Module,
         RollbackRestores', ScopesReturn'
  PROVE IInv'
<1>1. TypeOK /\ frame_base' \in 1 .. MaxScopes
  BY UnwoundBaseType DEF IInv
<1>2. /\ running' = FALSE /\ journal' = FALSE /\ ended' = how /\ frames' = <<>>
      /\ entries' = [i \in 1 .. MaxScopes |-> [n \in Name |-> Unseen]]
      /\ originals' = [c \in Cell |-> Unseen]
      /\ transactional' = transactional /\ newly_loaded' = newly_loaded
      /\ before' = before /\ work' = work
  BY DEF Finalize, NothingRecorded
<1>3. TypeOK'
  <2>1. entries' \in EntryType /\ originals' \in [Cell -> Value \union {Unseen}]
    BY <1>2 DEF EntryType
  <2>2. ended' \in {"none", "committed", "failed", "aborted"}
    BY <1>2
  <2>3. frames' \in Seq([kind : {"block", "call"},
                         scope_base : 1 .. MaxScopes, frame_base : 1 .. MaxScopes])
    BY <1>2
  <2> QED
    BY <1>1, <1>2, <2>1, <2>2, <2>3 DEF TypeOK
<1>4. Shape'
  BY <1>2 DEF Shape
<1>5. Nested' /\ Covered' /\ Imported'
  BY <1>2 DEF Nested, Covered, Imported
<1> QED
  BY <1>3, <1>4, <1>5 DEF IInv

LEMMA CommitIInv ==
  ASSUME IInv, running, Commit
  PROVE IInv'
<1>1. /\ Finalize("committed") /\ scopes' = UnwoundScopes
      /\ frame_base' = UnwoundBase /\ content' = content
      /\ loaded' = loaded /\ ran' = ran
  BY DEF Commit
<1>2. /\ before' = before /\ ended' = "committed"
  BY <1>1 DEF Finalize
<1>3. /\ content' \in [Cell -> Value] /\ loaded' \subseteq Module
      /\ ran' \subseteq Module
  BY <1>1 DEF IInv, TypeOK
<1>4. /\ Len(before.scopes) \in 1 .. MaxScopes
      /\ Len(before.scopes) \in 1 .. Len(before.scopes)
  BY Positions DEF IInv
<1>5. RollbackRestores' /\ ScopesReturn'
  BY <1>1, <1>2, Unwound DEF RollbackRestores, ScopesReturn
<1> QED
  BY <1>1, <1>3, <1>4, <1>5, Unwound, EndIInv

\* Undoing keeps the shape of a stack, and gives back what the run found.
LEMMA Undone ==
  ASSUME IInv, running, NEW s \in Seq(Scope),
         Len(s) \in 1 .. MaxScopes, Len(before.scopes) \in 1 .. Len(s),
         \A i \in 1 .. Len(before.scopes) : s[i] = scopes[i]
  PROVE /\ UndoneScopes(s) \in Seq(Scope)
        /\ Len(UndoneScopes(s)) = Len(s)
        /\ transactional => \A i \in 1 .. Len(before.scopes) :
                               UndoneScopes(s)[i] = before.scopes[i]
<1>1. TypeOK /\ Shape /\ Covered
  BY DEF IInv
<1> DEFINE row(i) == [n \in Name |-> IF journal /\ entries[i][n] # Unseen
                                     THEN entries[i][n] ELSE s[i][n]]
<1>2. /\ DOMAIN s = 1 .. Len(s) /\ Len(s) \in Nat
      /\ 1 .. Len(s) \subseteq 1 .. MaxScopes
      /\ 1 .. Len(before.scopes) \subseteq 1 .. Len(s)
  <2>1. DOMAIN s = 1 .. Len(s) /\ Len(s) \in Nat
    OBVIOUS
  <2>2. Len(before.scopes) \in Nat /\ MaxScopes \in Nat
    BY <1>1, Positions
  <2> DEFINE a == Len(s)
             b == Len(before.scopes)
  <2>3. a \in Nat /\ b \in Nat /\ a \in 1 .. MaxScopes /\ b \in 1 .. a
    BY <2>1, <2>2
  <2> HIDE DEF a, b
  <2>4. 1 .. a \subseteq 1 .. MaxScopes /\ 1 .. b \subseteq 1 .. a
    BY <2>2, <2>3
  <2> QED
    BY <2>1, <2>4 DEF a, b
<1>3. UndoneScopes(s) = [i \in 1 .. Len(s) |-> row(i)]
  BY <1>2 DEF UndoneScopes
<1>4. ASSUME NEW i \in 1 .. Len(s) PROVE row(i) \in Scope
  <2>1. s[i] \in Scope
    OBVIOUS
  <2>2. entries[i] \in [Name -> Cell \union {NoCell, Unseen}]
    BY <1>1, <1>2 DEF TypeOK, EntryType
  <2> QED
    BY <2>1, <2>2 DEF Scope
<1>5. ASSUME transactional, NEW i \in 1 .. Len(before.scopes)
      PROVE row(i) = before.scopes[i]
  <2>1. journal
    BY <1>1, <1>5 DEF Shape
  <2>2. before.scopes[i] \in Scope
    BY <1>1, Positions
  <2>3. \A n \in Name :
          before.scopes[i][n] =
            IF entries[i][n] = Unseen THEN scopes[i][n] ELSE entries[i][n]
    BY <1>1, <2>1 DEF Covered
  <2>4. s[i] = scopes[i]
    OBVIOUS
  <2>5. row(i) = [n \in Name |-> before.scopes[i][n]]
    BY <2>1, <2>3, <2>4
  <2> QED
    BY <2>2, <2>5 DEF Scope
<1> HIDE DEF row
<1>6. /\ UndoneScopes(s) \in Seq(Scope) /\ Len(UndoneScopes(s)) = Len(s)
  BY <1>2, <1>3, <1>4
<1>7. \A i \in 1 .. Len(before.scopes) : UndoneScopes(s)[i] = row(i)
  BY <1>2, <1>3
<1> QED
  BY <1>5, <1>6, <1>7

\* What Fail and Abort share.
LEMMA RollbackIInv ==
  ASSUME IInv, running, NEW how \in {"failed", "aborted"}, Finalize(how),
         NEW s \in Seq(Scope), Len(s) \in 1 .. MaxScopes,
         Len(before.scopes) \in 1 .. Len(s),
         how = "failed" => Len(s) = Len(before.scopes),
         \A i \in 1 .. Len(before.scopes) : s[i] = scopes[i],
         scopes' = UndoneScopes(s), content' = UndoneContent,
         frame_base' = UnwoundBase, Forget
  PROVE IInv'
<1>1. TypeOK /\ Shape /\ Covered /\ Imported
  BY DEF IInv
<1>2. /\ before' = before /\ transactional' = transactional /\ ended' = how
  BY DEF Finalize
<1>3. /\ scopes' \in Seq(Scope) /\ Len(scopes') = Len(s)
      /\ transactional => \A i \in 1 .. Len(before.scopes) :
                             scopes'[i] = before.scopes[i]
  BY Undone
<1>4. content' \in [Cell -> Value]
  BY <1>1 DEF UndoneContent, TypeOK
<1>5. loaded' \subseteq Module /\ ran' \subseteq Module
  BY <1>1 DEF Forget, TypeOK
<1>6. loaded' = before.loaded
  BY <1>1 DEF Forget, Imported
<1>7. ASSUME transactional, NEW c \in Found PROVE content'[c] = before.content[c]
  <2>1. journal /\ c \in Cell
    BY <1>1, <1>7 DEF Shape, Found, Reachable
  <2> QED
    BY <1>1, <2>1 DEF Covered, UndoneContent
<1>8. RollbackRestores'
  <2>1. DOMAIN before.scopes = 1 .. Len(before.scopes)
    BY <1>1, Positions
  <2> QED
    BY <1>2, <1>3, <1>6, <1>7, <2>1 DEF RollbackRestores, Found
<1>9. ScopesReturn'
  BY <1>2, <1>3 DEF ScopesReturn
<1> QED
  BY <1>3, <1>4, <1>5, <1>8, <1>9, EndIInv

LEMMA FailIInv ==
  ASSUME IInv, Fail
  PROVE IInv'
<1>1. running /\ Finalize("failed") /\ Forget
  BY DEF Fail
<1>2. /\ scopes' = UndoneScopes(UnwoundScopes) /\ content' = UndoneContent
      /\ frame_base' = UnwoundBase
  BY DEF Fail
<1>3. /\ Len(before.scopes) \in 1 .. MaxScopes
      /\ Len(before.scopes) \in 1 .. Len(before.scopes)
  BY Positions DEF IInv
<1> QED
  BY <1>1, <1>2, <1>3, Unwound, RollbackIInv

LEMMA AbortIInv ==
  ASSUME IInv, Abort
  PROVE IInv'
<1>1. running /\ Finalize("aborted") /\ Forget
  BY DEF Abort
<1>2. /\ scopes' = UndoneScopes(AbortedScopes) /\ content' = UndoneContent
      /\ frame_base' = UnwoundBase
  BY DEF Abort
<1> QED
  BY <1>1, <1>2, Aborted, RollbackIInv

----------------------------------------------------------------------------

\* The invariant is inductive.
LEMMA NextIInv == IInv /\ [Next]_vars => IInv'
<1> SUFFICES ASSUME IInv, [Next]_vars PROVE IInv'
  OBVIOUS
<1>1. ASSUME NEW t \in BOOLEAN, NEW I \in SUBSET Module, Begin(t, I)
      PROVE IInv'
  BY <1>1, BeginIInv
<1>2. ASSUME NEW n \in Name, NEW v \in Value, Define(n, v) PROVE IInv'
  BY <1>2, DefineIInv
<1>3. ASSUME NEW n \in Name, NEW v \in Value, Assign(n, v) PROVE IInv'
  BY <1>3, AssignIInv
<1>4. ASSUME NEW n \in Name, Call(n) PROVE IInv'
  BY <1>4, CallIInv
<1>5. CASE PushScope
  BY <1>5, PushScopeIInv
<1>6. CASE PopFrame
  BY <1>6, PopFrameIInv
<1>7. ASSUME NEW m \in Module, ModuleDone(m) PROVE IInv'
  BY <1>7, ModuleDoneIInv
<1>8. CASE Complete \/ Exit
  BY <1>8, CommitIInv DEF Complete, Exit
<1>9. CASE Fail
  BY <1>9, FailIInv
<1>10. CASE Abort
  BY <1>10, AbortIInv
<1>11. CASE UNCHANGED vars
  BY <1>11 DEF vars, env, undo, run, IInv, TypeOK, Shape, Nested, Covered,
               Imported, RollbackRestores, ScopesReturn, Found
<1> QED
  BY <1>1, <1>2, <1>3, <1>4, <1>5, <1>6, <1>7, <1>8, <1>9, <1>10, <1>11 DEF Next

----------------------------------------------------------------------------
\* Where frame_base stands.

\* The calls among the first n frames of f, and the base the last of them
\* set: a base that matches them is the one that belongs there.
CallsIn(f, n) == {k \in 1 .. n : f[k].kind = "call"}

Matches(f, n, b) ==
  /\ CallsIn(f, n) = {} => b = 1
  /\ \A k \in CallsIn(f, n) : (\A j \in CallsIn(f, n) : j <= k)
                                => b = f[k].scope_base + 1

\* Every call keeps the base of the frames below it, to give it back.
CallersBases ==
  \A k \in DOMAIN frames :
    frames[k].kind = "call" => Matches(frames, k - 1, frames[k].frame_base)

BaseInv ==
  /\ TypeOK
  /\ Matches(frames, Len(frames), frame_base)
  /\ CallersBases

LEMMA FramesAre ==
  ASSUME TypeOK
  PROVE /\ frames \in Seq(FrameType) /\ Len(frames) \in Nat
        /\ DOMAIN frames = 1 .. Len(frames)
  BY DEF TypeOK, FrameType

\* Only the frames it is about matter.
LEMMA MatchesPrefix ==
  ASSUME NEW f, NEW g, NEW n \in Nat, NEW b, \A k \in 1 .. n : f[k] = g[k],
         Matches(f, n, b)
  PROVE Matches(g, n, b)
<1>1. CallsIn(f, n) = CallsIn(g, n) /\ CallsIn(f, n) \subseteq 1 .. n
  BY DEF CallsIn
<1> QED
  BY <1>1 DEF Matches

\* A block moves nothing.
LEMMA MatchesBlock ==
  ASSUME NEW f, NEW n \in Nat \ {0}, f[n].kind # "call", NEW b
  PROVE Matches(f, n, b) <=> Matches(f, n - 1, b)
<1>1. CallsIn(f, n) = CallsIn(f, n - 1)
  BY DEF CallsIn
<1> QED
  BY <1>1 DEF Matches

\* A call sets the base to its own scope.
LEMMA MatchesCall ==
  ASSUME NEW f, NEW n \in Nat \ {0}, f[n].kind = "call"
  PROVE Matches(f, n, f[n].scope_base + 1)
<1>1. n \in CallsIn(f, n)
  BY DEF CallsIn
<1>2. ASSUME NEW k \in CallsIn(f, n), \A j \in CallsIn(f, n) : j <= k
      PROVE k = n
  BY <1>1, <1>2 DEF CallsIn
<1> QED
  BY <1>1, <1>2 DEF Matches

LEMMA MatchesNone ==
  Matches(<<>>, 0, 1)
  BY DEF Matches, CallsIn

LEMMA BaseInvInit ==
  ASSUME Init, TypeOK
  PROVE BaseInv
<1>1. frames = <<>> /\ Len(frames) = 0 /\ DOMAIN frames = {} /\ frame_base = 1
  BY DEF Init
<1> QED
  BY <1>1, MatchesNone DEF BaseInv, CallersBases

LEMMA BaseInvPush ==
  ASSUME BaseInv, TypeOK', NEW fr \in FrameType, frames' = Append(frames, fr),
         IF fr.kind = "call"
         THEN fr.frame_base = frame_base /\ frame_base' = fr.scope_base + 1
         ELSE frame_base' = frame_base
  PROVE BaseInv'
<1> DEFINE n == Len(frames)
<1>1. /\ frames \in Seq(FrameType) /\ n \in Nat /\ DOMAIN frames = 1 .. n
  BY FramesAre DEF BaseInv
<1>2. /\ Len(frames') = n + 1 /\ DOMAIN frames' = 1 .. (n + 1)
      /\ \A k \in 1 .. n : frames'[k] = frames[k]
      /\ frames'[n + 1] = fr
  BY <1>1
<1> HIDE DEF n
<1>3. Matches(frames', n, frame_base)
  BY <1>1, <1>2, MatchesPrefix DEF BaseInv, n
<1>4. n + 1 \in Nat \ {0} /\ (n + 1) - 1 = n
  BY <1>1
<1>5. Matches(frames', n + 1, frame_base')
  <2>1. CASE fr.kind = "call"
    BY <1>2, <1>4, <2>1, MatchesCall
  <2>2. CASE fr.kind # "call"
    BY <1>2, <1>3, <1>4, <2>2, MatchesBlock
  <2> QED
    BY <2>1, <2>2
<1>6. ASSUME NEW k \in 1 .. (n + 1), frames'[k].kind = "call"
      PROVE Matches(frames', k - 1, frames'[k].frame_base)
  <2>1. CASE k = n + 1
    BY <1>2, <1>3, <1>4, <1>6, <2>1
  <2>2. CASE k \in 1 .. n
    <3>1. Matches(frames, k - 1, frames[k].frame_base)
      BY <1>1, <1>2, <1>6, <2>2 DEF BaseInv, CallersBases
    <3>2. k - 1 \in Nat /\ \A j \in 1 .. (k - 1) : frames[j] = frames'[j]
      BY <1>1, <1>2, <2>2
    <3> QED
      BY <1>2, <2>2, <3>1, <3>2, MatchesPrefix
  <2> QED
    BY <1>1, <2>1, <2>2
<1> QED
  BY <1>2, <1>5, <1>6 DEF BaseInv, CallersBases

LEMMA BaseInvPop ==
  ASSUME BaseInv, TypeOK', PopFrame
  PROVE BaseInv'
<1> DEFINE n == Len(frames)
<1>1. /\ frames \in Seq(FrameType) /\ n \in Nat /\ DOMAIN frames = 1 .. n
      /\ frames # <<>> /\ frames' = SubSeq(frames, 1, n - 1)
      /\ frame_base' = BaseBelow(n)
  BY FramesAre DEF BaseInv, PopFrame
<1>2. /\ n \in Nat \ {0} /\ frames' \in Seq(FrameType) /\ DOMAIN frames' = 1 .. (n - 1)
      /\ \A k \in 1 .. (n - 1) : frames'[k] = frames[k]
  BY <1>1, Popped
<1>3. Len(frames') = n - 1
  <2>1. Len(frames') \in Nat /\ DOMAIN frames' = 1 .. Len(frames')
    BY <1>2
  <2> HIDE DEF n
  <2> QED
    BY <1>2, <2>1
<1> HIDE DEF n
<1>4. n \in 1 .. n /\ n - 1 \in Nat
  BY <1>2
<1>5. Matches(frames, n - 1, frame_base')
  <2>1. CASE frames[n].kind = "call"
    BY <1>1, <1>4, <2>1 DEF BaseBelow, BaseInv, CallersBases
  <2>2. CASE frames[n].kind # "call"
    <3>1. frame_base' = frame_base /\ Matches(frames, n, frame_base)
      BY <1>1, <2>2 DEF BaseBelow, BaseInv, n
    <3> QED
      BY <1>2, <2>2, <3>1, MatchesBlock
  <2> QED
    BY <2>1, <2>2
<1>6. Matches(frames', n - 1, frame_base')
  BY <1>2, <1>4, <1>5, MatchesPrefix
<1>7. ASSUME NEW k \in 1 .. (n - 1), frames'[k].kind = "call"
      PROVE Matches(frames', k - 1, frames'[k].frame_base)
  <2>1. k \in 1 .. n /\ k - 1 \in Nat /\ \A j \in 1 .. (k - 1) : frames[j] = frames'[j]
    BY <1>2
  <2>2. Matches(frames, k - 1, frames[k].frame_base)
    BY <1>1, <1>2, <1>7, <2>1 DEF BaseInv, CallersBases
  <2> QED
    BY <1>2, <2>1, <2>2, MatchesPrefix
<1> QED
  BY <1>2, <1>3, <1>6, <1>7 DEF BaseInv, CallersBases

LEMMA Least ==
  ASSUME NEW T \in SUBSET Nat, T # {}
  PROVE \E m \in T : \A k \in T : m <= k
<1> DEFINE below == {p \in Nat \X Nat : p[1] < p[2]}
<1>1. below = OpToRel(<, Nat)
  BY Zenon DEF OpToRel
<1>2. IsWellFoundedOn(below, Nat)
  BY <1>1, NatLessThanWellFounded, Zenon
<1> HIDE DEF below
<1>3. PICK m \in T : \A k \in T : <<k, m>> \notin below
  BY <1>2, WFMin
<1>4. ASSUME NEW k \in T PROVE m <= k
  <2>1. k \in Nat /\ m \in Nat
    OBVIOUS
  <2>2. k < m => <<k, m>> \in below
    BY <2>1 DEF below
  <2> QED
    BY <1>3, <2>1, <2>2
<1> QED
  BY <1>4

\* Below the outermost call there is none, so its base is the global scope.
LEMMA UnwoundBaseIsGlobal ==
  ASSUME BaseInv
  PROVE UnwoundBase = 1
<1>1. /\ Len(frames) \in Nat /\ DOMAIN frames = 1 .. Len(frames)
  BY FramesAre DEF BaseInv
<1>2. CASE OutermostCall = {}
  <2> DEFINE calls == CallsIn(frames, Len(frames))
  <2>1. calls = {}
    <3> SUFFICES ASSUME calls # {} PROVE FALSE
      OBVIOUS
    <3>1. calls \subseteq 1 .. Len(frames) /\ calls \in SUBSET Nat
      BY <1>1 DEF CallsIn
    <3>2. PICK k \in calls : \A j \in calls : k <= j
      BY <3>1, Least
    <3>3. k \in DOMAIN frames /\ frames[k].kind = "call" /\ k \in Nat
      BY <1>1, <3>1 DEF CallsIn
    <3>4. ASSUME NEW j \in 1 .. k - 1 PROVE frames[j].kind # "call"
      <4>1. j \in 1 .. Len(frames) /\ ~(k <= j)
        BY <1>1, <3>1, <3>3
      <4> QED
        BY <3>2, <4>1 DEF CallsIn
    <3> QED
      BY <1>2, <3>3, <3>4 DEF OutermostCall
  <2> QED
    BY <1>2, <2>1 DEF UnwoundBase, BaseInv, Matches
<1>3. CASE OutermostCall # {}
  <2> DEFINE k == CHOOSE j \in OutermostCall : TRUE
  <2>1. k \in OutermostCall
    BY <1>3
  <2> HIDE DEF k
  <2>2. k \in 1 .. Len(frames) /\ frames[k].kind = "call" /\ CallsIn(frames, k - 1) = {}
    BY <1>1, <2>1 DEF OutermostCall, CallsIn
  <2>3. frames[k].frame_base = 1
    BY <1>1, <2>2 DEF BaseInv, CallersBases, Matches
  <2> QED
    BY <1>3, <2>2, <2>3 DEF UnwoundBase, BaseBelow, k
<1> QED
  BY <1>2, <1>3

LEMMA BaseInvEnd ==
  ASSUME BaseInv, TypeOK', frames' = <<>>, frame_base' = UnwoundBase
  PROVE BaseInv'
<1>1. Len(frames') = 0 /\ DOMAIN frames' = {} /\ frame_base' = 1
  BY UnwoundBaseIsGlobal
<1> QED
  BY <1>1, MatchesNone DEF BaseInv, CallersBases

LEMMA NextBaseInv == BaseInv /\ TypeOK' /\ [Next]_vars => BaseInv'
<1> SUFFICES ASSUME BaseInv, TypeOK', [Next]_vars PROVE BaseInv'
  OBVIOUS
<1>1. CASE frames' = frames /\ frame_base' = frame_base
  BY <1>1 DEF BaseInv, CallersBases
<1>2. CASE PushScope
  <2>1. /\ Frame("block").kind = "block" /\ frame_base' = frame_base
        /\ frames' = Append(frames, Frame("block"))
    BY <1>2 DEF PushScope, Frame
  <2>2. Frame("block") \in FrameType
    BY DEF Frame, FrameType, BaseInv, TypeOK
  <2> QED
    BY <2>1, <2>2, BaseInvPush
<1>3. ASSUME NEW n \in Name, Call(n) PROVE BaseInv'
  <2>1. /\ Frame("call").kind = "call" /\ Frame("call").frame_base = frame_base
        /\ frame_base' = Frame("call").scope_base + 1
        /\ frames' = Append(frames, Frame("call"))
    BY <1>3 DEF Call, Frame
  <2>2. Frame("call") \in FrameType
    BY DEF Frame, FrameType, BaseInv, TypeOK
  <2> QED
    BY <2>1, <2>2, BaseInvPush
<1>4. CASE PopFrame
  BY <1>4, BaseInvPop
<1>5. CASE Complete \/ Exit \/ Fail \/ Abort
  BY <1>5, BaseInvEnd DEF Complete, Exit, Fail, Abort, Commit, Finalize
<1>6. ASSUME NEW t \in BOOLEAN, NEW I \in SUBSET Module, Begin(t, I) PROVE BaseInv'
  BY <1>1, <1>6 DEF Begin, env
<1>7. ASSUME NEW n \in Name, NEW v \in Value, Define(n, v) \/ Assign(n, v) PROVE BaseInv'
  BY <1>1, <1>7 DEF Define, Assign
<1>8. ASSUME NEW m \in Module, ModuleDone(m) PROVE BaseInv'
  BY <1>1, <1>8 DEF ModuleDone, env
<1>9. CASE UNCHANGED vars
  BY <1>1, <1>9 DEF vars, env
<1> QED
  BY <1>2, <1>3, <1>4, <1>5, <1>6, <1>7, <1>8, <1>9 DEF Next, Value

----------------------------------------------------------------------------

\* The invariant holds in every reachable state.
THEOREM Invariance == Spec => []IInv
  BY InitIInv, NextIInv, PTL DEF Spec

\* Every variable keeps its type, for all names, cells, values and bounds.
THEOREM TypeCorrect == Spec => []TypeOK
<1>1. IInv => TypeOK
  BY DEF IInv
<1> QED
  BY <1>1, Invariance, PTL

\* rollback_submission and forget restore what a failed, cancelled or
\* abandoned transactional run found: every binding, every cell it could
\* reach, and the modules it may import.
THEOREM RollbackIsComplete == Spec => []RollbackRestores
<1>1. IInv => RollbackRestores
  BY DEF IInv
<1> QED
  BY <1>1, Invariance, PTL

\* However deep a run ends, run_driver leaves the scopes it found.
THEOREM UnwindIsComplete == Spec => []ScopesReturn
<1>1. IInv => ScopesReturn
  BY DEF IInv
<1> QED
  BY <1>1, Invariance, PTL

\* A function sees its own scopes and the global one, never its caller's, and
\* a run that is abandoned inside a call leaves the next one no such view
\* (push_call_frame, pop_call_frame, abort_session).
THEOREM FrameBaseIsRight == Spec => []FrameBaseMatches
<1>1. Init => BaseInv
  BY InitIInv, BaseInvInit DEF IInv
<1>2. BaseInv /\ TypeOK' /\ [Next]_vars => BaseInv'
  BY NextBaseInv
<1>3. BaseInv => FrameBaseMatches
  <2> SUFFICES ASSUME BaseInv PROVE FrameBaseMatches
    OBVIOUS
  <2>1. DOMAIN frames = 1 .. Len(frames)
    BY FramesAre DEF BaseInv
  <2> QED
    BY <2>1 DEF BaseInv, Matches, CallsIn, FrameBaseMatches
<1> QED
  BY <1>1, <1>2, <1>3, TypeCorrect, PTL DEF Spec

=============================================================================
