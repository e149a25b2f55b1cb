---------------------------- MODULE Transaction ----------------------------
(***************************************************************************)
(* src/env.rs, src/eval.rs, src/module.rs: the language state of one       *)
(* execution context and the transaction around each run.                  *)
(*                                                                         *)
(* A name is bound to a cell, and closures share cells: an assignment in   *)
(* one place is seen in the other.  A transactional run (a REPL submission *)
(* or a run of the embedding API) keeps an undo journal; a run through     *)
(* Engine::create_execution keeps none.  Scope 1 is the global scope.      *)
(*                                                                         *)
(* Abstractions: a list is a value of its cell, changed by Assign like any *)
(* other (index assignment, push and pop journal the cell first, as update *)
(* does).  A closure captures one name.  Parameters and the name a         *)
(* function gives itself are Defines in its scope, and a catch body is a   *)
(* PopFrame, a PushScope and a Define.  A charge that fails leaves its     *)
(* statement without effect and ends the run, so it is a Fail.  A run that *)
(* fails while it links undoes what it did and is no step at all.          *)
(***************************************************************************)
EXTENDS Naturals, Sequences

CONSTANTS
  Name, Data, Module,
  Cell,        \* cells the allocator has, by address
  MaxScopes,   \* bound: scopes on the stack
  MaxWork,     \* bound: runs begun and statements that write or nest
  NoCell,      \* a name that a scope does not bind
  Unseen       \* a place that the journal has no entry for

ASSUME TransactionAssumption ==
  /\ MaxScopes \in Nat \ {0}
  /\ MaxWork \in Nat
  /\ Data # {}
  /\ NoCell \notin Cell
  /\ Unseen \notin Cell \union {NoCell}
  /\ Unseen \notin Data
  /\ \A n \in Name, c \in Cell :
       [name |-> n, cell |-> c] \notin Data \union {Unseen}

Closure == [name : Name, cell : Cell]
Value == Data \union Closure
Scope == [Name -> Cell \union {NoCell}]

VARIABLES
  scopes,         \* Env.scopes
  frame_base,     \* Env.frame_base
  content,        \* what each cell holds
  journal,        \* Env.journal is Some
  entries,        \* its undo log: the original binding of a scope entry
  originals,      \* its undo log: the original value of a cell
  frames,         \* Evaluator.frames above the root frame
  running,        \* Evaluator.session is Some
  transactional,  \* RunSession.transactional of the last run
  newly_loaded,   \* RunSession.newly_loaded
  loaded,         \* ModuleLoader.loaded
  ran,            \* history: modules whose statements were run to the end
  work,           \* history: runs and statements so far, at most MaxWork
  before,         \* history: the language state when the last run began
  ended           \* history: how the last run ended

env == <<scopes, frame_base, content>>
undo == <<journal, entries, originals>>
run == <<running, transactional, newly_loaded, before, ended>>
vars == <<env, undo, frames, run, loaded, ran, work>>

CountWork == work < MaxWork /\ work' = work + 1

----------------------------------------------------------------------------
\* Names and cells.

Refs(v) == IF v \in Closure THEN {v.cell} ELSE {}

ClosedUnder(S, f) == \A c \in S : Refs(f[c]) \subseteq S

\* The cells that somebody in R still reaches.  Rc keeps a cycle of closures
\* for ever; here its cells may be given out again, like any that were dropped.
Reachable(R, f) ==
  {c \in Cell : \A S \in SUBSET Cell :
                  R \subseteq S /\ ClosedUnder(S, f) => c \in S}

Bound(s) == {s[i][n] : i \in DOMAIN s, n \in Name} \ {NoCell}

\* Variant: an undo entry remembers the cell by its address only.
RecordedByAddress == {}

\* An undo entry owns the cell it is about and the value it keeps.
Recorded ==
  ({entries[i][n] : i \in 1 .. MaxScopes, n \in Name} \ {NoCell, Unseen})
  \union {c \in Cell : originals[c] # Unseen}
  \union UNION {Refs(originals[c]) : c \in Cell}

Owned == Bound(scopes) \union Recorded

\* The allocator may give out the address of any cell that was dropped.
Fresh(c) == c \notin Reachable(Owned, content)

\* visible_scopes: the scopes of the frame, then the global one.
IsVisible(n, i) ==
  LET InFrame == frame_base .. Len(scopes) IN
  /\ i \in InFrame \union {1}
  /\ scopes[i][n] # NoCell
  /\ \A j \in InFrame : j > i => scopes[j][n] = NoCell

----------------------------------------------------------------------------
\* The journal.

NothingRecorded ==
  /\ entries' = [i \in 1 .. MaxScopes |-> [n \in Name |-> Unseen]]
  /\ originals' = [c \in Cell |-> Unseen]

\* journal_scope_entry
JournalEntry(i, n) ==
  entries' = IF journal /\ entries[i][n] = Unseen
             THEN [entries EXCEPT ![i][n] = scopes[i][n]]
             ELSE entries

\* journal_cell
JournalCell(c) ==
  originals' = IF journal /\ originals[c] = Unseen
               THEN [originals EXCEPT ![c] = content[c]]
               ELSE originals

\* The undo log has one entry for a place at most: the order is no matter.
\* A scope that is gone has nothing to undo.
UndoneScopes(s) ==
  [i \in DOMAIN s |->
     [n \in Name |-> IF journal /\ entries[i][n] # Unseen
                     THEN entries[i][n] ELSE s[i][n]]]

UndoneContent ==
  [c \in Cell |-> IF journal /\ originals[c] # Unseen
                  THEN originals[c] ELSE content[c]]

----------------------------------------------------------------------------

EmptyScope == [n \in Name |-> NoCell]

Init ==
  /\ scopes = <<EmptyScope>>
  /\ frame_base = 1
  /\ content \in [Cell -> {CHOOSE d \in Data : TRUE}]
  /\ journal = FALSE
  /\ entries = [i \in 1 .. MaxScopes |-> [n \in Name |-> Unseen]]
  /\ originals = [c \in Cell |-> Unseen]
  /\ frames = <<>>
  /\ running = FALSE
  /\ transactional = FALSE
  /\ newly_loaded = {}
  /\ loaded = {}
  /\ ran = {}
  /\ work = 0
  /\ before = [scopes |-> scopes, content |-> content, loaded |-> loaded]
  /\ ended = "none"

\* begin_execution: every import is resolved before the first statement.
Begin(inTransaction, imports) ==
  /\ ~running
  /\ CountWork
  /\ running' = TRUE
  /\ transactional' = inTransaction
  /\ journal' = inTransaction
  /\ newly_loaded' = imports \ loaded
  /\ loaded' = loaded \union imports
  /\ before' = [scopes |-> scopes, content |-> content, loaded |-> loaded]
  /\ ended' = "none"
  /\ UNCHANGED <<env, entries, originals, frames, ran>>

\* What an expression may have for its value: a datum, the value of a variable,
\* a function that captures a variable.
Yields(v) ==
  \/ v \in Data
  \/ \E n \in Name, i \in 1 .. Len(scopes) :
       /\ IsVisible(n, i)
       /\ v \in {content[scopes[i][n]], [name |-> n, cell |-> scopes[i][n]]}

\* Env::set in the innermost scope, with what a let or a fn evaluates to.
Define(n, v) ==
  LET top == Len(scopes) IN
  /\ running
  /\ CountWork
  /\ Yields(v)
  /\ \E c \in Cell :
       /\ Fresh(c)
       /\ content' = [content EXCEPT ![c] = v]
       /\ scopes' = [scopes EXCEPT ![top][n] = c]
  /\ JournalEntry(top, n)
  /\ UNCHANGED <<frame_base, journal, originals, frames, run, loaded, ran>>

\* Env::update, and the builtins that change the list in a cell.
Assign(n, v) ==
  /\ running
  /\ CountWork
  /\ Yields(v)
  /\ \E i \in 1 .. Len(scopes) :
       /\ IsVisible(n, i)
       /\ JournalCell(scopes[i][n])
       /\ content' = [content EXCEPT ![scopes[i][n]] = v]
  /\ UNCHANGED <<scopes, frame_base, journal, entries, frames, run, loaded, ran>>

Frame(kind) ==
  [kind |-> kind, scope_base |-> Len(scopes), frame_base |-> frame_base]

\* A statement block, a loop iteration, a try or a catch body.
PushScope ==
  /\ running
  /\ CountWork
  /\ Len(scopes) < MaxScopes
  /\ scopes' = Append(scopes, EmptyScope)
  /\ frames' = Append(frames, Frame("block"))
  /\ UNCHANGED <<frame_base, content, undo, run, loaded, ran>>

\* push_call_frame and set_shared of the captured cell.
Call(n) ==
  /\ running
  /\ CountWork
  /\ Len(scopes) < MaxScopes
  /\ \E i \in 1 .. Len(scopes) :
       LET v == content[scopes[i][n]] IN
       /\ IsVisible(n, i)
       /\ v \in Closure
       /\ scopes' = Append(scopes, [EmptyScope EXCEPT ![v.name] = v.cell])
       /\ entries' = IF journal /\ entries[Len(scopes) + 1][v.name] = Unseen
                     THEN [entries EXCEPT ![Len(scopes) + 1][v.name] = NoCell]
                     ELSE entries
  /\ frame_base' = Len(scopes) + 1
  /\ frames' = Append(frames, Frame("call"))
  /\ UNCHANGED <<content, journal, originals, run, loaded, ran>>

\* Variant: a call that ends does not give the frame back to its caller.
BaseStays(k) == frame_base

\* Where frame_base goes when the k-th frame is popped.
BaseBelow(k) ==
  IF frames[k].kind = "call" THEN frames[k].frame_base ELSE frame_base

\* pop_frame: the end of a block, return, break, and the way to a catch.
PopFrame ==
  /\ running
  /\ frames # <<>>
  /\ scopes' = SubSeq(scopes, 1, frames[Len(frames)].scope_base)
  /\ frame_base' = BaseBelow(Len(frames))
  /\ frames' = SubSeq(frames, 1, Len(frames) - 1)
  /\ UNCHANGED <<content, undo, run, loaded, ran, work>>

\* The last statement of an imported module.
ModuleDone(m) ==
  /\ running
  /\ frames = <<>>
  /\ m \in newly_loaded \ ran
  /\ ran' = ran \union {m}
  /\ UNCHANGED <<env, undo, frames, run, loaded, work>>

----------------------------------------------------------------------------
\* The end of a run.

\* Variant: the frames are dropped, the scopes they pushed are not.
ScopesLeft == scopes

\* unwind_to the root frame, and the root frame itself.
UnwoundScopes ==
  IF frames = <<>> THEN scopes ELSE SubSeq(scopes, 1, frames[1].scope_base)

\* The outermost call in progress, whose pop is the last that moves the base.
OutermostCall == {k \in DOMAIN frames : frames[k].kind = "call"
                    /\ \A j \in 1 .. k - 1 : frames[j].kind # "call"}

UnwoundBase ==
  IF OutermostCall = {} THEN frame_base
  ELSE BaseBelow(CHOOSE k \in OutermostCall : TRUE)

\* finalize_session
Finalize(how) ==
  /\ running' = FALSE
  /\ journal' = FALSE
  /\ NothingRecorded
  /\ ended' = how
  /\ frames' = <<>>
  /\ UNCHANGED <<transactional, newly_loaded, before, work>>

Commit ==
  /\ Finalize("committed")
  /\ scopes' = UnwoundScopes
  /\ frame_base' = UnwoundBase
  /\ UNCHANGED <<content, loaded, ran>>

\* The last statement was run, those of the imports among them.
Complete ==
  /\ running
  /\ frames = <<>>
  /\ newly_loaded \subseteq ran
  /\ Commit

\* exit(code), anywhere in the program: a success that commits.
Exit == running /\ Commit

\* ModuleLoader::forget
Forget ==
  /\ loaded' = loaded \ newly_loaded
  /\ ran' = ran \ newly_loaded

\* An error nobody catches; a limit, a cancel or a deadline.
Fail ==
  /\ running
  /\ Finalize("failed")
  /\ scopes' = UndoneScopes(UnwoundScopes)
  /\ content' = UndoneContent
  /\ frame_base' = UnwoundBase
  /\ Forget

\* abort_session, while the run has yielded.  Only calls are unwound: the
\* scopes of top-level blocks stay.
AbortedScopes ==
  IF OutermostCall = {} THEN scopes
  ELSE SubSeq(scopes, 1,
              frames[CHOOSE k \in OutermostCall : TRUE].scope_base)

Abort ==
  /\ running
  /\ Finalize("aborted")
  /\ scopes' = UndoneScopes(AbortedScopes)
  /\ content' = UndoneContent
  /\ frame_base' = UnwoundBase
  /\ Forget

Next ==
  \/ \E t \in BOOLEAN, I \in SUBSET Module : Begin(t, I)
  \/ \E n \in Name, v \in Value : Define(n, v) \/ Assign(n, v)
  \/ \E n \in Name : Call(n)
  \/ PushScope
  \/ PopFrame
  \/ \E m \in Module : ModuleDone(m)
  \/ Complete
  \/ Exit
  \/ Fail
  \/ Abort

Spec == Init /\ [][Next]_vars

----------------------------------------------------------------------------

EntryType == [1 .. MaxScopes -> [Name -> Cell \union {NoCell, Unseen}]]

TypeOK ==
  /\ scopes \in Seq(Scope)
  /\ Len(scopes) \in 1 .. MaxScopes
  /\ frame_base \in 1 .. MaxScopes
  /\ content \in [Cell -> Value]
  /\ journal \in BOOLEAN
  /\ entries \in EntryType
  /\ originals \in [Cell -> Value \union {Unseen}]
  /\ frames \in Seq([kind : {"block", "call"},
                     scope_base : 1 .. MaxScopes, frame_base : 1 .. MaxScopes])
  /\ running \in BOOLEAN
  /\ transactional \in BOOLEAN
  /\ newly_loaded \subseteq Module
  /\ loaded \subseteq Module
  /\ ran \subseteq Module
  /\ work \in 0 .. MaxWork
  /\ before \in [scopes : Seq(Scope), content : [Cell -> Value],
                 loaded : SUBSET Module]
  /\ ended \in {"none", "committed", "failed", "aborted"}

(***************************************************************************)
(* A transactional run that fails, is cancelled or is abandoned half-way   *)
(* leaves no trace in the language state: every binding that was there is  *)
(* the same cell again, every cell it could reach holds what it held, and  *)
(* its imports can be imported again (rollback_submission and forget, for  *)
(* any order of writes, calls, blocks and reused addresses).               *)
(***************************************************************************)
RollbackRestores ==
  transactional /\ ended \in {"failed", "aborted"} =>
    /\ \A i \in DOMAIN before.scopes : scopes[i] = before.scopes[i]
    /\ \A c \in Reachable(Bound(before.scopes), before.content) :
         content[c] = before.content[c]
    /\ loaded = before.loaded

(***************************************************************************)
(* A run that ends on its own takes every scope it pushed off the stack,   *)
(* from whatever depth it ends (run_driver's unwind_to before              *)
(* finalize_session).                                                      *)
(***************************************************************************)
ScopesReturn ==
  ended \in {"committed", "failed"} => Len(scopes) = Len(before.scopes)

(***************************************************************************)
(* frame_base is the scope of the innermost call in progress, and scope 1  *)
(* when there is none, also after a run was abandoned inside a call: a     *)
(* function never sees its caller's locals and a later run never inherits  *)
(* a function's view (push_call_frame, pop_call_frame, abort_session).     *)
(***************************************************************************)
FrameBaseMatches ==
  LET Calls == {k \in DOMAIN frames : frames[k].kind = "call"} IN
  /\ Calls = {} => frame_base = 1
  /\ \A k \in Calls : (\A j \in Calls : j <= k)
                       => frame_base = frames[k].scope_base + 1

=============================================================================
