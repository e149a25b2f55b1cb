-------------------------------- MODULE Heap --------------------------------
(***************************************************************************)
(* The values of a script and their accounting (src/value.rs, Tracked;     *)
(* src/budget.rs, AllocationLedger) under the tree engine.  A list, a dict *)
(* and the cell of a variable are tracked objects at an address; values    *)
(* are shared by handle and copied when a shared one is written to.  An    *)
(* object is charged to the ledger when it is made and released when its   *)
(* last handle goes.  Frames are charged and released by hand.             *)
(*                                                                         *)
(* Left out: strings, functions and the tokens of code, which are charged  *)
(* and dropped as the objects here; closures, so that no handle is in a    *)
(* cycle; let inside a block, whose cell goes with its scope like that of  *)
(* a loop variable; elements over max_collection_elements.                 *)
(***************************************************************************)
EXTENDS Integers, Sequences, FiniteSetsExt, Functions

CONSTANTS
  Var,            \* the variables of the top scope
  Address,        \* bound: objects at one time
  MaxElements,    \* bound: elements of a list
  MaxLiteral,     \* bound: elements of a list literal
  MaxValueDepth,  \* limits::MAX_VALUE_DEPTH
  HeapLimit,      \* BudgetConfig::max_live_heap_bytes
  MaxFrames,      \* bound: frames at one time
  MaxSteps        \* bound: expressions and statements of a run

\* MAX_VALUE_DEPTH is 256.  The first addresses are for what earlier runs left.
ASSUME HeapAssumption ==
  /\ Address \subseteq Nat \ {0} /\ IsFiniteSet(Address) /\ 1 .. 3 \subseteq Address
  /\ MaxElements \in Nat \ {0, 1} /\ MaxLiteral \in 0 .. MaxElements
  /\ MaxValueDepth \in Nat \ {0, 1}
  /\ HeapLimit \in Nat /\ MaxFrames \in Nat /\ MaxSteps \in Nat

VARIABLES
  heap,           \* [obj, live]: the objects, and the ledger's counter
  scope,          \* the cell of each variable, or NoCell
  acc,            \* the value an expression left for its statement, or Nothing
  frames,         \* [kind, charge, local]: blocks, loop rounds and try bodies
  undo,           \* the rollback journal: [key, cell, old]
  run,            \* [at, transactional, error]: one run of a context
  before,         \* the contents of the variables when the run began
  foreign,        \* an object of an earlier ledger was changed in place
  steps           \* the expressions and statements so far

vars == <<heap, scope, acc, frames, undo, run, before, foreign, steps>>

Scalar  == 0
NoCell  == 0
Nothing == -1
Key     == {1}

-----------------------------------------------------------------------------
(* heap_size *)

CellBytes       == 32
JournalBytes    == 48
ListBody(n)     == 24 + 32 * n
DictBody(n, k)  == 24 + 64 * n + k
FrameBytes(n)   == 96 + 32 * n

Body(kind, items) ==
  CASE kind = "cell" -> CellBytes
    [] kind = "list" -> ListBody(Len(items))
    [] kind = "dict" -> DictBody(Cardinality(DOMAIN items), Cardinality(DOMAIN items))

-----------------------------------------------------------------------------
(* The depth summary of a backing *)

\* The depth of a value is read from the summary its backing keeps.
DepthIn(h, v) == IF v = Scalar THEN 0 ELSE h.obj[v].top + 1

Summary(h, items) ==
  LET depths == {DepthIn(h, items[i]) : i \in DOMAIN items}
      top    == IF depths = {} THEN 0 ELSE Max(depths)
  IN  [top |-> top,
       count |-> Cardinality({i \in DOMAIN items : DepthIn(h, items[i]) = top})]

ChildRemoved(s, d) == IF d = s.top /\ s.count > 0 THEN [s EXCEPT !.count = @ - 1] ELSE s

ChildAdded(s, d) ==
  CASE d > s.top -> [top |-> d, count |-> 1]
    [] d = s.top -> [s EXCEPT !.count = @ + 1]
    [] OTHER     -> s

\* Variant: the summary of a backing whose deepest element went is kept.
SummaryKept(h, items, s) == s

\* Only when the last of the deepest elements is gone all are read again.
SettledSummary(h, items, s) == IF s.count = 0 THEN Summary(h, items) ELSE s

TooDeep(h, v) == DepthIn(h, v) >= MaxValueDepth

-----------------------------------------------------------------------------
(* The ledger *)

Fits(h, n) == h.live + n <= HeapLimit

Charged(h, n) == [h EXCEPT !.live = @ + n]

Freed(h, n) == [h EXCEPT !.live = IF @ > n THEN @ - n ELSE 0]

Fresh(h) == Min(Address \ DOMAIN h.obj)
HasFresh(h, n) == Cardinality(Address \ DOMAIN h.obj) >= n

\* Tracked::new: charge, then wrap.
Made(h, kind, items) ==
  LET s == Summary(h, items)
      o == [kind |-> kind, items |-> items, bytes |-> Body(kind, items),
            home |-> "now", top |-> IF kind = "cell" THEN 0 ELSE s.top,
            count |-> IF kind = "cell" THEN 0 ELSE s.count]
  IN  [Charged(h, Body(kind, items)) EXCEPT
         !.obj = [a \in DOMAIN @ \union {Fresh(h)} |-> IF a = Fresh(h) THEN o ELSE @[a]]]

Elements(o) == Range(o.items) \ {Scalar}

\* The objects of S and those they hold.
OneMore(h, S) == S \union UNION {Elements(h.obj[a]) : a \in S}

\* The objects some handle leads to.
Alive(h, roots) ==
  LET reach[n \in 0 .. Cardinality(DOMAIN h.obj)] ==
        IF n = 0 THEN roots ELSE OneMore(h, reach[n - 1])
  IN  reach[Cardinality(DOMAIN h.obj)]

\* What the ledger of this run has charged for each object.
Bytes(h) == [a \in DOMAIN h.obj |-> IF h.obj[a].home = "now" THEN h.obj[a].bytes ELSE 0]

\* Tracked::drop of the objects whose last handle went: each gives its bytes
\* back to the ledger it was charged to, if there still is that ledger.
Dropped(h, roots) ==
  LET alive == Alive(h, roots)
  IN  [Freed(h, SumFunctionOnSet(Bytes(h), DOMAIN h.obj \ alive))
         EXCEPT !.obj = Restrict(@, alive)]

Handles ==
  ({scope[x] : x \in Var} \union {frames[i].local : i \in DOMAIN frames}
     \union {undo[i].cell : i \in DOMAIN undo} \union {undo[i].old : i \in DOMAIN undo}
     \union {acc}) \ {Scalar, Nothing}

\* The end of every action: what nothing holds any more is dropped.
Settle(h) == heap' = Dropped(h, Handles')

-----------------------------------------------------------------------------
(* Reading *)

Running == run.at = "on" /\ run.error = "none"

ValueOf(x) == heap.obj[scope[x]].items[1]
Bound      == {x \in Var : scope[x] # NoCell}
Known      == {Scalar} \union {ValueOf(x) : x \in Bound}

\* The contents of a value, whatever its addresses are.
Content(h, v) ==
  LET deep[n \in 0 .. MaxValueDepth] ==
        [w \in {Scalar} \union DOMAIN h.obj |->
           IF w = Scalar \/ n = 0 THEN <<"scalar">>
           ELSE <<h.obj[w].kind,
                  [i \in DOMAIN h.obj[w].items |-> deep[n - 1][h.obj[w].items[i]]]>>]
  IN  deep[MaxValueDepth][v]

Contents(h, cells) ==
  [x \in {y \in Var : cells[y] # NoCell} |-> Content(h, h.obj[cells[x]].items[1])]

-----------------------------------------------------------------------------
(* The journal *)

\* The value is dropped and the error is on its way.
Refuse(h, e) ==
  /\ run' = [run EXCEPT !.error = e]
  /\ acc' = Nothing
  /\ UNCHANGED <<scope, frames, before, foreign>>
  /\ Settle(h)

NeedsEntry(key) ==
  run.transactional /\ \A i \in DOMAIN undo : undo[i].key # key

Entry(key, cell, old) == [key |-> key, cell |-> cell, old |-> old]

\* An entry is charged before it is written; h is the heap it is charged in.
EntryRefused(h, key) == NeedsEntry(key) /\ ~Fits(h, JournalBytes)
Entered(h, key)      == IF NeedsEntry(key) THEN Charged(h, JournalBytes) ELSE h
Journal(key, cell, old) ==
  undo' = IF NeedsEntry(key) THEN Append(undo, Entry(key, cell, old)) ELSE undo

BindingKey(x) == <<"binding", x>>
CellKey(c)    == <<"cell", c>>
LocalKey      == <<"local", Len(frames)>>

\* A write to the cell of x (journal_cell): the entry comes first.
EntryFails(x) ==
  /\ EntryRefused(heap, CellKey(scope[x]))
  /\ UNCHANGED undo /\ Refuse(heap, "heap")

Journaled(x) == Entered(heap, CellKey(scope[x]))

Entering(x) ==
  /\ ~EntryRefused(heap, CellKey(scope[x]))
  /\ Journal(CellKey(scope[x]), scope[x], ValueOf(x))

-----------------------------------------------------------------------------
(* Expressions *)

\* A name or a number.
Evaluate(v) ==
  /\ Running /\ acc = Nothing
  /\ v \in Known
  /\ acc' = v
  /\ UNCHANGED <<heap, scope, frames, undo, run, before, foreign>>

\* A literal of the tree engine: the depth of each element is looked at as it
\* comes, the whole is charged at the end.
Literal(kind, items) ==
  /\ Running /\ acc = Nothing /\ HasFresh(heap, 1)
  /\ Range(items) \subseteq Known
  /\ \/ /\ \E v \in Range(items) : TooDeep(heap, v)
        /\ UNCHANGED undo /\ Refuse(heap, "depth")
     \/ /\ \A v \in Range(items) : ~TooDeep(heap, v)
        /\ ~Fits(heap, Body(kind, items))
        /\ UNCHANGED undo /\ Refuse(heap, "heap")
     \/ /\ \A v \in Range(items) : ~TooDeep(heap, v)
        /\ Fits(heap, Body(kind, items))
        /\ acc' = Fresh(heap)
        /\ UNCHANGED <<scope, frames, undo, run, before, foreign>>
        /\ Settle(Made(heap, kind, items))

\* track_result: what a builtin made is charged from the inside out.
Result ==
  /\ Running /\ acc = Nothing /\ HasFresh(heap, 2)
  /\ LET inner == Made(heap, "list", <<>>)
         outer == <<Fresh(heap), Scalar>>
     IN  \/ ~Fits(heap, ListBody(0)) /\ UNCHANGED undo /\ Refuse(heap, "heap")
         \/ /\ Fits(heap, ListBody(0)) /\ ~Fits(inner, ListBody(2))
            /\ UNCHANGED undo /\ Refuse(inner, "heap")
         \/ /\ Fits(heap, ListBody(0)) /\ Fits(inner, ListBody(2))
            /\ acc' = Fresh(inner)
            /\ UNCHANGED <<scope, frames, undo, run, before, foreign>>
            /\ Settle(Made(inner, "list", outer))

-----------------------------------------------------------------------------
(* Bindings *)

\* Env::set at the top level: the cell first, then the entry, then the binding.
Let(x) ==
  /\ Running /\ frames = <<>> /\ acc # Nothing /\ HasFresh(heap, 1)
  /\ LET made == Made(heap, "cell", <<acc>>)
         key  == BindingKey(x)
     IN  \/ ~Fits(heap, CellBytes) /\ UNCHANGED undo /\ Refuse(heap, "heap")
         \/ /\ Fits(heap, CellBytes) /\ EntryRefused(made, key)
            /\ UNCHANGED undo /\ Refuse(made, "heap")
         \/ /\ Fits(heap, CellBytes) /\ ~EntryRefused(made, key)
            /\ Journal(key, scope[x], Scalar)
            /\ scope' = [scope EXCEPT ![x] = Fresh(heap)]
            /\ acc' = Nothing
            /\ UNCHANGED <<frames, run, before, foreign>>
            /\ Settle(Entered(made, key))

\* Env::update
Update(x) ==
  /\ Running /\ acc # Nothing /\ x \in Bound
  /\ \/ EntryFails(x)
     \/ /\ Entering(x)
        /\ acc' = Nothing
        /\ UNCHANGED <<scope, frames, run, before, foreign>>
        /\ Settle([Journaled(x) EXCEPT !.obj[scope[x]].items = <<acc>>])

-----------------------------------------------------------------------------
(* Writing into a list or a dict *)

\* Rc::strong_count of a backing, in heap h under the next journal.
HandleCount(h, a) ==
  Cardinality({p \in (DOMAIN h.obj) \X (1 .. MaxElements) :
                 p[2] \in DOMAIN h.obj[p[1]].items /\ h.obj[p[1]].items[p[2]] = a})
  + Cardinality({i \in DOMAIN undo' : undo'[i].old = a})
  + IF acc = a THEN 1 ELSE 0

\* Variant: a shared backing is written to in place.
SharedInPlace(h, a) == FALSE

MustCopy(h, a) == HandleCount(h, a) > 1

\* detach and write: cell c gets a backing of its own, unless it has one, with
\* the new elements and summary; the growth is charged after the write, so that
\* a refusal leaves the element in.
Write(h, c, items, summary) ==
  LET a     == h.obj[c].items[1]
      kind  == h.obj[a].kind
      copy  == MustCopy(h, a)
      t     == IF copy THEN Fresh(h) ELSE a
      own   == IF copy THEN [Made(h, kind, h.obj[a].items) EXCEPT !.obj[c].items = <<t>>]
               ELSE h
      old   == own.obj[t].bytes
      new   == Body(kind, items)
      wrote == [own EXCEPT !.obj[t].items = items, !.obj[t].top = summary.top,
                           !.obj[t].count = summary.count]
      paid  == [(IF new > old THEN Charged(wrote, new - old) ELSE Freed(wrote, old - new))
                  EXCEPT !.obj[t].bytes = new]
  IN  CASE copy /\ ~Fits(h, Body(kind, h.obj[a].items)) -> [heap |-> h, ok |-> FALSE]
        [] (~copy \/ Fits(h, Body(kind, h.obj[a].items)))
           /\ new > old /\ ~Fits(own, new - old) -> [heap |-> wrote, ok |-> FALSE]
        [] OTHER -> [heap |-> paid, ok |-> TRUE]

\* check_element_depth, after the entry.
RefuseElement(x) == TooDeep(heap, acc) /\ Entering(x) /\ Refuse(Journaled(x), "depth")

\* The write, which leaves value v behind.
WriteThrough(x, items, summary, v) ==
  /\ Entering(x)
  /\ LET w == Write(Journaled(x), scope[x], items, summary)
         inPlace == ~MustCopy(heap, ValueOf(x)) /\ heap.obj[ValueOf(x)].home = "past"
     IN  /\ run' = IF w.ok THEN run ELSE [run EXCEPT !.error = "heap"]
         /\ acc' = IF w.ok THEN v ELSE Nothing
         /\ foreign' = (foreign \/ inPlace)
         /\ UNCHANGED <<scope, frames, before>>
         /\ Settle(w.heap)

Of(a) == [top |-> heap.obj[a].top, count |-> heap.obj[a].count]

HoldsA(kind, x) ==
  x \in Bound /\ ValueOf(x) # Scalar /\ heap.obj[ValueOf(x)].kind = kind

\* push(x, value)
Push(x) ==
  /\ Running /\ acc # Nothing /\ HoldsA("list", x) /\ HasFresh(heap, 1)
  /\ LET a == ValueOf(x)
     IN  /\ Len(heap.obj[a].items) < MaxElements
         /\ \/ EntryFails(x) \/ RefuseElement(x)
            \/ /\ ~TooDeep(heap, acc)
               /\ WriteThrough(x, Append(heap.obj[a].items, acc),
                               ChildAdded(Of(a), DepthIn(heap, acc)), Nothing)

\* pop(x), whose value is the element.
Pop(x) ==
  /\ Running /\ acc = Nothing /\ HoldsA("list", x) /\ HasFresh(heap, 1)
  /\ LET a    == ValueOf(x)
         old  == heap.obj[a].items
         last == old[Len(old)]
         rest == SubSeq(old, 1, Len(old) - 1)
     IN  /\ old # <<>>
         /\ \/ EntryFails(x)
            \/ WriteThrough(x, rest,
                 SettledSummary(heap, rest, ChildRemoved(Of(a), DepthIn(heap, last))), last)

\* x[i] = value, in a list or for a key a dict may not have yet.
SetAt(x, i) ==
  /\ Running /\ acc # Nothing /\ HasFresh(heap, 1)
  /\ HoldsA("list", x) \/ HoldsA("dict", x)
  /\ LET a     == ValueOf(x)
         o     == heap.obj[a]
         items == [j \in DOMAIN o.items \union {i} |-> IF j = i THEN acc ELSE o.items[j]]
         less  == IF i \in DOMAIN o.items
                  THEN ChildRemoved(Of(a), DepthIn(heap, o.items[i])) ELSE Of(a)
     IN  /\ IF o.kind = "list" THEN i \in DOMAIN o.items ELSE i \in Key
         /\ \/ EntryFails(x) \/ RefuseElement(x)
            \/ /\ ~TooDeep(heap, acc)
               /\ WriteThrough(x, items,
                    SettledSummary(heap, items, ChildAdded(less, DepthIn(heap, acc))), Nothing)

-----------------------------------------------------------------------------
(* Frames *)

Frame(kind, charge, local) == [kind |-> kind, charge |-> charge, local |-> local]

\* enter_scoped_block, enter_while, enter_try: a scope with nothing in it.
Enter(kind) ==
  /\ Running /\ acc = Nothing /\ Len(frames) < MaxFrames
  /\ \/ ~Fits(heap, FrameBytes(0)) /\ UNCHANGED undo /\ Refuse(heap, "heap")
     \/ /\ Fits(heap, FrameBytes(0))
        /\ frames' = Append(frames, Frame(kind, FrameBytes(0), NoCell))
        /\ UNCHANGED <<scope, acc, undo, run, before, foreign>>
        /\ Settle(Charged(heap, FrameBytes(0)))

\* begin_for_iteration: the frame, the cell of the loop variable, its entry.
EnterRound(v) ==
  /\ Running /\ acc = Nothing /\ Len(frames) < MaxFrames /\ HasFresh(heap, 1)
  /\ v \in Known
  /\ LET paid == Charged(heap, FrameBytes(1))
         made == Made(paid, "cell", <<v>>)
         back == Freed(paid, FrameBytes(1))
     IN  \/ ~Fits(heap, FrameBytes(1)) /\ UNCHANGED undo /\ Refuse(heap, "heap")
         \/ /\ Fits(heap, FrameBytes(1)) /\ ~Fits(paid, CellBytes)
            /\ UNCHANGED undo /\ Refuse(back, "heap")
         \/ /\ Fits(heap, FrameBytes(1)) /\ Fits(paid, CellBytes)
            /\ EntryRefused(made, LocalKey)
            /\ UNCHANGED undo /\ Refuse(Freed(made, FrameBytes(1)), "heap")
         \/ /\ Fits(heap, FrameBytes(1)) /\ Fits(paid, CellBytes)
            /\ ~EntryRefused(made, LocalKey)
            /\ Journal(LocalKey, NoCell, Scalar)
            /\ frames' = Append(frames, Frame("block", FrameBytes(1), Fresh(heap)))
            /\ UNCHANGED <<scope, acc, run, before, foreign>>
            /\ Settle(Entered(made, LocalKey))

\* pop_frame
Leave ==
  /\ run.at = "on" /\ frames # <<>> /\ acc = Nothing
  /\ run.error = "none" \/ frames[Len(frames)].kind # "try" \/ run.error = "heap"
  /\ frames' = SubSeq(frames, 1, Len(frames) - 1)
  /\ UNCHANGED <<scope, acc, undo, run, before, foreign>>
  /\ Settle(Freed(heap, frames[Len(frames)].charge))

\* Variant: the charge of the try body is given back again with the frame.
CatchFrame(f) == f

\* handle_error first sets the charge of the try frame to 0.
Uncharged(f) == [f EXCEPT !.charge = 0]

CatchFails(h) ==
  /\ run' = [run EXCEPT !.error = "heap"]
  /\ frames' = [frames EXCEPT ![Len(frames)] = Uncharged(@)]
  /\ UNCHANGED <<scope, acc, undo, before, foreign>>
  /\ Settle(h)

\* handle_error: the scope and the charge of the try body go; the catch body
\* gets its own, and a cell for the error.
Catch ==
  /\ run.at = "on" /\ run.error = "depth" /\ frames # <<>> /\ HasFresh(heap, 1)
  /\ frames[Len(frames)].kind = "try"
  /\ LET n    == Len(frames)
         torn == Freed(heap, frames[n].charge)
         paid == Charged(torn, FrameBytes(1))
         made == Made(paid, "cell", <<Scalar>>)
         key  == <<"local", n - 1>>
     IN  \/ ~Fits(torn, FrameBytes(1)) /\ CatchFails(torn)
         \/ /\ Fits(torn, FrameBytes(1)) /\ ~Fits(paid, CellBytes)
            /\ CatchFails(Freed(paid, FrameBytes(1)))
         \/ /\ Fits(torn, FrameBytes(1)) /\ Fits(paid, CellBytes)
            /\ EntryRefused(made, key)
            /\ CatchFails(Freed(made, FrameBytes(1)))
         \/ /\ Fits(torn, FrameBytes(1)) /\ Fits(paid, CellBytes)
            /\ ~EntryRefused(made, key)
            /\ Journal(key, NoCell, Scalar)
            /\ frames' = [frames EXCEPT ![n] = Frame("block", FrameBytes(1), Fresh(paid))]
            /\ run' = [run EXCEPT !.error = "none"]
            /\ UNCHANGED <<scope, acc, before, foreign>>
            /\ Settle(Entered(made, key))

-----------------------------------------------------------------------------
(* Runs *)

\* The ledger of a one-shot run or of the first submission of a REPL is new:
\* objects of earlier runs belong to one that is gone.
NewLedger(h) ==
  [obj |-> [a \in DOMAIN h.obj |-> [h.obj[a] EXCEPT !.home = "past"]],
   live |-> 0]

\* reset_config_with_token (fresh) or rearm_for_repl_submission, whose
\* submissions are transactions of one ledger.
Start(fresh, transactional) ==
  /\ run.at = "idle"
  /\ ~fresh => transactional
  /\ run' = [at |-> "on", transactional |-> transactional, error |-> "none"]
  /\ heap' = IF fresh THEN NewLedger(heap) ELSE heap
  /\ before' = IF transactional THEN Contents(heap, scope) ELSE <<>>
  /\ UNCHANGED <<scope, acc, frames, undo, foreign>>

\* finalize_session(true), also of a run that is not transactional.
Commit ==
  /\ Running /\ frames = <<>> /\ acc = Nothing
  /\ run' = [run EXCEPT !.at = "over"]
  /\ undo' = <<>>
  /\ UNCHANGED <<scope, acc, frames, before, foreign>>
  /\ Settle(Freed(heap, JournalBytes * Len(undo)))

OldBinding(x) ==
  LET at == {i \in DOMAIN undo : undo[i].key = BindingKey(x)}
  IN  IF at = {} THEN scope[x] ELSE undo[Min(at)].cell

OldValues(h) ==
  [h EXCEPT !.obj =
     [a \in DOMAIN @ |->
        LET at == {i \in DOMAIN undo : undo[i].key = CellKey(a)}
        IN  IF at = {} THEN @[a] ELSE [@[a] EXCEPT !.items = <<undo[Min(at)].old>>]]]

\* finalize_session(false): rollback_submission, if there is a journal.
Rollback ==
  /\ run.at = "on" /\ run.error # "none" /\ frames = <<>>
  /\ run' = [run EXCEPT !.at = "over"]
  /\ scope' = [x \in Var |-> OldBinding(x)]
  /\ undo' = <<>>
  /\ UNCHANGED <<acc, frames, before, foreign>>
  /\ Settle(Freed(OldValues(heap), JournalBytes * Len(undo)))

-----------------------------------------------------------------------------
\* What earlier runs left: nothing, a list, a list that is shared, a list in a
\* list.
None      == [obj |-> <<>>, live |-> 0]
OneList   == Made(None, "list", <<Scalar>>)
Left(x) ==
  LET bound  == Made(OneList, "cell", <<1>>)
      nested == Made(OneList, "list", <<1>>)
  IN  {[heap |-> None, scope |-> [z \in Var |-> NoCell]],
       [heap |-> bound, scope |-> [z \in Var |-> IF z = x THEN 2 ELSE NoCell]],
       [heap |-> Made(nested, "cell", <<2>>),
        scope |-> [z \in Var |-> IF z = x THEN 3 ELSE NoCell]]}
      \union {[heap |-> Made(bound, "cell", <<1>>),
               scope |-> [z \in Var |-> IF z = x THEN 2 ELSE IF z = y THEN 3 ELSE NoCell]] :
                 y \in Var \ {x}}

\* Earlier runs kept to the limit.
Init ==
  /\ \E x \in Var : \E l \in Left(x) :
       l.heap.live <= HeapLimit /\ heap = l.heap /\ scope = l.scope
  /\ acc = Nothing
  /\ frames = <<>> /\ undo = <<>>
  /\ run = [at |-> "idle", transactional |-> FALSE, error |-> "none"]
  /\ before = <<>>
  /\ foreign = FALSE
  /\ steps = 0

Lists == UNION {[1 .. n -> Known] : n \in 0 .. MaxLiteral}
Dicts == UNION {[K -> Known] : K \in SUBSET Key}

Work ==
  \/ \E v \in Known : Evaluate(v) \/ EnterRound(v)
  \/ \E l \in Lists : Literal("list", l)
  \/ \E d \in Dicts : Literal("dict", d)
  \/ Result
  \/ \E x \in Var : Let(x) \/ Update(x) \/ Push(x) \/ Pop(x)
  \/ \E x \in Var, i \in 1 .. MaxElements : SetAt(x, i)
  \/ \E kind \in {"block", "try"} : Enter(kind)

Next ==
  \/ steps < MaxSteps /\ Work /\ steps' = steps + 1
  \/ /\ UNCHANGED steps
     /\ \/ Leave \/ Catch \/ Commit \/ Rollback
        \/ \E fresh, transactional \in BOOLEAN : Start(fresh, transactional)

Spec == Init /\ [][Next]_vars

-----------------------------------------------------------------------------
(* Properties *)

\* What the ledger of this run charged and did not get back: its objects, the
\* entries of the journal, the frames.
Owed ==
  SumFunction(Bytes(heap)) + JournalBytes * Len(undo)
    + SumFunction([i \in DOMAIN frames |-> frames[i].charge])

\* live_heap_bytes is the sum of what is held, whatever was refused, caught or
\* copied before, and never over the limit: AllocationLedger, the manual
\* charges of frames and the tokens of the journal agree.  The exception is a
\* run that changed an object of an earlier ledger in place.
LiveIsExact == ~foreign => heap.live = Owed /\ heap.live <= HeapLimit

\* The depth that check_element_depth reads from a summary is the depth of the
\* value (Tracked::settle_child_depth), and no value is deeper than
\* MAX_VALUE_DEPTH.
DepthsAreTrue ==
  \A a \in DOMAIN heap.obj : heap.obj[a].kind # "cell" =>
    LET s == Summary(heap, heap.obj[a].items)
    IN  /\ heap.obj[a].top = s.top
        /\ heap.obj[a].count = s.count
        /\ DepthIn(heap, a) <= MaxValueDepth

\* Values have no identity (detach): a step changes the contents of one
\* variable at most, however its backing is shared.  A run that fails gives all
\* of them back, if it is a transaction.
ValuesAreSeparate ==
  [][LET old == Contents(heap, scope)
         new == Contents(heap', scope')
         ended == run.at = "on" /\ run'.at = "over"
     IN  IF ended
         THEN new = IF run.error # "none" /\ run.transactional THEN before ELSE old
         ELSE Cardinality({x \in DOMAIN new : x \notin DOMAIN old \/ new[x] # old[x]}) <= 1]_vars

=============================================================================
