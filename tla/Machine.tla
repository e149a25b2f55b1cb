------------------------------ MODULE Machine -------------------------------
(***************************************************************************)
(* The bytecode machine of src/src/vm.rs and the REPL that drives it       *)
(* (src/src/main.rs).  A script is a sequence of lines; each is compiled   *)
(* with the names of the lines before it and run as one transaction.  The  *)
(* host recursion of map, filter and each into run_frames is the stack     *)
(* natives; the actions below are one instruction each.                    *)
(***************************************************************************)
EXTENDS Compiler

CONSTANTS Scripts,         \* the scripts; a script is a sequence of lines
          TotalFuel,       \* BudgetLimits::total_fuel
          MaxUserCallDepth, \* limits.rs:22
          LineCompiler(_, _, _) \* CompileLine

MaxAstDepth == 12          \* limits.rs:4, far above any script of the models

VARIABLES
    script,    \* the position of the script that runs
    line,      \* the next line of the script
    compiler,  \* the compiler that persists between lines
    chunks,    \* the chunk of every line that was run
    stack,     \* Vm.stack
    frames,    \* Vm.frames
    handlers,  \* Vm.try_handlers
    globals,   \* Vm.globals: name -> slot
    cells,     \* the captured variables; a cell is named by its position
    natives,   \* the callback loops of builtins that are under way
    fuel,      \* committed fuel of this line
    ticks,     \* Vm.watchdog_ticks
    ids,       \* the function ids handed out
    out,       \* what print has written
    journal,   \* the checkpoint of the line, or NoJournal
    results    \* per finished line: its outcome, its fuel and what was printed so far

vars == <<script, line, compiler, chunks, stack, frames, handlers, globals, cells,
          natives, fuel, ticks, ids, out, journal, results>>

Script    == Scripts[script]
NoJournal == [len |-> -1]
Running   == journal # NoJournal

Init ==
    /\ script \in DOMAIN Scripts
    /\ line = 1
    /\ compiler = NewCompiler
    /\ chunks = <<>> /\ stack = <<>> /\ frames = <<>> /\ handlers = <<>>
    /\ globals = <<>> /\ cells = <<>> /\ natives = <<>>
    /\ fuel = 0 /\ ticks = 0 /\ ids = 0
    /\ out = <<>> /\ results = <<>>
    /\ journal = NoJournal

-----------------------------------------------------------------------------
(* Frames and instructions *)

Top == Last(frames)

(* The chunk of a frame: the line it belongs to and the way to it through   *)
(* the prototypes.                                                          *)
ChunkAt(path) ==
    FoldLeft(LAMBDA ch, p : ch.prototypes[p + 1].chunk, chunks[path[1]], Tail(path))

(* A callback loop has the turn when the frame it called has returned. *)
NativeTurn == natives # <<>> /\ Last(natives).stop = Len(frames)

Ins == ChunkAt(Top.chunk).code[Top.ip + 1]
Op(name) == Running /\ ~NativeTurn /\ Ins[1] = name

Stepped == [frames EXCEPT ![Len(frames)].ip = @ + 1]

Peek(n) == stack[Len(stack) - n]                       \* n below the top
Popped(n) == SubSeq(stack, 1, Len(stack) - n)
Args(n) == [i \in 1..n |-> Peek(n - i)]                \* the topmost n

ActiveUserFrames == Len(frames) - 1

(* checkpoint_stack_slot: the first value of every slot of the line's start *)
(* that is overwritten or removed.                                          *)
Recorded(stk) ==
    LET hit == {i \in 1..journal.len :
                  i \notin DOMAIN journal.slots /\ i <= Len(stack)
                    /\ (i > Len(stk) \/ stk[i] # stack[i])}
    IN  [journal EXCEPT !.slots = [i \in hit |-> stack[i]] @@ @]

(* checkpoint_cell *)
CellRecorded(j, id) ==
    IF id \in DOMAIN j.cells \/ id > j.cellCount THEN j
    ELSE [j EXCEPT !.cells = (id :> cells[id]) @@ @]

Same(v) == UNCHANGED <<script, line, compiler, chunks, results, ids, v>>

(* An instruction that leaves stk on the stack and goes on. *)
Put(stk) ==
    /\ stack' = stk
    /\ frames' = Stepped
    /\ journal' = Recorded(stk)
    /\ Same(<<handlers, globals, cells, natives, fuel, ticks, out>>)

-----------------------------------------------------------------------------
(* Errors *)

(* restore_repl_stack and the checkpoints of run_repl_chunk *)
RestoredStack ==
    [i \in 1..journal.len |->
        IF i \in DOMAIN journal.slots THEN journal.slots[i] ELSE stack[i]]
RestoredCells ==
    [i \in 1..journal.cellCount |->
        IF i \in DOMAIN journal.cells THEN journal.cells[i] ELSE cells[i]]

Reported(e, f) == [outcome |-> e, fuel |-> f, said |-> Len(out)]

(* The line fails, its last instruction having charged some fuel: the       *)
(* machine and the compiler return to where the line began.                 *)
FailLine(e, charge) ==
    /\ results' = Append(results, Reported(e, fuel + charge))
    /\ fuel' = fuel + charge
    /\ stack' = RestoredStack /\ cells' = RestoredCells
    /\ frames' = journal.frames /\ globals' = journal.globals
    /\ handlers' = journal.handlers /\ compiler' = journal.compiler
    /\ natives' = <<>>
    /\ journal' = NoJournal
    /\ line' = IF e = "process_exit" THEN Len(Script) + 1 ELSE line + 1
    /\ UNCHANGED <<script, chunks, ticks, ids, out>>

(* Variant: the handlers of frames that the error leaves keep their locals. *)
KeepTryCells(h, f) == f

(* The cells of locals that the try block added are dropped.                *)
DropTryCells(h, f) ==
    [f EXCEPT !.cells = SubSeq(@, 1, IF h.locals < Len(@) THEN h.locals ELSE Len(@))]

(* The innermost handler takes the error: frames, callback loops and stack  *)
(* return to where its try began, and the error value is pushed.            *)
Catch(h, e, charge) ==
    /\ handlers' = Front(handlers)
    /\ frames' = [SubSeq(frames, 1, h.frames) EXCEPT
                    ![h.frames] = [DropTryCells(h, @) EXCEPT !.ip = h.catch]]
    /\ natives' = SelectSeq(natives, LAMBDA n : n.stop < h.frames)
    /\ LET stk == Append(SubSeq(stack, 1, h.stack), ErrorV(e))
       IN  stack' = stk /\ journal' = Recorded(stk)
    /\ fuel' = fuel + charge
    /\ Same(<<globals, cells, ticks, out>>)

RaiseAfter(e, charge) ==
    IF e \in Uncatchable \/ handlers = <<>> THEN FailLine(e, charge)
    ELSE Catch(Last(handlers), e, charge)
Raise(e) == RaiseAfter(e, 0)

(* A result goes on top of what is left of the stack, an error is raised.   *)
Give(stk, r) == IF r.ok THEN Put(Append(stk, r.v)) ELSE Raise(r.e)

(* What compares or renders values pays for each of their nodes first; when *)
(* the limit comes in between, what was left is spent.                      *)
PutPaid(nodes, stk, said) ==
    IF fuel + nodes > TotalFuel THEN RaiseAfter("step_limit", TotalFuel - fuel)
    ELSE /\ stack' = stk /\ journal' = Recorded(stk)
         /\ frames' = Stepped
         /\ fuel' = fuel + nodes /\ out' = said
         /\ Same(<<handlers, globals, cells, natives, ticks>>)

(* watchdog_limit *)
WatchdogLimit == 2 * TotalFuel + 16

-----------------------------------------------------------------------------
(* Lines *)

(* compile_repl_line and the start of run_repl_chunk *)
StartLine ==
    /\ ~Running /\ line <= Len(Script)
    /\ LET built == LineCompiler(compiler, Script[line], MaxAstDepth)
           root  == [chunk |-> <<line>>, ip |-> 0, base |-> 0, upvalues |-> <<>>,
                     cells |-> IF frames = <<>> THEN <<>> ELSE frames[1].cells]
       IN  /\ chunks' = Append(chunks, built.chunk)
           /\ IF built.err # "none"
              THEN /\ results' = Append(results, Reported(built.err, 0))
                   /\ line' = line + 1
                   /\ UNCHANGED <<compiler, frames, journal, fuel, ticks>>
              ELSE /\ compiler' = built.compiler
                   /\ journal' = [len |-> Len(stack), slots |-> <<>>,
                                  cellCount |-> Len(cells), cells |-> <<>>,
                                  frames |-> frames, globals |-> globals,
                                  handlers |-> handlers, compiler |-> compiler]
                   /\ frames' = <<root>>
                   /\ fuel' = 0 /\ ticks' = 0
                   /\ UNCHANGED <<results, line>>
    /\ UNCHANGED <<script, stack, handlers, globals, cells, natives, ids, out>>

(* Return ends the line; its slots and cells stay. *)
EndLine ==
    /\ Op("Return")
    /\ results' = Append(results, Reported("ok", fuel))
    /\ frames' = Stepped
    /\ journal' = NoJournal
    /\ line' = line + 1
    /\ UNCHANGED <<script, compiler, chunks, stack, handlers, globals, cells, natives,
                   fuel, ticks, ids, out>>

-----------------------------------------------------------------------------
(* Slots, captures and globals *)

CellOf(f, slot) == IF slot < Len(f.cells) THEN f.cells[slot + 1] ELSE 0

(* resolve_binding_storage *)
Place(f, slot) ==
    IF CellOf(f, slot) # 0 THEN <<"cell", CellOf(f, slot)>>
    ELSE IF f.base + slot < Len(stack) THEN <<"stack", f.base + slot + 1>>
    ELSE <<"none">>

Storage(target) ==
    CASE target[1] = "Local"   -> Place(Top, target[2])
      [] target[1] = "Upvalue" -> <<"cell", Top.upvalues[target[2] + 1]>>
      [] target[1] = "Global" /\ target[2] \in DOMAIN globals ->
            Place(frames[1], globals[target[2]])
      [] OTHER -> <<"undefined">>

Read(place) ==
    CASE place[1] = "cell"  -> Ok(cells[place[2]])
      [] place[1] = "stack" -> Ok(stack[place[2]])
      [] place[1] = "undefined" -> Err("undefined_name")
      [] OTHER -> Err("internal")

(* The write of v to a place, with stk left on the stack otherwise. *)
Write(place, v, stk) ==
    LET new == IF place[1] = "stack" THEN [stk EXCEPT ![place[2]] = v] ELSE stk
    IN  /\ stack' = new
        /\ cells' = IF place[1] = "cell" THEN [cells EXCEPT ![place[2]] = v] ELSE cells
        /\ journal' = IF place[1] = "cell" THEN CellRecorded(Recorded(new), place[2])
                      ELSE Recorded(new)
        /\ frames' = Stepped
        /\ Same(<<handlers, globals, natives, fuel, ticks, out>>)

Named(kind) == <<kind, Ins[2]>>

LoadConst ==
    /\ Op("LoadConst") \/ Op("LoadConstRaw")
    /\ Put(Append(stack, ChunkAt(Top.chunk).constants[Ins[2] + 1]))

GetLocal   == Op("GetLocal") /\ Give(stack, Read(Storage(Named("Local"))))
GetUpvalue == Op("GetUpvalue") /\ Give(stack, Read(Storage(Named("Upvalue"))))
GetGlobal  == /\ Op("GetGlobal") \/ Op("GetGlobalForCall")
              /\ Give(stack, Read(Storage(Named("Global"))))

SetLocal   == Op("SetLocal") /\ Write(Storage(Named("Local")), Peek(0), stack)
SetUpvalue == Op("SetUpvalue") /\ Write(Storage(Named("Upvalue")), Peek(0), stack)
SetGlobal  ==
    /\ Op("SetGlobal")
    /\ LET place == Storage(Named("Global"))
       IN  IF place[1] = "undefined" THEN Raise("assign_undefined")
           ELSE Write(place, Peek(0), stack)

RequireGlobal ==
    /\ Op("RequireGlobal")
    /\ IF Ins[2] \in DOMAIN globals THEN Put(stack) ELSE Raise("undefined_name")

(* register_global: only from the top frame, for a slot that has a value.   *)
RegisterGlobal ==
    /\ Op("RegisterGlobal")
    /\ IF Len(frames) # 1 \/ Top.base + Ins[2] >= Len(stack) THEN Raise("internal")
       ELSE /\ globals' = (Ins[3] :> Ins[2]) @@ globals
            /\ frames' = Stepped
            /\ Same(<<stack, handlers, cells, natives, fuel, ticks, out, journal>>)

(* The slots that leave the stack give up their cells. *)
ClearCells(f, stk) ==
    [f EXCEPT !.cells = [i \in DOMAIN @ |-> IF f.base + i > Len(stk) THEN 0 ELSE @[i]]]

PopSlots(n) ==
    /\ stack' = Popped(n)
    /\ frames' = [Stepped EXCEPT ![Len(frames)] = ClearCells(@, Popped(n))]
    /\ journal' = Recorded(Popped(n))
    /\ Same(<<handlers, globals, cells, natives, fuel, ticks, out>>)

Pop  == Op("Pop") /\ PopSlots(1)
PopN == Op("PopN") /\ PopSlots(Ins[2])

-----------------------------------------------------------------------------
(* Operators *)

Numbers(l, r) == l.t = "int" /\ r.t = "int"
AddValues(l, r) ==
    CASE Numbers(l, r) -> Checked(l.n + r.n)
      [] l.t = "str" /\ r.t \in {"str", "error"} -> Ok(StrV(l.s \o Text(r)))
      [] l.t = "error" /\ r.t = "str" -> Ok(StrV(Text(l) \o r.s))
      [] OTHER -> Err("arithmetic_type")
SubValues(l, r) == IF Numbers(l, r) THEN Checked(l.n - r.n) ELSE Err("arithmetic_type")
MulValues(l, r) == IF Numbers(l, r) THEN Checked(l.n * r.n) ELSE Err("arithmetic_type")
DivValues(l, r) ==
    CASE ~Numbers(l, r) -> Err("arithmetic_type")
      [] Numbers(l, r) /\ r.n = 0 -> Err("zero_division")
      [] OTHER -> Checked(Quotient(l.n, r.n))
(* checked_rem refuses the one pair whose quotient overflows. *)
ModValues(l, r) ==
    CASE ~Numbers(l, r) -> Err("arithmetic_type")
      [] Numbers(l, r) /\ r.n = 0 -> Err("zero_division")
      [] Numbers(l, r) /\ l.n = MinInt /\ r.n = -1 -> Err("int_overflow")
      [] OTHER -> Ok(IntV(Remainder(l.n, r.n)))

Binary(name, l, r) ==
    CASE name = "Add" -> AddValues(l, r) [] name = "Sub" -> SubValues(l, r)
      [] name = "Mul" -> MulValues(l, r) [] name = "Div" -> DivValues(l, r)
      [] name = "Mod" -> ModValues(l, r)
      [] name = "Lt" -> Relational("<", l, r) [] name = "Gt" -> Relational(">", l, r)
      [] name = "LtEq" -> Relational("<=", l, r) [] name = "GtEq" -> Relational(">=", l, r)

BinaryOps == {"Add", "Sub", "Mul", "Div", "Mod", "Lt", "Gt", "LtEq", "GtEq"}
BinaryOp ==
    \E name \in BinaryOps : Op(name) /\ Give(Popped(2), Binary(name, Peek(1), Peek(0)))

Equality ==
    \E name \in {"Eq", "NotEq"} :
        /\ Op(name)
        /\ LET c == Compare(Peek(1), Peek(0))
           IN  PutPaid(c.nodes, Append(Popped(2), BoolV(c.equal = (name = "Eq"))), out)

Not == Op("Not") /\ Put(Append(Popped(1), BoolV(~IsTruthy(Peek(0)))))
Negate ==
    /\ Op("Negate")
    /\ Give(Popped(1), IF Peek(0).t = "int" THEN Checked(-Peek(0).n) ELSE Err("unary_type"))

-----------------------------------------------------------------------------
(* Jumps *)

(* A jump that does not go forward is a tick of the watchdog. *)
GoTo(target, stk, charge) ==
    LET tick == IF target <= Top.ip THEN 1 ELSE 0
    IN  IF ticks + tick > WatchdogLimit THEN FailLine("step_limit", charge)
        ELSE /\ frames' = [frames EXCEPT ![Len(frames)].ip = target]
             /\ stack' = stk /\ journal' = Recorded(stk)
             /\ ticks' = ticks + tick /\ fuel' = fuel + charge
             /\ Same(<<handlers, globals, cells, natives, out>>)

Jump == Op("Jump") /\ GoTo(Ins[2], stack, 0)
JumpIfFalse ==
    /\ Op("JumpIfFalse")
    /\ IF IsTruthy(Peek(0)) THEN Put(Popped(1)) ELSE GoTo(Ins[2], Popped(1), 0)
JumpKeep ==
    \/ Op("JumpIfFalseKeep") /\ IF IsTruthy(Peek(0)) THEN Put(stack) ELSE GoTo(Ins[2], stack, 0)
    \/ Op("JumpIfTrueKeep") /\ IF IsTruthy(Peek(0)) THEN GoTo(Ins[2], stack, 0) ELSE Put(stack)
JumpIfGlobalDefined ==
    /\ Op("JumpIfGlobalDefined")
    /\ IF Ins[3] \in DOMAIN globals THEN GoTo(Ins[2], stack, 0) ELSE Put(stack)

(* Variant: only calls are charged. *)
LoopUnpaid == Op("Loop") /\ GoTo(Ins[2], stack, 0)

(* (F1) The back edge of a loop costs one unit of fuel. *)
Loop ==
    /\ Op("Loop")
    /\ IF fuel >= TotalFuel THEN Raise("step_limit") ELSE GoTo(Ins[2], stack, 1)

-----------------------------------------------------------------------------
(* Calls *)

NewFrame(f, base) ==
    [chunk |-> f.chunk, ip |-> 0, base |-> base, upvalues |-> f.upvalues, cells |-> <<>>]

(* (F2) The call is paid before the callee is evaluated. *)
PrepareCall ==
    /\ Op("PrepareCall")
    /\ CASE fuel >= TotalFuel -> Raise("step_limit")
         [] fuel < TotalFuel /\ ActiveUserFrames >= MaxUserCallDepth ->
              RaiseAfter("call_depth_limit", 1)
         [] OTHER -> GoTo(Top.ip + 1, stack, 1)

CallError(f, count) ==
    CASE f.t # "fn" -> "not_callable"
      [] f.t = "fn" /\ f.arity # count -> "user_arity"
      [] OTHER -> "none"

ValidateCall ==
    /\ Op("ValidateCall")
    /\ LET e == CallError(Peek(0), Ins[2])
       IN  IF e = "none" THEN Put(stack) ELSE Raise(e)

(* push_call_frame is the second source of ticks; loops are the callback    *)
(* loops after the call.                                                    *)
PushFrame(f, base, stk, charge, loops) ==
    IF ticks + 1 > WatchdogLimit THEN FailLine("step_limit", charge)
    ELSE /\ frames' = Append(IF NativeTurn THEN frames ELSE Stepped, NewFrame(f, base))
         /\ stack' = stk /\ journal' = Recorded(stk)
         /\ ticks' = ticks + 1 /\ fuel' = fuel + charge
         /\ natives' = loops
         /\ Same(<<handlers, globals, cells, out>>)

Call_ ==
    /\ Op("Call")
    /\ LET f == Peek(Ins[2])
           e == CallError(f, Ins[2])
       IN  CASE ActiveUserFrames >= MaxUserCallDepth -> Raise("call_depth_limit")
             [] ActiveUserFrames < MaxUserCallDepth /\ e # "none" -> Raise(e)
             [] OTHER -> PushFrame(f, Len(stack) - Ins[2] - 1, stack, 0, natives)

HandlersUpTo(hs, depth) == SelectSeq(hs, LAMBDA h : h.frames <= depth)

(* The frame goes with its slots and its handlers; the value goes to the    *)
(* caller, or to the callback loop that made the call.                      *)
ReturnValue ==
    /\ Op("ReturnValue")
    /\ LET depth == Len(frames) - 1
           below == SubSeq(stack, 1, Top.base)
           mine  == natives # <<>> /\ depth <= Last(natives).stop
           stk   == IF mine THEN below ELSE Append(below, Peek(0))
       IN  /\ frames' = Front(frames)
           /\ handlers' = HandlersUpTo(handlers, depth)
           /\ stack' = stk /\ journal' = Recorded(stk)
           /\ natives' = IF mine THEN [natives EXCEPT ![Len(natives)].answer = <<Peek(0)>>]
                         ELSE natives
    /\ Same(<<globals, cells, fuel, ticks, out>>)

(* The captures of a prototype: cells of this frame's slots, made on first  *)
(* capture (ensure_local_cell), or its own captures passed on.              *)
Capture(acc, cap) ==
    IF cap[1] = "Upvalue"
    THEN [acc EXCEPT !.got = Append(@, Top.upvalues[cap[2] + 1])]
    ELSE LET have == CellOf([cells |-> acc.local], cap[2])
             pad  == [i \in 1..(IF cap[2] + 1 > Len(acc.local) THEN cap[2] + 1
                                ELSE Len(acc.local)) |->
                        IF i <= Len(acc.local) THEN acc.local[i] ELSE 0]
             id   == Len(acc.cells) + 1
         IN  IF have # 0 THEN [acc EXCEPT !.got = Append(@, have)]
             ELSE [got |-> Append(acc.got, id), local |-> [pad EXCEPT ![cap[2] + 1] = id],
                   cells |-> Append(acc.cells, stack[Top.base + cap[2] + 1])]

MakeClosure ==
    /\ Op("MakeClosure")
    /\ LET proto == ChunkAt(Top.chunk).prototypes[Ins[2] + 1]
           c     == FoldLeft(Capture, [got |-> <<>>, local |-> Top.cells, cells |-> cells],
                             proto.captures)
           stk   == Append(stack, [t |-> "fn", id |-> ids + 1, name |-> proto.name,
                                   arity |-> proto.arity, upvalues |-> c.got,
                                   chunk |-> Append(Top.chunk, Ins[2])])
       IN  /\ stack' = stk /\ journal' = Recorded(stk)
           /\ cells' = c.cells
           /\ frames' = [Stepped EXCEPT ![Len(frames)].cells = c.local]
    /\ ids' = ids + 1
    /\ UNCHANGED <<script, line, compiler, chunks, results, handlers, globals, natives,
                   fuel, ticks, out>>

-----------------------------------------------------------------------------
(* try *)

SetupTry ==
    /\ Op("SetupTry")
    /\ handlers' = Append(handlers,
          [catch |-> Ins[2], stack |-> Len(stack), frames |-> Len(frames),
           locals |-> Len(stack) - Top.base])
    /\ frames' = Stepped
    /\ Same(<<stack, globals, cells, natives, fuel, ticks, out, journal>>)

TeardownTry ==
    /\ Op("TeardownTry")
    /\ handlers' = IF handlers = <<>> THEN handlers ELSE Front(handlers)
    /\ frames' = Stepped
    /\ Same(<<stack, globals, cells, natives, fuel, ticks, out, journal>>)

-----------------------------------------------------------------------------
(* Collections *)

(* eval_index *)
IndexValue(c, i) ==
    CASE c.t = "list" /\ i.t # "int" -> Err("list_index_type")
      [] c.t = "list" /\ i.t = "int" ->
            IF At(i.n, Len(c.items)) \in 0..(Len(c.items) - 1)
            THEN Ok(c.items[At(i.n, Len(c.items)) + 1]) ELSE Err("list_index_out_of_range")
      [] c.t = "str" /\ i.t # "int" -> Err("str_index_type")
      [] c.t = "str" /\ i.t = "int" ->
            IF At(i.n, Len(c.s)) \in 0..(Len(c.s) - 1)
            THEN Ok(StrV(<<c.s[At(i.n, Len(c.s)) + 1]>>)) ELSE Err("str_index_out_of_range")
      [] c.t \in {"dict", "error"} /\ i.t # "str" -> Err("dict_key_type")
      [] c.t = "dict" /\ i.t = "str" ->
            Ok(IF i.s \in DOMAIN c.map THEN c.map[i.s] ELSE NullV)
      [] c.t = "error" /\ i.t = "str" ->
            Ok(IF i.s = <<"type">> THEN StrV(<<c.e>>) ELSE NullV)
      [] OTHER -> Err("index_read_unsupported")

LenLocal ==
    /\ Op("LenLocal")
    /\ LET r == Read(Storage(Named("Local")))
       IN  IF r.ok THEN Give(stack, BuiltinLen(r.v)) ELSE Raise(r.e)

IndexOp == Op("Index") /\ Give(Popped(2), IndexValue(Peek(1), Peek(0)))
IndexLocal ==
    /\ Op("IndexLocal")
    /\ LET r == Read(Storage(Named("Local")))
       IN  IF r.ok THEN Give(Popped(1), IndexValue(r.v, Peek(0))) ELSE Raise(r.e)

ListPush == Op("ListPush") /\ Give(Popped(2), Pushed(Peek(1), Peek(0)))
DictInsert ==
    /\ Op("DictInsert")
    /\ Give(Popped(3), AssignIndex(Peek(2), Peek(1), Peek(0)))
ToIterList == Op("ToIterList") /\ Give(Popped(1), IterItems(Peek(0)))

(* SetIndex and ListPushBinding change the collection where it is bound.    *)
Update(place, r, stk) ==
    IF r.ok THEN Write(place, r.v, stk) ELSE Raise(r.e)
SetIndex ==
    /\ Op("SetIndex")
    /\ LET place == Storage(Ins[2])
           have  == Read(place)
       IN  IF have.ok THEN Update(place, AssignIndex(have.v, Peek(1), Peek(0)), Popped(2))
           ELSE Raise(have.e)
ListPushBinding ==
    /\ Op("ListPushBinding")
    /\ LET place == Storage(Ins[2])
           have  == Read(place)
       IN  IF have.ok THEN Update(place, Pushed(have.v, Peek(0)), Popped(1))
           ELSE Raise(have.e)
PopUpdate ==
    /\ Op("PopUpdate")
    /\ Put(Append(Popped(1), IF Peek(0).t # "list" \/ Peek(0).items = <<>> THEN Peek(0)
                             ELSE [Peek(0) EXCEPT !.items = Front(@)]))

(* Variant: what is inside of a composite value is rendered for nothing.    *)
OuterNodesOf(values) == Len(SelectSeq(values, LAMBDA v : v.t \in {"list", "dict"}))

(* Both render all of their values after the last one was evaluated.        *)
NodesOf(values) == FoldLeft(LAMBDA n, v : n + CompositeNodes(v), 0, values)
FStrConcat ==
    /\ Op("FStrConcat")
    /\ LET values == Args(Ins[2])
       IN  PutPaid(NodesOf(values),
                   Append(Popped(Ins[2]),
                          StrV(FlattenSeq([i \in DOMAIN values |-> Text(values[i])]))), out)

Print_ ==
    /\ Op("Print")
    /\ LET values == Args(Ins[2])
       IN  PutPaid(NodesOf(values), Popped(Ins[2]),
                   Append(out, [i \in DOMAIN values |-> Shown(values[i])]))

-----------------------------------------------------------------------------
(* Builtins *)

ValidateBuiltinCall ==
    /\ Op("ValidateBuiltinCall")
    /\ LET e == ValidateContextCall(Ins[2], Ins[3], Ins[4])
       IN  IF e = "none" THEN Put(stack) ELSE Raise(e)


CallPure ==
    /\ Op("CallBuiltin") /\ Ins[2] \in PureBuiltins \union {"pop"}
    /\ Give(Popped(Ins[3]), Pure(Ins[2], Args(Ins[3])))

CallExit == Op("CallBuiltin") /\ Ins[2] = "exit" /\ Raise(ExitSignal(Args(Ins[3])))

(* map, filter and each begin a loop of callbacks over their list. *)
CallHigherOrder ==
    /\ Op("CallBuiltin") /\ Ins[2] \in {"map", "filter", "each"}
    /\ LET args == Args(Ins[3])
       IN  CASE Len(args) # 2 -> Raise("builtin_arity")
             [] Len(args) = 2 /\ args[1].t # "list" -> Raise("builtin_arg_type")
             [] OTHER ->
                /\ natives' = Append(natives,
                      [name |-> Ins[2], items |-> args[1].items, func |-> args[2],
                       acc |-> <<>>, at |-> 0, stop |-> Len(frames), answer |-> <<>>])
                /\ stack' = Popped(2) /\ journal' = Recorded(Popped(2))
                /\ frames' = Stepped
                /\ Same(<<handlers, globals, cells, fuel, ticks, out>>)

(* What a loop collects from the answer for its item. *)
Collected(n) ==
    CASE n.answer = <<>> -> n.acc
      [] n.answer # <<>> /\ n.name = "map" -> Append(n.acc, n.answer[1])
      [] n.answer # <<>> /\ n.name = "filter" /\ IsTruthy(n.answer[1]) ->
            Append(n.acc, n.items[n.at])
      [] OTHER -> n.acc

(* The last answer is in: the builtin's value goes on the stack. *)
NativeDone ==
    /\ Running /\ NativeTurn
    /\ LET n   == Last(natives)
           v   == IF n.name = "each" THEN NullV ELSE ListV(Collected(n))
       IN  /\ n.at = Len(n.items)
           /\ stack' = Append(stack, v) /\ natives' = Front(natives)
           /\ journal' = Recorded(Append(stack, v))
    /\ Same(<<frames, handlers, globals, cells, fuel, ticks, out>>)

CallbackError(e) == IF e = "user_arity" THEN "callback_arity" ELSE "callback_not_callable"

(* call_fn_value: fuel (F3), depth, callee, arity, then the frame with the  *)
(* function itself in slot 0.                                               *)
NativeCall ==
    /\ Running /\ NativeTurn
    /\ LET n == Last(natives)
           item == n.items[n.at + 1]
           e == CallError(n.func, 1)
       IN  /\ n.at < Len(n.items)
           /\ CASE fuel >= TotalFuel -> Raise("step_limit")
                [] fuel < TotalFuel /\ ActiveUserFrames >= MaxUserCallDepth ->
                      RaiseAfter("call_depth_limit", 1)
                [] fuel < TotalFuel /\ ActiveUserFrames < MaxUserCallDepth
                     /\ e # "none" -> RaiseAfter(CallbackError(e), 1)
                [] OTHER ->
                   PushFrame(n.func, Len(stack), stack \o <<n.func, item>>, 1,
                             [natives EXCEPT ![Len(natives)] =
                                [n EXCEPT !.acc = Collected(n), !.at = @ + 1, !.answer = <<>>]])

-----------------------------------------------------------------------------
Next ==
    \/ StartLine \/ EndLine
    \/ LoadConst \/ GetLocal \/ GetUpvalue \/ GetGlobal
    \/ SetLocal \/ SetUpvalue \/ SetGlobal \/ RequireGlobal \/ RegisterGlobal
    \/ Pop \/ PopN \/ BinaryOp \/ Equality \/ Not \/ Negate
    \/ Jump \/ JumpIfFalse \/ JumpKeep \/ JumpIfGlobalDefined \/ Loop
    \/ PrepareCall \/ ValidateCall \/ Call_ \/ ReturnValue \/ MakeClosure
    \/ SetupTry \/ TeardownTry
    \/ LenLocal \/ IndexOp \/ IndexLocal \/ ListPush \/ DictInsert \/ ToIterList
    \/ SetIndex \/ ListPushBinding \/ PopUpdate \/ FStrConcat \/ Print_
    \/ ValidateBuiltinCall \/ CallPure \/ CallExit \/ CallHigherOrder
    \/ NativeDone \/ NativeCall

Done == ~Running /\ line > Len(Script)
=============================================================================
