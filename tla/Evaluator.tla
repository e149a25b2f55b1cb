------------------------------ MODULE Evaluator -------------------------------
(***************************************************************************)
(* The tree evaluator of src/src/eval.rs and builtin.rs.  Its state is a   *)
(* record (the fields of Evaluator and Env that a script can see), and     *)
(* every function of the code is an operator from such a record to the     *)
(* next.  The Rust recursion of eval_expr and of calls inside expressions  *)
(* is TLA+ recursion; the driver, its frames and its yields are the frame  *)
(* stack of the code.  An error, a return, a break or a continue on its    *)
(* way out is in the fields err and flow, the value at hand in val.        *)
(***************************************************************************)
EXTENDS Values

CONSTANTS TotalFuel,       \* BudgetLimits::total_fuel
          MaxUserCallDepth \* limits.rs:22

CooperativeNames == {"fetch"}  \* its adapter always answers later
HostNames        == {"peek"}   \* its callback answers at once

NewContext ==
    [frames |-> <<>>, scopes |-> << <<>> >>, base |-> 1, cells |-> <<>>, depth |-> 0,
     fuel |-> 0, slice |-> 0, ids |-> 0, out |-> <<>>,
     err |-> "none", flow |-> "none", val |-> NullV,
     can |-> FALSE,      \* can_yield_ctx
     waits |-> FALSE,    \* yield_for_host_call
     resumed |-> <<>>,   \* resumed_host_call
     starts |-> <<>>]    \* the arguments of every start of an adapter

Fine(s)      == s.err = "none"
Throw(s, e)  == [s EXCEPT !.err = e]
Val(s, v)    == [s EXCEPT !.val = v]
Result(s, r) == IF r.ok THEN Val(s, r.v) ELSE Throw(s, r.e)
Then(s, Op(_)) == IF Fine(s) THEN Op(s) ELSE s

CountStep(s) == IF s.fuel >= TotalFuel THEN Throw(s, "step_limit")
                ELSE [s EXCEPT !.fuel = @ + 1, !.slice = @ + 1]

(* charge_fuel of the ledger, node by node: the slice does not count it, and *)
(* what was left is spent when the limit comes in between.                  *)
ChargeNodes(s, n) == IF s.fuel + n > TotalFuel
                     THEN Throw([s EXCEPT !.fuel = TotalFuel], "step_limit")
                     ELSE [s EXCEPT !.fuel = @ + n]
Rendered(s, v) == ChargeNodes(s, CompositeNodes(v))

-----------------------------------------------------------------------------
(* Env: scopes of name -> cell.  A function sees the scopes from its own    *)
(* base and the global one.                                                 *)

CellAt(s, name) ==
    LET seen == {i \in {1} \union s.base..Len(s.scopes) : name \in DOMAIN s.scopes[i]}
    IN  IF seen = {} THEN 0 ELSE s.scopes[MaxOf(seen)][name]

PushScope(s)      == [s EXCEPT !.scopes = Append(@, <<>>)]
Truncate(s, n)    == [s EXCEPT !.scopes = SubSeq(@, 1, IF n < Len(@) THEN n ELSE Len(@))]
SetShared(s, name, c) == [s EXCEPT !.scopes[Len(s.scopes)] = Insert(@, name, c)]
SetVar(s, name, v) ==
    SetShared([s EXCEPT !.cells = Append(@, v)], name, Len(s.cells) + 1)
Update(s, name, v) ==
    IF CellAt(s, name) = 0 THEN Throw(s, "assign_undefined")
    ELSE [s EXCEPT !.cells[CellAt(s, name)] = v]
Lookup(s, name) ==
    IF CellAt(s, name) = 0 THEN Throw(s, "undefined_name")
    ELSE Val(s, s.cells[CellAt(s, name)])

(* capture_referenced *)
Captured(s, body) ==
    [name \in {n \in ReferencedNames(body) : CellAt(s, n) # 0} |-> CellAt(s, name)]

PushCall(s) ==
    [s EXCEPT !.scopes = Append(@, <<>>), !.base = Len(s.scopes) + 1, !.depth = @ + 1]
PopCall(s, saved) == [Truncate(s, saved.len) EXCEPT !.base = saved.base, !.depth = @ - 1]

Closure(s, name, params, body) ==
    Val([s EXCEPT !.ids = @ + 1],
        [t |-> "fn", id |-> s.ids + 1, name |-> name, params |-> params, body |-> body,
         captured |-> Captured(s, body)])

-----------------------------------------------------------------------------
(* Frames *)

PushFrame(s, f) == [s EXCEPT !.frames = Append(@, f)]
Block(s, kind, stmts) ==
    [k |-> kind, stmts |-> stmts, cursor |-> 0, scope |-> Len(s.scopes)]

PopFrame(s) ==
    LET f == Last(s.frames)
        t == [s EXCEPT !.frames = Front(@)]
    IN  IF f.k = "call" THEN PopCall(t, f.saved) ELSE Truncate(t, f.scope)

(* unwind_to *)
Unwind(s, stop) == FoldLeft(LAMBDA t, i : PopFrame(t), s, [i \in 1..(Len(s.frames) - stop) |-> i])

EnterScoped(s, stmts) == PushScope(PushFrame(s, Block(s, "scoped", stmts)))
EnterTry(s, st) ==
    PushScope(PushFrame(s, Block(s, "try", st.body) @@
                           [var |-> st.var, handler |-> st.handler]))
EnterLoop(s, st, items) ==
    PushFrame(s, Block(s, st.k, <<>>) @@
                 [stmt |-> st, items |-> items, at |-> 0, pending |-> FALSE])

(* One round of a loop: a scope of its own, in a for loop with its item.    *)
BeginIteration(s, body) == PushScope(PushFrame(s, Block(s, "block", body)))

(* Where a call inside an expression returns to: the Rust caller.           *)
NoDest == [d |-> "caller"]
CallFrame(s, fn, saved, dest) ==
    PushFrame(s, Block(s, "call", fn.body) @@ [saved |-> saved, dest |-> dest])
DriverCalls(s, stop) ==
    {i \in (stop + 1)..Len(s.frames) : s.frames[i].k = "call" /\ s.frames[i].dest # NoDest}

ExprFrame(s, e, dest) ==
    PushFrame(s, Block(s, "expr", <<>>) @@
        [node |-> e, dest |-> dest, operands |-> <<>>, started |-> FALSE, checked |-> FALSE,
         target |-> "none", cell |-> 0, item |-> 0, map |-> <<>>, key |-> <<>>,
         text |-> <<>>])
Top(s)           == Last(s.frames)
SetTop(s, f)     == [s EXCEPT !.frames[Len(s.frames)] = f]
PushOperand(s, v) == SetTop(s, [Top(s) EXCEPT !.operands = Append(@, v)])

-----------------------------------------------------------------------------
(* eval_binop, eval_unary and eval_index *)

Arithmetic(op, a, b) ==
    CASE op = "+" -> Checked(a + b)
      [] op = "-" -> Checked(a - b)
      [] op = "*" -> Checked(a * b)
      [] op \in {"/", "%"} /\ b = 0 -> Err("zero_division")
      [] op = "/" /\ b # 0 -> Checked(Quotient(a, b))
      [] op = "%" /\ b # 0 -> IF a = MinInt /\ b = -1 THEN Err("int_overflow")
                              ELSE Ok(IntV(Remainder(a, b)))

BinOp(op, l, r) ==
    CASE op \in {"+", "-", "*", "/", "%"} /\ l.t = "int" /\ r.t = "int" ->
            Arithmetic(op, l.n, r.n)
      [] op = "+" /\ <<l.t, r.t>> \in {<<"str", "str">>, <<"str", "error">>, <<"error", "str">>} ->
            Ok(StrV(Text(l) \o Text(r)))
      [] op \in {"<", ">", "<=", ">="} -> Relational(op, l, r)
      [] OTHER -> Err("arithmetic_type")

(* eval_binop: an equality charges for the nodes that it compares.          *)
Operate(s, op, l, r) ==
    LET c == Compare(l, r)
    IN  IF op \notin {"==", "!="} THEN Result(s, BinOp(op, l, r))
        ELSE Then(ChargeNodes(s, c.nodes), LAMBDA t : Val(t, BoolV(c.equal = (op = "=="))))

UnOp(op, v) ==
    CASE op = "not" -> Ok(BoolV(~IsTruthy(v)))
      [] op = "-" /\ v.t = "int" -> Checked(-v.n)
      [] OTHER -> Err("unary_type")

IndexOf(c, i) ==
    CASE c.t = "list" ->
           IF i.t # "int" THEN Err("list_index_type")
           ELSE IF At(i.n, Len(c.items)) \notin 0..(Len(c.items) - 1)
           THEN Err("list_index_out_of_range") ELSE Ok(c.items[At(i.n, Len(c.items)) + 1])
      [] c.t = "str" ->
           IF i.t # "int" THEN Err("str_index_type")
           ELSE IF At(i.n, Len(c.s)) \notin 0..(Len(c.s) - 1)
           THEN Err("str_index_out_of_range") ELSE Ok(StrV(<<c.s[At(i.n, Len(c.s)) + 1]>>))
      [] c.t \in {"dict", "error"} /\ i.t # "str" -> Err("dict_key_type")
      [] c.t = "dict" /\ i.t = "str" -> Ok(IF i.s \in DOMAIN c.map THEN c.map[i.s] ELSE NullV)
      [] c.t = "error" /\ i.t = "str" -> Ok(IF i.s = <<"type">> THEN StrV(<<c.e>>) ELSE NullV)
      [] OTHER -> Err("index_read_unsupported")

-----------------------------------------------------------------------------
(* Calls *)

(* begin_user_call: fuel, then depth *)
BeginUserCall(s) ==
    LET c == CountStep(s)
    IN  IF Fine(c) /\ c.depth >= MaxUserCallDepth THEN Throw(c, "call_depth_limit") ELSE c

CheckUserCallee(s, fn, count) ==
    CASE fn.t # "fn" -> Throw(s, "not_callable")
      [] fn.t = "fn" /\ Len(fn.params) # count -> Throw(s, "user_arity")
      [] OTHER -> s

(* bind_user_call: the captured cells, the function under its own name, the *)
(* parameters, in a scope that hides the caller's.                          *)
BindUserCall(s, fn, args) ==
    LET shared == [PushCall(s) EXCEPT !.scopes[Len(s.scopes) + 1] = fn.captured]
        self   == IF fn.name = "<lambda>" THEN shared ELSE SetVar(shared, fn.name, fn)
    IN  FoldLeft(LAMBDA t, i : SetVar(t, fn.params[i], args[i]), self,
                 [i \in DOMAIN args |-> i])
Saved(s) == [len |-> Len(s.scopes), base |-> s.base]

(* start_cooperative_call: the adapter is started; its answer comes later,  *)
(* which only a statement of the top level may wait for.                    *)
StartCooperative(s, name, args) ==
    LET t == [s EXCEPT !.starts = Append(@, args)]
    IN  IF s.can /\ DriverCalls(s, 0) = {} THEN [Throw(t, "pending") EXCEPT !.waits = TRUE]
        ELSE Throw(t, "internal_control")

(* finish_cooperative_result: the stored answer, once. *)
TakeResumed(s) == Val([s EXCEPT !.resumed = <<>>], s.resumed[1])

ApplyPush(s, cell, v) ==
    LET r == Pushed(s.cells[cell], v)
    IN  IF r.ok THEN Val([s EXCEPT !.cells[cell] = r.v], NullV) ELSE Throw(s, r.e)

ApplyPrint(s, args) ==
    Val([s EXCEPT !.out = Append(@, [i \in DOMAIN args |-> Shown(args[i])])], NullV)

PopVar(s, name) ==
    LET cell == CellAt(s, name)
        r    == BuiltinPop(s.cells[cell])
    IN  IF cell = 0 THEN Throw(s, "undefined_name")
        ELSE IF ~r.ok THEN Throw(s, r.e)
        ELSE Val([s EXCEPT !.cells[cell].items = Front(@)], r.v)

-----------------------------------------------------------------------------
RECURSIVE Eval(_, _), Drive(_, _)

(* The values of expressions, from left to right, as a sequence. *)
EvalAll(s, exprs) ==
    FoldLeft(LAMBDA t, e :
               Then(t, LAMBDA u : LET r == Eval(u, e)
                                  IN  IF Fine(r) THEN Val(r, Append(u.val, r.val)) ELSE r),
             Val(s, <<>>), exprs)

(* The elements of a list literal are counted as they come. *)
EvalList(s, items) ==
    FoldLeft(LAMBDA t, e :
               Then(t, LAMBDA u :
                 LET r == Eval(u, e)
                 IN  IF ~Fine(r) THEN r
                     ELSE IF ~CheckCollection(Len(u.val) + 1) THEN Throw(r, "collection_limit")
                     ELSE Val(r, Append(u.val, r.val))),
             Val(s, <<>>), items)

(* An entry of a dictionary literal: key, its type, value, size, insertion. *)
EvalDict(s, pairs) ==
    FoldLeft(LAMBDA t, p :
               Then(t, LAMBDA u :
                 LET k == Eval(u, p[1])
                     v == Eval(k, p[2])
                     m == u.val
                 IN  IF ~Fine(k) THEN k
                     ELSE IF k.val.t # "str" THEN Throw(k, "dict_key_type")
                     ELSE IF ~Fine(v) THEN v
                     ELSE IF /\ k.val.s \notin DOMAIN m
                             /\ ~CheckCollection(Cardinality(DOMAIN m) + 1)
                     THEN Throw(v, "collection_limit")
                     ELSE Val(v, Insert(m, k.val.s, v.val))),
             Val(s, <<>>), pairs)

EvalFStr(s, parts) ==
    FoldLeft(LAMBDA t, p :
               Then(t, LAMBDA u :
                 LET r == Eval(u, p)
                 IN  IF p.k = "lit" THEN Val(u, u.val \o p.s)
                     ELSE Then(r, LAMBDA w : Val(Rendered(w, w.val), u.val \o Text(w.val)))),
             Val(s, <<>>), parts)

(* The arguments of print are rendered as they come. *)
EvalPrinted(s, args) ==
    FoldLeft(LAMBDA t, e :
               Then(t, LAMBDA u : Then(Eval(u, e), LAMBDA w :
                                    Val(Rendered(w, w.val), Append(u.val, w.val)))),
             Val(s, <<>>), args)

(* drive_call_body: a call inside an expression runs to its end and cannot  *)
(* yield.                                                                   *)
RunBody(s, fn, saved) ==
    LET r == Drive([CallFrame(s, fn, saved, NoDest) EXCEPT !.can = FALSE], Len(s.frames))
        t == [r EXCEPT !.can = s.can, !.flow = "none"]
    IN  CASE ~Fine(r) -> t
          [] Fine(r) /\ r.flow = "return" -> t
          [] Fine(r) /\ r.flow = "none"   -> Val(t, NullV)
          [] Fine(r) /\ r.flow = "break"  -> Throw(t, "break_outside_loop")
          [] Fine(r) /\ r.flow = "continue" -> Throw(t, "continue_outside_loop")

(* call_fn_value: one callback of map, filter or each *)
Callback(s, fn, item) ==
    LET c == BeginUserCall(s)
    IN  IF ~Fine(c) THEN c
        ELSE IF fn.t # "fn" THEN Throw(c, "callback_not_callable")
        ELSE IF Len(fn.params) # 1 THEN Throw(c, "callback_arity")
        ELSE RunBody(BindUserCall(c, fn, <<item>>), fn, Saved(c))

HigherOrder(s, name, list, fn) ==
    LET keep(acc, item, answer) ==
            IF name = "map" THEN Append(acc, answer)
            ELSE IF name = "filter" /\ IsTruthy(answer) THEN Append(acc, item) ELSE acc
        all == FoldLeft(LAMBDA t, item :
                          Then(t, LAMBDA u : LET r == Callback(u, fn, item)
                                             IN  IF Fine(r) THEN Val(r, keep(u.val, item, r.val))
                                                 ELSE r),
                        Val(s, <<>>), list.items)
    IN  IF list.t # "list" THEN Throw(s, "builtin_arg_type")
        ELSE IF Fine(all) THEN Val(all, IF name = "each" THEN NullV ELSE ListV(all.val))
        ELSE all

(* eval_builtin: a name that is not bound and that is a builtin *)
EvalBuiltin(s, name, args) ==
    LET ident == args # <<>> /\ args[1].k = "id"
        e     == IF name \in ContextBuiltins THEN ValidateContextCall(name, Len(args), ident)
                 ELSE "none"
        vs    == IF name = "print" THEN EvalPrinted(s, args) ELSE EvalAll(s, args)
        cell  == IF ident THEN CellAt(s, args[1].name) ELSE 0
    IN  CASE e # "none" -> Throw(s, e)
          [] e = "none" /\ name = "push" ->
               IF cell = 0 THEN Throw(s, "undefined_name")
               ELSE Then(Eval(s, args[2]), LAMBDA t : ApplyPush(t, cell, t.val))
          [] e = "none" /\ name = "pop" -> PopVar(s, args[1].name)
          [] name = "len" /\ Len(args) = 1 /\ cell # 0 ->
               Result(s, BuiltinLen(s.cells[cell]))
          [] OTHER -> Then(vs, LAMBDA t :
               CASE name = "print" -> ApplyPrint(t, t.val)
                 [] name = "exit"  -> Throw(t, ExitSignal(t.val))
                 [] name \in {"map", "filter", "each"} -> HigherOrder(t, name, t.val[1], t.val[2])
                 [] OTHER -> Result(t, Pure(name, t.val)))

(* prepare_call: the callee is resolved, binding first; a builtin or a host *)
(* function has its value, a user function its scope and saved the way back.*)
PrepareCall(s, e) ==
    LET name  == IF e.callee.k = "id" /\ CellAt(s, e.callee.name) = 0
                 THEN e.callee.name ELSE "bound"
        done(t) == [s |-> t, fn |-> NullV, saved |-> <<>>]
        paid  == CountStep(s)
        host  == Then(paid, LAMBDA t : EvalAll(t, e.args))
        begun == BeginUserCall(s)
        fn    == Then(begun, LAMBDA t : Eval(t, e.callee))
        ok    == Then(fn, LAMBDA t : CheckUserCallee(t, t.val, Len(e.args)))
        args  == Then(ok, LAMBDA t : EvalAll(t, e.args))
    IN  CASE name = "print" \/ name \in Builtins -> done(EvalBuiltin(s, name, e.args))
          [] name \in CooperativeNames /\ s.resumed # <<>> -> done(TakeResumed(s))
          [] name \in CooperativeNames /\ s.resumed = <<>> ->
               done(Then(host, LAMBDA t : StartCooperative(t, name, t.val)))
          [] name \in HostNames -> done(Then(host, LAMBDA t : Val(t, NullV)))
          [] OTHER -> IF ~Fine(args) THEN done(args)
                      ELSE [s |-> BindUserCall(args, fn.val, args.val), fn |-> fn.val,
                            saved |-> Saved(args)]

EvalCall(s, e) ==
    LET p == PrepareCall(s, e)
    IN  IF p.fn = NullV THEN p.s ELSE RunBody(p.s, p.fn, p.saved)

(* and and or stop at the left operand that decides. *)
EvalBin(s, e) ==
    LET l == Eval(s, e.left)
        r == Eval(l, e.right)
    IN  IF ~Fine(l) THEN l
        ELSE IF e.op \in {"and", "or"}
        THEN IF IsTruthy(l.val) = (e.op = "or") THEN l ELSE r
        ELSE Then(r, LAMBDA t : Operate(t, e.op, l.val, t.val))

(* A bound collection is read where it is when the index has no effect.     *)
EvalIndex(s, e) ==
    LET inPlace == /\ e.object.k = "id" /\ IsSideEffectFree(e.index)
                   /\ CellAt(s, e.object.name) # 0
        i  == Eval(s, e.index)
        vs == EvalAll(s, <<e.object, e.index>>)
    IN  IF inPlace
        THEN Then(i, LAMBDA t : Result(t, IndexOf(t.cells[CellAt(t, e.object.name)], t.val)))
        ELSE Then(vs, LAMBDA t : Result(t, IndexOf(t.val[1], t.val[2])))

Eval(s, e) ==
    CASE e.k = "int"  -> Val(s, IntV(e.n))
      [] e.k = "str"  -> Val(s, StrV(e.s))
      [] e.k = "bool" -> Val(s, BoolV(e.b))
      [] e.k = "null" -> Val(s, NullV)
      [] e.k = "id"   -> Lookup(s, e.name)
      [] e.k = "list" -> Then(EvalList(s, e.items), LAMBDA t : Val(t, ListV(t.val)))
      [] e.k = "dict" -> Then(EvalDict(s, e.pairs), LAMBDA t : Val(t, DictV(t.val)))
      [] e.k = "fstr" -> Then(EvalFStr(s, e.parts), LAMBDA t : Val(t, StrV(t.val)))
      [] e.k = "un"   -> Then(Eval(s, e.expr), LAMBDA t : Result(t, UnOp(e.op, t.val)))
      [] e.k = "lambda" -> Closure(s, "<lambda>", e.params, e.body)
      [] e.k = "bin"   -> EvalBin(s, e)
      [] e.k = "index" -> EvalIndex(s, e)
      [] e.k = "call"  -> EvalCall(s, e)

-----------------------------------------------------------------------------
(* Expression frames *)

(* resolve_call_target: what an unbound callee with evaluated arguments is. *)
CallTarget(name) ==
    CASE name \in {"print", "exit", "push"} \union PureBuiltins -> "builtin"
      [] name \in CooperativeNames -> "cooperative"
      [] name \in HostNames        -> "host"
      [] OTHER                     -> "none"

Unbound(s, callee) == callee.k = "id" /\ CellAt(s, callee.name) = 0

(* needs_expr_frame *)
NeedsExprFrame(s, e) ==
    /\ ContainsCall(e)
    /\ CASE e.k = "call" /\ Unbound(s, e.callee) ->
              /\ \E i \in DOMAIN e.args : ContainsCall(e.args[i])
              /\ CallTarget(e.callee.name) # "none"
         [] e.k = "call" /\ ~Unbound(s, e.callee) -> TRUE
         [] OTHER -> e.k \in {"bin", "un", "index", "list", "dict", "fstr"}

(* begin_expr_child *)
BeginChild(s, e) ==
    IF NeedsExprFrame(s, e) THEN ExprFrame(s, e, [d |-> "operand"])
    ELSE Then(Eval(s, e), LAMBDA t : PushOperand(t, t.val))

RECURSIVE Deliver(_, _, _)

(* finish_expr_frame *)
FinishExpr(s, v) ==
    LET f == Top(s)
    IN  Deliver(Truncate([s EXCEPT !.frames = Front(@)], f.scope), f.dest, v)

FinishWith(s, r) == IF r.ok THEN FinishExpr(s, r.v) ELSE Throw(s, r.e)

(* A statement's expression: a call on the driver (e1), an expression       *)
(* frame, or a value at once, which goes where the statement wants it.      *)
ValueDests == {"let", "assign", "ret", "expr"}
PlainCall(e) ==
    e.k = "call" /\ \A c \in ToSet(Parts(e)) : ~ContainsCall(c)

Slot(s, e, dest) ==
    LET p == PrepareCall(s, e)
        r == Eval(s, e)
    IN  IF s.can /\ dest.d \in ValueDests /\ PlainCall(e)
        THEN IF p.fn # NullV THEN CallFrame(p.s, p.fn, p.saved, dest)
             ELSE Then(p.s, LAMBDA t : Deliver(t, dest, t.val))
        ELSE IF s.can /\ NeedsExprFrame(s, e) THEN ExprFrame(s, e, dest)
        ELSE Then(r, LAMBDA t : Deliver(t, dest, t.val))

(* deliver_call_result and deliver_slot_result: what the statement does     *)
(* with the value of its expression.                                        *)
Deliver(s, dest, v) ==
    CASE dest.d = "expr"    -> s
      [] dest.d = "let"     -> SetVar(s, dest.stmt.name, v)
      [] dest.d = "assign"  -> Update(s, dest.stmt.name, v)
      [] dest.d = "ret"     -> [Val(s, v) EXCEPT !.flow = "return"]
      [] dest.d = "operand" -> PushOperand(s, v)
      [] dest.d = "result"  -> FinishExpr(s, v)
      [] dest.d = "if"      ->
            EnterScoped(s, IF IsTruthy(v) THEN dest.stmt.then ELSE dest.stmt.else)
      [] dest.d = "while"   -> IF IsTruthy(v) THEN EnterLoop(s, dest.stmt, <<>>) ELSE s
      [] dest.d = "again"   ->
            IF IsTruthy(v)
            THEN BeginIteration(SetTop(s, [Top(s) EXCEPT !.pending = TRUE]), dest.stmt.body)
            ELSE PopFrame(s)
      [] dest.d = "for"     ->
            LET items == IterItems(v)
            IN  CASE ~items.ok -> Throw(s, items.e)
                  [] items.ok /\ items.v.items = <<>> -> s
                  [] OTHER -> EnterLoop(s, dest.stmt, items.v.items)
      [] dest.d = "index"   ->
            Slot(s, dest.stmt.value,
                 [d |-> "value", stmt |-> dest.stmt, cell |-> dest.cell, index |-> v])
      [] dest.d = "value"   ->
            LET r == AssignIndex(s.cells[dest.cell], dest.index, v)
            IN  IF r.ok THEN [s EXCEPT !.cells[dest.cell] = r.v] ELSE Throw(s, r.e)

(* step_target_call: a builtin or a host function whose arguments contain   *)
(* calls, one argument at a time.                                           *)
StartTarget(s, f) ==
    LET name == f.node.callee.name
        args == f.node.args
        ident == args # <<>> /\ args[1].k = "id"
        e    == IF name \in ContextBuiltins THEN ValidateContextCall(name, Len(args), ident)
                ELSE "none"
        on   == SetTop(s, [f EXCEPT !.started = TRUE])
    IN  CASE f.target = "builtin" /\ e # "none" -> Throw(on, e)
          [] f.target = "builtin" /\ e = "none" /\ name = "push" ->
               IF CellAt(s, args[1].name) = 0 THEN Throw(on, "undefined_name")
               ELSE SetTop(on, [Top(on) EXCEPT !.cell = CellAt(s, args[1].name)])
          [] f.target \in {"host", "cooperative"} -> CountStep(on)
          [] OTHER -> on

ApplyTarget(s, f) ==
    LET name == f.node.callee.name
        vs   == f.operands
    IN  CASE name = "print" -> ApplyPrint(s, vs)
          [] name = "push"  -> ApplyPush(s, f.cell, vs[1])
          [] name = "exit"  -> Throw(s, ExitSignal(vs))
          [] name \in CooperativeNames -> StartCooperative(s, name, vs)
          [] name \in HostNames -> Val(s, NullV)
          [] OTHER -> Result(s, Pure(name, vs))

StepTarget(s, f) ==
    LET came == f.started /\ f.node.callee.name = "print" /\ f.operands # <<>>
        t == IF ~f.started THEN StartTarget(s, f)
             ELSE IF came THEN Rendered(s, Last(f.operands)) ELSE s
        g == Top(t)
        next == Len(g.operands) + (IF f.node.callee.name = "push" THEN 1 ELSE 0)
    IN  IF ~f.started /\ f.target = "cooperative" /\ s.resumed # <<>>
        THEN FinishExpr(TakeResumed(s), s.resumed[1])
        ELSE IF ~Fine(t) THEN t
        ELSE IF next < Len(g.node.args) THEN BeginChild(t, g.node.args[next + 1])
        ELSE Then(ApplyTarget(t, g), LAMBDA u : FinishExpr(u, u.val))

(* The steps of a call of a user function: fuel and depth, callee, checks,  *)
(* arguments from left to right, the call on the driver.                    *)
StepUserCall(s, f) ==
    LET e      == f.node
        begun  == BeginUserCall(s)
        on     == SetTop(begun, [f EXCEPT !.started = TRUE])
        callee == Lookup(on, e.callee.name)
        ready  == IF f.started THEN s ELSE PushOperand(callee, callee.val)
        ok     == IF f.checked THEN ready
                  ELSE LET c == CheckUserCallee(ready, Top(ready).operands[1], Len(e.args))
                       IN  IF Fine(c) THEN SetTop(c, [Top(c) EXCEPT !.checked = TRUE]) ELSE c
        vs     == Top(ok).operands
    IN  CASE ~f.started /\ ~Fine(begun) -> begun
          [] ~f.started /\ Fine(begun) /\ e.callee.k # "id" -> BeginChild(on, Child(e, 0))
          [] ~f.started /\ Fine(begun) /\ e.callee.k = "id" /\ ~Fine(callee) -> callee
          [] OTHER ->
               IF ~Fine(ok) THEN ok
               ELSE IF Len(vs) <= Len(e.args) THEN BeginChild(ok, Child(e, Len(vs)))
               ELSE CallFrame(BindUserCall(SetTop(ok, [Top(ok) EXCEPT !.operands = <<>>]),
                                           vs[1], Tail(vs)),
                              vs[1], Saved(ok), [d |-> "result"])

StepCall(s, f) ==
    LET target == IF ~f.started /\ Unbound(s, f.node.callee)
                  THEN CallTarget(f.node.callee.name) ELSE f.target
        g == [f EXCEPT !.target = target]
    IN  IF target # "none" THEN StepTarget(SetTop(s, g), g) ELSE StepUserCall(s, f)

StepBin(s, f) ==
    LET e  == f.node
        vs == f.operands
        logical == e.op \in {"and", "or"}
    IN  CASE vs = <<>> -> BeginChild(s, Child(e, 0))
          [] Len(vs) = 1 /\ logical /\ IsTruthy(vs[1]) = (e.op = "or") -> FinishExpr(s, vs[1])
          [] Len(vs) = 1 /\ ~(logical /\ IsTruthy(vs[1]) = (e.op = "or")) ->
               BeginChild(s, Child(e, 1))
          [] Len(vs) = 2 /\ logical  -> FinishExpr(s, vs[2])
          [] Len(vs) = 2 /\ ~logical ->
               Then(Operate(s, e.op, vs[1], vs[2]), LAMBDA t : FinishExpr(t, t.val))

StepList(s, f) ==
    LET n == Len(f.operands)
    IN  IF n > 0 /\ ~CheckCollection(n) THEN Throw(s, "collection_limit")
        ELSE IF n < Len(f.node.items) THEN BeginChild(s, Child(f.node, n))
        ELSE FinishExpr(s, ListV(f.operands))

(* A key, its type, then the value and the insertion. *)
StepDict(s, f) ==
    LET v == f.operands[1]
        m == Insert(f.map, f.key[1], v)
    IN  IF f.operands = <<>>
        THEN BeginChild(s, Child(f.node, 2 * f.item + Len(f.key)))
        ELSE IF f.key = <<>>
        THEN IF v.t # "str" THEN Throw(s, "dict_key_type")
             ELSE SetTop(s, [f EXCEPT !.key = <<v.s>>, !.operands = <<>>])
        ELSE IF f.key[1] \notin DOMAIN f.map /\ ~CheckCollection(Cardinality(DOMAIN f.map) + 1)
        THEN Throw(s, "collection_limit")
        ELSE IF f.item + 1 = Len(f.node.pairs) THEN FinishExpr(s, DictV(m))
        ELSE SetTop(s, [f EXCEPT !.key = <<>>, !.operands = <<>>, !.map = m, !.item = @ + 1])

(* The value that came is rendered, the literal parts follow, then the next *)
(* expression part is evaluated.                                            *)
StepFStr(s, f) ==
    LET parts == f.node.parts
        exprs == {i \in (f.item + 1)..Len(parts) : parts[i].k # "lit"}
        next  == IF exprs = {} THEN Len(parts) + 1 ELSE CHOOSE i \in exprs : \A j \in exprs : i <= j
        said  == IF f.operands = <<>> THEN f.text ELSE f.text \o Text(f.operands[1])
        text  == said \o FlattenSeq([i \in 1..(next - 1 - f.item) |-> parts[f.item + i].s])
        on    == IF f.operands = <<>> THEN s ELSE Rendered(s, f.operands[1])
    IN  Then(on, LAMBDA t :
          IF next > Len(parts) THEN FinishExpr(t, StrV(text))
          ELSE BeginChild(SetTop(t, [f EXCEPT !.text = text, !.item = next, !.operands = <<>>]),
                          Child(f.node, next - 1)))

StepExpr(s) ==
    LET f == Top(s)
        e == f.node
        n == Len(f.operands)
    IN  CASE e.k = "call" -> StepCall(s, f)
          [] e.k = "bin"  -> StepBin(s, f)
          [] e.k = "un"   -> IF n = 0 THEN BeginChild(s, Child(e, 0))
                             ELSE FinishWith(s, UnOp(e.op, f.operands[1]))
          [] e.k = "index" -> IF n < 2 THEN BeginChild(s, Child(e, n))
                              ELSE FinishWith(s, IndexOf(f.operands[1], f.operands[2]))
          [] e.k = "list" -> StepList(s, f)
          [] e.k = "dict" -> StepDict(s, f)
          [] e.k = "fstr" -> StepFStr(s, f)

-----------------------------------------------------------------------------
(* Statements and the driver *)

(* exec_stmt *)
ExecStmt(s, st) ==
    CASE st.k = "fn"  -> LET c == Closure(s, st.name, st.params, st.body)
                         IN  SetVar(c, st.name, c.val)
      [] st.k \in {"break", "continue"} -> [s EXCEPT !.flow = st.k]
      [] st.k = "try" -> EnterTry(s, st)
      [] st.k = "iassign" ->
            IF CellAt(s, st.name) = 0 THEN Throw(s, "undefined_name")
            ELSE Slot(s, st.index, [d |-> "index", stmt |-> st, cell |-> CellAt(s, st.name)])
      [] OTHER -> Slot(s, Parts(st)[1], [d |-> st.k, stmt |-> st])

(* advance_frame: a frame whose statements are done.  A loop pays for the   *)
(* round behind it and begins the next or ends; any other frame goes.       *)
AdvanceFrame(s) ==
    LET f    == Top(s)
        idle == SetTop(s, [f EXCEPT !.pending = FALSE])
        paid == IF f.pending THEN CountStep(idle) ELSE idle
        item == SetTop(paid, [Top(paid) EXCEPT !.pending = TRUE, !.at = @ + 1])
    IN  CASE f.k \notin {"while", "for"} -> PopFrame(s)
          [] f.k = "while" ->
               Then(paid, LAMBDA t : Slot(t, f.stmt.condition, [d |-> "again", stmt |-> f.stmt]))
          [] f.k = "for" ->
               Then(paid, LAMBDA t :
                 IF f.at = Len(f.items) THEN PopFrame(t)
                 ELSE SetVar(BeginIteration(item, f.stmt.body), f.stmt.var, f.items[f.at + 1]))

(* handle_error: the innermost try above stop takes the error. *)
HandleError(s, stop) ==
    LET tries == {i \in (stop + 1)..Len(s.frames) : s.frames[i].k = "try"}
        t == MaxOf(tries)
        f == s.frames[t]
        u == Truncate(Unwind(s, t), f.scope)
        c == SetVar(PushScope([u EXCEPT !.err = "none"]), f.var, ErrorV(s.err))
    IN  IF s.err \in Uncatchable \/ tries = {} THEN Unwind(s, stop)
        ELSE SetTop(c, [k |-> "scoped", stmts |-> f.handler, cursor |-> 0, scope |-> f.scope])

Recover(s, stop) == IF Fine(s) THEN s ELSE HandleError(s, stop)

(* unwind_flow: return goes to the call it is in, break and continue to     *)
(* their loop, at most to a call on the driver.                             *)
RECURSIVE UnwindFlow(_, _)
UnwindFlow(s, stop) ==
    LET kinds == IF s.flow = "return" THEN {"call"} ELSE {"while", "for"}
        marks == {i \in (stop + 1)..Len(s.frames) : s.frames[i].k \in kinds}
                   \union DriverCalls(s, stop)
        at    == MaxOf(marks)
        f     == s.frames[at]
        u     == Unwind(s, at)
        calm  == [u EXCEPT !.flow = "none"]
    IN  CASE marks = {} -> Unwind(s, stop)
          [] marks # {} /\ s.flow = "return" ->
               IF f.dest = NoDest THEN PopFrame(u)
               ELSE LET d == Deliver(PopFrame(calm), f.dest, s.val)
                    IN  IF d.flow = "return" THEN UnwindFlow(d, stop) ELSE d
          [] marks # {} /\ s.flow # "return" /\ f.k = "call" ->
               Throw(PopFrame(calm), s.flow \o "_outside_loop")
          [] marks # {} /\ s.flow = "break" /\ f.k # "call" -> PopFrame(calm)
          [] marks # {} /\ s.flow = "continue" /\ f.k # "call" -> calm

DriveFlow(s, stop) ==
    IF Fine(s) /\ s.flow # "none" THEN Recover(UnwindFlow(s, stop), stop) ELSE s

(* A host call that is pending gives the step up: the statement is begun    *)
(* again when the answer is there.                                          *)
Suspend(s, rewind) ==
    LET f == Top(s)
    IN  [s EXCEPT !.err = "none",
                  !.frames[Len(s.frames)].cursor =
                      IF rewind /\ f.cursor > 0 THEN f.cursor - 1 ELSE f.cursor]

DropExprFrames(s) ==
    LET others == {i \in DOMAIN s.frames : s.frames[i].k # "expr"}
    IN  Unwind(s, MaxOf(others))

(* One round of run_driver_inner for a frame of each kind. *)
DriveExpr(s, stop) ==
    LET r == StepExpr(s)
    IN  IF r.waits THEN Suspend(DropExprFrames(r), TRUE)
        ELSE DriveFlow(Recover(r, stop), stop)

DriveAdvance(s, stop) ==
    LET f == Top(s)
        done == Deliver(PopFrame(s), f.dest, NullV)
        r == IF DriverCalls(s, Len(s.frames) - 1) # {} THEN done ELSE AdvanceFrame(s)
    IN  IF r.waits THEN Suspend(r, FALSE) ELSE DriveFlow(Recover(r, stop), stop)

DriveStmt(s, stop) ==
    LET f == Top(s)
        r == ExecStmt(SetTop(s, [f EXCEPT !.cursor = @ + 1]), f.stmts[f.cursor + 1])
    IN  IF r.waits THEN Suspend(r, TRUE) ELSE DriveFlow(Recover(r, stop), stop)

AtEnd(f) == f.cursor >= Len(f.stmts)
Iterate(s, stop) ==
    CASE Top(s).k = "expr" -> DriveExpr(s, stop)
      [] Top(s).k # "expr" /\ AtEnd(Top(s))  -> DriveAdvance(s, stop)
      [] Top(s).k # "expr" /\ ~AtEnd(Top(s)) -> DriveStmt(s, stop)

Drive(s, stop) == IF Len(s.frames) <= stop THEN s ELSE Drive(Iterate(s, stop), stop)
=============================================================================
