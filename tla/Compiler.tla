------------------------------ MODULE Compiler ------------------------------
(***************************************************************************)
(* The bytecode compiler of src/src/compiler.rs, as functions from a       *)
(* compiler record to the next one.  An instruction is a tuple whose first *)
(* element is the OpCode and whose second is its operand (for a jump its   *)
(* target); addresses, slots and table positions count from 0 as in the    *)
(* code.  Line tables are left out.                                        *)
(***************************************************************************)
EXTENDS Values

NewCompiler ==
    [code |-> <<>>, constants |-> <<>>, prototypes |-> <<>>, maxLocals |-> 0,
     locals |-> <<>>, depth |-> 0, loops |-> <<>>, upvalues |-> <<>>,
     enclosed |-> FALSE, enclosingLocals |-> <<>>, enclosingUpvalues |-> <<>>,
     err |-> "none"]

NewEnclosed(locals, ancestors) ==
    [NewCompiler EXCEPT !.enclosed = TRUE, !.enclosingLocals = locals,
                        !.enclosingUpvalues = ancestors]

Fail(c, e) == [c EXCEPT !.err = e]

(* The chunk a compiler has built. *)
ChunkOf(c) == [code |-> c.code, constants |-> c.constants,
               prototypes |-> c.prototypes, maxLocals |-> c.maxLocals]

-----------------------------------------------------------------------------
(* Chunk building *)

Here(c)           == Len(c.code)
Emit(c, op)       == [c EXCEPT !.code = Append(@, op)]
EmitConstant(c, v) ==
    [c EXCEPT !.constants = Append(@, v),
              !.code = Append(@, <<"LoadConst", Len(c.constants)>>)]

Jumps == {"Jump", "JumpIfFalse", "JumpIfFalseKeep", "JumpIfTrueKeep",
          "JumpIfGlobalDefined"}

(* Chunk::patch_jump: the jump at an offset gets the present end as target. *)
PatchJump(c, offset) ==
    IF offset < Len(c.code) /\ c.code[offset + 1][1] \in Jumps
    THEN [c EXCEPT !.code[offset + 1][2] = Here(c)]
    ELSE Fail(c, "internal")

PatchAll(c, offsets) == FoldLeft(PatchJump, c, offsets)

-----------------------------------------------------------------------------
(* Scopes and names *)

AddLocal(c, name) ==
    [c EXCEPT !.maxLocals = IF @ > Len(c.locals) THEN @ ELSE Len(c.locals) + 1,
              !.locals = Append(@, [name |-> name, depth |-> c.depth])]

(* A binding of the language; at the top level of a script it becomes a     *)
(* global when it runs.                                                     *)
DeclareLocal(c, name) ==
    LET d == AddLocal(c, name)
    IN  IF c.depth = 0 /\ ~c.enclosed
        THEN Emit(d, <<"RegisterGlobal", Len(c.locals), name>>) ELSE d

BeginScope(c) == [c EXCEPT !.depth = @ + 1]

(* Variant: the slots of the scope stay on the stack. *)
EndScopeKeepingSlots(c) ==
    LET kept == SelectSeq(c.locals, LAMBDA l : l.depth < c.depth)
    IN  [c EXCEPT !.depth = @ - 1, !.locals = kept]

EndScope(c) ==
    LET kept == SelectSeq(c.locals, LAMBDA l : l.depth < c.depth)
        gone == Len(c.locals) - Len(kept)
        d    == [c EXCEPT !.depth = @ - 1, !.locals = kept]
    IN  IF gone > 0 THEN Emit(d, <<"PopN", gone>>) ELSE d

(* The last position of a name in a sequence of named entries, or -1. *)
LastNamed(entries, name) ==
    LET at == {i \in DOMAIN entries : entries[i].name = name}
    IN  MaxOf(at) - 1

FirstNamed(entries, name) ==
    LET at == {i \in DOMAIN entries : entries[i].name = name}
    IN  IF at = {} THEN -1 ELSE (CHOOSE i \in at : \A j \in at : i <= j) - 1

ResolveLocal(c, name) == LastNamed(c.locals, name)

(* add_upvalue: the compiler with the capture, and its position. *)
AddUpvalue(c, slot, isLocal, name) ==
    LET same == {i \in DOMAIN c.upvalues : /\ c.upvalues[i].slot = slot
                                           /\ c.upvalues[i].isLocal = isLocal}
    IN  IF same # {}
        THEN [c |-> c, at |-> (CHOOSE i \in same : \A j \in same : i <= j) - 1]
        ELSE [c  |-> [c EXCEPT !.upvalues = Append(@,
                        [slot |-> slot, isLocal |-> isLocal, name |-> name])],
              at |-> Len(c.upvalues)]

(* resolve_upvalue: a local of the enclosing function, else a variable of   *)
(* one further out, which the enclosing function will capture in turn.      *)
ResolveUpvalue(c, name) ==
    LET local  == LastNamed(c.enclosingLocals, name)
        beyond == FirstNamed(c.enclosingUpvalues, name)
    IN  CASE local # -1  -> AddUpvalue(c, local, TRUE, name)
          [] local = -1 /\ beyond # -1 -> AddUpvalue(c, beyond, FALSE, name)
          [] OTHER       -> [c |-> c, at |-> -1]

(* build_ancestor_vars: what a child can reach beyond this function. *)
AncestorVars(c) ==
    LET near == [i \in DOMAIN c.enclosingLocals |->
                    [slot |-> 0, isLocal |-> TRUE, name |-> c.enclosingLocals[i].name]]
    IN  FoldLeft(LAMBDA vars, uv : IF FirstNamed(vars, uv.name) = -1
                                   THEN Append(vars, uv) ELSE vars,
                 near, c.enclosingUpvalues)

(* ensure_upvalue_for_ancestor *)
EnsureUpvalue(c, name) ==
    LET own == FirstNamed(c.upvalues, name)
        up  == ResolveUpvalue(c, name)
    IN  CASE own # -1 -> [c |-> c, at |-> own]
          [] own = -1 /\ up.at # -1 -> up
          [] OTHER -> AddUpvalue(c, 0, FALSE, name)

(* resolve_child_upvalues: the captures of a child that lie beyond this     *)
(* function become captures of this function.                               *)
ResolveChildUpvalues(c, captures) ==
    FoldLeft(LAMBDA acc, uv :
               IF uv.isLocal
               THEN [acc EXCEPT !.captures = Append(@, uv)]
               ELSE LET e == EnsureUpvalue(acc.c, uv.name)
                    IN  [c |-> e.c,
                         captures |-> Append(acc.captures, [uv EXCEPT !.slot = e.at])],
             [c |-> c, captures |-> <<>>], captures)

(* MutationTarget of an index assignment, a push or a pop *)
ResolveTarget(c, name) ==
    LET slot == ResolveLocal(c, name)
        up   == ResolveUpvalue(c, name)
    IN  CASE slot # -1 -> [c |-> c, target |-> <<"Local", slot>>]
          [] slot = -1 /\ up.at # -1 -> [c |-> up.c, target |-> <<"Upvalue", up.at>>]
          [] OTHER -> [c |-> c, target |-> <<"Global", name>>]

(* Undefined globals are reported before the operands are evaluated. *)
RequireTarget(r) ==
    IF r.target[1] = "Global" THEN Emit(r.c, <<"RequireGlobal", r.target[2]>>) ELSE r.c

EmitGetTarget(c, target) == Emit(c, <<"Get" \o target[1], target[2]>>)
EmitSetTarget(c, target) == Emit(c, <<"Set" \o target[1], target[2]>>)

(* compile_name_read; a callee that stays unresolved becomes a global too. *)
NameRead(c, name, global) ==
    LET r == ResolveTarget(c, name)
    IN  IF r.target[1] = "Global" THEN Emit(c, <<global, name>>)
        ELSE EmitGetTarget(r.c, r.target)

-----------------------------------------------------------------------------
RECURSIVE CompileStmt(_, _), CompileExpr(_, _)

CompileBlock(c, body)  == FoldLeft(CompileStmt, c, body)
CompileExprs(c, exprs) == FoldLeft(CompileExpr, c, exprs)

(* A block in a scope of its own *)
CompileScope(c, body) == EndScope(CompileBlock(BeginScope(c), body))

(* The open try blocks of the innermost loop *)
LoopTry(c, delta) ==
    IF c.loops = <<>> THEN c ELSE [c EXCEPT !.loops[Len(c.loops)].tryDepth = @ + delta]

CompileTry(c, s) ==
    LET setup == Here(c)
        body  == CompileScope(LoopTry(Emit(c, <<"SetupTry", 0>>), 1), s.body)
        done  == LoopTry(Emit(body, <<"TeardownTry", 0>>), -1)
        over  == Here(done)
        jump  == Emit(done, <<"Jump", 0>>)
        catch == [jump EXCEPT !.code[setup + 1][2] = Here(jump)]
        hand  == EndScope(CompileBlock(AddLocal(BeginScope(catch), s.var), s.handler))
    IN  PatchJump(hand, over)

CompileIf(c, s) ==
    LET cond == CompileExpr(c, s.condition)
        out  == Here(cond)
        then == CompileScope(Emit(cond, <<"JumpIfFalse", 0>>), s.then)
        over == Here(then)
        els  == CompileScope(PatchJump(Emit(then, <<"Jump", 0>>), out), s.else)
    IN  IF s.else = <<>> THEN PatchJump(then, out) ELSE PatchJump(els, over)

OpenLoop(c, start, resolved) ==
    [c EXCEPT !.loops = Append(@,
        [target |-> start, breaks |-> <<>>, continues |-> <<>>,
         locals |-> Len(c.locals), resolved |-> resolved, tryDepth |-> 0])]

(* The end of a loop: the back edge, the exit and the breaks *)
CloseLoop(c, start, exit) ==
    LET back == PatchJump(Emit(c, <<"Loop", start>>), exit)
    IN  PatchAll([back EXCEPT !.loops = Front(@)], Last(back.loops).breaks)

CompileWhile(c, s) ==
    LET start == Here(c)
        cond  == CompileExpr(OpenLoop(c, start, TRUE), s.condition)
        body  == CompileScope(Emit(cond, <<"JumpIfFalse", 0>>), s.body)
    IN  IF body.err # "none" THEN body ELSE CloseLoop(body, start, Here(cond))

(* The hidden slots of a for loop: the collection, the index, the variable. *)
ForPrologue(c, s) ==
    LET coll == AddLocal(Emit(CompileExpr(BeginScope(c), s.iter), <<"ToIterList", 0>>),
                         "__collection__")
        idx  == AddLocal(EmitConstant(coll, [t |-> "int", n |-> 0]), "__index__")
    IN  AddLocal(EmitConstant(idx, [t |-> "null"]), s.var)

CompileFor(c, s) ==
    LET slot  == Len(c.locals)
        pro   == ForPrologue(c, s)
        start == Here(pro)
        test  == Emit(Emit(Emit(OpenLoop(pro, 0, FALSE), <<"GetLocal", slot + 1>>),
                           <<"LenLocal", slot>>), <<"Lt", 0>>)
        bind  == Emit(Emit(Emit(Emit(test, <<"JumpIfFalse", 0>>), <<"Pop", 0>>),
                           <<"GetLocal", slot + 1>>), <<"IndexLocal", slot>>)
        body  == CompileScope(bind, s.body)
        incr  == PatchAll([body EXCEPT !.loops[Len(body.loops)].target = Here(body)],
                          Last(body.loops).continues)
        one   == Emit(EmitConstant(Emit(incr, <<"GetLocal", slot + 1>>),
                                   [t |-> "int", n |-> 1]), <<"Add", 0>>)
        next  == Emit(Emit(one, <<"SetLocal", slot + 1>>), <<"Pop", 0>>)
    IN  IF body.err # "none" THEN body
        ELSE EndScope(CloseLoop(next, start, Here(test)))

(* break and continue first leave the try blocks and the slots of the body. *)
LeaveLoopBody(c) ==
    LET loop == Last(c.loops)
        torn == [c EXCEPT !.code = @ \o [i \in 1..loop.tryDepth |-> <<"TeardownTry", 0>>]]
        pops == Len(c.locals) - loop.locals
    IN  IF pops > 0 THEN Emit(torn, <<"PopN", pops>>) ELSE torn

CompileBreak(c) ==
    IF c.loops = <<>> THEN Fail(c, "break_outside_loop")
    ELSE LET d == LeaveLoopBody(c)
         IN  [Emit(d, <<"Jump", 0>>) EXCEPT !.loops[Len(c.loops)].breaks =
                                                Append(@, Here(d))]

(* The head of a while loop is known; that of a for loop is still to come. *)
CompileContinue(c) ==
    IF c.loops = <<>> THEN Fail(c, "continue_outside_loop")
    ELSE LET d == LeaveLoopBody(c)
             loop == Last(c.loops)
         IN  IF loop.resolved THEN Emit(d, <<"Loop", loop.target>>)
             ELSE [Emit(d, <<"Jump", 0>>) EXCEPT !.loops[Len(c.loops)].continues =
                                                     Append(@, Here(d))]

-----------------------------------------------------------------------------
(* A function or lambda: its body in a compiler of its own, slot 0 its own  *)
(* name, then the parameters; the captures become explicit descriptors.     *)
CompileBody(c, name, params, body) ==
    LET fresh == FoldLeft(AddLocal, NewEnclosed(c.locals, AncestorVars(c)),
                          <<name>> \o params)
        child == Emit(EmitConstant(CompileBlock(fresh, body), [t |-> "null"]),
                      <<"ReturnValue", 0>>)
        r     == ResolveChildUpvalues(c, child.upvalues)
        proto == [name |-> name, arity |-> Len(params), chunk |-> ChunkOf(child),
                  captures |-> [i \in DOMAIN r.captures |->
                     <<IF r.captures[i].isLocal THEN "Local" ELSE "Upvalue",
                       r.captures[i].slot>>]]
    IN  IF child.err # "none" THEN Fail(c, child.err)
        ELSE Emit([r.c EXCEPT !.prototypes = Append(@, proto)],
                  <<"MakeClosure", Len(c.prototypes)>>)

CompileFnDef(c, s) == DeclareLocal(CompileBody(c, s.name, s.params, s.body), s.name)
CompileLambda(c, e) == CompileBody(c, "<lambda>", e.params, e.body)

CompileUserCall(c, e) ==
    LET pre    == Emit(c, <<"PrepareCall", 0>>)
        callee == IF e.callee.k = "id" THEN NameRead(pre, e.callee.name, "GetGlobalForCall")
                  ELSE CompileExpr(pre, e.callee)
        args   == CompileExprs(Emit(callee, <<"ValidateCall", Len(e.args)>>), e.args)
    IN  Emit(args, <<"Call", Len(e.args)>>)

(* push writes its binding in place; pop reads the list as an argument and  *)
(* then takes the last element off the binding.  A push of one argument     *)
(* indexes past the arguments.                                              *)
CompilePush(c, e) ==
    LET r == ResolveTarget(c, e.args[1].name)
    IN  IF Len(e.args) < 2 THEN Fail(c, "panic")
        ELSE EmitConstant(Emit(CompileExpr(RequireTarget(r), e.args[2]),
                               <<"ListPushBinding", r.target>>), [t |-> "null"])

CompilePop(c, e) ==
    LET r    == ResolveTarget(c, e.args[1].name)
        call == Emit(CompileExprs(r.c, e.args), <<"CallBuiltin", "pop", Len(e.args)>>)
        upd  == Emit(EmitGetTarget(call, r.target), <<"PopUpdate", 0>>)
    IN  Emit(EmitSetTarget(upd, r.target), <<"Pop", 0>>)

CompileBuiltinCall(c, e) ==
    LET name  == e.callee.name
        ident == e.args # <<>> /\ e.args[1].k = "id"
        pre   == IF name \in ContextBuiltins
                 THEN Emit(c, <<"ValidateBuiltinCall", name, Len(e.args), ident>>) ELSE c
    IN  CASE name = "len" /\ ident /\ Len(e.args) = 1
               /\ ResolveLocal(c, e.args[1].name) # -1 ->
                    Emit(pre, <<"LenLocal", ResolveLocal(c, e.args[1].name)>>)
          [] name = "push" /\ ident -> CompilePush(pre, e)
          [] name = "pop" /\ ident  -> CompilePop(pre, e)
          [] OTHER -> Emit(CompileExprs(pre, e.args), <<"CallBuiltin", name, Len(e.args)>>)

(* A builtin that no lexical binding hides asks at run time for a global of *)
(* its name.                                                                *)
CompileCall(c, e) ==
    LET named  == e.callee.k = "id"
        static == /\ named
                  /\ ResolveTarget(c, e.callee.name).target[1] # "Global"
        up     == IF named THEN ResolveTarget(c, e.callee.name).c ELSE c
        user   == Here(c)
        built  == CompileBuiltinCall(Emit(c, <<"JumpIfGlobalDefined", 0, e.callee.name>>), e)
        over   == Here(built)
        called == CompileUserCall(PatchJump(Emit(built, <<"Jump", 0>>), user), e)
    IN  CASE named /\ e.callee.name = "print" ->
               EmitConstant(Emit(CompileExprs(c, e.args), <<"Print", Len(e.args)>>),
                            [t |-> "null"])
          [] named /\ e.callee.name \in Builtins /\ ~static -> PatchJump(called, over)
          [] named /\ e.callee.name \in Builtins /\ static  -> CompileUserCall(up, e)
          [] OTHER -> CompileUserCall(c, e)

-----------------------------------------------------------------------------
OpCodeOf(op) ==
    CASE op = "+" -> "Add" [] op = "-" -> "Sub" [] op = "*" -> "Mul"
      [] op = "/" -> "Div" [] op = "%" -> "Mod" [] op = "==" -> "Eq"
      [] op = "!=" -> "NotEq" [] op = "<" -> "Lt" [] op = ">" -> "Gt"
      [] op = "<=" -> "LtEq" [] op = ">=" -> "GtEq"

CompileBin(c, e) ==
    LET left == CompileExpr(c, e.left)
        keep == IF e.op = "and" THEN "JumpIfFalseKeep" ELSE "JumpIfTrueKeep"
    IN  IF e.op \in {"and", "or"}
        THEN PatchJump(CompileExpr(Emit(Emit(left, <<keep, 0>>), <<"Pop", 0>>), e.right),
                       Here(left))
        ELSE Emit(CompileExpr(left, e.right), <<OpCodeOf(e.op), 0>>)

(* A local collection is indexed in its slot when the index has no effect.  *)
CompileIndex(c, e) ==
    IF /\ e.object.k = "id"
       /\ IsSideEffectFree(e.index)
       /\ ResolveLocal(c, e.object.name) # -1
    THEN Emit(CompileExpr(c, e.index), <<"IndexLocal", ResolveLocal(c, e.object.name)>>)
    ELSE Emit(CompileExprs(c, <<e.object, e.index>>), <<"Index", 0>>)

CompileList(c, e) ==
    FoldLeft(LAMBDA d, item : Emit(CompileExpr(d, item), <<"ListPush", 0>>),
             EmitConstant(c, [t |-> "list", items |-> <<>>]), e.items)

CompileDict(c, e) ==
    FoldLeft(LAMBDA d, pair : Emit(CompileExprs(d, pair), <<"DictInsert", 0>>),
             EmitConstant(c, [t |-> "dict", map |-> <<>>]), e.pairs)

CompileFStr(c, e) ==
    Emit(FoldLeft(LAMBDA d, p :
                    IF p.k = "lit"
                    THEN Emit([d EXCEPT !.constants = Append(@, [t |-> "str", s |-> p.s])],
                              <<"LoadConstRaw", Len(d.constants)>>)
                    ELSE CompileExpr(d, p),
                  c, e.parts),
         <<"FStrConcat", Len(e.parts)>>)

CompileExpr(c, e) ==
    IF c.err # "none" THEN c ELSE
    CASE e.k = "int"  -> EmitConstant(c, [t |-> "int", n |-> e.n])
      [] e.k = "str"  -> EmitConstant(c, [t |-> "str", s |-> e.s])
      [] e.k = "bool" -> EmitConstant(c, [t |-> "bool", b |-> e.b])
      [] e.k = "null" -> EmitConstant(c, [t |-> "null"])
      [] e.k = "id"   -> NameRead(c, e.name, "GetGlobal")
      [] e.k = "bin"  -> CompileBin(c, e)
      [] e.k = "un"   -> Emit(CompileExpr(c, e.expr),
                              <<IF e.op = "-" THEN "Negate" ELSE "Not", 0>>)
      [] e.k = "call" -> CompileCall(c, e)
      [] e.k = "list" -> CompileList(c, e)
      [] e.k = "dict" -> CompileDict(c, e)
      [] e.k = "index" -> CompileIndex(c, e)
      [] e.k = "lambda" -> CompileLambda(c, e)
      [] e.k = "fstr" -> CompileFStr(c, e)

(* Assign evaluates, then writes the slot, the capture or the global. *)
CompileAssign(c, s) ==
    LET r == ResolveTarget(CompileExpr(c, s.value), s.name)
    IN  Emit(EmitSetTarget(r.c, r.target), <<"Pop", 0>>)

(* The target is resolved before index and value are evaluated. *)
CompileIndexAssign(c, s) ==
    LET r == ResolveTarget(c, s.name)
    IN  Emit(CompileExprs(RequireTarget(r), <<s.index, s.value>>), <<"SetIndex", r.target>>)

CompileStmt(c, s) ==
    IF c.err # "none" THEN c ELSE
    CASE s.k = "let"     -> DeclareLocal(CompileExpr(c, s.value), s.name)
      [] s.k = "assign"  -> CompileAssign(c, s)
      [] s.k = "iassign" -> CompileIndexAssign(c, s)
      [] s.k = "expr"    -> Emit(CompileExpr(c, s.expr), <<"Pop", 0>>)
      [] s.k = "if"      -> CompileIf(c, s)
      [] s.k = "while"   -> CompileWhile(c, s)
      [] s.k = "for"     -> CompileFor(c, s)
      [] s.k = "break"   -> CompileBreak(c)
      [] s.k = "continue" -> CompileContinue(c)
      [] s.k = "fn"      -> CompileFnDef(c, s)
      [] s.k = "ret"     -> Emit(CompileExpr(c, s.value), <<"ReturnValue", 0>>)
      [] s.k = "import"  -> Fail(c, "import")
      [] s.k = "try"     -> CompileTry(c, s)

(* compile_repl_line: a line goes into a new chunk and keeps the locals of  *)
(* the lines before it; a line that fails to compile leaves no trace.       *)
CompileLine(c, program, maxDepth) ==
    LET fresh == [c EXCEPT !.code = <<>>, !.constants = <<>>, !.prototypes = <<>>]
        built == Emit(CompileBlock(fresh, program), <<"Return", 0>>)
    IN  IF TooDeep(program, maxDepth) THEN [compiler |-> c, err |-> "ast_depth",
                                            chunk |-> ChunkOf(NewCompiler)]
        ELSE IF built.err # "none" THEN [compiler |-> c, err |-> built.err,
                                         chunk |-> ChunkOf(NewCompiler)]
        ELSE [compiler |-> built, err |-> "none", chunk |-> ChunkOf(built)]

=============================================================================
