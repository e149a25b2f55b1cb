-------------------------------- MODULE Ast --------------------------------
(***************************************************************************)
(* The syntax tree of src/src/ast.rs, shared by the compiler of the        *)
(* bytecode machine and by the tree evaluator.  A node is a record whose   *)
(* field k names the variant of Stmt or Expr.  Lines are left out.  The    *)
(* walks of ast.rs (depth, names, calls, code sizes) are stated over the   *)
(* children of a node.                                                     *)
(***************************************************************************)
EXTENDS Integers, Sequences, SequencesExt

(* Expr, ast.rs:113 *)
Num(n)            == [k |-> "int", n |-> n]
Str(s)            == [k |-> "str", s |-> s]
Bool(b)           == [k |-> "bool", b |-> b]
Nil               == [k |-> "null"]
List(items)       == [k |-> "list", items |-> items]
Dict(pairs)       == [k |-> "dict", pairs |-> pairs]
Id(name)          == [k |-> "id", name |-> name]
Bin(op, l, r)     == [k |-> "bin", op |-> op, left |-> l, right |-> r]
Un(op, e)         == [k |-> "un", op |-> op, expr |-> e]
Call(callee, args) == [k |-> "call", callee |-> callee, args |-> args]
Lambda(params, body) == [k |-> "lambda", params |-> params, body |-> body]
Index(object, index) == [k |-> "index", object |-> object, index |-> index]
FStr(parts)       == [k |-> "fstr", parts |-> parts]
Lit(s)            == [k |-> "lit", s |-> s]         \* FStrExprPart::Literal

(* Stmt, ast.rs:20 *)
Let(name, value)  == [k |-> "let", name |-> name, value |-> value]
Assign(name, value) == [k |-> "assign", name |-> name, value |-> value]
IndexAssign(name, index, value) ==
    [k |-> "iassign", name |-> name, index |-> index, value |-> value]
Return(value)     == [k |-> "ret", value |-> value]
If(c, then, else) == [k |-> "if", condition |-> c, then |-> then, else |-> else]
While(c, body)    == [k |-> "while", condition |-> c, body |-> body]
For(var, iter, body) == [k |-> "for", var |-> var, iter |-> iter, body |-> body]
FnDef(name, params, body) ==
    [k |-> "fn", name |-> name, params |-> params, body |-> body]
Break             == [k |-> "break"]
Continue          == [k |-> "continue"]
Import(path)      == [k |-> "import", path |-> path]
Try(body, var, handler) ==
    [k |-> "try", body |-> body, var |-> var, handler |-> handler]
Do(expr)          == [k |-> "expr", expr |-> expr]

-----------------------------------------------------------------------------
(* The body that a function or a lambda owns. *)
Body(node) == IF node.k \in {"fn", "lambda"} THEN node.body ELSE <<>>

(* The children of a node in evaluation order; a function body is not one  *)
(* of them.                                                                *)
Parts(node) ==
    CASE node.k \in {"let", "assign", "ret"} -> <<node.value>>
      [] node.k = "iassign" -> <<node.index, node.value>>
      [] node.k = "if"      -> <<node.condition>> \o node.then \o node.else
      [] node.k = "while"   -> <<node.condition>> \o node.body
      [] node.k = "for"     -> <<node.iter>> \o node.body
      [] node.k = "try"     -> node.body \o node.handler
      [] node.k \in {"expr", "un"} -> <<node.expr>>
      [] node.k = "list"    -> node.items
      [] node.k = "dict"    -> FlattenSeq(node.pairs)
      [] node.k = "bin"     -> <<node.left, node.right>>
      [] node.k = "call"    -> <<node.callee>> \o node.args
      [] node.k = "index"   -> <<node.object, node.index>>
      [] node.k = "fstr"    -> SelectSeq(node.parts, LAMBDA p : p.k # "lit")
      [] OTHER              -> <<>>

MaxOf(S) == IF S = {} THEN 0 ELSE CHOOSE m \in S : \A x \in S : x <= m

(* excessive_depth_line: a node is one deeper than its parent, bodies of   *)
(* functions included.                                                     *)
RECURSIVE Depth(_)
Depth(node) == 1 + MaxOf({Depth(c) : c \in ToSet(Parts(node) \o Body(node))})

TooDeep(program, limit) == \E i \in DOMAIN program : Depth(program[i]) > limit

(* is_side_effect_free *)
RECURSIVE IsSideEffectFree(_)
IsSideEffectFree(e) ==
    /\ e.k \notin {"call", "lambda", "list", "dict", "fstr"}
    /\ \A c \in ToSet(Parts(e)) : IsSideEffectFree(c)

(* contains_call: the body of a lambda does not count *)
RECURSIVE ContainsCall(_)
ContainsCall(e) ==
    e.k = "call" \/ \E c \in ToSet(Parts(e)) : ContainsCall(c)

(* expr_child: the child at a position that an expression frame evaluates; *)
(* positions count from 0, and a literal part of an f-string has none.     *)
NoChild == [k |-> "none"]
Child(e, i) ==
    LET kids == IF e.k = "fstr" THEN e.parts
                ELSE IF e.k \in {"call", "bin", "un", "index", "list", "dict"}
                THEN Parts(e) ELSE <<>>
    IN  IF i < Len(kids) /\ kids[i + 1].k # "lit" THEN kids[i + 1] ELSE NoChild

(* referenced_names: every name a body mentions, those it binds and those   *)
(* of nested functions included.                                            *)
OwnNames(node) ==
    CASE node.k \in {"let", "assign", "iassign", "id"} -> {node.name}
      [] node.k = "fn"     -> {node.name} \union ToSet(node.params)
      [] node.k = "lambda" -> ToSet(node.params)
      [] node.k \in {"for", "try"} -> {node.var}
      [] OTHER -> {}

RECURSIVE NamesOf(_)
NamesOf(node) ==
    OwnNames(node) \union
        UNION {NamesOf(c) : c \in ToSet(Parts(node) \o Body(node))}

ReferencedNames(body) == UNION {NamesOf(s) : s \in ToSet(body)}

-----------------------------------------------------------------------------
(* ast_heap_size: the nodes of a program, 64 bytes each; the bytes of names *)
(* and literals are left out.                                               *)
RECURSIVE Nodes(_)
Nodes(node) ==
    1 + FoldSeq(LAMBDA c, n : Nodes(c) + n, 0, Parts(node) \o Body(node))

NodesOfProgram(program) == FoldSeq(LAMBDA s, n : Nodes(s) + n, 1, program)

(* ast_closure_body_sizes: the nodes of a program split by owner.  A body   *)
(* of a function is a unit of its own, nested bodies are units again; the   *)
(* rest belongs to the root.  Sizes are node counts (64 bytes each, plus    *)
(* the bytes of names and literals, which are left out).                    *)
RECURSIVE OwnNodes(_)
OwnNodes(node) ==
    1 + FoldSeq(LAMBDA c, n : OwnNodes(c) + n, 0, Parts(node))

RECURSIVE BodiesOf(_)
BodiesOf(node) ==
    FoldLeft(LAMBDA bodies, c : bodies \o BodiesOf(c), <<>>, Parts(node) \o Body(node))
        \o (IF node.k \in {"fn", "lambda"} THEN <<node.body>> ELSE <<>>)

NodesOfBlock(block) == FoldSeq(LAMBDA s, n : OwnNodes(s) + n, 0, block)

ClosureBodySizes(program) ==
    [root   |-> 1 + NodesOfBlock(program),
     bodies |-> FlattenSeq([i \in DOMAIN program |->
                    LET bs == BodiesOf(program[i])
                    IN  [j \in DOMAIN bs |-> <<bs[j], NodesOfBlock(bs[j])>>]])]

(* closure_body_subtree_ptrs: the body of a closure and every body nested   *)
(* in it, which the function value keeps charged.                           *)
BodySubtree(fn) == ToSet(BodiesOf(fn))
=============================================================================
