------------------------------- MODULE Parser --------------------------------
(***************************************************************************)
(* The recursive descent parser (src/src/parser.rs) over a sequence of     *)
(* tokens, with its two ways to go on after an error: a misplaced import   *)
(* or return drops its line and the block goes on; any other error goes up *)
(* to the program, which skips to a token that may begin a statement.      *)
(*                                                                         *)
(* A token is a record whose field t names its kind; the lexer is not      *)
(* modelled, but for the tokens it hands over.  A parser state is [ok,     *)
(* node, pos, errors]: what was parsed last, the next token, and the       *)
(* number of errors put aside.  A context is [depth, fns]: with_parse_depth *)
(* and with_fn_context.  Line numbers are left out.                        *)
(***************************************************************************)
EXTENDS Ast, FiniteSets

CONSTANT MaxDepth    \* limits::MAX_AST_DEPTH

RECURSIVE Expr(_, _, _), Block(_, _, _, _), Level(_, _, _, _)

(* What can begin a statement, for synchronize. *)
Starters == {"let", "fn", "if", "while", "for", "return", "import", "try",
             "break", "continue"}

Levels == << {"or"}, {"and"}, {"==", "!=", "<", ">", "<=", ">="}, {"+", "-"},
             {"*", "/", "%"} >>

At(ts, p) == IF p \in DOMAIN ts THEN ts[p] ELSE [t |-> "eof"]
Kind(ts, s) == At(ts, s.pos).t

Advance(s)    == [s EXCEPT !.pos = @ + 1]
Fail(s)       == [s EXCEPT !.ok = FALSE]
Got(s, node)  == [s EXCEPT !.node = node]

(* A token of this kind; another one is consumed with the error. *)
Expect(ts, s, kind) ==
    IF ~s.ok THEN s
    ELSE IF Kind(ts, s) = kind THEN Advance(s) ELSE Fail(Advance(s))

(* The end of the line, or of the text. *)
ExpectNewline(ts, s) ==
    CASE ~s.ok \/ Kind(ts, s) = "eof" -> s
      [] s.ok /\ Kind(ts, s) = "nl"   -> Advance(s)
      [] OTHER                        -> Fail(s)

(* An identifier, as the node. *)
Name(ts, s) ==
    CASE ~s.ok -> s
      [] s.ok /\ Kind(ts, s) = "id" -> Got(Advance(s), At(ts, s.pos).v)
      [] OTHER -> Fail(Advance(s))

(* The first position from p on with a token of one of these kinds. *)
FirstAt(ts, p, kinds) ==
    IF At(ts, p).t \in kinds \union {"eof"} THEN p
    ELSE CHOOSE q \in p + 1 .. Len(ts) + 1 :
           /\ At(ts, q).t \in kinds \union {"eof"}
           /\ \A r \in p .. q - 1 : At(ts, r).t \notin kinds

RECURSIVE SkipNewlines(_, _)
SkipNewlines(ts, s) ==
    IF s.ok /\ Kind(ts, s) = "nl" THEN SkipNewlines(ts, Advance(s)) ELSE s

(* discard_current_line, after an error that was put aside. *)
DiscardLine(ts, s) ==
    LET q == FirstAt(ts, s.pos, {"nl"})
    IN  [s EXCEPT !.pos = IF At(ts, q).t = "nl" THEN q + 1 ELSE q, !.errors = @ + 1]

Synchronize(ts, p) ==
    LET q == FirstAt(ts, p, {"nl"} \union Starters)
    IN  IF At(ts, q).t = "nl" THEN q + 1 ELSE q

Deeper(c) == [c EXCEPT !.depth = @ + 1]
TooNested(c) == c.depth >= MaxDepth

(* check_expr_depth, check_stmt_depth *)
Checked(s) == IF s.ok /\ Depth(s.node) > MaxDepth THEN Fail(s) ELSE s

-----------------------------------------------------------------------------
(* Expressions *)

Pair(ts, s, c) ==
    LET key   == Expr(ts, s, c)
        value == Expr(ts, Expect(ts, key, ":"), c)
    IN  IF value.ok THEN Got(value, <<key.node, value.node>>) ELSE value

(* Items up to the token that closes them; only a literal may end with a    *)
(* comma.                                                                   *)
RECURSIVE Items(_, _, _, _, _)
Items(ts, s, c, close, got) ==
    LET item  == IF close = "}" THEN Pair(ts, s, c) ELSE Expr(ts, s, c)
        all   == Append(got, item.node)
        comma == Kind(ts, item) = ","
    IN  CASE ~item.ok -> item
          [] item.ok /\ comma /\ (close = ")" \/ Kind(ts, Advance(item)) # close) ->
               Items(ts, Advance(item), c, close, all)
          [] OTHER -> Expect(ts, Got(IF comma THEN Advance(item) ELSE item, all), close)

Enclosed(ts, s, c, close) ==
    CASE ~s.ok -> s
      [] s.ok /\ Kind(ts, s) = close -> Advance(Got(s, <<>>))
      [] OTHER -> Items(ts, s, c, close, <<>>)

RECURSIVE Names(_, _, _)
Names(ts, s, got) ==
    LET n == Name(ts, s)
    IN  CASE ~n.ok -> n
          [] n.ok /\ Kind(ts, n) = "," -> Names(ts, Advance(n), Append(got, n.node))
          [] OTHER -> Got(n, Append(got, n.node))

(* "(" params ")" *)
Params(ts, s) ==
    LET open == Expect(ts, s, "(")
        got  == IF open.ok /\ Kind(ts, open) = ")" THEN Got(open, <<>>)
                ELSE IF open.ok THEN Names(ts, open, <<>>) ELSE open
    IN  Expect(ts, got, ")")

(* The body of a function, where return may stand. *)
FnBody(ts, s, c) ==
    Expect(ts, Block(ts, s, [c EXCEPT !.fns = @ + 1], {"end"}), "end")

(* fn(params) expr end, which returns the expression, or a block.           *)
AnonymousFn(ts, s, c) ==
    LET params == Params(ts, Advance(s))
        line   == IF Kind(ts, params) = "return" THEN Advance(params) ELSE params
        value  == Expr(ts, line, c)
        short  == Expect(ts, value, "end")
        long   == FnBody(ts, Advance(params), c)
    IN  CASE ~params.ok -> params
          [] params.ok /\ Kind(ts, params) = "nl" ->
               Checked(IF long.ok THEN Got(long, Lambda(params.node, long.node)) ELSE long)
          [] OTHER ->
               Checked(IF short.ok THEN Got(short, Lambda(params.node, <<Return(value.node)>>))
                       ELSE short)

(* A part of an f-string has a parser of its own, whose fn_depth is 0.      *)
FStrPart(part, c) ==
    IF "s" \in DOMAIN part THEN [ok |-> TRUE, node |-> Lit(part.s)]
    ELSE LET r == Expr(part.tokens, [ok |-> TRUE, node |-> Nil, pos |-> 1, errors |-> 0],
                          [c EXCEPT !.fns = 0])
         IN  IF r.ok /\ r.pos <= Len(part.tokens) THEN Fail(r) ELSE r

FString(s, parts, c) ==
    LET read == [i \in DOMAIN parts |-> FStrPart(parts[i], c)]
    IN  IF \E i \in DOMAIN read : ~read[i].ok THEN Fail(s)
        ELSE Checked(Got(s, FStr([i \in DOMAIN read |-> read[i].node])))

Primary(ts, s, c) ==
    LET tok  == At(ts, s.pos)
        next == Advance(s)
        args == Enclosed(ts, Expect(ts, next, "("), c, ")")
        list == Enclosed(ts, next, c, "]")
        dict == Enclosed(ts, next, c, "}")
    IN  CASE tok.t = "int"   -> Got(next, Num(tok.v))
          [] tok.t = "str"   -> Got(next, Str(tok.v))
          [] tok.t = "fstr"  -> FString(next, tok.parts, c)
          [] tok.t \in {"true", "false"} -> Got(next, Bool(tok.t = "true"))
          [] tok.t = "null"  -> Got(next, Nil)
          [] tok.t = "id"    -> Got(next, Id(tok.v))
          [] tok.t = "print" ->
               Checked(IF args.ok THEN Got(args, Call(Id("print"), args.node)) ELSE args)
          [] tok.t = "("     -> Expect(ts, Expr(ts, next, c), ")")
          [] tok.t = "["     -> Checked(IF list.ok THEN Got(list, List(list.node)) ELSE list)
          [] tok.t = "{"     -> Checked(IF dict.ok THEN Got(dict, Dict(dict.node)) ELSE dict)
          [] tok.t = "fn"    -> AnonymousFn(ts, s, c)
          [] tok.t = "error" -> Fail(next)
          [] OTHER           -> Fail(s)

(* Calls and indexes that follow a primary. *)
RECURSIVE Postfix(_, _, _)
Postfix(ts, s, c) ==
    LET args  == Enclosed(ts, Advance(s), c, ")")
        index == Expect(ts, Expr(ts, Advance(s), c), "]")
    IN  CASE s.ok /\ Kind(ts, s) = "(" ->
               IF args.ok THEN Postfix(ts, Checked(Got(args, Call(s.node, args.node))), c) ELSE args
          [] s.ok /\ Kind(ts, s) = "[" ->
               IF index.ok THEN Postfix(ts, Checked(Got(index, Index(s.node, index.node))), c)
               ELSE index
          [] OTHER -> s

RECURSIVE Unary(_, _, _)
Unary(ts, s, c) ==
    LET op == Kind(ts, s)
        e  == IF TooNested(c) THEN Fail(Advance(s)) ELSE Unary(ts, Advance(s), Deeper(c))
    IN  IF op \notin {"not", "-"} THEN Postfix(ts, Primary(ts, s, c), c)
        ELSE Checked(IF e.ok THEN Got(e, Un(op, e.node)) ELSE e)

(* Variant: operators of a level group to the right. *)
RightOperands(ts, left, c, k) ==
    IF ~left.ok \/ Kind(ts, left) \notin Levels[k] THEN left
    ELSE LET right == Level(ts, Advance(left), c, k)
         IN  IF right.ok THEN Got(right, Bin(Kind(ts, left), left.node, right.node)) ELSE right

(* while the next token is an operator of this level *)
RECURSIVE Operands(_, _, _, _)
Operands(ts, left, c, k) ==
    IF ~left.ok \/ Kind(ts, left) \notin Levels[k] THEN left
    ELSE LET right == Level(ts, Advance(left), c, k + 1)
         IN  IF right.ok
             THEN Operands(ts, Checked(Got(right, Bin(Kind(ts, left), left.node, right.node))), c, k)
             ELSE right

Level(ts, s, c, k) ==
    IF k > Len(Levels) THEN Unary(ts, s, c)
    ELSE Operands(ts, Level(ts, s, c, k + 1), c, k)

Expr(ts, s, c) ==
    IF ~s.ok THEN s
    ELSE IF TooNested(c) THEN Fail(s)
    ELSE Checked(Level(ts, s, Deeper(c), 1))

-----------------------------------------------------------------------------
(* Statements *)

(* ident "=", or ident "[" ... the matching "]" "=" *)
IsAssign(ts, p) == At(ts, p + 1).t = "="

Balance(ts, p, q) ==
    Cardinality({i \in p .. q : At(ts, i).t = "["}) - Cardinality({i \in p .. q : At(ts, i).t = "]"})

IsIndexAssign(ts, p) ==
    /\ At(ts, p + 1).t = "["
    /\ \E q \in p + 2 .. Len(ts) :
         /\ Balance(ts, p + 1, q) = 0 /\ At(ts, q + 1).t = "="
         /\ \A r \in p + 1 .. q - 1 : Balance(ts, p + 1, r) > 0

(* A statement whose line ends here. *)
Ended(ts, s, stmt) == ExpectNewline(ts, IF s.ok THEN Got(s, stmt) ELSE s)

ParseLet(ts, s, c) ==
    LET name  == Name(ts, Advance(s))
        value == Expr(ts, Expect(ts, name, "="), c)
    IN  Ended(ts, value, Let(name.node, value.node))

ParseAssign(ts, s, c) ==
    LET value == Expr(ts, Advance(Advance(s)), c)
    IN  Ended(ts, value, Assign(At(ts, s.pos).v, value.node))

ParseIndexAssign(ts, s, c) ==
    LET index == Expr(ts, Advance(Advance(s)), c)
        value == Expr(ts, Expect(ts, Expect(ts, index, "]"), "="), c)
    IN  Ended(ts, value, IndexAssign(At(ts, s.pos).v, index.node, value.node))

ParseReturn(ts, s, c) ==
    LET value == Expr(ts, Advance(s), c) IN Ended(ts, value, Return(value.node))

ParseExprStmt(ts, s, c) == LET e == Expr(ts, s, c) IN Ended(ts, e, Do(e.node))

(* The statements of a line's block, after its head. *)
BlockAfter(ts, head, c, stops) == Block(ts, SkipNewlines(ts, ExpectNewline(ts, head)), c, stops)

(* "end" and the end of the line *)
Closed(ts, s, stmt) == Ended(ts, Expect(ts, s, "end"), stmt)

(* elif is an if in the else branch that shares its end.                    *)
RECURSIVE ParseIf(_, _, _)
ParseIf(ts, s, c) ==
    LET cond == Expr(ts, Advance(s), c)
        then == BlockAfter(ts, cond, c, {"else", "elif", "end"})
        elif == IF TooNested(c) THEN Fail(then) ELSE ParseIf(ts, then, Deeper(c))
        else == BlockAfter(ts, Advance(then), c, {"end"})
    IN  CASE ~then.ok -> then
          [] then.ok /\ Kind(ts, then) = "elif" ->
               IF elif.ok THEN Got(elif, If(cond.node, then.node, <<elif.node>>)) ELSE elif
          [] then.ok /\ Kind(ts, then) = "else" ->
               Closed(ts, else, If(cond.node, then.node, else.node))
          [] OTHER -> Closed(ts, then, If(cond.node, then.node, <<>>))

ParseWhile(ts, s, c) ==
    LET cond == Expr(ts, Advance(s), c)
        body == BlockAfter(ts, cond, c, {"end"})
    IN  Closed(ts, body, While(cond.node, body.node))

ParseFor(ts, s, c) ==
    LET var  == Name(ts, Advance(s))
        iter == Expr(ts, Expect(ts, var, "in"), c)
        body == BlockAfter(ts, iter, c, {"end"})
    IN  Closed(ts, body, For(var.node, iter.node, body.node))

ParseTryCatch(ts, s, c) ==
    LET body    == BlockAfter(ts, Advance(s), c, {"catch"})
        var     == Name(ts, Expect(ts, body, "catch"))
        handler == BlockAfter(ts, var, c, {"end"})
    IN  Closed(ts, handler, Try(body.node, var.node, handler.node))

ParseFnDef(ts, s, c) ==
    LET name   == Name(ts, Advance(s))
        params == IF name.ok THEN Params(ts, name) ELSE name
        body   == BlockAfter(ts, params, [c EXCEPT !.fns = @ + 1], {"end"})
    IN  Closed(ts, body, FnDef(name.node, params.node, body.node))

ParseImport(ts, s) ==
    LET path == At(ts, s.pos + 1)
    IN  IF path.t = "str" THEN Ended(ts, Advance(Advance(s)), Import(path.v))
        ELSE Fail(Advance(Advance(s)))

StmtInner(ts, s, c, top) ==
    LET kind == Kind(ts, s)
    IN  CASE kind = "let"      -> ParseLet(ts, s, c)
          [] kind = "return"   -> IF c.fns > 0 THEN ParseReturn(ts, s, c)
                                  ELSE Fail([s EXCEPT !.pos = DiscardLine(ts, s).pos])
          [] kind = "if"       -> ParseIf(ts, s, c)
          [] kind = "while"    -> ParseWhile(ts, s, c)
          [] kind = "for"      -> ParseFor(ts, s, c)
          [] kind = "fn"       -> ParseFnDef(ts, s, c)
          [] kind = "break"    -> Ended(ts, Advance(s), Break)
          [] kind = "continue" -> Ended(ts, Advance(s), Continue)
          [] kind = "import"   -> IF top THEN ParseImport(ts, s)
                                  ELSE Fail([s EXCEPT !.pos = DiscardLine(ts, s).pos])
          [] kind = "try"      -> ParseTryCatch(ts, s, c)
          [] kind = "id" /\ IsAssign(ts, s.pos) -> ParseAssign(ts, s, c)
          [] kind = "id" /\ ~IsAssign(ts, s.pos) /\ IsIndexAssign(ts, s.pos) ->
               ParseIndexAssign(ts, s, c)
          [] OTHER -> ParseExprStmt(ts, s, c)

Stmt(ts, s, c, top) ==
    IF TooNested(c) THEN Fail(s) ELSE Checked(StmtInner(ts, s, Deeper(c), top))

(* The statements up to one of the stops, which is left. *)
RECURSIVE Statements(_, _, _, _, _)
Statements(ts, s, c, stops, got) ==
    LET kind == Kind(ts, s)
        stmt == Stmt(ts, s, c, FALSE)
    IN  CASE ~s.ok -> s
          [] s.ok /\ kind \in stops \union {"eof"} -> Got(s, got)
          [] s.ok /\ (kind = "import" \/ (kind = "return" /\ c.fns = 0)) ->
               Statements(ts, SkipNewlines(ts, DiscardLine(ts, s)), c, stops, got)
          [] OTHER ->
               IF stmt.ok THEN Statements(ts, SkipNewlines(ts, stmt), c, stops, Append(got, stmt.node))
               ELSE stmt

Block(ts, s, c, stops) == Statements(ts, s, c, stops, <<>>)

RECURSIVE Program(_, _, _)
Program(ts, s, got) ==
    LET begin == SkipNewlines(ts, s)
        stmt  == Stmt(ts, begin, [depth |-> 0, fns |-> 0], TRUE)
    IN  CASE Kind(ts, begin) = "eof" -> Got(begin, got)
          [] Kind(ts, begin) # "eof" /\ stmt.ok -> Program(ts, stmt, Append(got, stmt.node))
          [] OTHER -> Program(ts, [stmt EXCEPT !.ok = TRUE, !.errors = @ + 1,
                                               !.pos = Synchronize(ts, @)], got)

(* Parser::parse: the program, or the number of errors. *)
Parse(ts) ==
    LET r == Program(ts, [ok |-> TRUE, node |-> Nil, pos |-> 1, errors |-> 0], <<>>)
    IN  [program |-> r.node, errors |-> r.errors]
-----------------------------------------------------------------------------
(* The text of a program, with no parenthesis that the table of            *)
(* precedences (docs/language-spec.md) does not ask for.                    *)

T(kind)  == <<[t |-> kind]>>
V(kind, v) == <<[t |-> kind, v |-> v]>>
Line     == T("nl")

Precedence(e) ==
    CASE e.k = "bin" -> CHOOSE k \in DOMAIN Levels : e.op \in Levels[k]
      [] e.k = "un"  -> 6
      [] e.k \in {"call", "index"} -> 7
      [] OTHER -> 8

Separated(texts) ==
    FlattenSeq([i \in DOMAIN texts |-> IF i = 1 THEN texts[i] ELSE T(",") \o texts[i]])

RECURSIVE TextOf(_, _), StmtText(_)
BlockText(block) == FlattenSeq([i \in DOMAIN block |-> StmtText(block[i])])

ParamsText(params) ==
    T("(") \o Separated([i \in DOMAIN params |-> V("id", params[i])]) \o T(")")

ExprText(e) ==
    CASE e.k = "int"   -> V("int", e.n)
      [] e.k = "str"   -> V("str", e.s)
      [] e.k = "bool"  -> T(IF e.b THEN "true" ELSE "false")
      [] e.k = "null"  -> T("null")
      [] e.k = "id"    -> V("id", e.name)
      [] e.k = "bin"   -> TextOf(e.left, Precedence(e)) \o T(e.op) \o TextOf(e.right, Precedence(e) + 1)
      [] e.k = "un"    -> T(e.op) \o TextOf(e.expr, 6)
      [] e.k = "index" -> TextOf(e.object, 7) \o T("[") \o TextOf(e.index, 1) \o T("]")
      [] e.k = "list"  ->
           T("[") \o Separated([i \in DOMAIN e.items |-> TextOf(e.items[i], 1)]) \o T("]")
      [] e.k = "dict"  ->
           T("{") \o Separated([i \in DOMAIN e.pairs |->
                       TextOf(e.pairs[i][1], 1) \o T(":") \o TextOf(e.pairs[i][2], 1)]) \o T("}")
      [] e.k = "call"  ->
           (IF e.callee = Id("print") THEN T("print") ELSE TextOf(e.callee, 7)) \o T("(")
             \o Separated([i \in DOMAIN e.args |-> TextOf(e.args[i], 1)]) \o T(")")
      [] e.k = "fstr"  ->
           <<[t |-> "fstr", parts |-> [i \in DOMAIN e.parts |->
                IF e.parts[i].k = "lit" THEN [s |-> e.parts[i].s]
                ELSE [tokens |-> TextOf(e.parts[i], 1)]]]>>
      [] e.k = "lambda" ->
           T("fn") \o ParamsText(e.params)
             \o (IF Len(e.body) = 1 /\ e.body[1].k = "ret" THEN TextOf(e.body[1].value, 1)
                 ELSE Line \o BlockText(e.body)) \o T("end")

TextOf(e, level) ==
    IF Precedence(e) >= level THEN ExprText(e) ELSE T("(") \o ExprText(e) \o T(")")

\* A statement that begins with fn defines a function.
Statement(text) == IF text[1].t = "fn" THEN T("(") \o text \o T(")") ELSE text

StmtText(stmt) ==
    CASE stmt.k = "let"    -> T("let") \o V("id", stmt.name) \o T("=") \o TextOf(stmt.value, 1) \o Line
      [] stmt.k = "assign" -> V("id", stmt.name) \o T("=") \o TextOf(stmt.value, 1) \o Line
      [] stmt.k = "iassign" ->
           V("id", stmt.name) \o T("[") \o TextOf(stmt.index, 1) \o T("]") \o T("=")
             \o TextOf(stmt.value, 1) \o Line
      [] stmt.k = "ret"    -> T("return") \o TextOf(stmt.value, 1) \o Line
      [] stmt.k = "expr"   -> Statement(TextOf(stmt.expr, 1)) \o Line
      [] stmt.k \in {"break", "continue"} -> T(stmt.k) \o Line
      [] stmt.k = "import" -> T("import") \o V("str", stmt.path) \o Line
      [] stmt.k = "while"  ->
           T("while") \o TextOf(stmt.condition, 1) \o Line \o BlockText(stmt.body) \o T("end") \o Line
      [] stmt.k = "for"    ->
           T("for") \o V("id", stmt.var) \o T("in") \o TextOf(stmt.iter, 1) \o Line
             \o BlockText(stmt.body) \o T("end") \o Line
      [] stmt.k = "try"    ->
           T("try") \o Line \o BlockText(stmt.body) \o T("catch") \o V("id", stmt.var) \o Line
             \o BlockText(stmt.handler) \o T("end") \o Line
      [] stmt.k = "fn"     ->
           T("fn") \o V("id", stmt.name) \o ParamsText(stmt.params) \o Line
             \o BlockText(stmt.body) \o T("end") \o Line
      [] stmt.k = "if"     ->
           T("if") \o TextOf(stmt.condition, 1) \o Line \o BlockText(stmt.then)
             \o CASE stmt.else = <<>> -> T("end") \o Line
                  [] Len(stmt.else) = 1 /\ stmt.else[1].k = "if" ->
                       T("elif") \o Tail(StmtText(stmt.else[1]))
                  [] OTHER -> T("else") \o Line \o BlockText(stmt.else) \o T("end") \o Line

\* Where import and return may stand.
RECURSIVE Placed(_, _, _)
Placed(node, top, infn) ==
    /\ node.k = "import" => top
    /\ node.k = "ret" => infn
    /\ \A c \in ToSet(Parts(node)) : Placed(c, FALSE, infn)
    /\ \A c \in ToSet(Body(node)) : Placed(c, FALSE, TRUE)

=============================================================================
