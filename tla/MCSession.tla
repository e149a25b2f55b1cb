------------------------------ MODULE MCSession -------------------------------
EXTENDS Session

(* The compiler and the driver that the session is an instance with *)
TheCompiler(c, program, depth) == LET r == CompileLine(c, program, depth) IN r
TheRound(s, stop) == LET r == E!Iterate(s, stop) IN r
TheRun(s, stop)   == LET r == E!Drive(s, stop) IN r

X == Id("x")
P(e) == Do(Call(Id("print"), <<e>>))
C(name, args) == Call(Id(name), args)
N1 == Num(1)
Nums == List(<<Num(1), Num(2), Num(3)>>)
Boom == Bin("/", N1, Num(0))
S(c) == Str(<<c>>)
Fn(params, e) == Lambda(params, <<Return(e)>>)

(* A statement that leaves what is around it in one of these ways, in the   *)
(* round in which i is 2.                                                   *)
Leaves == <<Break, Continue, Do(Boom), P(Id("nowhere"))>>
AtTwo(leave) == If(Bin("==", Id("i"), Num(2)), <<leave>>, <<>>)

(* A loop whose rounds open a try, bind and capture a local, and leave; the *)
(* closures of the rounds are called after it.                              *)
LoopBody(leave) ==
    << Let("t", Bin("*", Id("i"), Num(2))),
       Do(C("push", <<Id("fs"), Fn(<<>>, Id("t"))>>)),
       AtTwo(leave), P(Id("t")) >>
Loops(leave) ==
    << For("i", Nums, LoopBody(leave)),
      For("i", Nums, << Try(LoopBody(leave), "e", <<P(Index(Id("e"), Str(<<"type">>)))>>) >>),
      For("i", Nums, << Try(<<P(Id("i"))>> \o <<Do(Boom)>>, "e", LoopBody(leave)) >>),
      Try(<<For("i", Nums, LoopBody(leave))>>, "e", <<P(S("caught"))>>),
      While(Bin("<", Id("i"), Num(3)),
            <<Assign("i", Bin("+", Id("i"), N1))>> \o LoopBody(leave)) >>
InFunction(loop) ==
    << FnDef("f", <<"fs", "i">>, << loop, P(C("len", <<Id("fs")>>)), Return(Id("fs")) >>),
       Let("gs", C("f", <<List(<<>>), Num(0)>>)),
       P(C("map", <<Id("gs"), Fn(<<"g">>, C("g", <<>>))>>)) >>
AtTopLevel(loop) ==
    << Let("fs", List(<<>>)), Let("i", Num(0)), loop,
       For("g", Id("fs"), <<P(C("g", <<>>))>>) >>
AllLoops == FlattenSeq([l \in DOMAIN Leaves |-> Loops(Leaves[l])])
LoopScripts == [l \in DOMAIN AllLoops |-> <<InFunction(AllLoops[l])>>]
                 \o [l \in DOMAIN AllLoops |-> <<AtTopLevel(AllLoops[l])>>]
(* One line of calls that fail or not, each in a try of its own. *)
Tried(e) == Try(<<P(e)>>, "e", <<P(Index(Id("e"), Str(<<"type">>)))>>)
AllTried(es) == <<[i \in DOMAIN es |-> Tried(es[i])]>>

Low == Bin("-", Bin("-", Un("-", Num(7)), Num(8)), N1)  \* MinInt
Ab == Dict(<< <<S("a"), N1>>, <<S("b"), Nums>> >>)
Operators == AllTried(<<
    Bin("+", Num(15), N1), Bin("-", Low, N1), Bin("*", Num(4), Num(4)), Un("-", Low),
    Bin("/", Low, Un("-", N1)), Bin("%", Low, Un("-", N1)), Bin("%", Un("-", Num(7)), Num(2)),
    Bin("%", N1, Num(0)), Bin("+", S("a"), S("b")), Bin("+", S("a"), N1), Bin("-", Nil, N1),
    Bin("<", N1, S("a")), Bin(">=", Num(2), Num(2)), Bin(">", N1, Num(2)), Un("-", S("a")),
    Un("not", Nil), Bin("!=", S("a"), N1), Bin("<=", N1, N1) >>)
Collections == << <<Let("d", Ab)>> \o AllTried(<<
    Index(Nums, Un("-", N1)), Index(Nums, Num(3)), Index(Nums, S("a")), Index(S("a"), Num(0)),
    Index(S("a"), Num(4)), Index(S("a"), Nil), Index(Id("d"), S("c")), Index(Id("d"), N1), Index(N1, N1),
    Index(Id("d"), Bin("+", S("a"), FStr(<<Lit(<<>>)>>))),
    Dict(<< <<N1, N1>> >>), C("len", <<Id("d")>>), C("len", <<N1>>), C("keys", <<Id("d")>>),
    C("keys", <<N1>>), C("range", <<N1, Num(4)>>), C("range", <<N1, S("a")>>),
    C("range", <<Low, Num(15)>>), C("len", <<>>), C("pop", <<Id("d")>>), C("pop", <<Id("zz")>>),
    C("push", <<Nums, N1>>), C("push", <<Id("d"), N1>>), C("push", <<Id("zz"), Boom>>),
    C("map", <<Nums>>), C("map", <<N1, N1>>), C("map", <<Nums, N1>>),
    C("filter", <<Nums, Fn(<<>>, N1)>>), C("exit", <<N1, N1>>), C("exit", <<S("a")>>),
    C("exit", <<Un("-", N1)>>), C("f", <<>>), Call(N1, <<Boom>>),
    Call(Fn(<<"a">>, Id("a")), <<>>) >>)[1] >>
Assignments ==
    << << Let("l", Nums), Let("d", Ab),
          IndexAssign("l", Num(0), S("z")), IndexAssign("d", S("c"), Id("l")),
          Do(C("push", <<Id("l"), C("pop", <<Id("l")>>)>>)), P(Id("l")), P(Index(Id("d"), S("c"))),
          Try(<<IndexAssign("l", Num(7), Boom)>>, "e", <<P(Index(Id("e"), Str(<<"type">>)))>>),
          Try(<<IndexAssign("l", Num(7), N1)>>, "e", <<P(N1)>>),
          Try(<<IndexAssign("zz", Boom, N1)>>, "e", <<P(FStr(<<Lit(<<"was">>), Id("e")>>))>>),
          Try(<<Assign("zz", N1)>>, "e", <<P(Bin("+", S("a"), Id("e")))>>),
          For("k", Id("d"), <<P(Index(Id("d"), Id("k")))>>), For("c", Str(<<"a", "b">>), <<P(Id("c"))>>),
          Try(<<For("k", N1, <<>>)>>, "e", <<P(Id("e"))>>) >> >>

Plus(a, b) == Bin("+", a, b)
Nested ==  \* calls of user functions inside every kind of expression
    << << FnDef("f", <<"n">>, <<P(Id("n")), Return(Bin("*", Id("n"), Num(2)))>>),
          Let("l", List(<<C("f", <<N1>>), C("f", <<C("f", <<N1>>)>>)>>)),
          Let("d", Dict(<< <<FStr(<<Lit(<<"a">>)>>), C("f", <<Num(2)>>)>>, <<S("b"), N1>> >>)),
          P(Plus(C("f", <<N1>>), Plus(Num(3), C("f", <<Num(2)>>)))), P(Un("-", C("f", <<N1>>))),
          P(Bin("and", C("f", <<Num(0)>>), C("f", <<N1>>))), P(Bin("or", Bool(FALSE), C("f", <<N1>>))),
          P(Bin("or", C("f", <<Num(3)>>), Boom)), P(Bin("and", C("f", <<N1>>), Un("not", Nil))) >>,
       << P(FStr(<<C("f", <<N1>>), Lit(<<"b">>), Id("d"), C("f", <<Num(2)>>)>>)),
          Do(C("push", <<Id("l"), Plus(C("f", <<N1>>), N1)>>)),
          IndexAssign("l", Plus(C("f", <<N1>>), Un("-", Num(2))), C("f", <<Num(3)>>)),
          P(Index(Id("l"), Plus(C("f", <<N1>>), Un("-", N1)))), P(Id("l")),
          If(Plus(C("f", <<Num(0)>>), C("f", <<N1>>)), <<P(S("a"))>>, <<P(S("b"))>>),
          Let("g", Call(Fn(<<"a">>, Fn(<<"b">>, Plus(Id("a"), Id("b")))), <<C("f", <<Num(2)>>)>>)) >>,
       << P(C("g", <<C("f", <<N1>>)>>)), P(Call(C("g", <<>>), <<>>)) >>,
       << Let("i", Num(0)),
          While(Bin("<", C("len", <<List(<<Id("i"), C("len", <<S("a")>>)>>)>>), N1), <<Break>>),
          For("j", List(<<C("f", <<Id("i")>>)>>), <<If(C("f", <<Id("j")>>), <<Break>>, <<>>)>>) >>,
       << Try(<<P(Plus(C("f", <<N1>>), C("f", <<S("a")>>)))>>, "e", <<P(C("f", <<N1>>))>>),
          Try(<<Let("y", List(<<C("f", <<N1>>), C("f", <<>>)>>))>>, "e", <<P(Id("e"))>>),
          Try(<<P(Plus(C("f", <<N1>>), C("zz", <<C("f", <<N1>>)>>)))>>, "e", <<P(Id("e"))>>) >> >>

(* Where a name is looked up: shadowed builtins, late globals, recursion,   *)
(* closures over parameters, loop variables and captures of captures.       *)
Names ==
    << << FnDef("g", <<>>, <<Return(C("len", <<Nums>>))>>), P(C("g", <<>>)),
          FnDef("len", <<"v">>, <<Return(Num(7))>>), P(C("g", <<>>)), P(C("len", <<Nums>>)),
          FnDef("even", <<"n">>, <<If(Bin("==", Id("n"), Num(0)), <<Return(Bool(TRUE))>>, <<>>),
                                   Return(C("odd", <<Bin("-", Id("n"), N1)>>))>>) >>,
       << Try(<<P(C("even", <<Num(2)>>))>>, "e", <<P(Id("e"))>>),
          FnDef("odd", <<"n">>, <<Return(Un("not", Bin("==", Id("n"), Num(2))))>>),
          P(C("even", <<Num(3)>>)) >>,
       << FnDef("down", <<"n">>, <<Return(Bin("and", Id("n"), C("down", <<Bin("-", Id("n"), N1)>>)))>>),
          P(C("down", <<Num(3)>>)), Tried(C("down", <<Num(4)>>)), Let("x", N1),
          FnDef("seeX", <<>>, <<Return(Id("x"))>>), Let("x", Num(2)),
          P(C("seeX", <<>>)), Assign("x", Num(3)), P(C("seeX", <<>>)), P(Id("x")) >>,
       << Let("x", Num(4)), FnDef("setY", <<>>, <<Assign("y", Id("x"))>>),
          Tried(C("setY", <<>>)), Let("y", N1), P(C("setY", <<>>)), P(Id("y")), P(C("seeX", <<>>)) >> >>
Closures ==
    << << FnDef("counter", <<"n">>,
             << Let("step", N1),
                FnDef("bump", <<"by">>, << Let("deep", Fn(<<>>, Plus(Id("n"), Id("step")))),
                                            Assign("n", Plus(C("deep", <<>>), Id("by"))),
                                            Return(Id("n")) >>),
                Return(List(<<Id("bump"), Fn(<<>>, Id("n"))>>)) >>),
          Let("a", C("counter", <<N1>>)), Let("b", C("counter", <<Num(5)>>)),
          P(Call(Index(Id("a"), Num(0)), <<N1>>)), P(Call(Index(Id("b"), Num(0)), <<N1>>)) >>,
       << P(Call(Index(Id("a"), N1), <<>>)), Do(Call(Index(Id("a"), Num(0)), <<Num(3)>>)), Do(Boom) >>,
       << P(Call(Index(Id("a"), N1), <<>>)), Let("l", List(<<>>)),
          FnDef("add", <<"v">>, <<Do(C("push", <<Id("l"), Id("v")>>)), Return(C("len", <<Id("l")>>))>>),
          FnDef("drop", <<>>, <<Return(C("pop", <<Id("l")>>))>>),
          FnDef("put", <<"i", "v">>, <<IndexAssign("l", Id("i"), Id("v"))>>),
          P(C("add", <<N1>>)), P(C("add", <<Num(2)>>)) >>,
       << Do(C("put", <<Num(0), S("z")>>)), P(C("drop", <<>>)), Do(C("add", <<Num(9)>>)),
          Assign("l", N1), P(C("nowhere", <<>>)) >>,
       << P(Id("l")), Tried(C("put", <<Num(2), N1>>)), P(C("add", <<Num(3)>>)) >> >>

(* Lines that fail after they changed everything a line can change. *)
RolledBackLines ==
    << << Let("a", N1), Let("l", Nums), Let("d", Ab), FnDef("inc", <<>>, <<Assign("a", Plus(Id("a"), N1))>>) >>,
       << Assign("a", Num(2)), Do(C("pop", <<Id("l")>>)), IndexAssign("d", S("a"), Num(9)),
          Let("new", N1), FnDef("g", <<>>, <<>>), Do(C("inc", <<>>)), Let("a", Num(7)), Do(Boom) >>,
       << P(Id("a")), P(Id("l")), P(Id("d")), Tried(Id("new")), Tried(C("g", <<>>)), Do(C("inc", <<>>)), P(Id("a")) >>,
       << Try(<<Let("t", N1), Do(Fn(<<>>, Id("t"))), Assign("a", Num(5)), Do(Boom)>>, "e",
              <<Assign("l", Id("e")), P(Id("a"))>>) >>,
       << Let("o", N1), If(Id("o"), <<Let("p", N1), Let("q", Fn(<<>>, Id("p"))), Do(Boom)>>, <<>>) >>,
       << Let("z", Num(2)), If(Id("z"), <<Let("p", Num(2)), P(Id("p"))>>, <<>>), P(Id("l")) >>, << Break >>,
       << P(Id("z")), Let("z", Num(4)), P(Id("z")), Assign("zz", N1) >>, << Continue >>,
       << P(Id("z")), Let("w", Boom) >>, << Let("z", Num(6)), P(Id("z")), Tried(Id("w")) >> >>

(* The ends of a line that no try can take. *)
Limits ==
    << << Let("a", N1), Try(<<While(Bool(TRUE), <<Assign("a", Num(2))>>)>>, "e", <<>>) >>,
       << P(Id("a")), Tried(List(<<N1, N1, N1, N1, N1>>)) >>,
       << Try(<<FnDef("f", <<"v">>, <<While(Id("v"), <<>>)>>), Do(C("each", <<Nums, Id("f")>>))>>, "e", <<>>) >>,
       << Let("l", List(<<N1, N1, N1, N1>>)), Do(C("push", <<Id("l"), N1>>)) >>,
       << FnDef("r", <<"v">>, <<Return(C("r", <<Id("v")>>))>>), Tried(C("r", <<N1>>)),
          Tried(C("map", <<Nums, Id("r")>>)), P(C("f", <<Num(0)>>)) >>,
       << Do(Un("-", Un("-", Un("-", Un("-", Un("-", Un("-", Un("-", Un("-", Un("-",
             Un("-", Un("-", Un("-", N1))))))))))))) >>,
       << Try(<<Assign("a", Num(3)), Do(C("exit", <<N1>>))>>, "e", <<>>) >>, << P(Id("a")) >> >>

(* Ways out of functions, through the loops and tries they are in. *)
WaysOut ==
    << << FnDef("f", <<"l">>,
             << For("i", Id("l"),
                    << Try(<< While(Bool(TRUE),
                                << Try(<<If(Bin("==", Id("i"), Num(2)), <<Return(Id("i"))>>, <<Break>>)>>,
                                       "e", <<>>) >>) >>, "e", <<>>),
                       If(Bin("==", Id("i"), Num(3)), <<Do(Boom)>>, <<Let("k", Id("i"))>>) >>) >>),
          P(C("f", <<Nums>>)), P(C("f", <<List(<<N1>>)>>)), Tried(C("f", <<List(<<N1, Num(3)>>)>>)),
          Try(<<Do(Boom)>>, "e", <<P(C("f", <<Nums>>))>>) >>,
       << Let("sum", Num(0)),
          FnDef("cb", <<"v">>, <<Try(<<If(Bin("==", Id("v"), Num(2)), <<Do(Boom)>>, <<>>)>>, "e", <<Return(S("a"))>>),
                                 Assign("sum", Plus(Id("sum"), Id("v"))), Return(Bin("<", Id("v"), Num(3)))>>),
          P(C("map", <<Nums, Id("cb")>>)), P(C("filter", <<Nums, Id("cb")>>)), P(C("each", <<Nums, Id("cb")>>)),
          Tried(C("map", <<Nums, Fn(<<"v">>, C("map", <<List(<<Id("v")>>), Fn(<<"w">>, Bin("/", Id("w"), Bin("-", Id("v"), Num(2))))>>))>>)),
          P(C("map", <<Nums, Fn(<<"v">>, C("filter", <<List(<<Id("v"), Num(0)>>), Id("cb")>>))>>)), P(Id("sum")) >>,
       << P(Id("sum")) >> >>

(* Lists and dictionaries compared and printed, which costs fuel for each    *)
(* of their nodes: the last element first, until something differs.         *)
Pair(a, b) == List(<<a, b>>)
Deep(e) == List(<<List(<<List(<<e>>)>>)>>)
Eq(a, b) == Bin("==", a, b)
Composites ==
    << << P(Eq(Ab, Ab)), P(Bin("!=", Deep(N1), Deep(Num(2)))), P(Deep(Ab)),
          P(Eq(Pair(N1, Deep(N1)), Pair(Num(2), Deep(N1)))),
          P(Eq(Pair(Deep(N1), N1), Pair(Deep(N1), Num(2)))), P(Eq(Ab, Dict(<< <<S("a"), N1>> >>))),
          P(Eq(Deep(N1), Pair(N1, N1))), P(Eq(Nums, N1)), P(Bin("!=", Ab, Nums)),
          P(FStr(<<Lit(<<"a">>), Deep(N1), N1, Ab>>)) >>,
       << FnDef("f", <<"v">>, <<Return(List(<<Id("v")>>))>>), P(Eq(C("f", <<N1>>), C("f", <<N1>>))),
          P(FStr(<<C("f", <<Deep(N1)>>)>>)), Do(C("print", <<N1, C("f", <<N1>>), Id("f")>>)),
          P(Eq(Id("f"), Id("f"))), P(Eq(Pair(Id("f"), N1), Pair(Fn(<<>>, N1), N1))) >> >>

(* All but so much of the fuel of a line is spent before it. *)
Spent(rest) ==
    << For("i", Pair(N1, N1), <<For("j", List(<<N1, N1, N1>>), <<For("k", Nums, <<>>)>>)>>),
       For("i", List([n \in 1..(TotalFuel - 26 - rest - 10) |-> N1]), <<>>),
       For("i", Pair(N1, N1), <<For("k", List(<<N1, N1, N1, N1>>), <<>>)>>) >>
AtLimit(rest, e) == << Spent(rest) \o <<Try(<<P(e)>>, "e", <<>>)>> >>
LimitScripts ==
    <<AtLimit(3, Deep(N1)), AtLimit(2, Deep(N1)), AtLimit(3, Eq(Deep(N1), Deep(N1))),
      AtLimit(2, Eq(Deep(N1), Deep(N1))), AtLimit(1, FStr(<<List(<<>>)>>)), AtLimit(0, FStr(<<Ab>>))>>

(* A host function and one whose adapter answers later, called at most once *)
(* by a statement; only the tree has them.                                  *)
Fetch(v) == C("fetch", <<v>>)
Hosted ==
    << << Let("a", Fetch(Plus(N1, N1))), P(Id("a")),
          FnDef("f", <<"v">>, <<P(Id("v")), Return(Id("v"))>>),
          If(Fetch(C("f", <<N1>>)), <<P(List(<<Fetch(N1), C("peek", <<C("f", <<Num(2)>>)>>)>>))>>, <<>>),
          Do(C("peek", <<N1>>)) >>,
       << Assign("a", Num(5)), For("i", Index(Fetch(Nums), Num(0)), <<P(Fetch(Id("i"))), Do(Boom)>>) >>,
       << P(Id("a")), Let("b", List(<<>>)), Do(C("push", <<Id("b"), Fetch(C("len", <<Id("b")>>))>>)),
          IndexAssign("b", Num(0), Plus(S("a"), Index(Index(List(<<Fetch(S("b"))>>), Num(0)), Num(0)))), P(Id("b")) >>,
       << Try(<<P(Bin("/", Fetch(N1), N1))>>, "e", <<P(Fetch(Index(Id("e"), Str(<<"type">>))))>>),
          While(Bin("<", Index(Fetch(C("len", <<Id("b")>>)), Num(0)), Num(3)),
                <<Do(C("push", <<Id("b"), N1>>))>>), P(Id("a")), P(Id("b")) >> >>
InFunctions ==  \* where an adapter may not wait
    << << Let("a", N1), FnDef("g", <<>>, <<Return(Fetch(N1))>>) >>,
       << Assign("a", Num(2)), Try(<<P(C("g", <<>>))>>, "e", <<>>) >>,
       << Do(C("map", <<Nums, Fn(<<"v">>, Fetch(Id("v")))>>)) >>, << P(Id("a")) >> >>

Compared == LoopScripts \o
    <<Operators, Collections, Assignments, Nested, Names, Closures, RolledBackLines, Limits, WaysOut,
      Composites>> \o LimitScripts
TheScripts == Compared \o <<Hosted, InFunctions>>

-----------------------------------------------------------------------------
(* Both engines end every line of a script with the same outcome, fuel and  *)
(* output (docs/design.md:21, docs/language-spec.md:26): over scopes,       *)
(* captures, try, loops, calls, callbacks, rollbacks, composite values and  *)
(* limits.  No f-string and no print of Compared fails, or runs out of fuel, *)
(* in a part behind a composite value; for that see EnginesAgreeOnRendering. *)
Agreed == (TreeDone /\ aborted = {}) => results = lines /\ out = ctx.out
EnginesAgree == script \in DOMAIN Compared => Agreed

(* An f-string or a print with a composite value before a part that fails,  *)
(* or that has an effect when the fuel is all but spent.                    *)
Rendering ==
    << << << Try(<<P(FStr(<<List(<<N1>>), Boom>>))>>, "e", <<>>) >> >>,
       << << Try(<<Do(C("print", <<List(<<N1>>), Boom>>))>>, "e", <<>>) >> >>,
       << << FnDef("f", <<>>, <<P(N1)>>) >> \o Spent(1) \o
          << P(FStr(<<List(<<>>), C("f", <<>>)>>)) >> >> >>

(* The same for Rendering ("differences between the engines: currently      *)
(* none", docs/language-spec.md:26; fuel agrees exactly,                    *)
(* docs/determinism-and-audit.md:2030).  The tree renders and charges a     *)
(* part before it evaluates the next (eval.rs:3899, builtin.rs:419), the    *)
(* machine renders all parts after the last (vm.rs:1757, vm.rs:1541).       *)
EnginesAgreeOnRendering == Agreed

(* The watchdog of the machine never ends a script before its fuel does     *)
(* (watchdog_limit, vm.rs:717): a tick beyond the fuel is the root frame's. *)
WatchdogBelowFuel == ticks <= fuel + 1

(* What the compiler emits is accepted by the verifier, which the code      *)
(* skips for it (VerifiedChunk::from_trusted, verifier.rs:46); and between  *)
(* two lines, failed ones included, the stack holds exactly the compiler's  *)
(* locals and no handler, so that the slots of the next line are right; and *)
(* the watchdog stays out of it.                                            *)
V == INSTANCE Verifier
CodeIsSound ==
    /\ \A i \in DOMAIN chunks : V!Verify(chunks[i])
    /\ ~Running => /\ Len(stack) = Len(compiler.locals)
                   /\ handlers = <<>> /\ natives = <<>>
    /\ WatchdogBelowFuel

(* The lines that the host did not give up print and end as they would if   *)
(* the others were not there and every call were answered at once: a yield, *)
(* a wait, an answer that comes later and an abort leave no trace, and an   *)
(* adapter is started once per call.  Not so when a line is given up in an  *)
(* open block of the top level: abort_session leaves its scope behind.      *)
FetchAtOnce ==
    << FnDef("fetch", <<"v">>, << Do(Call(Id("print"), <<S("call"), Id("v")>>)),
                                   Return(List(<<Id("v")>>)) >>) >>
Immediate(s, program) ==
    LET r == DriverRun(RootFrame(Opened(s), program), 0)
    IN  Finished(r, Snapshot(s), Outcome(r) = "ok")
Prints(o) == SelectSeq(o, LAMBDA args : Len(args) # 2)
Calls(o)  == SelectSeq(o, LAMBDA args : Len(args) = 2)
Kept == SelectSeq([l \in DOMAIN lines |-> l], LAMBDA l : l \notin aborted)
SaidBy(l) == SubSeq(ctx.out, IF l = 1 THEN 1 ELSE lines[l - 1].said + 1, lines[l].said)
LinesStandAlone ==
    (/\ TreeDone /\ mode = "driver"
     /\ script \in DOMAIN Compared \union {Len(Compared) + 1}
     /\ \A l \in DOMAIN lines : lines[l].outcome # "aborted_in_block") =>
        LET begin == Immediate(E!NewContext, IF script \in DOMAIN Compared THEN <<>> ELSE FetchAtOnce)
            all   == FoldLeft(LAMBDA s, l : IF TooDeep(Script[l], MaxAstDepth) THEN s
                                            ELSE Immediate(s, Script[l]), begin, Kept)
        IN  /\ Len(ctx.scopes) = 1 /\ ctx.base = 1
            /\ Prints(all.out) = FlattenSeq([i \in DOMAIN Kept |-> SaidBy(Kept[i])])
            /\ aborted = {} => [i \in DOMAIN ctx.starts |-> Shown(ctx.starts[i][1])]
                                = [i \in DOMAIN Calls(all.out) |-> Calls(all.out)[i][2]]

(* A line read from its text is the program that was written, if its depth  *)
(* is allowed (precedences of docs/language-spec.md); and a text with a      *)
(* token missing is refused, or is a program within the depth limit, with no *)
(* import and no return out of place, that means the same when it is written *)
(* out in full: no recovery of the parser makes up a program.                *)
(* And every node of what was read is charged once: to the root, or to the one  *)
(* body it stands in, which a function value above it keeps charged.        *)
P_ == INSTANCE Parser WITH MaxDepth <- MaxAstDepth
CONSTANT IsRead(_)  \* TheReading
ReadsBack(program) ==
    LET r == P_!Parse(P_!BlockText(program))
    IN  IF TooDeep(program, MaxAstDepth) THEN r.errors > 0
        ELSE r.errors = 0 /\ r.program = program
RECURSIVE Functions(_)  \* the outermost ones
Functions(node) ==
    IF node.k \in {"fn", "lambda"} THEN {node} ELSE UNION {Functions(c) : c \in ToSet(Parts(node))}
ChargedOnce(program) ==
    LET sizes == ClosureBodySizes(program)
        units == {sizes.bodies[i][1] : i \in DOMAIN sizes.bodies}
        roots == UNION {Functions(program[i]) : i \in DOMAIN program}
    IN  /\ FoldSeq(LAMBDA b, n : b[2] + n, sizes.root, sizes.bodies) = NodesOfProgram(program)
        /\ UNION {BodySubtree(fn) : fn \in roots} = units
TheReading(program) ==
    LET text == P_!BlockText(program)
    IN  /\ ReadsBack(program)
        /\ ChargedOnce(program)
        /\ \A i \in DOMAIN text :
             LET r == P_!Parse(RemoveAt(text, i))
             IN  r.errors = 0 =>
                   /\ \A j \in DOMAIN r.program : P_!Placed(r.program[j], TRUE, FALSE)
                   /\ ReadsBack(r.program)
TextsAreRead == (mode = "sync" /\ at \in DOMAIN Script) => IsRead(Script[at])
=============================================================================
