---------------------------- MODULE LinkingProofs ----------------------------
(* Proofs about Linker, Files and Linking: the import graph, what a builtin *)
(* call does to the files, and the modules a run loads.                     *)
EXTENDS Linking, SequenceTheorems, FiniteSetTheorems, WellFoundedInduction, TLAPS

-----------------------------------------------------------------------------
(* The link.  Between two calls of the resolver the texts of the modules   *)
(* are whatever they are; the invariant says how far the search is.         *)

Frames == [module : ModuleIds \union {<<>>}, todo : Seq(Specifier), imports : Seq(ModuleIds)]

IdsOf(specs) == [i \in 1 .. Len(specs) |-> ModuleId(specs[i])]
TextAt(i)    == IF i = 1 THEN program ELSE resolved[stack[i].module]

\* The module frame i waits for, between an import and its end.
Awaited(i) ==
  IF i < Len(stack) THEN {stack[i + 1].module}
  ELSE IF source # NoSource THEN {source.module} ELSE {}

LinkTypes ==
  /\ stack \in Seq(Frames)
  /\ source \in Sources \union {NoSource}
  /\ program \in Program \union {<<>>}
  /\ \A m \in DOMAIN resolved : resolved[m] \in Text

\* Where a link stands.
Standing ==
  /\ phase = "linking" => stack # <<>>
  /\ phase = "linked" /\ stack # <<>> =>
       Len(stack) = 1 /\ stack[1].todo = <<>> /\ source = NoSource
  /\ source # NoSource =>
       /\ stack # <<>>
       /\ source.module \notin Active
       /\ source.module \in Range(stack[Len(stack)].imports)

\* A module that was read is being resolved, once, or has its node.
Placed ==
  /\ \A i, j \in 2 .. Len(stack) : stack[i].module = stack[j].module => i = j
  /\ Active \cap DOMAIN nodes = {}
  /\ DOMAIN resolved = Active \union DOMAIN nodes

\* What a frame has resolved and has to resolve is what its text imports.
Divided ==
  \A i \in 1 .. Len(stack) :
    stack[i].imports \o IdsOf(stack[i].todo) = Ids(TextAt(i))

\* All it has resolved but the last is in the graph.
Behind ==
  \A i \in 1 .. Len(stack) : Range(stack[i].imports) \subseteq DOMAIN nodes \union Awaited(i)

Built ==
  \A m \in DOMAIN nodes :
    /\ nodes[m].hash = resolved[m]
    /\ nodes[m].imports = Ids(resolved[m])
    /\ ImportsOf(m) \subseteq DOMAIN nodes

\* A set that has what the root, the modules being resolved and the nodes
\* in it import.
Leads(T) ==
  /\ RootImports \cap DOMAIN resolved \subseteq T
  /\ \A m \in T \cap DOMAIN nodes : ImportsOf(m) \subseteq T
  /\ \A i \in 2 .. Len(stack) :
       stack[i].module \in T => Range(stack[i].imports) \cap DOMAIN resolved \subseteq T

Reaching == \A T \in SUBSET DOMAIN resolved : Leads(T) => T = DOMAIN resolved

OneText == \A r \in reads : r[1] \in DOMAIN resolved /\ resolved[r[1]] = r[2]

LinkInv ==
  /\ LinkTypes /\ Standing /\ Placed /\ Divided
  /\ Behind /\ Built /\ Acyclic /\ Reaching /\ OneText

-----------------------------------------------------------------------------
(* Sequences. *)

\* A sequence that is not empty ends in one of its elements.
LEMMA LastOf ==
  ASSUME NEW S, NEW s \in Seq(S), s # <<>>
  PROVE  /\ Len(s) \in Nat /\ Len(s) >= 1
         /\ Last(s) = s[Len(s)] /\ Last(s) \in S
         /\ Front(s) \in Seq(S) /\ Len(Front(s)) = Len(s) - 1
         /\ \A i \in 1 .. Len(s) - 1 : Front(s)[i] = s[i]
<1>1. Len(s) \in Nat /\ Len(s) >= 1
  OBVIOUS
<1>2. Last(s) = s[Len(s)] /\ Last(s) \in S
  BY <1>1 DEF Last
<1>3. Front(s) = [i \in 1 .. Len(s) - 1 |-> s[i]]
  BY <1>1 DEF Front
<1> QED BY <1>1, <1>2, <1>3

\* One more specifier goes from what is to be done to what is done.
LEMMA OneMore ==
  ASSUME NEW done \in Seq(ModuleIds), NEW todo \in Seq(Specifier), todo # <<>>
  PROVE  /\ Append(done, ModuleId(Head(todo))) \in Seq(ModuleIds)
         /\ Tail(todo) \in Seq(Specifier) /\ ModuleId(Head(todo)) \in ModuleIds
         /\ Append(done, ModuleId(Head(todo))) \o IdsOf(Tail(todo)) = done \o IdsOf(todo)
         /\ Range(Append(done, ModuleId(Head(todo)))) = Range(done) \union {ModuleId(Head(todo))}
<1> DEFINE id == ModuleId(Head(todo))
<1>1. Head(todo) \in Specifier /\ id \in ModuleIds
  BY DEF ModuleIds
<1>2. IdsOf(todo) \in Seq(ModuleIds) /\ IdsOf(Tail(todo)) \in Seq(ModuleIds)
  BY DEF IdsOf, ModuleIds
<1>3. Append(done, id) \in Seq(ModuleIds) /\ Tail(todo) \in Seq(Specifier)
  BY <1>1
<1>4. Append(done, id) \o IdsOf(Tail(todo)) = done \o IdsOf(todo)
  <2> DEFINE l == Append(done, id) \o IdsOf(Tail(todo))
             r == done \o IdsOf(todo)
  <2>1. l \in Seq(ModuleIds) /\ r \in Seq(ModuleIds)
    BY <1>2, <1>3, ConcatProperties
  <2>2. Len(l) = Len(r)
    BY <1>2, <1>3, ConcatProperties, AppendProperties DEF IdsOf
  <2>3. ASSUME NEW i \in 1 .. Len(l) PROVE l[i] = r[i]
    BY <2>2, <2>3, <1>1, <1>2, <1>3 DEF IdsOf
  <2> QED BY <2>1, <2>2, <2>3, SeqEqual
<1>5. Range(Append(done, id)) = Range(done) \union {id}
  BY <1>1, AppendProperties DEF Range
<1> QED BY <1>1, <1>3, <1>4, <1>5

\* A frame with nothing to resolve has resolved what it holds.
LEMMA NothingLeft ==
  ASSUME NEW done \in Seq(ModuleIds)
  PROVE  done \o IdsOf(<<>>) = done
<1>1. IdsOf(<<>>) = <<>>
  BY DEF IdsOf
<1> QED BY <1>1

\* A new frame has everything its text imports to resolve.
LEMMA NothingDone ==
  ASSUME NEW text \in Program \union Text
  PROVE  /\ Specifiers(text) \in Seq(Specifier)
         /\ <<>> \o IdsOf(Specifiers(text)) = Ids(text)
<1>1. Specifiers(text) \in Seq(Specifier)
  BY LinkerAssumption
<1>2. IdsOf(Specifiers(text)) = Ids(text) /\ Ids(text) \in Seq(ModuleIds)
  BY <1>1 DEF Ids, IdsOf, ModuleIds
<1> QED BY <1>1, <1>2

-----------------------------------------------------------------------------
(* The steps that drop the graph, leave it, or begin one. *)

\* A link that fails, and a run that ends, leave nothing behind.
LEMMA DropsAll ==
  ASSUME Drop, phase' \notin {"linking", "linked"}
  PROVE  LinkInv'
<1>1. stack' = <<>> /\ source' = NoSource /\ program' = <<>> /\ resolved' = <<>>
      /\ nodes' = <<>> /\ reads' = {}
  BY DEF Drop
<1>2. LinkTypes' /\ Standing' /\ Placed' /\ Divided' /\ Behind' /\ Built' /\ Acyclic'
      /\ OneText'
  BY <1>1 DEF LinkTypes, Standing, Placed, Divided, Behind, Built, Acyclic, OneText, Active
<1>3. Reaching'
  BY <1>1 DEF Reaching
<1> QED BY <1>2, <1>3 DEF LinkInv

\* Steps that change neither the graph nor the script.
LEMMA LeavesAll ==
  ASSUME LinkInv, UNCHANGED <<graph, program>>, Standing'
  PROVE  LinkInv'
<1>1. /\ stack' = stack /\ source' = source /\ resolved' = resolved /\ nodes' = nodes
      /\ reads' = reads /\ program' = program
  BY DEF graph
<1> USE <1>1 DEF LinkInv
<1>2. LinkTypes'
  BY DEF LinkTypes
<1>3. Active' = Active
  BY DEF Active
<1>4. Placed'
  BY <1>3 DEF Placed
<1>5. Divided'
  BY DEF Divided, TextAt
<1>6. Behind'
  BY DEF Behind, Awaited
<1>7. Built' /\ Acyclic'
  BY DEF Built, Acyclic, ImportsOf
<1>8. Reaching'
  BY DEF Reaching, Leads, RootImports, ImportsOf
<1>9. OneText'
  BY DEF OneText
<1> QED BY <1>2, <1>4, <1>5, <1>6, <1>7, <1>8, <1>9

\* Start, where nothing refuses the script: an empty graph, and the frame of
\* the script if it has imports to resolve.
LEMMA BeginsAll ==
  ASSUME NEW text \in Program,
         stack' \in {<<>>, <<Frame(<<>>, text)>>},
         phase' = IF stack' = <<>> THEN "linked" ELSE "linking",
         program' = text, source' = NoSource, resolved' = <<>>, nodes' = <<>>, reads' = {}
  PROVE  LinkInv'
<1> DEFINE f == Frame(<<>>, text)
<1>1. f \in Frames /\ f.imports = <<>> /\ f.todo = Specifiers(text)
  BY NothingDone DEF Frame, Frames
<1>2. stack' \in Seq(Frames) /\ Len(stack') \in {0, 1}
      /\ \A i \in 1 .. Len(stack') : i = 1 /\ stack'[i] = f
  <2> HIDE DEF f
  <2>1. <<f>> \in Seq(Frames) /\ Len(<<f>>) = 1 /\ <<f>>[1] = f
    BY <1>1
  <2>2. CASE stack' = <<>>
    BY <2>2
  <2>3. CASE stack' = <<f>>
    BY <2>1, <2>3
  <2> QED BY <2>2, <2>3 DEF f
<1> HIDE DEF f
<1>3. LinkTypes'
  BY <1>2 DEF LinkTypes
<1>4. Standing'
  BY <1>2 DEF Standing
<1>5. Active' = {}
  BY <1>2 DEF Active
<1>6. Placed'
  BY <1>2, <1>5 DEF Placed
<1>7. Divided'
  BY <1>1, <1>2, NothingDone DEF Divided, TextAt
<1>8. Behind'
  BY <1>1, <1>2 DEF Behind, Range
<1>9. Built' /\ Acyclic' /\ OneText'
  BY DEF Built, Acyclic, OneText
<1>10. Reaching'
  BY DEF Reaching
<1> QED BY <1>3, <1>4, <1>6, <1>7, <1>8, <1>9, <1>10 DEF LinkInv

-----------------------------------------------------------------------------
(* The resolver opens a module. *)

\* The innermost frame goes to its next import, id.
Advances(id) ==
  LET n == Len(stack)
  IN  /\ n \in Nat /\ n >= 1 /\ Len(stack') = n /\ stack' \in Seq(Frames)
      /\ \A i \in 1 .. n : stack'[i].module = stack[i].module
      /\ \A i \in 1 .. n : i # n => stack'[i] = stack[i]
      /\ stack'[n].imports \o IdsOf(stack'[n].todo) = stack[n].imports \o IdsOf(stack[n].todo)
      /\ Range(stack'[n].imports) = Range(stack[n].imports) \union {id}

\* The next import of the top frame is taken from what it has to resolve.
LEMMA ImportAdvances ==
  ASSUME LinkInv, stack # <<>>, Top.todo # <<>>,
         stack' = [stack EXCEPT ![Len(stack)].todo = Tail(@),
                                ![Len(stack)].imports = Append(@, ModuleId(Head(Top.todo)))]
  PROVE  Advances(ModuleId(Head(Top.todo))) /\ ModuleId(Head(Top.todo)) \in ModuleIds
<1> DEFINE n  == Len(stack)
           id == ModuleId(Head(Top.todo))
           f  == [stack[n] EXCEPT !.todo = Tail(@), !.imports = Append(@, id)]
<1>1. stack \in Seq(Frames) /\ n \in Nat /\ n >= 1 /\ Top = stack[n] /\ Top \in Frames
  BY LastOf DEF LinkInv, LinkTypes, Top
<1>2. /\ stack[n].imports \in Seq(ModuleIds) /\ stack[n].todo \in Seq(Specifier)
      /\ stack[n].todo # <<>>
  BY <1>1 DEF Frames
<1>3. /\ Append(stack[n].imports, id) \in Seq(ModuleIds)
      /\ Tail(stack[n].todo) \in Seq(Specifier)
      /\ Append(stack[n].imports, id) \o IdsOf(Tail(stack[n].todo))
           = stack[n].imports \o IdsOf(stack[n].todo)
      /\ Range(Append(stack[n].imports, id)) = Range(stack[n].imports) \union {id}
      /\ id \in ModuleIds
  BY <1>1, <1>2, OneMore
<1>4. /\ f \in Frames /\ f.module = stack[n].module /\ f.todo = Tail(stack[n].todo)
      /\ f.imports = Append(stack[n].imports, id)
  BY <1>1, <1>3 DEF Frames
<1>5. stack' = [stack EXCEPT ![n] = f]
  BY <1>1
<1> HIDE DEF f, id
<1>6. \A i \in 1 .. n : stack'[i] = IF i = n THEN f ELSE stack[i]
  BY ONLY <1>1, <1>5
<1>7. stack' \in Seq(Frames) /\ Len(stack') = n
  BY ONLY <1>1, <1>4, <1>5
<1>8. stack'[n] = f /\ n \in 1 .. n
  BY ONLY <1>1, <1>6
<1>9. \A i \in 1 .. n : stack'[i].module = stack[i].module
  BY ONLY <1>4, <1>6
<1>10. /\ stack'[n].imports \o IdsOf(stack'[n].todo) = stack[n].imports \o IdsOf(stack[n].todo)
       /\ Range(stack'[n].imports) = Range(stack[n].imports) \union {id}
  BY ONLY <1>3, <1>4, <1>8
<1>11. Advances(id)
  BY ONLY <1>1, <1>6, <1>7, <1>9, <1>10 DEF Advances
<1> QED BY <1>3, <1>11 DEF id

\* The source of an import is opened.
LEMMA OpensOne ==
  ASSUME LinkInv, NEW found \in Text, NEW id \in ModuleIds,
         phase = "linking", source = NoSource, id \notin Active,
         source' = [module |-> id, offset |-> 0, text |-> found], Advances(id),
         phase' = phase, program' = program, resolved' = resolved, nodes' = nodes,
         reads' = reads
  PROVE  LinkInv'
<1> DEFINE n == Len(stack)
<1>1. n \in Nat /\ n >= 1 /\ Len(stack') = n /\ stack' \in Seq(Frames) /\ n \in 1 .. n
  BY DEF Advances
<1>2. \A i \in 1 .. n : stack'[i].module = stack[i].module
  BY DEF Advances
<1>3. \A i \in 1 .. n : i # n => stack'[i] = stack[i]
  BY DEF Advances
<1>4. stack'[n].imports \o IdsOf(stack'[n].todo) = stack[n].imports \o IdsOf(stack[n].todo)
  BY DEF Advances
<1>5. Range(stack'[n].imports) = Range(stack[n].imports) \union {id}
  BY DEF Advances
<1>6. source'.module = id /\ source' \in Sources /\ source' # NoSource
  <2>1. source' \in Sources /\ source'.module = id
    BY DEF Sources
  <2> QED BY <2>1, LinkerAssumption
<1>7. LinkTypes'
  BY <1>1, <1>6 DEF LinkInv, LinkTypes
<1>8. Active' = Active
  BY <1>1, <1>2 DEF Active
<1>9. Standing'
  <2>1. id \in Range(stack'[n].imports)
    BY <1>5
  <2>2. id \notin Active'
    BY <1>8
  <2> QED BY <1>1, <1>6, <2>1, <2>2 DEF Standing
<1>10. Placed'
  BY <1>1, <1>2, <1>8 DEF LinkInv, Placed
<1>11. Divided'
  <2>1. \A i \in 1 .. n : TextAt(i)' = TextAt(i)
    BY <1>2 DEF TextAt
  <2>2. ASSUME NEW i \in 1 .. n
        PROVE  stack'[i].imports \o IdsOf(stack'[i].todo)
                 = stack[i].imports \o IdsOf(stack[i].todo)
    <3>1. CASE i = n
      BY <3>1, <1>4
    <3>2. CASE i # n
      BY <3>2, <1>3
    <3> QED BY <3>1, <3>2
  <2> QED BY <2>1, <2>2, <1>1 DEF LinkInv, Divided
<1>12. Behind'
  <2> SUFFICES ASSUME NEW i \in 1 .. n
               PROVE  Range(stack'[i].imports) \subseteq DOMAIN nodes \union Awaited(i)'
    BY <1>1 DEF Behind
  <2>1. CASE i = n
    <3>1. Awaited(n) = {} /\ Awaited(n)' = {id}
      BY <1>1, <1>6 DEF Awaited
    <3> QED BY <2>1, <3>1, <1>1, <1>5 DEF LinkInv, Behind
  <2>2. CASE i # n
    <3>1. Awaited(i)' = Awaited(i) /\ stack'[i] = stack[i]
      <4>1. i < n /\ i + 1 \in 1 .. n
        BY <2>2, <1>1
      <4>2. stack'[i] = stack[i] /\ stack'[i + 1].module = stack[i + 1].module
        BY <4>1, <2>2, <1>2, <1>3
      <4> QED BY <4>1, <4>2, <1>1 DEF Awaited
    <3> QED BY <3>1, <1>1 DEF LinkInv, Behind
  <2> QED BY <2>1, <2>2
<1>13. Built' /\ Acyclic' /\ OneText'
  BY DEF LinkInv, Built, Acyclic, ImportsOf, OneText
<1>14. Reaching'
  <2> SUFFICES ASSUME NEW T \in SUBSET DOMAIN resolved, Leads(T)' PROVE T = DOMAIN resolved
    BY DEF Reaching
  <2>1. \A i \in 1 .. n : Range(stack[i].imports) \subseteq Range(stack'[i].imports)
    BY <1>3, <1>5
  <2>2. RootImports \subseteq RootImports'
    BY <2>1, <1>1 DEF RootImports
  <2>3. Leads(T)
    <3>1. RootImports \cap DOMAIN resolved \subseteq T
      BY <2>2 DEF Leads
    <3>2. \A m \in T \cap DOMAIN nodes : ImportsOf(m) \subseteq T
      BY DEF Leads, ImportsOf
    <3>3. ASSUME NEW i \in 2 .. n, stack[i].module \in T
          PROVE  Range(stack[i].imports) \cap DOMAIN resolved \subseteq T
      <4>1. i \in 1 .. n /\ stack'[i].module \in T
        BY <3>3, <1>1, <1>2
      <4>2. Range(stack'[i].imports) \cap DOMAIN resolved \subseteq T
        BY <3>3, <4>1, <1>1 DEF Leads
      <4> QED BY <4>1, <4>2, <2>1
    <3> QED BY <3>1, <3>2, <3>3 DEF Leads
  <2> QED BY <2>3 DEF LinkInv, Reaching
<1> QED BY <1>7, <1>9, <1>10, <1>11, <1>12, <1>13, <1>14 DEF LinkInv

-----------------------------------------------------------------------------
(* A source was read to its end. *)

\* It is that of a module of the graph.
LEMMA KnownOne ==
  ASSUME LinkInv, phase = "linking", source # NoSource,
         source.module \in DOMAIN resolved, resolved[source.module] = source.text,
         source' = NoSource, reads' = reads \union {<<source.module, source.text>>},
         UNCHANGED <<phase, program, resolved, nodes, stack>>
  PROVE  LinkInv'
<1> DEFINE id == source.module
<1>1. id \in DOMAIN nodes
  BY DEF LinkInv, Placed, Standing
<1>2. LinkTypes' /\ Standing'
  BY DEF LinkInv, LinkTypes, Standing
<1>3. Active' = Active
  BY DEF Active
<1>4. Placed' /\ Divided'
  BY <1>3 DEF LinkInv, Placed, Divided, TextAt
<1>5. Behind'
  BY <1>1 DEF LinkInv, Behind, Awaited
<1>6. Built' /\ Acyclic'
  BY DEF LinkInv, Built, Acyclic, ImportsOf
<1>7. Reaching'
  BY DEF LinkInv, Reaching, Leads, RootImports, ImportsOf
<1>8. OneText'
  BY DEF LinkInv, OneText
<1> QED BY <1>2, <1>4, <1>5, <1>6, <1>7, <1>8 DEF LinkInv

\* It is new: its imports are to be resolved.
LEMMA NewOne ==
  ASSUME LinkInv, phase = "linking", source # NoSource,
         source.module \notin DOMAIN resolved,
         source' = NoSource, reads' = reads \union {<<source.module, source.text>>},
         resolved' = [m \in DOMAIN resolved \union {source.module} |->
                        IF m = source.module THEN source.text ELSE resolved[m]],
         stack' = Append(stack, Frame(source.module, source.text)),
         UNCHANGED <<phase, program, nodes>>
  PROVE  LinkInv'
<1> PICK n : n = Len(stack)
  OBVIOUS
<1> DEFINE id   == source.module
           text == source.text
           f    == Frame(id, text)
<1>1. stack \in Seq(Frames) /\ n \in Nat /\ n >= 1 /\ source \in Sources
      /\ id \in ModuleIds /\ text \in Text /\ id \notin Active
      /\ id \in Range(stack[n].imports)
  BY LastOf DEF LinkInv, LinkTypes, Standing, Sources
<1> HIDE DEF f
<1>2. f \in Frames /\ f.module = id /\ f.todo = Specifiers(text) /\ f.imports = <<>>
  BY <1>1, NothingDone DEF f, Frame, Frames
<1>3. stack' \in Seq(Frames) /\ Len(stack') = n + 1 /\ stack'[n + 1] = f
      /\ \A i \in 1 .. n : stack'[i] = stack[i]
  BY <1>1, <1>2 DEF f
<1>4. DOMAIN resolved' = DOMAIN resolved \union {id} /\ resolved'[id] = text
      /\ \A m \in DOMAIN resolved : resolved'[m] = resolved[m]
  OBVIOUS
<1> HIDE DEF id, text
<1>5. Active' = Active \union {id}
  <2>1. \A i \in 2 .. n + 1 : stack'[i].module = IF i = n + 1 THEN id ELSE stack[i].module
    BY <1>1, <1>2, <1>3
  <2> QED BY <1>1, <1>3, <2>1 DEF Active
<1>6. DOMAIN resolved = Active \union DOMAIN nodes
  BY DEF LinkInv, Placed
<1>7. LinkTypes'
  BY <1>1, <1>3, <1>4 DEF LinkInv, LinkTypes
<1>8. Standing'
  BY <1>1, <1>3 DEF LinkInv, Standing
<1>9. Placed'
  <2>1. ASSUME NEW i \in 2 .. n + 1, NEW j \in 2 .. n + 1, stack'[i].module = stack'[j].module
        PROVE  i = j
    <3>1. \A k \in 2 .. n : stack'[k] = stack[k] /\ stack[k].module # id
      BY <1>1, <1>3 DEF Active
    <3>2. CASE i = n + 1 \/ j = n + 1
      BY <2>1, <3>1, <3>2, <1>1, <1>2, <1>3
    <3>3. CASE i \in 2 .. n /\ j \in 2 .. n
      BY <2>1, <3>1, <3>3 DEF LinkInv, Placed
    <3> QED BY <3>2, <3>3, <1>1
  <2>2. Active' \cap DOMAIN nodes = {}
    BY <1>4, <1>5, <1>6 DEF LinkInv, Placed, id
  <2> QED BY <2>1, <2>2, <1>3, <1>4, <1>5, <1>6 DEF Placed
<1>10. \A i \in 1 .. n : TextAt(i)' = TextAt(i)
  <2>1. \A i \in 2 .. n : stack[i].module \in DOMAIN resolved
    BY <1>6 DEF Active
  <2> QED BY <2>1, <1>1, <1>3, <1>4 DEF TextAt
<1>11. Divided'
  <2>1. TextAt(n + 1)' = text
    <3>1. n + 1 # 1 /\ stack'[n + 1].module = id
      BY <1>1, <1>2, <1>3
    <3> QED BY ONLY <3>1, <1>4 DEF TextAt
  <2>2. \A i \in 1 .. n : stack'[i].imports \o IdsOf(stack'[i].todo) = Ids(TextAt(i)')
    BY <1>1, <1>3, <1>10 DEF LinkInv, Divided
  <2>3. stack'[n + 1].imports \o IdsOf(stack'[n + 1].todo) = Ids(TextAt(n + 1)')
    BY <2>1, <1>1, <1>2, <1>3, NothingDone
  <2>4. \A i \in 1 .. n + 1 : i \in 1 .. n \/ i = n + 1
    BY <1>1
  <2> QED BY ONLY <2>2, <2>3, <2>4, <1>3 DEF Divided
<1>12. Behind'
  <2>1. Range(<<>>) = {}
    BY DEF Range
  <2>2. \A i \in 1 .. n : Awaited(i)' = Awaited(i)
    <3>1. source' = NoSource /\ \A i \in 1 .. n : i < n => i + 1 \in 1 .. n
      BY <1>1
    <3>2. \A i \in 1 .. n : i < n => Awaited(i)' = Awaited(i)
      BY <3>1, <1>1, <1>3 DEF Awaited
    <3>3. Awaited(n) = {id}
      BY <1>1 DEF Awaited, id
    <3>4. Awaited(n)' = {id}
      BY <1>1, <1>2, <1>3 DEF Awaited
    <3>5. \A i \in 1 .. n : i < n \/ i = n
      BY <1>1
    <3> QED BY ONLY <3>2, <3>3, <3>4, <3>5
  <2> QED BY <2>1, <2>2, <1>1, <1>2, <1>3 DEF LinkInv, Behind
<1>13. Built' /\ Acyclic'
  BY <1>4, <1>6 DEF LinkInv, Built, Acyclic, ImportsOf
<1>14. Reaching'
  <2> SUFFICES ASSUME NEW T \in SUBSET DOMAIN resolved', Leads(T)' PROVE T = DOMAIN resolved'
    BY DEF Reaching
  <2> DEFINE U == T \cap DOMAIN resolved
  <2>1. RootImports' = RootImports
    BY <1>1, <1>3 DEF RootImports
  <2>2. Leads(U)
    <3>1. RootImports \cap DOMAIN resolved \subseteq U
      BY <2>1, <1>4 DEF Leads
    <3>2. \A m \in U \cap DOMAIN nodes : ImportsOf(m) \subseteq U
      BY <1>6 DEF Leads, ImportsOf, LinkInv, Built
    <3>3. ASSUME NEW i \in 2 .. n, stack[i].module \in U
          PROVE  Range(stack[i].imports) \cap DOMAIN resolved \subseteq U
      BY <3>3, <1>1, <1>3, <1>4 DEF Leads
    <3> QED BY <3>1, <3>2, <3>3 DEF Leads
  <2>3. U = DOMAIN resolved
    BY <2>2 DEF LinkInv, Reaching
  <2>4. id \in T
    <3>1. CASE n = 1
      BY <3>1, <1>1, <1>3, <1>4 DEF Leads, RootImports
    <3>2. CASE n > 1
      <4>1. stack[n].module \in T /\ n \in 2 .. n + 1 /\ stack'[n] = stack[n]
        BY <3>2, <2>3, <1>1, <1>3, <1>6 DEF Active
      <4> QED BY <4>1, <1>1, <1>3, <1>4 DEF Leads
    <3>3. n = 1 \/ n > 1
      BY <1>1
    <3> QED BY <3>1, <3>2, <3>3
  <2> QED BY <2>3, <2>4, <1>4
<1>15. OneText'
  BY <1>4 DEF LinkInv, OneText, id, text
<1> QED BY <1>7, <1>8, <1>9, <1>11, <1>12, <1>13, <1>14, <1>15 DEF LinkInv

-----------------------------------------------------------------------------
(* A chunk of a source is read. *)

\* The offset of a source is none of the invariant.
LEMMA ChunkAdvances ==
  ASSUME LinkInv, source # NoSource, source \in Sources,
         source' = [source EXCEPT !.offset = ChunkEnd(@)],
         UNCHANGED <<phase, result, program, cancelled, stack, resolved, nodes, reads>>
  PROVE  LinkInv'
<1>1. source'.module = source.module /\ source' \in Sources /\ source' # NoSource
  <2>1. source'.module = source.module /\ source' \in Sources
    BY DEF Sources, ChunkEnd
  <2> QED BY <2>1, LinkerAssumption
<1>2. /\ phase' = phase /\ program' = program /\ stack' = stack /\ resolved' = resolved
      /\ nodes' = nodes /\ reads' = reads
  OBVIOUS
<1>3. LinkTypes'
  BY <1>1, <1>2 DEF LinkInv, LinkTypes
<1>4. Active' = Active
  BY <1>2 DEF Active
<1>5. Standing'
  BY <1>1, <1>2, <1>4 DEF LinkInv, Standing
<1>6. Placed' /\ Divided'
  BY <1>2, <1>4 DEF LinkInv, Placed, Divided, TextAt
<1>7. Behind'
  BY <1>1, <1>2 DEF LinkInv, Behind, Awaited
<1>8. Built' /\ Acyclic' /\ OneText'
  BY <1>2 DEF LinkInv, Built, Acyclic, ImportsOf, OneText
<1>9. Reaching'
  BY <1>2 DEF LinkInv, Reaching, Leads, RootImports, ImportsOf
<1> QED BY <1>3, <1>5, <1>6, <1>7, <1>8, <1>9 DEF LinkInv

-----------------------------------------------------------------------------
(* The imports of a module are resolved. *)

\* A frame that is through becomes a node.
LEMMA NodeJoins ==
  ASSUME LinkInv, phase = "linking", Return
  PROVE  LinkInv'
<1> PICK n : n = Len(stack)
  OBVIOUS
<1> PICK id : id = stack[n].module
  OBVIOUS
<1>1. /\ stack \in Seq(Frames) /\ n \in Nat /\ n >= 2 /\ n - 1 \in Nat
      /\ source = NoSource /\ Top = stack[n] /\ stack[n].todo = <<>>
      /\ stack[n].imports \in Seq(ModuleIds)
  <2>1. stack \in Seq(Frames) /\ n \in Nat /\ n >= 2 /\ source = NoSource /\ Top.todo = <<>>
    BY DEF Return, LinkInv, LinkTypes
  <2>2. stack # <<>>
    BY <2>1
  <2>3. Top = stack[n] /\ Top \in Frames
    BY <2>1, <2>2, LastOf DEF Top
  <2> QED BY <2>1, <2>3 DEF Frames
<1>2. /\ stack' \in Seq(Frames) /\ Len(stack') = n - 1
      /\ \A i \in 1 .. n - 1 : stack'[i] = stack[i]
  <2>1. stack' = Front(stack) /\ stack # <<>>
    BY <1>1 DEF Return
  <2> QED BY <2>1, <1>1, LastOf
<1>3. /\ DOMAIN nodes' = DOMAIN nodes \union {id}
      /\ nodes'[id].hash = resolved[id] /\ nodes'[id].imports = stack[n].imports
      /\ \A m \in DOMAIN nodes : m # id => nodes'[m] = nodes[m]
  BY <1>1 DEF Return
<1>4. /\ phase' = phase /\ program' = program /\ source' = NoSource
      /\ resolved' = resolved /\ reads' = reads
  BY <1>1 DEF Return, request
<1>5. /\ id \in Active /\ id \notin DOMAIN nodes
      /\ DOMAIN resolved = Active \union DOMAIN nodes
      /\ \A i \in 2 .. n - 1 : stack[i].module # id
  <2>1. n \in 2 .. n /\ \A i \in 2 .. n - 1 : i \in 2 .. n /\ i # n
    BY <1>1
  <2> QED BY <2>1 DEF LinkInv, Placed, Active
<1>6. Active' = Active \ {id}
  <2>1. Active' = {stack[i].module : i \in 2 .. n - 1}
    <3>1. Active' = {stack'[i].module : i \in 2 .. n - 1}
      BY <1>2 DEF Active
    <3>2. \A i \in 2 .. n - 1 : stack'[i] = stack[i]
      BY <1>1, <1>2
    <3> QED BY ONLY <3>1, <3>2
  <2>2. \A i \in 2 .. n : i = n \/ i \in 2 .. n - 1
    BY <1>1
  <2>3. \A i \in 2 .. n - 1 : i \in 2 .. n
    BY <1>1
  <2> QED BY ONLY <2>1, <2>2, <2>3, <1>5, n = Len(stack), id = stack[n].module DEF Active
<1>7. stack[n].imports = Ids(resolved[id]) /\ Range(stack[n].imports) \subseteq DOMAIN nodes
  <2>1. n \in 1 .. n /\ n # 1
    BY <1>1
  <2>2. stack[n].imports \o IdsOf(<<>>) = Ids(resolved[id])
    BY <2>1, <1>1 DEF LinkInv, Divided, TextAt
  <2>3. Awaited(n) = {}
    BY <1>1 DEF Awaited
  <2>4. Range(stack[n].imports) \subseteq DOMAIN nodes
    BY <2>1, <2>3 DEF LinkInv, Behind
  <2> QED BY <2>2, <2>4, <1>1, NothingLeft
<1>8. LinkTypes'
  BY <1>2, <1>4 DEF LinkInv, LinkTypes
<1>9. Standing'
  <2>1. stack' # <<>>
    BY <1>1, <1>2
  <2> QED BY <2>1, <1>4 DEF Standing
<1>10. Placed'
  <2>1. \A i \in 2 .. n - 1 : i \in 2 .. n /\ i \in 1 .. n - 1
    BY <1>1
  <2>2. \A i, j \in 2 .. n - 1 : stack'[i].module = stack'[j].module => i = j
    BY <2>1, <1>2 DEF LinkInv, Placed
  <2>3. Active' \cap DOMAIN nodes' = {} /\ DOMAIN resolved' = Active' \union DOMAIN nodes'
    BY <1>3, <1>4, <1>5, <1>6 DEF LinkInv, Placed
  <2> QED BY <2>2, <2>3, <1>2 DEF Placed
<1>11. Divided'
  <2>1. \A i \in 1 .. n - 1 : TextAt(i)' = TextAt(i) /\ i \in 1 .. n
    BY <1>1, <1>2, <1>4 DEF TextAt
  <2> QED BY <2>1, <1>2 DEF LinkInv, Divided
<1>12. Behind'
  <2> SUFFICES ASSUME NEW i \in 1 .. n - 1
               PROVE  Range(stack[i].imports) \subseteq DOMAIN nodes' \union Awaited(i)'
    BY <1>2 DEF Behind
  <2>1. i \in 1 .. n /\ i < n /\ Awaited(i) = {stack[i + 1].module}
    BY <1>1 DEF Awaited
  <2>2. Range(stack[i].imports) \subseteq DOMAIN nodes \union {stack[i + 1].module}
    BY <2>1 DEF LinkInv, Behind
  <2>3. CASE i = n - 1
    BY <2>2, <2>3, <1>1, <1>3
  <2>4. CASE i < n - 1
    <3>1. i + 1 \in 1 .. n - 1
      BY <2>4, <1>1
    <3>2. Awaited(i)' = {stack[i + 1].module}
      BY <2>4, <3>1, <1>2 DEF Awaited
    <3> QED BY <2>2, <3>2, <1>3
  <2>5. i = n - 1 \/ i < n - 1
    BY <1>1
  <2> QED BY <2>3, <2>4, <2>5
<1>13. /\ \A m \in DOMAIN nodes : ImportsOf(m)' = ImportsOf(m)
       /\ Range(nodes'[id].imports) = Range(stack[n].imports)
  BY <1>3, <1>5 DEF ImportsOf
<1>14. Built'
  <2>1. ASSUME NEW m \in DOMAIN nodes
        PROVE  /\ nodes'[m].hash = resolved'[m] /\ nodes'[m].imports = Ids(resolved'[m])
               /\ ImportsOf(m)' \subseteq DOMAIN nodes'
    BY <1>3, <1>4, <1>5, <1>13 DEF LinkInv, Built
  <2>2. /\ nodes'[id].hash = resolved'[id] /\ nodes'[id].imports = Ids(resolved'[id])
        /\ Range(nodes'[id].imports) \subseteq DOMAIN nodes'
    BY <1>3, <1>4, <1>7
  <2> QED BY <2>1, <2>2, <1>3 DEF Built, ImportsOf
<1>15. Acyclic'
  <2> SUFFICES ASSUME NEW S \in SUBSET DOMAIN nodes', S # {}
               PROVE  \E m \in S : Range(nodes'[m].imports) \cap S = {}
    BY DEF Acyclic, ImportsOf
  <2>1. CASE S \cap DOMAIN nodes = {}
    BY <2>1, <1>3, <1>7, <1>13
  <2>2. CASE S \cap DOMAIN nodes # {}
    <3>1. PICK m \in S \cap DOMAIN nodes : ImportsOf(m) \cap (S \cap DOMAIN nodes) = {}
      BY <2>2 DEF LinkInv, Acyclic
    <3>2. ImportsOf(m) \subseteq DOMAIN nodes /\ Range(nodes'[m].imports) = ImportsOf(m)
      BY <3>1, <1>3, <1>5 DEF LinkInv, Built, ImportsOf
    <3> QED BY <3>1, <3>2
  <2> QED BY <2>1, <2>2
<1>16. Reaching'
  <2> SUFFICES ASSUME NEW T \in SUBSET DOMAIN resolved, Leads(T)' PROVE T = DOMAIN resolved
    BY <1>4 DEF Reaching
  <2>1. RootImports' = RootImports
    <3>1. 1 \in 1 .. n - 1 /\ stack # <<>> /\ stack' # <<>>
      BY <1>1, <1>2
    <3> QED BY <3>1, <1>2 DEF RootImports
  <2>2. Leads(T)
    <3>1. RootImports \cap DOMAIN resolved \subseteq T
      BY <2>1, <1>4 DEF Leads
    <3>2. \A m \in T \cap DOMAIN nodes : ImportsOf(m) \subseteq T
      BY <1>3, <1>13 DEF Leads
    <3>3. ASSUME NEW i \in 2 .. n, stack[i].module \in T
          PROVE  Range(stack[i].imports) \cap DOMAIN resolved \subseteq T
      <4>1. CASE i = n
        BY <3>3, <4>1, <1>3, <1>13 DEF Leads, ImportsOf
      <4>2. CASE i \in 2 .. n - 1
        <5>1. stack'[i] = stack[i]
          BY <4>2, <1>1, <1>2
        <5> QED BY <3>3, <4>2, <5>1, <1>2, <1>4 DEF Leads
      <4>3. i = n \/ i \in 2 .. n - 1
        BY <1>1
      <4> QED BY <4>1, <4>2, <4>3
    <3> QED BY <3>1, <3>2, <3>3 DEF Leads
  <2> QED BY <2>2 DEF LinkInv, Reaching
<1>17. OneText'
  BY <1>4 DEF LinkInv, OneText
<1> QED BY <1>8, <1>9, <1>10, <1>11, <1>12, <1>14, <1>15, <1>16, <1>17 DEF LinkInv

-----------------------------------------------------------------------------
(* The invariant. *)

\* No link has begun.
LEMMA LinkInvStarts == LinkerInit => LinkInv
<1> SUFFICES ASSUME LinkerInit PROVE LinkInv
  OBVIOUS
<1> USE DEF LinkerInit
<1>1. LinkTypes /\ Standing /\ Placed /\ Divided /\ Behind /\ Built /\ Acyclic /\ OneText
  BY DEF LinkTypes, Standing, Placed, Divided, Behind, Built, Acyclic, OneText, Active
<1>2. Reaching
  BY DEF Reaching
<1> QED BY <1>1, <1>2 DEF LinkInv

\* Every step of a link keeps the invariant.
LEMMA LinkInvStep == LinkInv /\ [LinkerNext]_linkerVars => LinkInv'
<1> SUFFICES ASSUME LinkInv, [LinkerNext]_linkerVars PROVE LinkInv'
  OBVIOUS
<1>1. ASSUME NEW text \in Program, NEW from, NEW identity, NEW already,
             Start(text, from, identity, already)
      PROVE  LinkInv'
  <2>1. CASE \E error : Fail(error)
    BY <2>1, DropsAll DEF Fail
  <2>2. CASE ~\E error : Fail(error)
    <3>1. /\ stack' \in {<<>>, <<Frame(<<>>, text)>>}
          /\ phase' = IF stack' = <<>> THEN "linked" ELSE "linking"
          /\ program' = text /\ source' = NoSource /\ resolved' = <<>> /\ nodes' = <<>>
          /\ reads' = {}
      BY <1>1, <2>2 DEF Start
    <3> QED BY <3>1, BeginsAll
  <2> QED BY <2>1, <2>2
<1>2. ASSUME NEW found \in Text \union {NoSource}, NextImport(found) PROVE LinkInv'
  <2> DEFINE id == ModuleId(Head(Top.todo))
  <2>1. CASE ImportRefusal(Head(Top.todo), found) # "none"
    BY <1>2, <2>1, DropsAll DEF NextImport, Fail
  <2>2. CASE ImportRefusal(Head(Top.todo), found) = "none"
    <3>1. id \notin Active /\ found \in Text
      BY <2>2 DEF ImportRefusal
    <3>2. stack # <<>>
      BY <1>2 DEF NextImport, LinkInv, Standing
    <3>3. /\ source' = [module |-> id, offset |-> 0, text |-> found]
          /\ stack' = [stack EXCEPT ![Len(stack)].todo = Tail(@),
                                    ![Len(stack)].imports = Append(@, id)]
          /\ phase = "linking" /\ source = NoSource /\ Top.todo # <<>>
          /\ phase' = phase /\ program' = program /\ resolved' = resolved
          /\ nodes' = nodes /\ reads' = reads
      BY <1>2, <2>2 DEF NextImport
    <3>4. Advances(id) /\ id \in ModuleIds
      BY <3>2, <3>3, ImportAdvances
    <3> HIDE DEF id
    <3> QED BY <3>1, <3>3, <3>4, OpensOne
  <2> QED BY <2>1, <2>2
<1>3. ASSUME ReadChunk PROVE LinkInv'
  <2>0. phase = "linking" /\ source # NoSource /\ source \in Sources
    BY <1>3 DEF ReadChunk, LinkInv, LinkTypes
  <2>1. CASE \E error : Fail(error)
    <3>1. PICK error : Fail(error)
      BY <2>1
    <3> QED BY <3>1, DropsAll DEF Fail
  <2>2. CASE source' = [source EXCEPT !.offset = ChunkEnd(@)]
             /\ UNCHANGED <<phase, result, program, cancelled, stack, resolved, nodes, reads>>
    BY <2>0, <2>2, ChunkAdvances
  <2>3. CASE Arrive(source.module, source.text) /\ ~\E error : Fail(error)
    <3>1. CASE source.module \in DOMAIN resolved
      <4>1. resolved[source.module] = source.text
        <5> SUFFICES ASSUME resolved[source.module] # source.text PROVE FALSE
          OBVIOUS
        <5>1. Arrival(source.module, source.text) = "Resolve"
          BY <3>1 DEF Arrival
        <5> QED BY <2>3, <5>1 DEF Arrive
      <4>2. /\ source' = NoSource /\ reads' = reads \union {<<source.module, source.text>>}
            /\ UNCHANGED <<phase, program, resolved, nodes, stack>>
        BY <2>3, <3>1, <4>1 DEF Arrive, Arrival
      <4> QED BY <2>0, <3>1, <4>1, <4>2, KnownOne
    <3>2. CASE source.module \notin DOMAIN resolved
      <4>1. /\ source' = NoSource /\ reads' = reads \union {<<source.module, source.text>>}
            /\ resolved' = [m \in DOMAIN resolved \union {source.module} |->
                              IF m = source.module THEN source.text ELSE resolved[m]]
            /\ stack' = Append(stack, Frame(source.module, source.text))
            /\ UNCHANGED <<phase, program, nodes>>
        BY <2>3, <3>2 DEF Arrive, Arrival
      <4> QED BY <2>0, <3>2, <4>1, NewOne
    <3> QED BY <3>1, <3>2
  <2> QED BY <1>3, <2>1, <2>2, <2>3 DEF ReadChunk
<1>4. ASSUME NEW fault, ResolverFails(fault) PROVE LinkInv'
  BY <1>4, DropsAll DEF ResolverFails, Fail
<1>5. ASSUME Return PROVE LinkInv'
  BY <1>5, NodeJoins DEF Return
<1>6. ASSUME Finish PROVE LinkInv'
  <2>1. Standing'
    <3>1. stack \in Seq(Frames) /\ stack # <<>> /\ Len(stack) = 1
      <4>1. Len(stack) = 1
        BY <1>6 DEF Finish
      <4> QED BY <4>1 DEF LinkInv, LinkTypes
    <3>2. stack[1].todo = <<>>
      BY <3>1, <1>6, LastOf DEF Finish, Top
    <3> QED BY <1>6, <3>1, <3>2 DEF Finish, graph, LinkInv, Standing, Active
  <2> QED BY <1>6, <2>1, LeavesAll DEF Finish
<1>7. ASSUME Cancel PROVE LinkInv'
  <2>1. Standing'
    BY <1>7 DEF Cancel, graph, LinkInv, Standing, Active
  <2> QED BY <1>7, <2>1, LeavesAll DEF Cancel
<1>8. ASSUME NEW error, Take(error) PROVE LinkInv'
  <2>1. Standing'
    BY <1>8 DEF Take, graph, LinkInv, Standing, Active
  <2> QED BY <1>8, <2>1, LeavesAll DEF Take
<1>9. ASSUME NEW end, TakenBack(end) PROVE LinkInv'
  BY <1>9, DropsAll DEF TakenBack
<1>10. ASSUME UNCHANGED linkerVars PROVE LinkInv'
  <2>1. UNCHANGED <<graph, program, phase>>
    BY <1>10 DEF linkerVars, request
  <2>2. Standing'
    BY <2>1 DEF graph, LinkInv, Standing, Active
  <2> QED BY <2>1, <2>2, LeavesAll
<1> QED
  BY <1>1, <1>2, <1>3, <1>4, <1>5, <1>6, <1>7, <1>8, <1>9, <1>10 DEF LinkerNext

\* The invariant of the link.
LEMMA LinkInvHolds == LinkerSpec => []LinkInv
  BY LinkInvStarts, LinkInvStep, PTL DEF LinkerSpec

\* However the files change between two calls of the resolver, for any texts
\* and any depth limit: a link that succeeds gives the modules the root
\* reaches, all of them, with what their sources import, and no cycle.
THEOREM GraphIsWholeHolds == LinkerSpec => []GraphIsWhole
<1>1. LinkInv => GraphIsWhole
  <2> SUFFICES ASSUME LinkInv, phase = "linked", stack # <<>>
               PROVE  /\ stack[1].imports = Ids(program)
                      /\ \A m \in DOMAIN nodes : nodes[m].imports = Ids(nodes[m].hash)
                      /\ RootImports \subseteq DOMAIN nodes
                      /\ \A m \in DOMAIN nodes : ImportsOf(m) \subseteq DOMAIN nodes
                      /\ Reached
                      /\ Acyclic
    BY DEF GraphIsWhole
  <2>1. Len(stack) = 1 /\ stack[1].todo = <<>> /\ source = NoSource /\ stack[1] \in Frames
    BY DEF LinkInv, Standing, LinkTypes
  <2>2. stack[1].imports = Ids(program)
    <3>1. stack[1].imports \o IdsOf(<<>>) = Ids(program)
      <4>1. 1 \in 1 .. Len(stack) /\ TextAt(1) = program
        BY <2>1 DEF TextAt
      <4> QED BY <2>1, <4>1 DEF LinkInv, Divided
    <3>2. stack[1].imports \in Seq(ModuleIds)
      BY <2>1 DEF Frames
    <3> QED BY <3>1, <3>2, NothingLeft
  <2>3. RootImports = Range(stack[1].imports) /\ RootImports \subseteq DOMAIN nodes
    <3>1. Awaited(1) = {}
      BY <2>1 DEF Awaited
    <3> QED BY <2>1, <3>1 DEF LinkInv, Behind, RootImports
  <2>4. DOMAIN resolved = DOMAIN nodes
    <3>1. Active = {}
      BY <2>1 DEF Active
    <3> QED BY <3>1 DEF LinkInv, Placed
  <2>5. Reached
    <3> SUFFICES ASSUME NEW S \in SUBSET DOMAIN nodes, RootImports \subseteq S,
                        \A m \in S : ImportsOf(m) \subseteq S
                 PROVE  S = DOMAIN nodes
      BY DEF Reached
    <3>1. Leads(S)
      BY <2>1 DEF Leads
    <3> QED BY <2>4, <3>1 DEF LinkInv, Reaching
  <2> QED BY <2>2, <2>3, <2>5 DEF LinkInv, Built
<1> QED BY <1>1, LinkInvHolds, PTL

\* The modules of one link are read from one text each, whatever is written
\* to the files between two readings.
THEOREM OneSourcePerModuleHolds == LinkerSpec => []OneSourcePerModule
<1>1. LinkInv => OneSourcePerModule
  BY DEF LinkInv, OneText, OneSourcePerModule
<1> QED BY <1>1, LinkInvHolds, PTL

-----------------------------------------------------------------------------
(* Paths, and what the operating system finds at them.                      *)

Paths == Seq(EntryName)

\* Induction over the numbers, from the least element of a set of them.
LEMMA Induction ==
  ASSUME NEW P, 0 \in P, \A n \in Nat : n \in P => n + 1 \in P
  PROVE  \A n \in Nat : n \in P
<1> DEFINE below == {p \in Nat \X Nat : p[1] < p[2]}
           T == Nat \ P
<1>1. below = OpToRel(<, Nat)
  BY Zenon DEF OpToRel
<1>2. IsWellFoundedOn(below, Nat)
  BY <1>1, NatLessThanWellFounded, Zenon
<1> HIDE DEF below
<1>3. ASSUME T # {}
      PROVE  FALSE
  <2>1. T \in SUBSET Nat
    OBVIOUS
  <2> HIDE DEF T
  <2>2. PICK m \in T : \A k \in T : <<k, m>> \notin below
    BY <1>2, <1>3, <2>1, WFMin
  <2>3. m \in Nat \ {0}
    BY DEF T
  <2>4. m - 1 \in Nat /\ m - 1 < m
    BY <2>3
  <2>5. <<m - 1, m>> \in below
    BY <2>3, <2>4 DEF below
  <2>6. m - 1 \in P
    BY <2>2, <2>4, <2>5 DEF T
  <2>7. m \in P
    BY <2>4, <2>6, <2>3
  <2> QED  BY <2>7 DEF T
<1> QED  BY <1>3

\* A prefix, name by name.
LEMMA PrefixIs ==
  ASSUME NEW p \in Paths, NEW q \in Paths
  PROVE  IsPrefix(p, q) <=> Len(p) <= Len(q) /\ \A i \in 1 .. Len(p) : p[i] = q[i]
<1>1. SubSeq(p, 1, Len(p)) = p
  BY SubSeqFull DEF Paths
<1>2. CASE Len(p) <= Len(q)
  <2>1. /\ SubSeq(q, 1, Len(p)) \in Seq(EntryName) /\ Len(SubSeq(q, 1, Len(p))) = Len(p)
        /\ \A i \in 1 .. Len(p) : SubSeq(q, 1, Len(p))[i] = q[i]
    BY <1>2 DEF Paths
  <2>2. ASSUME \A i \in 1 .. Len(p) : p[i] = q[i]
        PROVE  p = SubSeq(q, 1, Len(p))
    BY <2>1, <2>2, SeqEqual DEF Paths
  <2> QED BY <1>1, <1>2, <2>1, <2>2 DEF IsPrefix
<1>3. CASE ~(Len(p) <= Len(q))
  BY <1>3 DEF IsPrefix
<1> QED BY <1>2, <1>3

\* The directory of an entry and its name.
LEMMA FrontOf ==
  ASSUME NEW p \in Paths, p # <<>>
  PROVE  /\ Front(p) \in Paths /\ Len(Front(p)) = Len(p) - 1
         /\ \A i \in 1 .. Len(p) - 1 : Front(p)[i] = p[i]
         /\ Last(p) \in EntryName /\ Last(p) = p[Len(p)]
         /\ Append(Front(p), Last(p)) = p
         /\ Len(p) \in Nat /\ Len(p) >= 1
<1>1. Len(p) \in Nat /\ Len(p) >= 1
  BY DEF Paths
<1>2. /\ Front(p) \in Paths /\ Len(Front(p)) = Len(p) - 1
      /\ \A i \in 1 .. Len(p) - 1 : Front(p)[i] = p[i]
  <2>1. PICK k : k = Len(p) - 1
    OBVIOUS
  <2>2. k \in Nat /\ k \in Int /\ 1 \in Int /\ \A i \in 1 .. k : p[i] \in EntryName
    BY <1>1, <2>1 DEF Paths
  <2>3. /\ SubSeq(p, 1, k) \in Seq(EntryName)
        /\ Len(SubSeq(p, 1, k)) = IF 1 <= k THEN k - 1 + 1 ELSE 0
        /\ \A i \in 1 .. k - 1 + 1 : SubSeq(p, 1, k)[i] = p[1 + i - 1]
    BY ONLY <2>2, SubSeqProperties
  <2>4. Len(SubSeq(p, 1, k)) = k
    BY ONLY <2>2, <2>3
  <2>5. ASSUME NEW i \in 1 .. k PROVE SubSeq(p, 1, k)[i] = p[i]
    <3>1. i \in 1 .. k - 1 + 1 /\ 1 + i - 1 = i
      BY <2>2
    <3> QED BY <2>3, <3>1
  <2> QED BY <2>1, <2>3, <2>4, <2>5 DEF Paths, Front
<1>3. Last(p) \in EntryName /\ Last(p) = p[Len(p)]
  BY <1>1 DEF Paths, Last
<1>4. Append(Front(p), Last(p)) = p
  <2>1. /\ Append(Front(p), Last(p)) \in Seq(EntryName)
        /\ Len(Append(Front(p), Last(p))) = Len(p)
        /\ \A i \in 1 .. Len(p) : Append(Front(p), Last(p))[i] = p[i]
    BY <1>1, <1>2, <1>3 DEF Paths
  <2> QED BY <2>1, SeqEqual DEF Paths
<1> QED BY <1>1, <1>2, <1>3, <1>4

\* An entry of a directory.
LEMMA BelowOf ==
  ASSUME NEW p \in Paths, NEW n \in EntryName
  PROVE  /\ Append(p, n) \in Paths /\ Append(p, n) # <<>>
         /\ Len(Append(p, n)) = Len(p) + 1
         /\ Front(Append(p, n)) = p /\ Last(Append(p, n)) = n
         /\ \A i \in 1 .. Len(p) : Append(p, n)[i] = p[i]
<1>1. /\ Append(p, n) \in Paths /\ Len(Append(p, n)) = Len(p) + 1 /\ Len(p) \in Nat
      /\ \A i \in 1 .. Len(p) : Append(p, n)[i] = p[i]
      /\ Append(p, n)[Len(p) + 1] = n
  BY DEF Paths
<1>2. Append(p, n) # <<>>
  BY <1>1
<1>3. Front(Append(p, n)) = p
  <2>1. PICK q : q = Append(p, n)
    OBVIOUS
  <2>2. /\ Front(q) \in Paths /\ Len(Front(q)) = Len(q) - 1
        /\ \A i \in 1 .. Len(q) - 1 : Front(q)[i] = q[i]
    BY <1>1, <1>2, <2>1, FrontOf
  <2>3. Len(q) - 1 = Len(p) /\ \A i \in 1 .. Len(p) : q[i] = p[i]
    BY <1>1, <2>1
  <2>4. Front(q) \in Seq(EntryName) /\ Len(Front(q)) = Len(p) /\ \A i \in 1 .. Len(p) : Front(q)[i] = p[i]
    BY <2>2, <2>3 DEF Paths
  <2>5. Front(q) = p
    BY <2>4, SeqEqual DEF Paths
  <2> QED BY <2>1, <2>5
<1> QED BY <1>1, <1>2, <1>3 DEF Last

\* What lies in a part of a directory lies in it.
LEMMA PrefixOf ==
  ASSUME NEW b \in Paths, NEW p \in Paths
  PROVE  /\ IsPrefix(p, p)
         /\ IsPrefix(<<>>, p)
         /\ IsPrefix(b, p) => Len(b) <= Len(p) /\ (Len(b) = Len(p) => b = p)
         /\ IsPrefix(b, p) /\ b # p => p # <<>> /\ IsPrefix(b, Front(p))
         /\ p # <<>> /\ IsPrefix(b, Front(p)) => IsPrefix(b, p) /\ b # p
         /\ \A q \in Paths : IsPrefix(b, p) /\ IsPrefix(p, q) => IsPrefix(b, q)
         /\ \A n \in EntryName : IsPrefix(b, p) => IsPrefix(b, Append(p, n)) /\ b # Append(p, n)
<1>1. IsPrefix(p, p) /\ IsPrefix(<<>>, p)
  <2>1. <<>> \in Paths /\ Len(<<>>) = 0 /\ Len(p) \in Nat
    BY DEF Paths
  <2>2. Len(p) <= Len(p) /\ \A i \in 1 .. Len(p) : p[i] = p[i]
    BY <2>1
  <2>3. Len(<<>>) <= Len(p) /\ \A i \in 1 .. Len(<<>>) : <<>>[i] = p[i]
    BY <2>1
  <2> QED BY <2>1, <2>2, <2>3, PrefixIs
<1>2. Len(b) \in Nat /\ Len(p) \in Nat
  BY DEF Paths
<1>3. ASSUME IsPrefix(b, p) PROVE Len(b) <= Len(p) /\ (Len(b) = Len(p) => b = p)
  <2>1. Len(b) <= Len(p) /\ \A i \in 1 .. Len(b) : b[i] = p[i]
    BY <1>3, PrefixIs
  <2>2. ASSUME Len(b) = Len(p) PROVE b = p
    BY <2>1, <2>2, SeqEqual DEF Paths
  <2> QED BY <2>1, <2>2
<1>4. ASSUME IsPrefix(b, p), b # p PROVE p # <<>> /\ IsPrefix(b, Front(p))
  <2>1. Len(b) < Len(p) /\ \A i \in 1 .. Len(b) : b[i] = p[i]
    BY <1>2, <1>3, <1>4, PrefixIs
  <2>2. p # <<>>
    BY <1>2, <2>1
  <2>3. /\ Front(p) \in Paths /\ Len(Front(p)) = Len(p) - 1
        /\ \A i \in 1 .. Len(p) - 1 : Front(p)[i] = p[i]
    BY <2>2, FrontOf
  <2>4. Len(b) <= Len(Front(p)) /\ \A i \in 1 .. Len(b) : b[i] = Front(p)[i]
    BY <1>2, <2>1, <2>3
  <2> QED BY <2>2, <2>3, <2>4, PrefixIs
<1>5. ASSUME p # <<>>, IsPrefix(b, Front(p)) PROVE IsPrefix(b, p) /\ b # p
  <2>1. /\ Front(p) \in Paths /\ Len(Front(p)) = Len(p) - 1
        /\ \A i \in 1 .. Len(p) - 1 : Front(p)[i] = p[i]
    BY <1>5, FrontOf
  <2>2. Len(b) <= Len(Front(p)) /\ \A i \in 1 .. Len(b) : b[i] = Front(p)[i]
    BY <2>1, <1>5, PrefixIs
  <2>3. Len(b) < Len(p) /\ \A i \in 1 .. Len(b) : b[i] = p[i]
    BY <1>2, <2>1, <2>2
  <2> QED BY <1>2, <2>3, PrefixIs
<1>6. ASSUME NEW q \in Paths, IsPrefix(b, p), IsPrefix(p, q) PROVE IsPrefix(b, q)
  <2>1. /\ Len(b) <= Len(p) /\ \A i \in 1 .. Len(b) : b[i] = p[i]
        /\ Len(p) <= Len(q) /\ \A i \in 1 .. Len(p) : p[i] = q[i]
        /\ Len(q) \in Nat
    BY <1>6, PrefixIs DEF Paths
  <2>2. Len(b) <= Len(q) /\ \A i \in 1 .. Len(b) : b[i] = q[i]
    BY <1>2, <2>1
  <2> QED BY <2>2, PrefixIs
<1>7. ASSUME NEW n \in EntryName, IsPrefix(b, p) PROVE IsPrefix(b, Append(p, n)) /\ b # Append(p, n)
  <2>1. /\ Append(p, n) \in Paths /\ Len(Append(p, n)) = Len(p) + 1
        /\ \A i \in 1 .. Len(p) : Append(p, n)[i] = p[i]
    BY BelowOf
  <2>2. Len(b) <= Len(p) /\ \A i \in 1 .. Len(b) : b[i] = p[i]
    BY <1>7, PrefixIs
  <2>3. Len(b) <= Len(Append(p, n)) /\ \A i \in 1 .. Len(b) : b[i] = Append(p, n)[i]
    BY <1>2, <2>1, <2>2
  <2>4. b # Append(p, n)
    BY <1>2, <2>1, <2>2
  <2> QED BY <2>1, <2>3, <2>4, PrefixIs
<1> QED BY <1>1, <1>3, <1>4, <1>5, <1>6, <1>7

\* The first n names of a path.
Cut(p, n) == SubSeq(p, 1, n)

\* The first n names of a path.
LEMMA CutOf ==
  ASSUME NEW p \in Paths, NEW n \in 0 .. Len(p)
  PROVE  /\ Cut(p, n) \in Paths /\ Len(Cut(p, n)) = n
         /\ \A i \in 1 .. n : Cut(p, n)[i] = p[i]
         /\ IsPrefix(Cut(p, n), p)
         /\ n = Len(p) => Cut(p, n) = p
         /\ n = Len(p) - 1 => Cut(p, n) = Front(p)
         /\ n = 0 => Cut(p, n) = <<>>
         /\ n < Len(p) => p[n + 1] \in EntryName /\ Append(Cut(p, n), p[n + 1]) = Cut(p, n + 1)
<1>0. Len(p) \in Nat /\ n \in Nat /\ n <= Len(p)
  BY DEF Paths
<1>1. ASSUME NEW m \in Nat, m <= Len(p)
      PROVE  /\ Cut(p, m) \in Paths /\ Len(Cut(p, m)) = m
             /\ \A i \in 1 .. m : Cut(p, m)[i] = p[i]
  <2>1. m \in Int /\ 1 \in Int /\ \A i \in 1 .. m : p[i] \in EntryName
    BY <1>0, <1>1 DEF Paths
  <2>2. /\ SubSeq(p, 1, m) \in Seq(EntryName)
        /\ Len(SubSeq(p, 1, m)) = IF 1 <= m THEN m - 1 + 1 ELSE 0
        /\ \A i \in 1 .. m - 1 + 1 : SubSeq(p, 1, m)[i] = p[1 + i - 1]
    BY ONLY <2>1, SubSeqProperties
  <2>3. Len(SubSeq(p, 1, m)) = m
    BY ONLY <1>1, <2>2
  <2>4. ASSUME NEW i \in 1 .. m PROVE SubSeq(p, 1, m)[i] = p[i]
    <3>1. i \in 1 .. m - 1 + 1 /\ 1 + i - 1 = i
      BY <1>1
    <3> QED BY <2>2, <3>1
  <2> QED BY <2>2, <2>3, <2>4 DEF Paths, Cut
<1>2. /\ Cut(p, n) \in Paths /\ Len(Cut(p, n)) = n
      /\ \A i \in 1 .. n : Cut(p, n)[i] = p[i]
  BY <1>0, <1>1
<1>3. IsPrefix(Cut(p, n), p)
  <2>1. Len(Cut(p, n)) <= Len(p) /\ \A i \in 1 .. Len(Cut(p, n)) : Cut(p, n)[i] = p[i]
    BY <1>0, <1>2
  <2> QED BY <1>2, <2>1, PrefixIs
<1>4. n = Len(p) => Cut(p, n) = p
  BY <1>2, SeqEqual DEF Paths
<1>5. n = Len(p) - 1 => Cut(p, n) = Front(p)
  BY DEF Cut, Front
<1>6. n = 0 => Cut(p, n) = <<>>
  BY <1>2 DEF Paths
<1>7. ASSUME n < Len(p) PROVE p[n + 1] \in EntryName /\ Append(Cut(p, n), p[n + 1]) = Cut(p, n + 1)
  <2>1. PICK m : m = n + 1
    OBVIOUS
  <2>2. m \in Nat /\ m <= Len(p) /\ m \in 1 .. Len(p)
    BY <1>0, <1>7, <2>1
  <2>3. PICK e : e = p[m]
    OBVIOUS
  <2>4. e \in EntryName
    BY <2>2, <2>3 DEF Paths
  <2>5. /\ Append(Cut(p, n), e) \in Paths /\ Len(Append(Cut(p, n), e)) = m
        /\ \A i \in 1 .. n : Append(Cut(p, n), e)[i] = Cut(p, n)[i]
        /\ Append(Cut(p, n), e)[n + 1] = e
    BY <1>2, <2>1, <2>4, AppendProperties DEF Paths
  <2>6. /\ Cut(p, m) \in Paths /\ Len(Cut(p, m)) = m
        /\ \A i \in 1 .. m : Cut(p, m)[i] = p[i]
    BY <1>1, <2>2
  <2>7. \A i \in 1 .. m : i \in 1 .. n \/ i = n + 1
    BY <1>0, <2>1
  <2>8. \A i \in 1 .. m : Append(Cut(p, n), e)[i] = Cut(p, m)[i]
    BY <1>2, <2>1, <2>3, <2>5, <2>6, <2>7
  <2>9. Append(Cut(p, n), e) = Cut(p, m)
    BY ONLY <2>5, <2>6, <2>8, SeqEqual DEF Paths
  <2> QED BY <2>1, <2>3, <2>4, <2>9
<1> QED BY <1>2, <1>3, <1>4, <1>5, <1>6, <1>7

-----------------------------------------------------------------------------
(* The operating system. *)

\* Whatever exists lies in a directory.
LEMMA KindOf ==
  ASSUME NEW t, IsTree(t), NEW p
  PROVE  /\ KindIn(t, p) \in {"none", "file", "dir", "symlink"}
         /\ KindIn(t, p) # "none" => p \in Paths
         /\ KindIn(t, p) # "none" /\ p # <<>> => p \in DOMAIN t /\ KindIn(t, Front(p)) = "dir"
         /\ KindIn(t, p) \in {"none", "file", "symlink"} => p # <<>>
         /\ p \in DOMAIN t => p # <<>> /\ p \in Paths /\ KindIn(t, p) = t[p].kind /\ KindIn(t, p) # "none"
         /\ KindIn(t, p) \in {"file", "symlink"} => p \in DOMAIN t
<1>1. <<>> \in Paths
  BY DEF Paths
<1> QED BY <1>1 DEF KindIn, IsTree, Paths

\* On the way to what exists, or to what no symlink is on the way to, there are
\* directories only.
LEMMA DirAbove ==
  ASSUME NEW t, IsTree(t), NEW p \in Paths, NEW q \in Paths,
         IsPrefix(p, q), p # q, KindIn(t, q) # "none" \/ IsPlain(t, q)
  PROVE  KindIn(t, p) = "dir"
<1> DEFINE P == {n \in Nat : \A r \in Paths :
                   Len(r) = n /\ IsPrefix(p, r) /\ p # r =>
                     (KindIn(t, r) # "none" \/ IsPlain(t, r) => KindIn(t, p) = "dir")}
<1>1. 0 \in P
  <2>1. ASSUME NEW r \in Paths, Len(r) = 0, IsPrefix(p, r), p # r PROVE FALSE
    BY <2>1, PrefixOf, FrontOf
  <2> QED BY <2>1
<1>2. ASSUME NEW n \in Nat, n \in P PROVE n + 1 \in P
  <2> SUFFICES ASSUME NEW r \in Paths, Len(r) = n + 1, IsPrefix(p, r), p # r,
                      KindIn(t, r) # "none" \/ IsPlain(t, r)
               PROVE  KindIn(t, p) = "dir"
    OBVIOUS
  <2>1. r # <<>> /\ IsPrefix(p, Front(r))
    BY PrefixOf
  <2>2. Front(r) \in Paths /\ Len(Front(r)) = n
    BY <2>1, FrontOf
  <2>3. KindIn(t, Front(r)) = "dir"
    BY <2>1, KindOf DEF IsPlain
  <2>4. CASE p = Front(r)
    BY <2>3, <2>4
  <2>5. CASE p # Front(r)
    BY <1>2, <2>1, <2>2, <2>3, <2>5
  <2> QED BY <2>4, <2>5
<1> HIDE DEF P
<1>3. \A n \in Nat : n \in P
  BY <1>1, <1>2, Induction
<1>4. Len(q) \in P
  BY <1>3 DEF Paths
<1> QED BY <1>4 DEF P

\* What is no symlink is not followed.
LEMMA ThroughIs ==
  ASSUME NEW here, Kind(here) # "symlink", NEW links, NEW follow
  PROVE  Through(here, links, follow) = here
BY DEF Through

Walks(at, N, path, links, follow) ==
  at = [n \in 0 .. N |->
          IF n = 0 THEN <<>> ELSE Through(Beneath(at[n - 1], path[n]), links, follow)]

\* The steps of a walk are a function.
LEMMA WalkExists ==
  ASSUME NEW path, NEW links, NEW follow
  PROVE  \A N \in Nat : \E at : Walks(at, N, path, links, follow)
<1> DEFINE P == {N \in Nat : \E at : Walks(at, N, path, links, follow)}
<1>1. 0 \in P
  <2> DEFINE at == [n \in 0 .. 0 |-> <<>>]
  <2>1. Walks(at, 0, path, links, follow)
    BY DEF Walks
  <2> HIDE DEF at
  <2>2. \E q : Walks(q, 0, path, links, follow)
    BY <2>1
  <2> QED BY <2>2
<1>2. ASSUME NEW N \in Nat, N \in P PROVE N + 1 \in P
  <2>1. PICK at : Walks(at, N, path, links, follow)
    BY <1>2
  <2> DEFINE q == [n \in 0 .. (N + 1) |->
                     IF n = N + 1 THEN Through(Beneath(at[N], path[N + 1]), links, follow)
                     ELSE at[n]]
  <2>2. DOMAIN q = 0 .. (N + 1)
    OBVIOUS
  <2>3. ASSUME NEW n \in 0 .. (N + 1)
        PROVE  q[n] = IF n = 0 THEN <<>>
                      ELSE Through(Beneath(q[n - 1], path[n]), links, follow)
    <3>1. CASE n = N + 1
      <4>1. /\ q[n] = Through(Beneath(at[N], path[N + 1]), links, follow)
            /\ q[n - 1] = at[N] /\ n # 0
        BY <3>1
      <4> QED BY <3>1, <4>1
    <3>2. CASE n \in 1 .. N
      <4>1. q[n] = at[n] /\ q[n - 1] = at[n - 1] /\ n # 0
        BY <3>2
      <4>2. at[n] = Through(Beneath(at[n - 1], path[n]), links, follow)
        BY <2>1, <3>2 DEF Walks
      <4> QED BY <4>1, <4>2
    <3>3. CASE n = 0
      <4>1. q[0] = at[0] /\ at[0] = <<>>
        BY <2>1, <3>3 DEF Walks
      <4> QED BY <3>3, <4>1
    <3>4. n = N + 1 \/ n \in 1 .. N \/ n = 0
      OBVIOUS
    <3> QED BY <3>1, <3>2, <3>3, <3>4
  <2>4. Walks(q, N + 1, path, links, follow)
    BY <2>3 DEF Walks
  <2> HIDE DEF q
  <2>5. \E g : Walks(g, N + 1, path, links, follow)
    BY <2>4
  <2>6. N + 1 \in Nat
    OBVIOUS
  <2> QED BY ONLY <2>5, <2>6 DEF P
<1> HIDE DEF P
<1>3. \A N \in Nat : N \in P
  BY <1>1, <1>2, Induction
<1> QED BY <1>3 DEF P

\* Where no symlink is on the way, a walk arrives where the path says.
LEMMA WalkLast ==
  ASSUME IsTree(tree), NEW q \in Paths, q # <<>>, IsPlain(tree, Front(q)), NEW links, NEW follow
  PROVE  Walk(q, links, follow) = Through(Beneath(Front(q), Last(q)), links, follow)
<1> DEFINE at == CHOOSE f : Walks(f, Len(q), q, links, follow)
<1>1. Len(q) \in Nat /\ Len(q) >= 1
  BY FrontOf
<1>2. Walks(at, Len(q), q, links, follow)
  BY <1>1, WalkExists
<1>3. Walk(q, links, follow) = at[Len(q)]
  BY DEF Walk, Walks
<1> HIDE DEF at
<1>4. at[0] = <<>>
  BY <1>1, <1>2 DEF Walks
<1>5. ASSUME NEW n \in 1 .. Len(q)
      PROVE  at[n] = Through(Beneath(at[n - 1], q[n]), links, follow)
  BY <1>1, <1>2, <1>5 DEF Walks
<1> DEFINE P == {n \in Nat : n < Len(q) => at[n] = Cut(q, n)}
<1>6. 0 \in P
  BY <1>1, <1>4, CutOf
<1>7. ASSUME NEW n \in Nat, n \in P PROVE n + 1 \in P
  <2> SUFFICES ASSUME n + 1 < Len(q) PROVE at[n + 1] = Cut(q, n + 1)
    OBVIOUS
  <2>1. n \in 0 .. Len(q) /\ n + 1 \in 0 .. Len(q) /\ n < Len(q) /\ n + 1 \in 1 .. Len(q)
    BY <1>1
  <2>2. at[n] = Cut(q, n) /\ at[n + 1] = Through(Beneath(at[n], q[n + 1]), links, follow)
    BY <1>5, <1>7, <2>1
  <2>3. /\ Cut(q, n) \in Paths /\ Len(Cut(q, n)) = n /\ q[n + 1] \in EntryName
        /\ Append(Cut(q, n), q[n + 1]) = Cut(q, n + 1)
        /\ \A i \in 1 .. n : Cut(q, n)[i] = q[i]
    BY <2>1, CutOf
  <2>4. /\ Cut(q, n + 1) \in Paths /\ Len(Cut(q, n + 1)) = n + 1
        /\ \A i \in 1 .. n + 1 : Cut(q, n + 1)[i] = q[i]
    BY <2>1, CutOf
  <2>5. /\ Front(q) \in Paths /\ Len(Front(q)) = Len(q) - 1
        /\ \A i \in 1 .. Len(q) - 1 : Front(q)[i] = q[i]
    BY FrontOf
  <2>6. IsPrefix(Cut(q, n), Front(q)) /\ Cut(q, n) # Front(q)
    <3>1. Len(Cut(q, n)) <= Len(Front(q)) /\ \A i \in 1 .. Len(Cut(q, n)) : Cut(q, n)[i] = Front(q)[i]
      BY <1>1, <2>1, <2>3, <2>5
    <3>2. Len(Cut(q, n)) # Len(Front(q))
      BY <1>1, <2>1, <2>3, <2>5
    <3> QED BY <2>3, <2>5, <3>1, <3>2, PrefixIs
  <2>7. IsPrefix(Cut(q, n + 1), Front(q))
    <3>1. Len(Cut(q, n + 1)) <= Len(Front(q)) /\ \A i \in 1 .. Len(Cut(q, n + 1)) : Cut(q, n + 1)[i] = Front(q)[i]
      BY <1>1, <2>1, <2>4, <2>5
    <3> QED BY <2>4, <2>5, <3>1, PrefixIs
  <2>8. Kind(Cut(q, n)) = "dir"
    BY <2>3, <2>5, <2>6, DirAbove DEF Kind
  <2>9. Beneath(Cut(q, n), q[n + 1]) = Cut(q, n + 1)
    BY <2>3, <2>8 DEF Beneath, EntryName
  <2>10. Kind(Cut(q, n + 1)) # "symlink"
    <3>1. CASE Cut(q, n + 1) = Front(q)
      BY <3>1 DEF IsPlain, Kind
    <3>2. CASE Cut(q, n + 1) # Front(q)
      <4>1. KindIn(tree, Cut(q, n + 1)) = "dir"
        BY <2>4, <2>5, <2>7, <3>2, DirAbove
      <4> QED BY <4>1 DEF Kind
    <3> QED BY <3>1, <3>2
  <2> QED BY <2>2, <2>9, <2>10, ThroughIs
<1> HIDE DEF P
<1>8. \A n \in Nat : n \in P
  BY <1>6, <1>7, Induction
<1>9. PICK k : k = Len(q) - 1
  OBVIOUS
<1>10. k \in Nat /\ k < Len(q) /\ k \in 0 .. Len(q) /\ Len(q) \in 1 .. Len(q)
  BY <1>1, <1>9
<1>11. at[k] = Front(q)
  BY <1>8, <1>9, <1>10, CutOf DEF P
<1>12. at[Len(q)] = Through(Beneath(at[k], q[Len(q)]), links, follow)
  BY <1>5, <1>9, <1>10
<1> QED BY <1>3, <1>11, <1>12 DEF Last

\* The empty path is the root of the file system.
LEMMA WalkNowhere ==
  ASSUME NEW links, NEW follow
  PROVE  Walk(<<>>, links, follow) = <<>>
<1> DEFINE at == CHOOSE f : Walks(f, 0, <<>>, links, follow)
<1>1. Walks(at, 0, <<>>, links, follow)
  BY WalkExists
<1>2. Len(<<>>) = 0
  OBVIOUS
<1>3. Walk(<<>>, links, follow) = at[0]
  BY <1>2 DEF Walk, Walks
<1> HIDE DEF at
<1> QED BY <1>1, <1>3 DEF Walks

\* p lies in a directory, and no symlink is on the way to that.
Stands(p) == p \in Paths /\ (p # <<>> => Kind(Front(p)) = "dir")

\* A plain path stands in a directory.
LEMMA PlainStands ==
  ASSUME IsTree(tree), NEW p, IsPlain(tree, p)
  PROVE  Stands(p) /\ p \in Paths /\ Kind(p) # "symlink"
BY DEF IsPlain, Stands, Kind, Paths

\* A lookup that fails has found nothing.
LEMMA NoPathIs == ASSUME IsTree(tree) PROVE NoPath \notin Paths /\ Kind(NoPath) = "none"
<1>1. NoPath \notin Paths
  <2>1. Seq(EntryName) \subseteq Seq(STRING)
    BY SeqMonotonic DEF EntryName
  <2> QED BY <2>1, FilesAssumption DEF Paths, HostPath
<1> QED BY <1>1, KindOf DEF Kind

\* The operating system finds it by its name.
LEMMA Opens ==
  ASSUME IsTree(tree), NEW p, IsPlain(tree, p)
  PROVE  Opened(p) = p /\ (Kind(p) # "none" => Canonical(p) = p)
<1>1. p \in Paths
  BY PlainStands
<1>2. CASE p = <<>>
  BY <1>2, WalkNowhere DEF Opened, Canonical, Real
<1>3. CASE p # <<>>
  <2>1. Kind(Front(p)) = "dir" /\ Kind(p) # "symlink"
    BY <1>3 DEF IsPlain, Kind
  <2>2. /\ Front(p) \in Paths /\ Last(p) \in EntryName
        /\ Append(Front(p), Last(p)) = p
    BY <1>1, <1>3, FrontOf
  <2>3. IsPlain(tree, Front(p))
    BY <2>1, <2>2, KindOf DEF IsPlain, Kind, Paths
  <2>4. Beneath(Front(p), Last(p)) = p
    BY <2>1, <2>2 DEF Beneath, EntryName
  <2>5. Opened(p) = p
    BY <1>1, <1>3, <2>1, <2>3, <2>4, WalkLast, ThroughIs DEF Opened
  <2> QED BY <2>5 DEF Canonical, Real
<1> QED BY <1>2, <1>3

\* A path that stands names its own entry.
LEMMA Names ==
  ASSUME IsTree(tree), NEW p, Stands(p)
  PROVE  /\ EntryAt(p) = p /\ Lstat(p) = Kind(p) /\ Named(p) = p
         /\ Kind(p) # "symlink" => Opened(p) = p
<1>1. p \in Paths /\ p # NoPath
  BY NoPathIs DEF Stands
<1>2. CASE p = <<>>
  BY <1>1, <1>2, WalkNowhere DEF EntryAt, Lstat, Named, Opened
<1>3. CASE p # <<>>
  <2>1. Kind(Front(p)) = "dir"
    BY <1>3 DEF Stands
  <2>2. /\ Front(p) \in Paths /\ Last(p) \in EntryName
        /\ Append(Front(p), Last(p)) = p
    BY <1>1, <1>3, FrontOf
  <2>3. IsPlain(tree, Front(p))
    BY <2>1, <2>2, KindOf DEF IsPlain, Kind, Paths
  <2>4. Canonical(Front(p)) = Front(p)
    BY <2>1, <2>3, Opens
  <2>5. EntryAt(p) = p
    BY <1>3, <2>1, <2>2, <2>4 DEF EntryAt, Beneath, EntryName
  <2>6. ASSUME Kind(p) # "symlink" PROVE Opened(p) = p
    <3>1. IsPlain(tree, p)
      BY <1>1, <2>1, <2>6 DEF IsPlain, Kind, Paths
    <3> QED BY <3>1, Opens
  <2> QED BY <1>1, <2>5, <2>6 DEF Lstat, Named
<1> QED BY <1>2, <1>3

\* Nothing is below what is not a directory.
LEMMA NoWay ==
  ASSUME IsTree(tree), NEW up, IsPlain(tree, up), Kind(up) # "dir", NEW n \in EntryName
  PROVE  EntryAt(Append(up, n)) = NoPath /\ Opened(Append(up, n)) = NoPath
<1>1. up \in Paths
  BY PlainStands
<1>2. PICK q : q = Append(up, n)
  OBVIOUS
<1>3. q \in Paths /\ q # <<>> /\ Front(q) = up /\ Last(q) = n
  BY <1>1, <1>2, BelowOf
<1>4. Beneath(up, n) = NoPath /\ Through(NoPath, MaxLinks, Follow[MaxLinks - 1]) = NoPath
  BY NoPathIs, ThroughIs DEF Beneath
<1>5. Opened(q) = NoPath
  BY <1>3, <1>4, WalkLast DEF Opened
<1>6. Canonical(up) \in {up, NoPath}
  BY Opens DEF Canonical, Real
<1>7. EntryAt(q) = NoPath
  BY <1>3, <1>6, NoPathIs DEF EntryAt, Beneath
<1> QED BY <1>2, <1>5, <1>7

-----------------------------------------------------------------------------
(* The directory handle. *)

\* Where Resolve may lead: its last name is not looked at.
Lands(root, path) ==
  \/ path = NoPath
  \/ path = root.base
  \/ \E up \in Paths, n \in EntryName :
       path = Append(up, n) /\ IsPlain(tree, up) /\ IsPrefix(root.base, up)

\* An entry below the base that no symlink is on the way to.
Below(root, e) == Stands(e) /\ IsPrefix(root.base, e)

OnTheWay(root, at) ==
  at = NoPath \/ at = root.base \/ (IsPlain(tree, at) /\ IsPrefix(root.base, at) /\ Kind(at) = "dir")

\* A component on the way stays on a plain way below the base.
LEMMA EnterStays ==
  ASSUME IsTree(tree), NEW root, IsPlain(tree, root.base),
         NEW at, OnTheWay(root, at), NEW name \in EntryName
  PROVE  OnTheWay(root, Enter(root, at, name))
<1>1. CASE at = NoPath
  BY <1>1 DEF Enter, OnTheWay
<1>2. CASE at # NoPath
  <2>1. IsPlain(tree, at) /\ at \in Paths /\ root.base \in Paths /\ IsPrefix(root.base, at)
    BY <1>2, PlainStands, PrefixOf DEF OnTheWay
  <2>2. PICK next : next = Append(at, name)
    OBVIOUS
  <2>3. next \in Paths /\ next # <<>> /\ Front(next) = at /\ IsPrefix(root.base, next)
    BY <2>1, <2>2, BelowOf, PrefixOf
  <2>4. CASE Kind(at) # "dir"
    <3>1. Lstat(next) = "none"
      BY <2>1, <2>2, <2>4, NoWay, NoPathIs DEF Lstat
    <3> QED BY <1>2, <2>2, <3>1 DEF Enter, OnTheWay
  <2>5. CASE Kind(at) = "dir"
    <3>1. Lstat(next) = Kind(next)
      BY <2>3, <2>5, Names DEF Stands
    <3>2. CASE Kind(next) = "dir"
      <4>1. IsPlain(tree, next)
        BY <2>3, <2>5, <3>2 DEF IsPlain, Kind, Paths
      <4> QED BY <1>2, <2>2, <2>3, <3>1, <3>2, <4>1 DEF Enter, OnTheWay
    <3>3. CASE Kind(next) = "symlink"
      <4>1. PICK real : real = Canonical(next)
        OBVIOUS
      <4>2. Enter(root, at, name) = Followed(root, real)
        BY <1>2, <2>2, <3>1, <3>3, <4>1 DEF Enter
      <4>3. Canonical(root.base) = root.base
        <5>1. Kind(root.base) = "dir"
          <6>1. CASE at = root.base
            BY <6>1, <2>5
          <6>2. CASE at # root.base
            <7>1. KindIn(tree, root.base) = "dir"
              BY <2>1, <6>2, DirAbove
            <7> QED BY <7>1 DEF Kind
          <6> QED BY <6>1, <6>2
        <5> QED BY <5>1, Opens
      <4>4. CASE Followed(root, real) = NoPath
        BY <4>2, <4>4 DEF OnTheWay
      <4>5. CASE Followed(root, real) # NoPath
        <5>1. Followed(root, real) = real /\ IsPrefix(root.base, real) /\ Kind(real) = "dir"
          BY <4>3, <4>5 DEF Followed, WithinBase
        <5>2. IsPlain(tree, real)
          BY <5>1, KindOf DEF IsPlain, Kind, Paths
        <5> QED BY <4>2, <5>1, <5>2 DEF OnTheWay
      <4> QED BY <4>4, <4>5
    <3>4. CASE Kind(next) \notin {"dir", "symlink"}
      BY <1>2, <2>2, <3>1, <3>4 DEF Enter, OnTheWay
    <3> QED BY <3>2, <3>3, <3>4
  <2> QED BY <2>4, <2>5
<1> QED BY <1>1, <1>2

Ways(way, N, root, rel) ==
  way = [n \in 0 .. N |-> IF n = 0 THEN root.base ELSE Enter(root, way[n - 1], rel[n])]

\* The steps of Resolve are a function.
LEMMA WayExists ==
  ASSUME NEW root, NEW rel
  PROVE  \A N \in Nat : \E way : Ways(way, N, root, rel)
<1> DEFINE P == {N \in Nat : \E way : Ways(way, N, root, rel)}
<1>1. 0 \in P
  <2> DEFINE way == [n \in 0 .. 0 |-> root.base]
  <2>1. Ways(way, 0, root, rel)
    BY DEF Ways
  <2> HIDE DEF way
  <2>2. \E q : Ways(q, 0, root, rel)
    BY <2>1
  <2> QED BY <2>2
<1>2. ASSUME NEW N \in Nat, N \in P PROVE N + 1 \in P
  <2>1. PICK way : Ways(way, N, root, rel)
    BY <1>2
  <2> DEFINE q == [n \in 0 .. (N + 1) |->
                     IF n = N + 1 THEN Enter(root, way[N], rel[N + 1]) ELSE way[n]]
  <2>2. DOMAIN q = 0 .. (N + 1)
    OBVIOUS
  <2>3. ASSUME NEW n \in 0 .. (N + 1)
        PROVE  q[n] = IF n = 0 THEN root.base ELSE Enter(root, q[n - 1], rel[n])
    <3>1. CASE n = N + 1
      <4>1. q[n] = Enter(root, way[N], rel[N + 1]) /\ q[n - 1] = way[N] /\ n # 0
        BY <3>1
      <4> QED BY <3>1, <4>1
    <3>2. CASE n \in 1 .. N
      <4>1. q[n] = way[n] /\ q[n - 1] = way[n - 1] /\ n # 0
        BY <3>2
      <4>2. way[n] = Enter(root, way[n - 1], rel[n])
        BY <2>1, <3>2 DEF Ways
      <4> QED BY <4>1, <4>2
    <3>3. CASE n = 0
      <4>1. q[0] = way[0] /\ way[0] = root.base
        BY <2>1, <3>3 DEF Ways
      <4> QED BY <3>3, <4>1
    <3>4. n = N + 1 \/ n \in 1 .. N \/ n = 0
      OBVIOUS
    <3> QED BY <3>1, <3>2, <3>3, <3>4
  <2>4. Ways(q, N + 1, root, rel)
    BY <2>3 DEF Ways
  <2> HIDE DEF q
  <2>5. \E g : Ways(g, N + 1, root, rel)
    BY <2>4
  <2>6. N + 1 \in Nat
    OBVIOUS
  <2> QED BY ONLY <2>5, <2>6 DEF P
<1> HIDE DEF P
<1>3. \A N \in Nat : N \in P
  BY <1>1, <1>2, Induction
<1> QED BY <1>3 DEF P

\* Whatever symlinks there are, a path without `..` leads nowhere or below the
\* base of the root.
LEMMA ResolveLands ==
  ASSUME IsTree(tree), NEW root, IsPlain(tree, root.base), NEW rel \in Paths
  PROVE  Lands(root, Resolve(root, rel))
<1>1. CASE rel = <<>>
  BY <1>1 DEF Resolve, Lands
<1>2. CASE rel # <<>>
  <2>1. PICK N : N = Len(rel) - 1
    OBVIOUS
  <2>2. N \in Nat /\ \A n \in 1 .. N : rel[n] \in EntryName
    BY <1>2, <2>1 DEF Paths
  <2> DEFINE way == CHOOSE w : Ways(w, N, root, rel)
  <2>3. Ways(way, N, root, rel)
    BY <2>2, WayExists
  <2>4. Resolve(root, rel) = IF way[N] = NoPath THEN NoPath ELSE Append(way[N], Last(rel))
    BY <1>2, <2>1 DEF Resolve, Ways
  <2> HIDE DEF way
  <2> DEFINE P == {n \in Nat : n <= N => OnTheWay(root, way[n])}
  <2>5. 0 \in P
    BY <2>2, <2>3 DEF Ways, OnTheWay
  <2>6. ASSUME NEW n \in Nat, n \in P PROVE n + 1 \in P
    <3> SUFFICES ASSUME n + 1 <= N PROVE OnTheWay(root, way[n + 1])
      OBVIOUS
    <3>1. n + 1 \in 1 .. N /\ n <= N /\ n + 1 # 0 /\ (n + 1) - 1 = n
      BY <2>2
    <3>2. way[n + 1] = Enter(root, way[n], rel[n + 1])
      <4>1. n + 1 \in 0 .. N
        BY <3>1
      <4> QED BY <2>3, <3>1, <4>1 DEF Ways
    <3>3. OnTheWay(root, way[n]) /\ rel[n + 1] \in EntryName
      BY <2>2, <2>6, <3>1
    <3> QED BY <3>2, <3>3, EnterStays
  <2> HIDE DEF P
  <2>7. \A n \in Nat : n \in P
    BY <2>5, <2>6, Induction
  <2>8. OnTheWay(root, way[N])
    BY <2>2, <2>7 DEF P
  <2>9. Last(rel) \in EntryName /\ root.base \in Paths
    BY <1>2, FrontOf, PlainStands
  <2>10. ASSUME way[N] # NoPath
         PROVE  way[N] \in Paths /\ IsPlain(tree, way[N]) /\ IsPrefix(root.base, way[N])
    BY <2>8, <2>9, <2>10, PlainStands, PrefixOf DEF OnTheWay
  <2> QED BY <2>4, <2>9, <2>10 DEF Lands
<1> QED BY <1>1, <1>2

\* What the operating system then acts on is below the base.
LEMMA LandsBelow ==
  ASSUME IsTree(tree), NEW root, IsPlain(tree, root.base), NEW path, Lands(root, path)
  PROVE  /\ Named(path) # NoPath => Below(root, Named(path))
         /\ Openable(path) # NoPath => Below(root, Openable(path)) /\ Kind(Openable(path)) # "symlink"
         /\ path # NoPath /\ Lstat(path) # "none" =>
              /\ Below(root, path) /\ Lstat(path) = Kind(path)
              /\ Kind(path) # "symlink" => Opened(path) = path
              /\ Kind(path) = "symlink" => Kind(root.base) = "dir"
<1>1. root.base \in Paths /\ Kind(root.base) # "symlink" /\ Below(root, root.base)
  BY PlainStands, PrefixOf DEF Below
<1>2. CASE path = NoPath
  BY <1>2 DEF Named, Openable
<1>3. CASE path # NoPath /\ Below(root, path) /\ (Kind(path) = "symlink" => Kind(root.base) = "dir")
  <2>1. EntryAt(path) = path /\ Lstat(path) = Kind(path) /\ Named(path) = path
        /\ (Kind(path) # "symlink" => Opened(path) = path)
    BY <1>3, Names DEF Below
  <2>2. CASE Kind(path) = "symlink"
    BY <1>3, <2>1, <2>2 DEF Openable
  <2>3. CASE Kind(path) # "symlink"
    BY <1>3, <2>1, <2>3 DEF Openable
  <2> QED BY <2>2, <2>3
<1>4. CASE path = root.base
  <2>1. path # NoPath
    BY <1>1, <1>4, NoPathIs
  <2> QED BY <1>1, <1>3, <1>4, <2>1
<1>5. ASSUME NEW up \in Paths, NEW n \in EntryName,
             path = Append(up, n), IsPlain(tree, up), IsPrefix(root.base, up)
      PROVE  \/ path # NoPath /\ Below(root, path) /\ Kind(root.base) = "dir"
             \/ EntryAt(path) = NoPath /\ Opened(path) = NoPath
  <2>1. /\ path \in Paths /\ path # <<>> /\ Front(path) = up
        /\ IsPrefix(root.base, path)
    BY <1>1, <1>5, BelowOf, PrefixOf
  <2>2. CASE Kind(up) = "dir"
    <3>1. Below(root, path) /\ path # NoPath
      BY <2>1, <2>2, NoPathIs DEF Below, Stands
    <3>2. CASE up = root.base
      BY <2>2, <3>1, <3>2
    <3>3. CASE up # root.base
      <4>1. KindIn(tree, root.base) = "dir"
        BY <1>1, <1>5, <3>3, DirAbove
      <4> QED BY <3>1, <4>1 DEF Kind
    <3> QED BY <3>2, <3>3
  <2>3. CASE Kind(up) # "dir"
    BY <1>5, <2>3, NoWay
  <2> QED BY <2>2, <2>3
<1>6. CASE EntryAt(path) = NoPath /\ Opened(path) = NoPath
  BY <1>6, NoPathIs DEF Named, Openable, Lstat
<1>7. CASE path # NoPath /\ path # root.base
  <2>1. PICK up \in Paths, n \in EntryName :
          path = Append(up, n) /\ IsPlain(tree, up) /\ IsPrefix(root.base, up)
    BY <1>7 DEF Lands
  <2>2. \/ path # NoPath /\ Below(root, path) /\ Kind(root.base) = "dir"
        \/ EntryAt(path) = NoPath /\ Opened(path) = NoPath
    BY <1>5, <2>1
  <2> QED BY <1>3, <1>6, <2>2
<1> QED BY <1>2, <1>4, <1>7

-----------------------------------------------------------------------------
(* Whatever way leads to it, an entry stands in a directory. *)

\* The last step of a walk.
LEMMA WalkSplit ==
  ASSUME NEW p \in Paths, p # <<>>, NEW links, NEW follow
  PROVE  Walk(p, links, follow) =
           Through(Beneath(Walk(Front(p), links, follow), Last(p)), links, follow)
<1> DEFINE N == Len(p)
           at == CHOOSE f : Walks(f, N, p, links, follow)
           up == CHOOSE f : Walks(f, N - 1, Front(p), links, follow)
<1>1. /\ N \in Nat /\ N >= 1 /\ N - 1 \in Nat
      /\ Len(Front(p)) = N - 1 /\ \A i \in 1 .. N - 1 : Front(p)[i] = p[i]
      /\ Last(p) = p[N]
  BY FrontOf
<1>2. Walks(at, N, p, links, follow) /\ Walks(up, N - 1, Front(p), links, follow)
  BY <1>1, WalkExists
<1>3. Walk(p, links, follow) = at[N]
  BY DEF Walk, Walks
<1>4. Walk(Front(p), links, follow) = up[N - 1]
  <2>1. PICK k : k = Len(Front(p))
    OBVIOUS
  <2>2. k = N - 1
    BY <1>1, <2>1
  <2>3. Walk(Front(p), links, follow) = (CHOOSE f : Walks(f, k, Front(p), links, follow))[k]
    BY <2>1 DEF Walk, Walks
  <2> QED BY <2>2, <2>3
<1> HIDE DEF at, up, N
<1> DEFINE P == {n \in Nat : n <= N - 1 => at[n] = up[n]}
<1>5. 0 \in P
  BY <1>1, <1>2 DEF Walks
<1>6. ASSUME NEW n \in Nat, n \in P PROVE n + 1 \in P
  <2> SUFFICES ASSUME n + 1 <= N - 1 PROVE at[n + 1] = up[n + 1]
    OBVIOUS
  <2>1. n + 1 \in 0 .. N /\ n + 1 \in 0 .. N - 1 /\ n + 1 \in 1 .. N - 1 /\ n + 1 # 0 /\ (n + 1) - 1 = n
    BY <1>1
  <2>2. at[n + 1] = Through(Beneath(at[n], p[n + 1]), links, follow)
    BY <1>2, <2>1 DEF Walks
  <2>3. up[n + 1] = Through(Beneath(up[n], Front(p)[n + 1]), links, follow)
    BY <1>2, <2>1 DEF Walks
  <2>4. at[n] = up[n] /\ Front(p)[n + 1] = p[n + 1]
    BY <1>1, <1>6, <2>1
  <2> QED BY <2>2, <2>3, <2>4
<1> HIDE DEF P
<1>7. \A n \in Nat : n \in P
  BY <1>5, <1>6, Induction
<1>8. at[N - 1] = up[N - 1]
  BY <1>1, <1>7 DEF P
<1>9. at[N] = Through(Beneath(at[N - 1], p[N]), links, follow)
  BY <1>1, <1>2 DEF Walks
<1> QED BY <1>1, <1>3, <1>4, <1>8, <1>9

\* What the operating system acts on; where that is no symlink, an open
\* arrives at it.
LEMMA Arrives ==
  ASSUME IsTree(tree), NEW p \in Paths
  PROVE  /\ Named(p) = EntryAt(p)
         /\ EntryAt(p) # NoPath => Stands(EntryAt(p))
         /\ Lstat(p) # "symlink" => Opened(p) = EntryAt(p)
<1>0. p # NoPath
  BY NoPathIs
<1>1. CASE p = <<>>
  BY <1>0, <1>1, WalkNowhere DEF EntryAt, Named, Opened, Stands
<1>2. CASE p # <<>>
  <2>1. PICK up, n : up = Opened(Front(p)) /\ n = Last(p)
    OBVIOUS
  <2>2. n \in EntryName
    BY <1>2, <2>1, FrontOf
  <2>3. Opened(p) = Through(Beneath(up, n), MaxLinks, Follow[MaxLinks - 1])
    BY <1>2, <2>1, WalkSplit DEF Opened
  <2>4. EntryAt(p) = Beneath(Real(up), n)
    BY <1>2, <2>1 DEF EntryAt, Canonical
  <2>5. CASE Kind(up) = "dir"
    <3>1. up \in Paths
      BY <2>5, KindOf DEF Kind
    <3>2. PICK e : e = Append(up, n)
      OBVIOUS
    <3>3. e \in Paths /\ Front(e) = up /\ Stands(e)
      BY <2>2, <2>5, <3>1, <3>2, BelowOf DEF Stands
    <3>4. Beneath(up, n) = e /\ Real(up) = up
      BY <2>2, <2>5, <3>2 DEF Beneath, Real, EntryName
    <3>5. EntryAt(p) = e
      BY <2>4, <3>4
    <3>6. Lstat(p) # "symlink" => Opened(p) = e
      BY <2>3, <3>4, <3>5, ThroughIs DEF Lstat
    <3> QED BY <1>0, <3>3, <3>5, <3>6 DEF Named
  <2>6. CASE Kind(up) # "dir"
    <3>1. Beneath(up, n) = NoPath /\ Kind(Real(up)) # "dir"
      BY <2>6, NoPathIs DEF Beneath, Real
    <3>2. EntryAt(p) = NoPath
      BY <2>4, <3>1 DEF Beneath
    <3>3. Opened(p) = NoPath
      BY <2>3, <3>1, NoPathIs, ThroughIs
    <3> QED BY <1>0, <3>2, <3>3 DEF Named
  <2> QED BY <2>5, <2>6
<1> QED BY <1>1, <1>2

\* Resolve leads nowhere or to a path.
LEMMA ResolveIs ==
  ASSUME IsTree(tree), NEW root, root.base \in Paths, NEW rel \in Paths
  PROVE  Resolve(root, rel) \in Paths \union {NoPath}
<1>1. CASE rel = <<>>
  BY <1>1 DEF Resolve
<1>2. CASE rel # <<>>
  <2>1. PICK N : N = Len(rel) - 1
    OBVIOUS
  <2>2. N \in Nat /\ \A n \in 1 .. N : rel[n] \in EntryName
    BY <1>2, <2>1 DEF Paths
  <2> DEFINE way == CHOOSE w : Ways(w, N, root, rel)
  <2>3. Ways(way, N, root, rel)
    BY <2>2, WayExists
  <2>4. Resolve(root, rel) = IF way[N] = NoPath THEN NoPath ELSE Append(way[N], Last(rel))
    BY <1>2, <2>1 DEF Resolve, Ways
  <2> HIDE DEF way
  <2> DEFINE P == {n \in Nat : n <= N => way[n] \in Paths \union {NoPath}}
  <2>5. 0 \in P
    BY <2>2, <2>3 DEF Ways
  <2>6. ASSUME NEW n \in Nat, n \in P PROVE n + 1 \in P
    <3> SUFFICES ASSUME n + 1 <= N PROVE way[n + 1] \in Paths \union {NoPath}
      OBVIOUS
    <3>1. n + 1 \in 1 .. N /\ n + 1 \in 0 .. N /\ n <= N /\ n + 1 # 0 /\ (n + 1) - 1 = n
      BY <2>2
    <3>2. way[n + 1] = Enter(root, way[n], rel[n + 1])
      BY <2>3, <3>1 DEF Ways
    <3>3. way[n] \in Paths \union {NoPath} /\ rel[n + 1] \in EntryName
      BY <2>2, <2>6, <3>1
    <3>4. way[n] # NoPath => Append(way[n], rel[n + 1]) \in Paths
      BY <3>3, BelowOf
    <3>5. ASSUME NEW real PROVE Followed(root, real) \in Paths \union {NoPath}
      BY KindOf DEF Followed, Kind
    <3> QED BY <3>2, <3>4, <3>5 DEF Enter
  <2> HIDE DEF P
  <2>7. \A n \in Nat : n \in P
    BY <2>5, <2>6, Induction
  <2>8. way[N] \in Paths \union {NoPath}
    BY <2>2, <2>7 DEF P
  <2>9. Last(rel) \in EntryName
    BY <1>2, FrontOf
  <2> QED BY <2>4, <2>8, <2>9, BelowOf
<1> QED BY <1>1, <1>2

\* What the operating system acts on at a path root resolves is below d.
Reaches(root, d, path) ==
  /\ Named(path) # NoPath => Below(d, Named(path))
  /\ Openable(path) # NoPath => Below(d, Openable(path))
  /\ path # NoPath /\ Lstat(path) # "none"
       /\ (Lstat(path) = "symlink" => WithinBase(root, Canonical(path)))
     => IsPrefix(d.base, Canonical(path))

\* From a base that stands.
LEMMA StaysBelow ==
  ASSUME IsTree(tree), NEW root, IsPlain(tree, root.base), NEW rel \in Paths
  PROVE  Reaches(root, root, Resolve(root, rel))
<1>1. PICK path, real : path = Resolve(root, rel) /\ real = Canonical(path)
  OBVIOUS
<1>2. Lands(root, path)
  BY <1>1, ResolveLands
<1>3. ASSUME path # NoPath, Lstat(path) # "none",
             Lstat(path) = "symlink" => WithinBase(root, real)
      PROVE  IsPrefix(root.base, real)
  <2>1. /\ Below(root, path) /\ Lstat(path) = Kind(path)
        /\ Kind(path) # "symlink" => Opened(path) = path
        /\ Kind(path) = "symlink" => Kind(root.base) = "dir"
    BY <1>2, <1>3, LandsBelow
  <2>2. CASE Kind(path) = "symlink"
    <3>1. Canonical(root.base) = root.base
      BY <2>1, <2>2, Opens
    <3> QED BY <1>3, <2>1, <2>2, <3>1 DEF WithinBase
  <2>3. CASE Kind(path) # "symlink"
    <3>1. real = path
      BY <1>1, <1>3, <2>1, <2>3 DEF Canonical, Real
    <3> QED BY <2>1, <3>1 DEF Below
  <2> QED BY <2>2, <2>3
<1>4. /\ Named(path) # NoPath => Below(root, Named(path))
      /\ Openable(path) # NoPath => Below(root, Openable(path))
  BY <1>2, LandsBelow
<1> QED BY <1>1, <1>3, <1>4 DEF Reaches

\* From any base.
LEMMA StaysSomewhere ==
  ASSUME IsTree(tree), NEW root, root.base \in Paths, NEW rel \in Paths, NEW d, d.base = <<>>
  PROVE  Reaches(root, d, Resolve(root, rel))
<1>1. PICK path, real : path = Resolve(root, rel) /\ real = Canonical(path)
  OBVIOUS
<1>2. path \in Paths \union {NoPath}
  BY <1>1, ResolveIs
<1>3. ASSUME NEW e, Stands(e) PROVE Below(d, e)
  BY <1>3, PrefixOf DEF Below, Stands
<1>4. CASE path = NoPath
  BY <1>1, <1>4 DEF Reaches, Named, Openable
<1>5. CASE path \in Paths
  <2>1. /\ Named(path) = EntryAt(path)
        /\ EntryAt(path) # NoPath => Stands(EntryAt(path))
        /\ Lstat(path) # "symlink" => Opened(path) = EntryAt(path)
    BY <1>5, Arrives
  <2>2. Openable(path) # NoPath => Openable(path) = EntryAt(path)
    BY <2>1 DEF Openable
  <2>3. ASSUME Lstat(path) # "none", Lstat(path) = "symlink" => WithinBase(root, real)
        PROVE  IsPrefix(d.base, real)
    <3>1. real \in Paths
      <4>1. CASE Lstat(path) = "symlink"
        <5>1. real # NoPath
          BY <2>3, <4>1 DEF WithinBase
        <5>2. Kind(real) # "none"
          BY <1>1, <5>1 DEF Canonical, Real
        <5> QED BY <5>2, KindOf DEF Kind
      <4>2. CASE Lstat(path) # "symlink"
        <5>1. Kind(Opened(path)) # "none"
          BY <2>1, <2>3, <4>2 DEF Lstat
        <5>2. real = Opened(path)
          BY <1>1, <5>1 DEF Canonical, Real
        <5> QED BY <5>1, <5>2, KindOf DEF Kind
      <4> QED BY <4>1, <4>2
    <3> QED BY <3>1, PrefixOf
  <2>4. /\ Named(path) # NoPath => Below(d, Named(path))
        /\ Openable(path) # NoPath => Below(d, Openable(path))
    BY <1>3, <2>1, <2>2
  <2> QED BY <1>1, <2>3, <2>4 DEF Reaches
<1> QED BY <1>2, <1>4, <1>5

\* An entry that moves with its directory.
LEMMA RebasedIs ==
  ASSUME NEW from \in Paths, NEW to \in Paths, NEW q \in Paths, IsPrefix(from, q)
  PROVE  /\ Rebased(q, from, to) \in Paths
         /\ Len(Rebased(q, from, to)) = Len(to) + (Len(q) - Len(from))
         /\ IsPrefix(to, Rebased(q, from, to))
         /\ \A j \in 1 .. Len(q) - Len(from) : Rebased(q, from, to)[Len(to) + j] = q[Len(from) + j]
         /\ \A i \in 1 .. Len(to) : Rebased(q, from, to)[i] = to[i]
<1>1. PICK f, l, k : f = Len(from) /\ l = Len(q) /\ k = Len(to)
  OBVIOUS
<1>2. f \in Nat /\ l \in Nat /\ k \in Nat /\ f <= l /\ l - f \in Nat
      /\ to \in Seq(EntryName) /\ q \in Seq(EntryName)
  BY <1>1, PrefixOf DEF Paths
<1>3. PICK r : r = SubSeq(q, f + 1, l)
  OBVIOUS
<1>4. r \in Seq(EntryName) /\ Len(r) = l - f /\ \A j \in 1 .. l - f : r[j] = q[f + j]
  <2>1. f + 1 \in Int /\ l \in Int /\ \A i \in f + 1 .. l : q[i] \in EntryName
    BY <1>1, <1>2
  <2>2. /\ SubSeq(q, f + 1, l) \in Seq(EntryName)
        /\ Len(SubSeq(q, f + 1, l)) = IF f + 1 <= l THEN l - (f + 1) + 1 ELSE 0
        /\ \A i \in 1 .. l - (f + 1) + 1 : SubSeq(q, f + 1, l)[i] = q[(f + 1) + i - 1]
    BY ONLY <2>1, SubSeqProperties
  <2>3. Len(r) = l - f
    BY ONLY <1>2, <1>3, <2>2
  <2>4. ASSUME NEW j \in 1 .. l - f PROVE r[j] = q[f + j]
    <3>1. j \in 1 .. l - (f + 1) + 1 /\ (f + 1) + j - 1 = f + j
      BY <1>2
    <3> QED BY <1>3, <2>2, <3>1
  <2> QED BY <1>3, <2>2, <2>3, <2>4
<1>5. Rebased(q, from, to) = to \o r
  BY <1>1, <1>3 DEF Rebased
<1>6. PICK n : n = to \o r
  OBVIOUS
<1>7. /\ n \in Seq(EntryName) /\ Len(n) = k + (l - f)
      /\ \A i \in 1 .. k : n[i] = to[i]
      /\ \A j \in 1 .. l - f : n[k + j] = r[j]
  <2>1. /\ to \o r \in Seq(EntryName)
        /\ Len(to \o r) = Len(to) + Len(r)
        /\ \A i \in 1 .. Len(to) + Len(r) :
             (to \o r)[i] = IF i <= Len(to) THEN to[i] ELSE r[i - Len(to)]
    BY ONLY <1>2, <1>4, ConcatProperties
  <2>2. n \in Seq(EntryName) /\ Len(n) = k + (l - f)
    BY <1>1, <1>4, <1>6, <2>1
  <2>3. \A i \in 1 .. k + (l - f) : n[i] = IF i <= k THEN to[i] ELSE r[i - k]
    BY <1>1, <1>4, <1>6, <2>1
  <2>4. ASSUME NEW i \in 1 .. k PROVE n[i] = to[i]
    <3>1. i \in 1 .. k + (l - f) /\ i <= k
      BY <1>2
    <3> QED BY <2>3, <3>1
  <2>5. ASSUME NEW j \in 1 .. l - f PROVE n[k + j] = r[j]
    <3>1. k + j \in 1 .. k + (l - f) /\ ~(k + j <= k) /\ (k + j) - k = j
      BY <1>2
    <3> QED BY <2>3, <3>1
  <2> QED BY <2>2, <2>4, <2>5
<1>8. IsPrefix(to, n)
  <2>1. Len(to) <= Len(n)
    BY <1>1, <1>2, <1>7
  <2> QED BY <1>1, <1>7, <2>1, PrefixIs DEF Paths
<1> QED BY <1>1, <1>4, <1>5, <1>6, <1>7, <1>8 DEF Paths

\* A move back undoes a move, and the way to an entry moves with it.
LEMMA RebasedBack ==
  ASSUME NEW from \in Paths, NEW to \in Paths, NEW q \in Paths, IsPrefix(from, q)
  PROVE  /\ Rebased(Rebased(q, from, to), to, from) = q
         /\ Rebased(from, from, to) = to
         /\ q # from => Rebased(q, from, to) # to
         /\ q # from => /\ Rebased(q, from, to) # <<>>
                        /\ Front(Rebased(q, from, to)) = Rebased(Front(q), from, to)
<1>1. PICK f, l, k : f = Len(from) /\ l = Len(q) /\ k = Len(to)
  OBVIOUS
<1>2. f \in Nat /\ l \in Nat /\ k \in Nat /\ f <= l /\ (l = f => q = from)
      /\ \A i \in 1 .. f : q[i] = from[i]
  BY <1>1, PrefixOf, PrefixIs DEF Paths
<1>3. PICK n : n = Rebased(q, from, to)
  OBVIOUS
<1>4. /\ n \in Paths /\ Len(n) = k + (l - f) /\ IsPrefix(to, n)
      /\ \A j \in 1 .. l - f : n[k + j] = q[f + j]
      /\ \A i \in 1 .. k : n[i] = to[i]
  <2>1. /\ Rebased(q, from, to) \in Paths
        /\ Len(Rebased(q, from, to)) = Len(to) + (Len(q) - Len(from))
        /\ IsPrefix(to, Rebased(q, from, to))
        /\ \A j \in 1 .. Len(q) - Len(from) : Rebased(q, from, to)[Len(to) + j] = q[Len(from) + j]
        /\ \A i \in 1 .. Len(to) : Rebased(q, from, to)[i] = to[i]
    BY ONLY from \in Paths, to \in Paths, q \in Paths, IsPrefix(from, q), RebasedIs
  <2> QED BY <1>1, <1>3, <2>1
<1>5. Rebased(n, to, from) = q
  <2>1. PICK b : b = Rebased(n, to, from)
    OBVIOUS
  <2>2. /\ b \in Paths /\ Len(b) = f + (Len(n) - k)
        /\ \A j \in 1 .. Len(n) - k : b[f + j] = n[k + j]
        /\ \A i \in 1 .. f : b[i] = from[i]
    <3>1. /\ Rebased(n, to, from) \in Paths
          /\ Len(Rebased(n, to, from)) = Len(from) + (Len(n) - Len(to))
          /\ IsPrefix(from, Rebased(n, to, from))
          /\ \A j \in 1 .. Len(n) - Len(to) : Rebased(n, to, from)[Len(from) + j] = n[Len(to) + j]
          /\ \A i \in 1 .. Len(from) : Rebased(n, to, from)[i] = from[i]
      BY ONLY from \in Paths, to \in Paths, <1>4, RebasedIs
    <3> QED BY <1>1, <2>1, <3>1
  <2>3. Len(n) - k = l - f /\ Len(b) = l
    BY <1>2, <1>4, <2>2
  <2>4. ASSUME NEW i \in 1 .. l PROVE b[i] = q[i]
    <3>1. CASE i \in 1 .. f
      BY <1>2, <2>2, <3>1
    <3>2. CASE i \notin 1 .. f
      <4>1. PICK j : j = i - f
        OBVIOUS
      <4>2. j \in 1 .. l - f /\ f + j = i
        BY <1>2, <3>2, <4>1
      <4> QED BY <1>4, <2>2, <2>3, <4>2
    <3> QED BY <3>1, <3>2
  <2>5. b = q
    BY <1>1, <2>2, <2>3, <2>4, SeqEqual DEF Paths
  <2> QED BY <2>1, <2>5
<1>6. Rebased(from, from, to) = to
  <2>1. PICK b : b = Rebased(from, from, to)
    OBVIOUS
  <2>2. IsPrefix(from, from)
    BY PrefixOf
  <2>3. /\ b \in Paths /\ Len(b) = k + (f - f) /\ IsPrefix(to, b)
    BY <1>1, <2>1, <2>2, RebasedIs
  <2>4. Len(b) = Len(to)
    BY <1>1, <1>2, <2>3
  <2> QED BY <2>1, <2>3, <2>4, PrefixOf
<1>7. ASSUME q # from
      PROVE  n # to /\ n # <<>> /\ Front(n) = Rebased(Front(q), from, to)
  <2>1. q # <<>> /\ IsPrefix(from, Front(q)) /\ f < l
    BY <1>2, <1>7, PrefixOf
  <2>2. /\ Front(q) \in Paths /\ Len(Front(q)) = l - 1
        /\ \A i \in 1 .. l - 1 : Front(q)[i] = q[i]
    BY <1>1, <2>1, FrontOf
  <2>3. Len(n) # k /\ n # <<>>
    BY <1>2, <1>4, <2>1
  <2>4. /\ Front(n) \in Paths /\ Len(Front(n)) = Len(n) - 1
        /\ \A i \in 1 .. Len(n) - 1 : Front(n)[i] = n[i]
    BY <1>4, <2>3, FrontOf
  <2>5. PICK b : b = Rebased(Front(q), from, to)
    OBVIOUS
  <2>6. /\ b \in Paths /\ Len(b) = k + ((l - 1) - f)
        /\ \A j \in 1 .. (l - 1) - f : b[k + j] = Front(q)[f + j]
        /\ \A i \in 1 .. k : b[i] = to[i]
    <3>1. PICK q1 : q1 = Front(q)
      OBVIOUS
    <3>2. /\ Rebased(q1, from, to) \in Paths
          /\ Len(Rebased(q1, from, to)) = Len(to) + (Len(q1) - Len(from))
          /\ IsPrefix(to, Rebased(q1, from, to))
          /\ \A j \in 1 .. Len(q1) - Len(from) : Rebased(q1, from, to)[Len(to) + j] = q1[Len(from) + j]
          /\ \A i \in 1 .. Len(to) : Rebased(q1, from, to)[i] = to[i]
      <4>1. q1 \in Paths /\ IsPrefix(from, q1)
        BY <2>1, <2>2, <3>1
      <4> QED BY ONLY from \in Paths, to \in Paths, <4>1, RebasedIs
    <3>3. Len(q1) = l - 1
      BY <2>2, <3>1
    <3> QED BY <1>1, <2>5, <3>1, <3>2, <3>3
  <2>7. PICK h : h = (l - 1) - f
    OBVIOUS
  <2>8. h \in Nat /\ Len(n) - 1 = k + h /\ l - f = h + 1 /\ l - 1 = f + h
    BY <1>2, <1>4, <2>1, <2>7
  <2>9. ASSUME NEW i \in 1 .. k + h PROVE Front(n)[i] = b[i]
    <3>1. Front(n)[i] = n[i]
      BY <2>4, <2>8
    <3>2. CASE i \in 1 .. k
      BY <1>4, <2>6, <3>1, <3>2
    <3>3. CASE i \notin 1 .. k
      <4>1. PICK j : j = i - k
        OBVIOUS
      <4>2. j \in 1 .. h /\ j \in 1 .. h + 1 /\ k + j = i /\ f + j \in 1 .. f + h
        BY <1>2, <2>8, <3>3, <4>1
      <4>3. n[i] = q[f + j]
        BY <1>4, <2>8, <4>2
      <4>4. b[i] = q[f + j]
        BY <2>2, <2>6, <2>7, <2>8, <4>2
      <4> QED BY <3>1, <4>3, <4>4
    <3> QED BY <3>2, <3>3
  <2>10. Len(Front(n)) = k + h /\ Len(b) = k + h
    BY <2>4, <2>6, <2>7, <2>8
  <2>11. Front(n) = b
    BY <2>4, <2>6, <2>9, <2>10, SeqEqual DEF Paths
  <2> QED BY <1>1, <2>3, <2>5, <2>11
<1> QED BY <1>3, <1>5, <1>6, <1>7

-----------------------------------------------------------------------------
(* The operations of the handle. *)

\* What a call leaves and touches outside the base is as it was.
Within(root, t, touched) ==
  /\ \A p \in touched : IsPrefix(root.base, p)
  /\ \A p \in DOMAIN tree \union DOMAIN t :
       (p \in DOMAIN tree /\ p \in DOMAIN t /\ tree[p] = t[p]) \/ IsPrefix(root.base, p)

\* b is not below another base.
Apart(root, b) == ~(IsPrefix(root.base, b) /\ root.base # b)

\* No symlink comes on the way to b.
Keeps(t, b) == IsPlain(tree, b) => IsPlain(t, b)

\* The entry e changed, and nothing else.
PutsIn(root, e, t) ==
  /\ IsTree(t)
  /\ Within(root, t, {e})
  /\ \A b \in Paths : Keeps(t, b)
  /\ DOMAIN t = DOMAIN tree \union {e}
  /\ \A p \in DOMAIN tree : p # e => t[p] = tree[p]

\* One entry is written or made.
LEMMA PutSound ==
  ASSUME IsTree(tree), NEW root, root.base \in Paths, NEW e, Below(root, e),
         NEW new, Kind(e) \in {"file", "none"},
         new.kind = "file" \/ (new.kind = "dir" /\ Kind(e) = "none"),
         NEW t, t = With(e, new)
  PROVE  PutsIn(root, e, t)
<1>1. e \in Paths /\ e # <<>> /\ IsPrefix(root.base, e) /\ Kind(Front(e)) = "dir"
  BY KindOf DEF Below, Stands, Kind
<1>2. /\ DOMAIN t = DOMAIN tree \union {e} /\ t[e] = new
      /\ \A p \in DOMAIN tree : p # e => t[p] = tree[p]
  BY DEF With
<1>3. ASSUME NEW p, KindIn(tree, p) = "dir" PROVE KindIn(t, p) = "dir"
  <2>1. p # e
    BY <1>3 DEF Kind
  <2> QED BY <1>2, <1>3, <2>1 DEF KindIn
<1>4. IsTree(t)
  <2>1. DOMAIN t \subseteq Seq(EntryName) \ {<<>>}
    BY <1>1, <1>2 DEF IsTree, Paths
  <2>2. IsFiniteSet(DOMAIN t)
    BY <1>2, FS_AddElement DEF IsTree
  <2>3. ASSUME NEW p \in DOMAIN t
        PROVE  t[p].kind \in {"file", "dir", "symlink"} /\ KindIn(t, Front(p)) = "dir"
    <3>1. CASE p = e
      BY <1>1, <1>2, <1>3, <3>1 DEF Kind
    <3>2. CASE p # e
      <4>1. p \in DOMAIN tree /\ t[p] = tree[p]
        BY <1>2, <3>2
      <4> QED BY <1>3, <4>1 DEF IsTree
    <3> QED BY <3>1, <3>2
  <2> QED BY <2>1, <2>2, <2>3 DEF IsTree
<1>5. Within(root, t, {e})
  BY <1>1, <1>2 DEF Within
<1>6. ASSUME NEW b \in Paths, IsPlain(tree, b) PROVE IsPlain(t, b)
  <2>1. b # <<>> => KindIn(t, Front(b)) = "dir"
    BY <1>3, <1>6 DEF IsPlain
  <2>2. KindIn(t, b) # "symlink"
    <3>1. CASE b = e
      BY <1>1, <1>2, <3>1 DEF KindIn
    <3>2. CASE b # e
      BY <1>2, <1>6, <3>2 DEF KindIn, IsPlain
    <3> QED BY <3>1, <3>2
  <2> QED BY <1>6, <2>1, <2>2 DEF IsPlain
<1> QED BY <1>2, <1>4, <1>5, <1>6 DEF Keeps, PutsIn

\* What lies in a directory that stays, stays.
LEMMA AboveStays ==
  ASSUME IsTree(tree), NEW root, root.base \in Paths, NEW e \in Paths, IsPrefix(root.base, e),
         NEW b \in Paths, IsPlain(tree, b), Apart(root, b), b # <<>>
  PROVE  Front(b) \notin At(e)
<1> SUFFICES ASSUME Front(b) \in At(e) PROVE FALSE
  OBVIOUS
<1>1. Front(b) \in Paths
  BY FrontOf
<1>2. IsPrefix(root.base, Front(b))
  BY <1>1, PrefixOf DEF At
<1>3. IsPrefix(root.base, b) /\ root.base # b
  BY <1>2, PrefixOf
<1> QED BY <1>3 DEF Apart

\* An entry is removed with all that is in it.
LEMMA TakeSound ==
  ASSUME IsTree(tree), NEW root, root.base \in Paths, NEW e, Below(root, e),
         NEW t, t = Without(At(e))
  PROVE  /\ IsTree(t)
         /\ Within(root, t, At(e))
         /\ \A b \in Paths : Apart(root, b) => Keeps(t, b)
         /\ DOMAIN t = DOMAIN tree \ At(e)
         /\ \A p \in DOMAIN t : t[p] = tree[p]
<1>1. e \in Paths /\ IsPrefix(root.base, e)
  BY DEF Below, Stands
<1>2. DOMAIN t = DOMAIN tree \ At(e) /\ \A p \in DOMAIN t : t[p] = tree[p]
  BY DEF Without
<1>3. ASSUME NEW p, KindIn(tree, p) = "dir", p \notin At(e) PROVE KindIn(t, p) = "dir"
  BY <1>2, <1>3 DEF KindIn
<1>4. IsTree(t)
  <2>1. DOMAIN t \subseteq Seq(EntryName) \ {<<>>}
    BY <1>2 DEF IsTree
  <2>2. IsFiniteSet(DOMAIN t)
    <3>1. DOMAIN t \in SUBSET DOMAIN tree
      BY <1>2
    <3> QED BY <3>1, FS_Subset DEF IsTree
  <2>3. ASSUME NEW p \in DOMAIN t
        PROVE  t[p].kind \in {"file", "dir", "symlink"} /\ KindIn(t, Front(p)) = "dir"
    <3>1. p \in DOMAIN tree /\ p \notin At(e) /\ t[p] = tree[p] /\ p \in Paths /\ p # <<>>
      BY <1>2, KindOf
    <3>2. KindIn(tree, Front(p)) = "dir" /\ tree[p].kind \in {"file", "dir", "symlink"}
      BY <3>1 DEF IsTree
    <3>3. Front(p) \notin At(e)
      <4> SUFFICES ASSUME Front(p) \in At(e) PROVE FALSE
        OBVIOUS
      <4>1. IsPrefix(e, p)
        BY <1>1, <3>1, PrefixOf DEF At
      <4> QED BY <3>1, <4>1 DEF At
    <3> QED BY <1>3, <3>1, <3>2, <3>3
  <2> QED BY <2>1, <2>2, <2>3 DEF IsTree
<1>5. Within(root, t, At(e))
  <2>1. ASSUME NEW p \in At(e) PROVE IsPrefix(root.base, p)
    <3>1. p \in Paths /\ IsPrefix(e, p)
      BY KindOf DEF At
    <3> QED BY <1>1, <3>1, PrefixOf
  <2> QED BY <1>2, <2>1 DEF Within
<1>6. ASSUME NEW b \in Paths, Apart(root, b), IsPlain(tree, b) PROVE IsPlain(t, b)
  <2>1. b # <<>> => KindIn(t, Front(b)) = "dir"
    BY <1>1, <1>3, <1>6, AboveStays DEF IsPlain
  <2>2. KindIn(t, b) # "symlink"
    BY <1>2, <1>6 DEF KindIn, IsPlain
  <2> QED BY <1>6, <2>1, <2>2 DEF IsPlain
<1> QED BY <1>2, <1>4, <1>5, <1>6 DEF Keeps

\* Whatever lies in an entry lies in a child of it, and the entry is a directory.
LEMMA ChildOf ==
  ASSUME IsTree(tree), NEW p \in Paths, NEW q \in At(p), q # p
  PROVE  Kind(p) = "dir" /\ Children(p) # {}
<1>1. q \in DOMAIN tree /\ q \in Paths /\ IsPrefix(p, q) /\ KindIn(tree, q) # "none"
  BY KindOf DEF At
<1>2. Kind(p) = "dir"
  BY <1>1, DirAbove DEF Kind
<1>3. PICK n, l : n = Len(p) + 1 /\ l = Len(q)
  OBVIOUS
<1>4. n \in 0 .. l /\ n >= 1 /\ n \in Nat /\ l \in Nat
      /\ Len(p) \in Nat /\ Len(p) <= n /\ Len(p) + 1 = n /\ l = Len(q)
  BY <1>1, <1>3, PrefixOf DEF Paths
<1>5. PICK c : c = Cut(q, n)
  OBVIOUS
<1>6. c \in Paths /\ Len(c) = n /\ IsPrefix(c, q) /\ \A i \in 1 .. n : c[i] = q[i]
  BY <1>1, <1>4, <1>5, CutOf
<1>7. IsPrefix(p, c)
  <2>1. \A i \in 1 .. Len(p) : p[i] = q[i]
    BY <1>1, PrefixIs
  <2>2. Len(p) <= Len(c) /\ \A i \in 1 .. Len(p) : p[i] = c[i]
    BY <1>4, <1>6, <2>1
  <2> QED BY <1>6, <2>2, PrefixIs
<1>8. c \in DOMAIN tree
  <2>1. KindIn(tree, c) # "none"
    <3>1. CASE c = q
      BY <1>1, <3>1
    <3>2. CASE c # q
      BY <1>1, <1>6, <3>2, DirAbove
    <3> QED BY <3>1, <3>2
  <2>2. c # <<>>
    BY <1>4, <1>6
  <2> QED BY <2>1, <2>2, KindOf
<1>9. c \in Children(p)
  BY <1>4, <1>6, <1>7, <1>8 DEF Children, At
<1> QED BY <1>2, <1>9

\* The entries a rename may put in the place of another.
LEMMA PlaceOf ==
  ASSUME IsTree(tree), NEW src, Stands(src), NEW dst, Stands(dst), src # dst,
         Kind(src) \in {"file", "dir"}, Kind(dst) # "symlink", ~Blocked(src, dst)
  PROVE  /\ src \in Paths /\ dst \in Paths /\ src # <<>> /\ dst # <<>>
         /\ src \in At(src)
         /\ ~IsPrefix(src, dst)
         /\ At(dst) \subseteq {dst}
<1>1. src \in Paths /\ dst \in Paths
  BY DEF Stands
<1>2. ~IsPrefix(src, dst) /\ src # <<>>
  BY <1>1, PrefixOf DEF Blocked
<1>3. src \in At(src)
  <2>1. IsPrefix(src, src)
    BY <1>1, PrefixOf
  <2>2. src \in DOMAIN tree
    BY <1>2, KindOf DEF Kind
  <2> QED BY <2>1, <2>2 DEF At
<1>4. ASSUME NEW p \in At(dst), p # dst PROVE FALSE
  <2>1. Kind(dst) = "dir" /\ Children(dst) # {}
    BY <1>1, <1>4, ChildOf
  <2> QED BY <2>1 DEF Blocked
<1>5. dst # <<>>
  <2> SUFFICES ASSUME dst = <<>> PROVE FALSE
    OBVIOUS
  <2>1. src \in At(dst)
    BY <1>1, <1>3, PrefixOf DEF At
  <2> QED BY <1>4, <2>1
<1> QED BY <1>1, <1>2, <1>3, <1>4, <1>5

MovesTo(src, dst, t) ==
  /\ DOMAIN t = (DOMAIN tree \ (At(src) \union At(dst)))
                  \union {Rebased(q, src, dst) : q \in At(src)}
  /\ \A p \in DOMAIN tree \ (At(src) \union At(dst)) : t[p] = tree[p]
  /\ \A q \in At(src) : /\ Rebased(q, src, dst) \in Paths
                        /\ IsPrefix(dst, Rebased(q, src, dst))
                        /\ Rebased(q, src, dst) \notin DOMAIN tree \ {dst}
                        /\ Rebased(q, src, dst) \in DOMAIN t
                        /\ t[Rebased(q, src, dst)] = tree[q]

\* What is where after a rename.
LEMMA MovedIs ==
  ASSUME IsTree(tree), NEW src, Stands(src), NEW dst, Stands(dst), src # dst,
         Kind(src) \in {"file", "dir"}, Kind(dst) # "symlink", ~Blocked(src, dst),
         NEW t, t = Moved(src, dst)
  PROVE  MovesTo(src, dst, t)
<1>1. src \in Paths /\ dst \in Paths /\ At(dst) \subseteq {dst}
  BY PlaceOf
<1> DEFINE rest == DOMAIN tree \ (At(src) \union At(dst))
           N == {Rebased(q, src, dst) : q \in At(src)}
<1>2. t = [p \in rest \union N |->
             IF p \in rest THEN tree[p] ELSE tree[CHOOSE q \in At(src) : Rebased(q, src, dst) = p]]
  BY DEF Moved
<1>3. ASSUME NEW q \in At(src)
      PROVE  /\ Rebased(q, src, dst) \in Paths
             /\ IsPrefix(dst, Rebased(q, src, dst))
             /\ Rebased(q, src, dst) \notin DOMAIN tree \ {dst}
             /\ Rebased(q, src, dst) \in N
             /\ Rebased(q, src, dst) \notin rest
             /\ Rebased(Rebased(q, src, dst), dst, src) = q
  <2>1. q \in Paths /\ IsPrefix(src, q)
    BY KindOf DEF At
  <2>2. Rebased(q, src, dst) \in Paths /\ IsPrefix(dst, Rebased(q, src, dst))
    BY <1>1, <2>1, RebasedIs
  <2>3. Rebased(Rebased(q, src, dst), dst, src) = q
    BY <1>1, <2>1, RebasedBack
  <2>4. Rebased(q, src, dst) \in DOMAIN tree => Rebased(q, src, dst) \in At(dst)
    BY <2>2 DEF At
  <2> QED BY <1>1, <2>2, <2>3, <2>4
<1>4. DOMAIN t = rest \union N
  BY <1>2
<1>5. \A p \in rest : t[p] = tree[p]
  BY <1>2
<1>6. ASSUME NEW q \in At(src) PROVE t[Rebased(q, src, dst)] = tree[q]
  <2>1. PICK p : p = Rebased(q, src, dst)
    OBVIOUS
  <2>2. t[p] = tree[CHOOSE r \in At(src) : Rebased(r, src, dst) = p]
    BY <1>2, <1>3, <2>1
  <2>3. \A r \in At(src) : Rebased(r, src, dst) = p => r = q
    BY <1>3, <2>1
  <2>4. (CHOOSE r \in At(src) : Rebased(r, src, dst) = p) = q
    BY <2>1, <2>3
  <2> QED BY <2>1, <2>2, <2>4
<1> QED BY <1>3, <1>4, <1>5, <1>6 DEF MovesTo

\* A rename leaves a tree, and changes what it moves.
LEMMA MoveSound ==
  ASSUME IsTree(tree), NEW root, root.base \in Paths,
         NEW src, Below(root, src), NEW dst, Below(root, dst), src # dst,
         Kind(src) \in {"file", "dir"}, Kind(dst) # "symlink", ~Blocked(src, dst),
         NEW t, t = Moved(src, dst)
  PROVE  /\ IsTree(t)
         /\ Within(root, t, At(src) \union {dst})
         /\ \A b \in Paths : Apart(root, b) => Keeps(t, b)
<1>1. /\ src \in Paths /\ dst \in Paths /\ src # <<>> /\ dst # <<>>
      /\ src \in At(src) /\ ~IsPrefix(src, dst) /\ At(dst) \subseteq {dst}
      /\ IsPrefix(root.base, src) /\ IsPrefix(root.base, dst)
  BY PlaceOf DEF Below
<1>2. MovesTo(src, dst, t)
  BY MovedIs DEF Below
<1> DEFINE rest == DOMAIN tree \ (At(src) \union At(dst))
           N == {Rebased(q, src, dst) : q \in At(src)}
<1>3. DOMAIN t = rest \union N /\ \A p \in rest : t[p] = tree[p]
  BY <1>2 DEF MovesTo
<1>4. \A q \in At(src) : /\ Rebased(q, src, dst) \in Paths
                         /\ IsPrefix(dst, Rebased(q, src, dst))
                         /\ t[Rebased(q, src, dst)] = tree[q]
                         /\ q \in Paths /\ q # <<>> /\ q \in DOMAIN tree /\ IsPrefix(src, q)
  BY <1>2, KindOf DEF MovesTo, At
<1>5. ASSUME NEW q \in At(src), Rebased(q, src, dst) = <<>> PROVE FALSE
  <2>1. IsPrefix(dst, <<>>) /\ <<>> \in Paths /\ Len(<<>>) = 0
    BY <1>4, <1>5 DEF Paths
  <2>2. Len(dst) <= 0 /\ Len(dst) \in Nat
    BY <1>1, <2>1, PrefixOf DEF Paths
  <2> QED BY <1>1, <2>2 DEF Paths
<1>6. ASSUME NEW p, KindIn(tree, p) = "dir", p \notin At(src) \union At(dst)
      PROVE  KindIn(t, p) = "dir"
  <2>1. p = <<>> \/ (p \in DOMAIN tree /\ tree[p].kind = "dir")
    <3>1. p # <<>> => p \in DOMAIN tree
      BY <1>6, KindOf
    <3>2. p \in DOMAIN tree => KindIn(tree, p) = tree[p].kind
      BY KindOf
    <3> QED BY <1>6, <3>1, <3>2
  <2>2. <<>> \notin DOMAIN t
    BY <1>3, <1>5, KindOf
  <2> QED BY <1>3, <1>6, <2>1, <2>2 DEF KindIn
<1>7. IsTree(t)
  <2>1. DOMAIN t \subseteq Seq(EntryName) \ {<<>>}
    BY <1>3, <1>4, <1>5, KindOf DEF Paths
  <2>2. IsFiniteSet(DOMAIN t)
    <3>1. IsFiniteSet(At(src)) /\ IsFiniteSet(rest)
      <4>1. At(src) \in SUBSET DOMAIN tree /\ rest \in SUBSET DOMAIN tree
        BY DEF At
      <4> QED BY <4>1, FS_Subset DEF IsTree
    <3>2. IsFiniteSet(N)
      <4> DEFINE f == [q \in At(src) |-> Rebased(q, src, dst)]
      <4>1. f \in [At(src) -> N] /\ \A m \in N : \E q \in At(src) : f[q] = m
        OBVIOUS
      <4> HIDE DEF f, N
      <4>2. f \in Surjection(At(src), N)
        BY <4>1 DEF Surjection
      <4> QED BY <3>1, <4>2, FS_Surjection
    <3> HIDE DEF rest, N
    <3> QED BY <1>3, <3>1, <3>2, FS_Union
  <2>3. ASSUME NEW p \in rest
        PROVE  t[p].kind \in {"file", "dir", "symlink"} /\ KindIn(t, Front(p)) = "dir"
    <3>1. p \in Paths /\ p # <<>> /\ t[p] = tree[p] /\ p \in DOMAIN tree
      BY <1>3, KindOf
    <3>2. KindIn(tree, Front(p)) = "dir" /\ tree[p].kind \in {"file", "dir", "symlink"}
      BY <3>1 DEF IsTree
    <3>3. Front(p) \notin At(src) \union At(dst)
      <4> SUFFICES ASSUME NEW e \in {src, dst}, Front(p) \in At(e) PROVE FALSE
        OBVIOUS
      <4>1. IsPrefix(e, p)
        BY <1>1, <3>1, PrefixOf DEF At
      <4> QED BY <3>1, <4>1 DEF At
    <3> QED BY <1>6, <3>1, <3>2, <3>3
  <2>4. ASSUME NEW q \in At(src)
        PROVE  /\ t[Rebased(q, src, dst)].kind \in {"file", "dir", "symlink"}
               /\ KindIn(t, Front(Rebased(q, src, dst))) = "dir"
    <3>1. t[Rebased(q, src, dst)].kind \in {"file", "dir", "symlink"}
      BY <1>4 DEF IsTree
    <3>2. CASE q = src
      <4>1. Rebased(q, src, dst) = dst
        BY <1>1, <1>4, <3>2, RebasedBack
      <4>2. KindIn(tree, Front(dst)) = "dir"
        BY <1>1 DEF Below, Stands, Kind
      <4>3. Front(dst) \in Paths
        BY <1>1, FrontOf
      <4>4. Front(dst) \notin At(src)
        <5> SUFFICES ASSUME Front(dst) \in At(src) PROVE FALSE
          OBVIOUS
        <5> QED BY <1>1, <4>3, PrefixOf DEF At
      <4>5. Front(dst) \notin At(dst)
        BY <1>1, FrontOf
      <4> QED BY <1>6, <3>1, <4>1, <4>2, <4>4, <4>5
    <3>3. CASE q # src
      <4>1. /\ Front(Rebased(q, src, dst)) = Rebased(Front(q), src, dst)
            /\ Front(q) \in Paths /\ IsPrefix(src, Front(q))
        BY <1>1, <1>4, <3>3, RebasedBack, PrefixOf, FrontOf
      <4>2. KindIn(tree, Front(q)) = "dir"
        BY <1>4 DEF IsTree
      <4>3. Front(q) # <<>>
        <5> SUFFICES ASSUME Front(q) = <<>> PROVE FALSE
          OBVIOUS
        <5>1. Len(src) <= 0 /\ Len(src) \in Nat
          BY <1>1, <4>1, PrefixOf DEF Paths
        <5> QED BY <1>1, <5>1 DEF Paths
      <4>4. Front(q) \in DOMAIN tree /\ tree[Front(q)].kind = "dir"
        BY <4>2, <4>3, KindOf
      <4>5. Front(q) \in At(src)
        BY <4>1, <4>4 DEF At
      <4>6. /\ Rebased(Front(q), src, dst) \in DOMAIN t
            /\ t[Rebased(Front(q), src, dst)] = tree[Front(q)]
            /\ Rebased(Front(q), src, dst) # <<>>
        BY <1>3, <1>4, <1>5, <4>5
      <4>7. KindIn(t, Rebased(Front(q), src, dst)) = "dir"
        BY <4>4, <4>6 DEF KindIn
      <4> QED BY <3>1, <4>1, <4>7
    <3> QED BY <3>2, <3>3
  <2>5. \A p \in DOMAIN t : t[p].kind \in {"file", "dir", "symlink"} /\ KindIn(t, Front(p)) = "dir"
    BY <1>3, <2>3, <2>4
  <2> QED BY <2>1, <2>2, <2>5 DEF IsTree
<1>8. Within(root, t, At(src) \union {dst})
  <2>1. ASSUME NEW p \in At(src) \union At(dst) PROVE IsPrefix(root.base, p)
    <3>1. p \in Paths /\ (IsPrefix(src, p) \/ IsPrefix(dst, p))
      BY KindOf DEF At
    <3> QED BY <1>1, <3>1, PrefixOf
  <2>2. ASSUME NEW q \in At(src) PROVE IsPrefix(root.base, Rebased(q, src, dst))
    BY <1>1, <1>4, PrefixOf
  <2> QED BY <1>1, <1>3, <2>1, <2>2 DEF Within
<1>9. ASSUME NEW b \in Paths, Apart(root, b), IsPlain(tree, b) PROVE IsPlain(t, b)
  <2>1. b # <<>> => KindIn(t, Front(b)) = "dir"
    <3> SUFFICES ASSUME b # <<>> PROVE KindIn(t, Front(b)) = "dir"
      OBVIOUS
    <3>1. Front(b) \notin At(src) /\ Front(b) \notin At(dst)
      BY <1>1, <1>9, AboveStays
    <3> QED BY <1>6, <1>9, <3>1 DEF IsPlain
  <2>2. KindIn(t, b) # "symlink"
    <3>1. CASE b \in rest
      BY <1>3, <1>9, <3>1 DEF KindIn, IsPlain
    <3>2. ASSUME NEW q \in At(src), b = Rebased(q, src, dst)
          PROVE  KindIn(t, b) # "symlink"
      <4>1. IsPrefix(dst, b) /\ IsPrefix(root.base, b)
        BY <1>1, <1>4, <3>2, PrefixOf
      <4>2. root.base = b
        BY <1>9, <4>1 DEF Apart
      <4>3. b = dst
        <5>1. Len(b) <= Len(dst) /\ Len(dst) <= Len(b) /\ Len(b) \in Nat /\ Len(dst) \in Nat
          BY <1>1, <4>1, <4>2, PrefixOf DEF Paths
        <5> QED BY <1>1, <4>1, <5>1, PrefixOf
      <4>4. q = src
        <5> SUFFICES ASSUME q # src PROVE FALSE
          OBVIOUS
        <5>1. q \in Paths /\ IsPrefix(src, q)
          BY <1>4
        <5>2. Rebased(q, src, dst) # dst
          BY <1>1, <5>1, RebasedBack
        <5> QED BY <3>2, <4>3, <5>2
      <4>5. tree[src].kind # "symlink" /\ b # <<>>
        BY <1>1, <1>4, <4>3, KindOf DEF Kind
      <4>6. t[b] = tree[src]
        BY <1>4, <3>2, <4>4
      <4> QED BY <4>5, <4>6 DEF KindIn
    <3>3. CASE b \notin DOMAIN t
      BY <3>3 DEF KindIn
    <3> QED BY <1>3, <3>1, <3>2, <3>3
  <2> QED BY <1>9, <2>1, <2>2 DEF IsPlain
<1> QED BY <1>7, <1>8, <1>9 DEF Keeps

\* A rename loses no more entries than it makes, but the one it replaces.
LEMMA MoveCounts ==
  ASSUME IsTree(tree), NEW src, Stands(src), NEW dst, Stands(dst), src # dst,
         Kind(src) \in {"file", "dir"}, Kind(dst) # "symlink", ~Blocked(src, dst),
         NEW t, t = Moved(src, dst), IsFiniteSet(DOMAIN t)
  PROVE  Cardinality(DOMAIN tree \ DOMAIN t) <= Cardinality(DOMAIN t \ DOMAIN tree) + 1
<1>1. src \in Paths /\ dst \in Paths /\ src \in At(src) /\ At(dst) \subseteq {dst}
  BY PlaceOf
<1>2. MovesTo(src, dst, t)
  BY MovedIs
<1> DEFINE gone == DOMAIN tree \ DOMAIN t
           come == DOMAIN t \ DOMAIN tree
           S == At(src) \ {src}
           f == [q \in S |-> Rebased(q, src, dst)]
<1>3. \A q \in At(src) : q \in Paths /\ IsPrefix(src, q)
  BY KindOf DEF At
<1>4. \A q \in S : Rebased(q, src, dst) # dst /\ Rebased(Rebased(q, src, dst), dst, src) = q
  BY <1>1, <1>3, RebasedBack
<1>5. \A q \in S : Rebased(q, src, dst) \in come
  BY <1>2, <1>4 DEF MovesTo
<1>6. f \in [S -> come] /\ \A a, b \in S : f[a] = f[b] => a = b
  BY <1>4, <1>5
<1>7. IsFiniteSet(come) /\ Cardinality(come) \in Nat
  <2>1. come \in SUBSET DOMAIN t
    OBVIOUS
  <2>2. IsFiniteSet(come)
    BY <2>1, FS_Subset
  <2> QED BY <2>2, FS_CardinalityType
<1>8. Cardinality(S) <= Cardinality(come)
  <2>1. f \in Injection(S, come)
    <3>1. DOMAIN f = S
      OBVIOUS
    <3> HIDE DEF f, S, come
    <3> QED BY <1>6, <3>1 DEF Injection, IsInjective
  <2> HIDE DEF f, S, come
  <2> QED BY <1>7, <2>1, FS_Injection
<1>9. IsFiniteSet(At(src)) /\ Cardinality(At(src)) \in Nat
  <2>1. At(src) \in SUBSET DOMAIN tree
    BY DEF At
  <2>2. IsFiniteSet(At(src))
    BY <2>1, FS_Subset DEF IsTree
  <2> QED BY <2>2, FS_CardinalityType
<1>10. Cardinality(S) = Cardinality(At(src)) - 1
  BY <1>1, <1>9, FS_RemoveElement
<1>11. Cardinality(gone) <= Cardinality(At(src)) /\ Cardinality(gone) \in Nat
  <2>1. gone \subseteq At(src)
    <3> SUFFICES ASSUME NEW p \in gone, p \notin At(src) PROVE FALSE
      OBVIOUS
    <3>1. p \in At(dst)
      BY <1>2 DEF MovesTo
    <3>2. Rebased(src, src, dst) = dst
      BY <1>1, <1>3, RebasedBack
    <3>3. dst \in DOMAIN t
      BY <1>1, <1>2, <3>2 DEF MovesTo
    <3> QED BY <1>1, <3>1, <3>3
  <2>2. gone \in SUBSET At(src)
    BY <2>1
  <2> HIDE DEF gone
  <2>3. IsFiniteSet(gone) /\ Cardinality(gone) <= Cardinality(At(src))
    BY ONLY <1>9, <2>2, FS_Subset
  <2> QED BY <2>3, FS_CardinalityType
<1> HIDE DEF gone, come, S
<1>12. Cardinality(S) = Cardinality(At(src)) - 1 =>
       Cardinality(gone) <= Cardinality(come) + 1
  BY ONLY <1>7, <1>8, <1>9, <1>11
<1> QED BY <1>10, <1>12 DEF gone, come

Deletions == {"Delete", "RecursiveDelete"}

Gains(t)    == DOMAIN t \ DOMAIN tree
Loses(t)    == DOMAIN tree \ DOMAIN t
Rewrites(t) == {p \in DOMAIN tree \cap DOMAIN t : tree[p] # t[p]}

\* The operations cover the change of the tree to t.
Covered(t, ops) ==
  /\ Gains(t) # {} => "Create" \in ops
  /\ Loses(t) # {} => ops \cap Deletions # {}
  /\ Cardinality(Loses(t)) > Cardinality(Gains(t)) + 1 => "RecursiveDelete" \in ops
  /\ Rewrites(t) # {} => "Write" \in ops \/ {"Delete", "Create"} \subseteq ops

\* Where a root may take nothing away, or holds no other base, no base goes.
Spares(root, b) == root.operations \cap Deletions = {} \/ Apart(root, b)

Fine(root, done) ==
  /\ IsTree(done.tree)
  /\ Within(root, done.tree, done.touched)
  /\ Covered(done.tree, root.operations)
  /\ \A b \in Paths : Spares(root, b) => Keeps(done.tree, b)

\* A call that changes nothing.
LEMMA SameFine ==
  ASSUME IsTree(tree), NEW root, NEW done, done.tree = tree,
         \A p \in done.touched : IsPrefix(root.base, p)
  PROVE  Fine(root, done)
<1>1. Within(root, tree, done.touched)
  BY DEF Within
<1>2. Covered(tree, root.operations)
  <2>1. Gains(tree) = {} /\ Loses(tree) = {} /\ Rewrites(tree) = {}
    BY DEF Gains, Loses, Rewrites
  <2>2. Cardinality({}) = 0
    BY FS_EmptySet
  <2> QED BY <2>1, <2>2 DEF Covered
<1> QED BY <1>1, <1>2 DEF Fine, Keeps

\* A call that fails.
LEMMA ErrorFine ==
  ASSUME IsTree(tree), NEW root
  PROVE  Fine(root, HostError)
BY SameFine DEF HostError

\* A file is read.
LEMMA ReadFine ==
  ASSUME IsTree(tree), NEW root, NEW rel, NEW d, d.base \in Paths,
         Reaches(root, d, Resolve(root, rel))
  PROVE  Fine(d, ReadAt(root, rel))
<1>1. PICK file : file = Openable(Resolve(root, rel))
  OBVIOUS
<1>2. file # NoPath => Below(d, file)
  BY <1>1 DEF Reaches
<1>3. CASE Kind(file) = "file"
  <2>1. IsPrefix(d.base, file)
    BY <1>2, <1>3, NoPathIs DEF Below
  <2> QED BY <1>1, <1>3, <2>1, SameFine DEF ReadAt, ReadFrom, Done
<1>4. CASE Kind(file) # "file"
  BY <1>1, <1>4, ErrorFine DEF ReadAt, ReadFrom
<1> QED BY <1>3, <1>4

\* The metadata of an entry are read.
LEMMA MetadataFine ==
  ASSUME IsTree(tree), NEW root, NEW rel, NEW d, d.base \in Paths,
         Reaches(root, d, Resolve(root, rel))
  PROVE  Fine(d, MetadataAt(root, rel))
<1>1. PICK path, real : path = Resolve(root, rel) /\ real = Canonical(path)
  OBVIOUS
<1>2. MetadataAt(root, rel) = MetadataOf(root, path, Lstat(path), real)
  BY <1>1 DEF MetadataAt
<1>3. CASE \/ path = NoPath \/ Lstat(path) = "none"
           \/ (Lstat(path) = "symlink" /\ ~WithinBase(root, real))
  BY <1>2, <1>3, ErrorFine DEF MetadataOf
<1>4. CASE /\ path # NoPath /\ Lstat(path) # "none"
           /\ Lstat(path) = "symlink" => WithinBase(root, real)
  <2>1. IsPrefix(d.base, real)
    BY <1>1, <1>4 DEF Reaches
  <2>2. MetadataAt(root, rel) = Done(tree, {real})
    BY <1>2, <1>4 DEF MetadataOf
  <2> QED BY <2>1, <2>2, SameFine DEF Done
<1> QED BY <1>3, <1>4

\* A directory is listed.
LEMMA ListFine ==
  ASSUME IsTree(tree), NEW root, NEW rel, NEW d, d.base \in Paths,
         Reaches(root, d, Resolve(root, rel))
  PROVE  Fine(d, ListAt(root, rel))
<1>1. PICK e : e = Named(Resolve(root, rel))
  OBVIOUS
<1>2. e # NoPath => Below(d, e)
  BY <1>1 DEF Reaches
<1>3. CASE Kind(e) = "dir"
  <2>1. e \in Paths /\ IsPrefix(d.base, e) /\ d.base \in Paths
    BY <1>2, <1>3, NoPathIs DEF Below, Stands
  <2>2. ASSUME NEW p \in {e} \union Children(e) PROVE IsPrefix(d.base, p)
    <3>1. CASE p \in Children(e)
      <4>1. p \in Paths /\ IsPrefix(e, p)
        BY <3>1, KindOf DEF Children, At
      <4> QED BY <2>1, <4>1, PrefixOf
    <3> QED BY <2>1, <3>1
  <2> QED BY <1>1, <1>3, <2>2, SameFine DEF ListAt, ListOf, Done
<1>4. CASE Kind(e) # "dir"
  BY <1>1, <1>4, ErrorFine DEF ListAt, ListOf
<1> QED BY <1>3, <1>4

\* One entry is written.
LEMMA PutFine ==
  ASSUME IsTree(tree), NEW d, d.base \in Paths, NEW e, Below(d, e),
         NEW new, Kind(e) \in {"file", "none"},
         new.kind = "file" \/ (new.kind = "dir" /\ Kind(e) = "none"),
         "Create" \in d.operations, Kind(e) # "none" => "Write" \in d.operations
  PROVE  Fine(d, Done(With(e, new), {e}))
<1>1. PICK t : t = With(e, new)
  OBVIOUS
<1>2. /\ IsTree(t) /\ Within(d, t, {e})
      /\ \A b \in Paths : Keeps(t, b)
      /\ DOMAIN t = DOMAIN tree \union {e}
      /\ \A p \in DOMAIN tree : p # e => t[p] = tree[p]
  <2>1. PutsIn(d, e, t)
    BY <1>1, PutSound
  <2> QED BY <2>1 DEF PutsIn
<1>3. Covered(t, d.operations)
  <2>1. Loses(t) = {} /\ Gains(t) \in SUBSET {e}
    BY <1>2 DEF Loses, Gains
  <2>2. Cardinality(Gains(t)) \in Nat
    <3>1. IsFiniteSet({e})
      BY FS_Singleton
    <3>2. IsFiniteSet(Gains(t))
      BY <2>1, <3>1, FS_Subset
    <3> QED BY <3>2, FS_CardinalityType
  <2>3. ~(Cardinality(Loses(t)) > Cardinality(Gains(t)) + 1)
    <3>1. Cardinality(Loses(t)) = 0
      BY <2>1, FS_EmptySet
    <3> QED BY <2>2, <3>1
  <2>4. Rewrites(t) # {} => Kind(e) # "none"
    <3>1. Rewrites(t) \subseteq DOMAIN tree \cap {e}
      BY <1>2 DEF Rewrites
    <3>2. e \in DOMAIN tree => Kind(e) # "none"
      BY KindOf DEF Kind
    <3> QED BY <3>1, <3>2
  <2> QED BY <2>1, <2>3, <2>4 DEF Covered
<1>4. Done(With(e, new), {e}).tree = t /\ Done(With(e, new), {e}).touched = {e}
  BY <1>1 DEF Done
<1> QED BY <1>2, <1>3, <1>4 DEF Fine

\* A file is written.
LEMMA WriteFine ==
  ASSUME IsTree(tree), NEW root, NEW rel, NEW d, d.base \in Paths,
         Reaches(root, d, Resolve(root, rel)), NEW mode, NEW text,
         "Write" \in d.operations, "Create" \in d.operations
  PROVE  Fine(d, WriteAt(root, rel, mode, text))
<1>1. PICK file : file = Openable(Resolve(root, rel))
  OBVIOUS
<1>2. file # NoPath => Below(d, file)
  BY <1>1 DEF Reaches
<1>3. WriteAt(root, rel, mode, text) = WriteTo(file, mode, text)
  BY <1>1 DEF WriteAt
<1>4. CASE file # NoPath /\ Kind(file) \in {"file", "none"}
  <2>1. PICK new : new.kind = "file" /\ WriteTo(file, mode, text) = Done(With(file, new), {file})
    <3> DEFINE old == IF mode = "Append" /\ Kind(file) = "file" THEN tree[file].text ELSE <<>>
               written == FileEntry(old \o text)
    <3>1. written.kind = "file"
      BY DEF FileEntry
    <3>2. WriteTo(file, mode, text) = Done(With(file, written), {file})
      BY <1>4 DEF WriteTo
    <3> HIDE DEF written
    <3> QED BY <3>1, <3>2
  <2> QED BY <1>2, <1>3, <1>4, <2>1, PutFine
<1>5. CASE ~(file # NoPath /\ Kind(file) \in {"file", "none"})
  <2>1. WriteTo(file, mode, text) = HostError
    BY <1>5 DEF WriteTo
  <2> QED BY <1>3, <2>1, ErrorFine
<1> QED BY <1>4, <1>5

\* A directory is made.
LEMMA CreateFine ==
  ASSUME IsTree(tree), NEW root, NEW rel, NEW d, d.base \in Paths,
         Reaches(root, d, Resolve(root, rel)),
         "Create" \in d.operations
  PROVE  Fine(d, CreateDirAt(root, rel))
<1>1. PICK e : e = Named(Resolve(root, rel))
  OBVIOUS
<1>2. e # NoPath => Below(d, e)
  BY <1>1 DEF Reaches
<1>3. CreateDirAt(root, rel) = CreateDirOf(e)
  BY <1>1 DEF CreateDirAt
<1>4. CASE e # NoPath /\ Kind(e) = "none"
  <2>1. CreateDirOf(e) = Done(With(e, Directory), {e}) /\ Directory.kind = "dir"
    BY <1>4 DEF CreateDirOf, Directory
  <2> QED BY <1>2, <1>3, <1>4, <2>1, PutFine
<1>5. CASE ~(e # NoPath /\ Kind(e) = "none")
  <2>1. CreateDirOf(e) = HostError
    BY <1>5 DEF CreateDirOf
  <2> QED BY <1>3, <2>1, ErrorFine
<1> QED BY <1>4, <1>5

\* A removal takes one entry away, or the operation is the recursive one.
LEMMA RemovalFine ==
  ASSUME IsTree(tree), NEW root, NEW rel, NEW d, d.base \in Paths,
         Reaches(root, d, Resolve(root, rel)),
         NEW kind \in {"FileOrSymlink", "EmptyDirectory", "Tree"},
         kind = "Tree" => "RecursiveDelete" \in d.operations,
         kind # "Tree" => "Delete" \in d.operations
  PROVE  Fine(d, RemovalAt(root, rel, kind))
<1>1. PICK e : e = Named(Resolve(root, rel))
  OBVIOUS
<1>2. e # NoPath => Below(d, e)
  BY <1>1 DEF Reaches
<1>3. RemovalAt(root, rel, kind) = RemovalOf(e, kind)
  BY <1>1 DEF RemovalAt
<1>4. CASE RemovalOf(e, kind) = HostError
  BY <1>3, <1>4, ErrorFine
<1>5. CASE RemovalOf(e, kind) # HostError
  <2>1. /\ e # NoPath /\ RemovalOf(e, kind) = Done(Without(At(e)), At(e))
        /\ kind = "FileOrSymlink" => Kind(e) \in {"file", "symlink"}
        /\ kind = "EmptyDirectory" => Kind(e) = "dir" /\ Children(e) = {}
    BY <1>5 DEF RemovalOf
  <2>2. PICK t : t = Without(At(e))
    OBVIOUS
  <2>3. d.base \in Paths /\ e \in Paths /\ Below(d, e)
    BY <1>2, <2>1 DEF Below, Stands
  <2>4. /\ IsTree(t) /\ Within(d, t, At(e))
        /\ \A b \in Paths : Apart(d, b) => Keeps(t, b)
        /\ DOMAIN t = DOMAIN tree \ At(e)
        /\ \A p \in DOMAIN t : t[p] = tree[p]
    BY <2>2, <2>3, TakeSound
  <2>5. d.operations \cap Deletions # {}
    BY DEF Deletions
  <2>6. Covered(t, d.operations)
    <3>1. Gains(t) = {} /\ Rewrites(t) = {} /\ Loses(t) \subseteq At(e)
      BY <2>4 DEF Gains, Rewrites, Loses
    <3>2. CASE kind = "Tree"
      BY <2>5, <3>1, <3>2 DEF Covered
    <3>3. CASE kind # "Tree"
      <4>1. \A p \in At(e) : p = e
        BY <2>1, <2>3, <3>3, ChildOf
      <4>2. Loses(t) \in SUBSET {e} /\ IsFiniteSet({e}) /\ Cardinality({e}) = 1
        BY <3>1, <4>1, FS_Singleton
      <4>3. IsFiniteSet(Loses(t)) /\ Cardinality(Loses(t)) <= Cardinality({e})
        BY <4>2, FS_Subset
      <4>4. Cardinality(Loses(t)) <= 1 /\ Cardinality(Loses(t)) \in Nat
        BY <4>2, <4>3, FS_CardinalityType
      <4>5. Cardinality(Gains(t)) = 0
        BY <3>1, FS_EmptySet
      <4>6. ~(Cardinality(Loses(t)) > Cardinality(Gains(t)) + 1)
        BY <4>4, <4>5
      <4> QED BY <2>5, <3>1, <4>6 DEF Covered
    <3> QED BY <3>2, <3>3
  <2>7. RemovalOf(e, kind).tree = t /\ RemovalOf(e, kind).touched = At(e)
    BY <2>1, <2>2 DEF Done
  <2> QED BY <1>3, <2>4, <2>5, <2>6, <2>7 DEF Fine, Spares
<1> QED BY <1>4, <1>5

\* An entry is renamed.
LEMMA RenameFine ==
  ASSUME IsTree(tree), NEW root, NEW other, NEW from, NEW to, NEW d, d.base \in Paths,
         Reaches(root, d, Resolve(root, from)), Reaches(root, d, Resolve(root, to)),
         "Delete" \in d.operations, other = root => "Create" \in d.operations
  PROVE  Fine(d, RenameAt(root, from, other, to))
<1>1. CASE other # root
  BY <1>1, ErrorFine DEF RenameAt
<1>2. CASE other = root
  <2>1. PICK src, dst : src = Named(Resolve(root, from)) /\ dst = Named(Resolve(root, to))
    OBVIOUS
  <2>2. (src # NoPath => Below(d, src)) /\ (dst # NoPath => Below(d, dst))
    BY <2>1 DEF Reaches
  <2>3. RenameAt(root, from, other, to) = RenameOf(src, dst)
    BY <1>2, <2>1 DEF RenameAt
  <2>4. CASE RenameOf(src, dst) = HostError
    BY <2>3, <2>4, ErrorFine
  <2>5. CASE RenameOf(src, dst) # HostError /\ src = dst
    <3>1. RenameOf(src, dst) = Done(tree, {src}) /\ src # NoPath
      BY <2>5 DEF RenameOf
    <3> QED BY <2>2, <2>3, <3>1, SameFine DEF Done, Below
  <2>6. CASE RenameOf(src, dst) # HostError /\ src # dst
    <3>1. /\ src # NoPath /\ dst # NoPath /\ Kind(src) \in {"file", "dir"}
          /\ Kind(dst) # "symlink" /\ ~Blocked(src, dst)
          /\ RenameOf(src, dst) = Done(Moved(src, dst), At(src) \union {dst})
      BY <2>6 DEF RenameOf
    <3>2. PICK t : t = Moved(src, dst)
      OBVIOUS
    <3>3. d.base \in Paths /\ Below(d, src) /\ Below(d, dst)
      BY <2>2, <3>1
    <3>4. /\ IsTree(t) /\ Within(d, t, At(src) \union {dst})
          /\ \A b \in Paths : Apart(d, b) => Keeps(t, b)
      BY <2>6, <3>1, <3>2, <3>3, MoveSound
    <3>5. IsFiniteSet(DOMAIN t) /\ Stands(src) /\ Stands(dst)
      BY <3>3, <3>4 DEF IsTree, Below
    <3>6. Cardinality(DOMAIN tree \ DOMAIN t) <= Cardinality(DOMAIN t \ DOMAIN tree) + 1
      BY <2>6, <3>1, <3>2, <3>5, MoveCounts
    <3>7. /\ Cardinality(DOMAIN tree \ DOMAIN t) \in Nat
          /\ Cardinality(DOMAIN t \ DOMAIN tree) \in Nat
      <4>1. (DOMAIN tree \ DOMAIN t) \in SUBSET DOMAIN tree
            /\ (DOMAIN t \ DOMAIN tree) \in SUBSET DOMAIN t
        OBVIOUS
      <4>2. IsFiniteSet(DOMAIN tree \ DOMAIN t) /\ IsFiniteSet(DOMAIN t \ DOMAIN tree)
        BY <3>5, <4>1, FS_Subset DEF IsTree
      <4> QED BY <4>2, FS_CardinalityType
    <3>8. Covered(t, d.operations)
      <4>1. ~(Cardinality(Loses(t)) > Cardinality(Gains(t)) + 1)
        BY <3>6, <3>7 DEF Loses, Gains
      <4>2. "Delete" \in d.operations /\ "Create" \in d.operations
        BY <1>2
      <4> QED BY <4>1, <4>2 DEF Covered, Deletions
    <3>9. RenameOf(src, dst).tree = t /\ RenameOf(src, dst).touched = At(src) \union {dst}
      BY <3>1, <3>2 DEF Done
    <3>10. d.operations \cap Deletions # {}
      BY DEF Deletions
    <3> QED BY <2>3, <3>4, <3>8, <3>9, <3>10 DEF Fine, Spares
  <2> QED BY <2>4, <2>5, <2>6
<1> QED BY <1>1, <1>2

Steps(at, N, path) ==
  at = [n \in 0 .. N |-> IF n = 0 THEN <<>> ELSE Component(at[n - 1], path[n])]

\* The steps of Lexical are a function.
LEMMA StepsExist ==
  ASSUME NEW path
  PROVE  \A N \in Nat : \E at : Steps(at, N, path)
<1> DEFINE P == {N \in Nat : \E at : Steps(at, N, path)}
<1>1. 0 \in P
  <2> DEFINE at == [n \in 0 .. 0 |-> <<>>]
  <2>1. Steps(at, 0, path)
    BY DEF Steps
  <2> HIDE DEF at
  <2>2. \E q : Steps(q, 0, path)
    BY <2>1
  <2> QED BY <2>2
<1>2. ASSUME NEW N \in Nat, N \in P PROVE N + 1 \in P
  <2>1. PICK at : Steps(at, N, path)
    BY <1>2
  <2> DEFINE q == [n \in 0 .. (N + 1) |->
                     IF n = N + 1 THEN Component(at[N], path[N + 1]) ELSE at[n]]
  <2>2. DOMAIN q = 0 .. (N + 1)
    OBVIOUS
  <2>3. ASSUME NEW n \in 0 .. (N + 1)
        PROVE  q[n] = IF n = 0 THEN <<>> ELSE Component(q[n - 1], path[n])
    <3>1. CASE n = N + 1
      <4>1. q[n] = Component(at[N], path[N + 1]) /\ q[n - 1] = at[N] /\ n # 0
        BY <3>1
      <4> QED BY <3>1, <4>1
    <3>2. CASE n \in 1 .. N
      <4>1. q[n] = at[n] /\ q[n - 1] = at[n - 1] /\ n # 0
        BY <3>2
      <4>2. at[n] = Component(at[n - 1], path[n])
        BY <2>1, <3>2 DEF Steps
      <4> QED BY <4>1, <4>2
    <3>3. CASE n = 0
      <4>1. q[0] = at[0] /\ at[0] = <<>>
        BY <2>1, <3>3 DEF Steps
      <4> QED BY <3>3, <4>1
    <3>4. n = N + 1 \/ n \in 1 .. N \/ n = 0
      OBVIOUS
    <3> QED BY <3>1, <3>2, <3>3, <3>4
  <2>4. Steps(q, N + 1, path)
    BY <2>3 DEF Steps
  <2> HIDE DEF q
  <2>5. \E g : Steps(g, N + 1, path)
    BY <2>4
  <2>6. N + 1 \in Nat
    OBVIOUS
  <2> QED BY ONLY <2>5, <2>6 DEF P
<1> HIDE DEF P
<1>3. \A N \in Nat : N \in P
  BY <1>1, <1>2, Induction
<1> QED BY <1>3 DEF P

\* No `..` is left of a host path.
LEMMA LexicalIs ==
  ASSUME NEW path \in HostPath
  PROVE  Lexical(path) \in Paths
<1> DEFINE N == Len(path)
           at == CHOOSE f : Steps(f, N, path)
<1>1. N \in Nat /\ \A i \in 1 .. N : path[i] \in STRING
  BY DEF HostPath
<1>2. Steps(at, N, path)
  BY <1>1, StepsExist
<1>3. Lexical(path) = at[N]
  BY DEF Lexical, Steps
<1> HIDE DEF at, N
<1> DEFINE P == {n \in Nat : n <= N => at[n] \in Paths}
<1>4. 0 \in P
  BY <1>1, <1>2 DEF Steps, Paths
<1>5. ASSUME NEW n \in Nat, n \in P PROVE n + 1 \in P
  <2> SUFFICES ASSUME n + 1 <= N PROVE at[n + 1] \in Paths
    OBVIOUS
  <2>1. n + 1 \in 1 .. N /\ n + 1 \in 0 .. N /\ n <= N /\ n + 1 # 0 /\ (n + 1) - 1 = n
    BY <1>1
  <2>2. at[n + 1] = Component(at[n], path[n + 1])
    BY <1>2, <2>1 DEF Steps
  <2>3. at[n] \in Paths /\ path[n + 1] \in STRING
    BY <1>1, <1>5, <2>1
  <2>4. Parent(at[n]) \in Paths
    BY <2>3, FrontOf DEF Parent
  <2>5. path[n + 1] # ".." => Append(at[n], path[n + 1]) \in Paths
    BY <2>3, BelowOf DEF EntryName
  <2> QED BY <2>2, <2>3, <2>4, <2>5 DEF Component
<1> HIDE DEF P
<1>6. \A n \in Nat : n \in P
  BY <1>4, <1>5, Induction
<1> QED BY <1>1, <1>3, <1>6 DEF P

-----------------------------------------------------------------------------
(* The builtins. *)

\* The file system is a tree, and the base of a root is a path without `..`.
TreeInv ==
  /\ IsTree(tree)
  /\ \A m \in DOMAIN roots : roots[m].base \in Paths

\* No symlink is on the way to the base of a root.
FileInv ==
  /\ IsTree(tree)
  /\ \A m \in DOMAIN roots : IsPlain(tree, roots[m].base)

\* A root in which other roots have their bases grants no removal: with it a
\* script could take away a base, and put a symlink it finds in its place.
RootsApart ==
  \A m, n \in DOMAIN roots :
    IsPrefix(roots[m].base, roots[n].base) /\ roots[m].base # roots[n].base =>
      roots[m].operations \cap Deletions = {}

\* What is allowed is on a mount and holds no `..`.
LEMMA RoutedIs ==
  ASSUME TreeInv, NEW path, path.rel \in HostPath, NEW to, to = Routed(path),
         NEW operation, Verdict(to, operation) = "allow"
  PROVE  /\ to.mount \in DOMAIN roots
         /\ operation \in roots[to.mount].operations
         /\ to.rel \in Paths
<1>1. to.mount \in DOMAIN roots /\ operation \in roots[to.mount].operations
  BY DEF Verdict
<1>2. roots[to.mount].base \in Paths
  BY <1>1 DEF TreeInv
<1>3. CASE ~legacy
  <2>1. to.rel \in Seq(STRING) /\ ~Malformed(to)
    <3>1. roots # <<>>
      BY <1>1
    <3> QED BY <1>3, <3>1 DEF Routed, Verdict, HostPath
  <2>2. to.rel \in Paths
    <3>1. PICK r : r = to.rel
      OBVIOUS
    <3>2. r \in Seq(STRING) /\ DOMAIN r = 1 .. Len(r) /\ Len(r) \in Nat
      BY <2>1, <3>1
    <3>3. \A i \in 1 .. Len(r) : r[i] \in EntryName
      <4>1. \A i \in DOMAIN r : r[i] \notin {"", ".", ".."}
        BY <2>1, <3>1 DEF Malformed
      <4>2. \A i \in 1 .. Len(r) : r[i] \in STRING
        BY <3>2
      <4> QED BY <3>2, <4>1, <4>2 DEF EntryName
    <3>4. r = [i \in 1 .. Len(r) |-> r[i]]
      BY <3>2
    <3>5. r \in Seq(EntryName)
      BY <3>2, <3>3, <3>4, SeqDef
    <3> QED BY <3>1, <3>5 DEF Paths
  <2> QED BY <1>1, <1>2, <2>2
<1>4. CASE legacy
  <2>1. PICK abs : abs = Lexical(path.rel)
    OBVIOUS
  <2>2. abs \in Paths
    BY <2>1, LexicalIs
  <2>3. \/ to.rel = <<>>
        \/ to.rel = SubSeq(abs, Len(roots[to.mount].base) + 1, Len(abs))
    <3>1. to = Translated(path)
      BY <1>4 DEF Routed
    <3> DEFINE fits == {m \in DOMAIN roots : IsPrefix(roots[m].base, abs)}
               best == CHOOSE m \in fits : \A n \in fits : Len(roots[n].base) <= Len(roots[m].base)
    <3>2. to = IF fits = {} THEN [mount |-> "none", rel |-> <<>>]
               ELSE [mount |-> best, rel |-> SubSeq(abs, Len(roots[best].base) + 1, Len(abs))]
      BY ONLY <2>1, <3>1 DEF Translated
    <3> HIDE DEF fits, best
    <3>3. CASE fits = {}
      BY <3>2, <3>3
    <3>4. CASE fits # {}
      <4>1. to.mount = best /\ to.rel = SubSeq(abs, Len(roots[best].base) + 1, Len(abs))
        <5>1. PICK rel : rel = SubSeq(abs, Len(roots[best].base) + 1, Len(abs))
          OBVIOUS
        <5>2. to = [mount |-> best, rel |-> rel]
          BY ONLY <3>2, <3>4, <5>1
        <5> QED BY ONLY <5>1, <5>2
      <4> QED BY <4>1
    <3> QED BY <3>3, <3>4
  <2>4. PICK k, l : k = Len(roots[to.mount].base) /\ l = Len(abs)
    OBVIOUS
  <2>5. SubSeq(abs, k + 1, l) \in Paths
    <3>1. k + 1 \in Int /\ l \in Int /\ \A i \in k + 1 .. l : abs[i] \in EntryName
      BY <1>2, <2>2, <2>4 DEF Paths
    <3>2. SubSeq(abs, k + 1, l) \in Seq(EntryName)
      BY ONLY <3>1, SubSeqProperties
    <3> QED BY <3>2 DEF Paths
  <2>6. <<>> \in Paths
    BY DEF Paths
  <2> QED BY <1>1, <1>2, <2>3, <2>4, <2>5, <2>6
<1> QED BY <1>3, <1>4

\* A builtin whose operations are all granted, with the entries its paths can
\* reach below d.base.
LEMMA HandledFine ==
  ASSUME TreeInv, NEW name, NEW from, from.rel \in HostPath, NEW dest, dest.rel \in HostPath,
         NEW text, NEW path, path = Routed(from), NEW to, to = Routed(dest),
         \A i \in DOMAIN Verdicts(name, path, to) : Verdicts(name, path, to)[i] = "allow",
         NEW d, d.base \in Paths, d.operations = roots[path.mount].operations,
         \A rel \in Paths : Reaches(roots[path.mount], d, Resolve(roots[path.mount], rel))
  PROVE  path.mount \in DOMAIN roots /\ Fine(d, Handled(name, path, to, text))
<1>0. IsTree(tree)
  BY DEF TreeInv
<1>1. CASE name = "rename"
  <2>1. Verdict(path, "Delete") = "allow" /\ Verdict(to, "Create") = "allow"
    <3>1. Verdicts(name, path, to) = <<Verdict(path, "Delete"), Verdict(to, "Create")>>
      BY <1>1 DEF Verdicts
    <3> QED BY <3>1
  <2>2. /\ path.mount \in DOMAIN roots /\ "Delete" \in d.operations
        /\ path.rel \in Paths
    BY <2>1, RoutedIs
  <2>3. to.rel \in Paths /\ "Create" \in roots[to.mount].operations
    BY <2>1, RoutedIs
  <2>4. Handled(name, path, to, text) =
          RenameAt(roots[path.mount], path.rel, roots[to.mount], to.rel)
    BY <1>1 DEF Handled
  <2>5. Fine(d, RenameAt(roots[path.mount], path.rel, roots[to.mount], to.rel))
    BY <1>0, <2>2, <2>3, RenameFine
  <2> QED BY <2>2, <2>4, <2>5
<1>2. CASE name \in {"write_file", "append_file"}
  <2>1. Verdict(path, "Write") = "allow" /\ Verdict(path, "Create") = "allow"
    <3>1. Verdicts(name, path, to) = <<Verdict(path, "Write"), Verdict(path, "Create")>>
      BY <1>2 DEF Verdicts
    <3> QED BY <3>1
  <2>2. /\ path.mount \in DOMAIN roots /\ "Write" \in d.operations
        /\ path.rel \in Paths
    BY <2>1, RoutedIs
  <2>3. "Create" \in d.operations
    BY <2>1, RoutedIs
  <2>4. PICK mode : Handled(name, path, to, text) = WriteAt(roots[path.mount], path.rel, mode, text)
    BY <1>2 DEF Handled
  <2>5. Fine(d, WriteAt(roots[path.mount], path.rel, mode, text))
    BY <1>0, <2>2, <2>3, WriteFine
  <2> QED BY <2>2, <2>4, <2>5
<1>3. CASE name \notin {"rename", "write_file", "append_file"}
  <2>1. Verdict(path, OperationOf[name]) = "allow"
    <3>1. Verdicts(name, path, to) = <<Verdict(path, OperationOf[name])>>
      BY <1>3 DEF Verdicts
    <3> QED BY <3>1
  <2>2. PICK root, rel : root = roots[path.mount] /\ rel = path.rel
    OBVIOUS
  <2>3. /\ path.mount \in DOMAIN roots /\ OperationOf[name] \in d.operations
        /\ rel \in Paths /\ Reaches(root, d, Resolve(root, rel))
    BY <2>1, <2>2, RoutedIs
  <2>4. CASE name \in {"read_file", "read_lines"}
    <3>1. Handled(name, path, to, text) = ReadAt(root, rel)
      BY <2>2, <2>4 DEF Handled
    <3> QED BY <1>0, <2>2, <2>3, <3>1, ReadFine
  <2>5. CASE name = "mkdir"
    <3>1. Handled(name, path, to, text) = CreateDirAt(root, rel) /\ OperationOf[name] = "Create"
      BY <2>2, <2>5 DEF Handled, OperationOf
    <3> QED BY <1>0, <2>2, <2>3, <3>1, CreateFine
  <2>6. CASE name = "remove"
    <3>1. /\ Handled(name, path, to, text) = RemovalAt(root, rel, "FileOrSymlink")
          /\ OperationOf[name] = "Delete"
      BY <2>2, <2>6 DEF Handled, OperationOf
    <3> QED BY <1>0, <2>2, <2>3, <3>1, RemovalFine
  <2>7. CASE name = "remove_dir"
    <3>1. /\ Handled(name, path, to, text) = RemovalAt(root, rel, "EmptyDirectory")
          /\ OperationOf[name] = "Delete"
      BY <2>2, <2>7 DEF Handled, OperationOf
    <3> QED BY <1>0, <2>2, <2>3, <3>1, RemovalFine
  <2>8. CASE name = "remove_tree"
    <3>1. /\ Handled(name, path, to, text) = RemovalAt(root, rel, "Tree")
          /\ OperationOf[name] = "RecursiveDelete"
      BY <2>2, <2>8 DEF Handled, OperationOf
    <3> QED BY <1>0, <2>2, <2>3, <3>1, RemovalFine
  <2>9. CASE name = "list_dir"
    <3>1. Handled(name, path, to, text) = ListAt(root, rel)
      BY <2>2, <2>9 DEF Handled
    <3> QED BY <1>0, <2>2, <2>3, <3>1, ListFine
  <2>10. CASE name \notin {"read_file", "read_lines", "mkdir", "remove", "remove_dir",
                          "remove_tree", "list_dir"}
    <3>1. Handled(name, path, to, text) \in {MetadataAt(root, rel), Done(tree, {})}
      BY <1>3, <2>2, <2>10 DEF Handled
    <3>2. Fine(d, MetadataAt(root, rel))
      BY <1>0, <2>3, MetadataFine
    <3>3. Fine(d, Done(tree, {}))
      BY <1>0, SameFine DEF Done
    <3> QED BY <2>2, <2>3, <3>1, <3>2, <3>3
  <2> QED BY <2>4, <2>5, <2>6, <2>7, <2>8, <2>9, <2>10
<1> QED BY <1>1, <1>2, <1>3

\* What a call leaves.
LEMMA CallLands ==
  ASSUME TreeInv, NEW name, NEW from, from.rel \in HostPath,
         NEW dest, dest.rel \in HostPath, NEW text, Call(name, from, dest, text)
  PROVE  \/ tree' = tree /\ call'.touched = {} /\ roots' = roots
         \/ \E root, done :
              /\ call'.mount \in DOMAIN roots /\ root = roots[call'.mount]
              /\ tree' = done.tree /\ call'.touched = done.touched /\ roots' = roots
              /\ \E d : d.base = <<>> /\ d.operations = root.operations /\ Fine(d, done)
              /\ IsPlain(tree, root.base) => Fine(root, done)
<1>1. PICK path, to : path = Routed(from) /\ to = Routed(dest)
  OBVIOUS
<1>2. PICK verdicts, refused :
        /\ verdicts = Verdicts(name, path, to)
        /\ refused = {i \in DOMAIN verdicts : verdicts[i] # "allow"}
  OBVIOUS
<1>3. PICK done :
        /\ done = Answered(name, path, to, text, refused)
        /\ tree' = done.tree /\ roots' = roots
        /\ call'.mount = path.mount /\ call'.touched = done.touched
  <2>1. /\ tree' = Answered(name, path, to, text, refused).tree
        /\ roots' = roots
        /\ call' = [name |-> name, mount |-> path.mount,
                     touched |-> Answered(name, path, to, text, refused).touched,
                     outcome |-> CASE refused # {} -> verdicts[Min(refused)]
                                   [] Answered(name, path, to, text, refused).ok -> "ok"
                                   [] OTHER -> "host"]
    BY <1>1, <1>2 DEF Call
  <2> QED BY <2>1
<1>4. CASE refused # {}
  BY <1>3, <1>4 DEF Answered, HostError
<1>5. CASE refused = {}
  <2>1. PICK root : root = roots[path.mount]
    OBVIOUS
  <2>2. \A i \in DOMAIN Verdicts(name, path, to) : Verdicts(name, path, to)[i] = "allow"
    BY <1>2, <1>5
  <2>3. done = Handled(name, path, to, text)
    BY <1>3, <1>5 DEF Answered
  <2>4. path.mount \in DOMAIN roots
    <3>1. PICK operation : Verdict(path, operation) = "allow"
      <4>1. DOMAIN Verdicts(name, path, to) # {} /\ \E operation : Verdicts(name, path, to)[1] = Verdict(path, operation)
            /\ 1 \in DOMAIN Verdicts(name, path, to)
        BY DEF Verdicts
      <4> QED BY <2>2, <4>1
    <3> QED BY <3>1 DEF Verdict
  <2>5. root.base \in Paths
    BY <2>1, <2>4 DEF TreeInv
  <2>6. ASSUME NEW d, d.base \in Paths, d.operations = root.operations,
               \A rel \in Paths : Reaches(root, d, Resolve(root, rel))
        PROVE  Fine(d, done)
    BY <1>1, <2>1, <2>2, <2>3, <2>6, HandledFine
  <2>7. \E d : d.base = <<>> /\ d.operations = root.operations /\ Fine(d, done)
    <3>1. PICK d : d = [base |-> <<>>, operations |-> root.operations]
      OBVIOUS
    <3>2. d.base = <<>> /\ d.base \in Paths /\ d.operations = root.operations
      BY <3>1 DEF Paths
    <3>3. \A rel \in Paths : Reaches(root, d, Resolve(root, rel))
      BY <2>5, <3>2, StaysSomewhere DEF TreeInv
    <3> QED BY <2>6, <3>2, <3>3
  <2>8. IsPlain(tree, root.base) => Fine(root, done)
    BY <2>5, <2>6, StaysBelow DEF TreeInv
  <2> QED BY <1>3, <2>1, <2>4, <2>7, <2>8
<1> QED BY <1>4, <1>5

\* A call leaves a tree, does what it was granted, and that below the base of
\* its mount if this base stands.
LEMMA CallSound ==
  ASSUME TreeInv, NEW name, NEW from, from.rel \in HostPath,
         NEW dest, dest.rel \in HostPath, NEW text, Call(name, from, dest, text)
  PROVE  TreeInv' /\ ChangeGranted /\ (BaseStands => StayedInside)
<1>1. CASE tree' = tree /\ call'.touched = {} /\ roots' = roots
  <2>1. Changed = {}
    BY <1>1 DEF Changed
  <2>2. StayedInside
    BY <1>1, <2>1 DEF StayedInside
  <2>3. ChangeGranted
    <3>1. DOMAIN tree' \ DOMAIN tree = {} /\ DOMAIN tree \ DOMAIN tree' = {} /\ Cardinality({}) = 0
      BY <1>1, FS_EmptySet
    <3> QED BY <2>1, <3>1 DEF ChangeGranted
  <2> QED BY <1>1, <2>2, <2>3 DEF TreeInv
<1>2. ASSUME NEW root, NEW done, NEW d,
             call'.mount \in DOMAIN roots, root = roots[call'.mount],
             tree' = done.tree, call'.touched = done.touched, roots' = roots,
             d.operations = root.operations, Fine(d, done),
             IsPlain(tree, root.base) => Fine(root, done)
      PROVE  TreeInv' /\ ChangeGranted /\ (BaseStands => StayedInside)
  <2>1. TreeInv'
    BY <1>2 DEF Fine, TreeInv
  <2>2. ChangeGranted
    <3>1. Covered(tree', root.operations)
      BY <1>2 DEF Fine
    <3>2. Changed \ (Gains(tree') \union Loses(tree')) \subseteq Rewrites(tree')
      BY DEF Changed, Gains, Loses, Rewrites
    <3>3. (IF call'.mount \in DOMAIN roots THEN roots[call'.mount].operations ELSE {})
             = root.operations
      BY <1>2
    <3> HIDE DEF Changed
    <3> QED BY <3>1, <3>2, <3>3 DEF ChangeGranted, Covered, Gains, Loses, Deletions
  <2>3. ASSUME BaseStands PROVE StayedInside
    <3>1. Fine(root, done)
      BY <1>2, <2>3 DEF BaseStands
    <3>2. ASSUME NEW p \in Changed \union call'.touched PROVE IsPrefix(root.base, p)
      BY <1>2, <3>1 DEF Fine, Within, Changed
    <3> QED BY <1>2, <3>2 DEF StayedInside
  <2> QED BY <2>1, <2>2, <2>3
<1> QED BY <1>1, <1>2, CallLands

\* Where the roots are apart, every base stands.
LEMMA BasesStay ==
  ASSUME FileInv, RootsApart, NEW name, NEW from, from.rel \in HostPath,
         NEW dest, dest.rel \in HostPath, NEW text, Call(name, from, dest, text)
  PROVE  FileInv'
<1>1. TreeInv
  BY PlainStands DEF FileInv, TreeInv
<1>2. CASE tree' = tree /\ call'.touched = {} /\ roots' = roots
  BY <1>2 DEF FileInv
<1>3. ASSUME NEW root, NEW done, call'.mount \in DOMAIN roots, root = roots[call'.mount],
             tree' = done.tree, roots' = roots, IsPlain(tree, root.base) => Fine(root, done)
      PROVE  FileInv'
  <2>1. Fine(root, done)
    BY <1>3 DEF FileInv
  <2>2. ASSUME NEW m \in DOMAIN roots PROVE IsPlain(tree', roots[m].base)
    <3>1. IsPlain(tree, roots[m].base) /\ roots[m].base \in Paths
      BY <1>1 DEF FileInv, TreeInv
    <3>2. Spares(root, roots[m].base)
      BY <1>3 DEF RootsApart, Spares, Apart
    <3> QED BY <1>3, <2>1, <3>1, <3>2 DEF Fine, Keeps
  <2>3. IsTree(tree')
    BY <1>3, <2>1 DEF Fine
  <2> QED BY <1>3, <2>2, <2>3 DEF FileInv
<1> QED BY <1>1, <1>2, <1>3, CallLands

-----------------------------------------------------------------------------
(* The calls of other executions. *)

\* What a call leaves in the files.
LEMMA CallLeaves ==
  ASSUME NEW T, Holds(tree, T), NEW c, Leaves(c, T), <<>> \o c.text = c.text,
         Call(c.name, c.path, c.to, c.text)
  PROVE  Holds(tree', T)
<1>1. PICK path, to, refused : tree' = Answered(c.name, path, to, c.text, refused).tree
  BY DEF Call
<1>2. PICK done : done = Answered(c.name, path, to, c.text, refused) /\ tree' = done.tree
  BY <1>1
<1> DEFINE Wrote(d) ==
     \E file, old : /\ c.name \in {"write_file", "append_file"}
                    /\ d.tree = With(file, FileEntry(old \o c.text))
                    /\ old = <<>> \/ (c.name = "append_file" /\ Kind(file) = "file" /\ old = tree[file].text)
<1> DEFINE Gives(d) ==
     \/ d.tree = tree
     \/ \E gone : d.tree = Without(gone)
     \/ \E file : d.tree = With(file, Directory)
     \/ Wrote(d)
     \/ \E src, dst : d.tree = Moved(src, dst)
<1>3. Gives(HostError)
  BY DEF HostError
<1>4. \A touched : Gives(Done(tree, touched))
  BY DEF Done
<1>5. ASSUME NEW root, NEW rel PROVE Gives(ReadAt(root, rel))
  <2>1. PICK file : ReadAt(root, rel) = ReadFrom(file)
    BY DEF ReadAt
  <2>2. ReadFrom(file) \in {HostError, Done(tree, {file})}
    BY DEF ReadFrom
  <2> HIDE DEF Gives
  <2> QED BY <1>3, <1>4, <2>1, <2>2
<1>6. ASSUME NEW root, NEW rel PROVE Gives(MetadataAt(root, rel))
  <2>1. PICK found, kind, real : MetadataAt(root, rel) = MetadataOf(root, found, kind, real)
    BY DEF MetadataAt
  <2>2. MetadataOf(root, found, kind, real) \in {HostError, Done(tree, {real})}
    BY DEF MetadataOf
  <2> HIDE DEF Gives
  <2> QED BY <1>3, <1>4, <2>1, <2>2
<1>7. ASSUME NEW root, NEW rel PROVE Gives(ListAt(root, rel))
  <2>1. PICK e : ListAt(root, rel) = ListOf(e)
    BY DEF ListAt
  <2>2. PICK touched : touched = {e} \union Children(e)
    OBVIOUS
  <2>3. ListOf(e) \in {HostError, Done(tree, touched)}
    BY <2>2 DEF ListOf
  <2> HIDE DEF Gives
  <2> QED BY <1>3, <1>4, <2>1, <2>3
<1>8. ASSUME NEW root, NEW rel PROVE Gives(CreateDirAt(root, rel))
  BY <1>3 DEF CreateDirAt, CreateDirOf, Done
<1>9. ASSUME NEW root, NEW rel, NEW kind PROVE Gives(RemovalAt(root, rel, kind))
  <2>1. PICK e : RemovalAt(root, rel, kind) = RemovalOf(e, kind)
    BY DEF RemovalAt
  <2>2. PICK gone : gone = At(e)
    OBVIOUS
  <2>3. RemovalOf(e, kind) \in {HostError, Done(Without(gone), gone)}
    BY <2>2 DEF RemovalOf
  <2>4. Gives(Done(Without(gone), gone))
    BY DEF Done
  <2> HIDE DEF Gives
  <2> QED BY <1>3, <2>1, <2>3, <2>4
<1>10. ASSUME NEW root, NEW from, NEW other, NEW dest PROVE Gives(RenameAt(root, from, other, dest))
  BY <1>3, <1>4 DEF RenameAt, RenameOf, Done
<1>11. ASSUME NEW root, NEW rel,
              NEW mode, mode = "Truncate" \/ (mode = "Append" /\ c.name = "append_file"),
              c.name \in {"write_file", "append_file"}
       PROVE  Gives(WriteAt(root, rel, mode, c.text))
  <2>1. PICK file : file = Openable(Resolve(root, rel))
    OBVIOUS
  <2>2. PICK old : old = IF mode = "Append" /\ Kind(file) = "file" THEN tree[file].text ELSE <<>>
    OBVIOUS
  <2>3. WriteAt(root, rel, mode, c.text) \in {HostError, Done(With(file, FileEntry(old \o c.text)), {file})}
    BY <2>1, <2>2 DEF WriteAt, WriteTo
  <2>4. \/ old = <<>>
        \/ c.name = "append_file" /\ Kind(file) = "file" /\ old = tree[file].text
    BY <1>11, <2>2
  <2>5. Done(With(file, FileEntry(old \o c.text)), {file}).tree = With(file, FileEntry(old \o c.text))
    BY DEF Done
  <2>6. Gives(Done(With(file, FileEntry(old \o c.text)), {file}))
    <3>1. PICK d : d = Done(With(file, FileEntry(old \o c.text)), {file})
      OBVIOUS
    <3>2. d.tree = With(file, FileEntry(old \o c.text))
      BY <2>5, <3>1
    <3>3. Wrote(d)
      BY <1>11, <2>4, <3>2
    <3>4. Gives(d)
      <4> HIDE DEF Wrote
      <4> QED BY <3>3
    <3> HIDE DEF Gives
    <3> QED BY <3>1, <3>4
  <2> HIDE DEF Gives
  <2> QED BY <1>3, <2>3, <2>6
<1>12. Gives(done)
  <2> DEFINE root == roots[path.mount]
             rel == path.rel
  <2>1. CASE refused # {}
    BY <1>2, <1>3, <2>1 DEF Answered
  <2>2. CASE refused = {}
    <3>1. done = Handled(c.name, path, to, c.text)
      BY <1>2, <2>2 DEF Answered
    <3>2. done \in {ReadAt(root, rel), CreateDirAt(root, rel),
                    RemovalAt(root, rel, "FileOrSymlink"), RemovalAt(root, rel, "EmptyDirectory"),
                    RemovalAt(root, rel, "Tree"), RenameAt(root, rel, roots[to.mount], to.rel),
                    ListAt(root, rel), MetadataAt(root, rel), Done(tree, {})}
          \/ (c.name = "write_file" /\ done = WriteAt(root, rel, "Truncate", c.text))
          \/ (c.name = "append_file" /\ done = WriteAt(root, rel, "Append", c.text))
      BY <3>1 DEF Handled
    <3> HIDE DEF Gives, root, rel
    <3> QED BY <1>4, <1>5, <1>6, <1>7, <1>8, <1>9, <1>10, <1>11, <3>2
  <2> QED BY <2>1, <2>2
<1>13. CASE tree' = tree
  BY <1>13
<1>14. ASSUME NEW gone, tree' = Without(gone) PROVE Holds(tree', T)
  BY <1>14 DEF Without, Holds
<1>15. ASSUME NEW file, tree' = With(file, Directory) PROVE Holds(tree', T)
  BY <1>15 DEF With, Directory, Holds
<1>16. ASSUME NEW file, NEW old, tree' = With(file, FileEntry(old \o c.text)),
              c.name \in {"write_file", "append_file"},
              old = <<>> \/ (c.name = "append_file" /\ Kind(file) = "file" /\ old = tree[file].text)
       PROVE  Holds(tree', T)
  <2>1. old \o c.text \in T
    <3>1. CASE old = <<>> /\ c.name = "write_file"
      BY <3>1 DEF Leaves
    <3>2. CASE old = <<>> /\ c.name = "append_file"
      BY <3>2 DEF Leaves
    <3>3. CASE c.name = "append_file" /\ Kind(file) = "file" /\ old = tree[file].text
      <4>1. file \in DOMAIN tree /\ tree[file].kind = "file"
        BY <3>3 DEF Kind, KindIn
      <4> QED BY <3>3, <4>1 DEF Leaves, Holds
    <3> QED BY <1>16, <3>1, <3>2, <3>3
  <2>2. PICK text : text = old \o c.text
    OBVIOUS
  <2>3. text \in T /\ tree' = With(file, FileEntry(text))
    BY <1>16, <2>1, <2>2
  <2> QED BY <2>3 DEF With, FileEntry, Holds
<1>17. ASSUME NEW src, NEW dst, tree' = Moved(src, dst) PROVE Holds(tree', T)
  <2> SUFFICES ASSUME NEW p \in DOMAIN tree', tree'[p].kind = "file" PROVE tree'[p].text \in T
    BY DEF Holds
  <2> DEFINE rest == DOMAIN tree \ (At(src) \union At(dst))
  <2>1. tree' = [r \in rest \union {Rebased(q, src, dst) : q \in At(src)} |->
                   IF r \in rest THEN tree[r]
                   ELSE tree[CHOOSE q \in At(src) : Rebased(q, src, dst) = r]]
    BY <1>17 DEF Moved
  <2>2. CASE p \in rest
    BY <2>1, <2>2 DEF Holds
  <2>3. CASE p \notin rest
    <3>1. \E q \in At(src) : Rebased(q, src, dst) = p
      BY <2>1, <2>3
    <3>2. (CHOOSE q \in At(src) : Rebased(q, src, dst) = p) \in At(src)
      BY <3>1
    <3>3. PICK q : q = CHOOSE r \in At(src) : Rebased(r, src, dst) = p
      OBVIOUS
    <3>4. q \in DOMAIN tree /\ tree'[p] = tree[q]
      BY <2>1, <2>3, <3>2, <3>3 DEF At
    <3> QED BY <3>4 DEF Holds
  <2> QED BY <2>2, <2>3
<1> QED BY <1>2, <1>12, <1>13, <1>14, <1>15, <1>16, <1>17

\* An execution that writes lines writes lines.
LEMMA LinesLeave ==
  ASSUME NEW c, c.text \in Seq(Line)
  PROVE  Leaves(c, Seq(Line)) /\ <<>> \o c.text = c.text
<1>1. <<>> \in Seq(Line)
  OBVIOUS
<1>2. \A t \in Seq(Line) \union {<<>>} : t \o c.text \in Seq(Line)
  BY <1>1, ConcatProperties
<1> QED BY <1>2, ConcatEmptySeq DEF Leaves

\* What every step keeps of the texts, whatever the calls of other executions
\* write: a script and a file hold lines, and where there is a resolver the
\* files hold the texts of modules.
TextInv ==
  /\ resolver \in BOOLEAN /\ legacy \in BOOLEAN
  /\ phase = "linking" => resolver
  /\ program \in Seq(Line)
  /\ Holds(tree, Seq(Line))
  /\ resolver => Holds(tree, Text)

\* A host prepares a world as LinkingAssumption says.
LEMMA TextInvStarts == Init => TextInv
<1> SUFFICES ASSUME Init PROVE TextInv
  OBVIOUS
<1>1. PICK w \in World : tree = w.tree /\ roots = w.roots /\ legacy = w.legacy /\ resolver = w.resolver
  BY DEF Init
<1>2. resolver \in BOOLEAN /\ phase = "idle" /\ program = <<>>
  BY DEF Init, LinkerInit
<1>3. <<>> \in Seq(Line)
  OBVIOUS
<1> QED BY <1>1, <1>2, <1>3, LinkingAssumption DEF TextInv

\* What a resolver finds is the text of a file.
LEMMA FoundIs ==
  ASSUME Holds(tree, Text), NEW rel
  PROVE  Found(rel) \in Text \union {NoSource}
<1>1. PICK file : ReadAt(ResolverRoot, rel) = ReadFrom(file)
  BY DEF ReadAt
<1>2. CASE Kind(file) = "file"
  <2>1. /\ ReadAt(ResolverRoot, rel).ok
        /\ ReadAt(ResolverRoot, rel).touched = {file}
    BY <1>1, <1>2 DEF ReadFrom, Done
  <2>2. Found(rel) = tree[file].text
    <3>1. (CHOOSE p \in {file} : TRUE) = file
      OBVIOUS
    <3> QED BY <2>1, <3>1 DEF Found
  <2>3. file \in DOMAIN tree /\ tree[file].kind = "file"
    BY <1>2 DEF Kind, KindIn
  <2> QED BY <2>2, <2>3 DEF Holds
<1>3. CASE Kind(file) # "file"
  <2>1. ~ReadAt(ResolverRoot, rel).ok
    BY <1>1, <1>3 DEF ReadFrom, HostError
  <2> QED BY <2>1 DEF Found
<1> QED BY <1>2, <1>3

\* The steps of the link and of the host leave the files alone.
LEMMA FilesStay ==
  ASSUME Next, ~\E c \in OtherCalls[<<resolver, legacy>>] :
                  OtherExecution(c.name, c.path, c.to, c.text)
  PROVE  UNCHANGED files
<1>1. CASE LinkStep
  BY <1>1 DEF LinkStep
<1>2. CASE HostStep
  BY <1>2 DEF HostStep
<1>3. ASSUME NEW charge, Load(charge) PROVE UNCHANGED files
  BY <1>3 DEF Load
<1>4. ASSUME NEW end, RunEnds(end) PROVE UNCHANGED files
  BY <1>4 DEF RunEnds
<1> QED BY <1>1, <1>2, <1>3, <1>4 DEF Next

\* A step of Linking is a step of Linker.
LEMMA StepLinks ==
  ASSUME TextInv, [Next]_vars
  PROVE  [LinkerNext]_linkerVars
<1>1. CASE LinkStep
  <2>1. CASE NextImport(Found(Head(Top.todo).rel))
    <3>1. phase = "linking"
      BY <2>1 DEF NextImport
    <3>2. Found(Head(Top.todo).rel) \in Text \union {NoSource}
      BY <3>1, FoundIs DEF TextInv
    <3> QED BY <2>1, <3>2 DEF LinkerNext
  <2>2. CASE ReadChunk \/ Return \/ Finish
    BY <2>2 DEF LinkerNext
  <2> QED BY <1>1, <2>1, <2>2 DEF LinkStep
<1>2. CASE HostStep
  BY <1>2 DEF HostStep, LinkerNext
<1>3. ASSUME NEW charge \in BOOLEAN, Load(charge) PROVE LinkerNext
  <2>1. \E error \in {"none", "BudgetExceeded", "ImportError"} : Take(error)
    BY <1>3 DEF Load
  <2> QED BY <2>1 DEF LinkerNext
<1>4. ASSUME NEW end \in RunEnd, RunEnds(end) PROVE LinkerNext
  BY <1>4 DEF RunEnds, LinkerNext
<1>5. ASSUME NEW c, OtherExecution(c.name, c.path, c.to, c.text) PROVE UNCHANGED linkerVars
  BY <1>5 DEF OtherExecution
<1>6. CASE UNCHANGED vars
  BY <1>6 DEF vars
<1> QED BY <1>1, <1>2, <1>3, <1>4, <1>5, <1>6 DEF Next

\* No step of the link changes what there is to link with, and only a host
\* that holds a resolver begins to link.
LEMMA ScriptStays ==
  ASSUME TextInv, [LinkerNext]_linkerVars
  PROVE  resolver' = resolver /\ (phase' = "linking" => resolver) /\ program' \in Seq(Line)
<1>0. <<>> \in Seq(Line)
  OBVIOUS
<1>1. ASSUME NEW text \in Program, NEW from \in {"link", "repl"}, NEW identity, NEW already,
             Start(text, from, identity, already)
      PROVE  resolver' = resolver /\ (phase' = "linking" => resolver) /\ program' \in Seq(Line)
  <2>1. text \in Seq(Line)
    BY LinkingAssumption
  <2>2. resolver' = resolver
    BY <1>1 DEF Start
  <2>3. CASE \E error : Fail(error)
    BY <1>0, <2>2, <2>3 DEF Fail, Drop
  <2>4. CASE ~\E error : Fail(error)
    <3>1. program' = text /\ phase' = IF from = "repl" \/ Specifiers(text) = <<>> THEN "linked" ELSE "linking"
      BY <1>1, <2>4 DEF Start
    <3>2. CASE from = "link" /\ ~resolver /\ Specifiers(text) # <<>>
      BY <1>1, <2>4, <3>2 DEF Start
    <3>3. CASE ~(from = "link" /\ ~resolver /\ Specifiers(text) # <<>>)
      BY <2>1, <2>2, <3>1, <3>3 DEF TextInv
    <3> QED BY <3>2, <3>3
  <2> QED BY <2>3, <2>4
<1>2. CASE (\E error : Fail(error)) /\ resolver' = resolver
  BY <1>0, <1>2 DEF Fail, Drop
<1>3. CASE UNCHANGED <<resolver, program>> /\ (phase' = phase \/ phase' # "linking")
  BY <1>3 DEF TextInv
<1>4. ASSUME NEW found, NextImport(found)
      PROVE  ((\E error : Fail(error)) /\ resolver' = resolver) \/ UNCHANGED <<resolver, program, phase>>
  BY <1>4 DEF NextImport
<1>5. ASSUME ReadChunk
      PROVE  ((\E error : Fail(error)) /\ resolver' = resolver) \/ UNCHANGED <<resolver, program, phase>>
  BY <1>5 DEF ReadChunk, Arrive
<1>6. ASSUME NEW fault, ResolverFails(fault)
      PROVE  (\E error : Fail(error)) /\ resolver' = resolver
  BY <1>6 DEF ResolverFails
<1>7. ASSUME Return \/ Cancel \/ UNCHANGED linkerVars
      PROVE  UNCHANGED <<resolver, program, phase>>
  BY <1>7 DEF Return, Cancel, linkerVars, request
<1>8. ASSUME Finish \/ \E error : Take(error)
      PROVE  UNCHANGED <<resolver, program>> /\ phase' # "linking"
  BY <1>8 DEF Finish, Take
<1>9. ASSUME NEW end, TakenBack(end)
      PROVE  resolver' = resolver /\ program' = <<>> /\ phase' = "idle"
  BY <1>9 DEF TakenBack, Drop
<1> QED
  BY <1>0, <1>1, <1>2, <1>3, <1>4, <1>5, <1>6, <1>7, <1>8, <1>9 DEF LinkerNext

\* Texts stay texts under the calls of other executions.
LEMMA TextInvStep == TextInv /\ [Next]_vars => TextInv'
<1> SUFFICES ASSUME TextInv, [Next]_vars PROVE TextInv'
  OBVIOUS
<1>1. resolver' = resolver /\ (phase' = "linking" => resolver) /\ program' \in Seq(Line)
  BY StepLinks, ScriptStays
<1>2. CASE UNCHANGED files
  <2>1. tree' = tree /\ legacy' = legacy
    BY <1>2 DEF files
  <2> QED BY <1>1, <2>1 DEF TextInv, Holds
<1>3. ASSUME NEW c \in OtherCalls[<<resolver, legacy>>], OtherExecution(c.name, c.path, c.to, c.text)
      PROVE  TextInv'
  <2>1. c.text \in Seq(Line) /\ (resolver => Leaves(c, Text))
    BY <1>3, LinkingAssumption DEF TextInv
  <2>2. Call(c.name, c.path, c.to, c.text)
    BY <1>3 DEF OtherExecution
  <2>3. Leaves(c, Seq(Line)) /\ <<>> \o c.text = c.text
    BY <2>1, LinesLeave
  <2>4. Holds(tree', Seq(Line))
    BY <2>2, <2>3, CallLeaves DEF TextInv
  <2>5. resolver => Holds(tree', Text)
    BY <2>1, <2>2, <2>3, CallLeaves DEF TextInv
  <2>6. legacy' = legacy
    BY <2>2 DEF Call
  <2>7. TextInv' = /\ resolver' \in BOOLEAN /\ legacy' \in BOOLEAN
                   /\ phase' = "linking" => resolver'
                   /\ program' \in Seq(Line)
                   /\ Holds(tree', Seq(Line))
                   /\ resolver' => Holds(tree', Text)
    BY DEF TextInv, Holds
  <2> QED BY <1>1, <2>4, <2>5, <2>6, <2>7 DEF TextInv
<1>4. CASE UNCHANGED vars
  BY <1>2, <1>4 DEF vars
<1> QED BY <1>2, <1>3, <1>4, FilesStay

\* The texts of the files in every state.
LEMMA TextInvHolds == Spec => []TextInv
  BY TextInvStarts, TextInvStep, PTL DEF Spec

\* src/embedding.rs:1323: a link that reads the files of the scripts is a link
\* as Linker describes it, whatever other executions write: each step of
\* Linking is a step of Linker or leaves its state alone.
THEOREM LinkingRefinesLinker == Spec => LinkerSpec
<1>1. Init => LinkerInit
  BY DEF Init
<1>2. TextInv /\ [Next]_vars => [LinkerNext]_linkerVars
  BY StepLinks
<1> QED BY <1>1, <1>2, TextInvHolds, PTL DEF Spec, LinkerSpec

\* src/embedding.rs:1323, 1446: so the graph of a link is whole, and rests on
\* one text of each module, with the files of Files too.
THEOREM LinkedGraphs == Spec => [](GraphIsWhole /\ OneSourcePerModule)
  BY LinkingRefinesLinker, GraphIsWholeHolds, OneSourcePerModuleHolds, PTL

-----------------------------------------------------------------------------
\* A world holds a tree of files, and its roots stand in it.
LEMMA FileInvStarts == Init => TreeInv /\ FileInv
<1> SUFFICES ASSUME Init PROVE TreeInv /\ FileInv
  OBVIOUS
<1>1. PICK w \in World : tree = w.tree /\ roots = w.roots
  BY DEF Init
<1>2. FileInv
  BY <1>1, LinkingAssumption DEF FileInv
<1>3. TreeInv
  BY <1>2, PlainStands DEF FileInv, TreeInv
<1> QED BY <1>2, <1>3

\* What a step does to the files.
LEMMA FileStep ==
  ASSUME TextInv, TreeInv, [Next]_vars
  PROVE  /\ TreeInv' /\ (FileInv /\ RootsApart => FileInv' /\ RootsApart')
         /\ UNCHANGED files \/ (ChangeGranted /\ (BaseStands => StayedInside))
<1>1. CASE UNCHANGED files
  BY <1>1 DEF files, TreeInv, FileInv, RootsApart
<1>2. ASSUME NEW c \in OtherCalls[<<resolver, legacy>>], OtherExecution(c.name, c.path, c.to, c.text)
      PROVE  /\ TreeInv' /\ (FileInv /\ RootsApart => FileInv' /\ RootsApart')
             /\ ChangeGranted /\ (BaseStands => StayedInside)
  <2>1. Call(c.name, c.path, c.to, c.text)
    BY <1>2 DEF OtherExecution
  <2>2. c.path.rel \in HostPath /\ c.to.rel \in HostPath
    BY <1>2, LinkingAssumption DEF TextInv
  <2>3. TreeInv' /\ ChangeGranted /\ (BaseStands => StayedInside)
    BY <2>1, <2>2, CallSound
  <2>4. FileInv /\ RootsApart => FileInv'
    BY <2>1, <2>2, BasesStay
  <2>5. RootsApart => RootsApart'
    <3>1. roots' = roots
      BY <2>1 DEF Call
    <3> QED BY <3>1 DEF RootsApart
  <2> QED BY <2>3, <2>4, <2>5
<1>3. CASE UNCHANGED vars
  BY <1>1, <1>3 DEF vars
<1> QED BY <1>1, <1>2, <1>3, FilesStay

\* The files in every state.
LEMMA TreeInvHolds == Spec => [](TextInv /\ TreeInv)
<1>1. Init => TextInv /\ TreeInv
  BY TextInvStarts, FileInvStarts
<1>2. TextInv /\ TreeInv /\ [Next]_vars => (TextInv /\ TreeInv)'
  BY TextInvStep, FileStep
<1> QED BY <1>1, <1>2, PTL DEF Spec

\* src/capability.rs:1736: no call reads or changes what does not lie below the
\* directory of its mount, for any files and symlinks, paths and policies, as
\* long as no symlink has come to stand on the way to this directory itself.
THEOREM ScriptsStayInsideHolds == Spec => ScriptsStayInside
<1>1. TextInv /\ TreeInv /\ [Next]_vars => [BaseStands => StayedInside]_files
  BY FileStep
<1> QED BY <1>1, TreeInvHolds, PTL DEF Spec, ScriptsStayInside

\* src/builtin_core.rs:1940, 1997: every change of the files is one whose
\* operation the host granted.
THEOREM ChangesAreGrantedHolds == Spec => ChangesAreGranted
<1>1. TextInv /\ TreeInv /\ [Next]_vars => [ChangeGranted]_files
  BY FileStep
<1> QED BY <1>1, TreeInvHolds, PTL DEF Spec, ChangesAreGranted

\* src/capability.rs:1736: where no mount with the base of another below its
\* own grants removals, no script puts a symlink on the way to a base, and
\* every call stays inside.
THEOREM BasesStand ==
  Spec /\ RootsApart =>
    /\ [](\A m \in DOMAIN roots : IsPlain(tree, roots[m].base))
    /\ [][StayedInside]_files
<1>1. Init /\ RootsApart => FileInv /\ RootsApart
  BY FileInvStarts
<1>2. TextInv /\ TreeInv /\ FileInv /\ RootsApart /\ [Next]_vars => (FileInv /\ RootsApart)'
  BY FileStep
<1>3. TextInv /\ TreeInv /\ FileInv /\ [Next]_vars => [StayedInside]_files
  <2> SUFFICES ASSUME TextInv, TreeInv, FileInv, [Next]_vars
               PROVE  UNCHANGED files \/ StayedInside
    OBVIOUS
  <2>1. UNCHANGED files \/ (BaseStands => StayedInside)
    BY FileStep
  <2>2. CASE BaseStands
    BY <2>1, <2>2
  <2>3. CASE ~BaseStands
    BY <2>3 DEF BaseStands, FileInv
  <2> QED BY <2>2, <2>3
<1>4. FileInv => \A m \in DOMAIN roots : IsPlain(tree, roots[m].base)
  BY DEF FileInv
<1> QED BY <1>1, <1>2, <1>3, <1>4, TreeInvHolds, PTL DEF Spec

-----------------------------------------------------------------------------
(* The modules a run loads. *)

\* What link_into has done at any moment: the modules it has loaded are those
\* that were loaded and the new ones, each of them once.
Steady(st) ==
  /\ st \in Progress
  /\ st.loaded = loaded \union Range(st.newly)
  /\ Range(st.newly) \cap loaded = {}
  /\ IsInjective(st.newly)

\* The modules behind the imports of a text are linked steadily.
Guides(modules) ==
  \A p, st : Kind(p) = "file" /\ Steady(st) => Steady(modules[p][st])

\* One more module.
LEMMA OneLoads ==
  ASSUME NEW q, NEW S, q \in Seq(S), IsInjective(q), NEW e \in S, e \notin Range(q)
  PROVE  /\ Append(q, e) \in Seq(S)
         /\ Range(Append(q, e)) = Range(q) \union {e}
         /\ IsInjective(Append(q, e))
<1>1. Len(q) \in Nat /\ DOMAIN q = 1 .. Len(q)
  BY LenProperties
<1>2. PICK r : r = Append(q, e)
  OBVIOUS
<1>3. /\ r \in Seq(S) /\ Len(r) = Len(q) + 1 /\ r[Len(q) + 1] = e
      /\ \A i \in 1 .. Len(q) : r[i] = q[i]
  BY <1>2, AppendProperties
<1>4. DOMAIN r = 1 .. (Len(q) + 1)
  BY <1>3, LenProperties
<1>5. \A i \in 1 .. Len(q) : q[i] # e
  BY <1>1 DEF Range
<1>6. Range(r) = Range(q) \union {e}
  <2>1. Range(r) \subseteq Range(q) \union {e}
    BY <1>1, <1>3, <1>4 DEF Range
  <2>2. Range(q) \subseteq Range(r)
    BY <1>1, <1>3, <1>4 DEF Range
  <2>3. e \in Range(r)
    BY <1>1, <1>3, <1>4 DEF Range
  <2> QED BY <2>1, <2>2, <2>3
<1>7. IsInjective(r)
  <2> SUFFICES ASSUME NEW i \in 1 .. (Len(q) + 1), NEW j \in 1 .. (Len(q) + 1), r[i] = r[j]
               PROVE  i = j
    BY <1>4 DEF IsInjective
  <2>1. CASE i \in 1 .. Len(q) /\ j \in 1 .. Len(q)
    BY <1>1, <1>3, <2>1 DEF IsInjective
  <2>2. CASE i = Len(q) + 1 /\ j \in 1 .. Len(q)
    BY <1>3, <1>5, <2>2
  <2>3. CASE i \in 1 .. Len(q) /\ j = Len(q) + 1
    BY <1>3, <1>5, <2>3
  <2>4. CASE i = Len(q) + 1 /\ j = Len(q) + 1
    BY <2>4
  <2> QED BY <1>1, <2>1, <2>2, <2>3, <2>4
<1> QED BY <1>2, <1>3, <1>6, <1>7

\* As many modules as the sequence is long.
LEMMA AsMany ==
  ASSUME NEW q, NEW S, q \in Seq(S), IsInjective(q)
  PROVE  Cardinality(Range(q)) = Len(q)
<1>1. Len(q) \in Nat /\ DOMAIN q = 1 .. Len(q)
  BY LenProperties
<1>2. q \in Bijection(1 .. Len(q), Range(q))
  <2>1. q \in [1 .. Len(q) -> Range(q)]
    BY <1>1 DEF Range
  <2> QED BY <1>1, <2>1 DEF Bijection, Injection, Surjection, IsInjective, Range
<1>3. ExistsBijection(1 .. Len(q), Range(q))
  BY <1>2 DEF ExistsBijection
<1> QED BY <1>1, <1>3, FS_CountingElements

\* A line of a text.
LEMMA LineSteady ==
  ASSUME NEW st, Steady(st), NEW line, NEW dir, NEW depth, NEW modules,
         TooDeep(depth) \/ Guides(modules)
  PROVE  Steady(LinkLine(line, dir, depth, st, modules))
<1>1. PICK path : path = Canonical(dir \o Written(line))
  OBVIOUS
<1>2. PICK failed : failed = [st EXCEPT !.ok = FALSE]
  OBVIOUS
<1>3. PICK entered : entered = [st EXCEPT !.loaded = @ \union {path}, !.newly = Append(@, path)]
  OBVIOUS
<1>4. PICK broken : broken = [entered EXCEPT !.ok = FALSE]
  OBVIOUS
<1>5. PICK next : next = LinkLine(line, dir, depth, st, modules)
  OBVIOUS
<1>6. \/ next = st
      \/ next = failed
      \/ /\ path \notin st.loaded /\ ~TooDeep(depth) /\ Kind(path) = "file"
         /\ next = broken \/ next = modules[path][entered]
  BY <1>1, <1>2, <1>3, <1>4, <1>5 DEF LinkLine
<1>7. /\ st \in Progress /\ st.ok \in BOOLEAN /\ st.newly \in Seq(DOMAIN tree)
      /\ st.loaded \subseteq loaded \union DOMAIN tree
      /\ st = [ok |-> st.ok, loaded |-> st.loaded, newly |-> st.newly]
  BY DEF Steady, Progress
<1>8. Steady(failed)
  <2>1. /\ failed.loaded = st.loaded /\ failed.newly = st.newly
        /\ failed = [ok |-> FALSE, loaded |-> st.loaded, newly |-> st.newly]
    BY <1>2, <1>7
  <2>2. failed \in Progress
    BY <1>7, <2>1 DEF Progress
  <2> QED BY <2>1, <2>2 DEF Steady
<1>9. ASSUME path \notin st.loaded, Kind(path) = "file"
      PROVE  Steady(entered) /\ Steady(broken)
  <2>1. path \in DOMAIN tree
    BY <1>9 DEF Kind, KindIn
  <2>2. path \notin Range(st.newly) /\ path \notin loaded
    BY <1>9 DEF Steady
  <2>3. PICK q : q = Append(st.newly, path)
    OBVIOUS
  <2>4. q \in Seq(DOMAIN tree) /\ Range(q) = Range(st.newly) \union {path} /\ IsInjective(q)
    BY <1>7, <2>1, <2>2, <2>3, OneLoads DEF Steady
  <2>5. PICK all : all = st.loaded \union {path}
    OBVIOUS
  <2>6. entered = [ok |-> st.ok, loaded |-> all, newly |-> q]
    BY <1>3, <1>7, <2>3, <2>5
  <2>7. broken = [ok |-> FALSE, loaded |-> all, newly |-> q]
    BY <1>4, <2>6
  <2>8. all \subseteq loaded \union DOMAIN tree
    BY <1>7, <2>1, <2>5
  <2>9. all = loaded \union Range(q) /\ Range(q) \cap loaded = {}
    BY <2>2, <2>4, <2>5 DEF Steady
  <2>10. \A ok \in BOOLEAN : Steady([ok |-> ok, loaded |-> all, newly |-> q])
    BY <2>4, <2>8, <2>9 DEF Steady, Progress
  <2> QED BY <1>7, <2>6, <2>7, <2>10
<1>10. CASE path \notin st.loaded /\ ~TooDeep(depth) /\ Kind(path) = "file" /\ next = modules[path][entered]
  <2>1. Steady(entered)
    BY <1>9, <1>10
  <2>2. Steady(modules[path][entered])
    BY <1>10, <2>1 DEF Guides
  <2> QED BY <1>5, <1>10, <2>2
<1> QED BY <1>5, <1>6, <1>8, <1>9, <1>10

LinesTo(upTo, N, text, dir, depth, st, modules) ==
  upTo = [n \in 0 .. N |->
            IF n = 0 THEN st ELSE LinkLine(text[n], dir, depth, upTo[n - 1], modules)]

\* The steps through a text are a function.
LEMMA LinesExist ==
  ASSUME NEW text, NEW dir, NEW depth, NEW st, NEW modules
  PROVE  \A N \in Nat : \E upTo : LinesTo(upTo, N, text, dir, depth, st, modules)
<1> DEFINE P == {N \in Nat : \E upTo : LinesTo(upTo, N, text, dir, depth, st, modules)}
<1>1. 0 \in P
  <2> DEFINE at == [n \in 0 .. 0 |-> st]
  <2>1. LinesTo(at, 0, text, dir, depth, st, modules)
    BY DEF LinesTo
  <2> HIDE DEF at
  <2>2. \E q : LinesTo(q, 0, text, dir, depth, st, modules)
    BY <2>1
  <2> QED BY <2>2
<1>2. ASSUME NEW N \in Nat, N \in P PROVE N + 1 \in P
  <2>1. PICK at : LinesTo(at, N, text, dir, depth, st, modules)
    BY <1>2
  <2> DEFINE q == [n \in 0 .. (N + 1) |->
                     IF n = N + 1 THEN LinkLine(text[N + 1], dir, depth, at[N], modules) ELSE at[n]]
  <2>2. DOMAIN q = 0 .. (N + 1)
    OBVIOUS
  <2>3. ASSUME NEW n \in 0 .. (N + 1)
        PROVE  q[n] = IF n = 0 THEN st ELSE LinkLine(text[n], dir, depth, q[n - 1], modules)
    <3>1. CASE n = N + 1
      <4>1. q[n] = LinkLine(text[N + 1], dir, depth, at[N], modules) /\ q[n - 1] = at[N] /\ n # 0
        BY <3>1
      <4> QED BY <3>1, <4>1
    <3>2. CASE n \in 1 .. N
      <4>1. q[n] = at[n] /\ q[n - 1] = at[n - 1] /\ n # 0
        BY <3>2
      <4>2. at[n] = LinkLine(text[n], dir, depth, at[n - 1], modules)
        BY <2>1, <3>2 DEF LinesTo
      <4> QED BY <4>1, <4>2
    <3>3. CASE n = 0
      <4>1. q[0] = at[0] /\ at[0] = st
        BY <2>1, <3>3 DEF LinesTo
      <4> QED BY <3>3, <4>1
    <3>4. n = N + 1 \/ n \in 1 .. N \/ n = 0
      OBVIOUS
    <3> QED BY <3>1, <3>2, <3>3, <3>4
  <2>4. LinesTo(q, N + 1, text, dir, depth, st, modules)
    BY <2>3 DEF LinesTo
  <2> HIDE DEF q
  <2>5. \E g : LinesTo(g, N + 1, text, dir, depth, st, modules)
    BY <2>4
  <2>6. N + 1 \in Nat
    OBVIOUS
  <2> QED BY ONLY <2>5, <2>6 DEF P
<1> HIDE DEF P
<1>3. \A N \in Nat : N \in P
  BY <1>1, <1>2, Induction
<1> QED BY <1>3 DEF P

\* A text.
LEMMA LinesSteady ==
  ASSUME NEW text, text \in Seq(Line), NEW st, Steady(st), NEW dir, NEW depth, NEW modules,
         TooDeep(depth) \/ Guides(modules)
  PROVE  Steady(LinkLines(text, dir, depth, st, modules))
<1> DEFINE N == Len(text)
           at == CHOOSE f : LinesTo(f, N, text, dir, depth, st, modules)
<1>1. N \in Nat
  OBVIOUS
<1>2. LinesTo(at, N, text, dir, depth, st, modules)
  BY <1>1, LinesExist
<1>3. LinkLines(text, dir, depth, st, modules) = at[N]
  BY DEF LinkLines, LinesTo
<1> HIDE DEF at, N
<1> DEFINE P == {n \in Nat : n <= N => Steady(at[n])}
<1>4. 0 \in P
  BY <1>1, <1>2 DEF LinesTo
<1>5. ASSUME NEW n \in Nat, n \in P PROVE n + 1 \in P
  <2> SUFFICES ASSUME n + 1 <= N PROVE Steady(at[n + 1])
    OBVIOUS
  <2>1. n + 1 \in 0 .. N /\ n <= N /\ n + 1 # 0 /\ (n + 1) - 1 = n
    BY <1>1
  <2>2. at[n + 1] = LinkLine(text[n + 1], dir, depth, at[n], modules)
    BY <1>2, <2>1 DEF LinesTo
  <2>3. Steady(at[n])
    BY <1>5, <2>1
  <2> QED BY <2>2, <2>3, LineSteady
<1> HIDE DEF P
<1>6. \A n \in Nat : n \in P
  BY <1>4, <1>5, Induction
<1> QED BY <1>1, <1>3, <1>6 DEF P

\* The modules linked at each depth.
Nested(into, left) ==
  [path \in DOMAIN tree |-> [st \in Progress |->
     LinkLines(tree[path].text, Front(path), MaxImportDepth - left, st,
               IF left = 0 THEN <<>> ELSE into[left - 1])]]

Nests(into, N) == into = [left \in 0 .. N |-> Nested(into, left)]

\* The depths are a function.
LEMMA NestsExist == \A N \in Nat : \E into : Nests(into, N)
<1> DEFINE P == {N \in Nat : \E into : Nests(into, N)}
<1>1. 0 \in P
  <2> DEFINE at == [n \in 0 .. 0 |-> Nested(<<>>, 0)]
  <2>1. Nested(at, 0) = Nested(<<>>, 0)
    BY DEF Nested
  <2>2. Nests(at, 0)
    BY <2>1 DEF Nests
  <2> HIDE DEF at
  <2>3. \E q : Nests(q, 0)
    BY <2>2
  <2> QED BY <2>3
<1>2. ASSUME NEW N \in Nat, N \in P PROVE N + 1 \in P
  <2>1. PICK at : Nests(at, N)
    BY <1>2
  <2> DEFINE q == [n \in 0 .. (N + 1) |-> IF n = N + 1 THEN Nested(at, N + 1) ELSE at[n]]
  <2>2. DOMAIN q = 0 .. (N + 1)
    OBVIOUS
  <2>3. ASSUME NEW n \in 0 .. (N + 1) PROVE q[n] = Nested(q, n)
    <3>1. CASE n = N + 1
      <4>1. q[n] = Nested(at, n) /\ q[n - 1] = at[n - 1] /\ n # 0
        BY <3>1
      <4>2. Nested(at, n) = Nested(q, n)
        BY <4>1 DEF Nested
      <4> QED BY <4>1, <4>2
    <3>2. CASE n \in 1 .. N
      <4>1. q[n] = at[n] /\ q[n - 1] = at[n - 1] /\ n # 0
        BY <3>2
      <4>2. at[n] = Nested(at, n)
        BY <2>1, <3>2 DEF Nests
      <4>3. Nested(at, n) = Nested(q, n)
        BY <4>1 DEF Nested
      <4> QED BY <4>1, <4>2, <4>3
    <3>3. CASE n = 0
      <4>1. q[0] = at[0] /\ at[0] = Nested(at, 0)
        BY <2>1, <3>3 DEF Nests
      <4>2. Nested(at, 0) = Nested(q, 0)
        BY DEF Nested
      <4> QED BY <3>3, <4>1, <4>2
    <3>4. n = N + 1 \/ n \in 1 .. N \/ n = 0
      OBVIOUS
    <3> QED BY <3>1, <3>2, <3>3, <3>4
  <2>4. Nests(q, N + 1)
    BY <2>3 DEF Nests
  <2> HIDE DEF q
  <2>5. \E g : Nests(g, N + 1)
    BY <2>4
  <2>6. N + 1 \in Nat
    OBVIOUS
  <2> QED BY ONLY <2>5, <2>6 DEF P
<1> HIDE DEF P
<1>3. \A N \in Nat : N \in P
  BY <1>1, <1>2, Induction
<1> QED BY <1>3 DEF P

\* Modules of modules, down to the depth that no import passes.
LEMMA ModulesSteady ==
  ASSUME Holds(tree, Seq(Line))
  PROVE  Guides(LinkInto[MaxImportDepth - 1])
<1>0. MaxImportDepth \in Nat /\ MaxImportDepth # 0
  BY LinkingAssumption
<1>1. Nests(LinkInto, MaxImportDepth)
  <2>1. \E into : Nests(into, MaxImportDepth)
    BY <1>0, NestsExist
  <2>2. LinkInto = CHOOSE into : Nests(into, MaxImportDepth)
    BY DEF LinkInto, Nests, Nested
  <2> QED BY <2>1, <2>2
<1> DEFINE P == {n \in Nat : n <= MaxImportDepth => Guides(LinkInto[n])}
<1>2. ASSUME NEW n \in Nat, n <= MaxImportDepth, n = 0 \/ Guides(LinkInto[n - 1])
      PROVE  Guides(LinkInto[n])
  <2> SUFFICES ASSUME NEW path, NEW st, Kind(path) = "file", Steady(st)
               PROVE  Steady(LinkInto[n][path][st])
    BY DEF Guides
  <2>1. path \in DOMAIN tree /\ tree[path].text \in Seq(Line) /\ st \in Progress
    <3>1. path \in DOMAIN tree /\ tree[path].kind = "file"
      BY DEF Kind, KindIn
    <3> QED BY <3>1 DEF Holds, Steady
  <2>2. PICK modules : modules = IF n = 0 THEN <<>> ELSE LinkInto[n - 1]
    OBVIOUS
  <2>3. LinkInto[n] = Nested(LinkInto, n)
    BY <1>0, <1>1, <1>2 DEF Nests
  <2>4. LinkInto[n][path][st] =
          LinkLines(tree[path].text, Front(path), MaxImportDepth - n, st, modules)
    BY <2>1, <2>2, <2>3 DEF Nested
  <2>5. TooDeep(MaxImportDepth - n) \/ Guides(modules)
    BY <1>0, <1>2, <2>2 DEF TooDeep
  <2> QED BY <2>1, <2>4, <2>5, LinesSteady
<1>3. 0 \in P
  BY <1>0, <1>2
<1>4. ASSUME NEW n \in Nat, n \in P PROVE n + 1 \in P
  <2> SUFFICES ASSUME n + 1 <= MaxImportDepth PROVE Guides(LinkInto[n + 1])
    OBVIOUS
  <2>1. n <= MaxImportDepth /\ (n + 1) - 1 = n
    BY <1>0
  <2> QED BY <1>2, <1>4, <2>1
<1> HIDE DEF P
<1>5. \A n \in Nat : n \in P
  BY <1>3, <1>4, Induction
<1> QED BY <1>0, <1>5 DEF P

\* What a run links is what was loaded and new modules, each once.
LEMMA LinkedSteady ==
  ASSUME TextInv
  PROVE  Steady(Linked)
<1>1. PICK st : st = [ok |-> TRUE, loaded |-> loaded, newly |-> <<>>]
  OBVIOUS
<1>2. Steady(st)
  <2>1. st.loaded = loaded /\ st.newly = <<>> /\ Range(<<>>) = {} /\ IsInjective(<<>>)
    BY <1>1 DEF Range, IsInjective
  <2>2. st \in Progress
    BY <1>1 DEF Progress
  <2> QED BY <2>1, <2>2 DEF Steady
<1>3. Guides(LinkInto[MaxImportDepth - 1])
  BY ModulesSteady DEF TextInv
<1>4. Linked = LinkLines(program, ScriptDir, 0, st, LinkInto[MaxImportDepth - 1])
  BY <1>1 DEF Linked
<1> QED BY <1>2, <1>3, <1>4, LinesSteady DEF TextInv

-----------------------------------------------------------------------------
\* A run's modules are new, and none is left when it has ended.
LoaderInv ==
  /\ \E S : newly \in Seq(S)
  /\ newly # <<>> => phase = "running"
  /\ loaded = ({Script} \cap loaded) \union finished \union Range(newly)
  /\ finished \cap Range(newly) = {}
  /\ IsInjective(newly)

\* Only the script is loaded at first.
LEMMA LoaderInvStarts == Init => LoaderInv
<1> SUFFICES ASSUME Init PROVE LoaderInv
  OBVIOUS
<1>1. IsTree(tree) /\ IsPlain(tree, Script)
  BY LinkingAssumption DEF Init
<1>2. Canonical(Script) \in {Script, NoPath}
  BY <1>1, Opens DEF Canonical, Real
<1>3. loaded = {Canonical(Script)} \ {NoPath} /\ newly = <<>> /\ finished = {}
  BY DEF Init
<1>4. <<>> \in Seq({}) /\ Range(<<>>) = {} /\ IsInjective(<<>>)
  BY DEF Range, IsInjective
<1>5. loaded \subseteq {Script}
  BY <1>2, <1>3
<1> QED BY <1>3, <1>4, <1>5 DEF LoaderInv

\* A link, a load, a run and the calls of other executions.
LEMMA LoaderInvStep == TextInv /\ LoaderInv /\ [Next]_vars => LoaderInv'
<1> SUFFICES ASSUME TextInv, LoaderInv, [Next]_vars PROVE LoaderInv'
  OBVIOUS
<1>0. <<>> \in Seq({}) /\ Range(<<>>) = {} /\ IsInjective(<<>>)
  BY DEF Range, IsInjective
<1>1. CASE UNCHANGED loader /\ (phase' = phase \/ phase # "running")
  BY <1>1 DEF LoaderInv, loader
<1>2. CASE LinkStep
  <2>1. UNCHANGED loader /\ phase # "running"
    BY <1>2 DEF LinkStep, NextImport, ReadChunk, Return, Finish
  <2> QED BY <1>1, <2>1
<1>3. CASE HostStep
  <2>1. UNCHANGED loader /\ phase # "running"
    BY <1>3 DEF HostStep, Start, ResolverFails, Cancel
  <2> QED BY <1>1, <2>1
<1>4. ASSUME NEW charge, Load(charge) PROVE LoaderInv'
  <2>1. newly = <<>> /\ finished' = finished /\ phase = "linked"
    BY <1>4 DEF Load, LoaderInv
  <2>2. loaded = ({Script} \cap loaded) \union finished
    BY <1>0, <2>1 DEF LoaderInv
  <2>3. PICK st : st = Linked
    OBVIOUS
  <2>4. Steady(st)
    BY <2>3, LinkedSteady
  <2>5. CASE Linked.ok /\ charge
    <3>1. loaded' = st.loaded /\ newly' = st.newly /\ phase' = "running"
      BY <1>4, <2>3, <2>5 DEF Load, Take
    <3>2. newly' \in Seq(DOMAIN tree)
      BY <2>4, <3>1 DEF Steady, Progress
    <3> QED BY <2>1, <2>2, <2>4, <3>1, <3>2 DEF LoaderInv, Steady
  <2>6. CASE ~(Linked.ok /\ charge)
    <3>1. loaded' = st.loaded \ Range(st.newly) /\ newly' = <<>>
      BY <1>4, <2>3, <2>6 DEF Load, Forget
    <3>2. loaded' = loaded
      BY <2>4, <3>1 DEF Steady
    <3> QED BY <1>0, <2>1, <2>2, <3>1, <3>2 DEF LoaderInv
  <2> QED BY <2>5, <2>6
<1>5. ASSUME NEW end, RunEnds(end) PROVE LoaderInv'
  <2>1. newly' = <<>>
    BY <1>5 DEF RunEnds
  <2>2. CASE end = "Completed"
    <3>1. finished' = finished \union Range(newly) /\ loaded' = loaded
      BY <1>5, <2>2 DEF RunEnds
    <3> QED BY <1>0, <2>1, <3>1 DEF LoaderInv
  <2>3. CASE end # "Completed"
    <3>1. finished' = finished /\ loaded' = loaded \ Range(newly)
      BY <1>5, <2>3 DEF RunEnds, Forget
    <3> QED BY <1>0, <2>1, <3>1 DEF LoaderInv
  <2> QED BY <2>2, <2>3
<1>6. ASSUME NEW c, OtherExecution(c.name, c.path, c.to, c.text) PROVE LoaderInv'
  <2>1. UNCHANGED loader /\ phase' = phase
    BY <1>6 DEF OtherExecution, linkerVars, request
  <2> QED BY <1>1, <2>1
<1>7. CASE UNCHANGED vars
  BY <1>1, <1>7 DEF vars, linkerVars, request
<1> QED BY <1>2, <1>3, <1>4, <1>5, <1>6, <1>7 DEF Next

\* src/module.rs:124, src/eval.rs:1226: a module is loaded exactly when a run
\* that ended well loaded it or the current run has, and no run loads it twice,
\* for any files, any depth limit and whatever other executions write.
THEOREM LoadedIsTrueHolds == Spec => []LoadedIsTrue
<1>1. Init => LoaderInv
  BY LoaderInvStarts
<1>2. TextInv /\ LoaderInv /\ [Next]_vars => LoaderInv'
  BY LoaderInvStep
<1>3. LoaderInv => LoadedIsTrue
  BY AsMany DEF LoaderInv, LoadedIsTrue
<1> QED BY <1>1, <1>2, <1>3, TextInvHolds, PTL DEF Spec

=============================================================================
