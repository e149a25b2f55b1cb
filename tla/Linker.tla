------------------------------- MODULE Linker -------------------------------
(* src/embedding.rs: Engine::link.  The host's thread reads the modules a   *)
(* script imports through the resolver the capabilities hold, depth first,  *)
(* and builds the import graph.  Between two calls of the resolver the      *)
(* files may change in any way: what a call finds is a parameter of its     *)
(* action.  The run that follows (Linking) takes the script away.           *)
(*                                                                          *)
(* The hash of a source is its text.  A source has one chunk per line.      *)
EXTENDS Naturals, FiniteSets, SequencesExt

CONSTANTS
  Program,         \* texts of root scripts
  Text,            \* texts of modules
  Specifier,       \* what an import names
  Specifiers(_),   \* the imports of a text, in their order
  Parses(_),       \* FilesystemTarget::parse takes the specifier
  Compiles(_),     \* the text is UTF-8 and a program
  MaxImportDepth,  \* limits::MAX_IMPORT_DEPTH
  MaxRuns,         \* bound: links of a behaviour
  NoSource         \* no source is read, or the resolver has none

\* normalize_specifier: the directory of the importing module plays no part.
ModuleId(spec) == <<spec.mount>> \o spec.rel
ModuleIds      == {ModuleId(spec) : spec \in Specifier}
Ids(text)      == [i \in DOMAIN Specifiers(text) |-> ModuleId(Specifiers(text)[i])]

\* ModuleSource
Sources == [module : ModuleIds, offset : Nat, text : Text]

ASSUME LinkerAssumption ==
  /\ \A text \in Program \union Text : Specifiers(text) \in Seq(Specifier)
  /\ NoSource \notin Sources

VARIABLES
  resolver,    \* whether the capabilities hold a module_resolver
  phase,       \* idle, linking, linked, running
  program,     \* the script being linked or run
  entry,       \* "link" or "repl", the entry the script came through
  result,      \* how the last link or load ended
  cancelled,   \* request.cancellation
  stack,       \* the calls of resolve_module_imports, the innermost last
  source,      \* the ModuleSource being read
  resolved,    \* module id -> source hash
  nodes,       \* module id -> ImportNode
  reads,       \* history: what this link read of each module
  runs

graph == <<stack, source, resolved, nodes, reads>>
request == <<phase, program, entry, result, cancelled, runs>>
linkerVars == <<resolver, graph, request>>

-----------------------------------------------------------------------------
(* Engine::link.                                                            *)

Frame(module, text) == [module |-> module, todo |-> Specifiers(text), imports |-> <<>>]

Top == Last(stack)
Active == {stack[i].module : i \in 2..Len(stack)}

\* The request and what the link built are dropped.
Drop ==
  /\ program' = <<>>
  /\ cancelled' = FALSE
  /\ stack' = <<>>
  /\ source' = NoSource
  /\ resolved' = <<>>
  /\ nodes' = <<>>
  /\ reads' = {}

Fail(error) ==
  /\ phase' = "idle"
  /\ result' = error
  /\ Drop

\* compile, link_inner and link_for_repl_inner up to the first resolver call
Start(text, from, identity, already) ==
  LET refusal ==
        CASE identity # "same" -> identity
          [] already -> "Cancelled"
          [] from = "link" /\ ~resolver /\ Specifiers(text) # <<>> -> "Denied"
          [] OTHER -> "none"
      empty == from = "repl" \/ Specifiers(text) = <<>>
  IN /\ phase = "idle"
     /\ runs < MaxRuns
     /\ runs' = runs + 1
     /\ entry' = from
     /\ IF refusal # "none" THEN Fail(refusal)
        ELSE /\ result' = "none"
             /\ phase' = IF empty THEN "linked" ELSE "linking"
             /\ program' = text
             /\ cancelled' = FALSE
             /\ stack' = IF empty THEN <<>> ELSE <<Frame(<<>>, text)>>
             /\ source' = NoSource
             /\ resolved' = <<>>
             /\ nodes' = <<>>
             /\ reads' = {}
     /\ UNCHANGED resolver

\* How a resolver may fail, as adapter_error_to_link_error writes it.
AdapterFault == {"Resolve", "Cancelled", "DeadlineExceeded", "BudgetExceeded"}

\* Variant: a module that is still being resolved is not looked for.
RefusalWithoutCycle(spec, found) ==
  CASE cancelled -> "Cancelled"
    [] ~Parses(spec) -> "Resolve"
    [] spec.mount # "default" -> "Denied"
    [] Len(stack) - 1 >= MaxImportDepth -> "DepthExceeded"
    [] found = NoSource -> "Resolve"
    [] OTHER -> "none"

\* What ends the link before, or in, the call of the resolver for spec.
ImportRefusal(spec, found) ==
  CASE cancelled -> "Cancelled"
    [] ~Parses(spec) -> "Resolve"
    [] spec.mount # "default" -> "Denied"
    [] ModuleId(spec) \in Active -> "Cycle"
    [] Len(stack) - 1 >= MaxImportDepth -> "DepthExceeded"
    [] found = NoSource -> "Resolve"
    [] OTHER -> "none"

\* One specifier: the resolver opens the module, where there is found.  The
\* handle reads the whole file at its first chunk; the model reads it here.
NextImport(found) ==
  /\ phase = "linking"
  /\ source = NoSource
  /\ Top.todo # <<>>
  /\ LET spec == Head(Top.todo)
         refusal == ImportRefusal(spec, found)
     IN IF refusal # "none" THEN Fail(refusal)
        ELSE /\ source' = [module |-> ModuleId(spec), offset |-> 0, text |-> found]
             /\ stack' = [stack EXCEPT ![Len(stack)].todo = Tail(@),
                                       ![Len(stack)].imports = Append(@, ModuleId(spec))]
             /\ UNCHANGED <<phase, result, program, cancelled, resolved, nodes, reads>>
  /\ UNCHANGED <<resolver, entry, runs>>

\* Variant: a module that is resolved is not compared with its first reading.
ArrivalUnchecked(id, text) ==
  IF id \in DOMAIN resolved THEN "known"
  ELSE IF Compiles(text) THEN "new" ELSE "InvalidModule"

\* What a source that was read to its end is: known, new, or refused.
Arrival(id, text) ==
  IF id \in DOMAIN resolved
  THEN IF resolved[id] = text THEN "known" ELSE "Resolve"
  ELSE IF Compiles(text) THEN "new" ELSE "InvalidModule"

Arrive(id, text) ==
  CASE Arrival(id, text) \in {"Resolve", "InvalidModule"} -> Fail(Arrival(id, text))
    [] Arrival(id, text) = "known" ->
         /\ source' = NoSource
         /\ reads' = reads \union {<<id, text>>}
         /\ UNCHANGED <<phase, result, program, cancelled, resolved, nodes, stack>>
    [] OTHER ->
         /\ source' = NoSource
         /\ reads' = reads \union {<<id, text>>}
         /\ resolved' = [m \in DOMAIN resolved \union {id} |->
                           IF m = id THEN text ELSE resolved[m]]
         /\ stack' = Append(stack, Frame(id, text))
         /\ UNCHANGED <<phase, result, program, cancelled, nodes>>

\* Variant: the offset of the source stays where it was.
ChunkStart(offset) == offset
\* How far a chunk takes the reading of a source.
ChunkEnd(offset) == offset + 1

\* read_module_source: a chunk, or the end of the source
ReadChunk ==
  /\ phase = "linking"
  /\ source # NoSource
  /\ IF cancelled THEN Fail("Cancelled")
     ELSE IF source.offset < Len(source.text)
     THEN /\ source' = [source EXCEPT !.offset = ChunkEnd(@)]
          /\ UNCHANGED <<phase, result, program, cancelled, stack, resolved, nodes, reads>>
     ELSE Arrive(source.module, source.text)
  /\ UNCHANGED <<resolver, entry, runs>>

\* A call of the resolver or of the source fails.
ResolverFails(fault) ==
  /\ phase = "linking"
  /\ ~cancelled
  /\ source # NoSource \/ Top.todo # <<>>
  /\ Fail(fault)
  /\ UNCHANGED <<resolver, entry, runs>>

\* The imports of a module are resolved: its node is built.
Return ==
  /\ phase = "linking"
  /\ source = NoSource
  /\ Top.todo = <<>>
  /\ Len(stack) > 1
  /\ nodes' = [m \in DOMAIN nodes \union {Top.module} |->
                 IF m = Top.module
                 THEN [hash |-> resolved[m], imports |-> Top.imports]
                 ELSE nodes[m]]
  /\ stack' = Front(stack)
  /\ UNCHANGED <<resolver, request, source, resolved, reads>>

\* The LinkedScript; its root_imports stay in the frame of the root.
Finish ==
  /\ phase = "linking"
  /\ source = NoSource
  /\ Top.todo = <<>>
  /\ Len(stack) = 1
  /\ phase' = "linked"
  /\ UNCHANGED <<resolver, graph, program, entry, result, cancelled, runs>>

Cancel ==
  /\ phase = "linking"
  /\ ~cancelled
  /\ cancelled' = TRUE
  /\ UNCHANGED <<resolver, graph, phase, program, entry, result, runs>>

\* The run takes the linked script, or fails before its first statement.
Take(error) ==
  /\ phase = "linked"
  /\ IF error = "none"
     THEN phase' = "running" /\ UNCHANGED result
     ELSE phase' = "idle" /\ result' = error
  /\ UNCHANGED <<resolver, graph, program, entry, cancelled, runs>>

\* The statements ended: the LinkedScript goes with the run.
TakenBack(end) ==
  /\ phase = "running"
  /\ phase' = "idle"
  /\ result' = end
  /\ Drop
  /\ UNCHANGED <<resolver, entry, runs>>

LinkerInit ==
  /\ resolver \in BOOLEAN
  /\ runs \in 0 .. MaxRuns
  /\ phase = "idle"
  /\ program = <<>>
  /\ entry = "link"
  /\ result = "none"
  /\ cancelled = FALSE
  /\ stack = <<>>
  /\ source = NoSource
  /\ resolved = <<>>
  /\ nodes = <<>>
  /\ reads = {}

RunEnd == {"Completed", "RuntimeError"}

LinkerNext ==
  \/ \E text \in Program, from \in {"link", "repl"},
         identity \in {"same", "EngineMismatch", "RevisionMismatch", "BackendMismatch"},
         already \in BOOLEAN : Start(text, from, identity, already)
  \/ \E found \in Text \union {NoSource} : NextImport(found)
  \/ ReadChunk
  \/ \E fault \in AdapterFault : ResolverFails(fault)
  \/ Return
  \/ Finish
  \/ Cancel
  \/ \E error \in {"none", "BudgetExceeded", "ImportError"} : Take(error)
  \/ \E end \in RunEnd : TakenBack(end)

\* A link while the files change in every way.
LinkerSpec == LinkerInit /\ [][LinkerNext]_linkerVars

-----------------------------------------------------------------------------
(* Properties.                                                              *)

RootImports == IF stack = <<>> THEN {} ELSE Range(stack[1].imports)

ImportsOf(m) == Range(nodes[m].imports)

\* No part of the graph imports only itself.
Acyclic ==
  \A S \in SUBSET DOMAIN nodes : S # {} => \E m \in S : ImportsOf(m) \cap S = {}

\* A set that holds the imports of the root and of its members holds them all.
Reached ==
  \A S \in SUBSET DOMAIN nodes :
    RootImports \subseteq S /\ (\A m \in S : ImportsOf(m) \subseteq S) => S = DOMAIN nodes

(* src/embedding.rs:1323: a link that succeeds gives a graph that is whole:  *)
(* the nodes are the modules reachable from the root, each imports what its *)
(* source says, and no module imports itself through others.                *)
GraphIsWhole ==
  phase = "linked" /\ entry = "link" /\ stack # <<>> =>
    /\ stack[1].imports = Ids(program)
    /\ \A m \in DOMAIN nodes : nodes[m].imports = Ids(nodes[m].hash)
    /\ RootImports \subseteq DOMAIN nodes
    /\ \A m \in DOMAIN nodes : ImportsOf(m) \subseteq DOMAIN nodes
    /\ Reached
    /\ Acyclic

(* src/embedding.rs:1446: however the files change while a link reads them, *)
(* one graph never rests on two texts of the same module.                   *)
OneSourcePerModule ==
  phase \in {"linking", "linked"} =>
    \A r \in reads : r[1] \in DOMAIN resolved /\ resolved[r[1]] = r[2]

=============================================================================
