------------------------------ MODULE Linking ------------------------------
(* src/module.rs, src/sandbox.rs, src/embedding.rs: the modules of a script *)
(* are found twice.  Engine::link reads them through the resolver the host  *)
(* granted and builds the import graph (Linker); the run that follows does  *)
(* not look at the graph: the ModuleLoader of the context reads the files   *)
(* again, relative to the importing file, and puts their statements in the  *)
(* place of the imports.  Meanwhile the builtins of other executions        *)
(* (Files) change the same files.                                           *)
(*                                                                          *)
(* A line of a text is an import or a statement.                            *)
EXTENDS Files, Linker

CONSTANTS
  World,           \* the file systems and capabilities a behaviour starts with
  Script,          \* path of the root script
  ImportRoot,      \* the directory of the resolver's mount "default"
  OtherCalls       \* bound: the builtin calls of the other executions, by
                   \* <<resolver, legacy>>

Line ==
  [kind : {"import"}, mount : STRING, rel : HostPath, qualified : BOOLEAN]
  \union [kind : {"statement", "syntax", "bytes"}]

\* The texts of all files are among T.
Holds(t, T) == \A p \in DOMAIN t : t[p].kind = "file" => t[p].text \in T

\* A builtin call that writes texts among T where it finds such.
Leaves(c, T) ==
  /\ c.name = "write_file" => c.text \in T
  /\ c.name = "append_file" => \A t \in T \union {<<>>} : t \o c.text \in T

\* The script and the roots are paths the host has prepared: directories, and
\* no way through a symlink (capability.rs:1947).
ASSUME LinkingAssumption ==
  /\ MaxImportDepth \in Nat \ {0}
  /\ Program \subseteq Seq(Line)
  /\ \A w \in World :
       /\ IsTree(w.tree) /\ IsPlain(w.tree, Script)
       /\ \A m \in DOMAIN w.roots : IsPlain(w.tree, w.roots[m].base)
       /\ Holds(w.tree, Seq(Line)) /\ (w.resolver => Holds(w.tree, Text))
       /\ w.legacy \in BOOLEAN
  /\ \A r, l \in BOOLEAN : \A c \in OtherCalls[<<r, l>>] :
       /\ c.name \in FilesystemBuiltin
       /\ c.path.rel \in HostPath /\ c.to.rel \in HostPath
       /\ c.text \in Seq(Line) /\ (r => Leaves(c, Text))

VARIABLES
  sandbox,     \* TSUMUGI_SANDBOX: the directories imports may lie in
  fresh,       \* history: no file has changed since this link began
  loaded,      \* ModuleLoader.loaded
  newly,       \* what the current run loaded
  finished     \* history: modules whose statements a run ran to the end

loader == <<loaded, newly, finished>>
vars == <<files, sandbox, fresh, loader, linkerVars>>

Import(rel) == [kind |-> "import", mount |-> "default", rel |-> rel, qualified |-> FALSE]
ImportFrom(mount, rel) == [kind |-> "import", mount |-> mount, rel |-> rel, qualified |-> TRUE]
Statement == [kind |-> "statement"]
SyntaxError == [kind |-> "syntax"]
NotUtf8 == [kind |-> "bytes"]

Has(text, kind) == \E i \in DOMAIN text : text[i].kind = kind
Imports(text) == SelectSeq(text, LAMBDA line : line.kind = "import")

\* What the parser makes of a text and of a specifier, for the linker.
IsProgram(text) == ~Has(text, "bytes") /\ ~Has(text, "syntax")
WellFormed(spec) == ~Malformed(spec)

\* The directory handle of an import root, always DenyAll.
ResolverRoot == [base |-> ImportRoot, operations |-> {"Read"}, symlink_policy |-> "DenyAll"]

\* FilesystemModuleResolver::resolve
Found(rel) ==
  LET read == ReadAt(ResolverRoot, rel)
  IN IF read.ok THEN tree[CHOOSE p \in read.touched : TRUE].text ELSE NoSource

\* One step of the link, which finds what the files hold now.
LinkStep ==
  /\ NextImport(Found(Head(Top.todo).rel)) \/ ReadChunk \/ Return \/ Finish
  /\ UNCHANGED <<files, sandbox, fresh, loader>>

\* The calls of the host, its cancel and its resolver's faults.
HostStep ==
  /\ \/ \E text \in Program, from \in {"link", "repl"},
            identity \in {"same", "EngineMismatch", "RevisionMismatch", "BackendMismatch"},
            already \in BOOLEAN : Start(text, from, identity, already) /\ fresh' = TRUE
     \/ \E fault \in AdapterFault : ResolverFails(fault) /\ UNCHANGED fresh
     \/ Cancel /\ UNCHANGED fresh
  /\ UNCHANGED <<files, sandbox, loader>>

-----------------------------------------------------------------------------
(* The run: ModuleLoader::link.                                             *)

ScriptDir == Front(Script)

\* The specifier as it is written, a path relative to the importing file.
Written(spec) ==
  IF spec.qualified THEN <<"@", spec.mount>> \o spec.rel ELSE spec.rel

\* sandbox::check_path of a canonical path
Allowed(path) == \E dir \in sandbox : IsPrefix(dir, path)

\* Variant: the script counts as a level of imports.
TooDeepEarly(depth) == depth + 1 >= MaxImportDepth
\* Whether a module at this depth may still import.
TooDeep(depth) == depth >= MaxImportDepth

\* What link_into has done so far.
Progress ==
  [ok : BOOLEAN, loaded : SUBSET (loaded \union DOMAIN tree), newly : Seq(DOMAIN tree)]

\* link_into, one statement of a text in directory dir: an import is resolved,
\* and `modules` links what it imports.
LinkLine(line, dir, depth, st, modules) ==
  LET path == Canonical(dir \o Written(line))
      failed == [st EXCEPT !.ok = FALSE]
      entered == [st EXCEPT !.loaded = @ \union {path}, !.newly = Append(@, path)]
      text == tree[path].text
  IN IF ~st.ok \/ line.kind # "import" THEN st
     ELSE IF path = NoPath \/ ~Allowed(path) THEN failed
     ELSE IF path \in st.loaded THEN st
     ELSE IF TooDeep(depth) \/ Kind(path) # "file" \/ Has(text, "bytes") THEN failed
     ELSE IF Has(text, "syntax") THEN [entered EXCEPT !.ok = FALSE]
     ELSE modules[path][entered]

LinkLines(text, dir, depth, st, modules) ==
  LET upTo[n \in 0 .. Len(text)] ==
        IF n = 0 THEN st ELSE LinkLine(text[n], dir, depth, upTo[n - 1], modules)
  IN upTo[Len(text)]

\* link_into of a module, in which imports may be nested `left` deep.
LinkInto[left \in 0 .. MaxImportDepth] ==
  [path \in DOMAIN tree |-> [st \in Progress |->
     LinkLines(tree[path].text, Front(path), MaxImportDepth - left, st,
               IF left = 0 THEN <<>> ELSE LinkInto[left - 1])]]

Linked ==
  LinkLines(program, ScriptDir, 0, [ok |-> TRUE, loaded |-> loaded, newly |-> <<>>],
            LinkInto[MaxImportDepth - 1])

\* Variant: forget leaves the modules resolved.
ForgetNone(modules, from) == from
Forget(modules, from) == from \ modules

\* Every import is resolved before the first statement runs; charge is whether
\* the budget takes the modules.
Load(charge) ==
  /\ phase = "linked"
  /\ IF Linked.ok /\ charge
     THEN /\ Take("none")
          /\ loaded' = Linked.loaded
          /\ newly' = Linked.newly
     ELSE /\ Take(IF Linked.ok THEN "BudgetExceeded" ELSE "ImportError")
          /\ loaded' = Forget(Range(Linked.newly), Linked.loaded)
          /\ newly' = <<>>
  /\ UNCHANGED <<files, sandbox, finished, fresh>>

\* The statements, those of the modules among them, ended without an error or
\* did not; exit() is no error, even before an imported statement has run.
RunEnds(end) ==
  /\ TakenBack(end)
  /\ newly' = <<>>
  /\ IF end = "Completed"
     THEN finished' = finished \union Range(newly) /\ UNCHANGED loaded
     ELSE loaded' = Forget(Range(newly), loaded) /\ UNCHANGED finished
  /\ UNCHANGED <<files, sandbox, fresh>>

-----------------------------------------------------------------------------
\* set_base_dir: the script itself counts as loaded.
Init ==
  /\ \E w \in World :
       /\ tree = w.tree
       /\ roots = w.roots
       /\ legacy = w.legacy
       /\ resolver = w.resolver
       /\ sandbox = w.sandbox
       /\ runs = w.runs
  /\ call = NoCall
  /\ calls = 0
  /\ LinkerInit
  /\ fresh = TRUE
  /\ loaded = {Canonical(Script)} \ {NoPath}
  /\ newly = <<>>
  /\ finished = {}

\* A builtin of another execution.
OtherExecution(name, path, to, text) ==
  /\ Call(name, path, to, text)
  /\ fresh' = (fresh /\ tree' = tree)
  /\ UNCHANGED <<sandbox, loader, linkerVars>>

Next ==
  \/ LinkStep
  \/ HostStep
  \/ \E charge \in BOOLEAN : Load(charge)
  \/ \E end \in RunEnd : RunEnds(end)
  \/ \E c \in OtherCalls[<<resolver, legacy>>] : OtherExecution(c.name, c.path, c.to, c.text)

\* ENABLED of a LinkStep that changes something: only a chunk may bring nothing.
CanLink ==
  /\ phase = "linking"
  /\ source # NoSource /\ ~cancelled /\ source.offset < Len(source.text) =>
       ChunkEnd(source.offset) # source.offset

\* Engine::link is one call of the host's thread.  Weak fairness of LinkStep,
\* written out: TLC is slow to evaluate ENABLED of a lookup.
Fairness == []<>~CanLink \/ []<><<LinkStep>>_<<phase, stack, source>>

Spec == Init /\ [][Next]_vars /\ Fairness

-----------------------------------------------------------------------------
(* Properties.                                                              *)

\* The modules one import away, in the graph and in the sources.
Successors(ids) == UNION {Range(nodes[m].imports) : m \in ids \cap DOMAIN nodes}

\* What is reached from ids in as many rounds as there are modules.
Further(ids, but) == (ids \union Successors(ids)) \ but
Reachable(ids, but) ==
  LET reach[n \in 0 .. Cardinality(DOMAIN nodes)] ==
        IF n = 0 THEN ids ELSE Further(reach[n - 1], but)
  IN reach[Cardinality(DOMAIN nodes)]

(* src/module.rs:124, src/eval.rs:1226: a module counts as loaded exactly   *)
(* when it belongs to an earlier run that ended without an error or to the  *)
(* current one, so that a failed import can be tried again and no module    *)
(* runs twice.                                                              *)
LoadedIsTrue ==
  /\ loaded = ({Script} \cap loaded) \union finished \union Range(newly)
  /\ finished \cap Range(newly) = {}
  /\ Cardinality(Range(newly)) = Len(newly)

\* Every module lies in the directory of the script, the default mount is that
\* directory, and the specifiers name no mount.
Flat ==
  LET texts == {program} \union {nodes[m].hash : m \in DOMAIN nodes}
  IN /\ ScriptDir = ImportRoot
     /\ IsPlain(tree, ImportRoot)
     /\ \A t \in texts : \A spec \in Range(Imports(t)) :
          Len(spec.rel) = 1 /\ ~spec.qualified

PathOf(id) == ImportRoot \o Tail(id)

(* src/module.rs:143, src/embedding.rs:1153: the run reads the modules a     *)
(* second time.  Where the files have not changed, the modules are flat and *)
(* the sandbox admits them, it loads what the graph holds and was not       *)
(* loaded before.  It does not fail on what the link accepted, unless a     *)
(* module loaded before has come to import one that is not: the loader does *)
(* not follow it, and may meet its imports deeper than the link did.        *)
LoaderFollowsLinker ==
  LET known == {m \in DOMAIN nodes : PathOf(m) \in loaded \ Range(newly)}
  IN entry = "link" /\ stack # <<>> /\ fresh /\ Flat /\ Allowed(ImportRoot) =>
       /\ phase = "running" =>
            {PathOf(m) : m \in Reachable(RootImports \ known, known)} = Range(newly)
       /\ (\A m \in known : ImportsOf(m) \subseteq known) => result # "ImportError"

(* src/embedding.rs:1561: a link ends, whatever the modules import and       *)
(* however their files change.                                              *)
LinkReturns == phase = "linking" ~> phase # "linking"

=============================================================================
