----------------------------- MODULE MCLinking -----------------------------
(* The worlds of the run of Linking.  r is the directory of the mount       *)
(* "default" and, in the worlds with a resolver, of the imports and of the  *)
(* script; s is the directory of a second mount; o lies outside of both.    *)
(* In the worlds without a resolver one builtin call meets every shape of   *)
(* the file system; in the others links and runs meet every shape of the    *)
(* modules, beside one call that changes them.                              *)
EXTENDS Linking

S == <<Statement>>
TreeOf(entries) ==
  LET at == {e \in entries : e[2].kind # "none"}
  IN [p \in {e[1] : e \in at} |-> (CHOOSE e \in at : e[1] = p)[2]]
Absent == [kind |-> "none"]

Outside == {<< <<"o">>, Directory>>, << <<"o", "x">>, FileEntry(S)>>,
            << <<"r">>, Directory>>, << <<"s">>, Directory>>}

Both(operations, policy) ==
  [default |-> [base |-> <<"r">>, operations |-> operations, symlink_policy |-> policy],
   second |-> [base |-> <<"s">>, operations |-> {"Create"}, symlink_policy |-> policy]]

FileTrees ==
  {TreeOf(Outside \union {<< <<"r", "a">>, a>>, << <<"r", "b">>, b>>} \union d) :
     a \in {Absent, FileEntry(S)} \union {Symlink(t) : t \in {<<"r", "b">>, <<"o", "x">>}},
     b \in {Absent, Directory} \union {Symlink(t) : t \in {<<"r", "d">>, <<"o">>, <<"r", "a">>}},
     d \in {{}, {<< <<"r", "d">>, Directory>>},
            {<< <<"r", "d">>, Directory>>, << <<"r", "d", "x">>, FileEntry(S)>>,
             << <<"r", "d", "y">>, Symlink(<<"o">>)>>}}}

FileWorlds ==
  [tree : FileTrees,
   roots : {Both(FsOperation, p) : p \in SymlinkPolicy}
           \union {Both(o, "FollowWithinRoot") :
                     o \in {{"Read", "Write"}, {"Create", "Metadata"}, {"Delete", "List"},
                            {"Delete", "Create"}, {"RecursiveDelete"}}}
           \union {<<>>},
   legacy : {FALSE}, resolver : {FALSE}, sandbox : {{<<>>}}, runs : {MaxRuns}]

\* A root in another one, and the host paths of the same files.
LegacyWorlds ==
  [tree : FileTrees,
   roots : {[outer |-> [base |-> <<"r">>, operations |-> FsOperation, symlink_policy |-> p],
             inner |-> [base |-> <<"r", "d">>, operations |-> {"Read", "List"},
                        symlink_policy |-> p]] : p \in {"DenyAll", "FollowWithinRoot"}},
   legacy : {TRUE}, resolver : {FALSE}, sandbox : {{<<>>}}, runs : {MaxRuns}]

Path(rel) == [mount |-> "default", rel |-> rel]
Paths == {Path(rel) : rel \in {<<>>, <<"a">>, <<"b">>, <<"d">>, <<"b", "x">>, <<"d", "y", "x">>,
                               <<"..", "o">>}}
FileCalls ==
  [name : FilesystemBuiltin \ {"rename"}, path : Paths, to : {Path(<<>>)}, text : {S \o S}]
  \union
  [name : {"rename"}, path : Paths, text : {S},
   to : {Path(<<"a">>), Path(<<"b">>), Path(<<"b", "x">>), Path(<<"d", "z">>),
         [mount |-> "second", rel |-> <<"a">>], [mount |-> "third", rel |-> <<"a">>]}]

Host(path) == Path((IF path.mount = "second" THEN <<"s">> ELSE <<"r">>) \o path.rel)

Texts == {S, <<Import(<<"b">>), Statement>>, <<Import(<<"a">>)>>}
ModuleTrees ==
  {TreeOf(Outside \union
     {<< <<"r", "a">>, a>>, << <<"r", "b">>, b>>, << <<"r", "main">>, main>>,
      << <<"r", "d">>, Directory>>, << <<"r", "d", "c">>, c>>}) :
     a \in {FileEntry(t) : t \in Texts \union {<<SyntaxError>>, <<NotUtf8>>}},
     b \in {FileEntry(t) : t \in {S, <<Import(<<"a">>)>>, <<Import(<<"d", "c">>)>>}},
     c \in {FileEntry(t) : t \in {S, <<Import(<<"b">>)>>}},
     main \in {Absent, FileEntry(S)}}

LinkWorlds ==
  [tree : ModuleTrees, roots : {Both({"Write", "Create", "Delete"}, "DenyAll")},
   legacy : {FALSE}, resolver : {TRUE}, sandbox : {{<<>>}}, runs : {0}]
  \union
  [tree : {TreeOf(Outside \union {<< <<"r", "a">>, FileEntry(S)>>})},
   roots : {<<>>}, legacy : {FALSE}, resolver : BOOLEAN, sandbox : {{<<"o">>}}, runs : {0}]

LinkCalls ==
  [name : {"write_file"}, path : {Path(<<"a">>)}, to : {Path(<<>>)},
   text : {S, <<Import(<<"b">>)>>}]
  \union [name : {"remove"}, path : {Path(<<"a">>)}, to : {Path(<<>>)}, text : {S}]
  \union [name : {"rename"}, path : {Path(<<"a">>)}, to : {Path(<<"b">>)}, text : {S}]

Programs ==
  {S, <<Import(<<"a">>)>>, <<Import(<<"a">>), Import(<<"b">>)>>, <<Import(<<"b">>), Import(<<"a">>)>>,
   <<Import(<<"d", "c">>), Statement>>, <<Import(<<"main">>), Import(<<"a">>)>>,
   <<Import(<<"..", "o", "x">>)>>, <<ImportFrom("default", <<"a">>)>>,
   <<ImportFrom("third", <<"a">>)>>}

ModuleTexts ==
  Texts \union {<<SyntaxError>>, <<NotUtf8>>, <<Import(<<"d", "c">>)>>, <<Import(<<"b">>)>>}
ModuleSpecifiers == UNION {Range(Imports(text)) : text \in Programs \union ModuleTexts}

TheScript == <<"r", "main">>
TheRoot == <<"r">>

Worlds == FileWorlds \union LegacyWorlds \union LinkWorlds
LegacyCalls ==
  {[c EXCEPT !.path = Host(@), !.to = Host(@)] :
     c \in {d \in FileCalls : d.to.mount # "third" /\ d.path.rel # <<"..", "o">>}}
  \union [name : {"read_file", "remove_tree", "mkdir"}, to : {Path(<<>>)}, text : {S},
          path : {Path(<<>>), Path(<<"o", "x">>), Path(<<"r", "b", "..", "a">>),
                  Path(<<"r", "b", "..", "..", "o", "x">>), Path(<<"..", "r", ".", "d", "x">>)}]

Others ==
  [r \in BOOLEAN \X BOOLEAN |->
     CASE r[1] -> LinkCalls [] r[2] -> LegacyCalls [] OTHER -> FileCalls]

=============================================================================
