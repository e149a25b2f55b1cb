------------------------------- MODULE Files -------------------------------
(* src/capability.rs, src/builtin_core.rs: the files a script reaches       *)
(* through the capability of its execution.  The host binds a directory to  *)
(* each mount and grants operations on it; a builtin parses the path of the *)
(* script, looks the mount and the operation up, and only then asks the     *)
(* directory handle, which resolves the path component by component under   *)
(* the symlink policy of the mount.                                         *)
(*                                                                          *)
(* A path is a sequence of names.  The text of a file is a sequence of      *)
(* lines.  The file system is sequential: nothing changes between the check *)
(* of a component and its use (capability.rs:1706 leaves that race out).    *)
EXTENDS Naturals, FiniteSets, SequencesExt

CONSTANTS
  MaxLinks,   \* symlinks the operating system follows in one lookup
  NoPath,     \* a lookup that fails
  MaxCalls    \* bound: builtin calls of a behaviour

\* Names as the host writes them, and those of entries.
HostPath  == Seq(STRING)
EntryName == STRING \ {".."}

ASSUME FilesAssumption == MaxLinks \in Nat /\ NoPath \notin HostPath

VARIABLES
  tree,       \* the file system: path -> entry
  roots,      \* FilesystemCapability: mount -> [base, operations, symlink_policy]
  legacy,     \* whether it holds a legacy translator of host paths
  call,       \* what the last builtin call did
  calls

files == <<tree, roots, legacy, call, calls>>

FsOperation ==
  {"Read", "Write", "Create", "Delete", "Metadata", "List", "RecursiveDelete"}

SymlinkPolicy == {"DenyAll", "FollowWithinRoot", "OperateOnFinalEntry"}

FileEntry(text) == [kind |-> "file", text |-> text]
Directory == [kind |-> "dir"]
Symlink(target) == [kind |-> "symlink", target |-> target]

-----------------------------------------------------------------------------
(* The operating system.                                                    *)

KindIn(t, path) ==
  CASE path = <<>> -> "dir"
    [] path \in DOMAIN t -> t[path].kind
    [] OTHER -> "none"

Kind(path) == KindIn(tree, path)

\* Every entry lies in a directory.
IsTree(t) ==
  /\ DOMAIN t \subseteq Seq(EntryName) \ {<<>>}
  /\ IsFiniteSet(DOMAIN t)
  /\ \A p \in DOMAIN t :
       t[p].kind \in {"file", "dir", "symlink"} /\ KindIn(t, Front(p)) = "dir"

\* No symlink is on the way to path, which need not exist.
IsPlain(t, path) ==
  /\ path \in Seq(EntryName)
  /\ KindIn(t, path) # "symlink"
  /\ path # <<>> => KindIn(t, Front(path)) = "dir"

Parent(path) == IF path = <<>> THEN <<>> ELSE Front(path)

\* The entry `name` of the directory `up`.
Beneath(up, name) ==
  IF Kind(up) # "dir" THEN NoPath
  ELSE IF name = ".." THEN Parent(up) ELSE Append(up, name)

\* What is at `here`, where `follow` leads if that is a symlink.
Through(here, links, follow) ==
  IF Kind(here) # "symlink" THEN here
  ELSE IF links = 0 THEN NoPath ELSE follow[tree[here].target]

\* Where an open of path arrives: the entry, present or not, at the end of
\* every symlink on the way.
Walk(path, links, follow) ==
  LET at[n \in 0 .. Len(path)] ==
        IF n = 0 THEN <<>> ELSE Through(Beneath(at[n - 1], path[n]), links, follow)
  IN at[Len(path)]

\* The same for the target of a symlink, after which `links` may follow.
Follow[links \in 0 .. MaxLinks] ==
  [path \in HostPath |-> Walk(path, links, Follow[links - 1])]

Opened(path) == Walk(path, MaxLinks, Follow[MaxLinks - 1])

\* std::fs::canonicalize
Real(entry) == IF Kind(entry) = "none" THEN NoPath ELSE entry
Canonical(path) == Real(Opened(path))

\* The entry an lstat, unlink, mkdir or rename of path acts on.
EntryAt(path) ==
  IF path = <<>> THEN <<>> ELSE Beneath(Canonical(Front(path)), Last(path))
Named(path) == IF path = NoPath THEN NoPath ELSE EntryAt(path)
Lstat(path) == Kind(EntryAt(path))

At(path) == {p \in DOMAIN tree : IsPrefix(path, p)}
Children(path) == {p \in At(path) : Len(p) = Len(path) + 1}

Without(gone) == [p \in DOMAIN tree \ gone |-> tree[p]]
With(path, entry) ==
  [p \in DOMAIN tree \union {path} |-> IF p = path THEN entry ELSE tree[p]]
\* Where an entry beneath `from` is when that has become `to`.
Rebased(path, from, to) == to \o SubSeq(path, Len(from) + 1, Len(path))
\* rename(2) of the entry `from` to the entry `to`
Moved(from, to) ==
  LET rest == DOMAIN tree \ (At(from) \union At(to))
  IN [p \in rest \union {Rebased(q, from, to) : q \in At(from)} |->
        IF p \in rest THEN tree[p]
        ELSE tree[CHOOSE q \in At(from) : Rebased(q, from, to) = p]]

-----------------------------------------------------------------------------
(* The directory handle.  An operation that succeeds gives the file system  *)
(* it leaves and the entries it read or changed.                            *)

Done(after, touched) == [ok |-> TRUE, tree |-> after, touched |-> touched]
HostError == [ok |-> FALSE, tree |-> tree, touched |-> {}]

WithinBase(root, path) ==
  path # NoPath /\ IsPrefix(Canonical(root.base), path)

\* Variant: the target of a symlink is not compared with the base.
FollowedAnywhere(root, real) ==
  IF root.symlink_policy # "DenyAll" /\ Kind(real) = "dir" THEN real ELSE NoPath

\* A symlink on the way that leads to real.
Followed(root, real) ==
  IF /\ root.symlink_policy # "DenyAll"
     /\ WithinBase(root, real)
     /\ Kind(real) = "dir"
  THEN real ELSE NoPath

\* One component on the way.
Enter(root, at, name) ==
  LET next == Append(at, name)
  IN IF at = NoPath THEN NoPath
     ELSE CASE Lstat(next) = "dir" -> next
            [] Lstat(next) = "symlink" -> Followed(root, Canonical(next))
            [] OTHER -> NoPath

\* The last component is not looked at.
Resolve(root, rel) ==
  LET way[n \in 0 .. Len(rel) - 1] ==
        IF n = 0 THEN root.base ELSE Enter(root, way[n - 1], rel[n])
      up == way[Len(rel) - 1]
  IN IF rel = <<>> THEN root.base
     ELSE IF up = NoPath THEN NoPath ELSE Append(up, Last(rel))

\* open_file: the file behind path, which is not a symlink itself
Openable(path) ==
  IF path = NoPath \/ Lstat(path) = "symlink" THEN NoPath ELSE Opened(path)

\* open_file and read_to_end
ReadFrom(file) == IF Kind(file) = "file" THEN Done(tree, {file}) ELSE HostError
ReadAt(root, rel) == ReadFrom(Openable(Resolve(root, rel)))

\* open_file for Upsert and write_all
WriteTo(file, mode, text) ==
  LET old == IF mode = "Append" /\ Kind(file) = "file" THEN tree[file].text ELSE <<>>
  IN IF file # NoPath /\ Kind(file) \in {"file", "none"}
     THEN Done(With(file, FileEntry(old \o text)), {file})
     ELSE HostError
WriteAt(root, rel, mode, text) == WriteTo(Openable(Resolve(root, rel)), mode, text)

\* Every caller asks for the metadata behind a final symlink.
MetadataOf(root, path, kind, real) ==
  IF \/ path = NoPath \/ kind = "none"
     \/ kind = "symlink" /\ ~WithinBase(root, real)
  THEN HostError ELSE Done(tree, {real})
MetadataAt(root, rel) ==
  LET path == Resolve(root, rel)
  IN MetadataOf(root, path, Lstat(path), Canonical(path))

ListOf(entry) ==
  IF Kind(entry) = "dir" THEN Done(tree, {entry} \union Children(entry)) ELSE HostError
ListAt(root, rel) == ListOf(Named(Resolve(root, rel)))

CreateDirOf(entry) ==
  IF entry # NoPath /\ Kind(entry) = "none" THEN Done(With(entry, Directory), {entry})
  ELSE HostError
CreateDirAt(root, rel) == CreateDirOf(Named(Resolve(root, rel)))

\* The kind of the entry decides which removal the operating system accepts.
RemovalOf(entry, kind) ==
  LET accepted ==
        CASE kind = "FileOrSymlink" -> Kind(entry) \in {"file", "symlink"}
          [] kind = "EmptyDirectory" -> Kind(entry) = "dir" /\ Children(entry) = {}
          [] kind = "Tree" -> Kind(entry) \in {"dir", "symlink"}
  IN IF entry # NoPath /\ accepted THEN Done(Without(At(entry)), At(entry)) ELSE HostError
RemovalAt(root, rel, kind) == RemovalOf(Named(Resolve(root, rel)), kind)

\* What rename(2) refuses.
Blocked(src, dst) ==
  \/ IsPrefix(src, dst)
  \/ Kind(src) = "file" /\ Kind(dst) = "dir"
  \/ Kind(src) = "dir" /\ (Kind(dst) = "file" \/ Children(dst) # {})

RenameOf(src, dst) ==
  IF \/ src = NoPath \/ dst = NoPath
     \/ Kind(src) \notin {"file", "dir"} \/ Kind(dst) = "symlink"
  THEN HostError
  ELSE IF src = dst THEN Done(tree, {src})
  ELSE IF Blocked(src, dst) THEN HostError
  ELSE Done(Moved(src, dst), At(src) \union {dst})
\* Roots of different policy IDs are different handles: unsupported.
RenameAt(root, from, other, to) ==
  IF other # root THEN HostError
  ELSE RenameOf(Named(Resolve(root, from)), Named(Resolve(root, to)))

-----------------------------------------------------------------------------
(* The builtins.  A path of the script is its mount and its components; an  *)
(* unqualified path is parsed to the mount "default".  A legacy capability    *)
(* takes host paths: rel is then the path from the root of the host.        *)

OperationOf ==
  [read_file |-> "Read", read_lines |-> "Read", mkdir |-> "Create",
   remove |-> "Delete", remove_dir |-> "Delete", remove_tree |-> "RecursiveDelete",
   list_dir |-> "List", file_size |-> "Metadata", is_file |-> "Metadata",
   is_dir |-> "Metadata", path_exists |-> "Metadata"]

\* is_filesystem_builtin
FilesystemBuiltin ==
  DOMAIN OperationOf \union {"write_file", "append_file", "rename"}

\* FilesystemTarget::parse
Malformed(path) == \E i \in DOMAIN path.rel : path.rel[i] \in {"", ".", ".."}

\* absolutize_lexical: `..` takes the last name away, symlink or not.
Component(up, name) ==
  CASE name = "." -> up
    [] name = ".." -> Parent(up)
    [] OTHER -> Append(up, name)
Lexical(path) ==
  LET at[n \in 0 .. Len(path)] == IF n = 0 THEN <<>> ELSE Component(at[n - 1], path[n])
  IN at[Len(path)]

\* LegacyFsTranslator::translate: the longest root the host path lies in
Translated(path) ==
  LET abs == Lexical(path.rel)
      fits == {m \in DOMAIN roots : IsPrefix(roots[m].base, abs)}
  IN IF fits = {} THEN [mount |-> "none", rel |-> <<>>]
     ELSE LET m == CHOOSE m \in fits :
                     \A n \in fits : Len(roots[n].base) <= Len(roots[m].base)
          IN [mount |-> m, rel |-> SubSeq(abs, Len(roots[m].base) + 1, Len(abs))]

\* fs_route, up to the look-up of the mount
Routed(path) == IF legacy THEN Translated(path) ELSE path

Verdict(path, operation) ==
  IF roots # <<>> /\ ~legacy /\ Malformed(path) THEN "argument"
  ELSE IF path.mount \in DOMAIN roots /\ operation \in roots[path.mount].operations
  THEN "allow" ELSE "sandbox"

\* Variant: a write does not ask whether it may create the file.
WriteVerdicts(name, path, to) ==
  CASE name = "rename" -> <<Verdict(path, "Delete"), Verdict(to, "Create")>>
    [] name \in {"write_file", "append_file"} -> <<Verdict(path, "Write")>>
    [] OTHER -> <<Verdict(path, OperationOf[name])>>

\* What a builtin asks for before the handle is called, in order.
Verdicts(name, path, to) ==
  CASE name = "rename" -> <<Verdict(path, "Delete"), Verdict(to, "Create")>>
    [] name \in {"write_file", "append_file"} ->
         <<Verdict(path, "Write"), Verdict(path, "Create")>>
    [] OTHER -> <<Verdict(path, OperationOf[name])>>

\* The call of the handle.  is_file, is_dir and path_exists answer false when
\* it fails.
Handled(name, path, to, text) ==
  LET root == roots[path.mount]
      rel == path.rel
      found == MetadataAt(root, rel)
  IN CASE name \in {"read_file", "read_lines"} -> ReadAt(root, rel)
       [] name = "write_file" -> WriteAt(root, rel, "Truncate", text)
       [] name = "append_file" -> WriteAt(root, rel, "Append", text)
       [] name = "mkdir" -> CreateDirAt(root, rel)
       [] name = "remove" -> RemovalAt(root, rel, "FileOrSymlink")
       [] name = "remove_dir" -> RemovalAt(root, rel, "EmptyDirectory")
       [] name = "remove_tree" -> RemovalAt(root, rel, "Tree")
       [] name = "rename" -> RenameAt(root, rel, roots[to.mount], to.rel)
       [] name = "list_dir" -> ListAt(root, rel)
       [] name = "file_size" -> found
       [] OTHER -> IF found.ok THEN found ELSE Done(tree, {})

NoCall == [name |-> "none", mount |-> "none", outcome |-> "ok", touched |-> {}]

Answered(name, path, to, text, refused) ==
  IF refused = {} THEN Handled(name, path, to, text) ELSE HostError

\* dispatch_fs: a call of one builtin
Call(name, from, dest, text) ==
  LET path == Routed(from)
      to == Routed(dest)
      verdicts == Verdicts(name, path, to)
      refused == {i \in DOMAIN verdicts : verdicts[i] # "allow"}
  IN /\ calls < MaxCalls
     /\ calls' = calls + 1
     /\ \E done \in {Answered(name, path, to, text, refused)} :
          /\ tree' = done.tree
          /\ call' = [name |-> name, mount |-> path.mount, touched |-> done.touched,
                      outcome |-> CASE refused # {} -> verdicts[Min(refused)]
                                    [] done.ok -> "ok"
                                    [] OTHER -> "host"]
     /\ UNCHANGED <<roots, legacy>>

-----------------------------------------------------------------------------
(* Properties.                                                              *)

Changed ==
  {p \in DOMAIN tree \union DOMAIN tree' :
     \/ p \notin DOMAIN tree
     \/ p \notin DOMAIN tree'
     \/ tree[p] # tree'[p]}

\* No symlink has come to stand on the way to the base of the mount, as one
\* may when a mount that holds this base grants its removal.
BaseStands ==
  call'.mount \in DOMAIN roots => IsPlain(tree, roots[call'.mount].base)

(* src/capability.rs:1736: whatever symlinks the file system holds and       *)
(* whatever path a script passes, a builtin reads and changes nothing but   *)
(* what lies below the directory the host bound to the mount.               *)
StayedInside ==
  \A p \in Changed \union call'.touched :
    call'.mount \in DOMAIN roots /\ IsPrefix(roots[call'.mount].base, p)
ScriptsStayInside == [][BaseStands => StayedInside]_files

(* src/builtin_core.rs:1940, 1997: every change is one the host granted the *)
(* operation for.  A rename puts one file in the place of another without   *)
(* Write, with Delete and Create; more than one entry is lost only with     *)
(* RecursiveDelete.                                                         *)
ChangeGranted ==
  LET granted == IF call'.mount \in DOMAIN roots THEN roots[call'.mount].operations ELSE {}
      appeared == DOMAIN tree' \ DOMAIN tree
      gone == DOMAIN tree \ DOMAIN tree'
  IN /\ appeared # {} => "Create" \in granted
     /\ gone # {} => granted \cap {"Delete", "RecursiveDelete"} # {}
     /\ Cardinality(gone) > Cardinality(appeared) + 1 => "RecursiveDelete" \in granted
     /\ Changed \ (appeared \union gone) # {} =>
          "Write" \in granted \/ {"Delete", "Create"} \subseteq granted
ChangesAreGranted == [][ChangeGranted]_files

=============================================================================
