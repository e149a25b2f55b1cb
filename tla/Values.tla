------------------------------- MODULE Values -------------------------------
(***************************************************************************)
(* The values both evaluators compute with, and the operations of          *)
(* src/src/builtin_core.rs and value.rs that they share.  A string is a    *)
(* sequence of characters (one model character may stand for a word), a    *)
(* dictionary a function on strings.  An operation returns Ok(v) or Err(e) *)
(* with the constructor of TsumugiError as e.  Heap accounting is the      *)
(* subject of Heap.tla; floats are left out.                               *)
(***************************************************************************)
EXTENDS Ast, TLC

IntV(n)    == [t |-> "int", n |-> n]
BoolV(b)   == [t |-> "bool", b |-> b]
NullV      == [t |-> "null"]
StrV(s)    == [t |-> "str", s |-> s]
ListV(s)   == [t |-> "list", items |-> s]
DictV(m)   == [t |-> "dict", map |-> m]
ErrorV(e)  == [t |-> "error", e |-> e]

Ok(v)  == [ok |-> TRUE, v |-> v]
Err(e) == [ok |-> FALSE, e |-> e]

(* Integers are 64 bits wide in the code; the model keeps IntBits of them.  *)
IntBits == 5
MaxInt  == 2^(IntBits - 1) - 1
MinInt  == -(2^(IntBits - 1))
Checked(n) == IF n \in MinInt..MaxInt THEN Ok(IntV(n)) ELSE Err("int_overflow")

(* ErrorKind::is_uncatchable *)
Uncatchable == {"step_limit", "collection_limit", "process_exit", "internal_control"}

(* The builtins of builtin_registry.rs that the models know; print is       *)
(* handled before the registry is asked.                                    *)
PureBuiltins    == {"len", "range", "keys"}
ContextBuiltins == {"push", "pop", "map", "filter", "each", "exit"}
Builtins        == PureBuiltins \union ContextBuiltins

(* CollectionLimit: the number of elements a collection may have. *)
MaxCollection == 4
CheckCollection(size) == size <= MaxCollection

IsTruthy(v) ==
    CASE v.t = "bool" -> v.b
      [] v.t = "null" -> FALSE
      [] v.t = "int"  -> v.n # 0
      [] v.t = "str"  -> v.s # <<>>
      [] v.t = "list" -> v.items # <<>>
      [] v.t = "dict" -> DOMAIN v.map # {}
      [] OTHER        -> TRUE

(* The keys of a dictionary come in the order of the B-tree; Alphabet fixes *)
(* that order on the keys the models use.                                   *)
Alphabet == << <<"a">>, <<"b">>, <<"c">> >>
SortedKeys(map) == SelectSeq(Alphabet, LAMBDA key : key \in DOMAIN map)
Insert(map, key, v) == (key :> v) @@ map

(* values_equal: the pairs still to compare, the last one first; a pair of  *)
(* lists or of dictionaries costs one unit of fuel, and the first pair that *)
(* differs ends it.  Functions are compared by their identity.  Values of   *)
(* the models have no address, so that no pair is known to be one value, or *)
(* to have been compared before.                                            *)
RECURSIVE ComparePairs(_, _)
ComparePairs(work, nodes) ==
    LET a    == Last(work)[1]
        b    == Last(work)[2]
        keys == SortedKeys(a.map)
        on(pairs) == ComparePairs(Front(work) \o pairs, nodes + 1)
        off(n)    == [equal |-> FALSE, nodes |-> n]
    IN  CASE work = <<>>   -> [equal |-> TRUE, nodes |-> nodes]
          [] work # <<>> /\ a.t = "list" /\ b.t = "list" ->
               IF Len(a.items) # Len(b.items) THEN off(nodes + 1)
               ELSE on([i \in DOMAIN a.items |-> <<a.items[i], b.items[i]>>])
          [] work # <<>> /\ a.t = "dict" /\ b.t = "dict" ->
               IF DOMAIN a.map # DOMAIN b.map THEN off(nodes + 1)
               ELSE on([i \in DOMAIN keys |-> <<a.map[keys[i]], b.map[keys[i]]>>])
          [] OTHER ->
               IF a.t = b.t /\ (IF a.t = "fn" THEN a.id = b.id ELSE a = b)
               THEN ComparePairs(Front(work), nodes) ELSE off(nodes)
Compare(a, b) == ComparePairs(<< <<a, b>> >>, 0)

(* render_display: every list and dictionary of a value costs one unit of   *)
(* fuel, as often as it occurs.                                             *)
RECURSIVE CompositeNodes(_)
CompositeNodes(v) ==
    LET all(parts) == FoldLeft(LAMBDA n, p : n + CompositeNodes(p), 1, parts)
        keys       == SortedKeys(v.map)
    IN  CASE v.t = "list" -> all(v.items)
          [] v.t = "dict" -> all([i \in DOMAIN keys |-> v.map[keys[i]]])
          [] OTHER        -> 0

(* Display, as the text that an f-string or print puts together. *)
Text(v) ==
    CASE v.t = "int"  -> <<ToString(v.n)>>
      [] v.t = "bool" -> <<IF v.b THEN "true" ELSE "false">>
      [] v.t = "str"  -> v.s
      [] v.t = "fn"   -> <<"fn", v.name>>
      [] v.t = "error" -> <<"error", v.e>>
      [] OTHER        -> <<v.t>>

(* What an observer sees of a value: a function is its name. *)
RECURSIVE Shown(_)
Shown(v) ==
    CASE v.t = "fn"   -> <<"fn", v.name>>
      [] v.t = "list" -> [i \in DOMAIN v.items |-> Shown(v.items[i])]
      [] v.t = "dict" -> [key \in DOMAIN v.map |-> Shown(v.map[key])]
      [] OTHER        -> v

-----------------------------------------------------------------------------
BuiltinLen(v) ==
    CASE v.t = "list" -> Ok(IntV(Len(v.items)))
      [] v.t = "str"  -> Ok(IntV(Len(v.s)))
      [] v.t = "dict" -> Ok(IntV(Len(SortedKeys(v.map))))
      [] OTHER        -> Err("builtin_arg_type")

BuiltinKeys(v) ==
    CASE v.t # "dict" -> Err("builtin_arg_type")
      [] v.t = "dict" /\ ~CheckCollection(Len(SortedKeys(v.map))) -> Err("collection_limit")
      [] OTHER -> LET ks == SortedKeys(v.map)
                  IN  Ok(ListV([i \in DOMAIN ks |-> StrV(ks[i])]))

BuiltinRange(a, b) ==
    CASE a.t # "int" \/ b.t # "int" -> Err("builtin_arg_type")
      [] a.t = "int" /\ b.t = "int" /\ b.n - a.n > MaxInt -> Err("int_overflow")
      [] a.t = "int" /\ b.t = "int" /\ b.n - a.n \in (MaxCollection + 1)..MaxInt ->
            Err("collection_limit")
      [] OTHER -> LET size == IF b.n > a.n THEN b.n - a.n ELSE 0
                  IN  Ok(ListV([i \in 1..size |-> IntV(a.n + i - 1)]))

BuiltinPop(v) ==
    CASE v.t # "list" -> Err("builtin_arg_type")
      [] v.t = "list" /\ v.items = <<>> -> Err("pop_empty_list")
      [] OTHER -> Ok(Last(v.items))

(* The pure builtins the models know, by builtin_core::dispatch; arity      *)
(* first, then types.                                                       *)
Arity == [len |-> 1, keys |-> 1, range |-> 2, push |-> 2, pop |-> 1,
          map |-> 2, filter |-> 2, each |-> 2]
Pure(name, args) ==
    CASE Len(args) # Arity[name] -> Err("builtin_arity")
      [] Len(args) = Arity[name] /\ name = "len"   -> BuiltinLen(args[1])
      [] Len(args) = Arity[name] /\ name = "keys"  -> BuiltinKeys(args[1])
      [] Len(args) = Arity[name] /\ name = "range" -> BuiltinRange(args[1], args[2])
      [] Len(args) = Arity[name] /\ name = "pop"   -> BuiltinPop(args[1])

(* validate_context_builtin_call, before any argument is evaluated *)
ValidateContextCall(name, count, firstIsName) ==
    CASE name = "exit" -> IF count > 1 THEN "exit_arity" ELSE "none"
      [] name \in {"push", "pop"} /\ count = Arity[name] /\ ~firstIsName ->
            "mutation_target_not_variable"
      [] name # "exit" /\ count # Arity[name] -> "builtin_arity"
      [] OTHER -> "none"

(* resolve_exit without and with the authority: the models grant it. *)
ExitSignal(args) ==
    CASE args = <<>> -> "process_exit"
      [] args # <<>> /\ args[1].t # "int" -> "builtin_arg_type"
      [] args # <<>> /\ args[1].t = "int" /\ args[1].n < 0 -> "exit_code_out_of_range"
      [] OTHER -> "process_exit"

(* A negative index counts from the end. *)
At(n, len) == IF n < 0 THEN len + n ELSE n

(* assign_index: the collection with the element replaced or inserted. *)
AssignIndex(target, index, v) ==
    CASE target.t = "list" /\ index.t # "int" -> Err("list_index_type")
      [] target.t = "list" /\ index.t = "int" ->
            LET i == At(index.n, Len(target.items))
            IN  IF i \in 0..(Len(target.items) - 1)
                THEN Ok([target EXCEPT !.items[i + 1] = v])
                ELSE Err("list_index_out_of_range")
      [] target.t = "dict" /\ index.t # "str" -> Err("dict_key_type")
      [] target.t = "dict" /\ index.t = "str" ->
            IF /\ index.s \notin DOMAIN target.map
               /\ ~CheckCollection(Len(SortedKeys(target.map)) + 1)
            THEN Err("collection_limit")
            ELSE Ok([target EXCEPT !.map = Insert(@, index.s, v)])
      [] OTHER -> Err("index_assign_unsupported")

(* A list with one more element; a list at the limit refuses it. *)
Pushed(list, v) ==
    CASE list.t # "list" -> Err("builtin_arg_type")
      [] list.t = "list" /\ ~CheckCollection(Len(list.items) + 1) -> Err("collection_limit")
      [] OTHER -> Ok([list EXCEPT !.items = Append(@, v)])

(* NumericOrder::compare_relational on integers *)
Relational(op, a, b) ==
    IF a.t # "int" \/ b.t # "int" THEN Err("comparison_type")
    ELSE Ok(BoolV(CASE op = "<" -> a.n < b.n [] op = ">" -> a.n > b.n
                    [] op = "<=" -> a.n <= b.n [] op = ">=" -> a.n >= b.n))

(* Division rounds to zero; the remainder has the sign of the dividend. *)
Abs(n) == IF n < 0 THEN -n ELSE n
Quotient(a, b)  == LET q == Abs(a) \div Abs(b) IN IF (a < 0) = (b < 0) THEN q ELSE -q
Remainder(a, b) == a - b * Quotient(a, b)

(* The elements of a for loop: of a list itself, of a dictionary its keys,  *)
(* of a string its characters.                                              *)
IterItems(v) ==
    CASE v.t = "list" -> Ok(v)
      [] v.t = "dict" -> BuiltinKeys(v)
      [] v.t = "str"  -> IF CheckCollection(Len(v.s))
                         THEN Ok(ListV([i \in DOMAIN v.s |-> StrV(<<v.s[i]>>)]))
                         ELSE Err("collection_limit")
      [] OTHER        -> Err("not_iterable")
=============================================================================
