----------------------------- MODULE HeapProofs -----------------------------
(***************************************************************************)
(* Proofs about Heap.  The counter of the ledger is the sum of what the    *)
(* objects, the frames and the journal are charged; every action moves the *)
(* counter and one or two of the three.  The sums are the library's folds, *)
(* which say nothing of the order they take the elements in: the first     *)
(* part shows that the order does not matter.  A write changes a summary   *)
(* by one element; the backing that is written to is held by one cell      *)
(* alone, so that no other summary counts it.  For the same reason no      *)
(* other variable changes: the last part shows that each step but those    *)
(* that start or end a run has one shape (Touches), which keeps values     *)
(* apart.                                                                  *)
(***************************************************************************)
EXTENDS Heap, TLAPS, FiniteSetTheorems, SequenceTheorems, WellFoundedInduction

\* Induction over the numbers, from the least element of a set of them.
LEMMA Induction ==
  ASSUME NEW P, 0 \in P, \A n \in Nat : n \in P => n + 1 \in P
  PROVE  \A n \in Nat : n \in P
<1> DEFINE below == {p \in Nat \X Nat : p[1] < p[2]}
           T == Nat \ P
<1>1. below = OpToRel(<, Nat)
  BY Zenon DEF OpToRel
<1>2. IsWellFoundedOn(below, Nat)
  BY <1>1, NatLessThanWellFounded, Zenon
<1> HIDE DEF below
<1>3. ASSUME T # {}
      PROVE  FALSE
  <2>1. T \in SUBSET Nat
    OBVIOUS
  <2> HIDE DEF T
  <2>2. PICK m \in T : \A k \in T : <<k, m>> \notin below
    BY <1>2, <1>3, <2>1, WFMin
  <2>3. m \in Nat \ {0}
    BY DEF T
  <2>4. m - 1 \in Nat /\ m - 1 < m
    BY <2>3
  <2>5. <<m - 1, m>> \in below
    BY <2>3, <2>4 DEF below
  <2>6. m - 1 \in P
    BY <2>2, <2>4, <2>5 DEF T
  <2>7. m \in P
    BY <2>4, <2>6, <2>3
  <2> QED  BY <2>7 DEF T
<1> QED  BY <1>3

\* A set of numbers has a least one.
LEMMA LeastOf ==
  ASSUME NEW S \in SUBSET Nat, S # {}
  PROVE  \E m \in S : \A k \in S : m <= k
<1> DEFINE below == {p \in Nat \X Nat : p[1] < p[2]}
<1>1. below = OpToRel(<, Nat)
  BY Zenon DEF OpToRel
<1>2. IsWellFoundedOn(below, Nat)
  BY <1>1, NatLessThanWellFounded, Zenon
<1> HIDE DEF below
<1>3. PICK m \in S : \A k \in S : <<k, m>> \notin below
  BY <1>2, WFMin
<1>4. ASSUME NEW k \in S, k < m PROVE FALSE
  <2>1. <<k, m>> \in below
    BY <1>4 DEF below
  <2> QED BY <1>3, <2>1
<1> QED BY <1>4

\* The same over the subsets of a finite set.
LEMMA FiniteInduction ==
  ASSUME NEW S, IsFiniteSet(S), NEW P, {} \in P,
         \A T \in SUBSET S, x \in S : T \in P /\ x \notin T => T \union {x} \in P
  PROVE  \A T \in SUBSET S : T \in P
<1> DEFINE Q == {n \in Nat : \A T \in SUBSET S : Cardinality(T) = n => T \in P}
<1>1. \A T \in SUBSET S : IsFiniteSet(T) /\ Cardinality(T) \in Nat
  BY FS_Subset, FS_CardinalityType
<1>2. 0 \in Q
  BY <1>1, FS_EmptySet
<1>3. ASSUME NEW n \in Nat, n \in Q
      PROVE  n + 1 \in Q
  <2> SUFFICES ASSUME NEW T \in SUBSET S, Cardinality(T) = n + 1
               PROVE  T \in P
    OBVIOUS
  <2>1. T # {}
    <3>1. ASSUME T = {} PROVE n + 1 = 0
      BY ONLY <3>1, Cardinality(T) = n + 1, FS_EmptySet, Zenon
    <3> QED BY <3>1
  <2>2. PICK x \in T : TRUE
    BY <2>1
  <2>5. IsFiniteSet(T)
    BY <1>1
  <2>6. Cardinality(T \ {x}) = Cardinality(T) - 1
    BY <2>2, <2>5, FS_RemoveElement
  <2>3. Cardinality(T \ {x}) = n
    BY <2>6
  <2>4. T \ {x} \in P /\ T \ {x} \in SUBSET S /\ (T \ {x}) \union {x} = T
    BY <1>3, <2>3
  <2> QED  BY <2>4
<1> HIDE DEF Q
<1>4. \A n \in Nat : n \in Q
  BY <1>2, <1>3, Induction
<1> QED  BY <1>1, <1>4 DEF Q

One(s) == CHOOSE x \in s : TRUE

Sums(f, F, U) ==
  f = [s \in U |-> IF s = {} THEN 0 ELSE F[One(s)] + f[s \ {One(s)}]]

\* The sums over the subsets of a finite set exist, smaller sets first.
LEMMA SumsExist ==
  ASSUME NEW S, IsFiniteSet(S), NEW F
  PROVE  \E f : Sums(f, F, SUBSET S)
<1> DEFINE U(n) == {s \in SUBSET S : Cardinality(s) <= n}
           P == {n \in Nat : \E f : Sums(f, F, U(n))}
<1>1. \A T \in SUBSET S : IsFiniteSet(T) /\ Cardinality(T) \in Nat
  BY FS_Subset, FS_CardinalityType
<1>2. \A T \in SUBSET S : T # {} =>
        /\ One(T) \in T /\ T \ {One(T)} \in SUBSET S
        /\ Cardinality(T \ {One(T)}) = Cardinality(T) - 1
  BY <1>1, FS_RemoveElement DEF One
<1>3. 0 \in P
  <2> DEFINE f == [s \in U(0) |-> 0]
  <2>1. \A s \in U(0) : s = {}
    BY <1>1, FS_EmptySet
  <2>2. Sums(f, F, U(0))
    BY <2>1 DEF Sums
  <2> QED  BY <2>2
<1>4. ASSUME NEW n \in Nat, n \in P
      PROVE  n + 1 \in P
  <2>1. PICK f : Sums(f, F, U(n))
    BY <1>4
  <2>2. \A s \in U(n) : f[s] = IF s = {} THEN 0 ELSE F[One(s)] + f[s \ {One(s)}]
    BY <2>1 DEF Sums
  <2> DEFINE g == [s \in U(n + 1) |->
                     IF s \in U(n) THEN f[s] ELSE F[One(s)] + f[s \ {One(s)}]]
  <2>3. ASSUME NEW s \in U(n + 1)
        PROVE  g[s] = IF s = {} THEN 0 ELSE F[One(s)] + g[s \ {One(s)}]
    <3>1. CASE s = {}
      <4>1. s \in U(n)
        BY <3>1, FS_EmptySet
      <4> QED  BY <2>2, <3>1, <4>1
    <3>2. CASE s # {}
      <4>1. s \ {One(s)} \in U(n) /\ s \ {One(s)} \in U(n + 1)
        BY <1>1, <1>2, <3>2
      <4>2. g[s \ {One(s)}] = f[s \ {One(s)}]
        BY <4>1
      <4>3. CASE s \in U(n)
        BY <2>2, <3>2, <4>2, <4>3
      <4>4. CASE s \notin U(n)
        BY <3>2, <4>2, <4>4
      <4> QED  BY <4>3, <4>4
    <3> QED  BY <3>1, <3>2
  <2>4. Sums(g, F, U(n + 1))
    BY <2>3 DEF Sums
  <2> HIDE DEF g, U
  <2>5. \E h : Sums(h, F, U(n + 1))
    BY <2>4
  <2>6. n + 1 \in Nat
    OBVIOUS
  <2> QED  BY ONLY <2>5, <2>6 DEF P
<1> HIDE DEF P
<1>5. \A n \in Nat : n \in P
  BY <1>3, <1>4, Induction
<1>6. Cardinality(S) \in P /\ U(Cardinality(S)) = SUBSET S
  BY <1>5, FS_CardinalityType, FS_Subset
<1> QED  BY <1>6 DEF P

\* A sum of the library is one of them.
LEMMA SumIs ==
  ASSUME NEW S, IsFiniteSet(S), NEW F
  PROVE  \E f : Sums(f, F, SUBSET S) /\ SumFunctionOnSet(F, S) = f[S]
<1> DEFINE f == CHOOSE f : Sums(f, F, SUBSET S)
<1>1. Sums(f, F, SUBSET S)
  BY SumsExist
<1>2. SumFunctionOnSet(F, S) = f[S]
  BY DEF SumFunctionOnSet, FoldFunctionOnSet, MapThenFoldSet, Sums, One
<1> QED  BY <1>1, <1>2

\* Two of them agree where both are defined.
LEMMA SumsAgree ==
  ASSUME NEW S, IsFiniteSet(S), NEW F, NEW G, \A x \in S : F[x] = G[x],
         NEW U, SUBSET S \subseteq U, NEW V, SUBSET S \subseteq V,
         NEW f, Sums(f, F, U), NEW g, Sums(g, G, V)
  PROVE  f[S] = g[S]
<1> DEFINE P == {n \in Nat : \A T \in SUBSET S : Cardinality(T) = n => f[T] = g[T]}
<1>1. \A T \in SUBSET S : IsFiniteSet(T) /\ Cardinality(T) \in Nat
  BY FS_Subset, FS_CardinalityType
<1>2. \A T \in SUBSET S : T # {} =>
        /\ One(T) \in S /\ T \ {One(T)} \in SUBSET S
        /\ Cardinality(T \ {One(T)}) = Cardinality(T) - 1
  BY <1>1, FS_RemoveElement DEF One
<1>3. \A T \in SUBSET S :
        /\ f[T] = IF T = {} THEN 0 ELSE F[One(T)] + f[T \ {One(T)}]
        /\ g[T] = IF T = {} THEN 0 ELSE G[One(T)] + g[T \ {One(T)}]
  BY DEF Sums
<1>4. 0 \in P
  BY <1>1, <1>3, FS_EmptySet
<1>5. ASSUME NEW n \in Nat, n \in P PROVE n + 1 \in P
  <2> SUFFICES ASSUME NEW T \in SUBSET S, Cardinality(T) = n + 1 PROVE f[T] = g[T]
    OBVIOUS
  <2>1. T # {}
    BY FS_EmptySet
  <2>2. f[T \ {One(T)}] = g[T \ {One(T)}]
    BY <1>2, <1>5, <2>1
  <2> QED BY <1>2, <1>3, <2>1, <2>2
<1> HIDE DEF P
<1>6. \A n \in Nat : n \in P
  BY <1>4, <1>5, Induction
<1> QED BY <1>1, <1>6 DEF P

\* Functions that agree on a set have the same sum over it.
LEMMA SumSame ==
  ASSUME NEW S, IsFiniteSet(S), NEW F, NEW G, \A x \in S : F[x] = G[x]
  PROVE  SumFunctionOnSet(F, S) = SumFunctionOnSet(G, S)
<1>1. PICK f : Sums(f, F, SUBSET S) /\ SumFunctionOnSet(F, S) = f[S]
  BY SumIs
<1>2. PICK g : Sums(g, G, SUBSET S) /\ SumFunctionOnSet(G, S) = g[S]
  BY SumIs
<1> QED BY <1>1, <1>2, SumsAgree

\* Any element can be the first.
LEMMA SumsAny ==
  ASSUME NEW S, IsFiniteSet(S), NEW F, \A x \in S : F[x] \in Nat,
         NEW f, Sums(f, F, SUBSET S)
  PROVE  \A T \in SUBSET S : f[T] \in Nat /\ \A x \in T : f[T] = F[x] + f[T \ {x}]
<1> DEFINE P == {n \in Nat : \A T \in SUBSET S : Cardinality(T) = n =>
                   f[T] \in Nat /\ \A x \in T : f[T] = F[x] + f[T \ {x}]}
<1>1. \A T \in SUBSET S : IsFiniteSet(T) /\ Cardinality(T) \in Nat
  BY FS_Subset, FS_CardinalityType
<1>2. \A T \in SUBSET S : \A x \in T :
        T \ {x} \in SUBSET S /\ Cardinality(T \ {x}) = Cardinality(T) - 1
  BY <1>1, FS_RemoveElement, Zenon
<1>3. f[{}] = 0 /\ \A T \in SUBSET S : T # {} => f[T] = F[One(T)] + f[T \ {One(T)}]
  BY DEF Sums
<1>6. \A T \in SUBSET S : f[T] \in Nat
  <2> DEFINE Q == {n \in Nat : \A T \in SUBSET S : Cardinality(T) = n => f[T] \in Nat}
  <2>1. 0 \in Q
    BY <1>1, <1>3, FS_EmptySet
  <2>2. ASSUME NEW n \in Nat, n \in Q PROVE n + 1 \in Q
    <3> SUFFICES ASSUME NEW T \in SUBSET S, Cardinality(T) = n + 1 PROVE f[T] \in Nat
      OBVIOUS
    <3>0. Cardinality({}) = 0
      BY FS_EmptySet
    <3>1. T # {}
      BY <3>0
    <3>2. One(T) \in T
      BY <3>1 DEF One
    <3>3. T \ {One(T)} \in SUBSET S /\ Cardinality(T \ {One(T)}) = n
      BY <1>2, <3>2
    <3>4. f[T \ {One(T)}] \in Nat
      BY <2>2, <3>3
    <3>5. f[T] = F[One(T)] + f[T \ {One(T)}] /\ F[One(T)] \in Nat
      BY <1>3, <3>1, <3>2
    <3> QED BY <3>4, <3>5
  <2> HIDE DEF Q
  <2>3. \A n \in Nat : n \in Q
    BY <2>1, <2>2, Induction
  <2> QED BY <1>1, <2>3 DEF Q
<1>4. 0 \in P
  <2>1. \A T \in SUBSET S : Cardinality(T) = 0 => T = {}
    BY <1>1, FS_EmptySet
  <2>2. f[{}] \in Nat /\ \A x \in {} : f[{}] = F[x] + f[{} \ {x}]
    BY <1>3
  <2> QED BY ONLY <2>1, <2>2
<1>5. ASSUME NEW n \in Nat, n \in P PROVE n + 1 \in P
  <2> SUFFICES ASSUME NEW T \in SUBSET S, Cardinality(T) = n + 1
               PROVE  f[T] \in Nat /\ \A x \in T : f[T] = F[x] + f[T \ {x}]
    OBVIOUS
  <2> DEFINE y == One(T)
  <2>0. Cardinality({}) = 0
    BY FS_EmptySet
  <2>7. T # {}
    BY <2>0
  <2>1. y \in T
    BY <2>7 DEF One
  <2> HIDE DEF y
  <2>2. \A x \in T : T \ {x} \in SUBSET S /\ Cardinality(T \ {x}) = n /\ F[x] \in Nat
    BY <1>2
  <2>3. \A x \in T : f[T \ {x}] \in Nat /\ \A z \in T \ {x} : f[T \ {x}] = F[z] + f[(T \ {x}) \ {z}]
    BY <1>5, <2>2
  <2>4. f[T] = F[y] + f[T \ {y}]
    BY <1>3, <2>7 DEF y
  <2>5. ASSUME NEW x \in T, x # y PROVE f[T] = F[x] + f[T \ {x}]
    <3>1. f[T \ {y}] = F[x] + f[(T \ {y}) \ {x}] /\ f[T \ {x}] = F[y] + f[(T \ {x}) \ {y}]
      BY <2>1, <2>3, <2>5
    <3>2. (T \ {y}) \ {x} = (T \ {x}) \ {y} /\ (T \ {y}) \ {x} \in SUBSET S
      OBVIOUS
    <3>3. f[(T \ {y}) \ {x}] \in Nat
      BY <1>6, <3>2
    <3>4. F[x] \in Nat /\ F[y] \in Nat
      BY <2>1, <2>2
    <3>5. f[T] = F[y] + (F[x] + f[(T \ {y}) \ {x}])
      BY ONLY <2>4, <3>1
    <3>6. f[T \ {x}] = F[y] + f[(T \ {y}) \ {x}]
      BY ONLY <3>1, <3>2
    <3>7. \A p, q, r \in Nat : p + (q + r) = q + (p + r)
      OBVIOUS
    <3> QED BY ONLY <3>3, <3>4, <3>5, <3>6, <3>7
  <2>6. f[T] \in Nat
    BY <2>1, <2>2, <2>3, <2>4
  <2> QED BY <2>4, <2>5, <2>6
<1> HIDE DEF P
<1>7. \A n \in Nat : n \in P
  BY <1>4, <1>5, Induction
<1> QED BY <1>1, <1>7 DEF P

\* The sum over nothing, over one element more and over two sets.
LEMMA SumEmpty ==
  ASSUME NEW F
  PROVE  SumFunctionOnSet(F, {}) = 0
<1>1. IsFiniteSet({})
  BY FS_EmptySet
<1>2. PICK f : Sums(f, F, SUBSET {}) /\ SumFunctionOnSet(F, {}) = f[{}]
  BY <1>1, SumIs
<1> QED BY <1>2 DEF Sums

\* A sum of numbers is a number.
LEMMA SumNat ==
  ASSUME NEW S, IsFiniteSet(S), NEW F, \A x \in S : F[x] \in Nat
  PROVE  SumFunctionOnSet(F, S) \in Nat
<1>1. PICK f : Sums(f, F, SUBSET S) /\ SumFunctionOnSet(F, S) = f[S]
  BY SumIs
<1>2. \A T \in SUBSET S : f[T] \in Nat
  BY <1>1, SumsAny
<1> QED BY <1>1, <1>2

\* The sum over a set is one element and the sum over the others.
LEMMA SumTake ==
  ASSUME NEW S, IsFiniteSet(S), NEW x \in S, NEW F, \A y \in S : F[y] \in Nat
  PROVE  SumFunctionOnSet(F, S) = F[x] + SumFunctionOnSet(F, S \ {x})
<1>1. PICK f : Sums(f, F, SUBSET S) /\ SumFunctionOnSet(F, S) = f[S]
  BY SumIs
<1>2. IsFiniteSet(S \ {x})
  BY FS_RemoveElement
<1>3. PICK g : Sums(g, F, SUBSET (S \ {x})) /\ SumFunctionOnSet(F, S \ {x}) = g[S \ {x}]
  BY <1>2, SumIs
<1>4. f[S \ {x}] = g[S \ {x}]
  <2>1. PICK R : R = S \ {x}
    OBVIOUS
  <2>2. PICK U : U = SUBSET S
    OBVIOUS
  <2>3. PICK V : V = SUBSET R
    OBVIOUS
  <2>4. SUBSET R \subseteq U /\ SUBSET R \subseteq V
    BY <2>1, <2>2, <2>3
  <2>8. PICK G : G = F
    OBVIOUS
  <2>9. \A y \in R : F[y] = G[y]
    BY <2>8
  <2>5. Sums(f, F, U) /\ Sums(g, G, V)
    BY <1>1, <1>3, <2>1, <2>2, <2>3, <2>8
  <2>6. IsFiniteSet(R)
    BY <1>2, <2>1
  <2>7. f[R] = g[R]
    BY ONLY <2>4, <2>5, <2>6, <2>9, SumsAgree
  <2> QED BY <2>1, <2>7
<1>5. f[S] = F[x] + f[S \ {x}]
  BY <1>1, SumsAny
<1> QED BY <1>1, <1>3, <1>4, <1>5

\* The sum over a set and one element more.
LEMMA SumAdd ==
  ASSUME NEW S, IsFiniteSet(S), NEW x, x \notin S, NEW F,
         \A y \in S \union {x} : F[y] \in Nat
  PROVE  SumFunctionOnSet(F, S \union {x}) = F[x] + SumFunctionOnSet(F, S)
<1>1. IsFiniteSet(S \union {x})
  BY FS_AddElement
<1>2. (S \union {x}) \ {x} = S
  OBVIOUS
<1> QED BY <1>1, <1>2, SumTake

\* The sum over a set is that over a part and that over the rest.
LEMMA SumSplit ==
  ASSUME NEW S, IsFiniteSet(S), NEW T \in SUBSET S, NEW F,
         \A y \in S : F[y] \in Nat
  PROVE  SumFunctionOnSet(F, S) = SumFunctionOnSet(F, T) + SumFunctionOnSet(F, S \ T)
<1> DEFINE sum(U) == SumFunctionOnSet(F, U)
           P == {U \in SUBSET T : sum(U \union (S \ T)) = sum(U) + sum(S \ T)}
<1>1. \A U \in SUBSET S : IsFiniteSet(U)
  BY FS_Subset
<1>2. \A U \in SUBSET S : sum(U) \in Nat
  BY <1>1, SumNat
<1>3. {} \in P
  <2>1. sum({}) = 0 /\ {} \union (S \ T) = S \ T /\ sum(S \ T) \in Nat
    BY <1>2, SumEmpty
  <2> HIDE DEF sum
  <2> QED BY <2>1
<1>4. ASSUME NEW U \in SUBSET T, NEW x \in T, U \in P, x \notin U
      PROVE  U \union {x} \in P
  <2>1. sum(U \union {x}) = F[x] + sum(U)
    BY <1>1, <1>4, SumAdd
  <2> DEFINE V == U \union (S \ T)
  <2>2. V \in SUBSET S /\ x \notin V /\ (U \union {x}) \union (S \ T) = V \union {x}
    BY <1>4
  <2> HIDE DEF V
  <2>3. sum(V \union {x}) = F[x] + sum(V)
    BY <1>1, <2>2, SumAdd
  <2>4. sum(V) = sum(U) + sum(S \ T)
    BY <1>4 DEF V
  <2>5. F[x] \in Nat /\ sum(U) \in Nat /\ sum(S \ T) \in Nat
    BY <1>2
  <2> HIDE DEF sum
  <2>6. sum(V \union {x}) = sum(U \union {x}) + sum(S \ T)
    BY <2>1, <2>3, <2>4, <2>5
  <2> QED BY <2>2, <2>6
<1> HIDE DEF P
<1>5. IsFiniteSet(T)
  BY <1>1
<1>6. \A U \in SUBSET T : U \in P
  BY <1>3, <1>4, <1>5, FiniteInduction
<1>7. T \union (S \ T) = S /\ T \in P
  BY <1>6
<1> QED BY <1>7 DEF P

\* A function that differs at one point.
LEMMA SumChange ==
  ASSUME NEW S, IsFiniteSet(S), NEW x \in S, NEW F, NEW G,
         \A y \in S : F[y] \in Nat /\ G[y] \in Nat,
         \A y \in S \ {x} : F[y] = G[y]
  PROVE  SumFunctionOnSet(F, S) + G[x] = SumFunctionOnSet(G, S) + F[x]
<1>1. IsFiniteSet(S \ {x})
  BY FS_RemoveElement
<1>2. SumFunctionOnSet(F, S \ {x}) = SumFunctionOnSet(G, S \ {x})
  BY <1>1, SumSame
<1>3. SumFunctionOnSet(F, S \ {x}) \in Nat
  BY <1>1, SumNat
<1>4. SumFunctionOnSet(F, S) = F[x] + SumFunctionOnSet(F, S \ {x})
  BY SumTake
<1>5. SumFunctionOnSet(G, S) = G[x] + SumFunctionOnSet(G, S \ {x})
  BY SumTake
<1>6. F[x] \in Nat /\ G[x] \in Nat
  OBVIOUS
<1> QED BY ONLY <1>2, <1>3, <1>4, <1>5, <1>6

\* A sum of zeros.
LEMMA SumZero ==
  ASSUME NEW S, IsFiniteSet(S), NEW F, \A x \in S : F[x] = 0
  PROVE  SumFunctionOnSet(F, S) = 0
<1> DEFINE P == {T \in SUBSET S : SumFunctionOnSet(F, T) = 0}
<1>1. {} \in P
  BY SumEmpty
<1>2. ASSUME NEW T \in SUBSET S, NEW x \in S, T \in P, x \notin T
      PROVE  T \union {x} \in P
  <2>1. IsFiniteSet(T)
    BY FS_Subset
  <2>2. \A y \in T \union {x} : F[y] \in Nat
    OBVIOUS
  <2>3. SumFunctionOnSet(F, T \union {x}) = F[x] + SumFunctionOnSet(F, T)
    BY ONLY <2>1, <2>2, <1>2, SumAdd
  <2>4. F[x] = 0 /\ SumFunctionOnSet(F, T) = 0
    BY <1>2
  <2> QED BY <2>3, <2>4
<1> HIDE DEF P
<1>3. S \in P
  BY <1>1, <1>2, FiniteInduction
<1> QED BY <1>3 DEF P

-----------------------------------------------------------------------------
(* The objects some handle leads to *)

\* Closed: what an object of S holds is in S.
Closed(h, S) == \A a \in S : Elements(h.obj[a]) \subseteq S

Reach(r, h, roots, N) ==
  r = [n \in 0 .. N |-> IF n = 0 THEN roots ELSE OneMore(h, r[n - 1])]

\* The rounds of Alive are a function.
LEMMA ReachExists ==
  ASSUME NEW h, NEW roots
  PROVE  \A N \in Nat : \E r : Reach(r, h, roots, N)
<1> DEFINE P == {N \in Nat : \E r : Reach(r, h, roots, N)}
<1>1. 0 \in P
  <2> DEFINE r == [n \in 0 .. 0 |-> roots]
  <2>1. Reach(r, h, roots, 0)
    BY DEF Reach
  <2> HIDE DEF r
  <2>2. \E q : Reach(q, h, roots, 0)
    BY <2>1
  <2> QED BY <2>2
<1>2. ASSUME NEW N \in Nat, N \in P PROVE N + 1 \in P
  <2>1. PICK r : Reach(r, h, roots, N)
    BY <1>2
  <2> DEFINE q == [n \in 0 .. (N + 1) |-> IF n = N + 1 THEN OneMore(h, r[N]) ELSE r[n]]
  <2>2. DOMAIN q = 0 .. (N + 1)
    OBVIOUS
  <2>3. ASSUME NEW n \in 0 .. (N + 1)
        PROVE  q[n] = IF n = 0 THEN roots ELSE OneMore(h, q[n - 1])
    <3>1. CASE n = N + 1
      <4>1. q[n] = OneMore(h, r[N]) /\ q[n - 1] = r[N] /\ n # 0
        BY <3>1
      <4> QED BY <4>1
    <3>2. CASE n \in 1 .. N
      <4>1. q[n] = r[n] /\ q[n - 1] = r[n - 1] /\ n # 0
        BY <3>2
      <4>2. r[n] = OneMore(h, r[n - 1])
        BY <2>1, <3>2 DEF Reach
      <4> QED BY <4>1, <4>2
    <3>3. CASE n = 0
      <4>1. q[0] = r[0] /\ r[0] = roots
        BY <2>1, <3>3 DEF Reach
      <4> QED BY <3>3, <4>1
    <3>4. n = N + 1 \/ n \in 1 .. N \/ n = 0
      OBVIOUS
    <3> QED BY <3>1, <3>2, <3>3, <3>4
  <2>4. Reach(q, h, roots, N + 1)
    BY <2>3 DEF Reach
  <2> HIDE DEF q
  <2>5. \E g : Reach(g, h, roots, N + 1)
    BY <2>4
  <2>6. N + 1 \in Nat
    OBVIOUS
  <2> QED BY ONLY <2>5, <2>6 DEF P
<1> HIDE DEF P
<1>3. \A N \in Nat : N \in P
  BY <1>1, <1>2, Induction
<1> QED BY <1>3 DEF P

\* It holds the roots and what its objects hold, and no others: as many rounds
\* as there are objects reach all of them.
LEMMA AliveIs ==
  ASSUME NEW h, IsFiniteSet(DOMAIN h.obj), Closed(h, DOMAIN h.obj),
         NEW roots \in SUBSET DOMAIN h.obj
  PROVE  /\ roots \subseteq Alive(h, roots)
         /\ Alive(h, roots) \subseteq DOMAIN h.obj
         /\ Closed(h, Alive(h, roots))
<1> DEFINE D == DOMAIN h.obj
           N == Cardinality(D)
           r == CHOOSE q : Reach(q, h, roots, N)
<1>1. N \in Nat
  BY FS_CardinalityType
<1>2. Reach(r, h, roots, N)
  BY <1>1, ReachExists
<1>3. Alive(h, roots) = r[N]
  BY DEF Alive, Reach
<1> HIDE DEF r
<1>4. r[0] = roots /\ \A n \in 0 .. N : n + 1 \in 0 .. N => r[n + 1] = OneMore(h, r[n])
  <2>1. r[0] = roots
    BY <1>1, <1>2 DEF Reach
  <2>2. ASSUME NEW n \in 0 .. N, n + 1 \in 0 .. N PROVE r[n + 1] = OneMore(h, r[n])
    <3>1. n + 1 # 0 /\ (n + 1) - 1 = n
      BY <1>1
    <3> HIDE DEF N
    <3>2. r[n + 1] = IF n + 1 = 0 THEN roots ELSE OneMore(h, r[(n + 1) - 1])
      BY ONLY <1>2, <2>2 DEF Reach
    <3> QED BY <3>1, <3>2
  <2> QED BY <2>1, <2>2
<1> DEFINE P == {n \in Nat : n <= N =>
                   /\ roots \subseteq r[n] /\ r[n] \subseteq D
                   /\ Closed(h, r[n]) \/ Cardinality(r[n]) > n}
<1>5. 0 \in P
  <2>1. roots = {} => Closed(h, roots)
    BY DEF Closed
  <2>2. IsFiniteSet(roots)
    BY FS_Subset
  <2>3. Cardinality(roots) \in Nat /\ (Cardinality(roots) = 0 => roots = {})
    BY <2>2, FS_CardinalityType, FS_EmptySet
  <2>4. Closed(h, roots) \/ Cardinality(roots) > 0
    BY <2>1, <2>3
  <2> HIDE DEF N
  <2> QED BY <1>4, <2>4
<1>6. ASSUME NEW n \in Nat, n \in P PROVE n + 1 \in P
  <2> SUFFICES ASSUME n + 1 <= N
               PROVE  /\ roots \subseteq r[n + 1] /\ r[n + 1] \subseteq D
                      /\ Closed(h, r[n + 1]) \/ Cardinality(r[n + 1]) > n + 1
    OBVIOUS
  <2>1. /\ roots \subseteq r[n] /\ r[n] \subseteq D
        /\ Closed(h, r[n]) \/ Cardinality(r[n]) > n
    BY <1>1, <1>6
  <2>2. r[n + 1] = OneMore(h, r[n])
    BY <1>1, <1>4
  <2> HIDE DEF N, P, D
  <2>3. r[n] \subseteq r[n + 1] /\ r[n + 1] \subseteq D
    BY <2>1, <2>2 DEF OneMore, Closed, D
  <2>4. CASE Closed(h, r[n])
    <3>1. r[n + 1] = r[n]
      BY <2>2, <2>4 DEF OneMore, Closed
    <3> QED BY <2>1, <2>4, <3>1
  <2>5. CASE ~Closed(h, r[n])
    <3>0. PICK a \in r[n] : \E b \in Elements(h.obj[a]) : b \notin r[n]
      BY <2>5 DEF Closed
    <3>1. PICK b \in Elements(h.obj[a]) : b \notin r[n]
      BY <3>0
    <3>2. b \in r[n + 1]
      BY <2>2, <3>1 DEF OneMore
    <3>3. IsFiniteSet(r[n + 1]) /\ IsFiniteSet(r[n])
      BY <2>1, <2>3, FS_Subset DEF D
    <3>4. IsFiniteSet(r[n] \union {b})
      BY <3>3, FS_AddElement
    <3>5. Cardinality(r[n] \union {b}) = Cardinality(r[n]) + 1
      BY <3>1, <3>3, FS_AddElement
    <3>6. r[n] \union {b} \in SUBSET r[n + 1]
      BY <2>3, <3>2
    <3>7. Cardinality(r[n] \union {b}) <= Cardinality(r[n + 1])
      BY <3>3, <3>6, FS_Subset
    <3>8. Cardinality(r[n]) \in Nat /\ Cardinality(r[n + 1]) \in Nat
      BY <3>3, FS_CardinalityType
    <3>9. Cardinality(r[n]) > n
      BY <2>1, <2>5
    <3>10. Cardinality(r[n + 1]) > n + 1
      BY <3>5, <3>7, <3>8, <3>9
    <3> QED BY <2>1, <2>3, <3>10
  <2> QED BY <2>4, <2>5
<1> HIDE DEF P
<1>7. N \in P
  BY <1>1, <1>5, <1>6, Induction
<1>8. /\ roots \subseteq r[N] /\ r[N] \subseteq D
      /\ Closed(h, r[N]) \/ Cardinality(r[N]) > N
  BY <1>1, <1>7 DEF P
<1>9. Cardinality(r[N]) <= N /\ Cardinality(r[N]) \in Nat
  BY <1>8, FS_Subset, FS_CardinalityType
<1>10. ~(Cardinality(r[N]) > N)
  BY <1>1, <1>9
<1> QED BY <1>3, <1>8, <1>10

-----------------------------------------------------------------------------
(* What a heap is *)

Formed(kind, items) ==
  /\ kind \in {"cell", "list", "dict"}
  /\ kind \in {"cell", "list"} => items \in Seq(Nat)
  /\ kind = "cell" => Len(items) = 1
  /\ kind = "dict" => DOMAIN items \subseteq Key

Object(o) ==
  /\ DOMAIN o = {"kind", "items", "bytes", "home", "top", "count"}
  /\ Formed(o.kind, o.items)
  /\ o.bytes \in Nat
  /\ o.home \in {"now", "past"}

\* What a list, a dict or a cell may hold: a scalar or an object of h.
Holds(h, items) == \A i \in DOMAIN items : items[i] \in {Scalar} \union DOMAIN h.obj

Good(h) ==
  /\ DOMAIN h = {"obj", "live"}
  /\ h.live \in Nat
  /\ DOMAIN h.obj \subseteq Address
  /\ \A a \in DOMAIN h.obj : Object(h.obj[a]) /\ Holds(h, h.obj[a].items)

Held(h) == SumFunctionOnSet(Bytes(h), DOMAIN h.obj)

\* What a heap that is well formed has.
LEMMA GoodIs ==
  ASSUME NEW h, Good(h)
  PROVE  /\ IsFiniteSet(DOMAIN h.obj)
         /\ DOMAIN h.obj \subseteq Nat \ {0}
         /\ Closed(h, DOMAIN h.obj)
         /\ \A a \in DOMAIN h.obj : Bytes(h)[a] \in Nat
         /\ Held(h) \in Nat
<1>1. IsFiniteSet(DOMAIN h.obj) /\ DOMAIN h.obj \subseteq Nat \ {0}
  BY HeapAssumption, FS_Subset DEF Good
<1>2. Closed(h, DOMAIN h.obj)
  BY DEF Good, Closed, Elements, Range, Holds, Scalar
<1>3. \A a \in DOMAIN h.obj : Bytes(h)[a] \in Nat
  BY DEF Good, Object, Bytes
<1>4. Held(h) \in Nat
  BY <1>1, <1>3, SumNat DEF Held
<1> QED BY <1>1, <1>2, <1>3, <1>4

\* Heaps with the same charges.
LEMMA HeldSame ==
  ASSUME NEW h, Good(h), NEW g, DOMAIN g.obj = DOMAIN h.obj,
         \A a \in DOMAIN h.obj : /\ g.obj[a].bytes = h.obj[a].bytes
                                 /\ g.obj[a].home = h.obj[a].home
  PROVE  Held(g) = Held(h)
<1>1. IsFiniteSet(DOMAIN h.obj)
  BY GoodIs
<1>2. \A a \in DOMAIN h.obj : Bytes(g)[a] = Bytes(h)[a]
  BY DEF Bytes
<1>3. SumFunctionOnSet(Bytes(g), DOMAIN h.obj) = SumFunctionOnSet(Bytes(h), DOMAIN h.obj)
  BY <1>1, <1>2, SumSame
<1> QED BY <1>3 DEF Held

\* heap_size of a list, a dict or a cell.
LEMMA BodyNat ==
  ASSUME NEW kind, NEW items, Formed(kind, items)
  PROVE  Body(kind, items) \in Nat
<1>1. CASE kind = "cell"
  BY <1>1 DEF Body, CellBytes
<1>2. CASE kind = "list"
  <2>1. Len(items) \in Nat
    BY <1>2 DEF Formed
  <2> QED BY <1>2, <2>1 DEF Body, ListBody
<1>3. CASE kind = "dict"
  <2>1. IsFiniteSet(Key)
    BY FS_Singleton DEF Key
  <2>2. IsFiniteSet(DOMAIN items)
    BY <1>3, <2>1, FS_Subset DEF Formed
  <2>3. Cardinality(DOMAIN items) \in Nat
    BY <2>2, FS_CardinalityType
  <2> QED BY <1>3, <2>3 DEF Body, DictBody
<1> QED BY <1>1, <1>2, <1>3 DEF Formed

-----------------------------------------------------------------------------
(* The operations on a heap *)

\* A charge moves the counter and no object.
LEMMA ChargedIs ==
  ASSUME NEW h, Good(h), NEW n \in Nat
  PROVE  /\ Good(Charged(h, n))
         /\ Charged(h, n).obj = h.obj
         /\ Charged(h, n).live = h.live + n
         /\ Held(Charged(h, n)) = Held(h)
<1> DEFINE g == Charged(h, n)
<1>1. DOMAIN g = {"obj", "live"} /\ g.obj = h.obj /\ g.live = h.live + n
  BY DEF Charged, Good
<1> HIDE DEF g
<1>2. Good(g)
  BY <1>1 DEF Good, Holds
<1>3. Held(g) = Held(h)
  BY <1>1, HeldSame
<1> QED BY <1>1, <1>2, <1>3 DEF g

\* A release moves the counter and no object.
LEMMA FreedIs ==
  ASSUME NEW h, Good(h), NEW n \in Nat
  PROVE  /\ Good(Freed(h, n))
         /\ Freed(h, n).obj = h.obj
         /\ Freed(h, n).live <= h.live
         /\ n <= h.live => Freed(h, n).live = h.live - n
         /\ Held(Freed(h, n)) = Held(h)
<1> DEFINE g == Freed(h, n)
<1>0. h.live \in Nat /\ DOMAIN h = {"obj", "live"}
  BY DEF Good
<1>1. DOMAIN g = {"obj", "live"} /\ g.obj = h.obj
      /\ g.live = IF h.live > n THEN h.live - n ELSE 0
  BY <1>0 DEF Freed
<1> HIDE DEF g
<1>4. g.live \in Nat /\ g.live <= h.live /\ (n <= h.live => g.live = h.live - n)
  BY <1>0, <1>1
<1>2. Good(g)
  BY <1>1, <1>4 DEF Good, Holds
<1>3. Held(g) = Held(h)
  BY <1>1, HeldSame
<1> QED BY <1>1, <1>2, <1>3, <1>4 DEF g

\* A new address is none that is in use.
LEMMA FreshIs ==
  ASSUME NEW h, Good(h), NEW n \in Nat \ {0}, HasFresh(h, n)
  PROVE  Fresh(h) \in Address /\ Fresh(h) \notin DOMAIN h.obj
<1> DEFINE S == Address \ DOMAIN h.obj
<1>1. IsFiniteSet(S)
  BY HeapAssumption, FS_Difference
<1>2. S # {}
  <2>1. Cardinality(S) >= n /\ Cardinality({}) = 0
    BY FS_EmptySet DEF HasFresh
  <2> HIDE DEF S
  <2>2. ASSUME S = {} PROVE FALSE
    BY <2>1, <2>2
  <2> QED BY <2>2
<1>3. S \subseteq Nat
  BY HeapAssumption
<1> HIDE DEF S
<1>4. \E m \in S : \A k \in S : m <= k
  BY <1>2, <1>3, LeastOf
<1>5. Min(S) \in S
  BY <1>4 DEF Min
<1> QED BY <1>5 DEF Fresh, S

\* Tracked::new adds one object, with its charge.
LEMMA MadeIs ==
  ASSUME NEW h, Good(h), NEW n \in Nat \ {0}, HasFresh(h, n),
         NEW kind, NEW items, Formed(kind, items), Holds(h, items)
  PROVE  LET g == Made(h, kind, items)
         IN  /\ Good(g)
             /\ DOMAIN g.obj = DOMAIN h.obj \union {Fresh(h)}
             /\ \A a \in DOMAIN h.obj : g.obj[a] = h.obj[a]
             /\ g.obj[Fresh(h)].kind = kind
             /\ g.obj[Fresh(h)].items = items
             /\ g.obj[Fresh(h)].bytes = Body(kind, items)
             /\ g.obj[Fresh(h)].home = "now"
             /\ g.obj[Fresh(h)].top = IF kind = "cell" THEN 0 ELSE Summary(h, items).top
             /\ g.obj[Fresh(h)].count = IF kind = "cell" THEN 0 ELSE Summary(h, items).count
             /\ g.live = h.live + Body(kind, items)
             /\ Held(g) = Held(h) + Body(kind, items)
<1> DEFINE g == Made(h, kind, items)
           f == Fresh(h)
           b == Body(kind, items)
           s == Summary(h, items)
           o == [kind |-> kind, items |-> items, bytes |-> b,
                 home |-> "now", top |-> IF kind = "cell" THEN 0 ELSE s.top,
                 count |-> IF kind = "cell" THEN 0 ELSE s.count]
<1>0. h.live \in Nat /\ DOMAIN h = {"obj", "live"} /\ b \in Nat
      /\ f \in Address /\ f \notin DOMAIN h.obj
  BY BodyNat, FreshIs DEF Good
<1>1. DOMAIN Charged(h, b) = {"obj", "live"} /\ Charged(h, b).obj = h.obj
      /\ Charged(h, b).live = h.live + b
  BY <1>0 DEF Charged
<1>2. DOMAIN g = {"obj", "live"} /\ g.live = h.live + b
      /\ g.obj = [a \in DOMAIN h.obj \union {f} |-> IF a = f THEN o ELSE h.obj[a]]
  <2> HIDE DEF b, s, f
  <2> USE DEF o
  <2>1. g = [Charged(h, b) EXCEPT !.obj =
               [a \in DOMAIN @ \union {f} |-> IF a = f THEN o ELSE @[a]]]
    BY DEF Made, b, s, f
  <2> HIDE DEF o, g
  <2> QED BY <1>1, <2>1
<1> HIDE DEF g, f, b, s
<1>3. /\ DOMAIN o = {"kind", "items", "bytes", "home", "top", "count"}
      /\ o.kind = kind /\ o.items = items /\ o.bytes = b /\ o.home = "now"
      /\ o.top = (IF kind = "cell" THEN 0 ELSE s.top)
      /\ o.count = (IF kind = "cell" THEN 0 ELSE s.count)
  OBVIOUS
<1> HIDE DEF o
<1>4. DOMAIN g.obj = DOMAIN h.obj \union {f} /\ g.obj[f] = o
      /\ \A a \in DOMAIN h.obj : g.obj[a] = h.obj[a]
  BY <1>0, <1>2
<1>5. Good(g)
  <2>1. Object(o) /\ Holds(g, o.items)
    BY <1>0, <1>3, <1>4 DEF Object, Holds
  <2>2. \A a \in DOMAIN h.obj : Object(h.obj[a]) /\ Holds(g, h.obj[a].items)
    BY <1>4 DEF Good, Holds
  <2>3. \A a \in DOMAIN g.obj : Object(g.obj[a]) /\ Holds(g, g.obj[a].items)
    BY <1>4, <2>1, <2>2
  <2>4. DOMAIN g.obj \subseteq Address /\ g.live \in Nat
    BY <1>0, <1>2, <1>4 DEF Good
  <2> QED BY <1>2, <2>3, <2>4 DEF Good
<1>6. Held(g) = Held(h) + b
  <2>1. IsFiniteSet(DOMAIN h.obj) /\ Held(h) \in Nat
    BY GoodIs
  <2>2. \A a \in DOMAIN h.obj : Bytes(g)[a] = Bytes(h)[a] /\ Bytes(h)[a] \in Nat
    BY <1>4, GoodIs DEF Bytes
  <2>3. Bytes(g)[f] = b
    BY <1>3, <1>4 DEF Bytes
  <2>4. SumFunctionOnSet(Bytes(g), DOMAIN h.obj) = Held(h)
    BY <2>1, <2>2, SumSame DEF Held
  <2>5. \A a \in DOMAIN h.obj \union {f} : Bytes(g)[a] \in Nat
    BY <2>2, <2>3, <1>0
  <2>6. SumFunctionOnSet(Bytes(g), DOMAIN h.obj \union {f})
          = Bytes(g)[f] + SumFunctionOnSet(Bytes(g), DOMAIN h.obj)
    BY <1>0, <2>1, <2>5, SumAdd
  <2> QED BY <1>0, <1>4, <2>1, <2>3, <2>4, <2>6 DEF Held
<1>7. /\ g.obj[f].kind = kind /\ g.obj[f].items = items
      /\ g.obj[f].bytes = b /\ g.obj[f].home = "now"
      /\ g.obj[f].top = (IF kind = "cell" THEN 0 ELSE s.top)
      /\ g.obj[f].count = (IF kind = "cell" THEN 0 ELSE s.count)
  BY <1>3, <1>4
<1> QED BY <1>2, <1>4, <1>5, <1>6, <1>7 DEF g, f, b, s

\* Tracked::drop keeps what the roots lead to and gives the rest back.
LEMMA DroppedIs ==
  ASSUME NEW h, Good(h), NEW roots \in SUBSET DOMAIN h.obj
  PROVE  LET g == Dropped(h, roots)
         IN  /\ Good(g)
             /\ DOMAIN g.obj \subseteq DOMAIN h.obj
             /\ roots \subseteq DOMAIN g.obj
             /\ \A a \in DOMAIN g.obj : g.obj[a] = h.obj[a]
             /\ g.live <= h.live
             /\ \A n \in Nat : h.live = Held(h) + n => g.live = Held(g) + n
<1> DEFINE D == DOMAIN h.obj
           A == Alive(h, roots)
           n == SumFunctionOnSet(Bytes(h), D \ A)
           k == Freed(h, n)
           g == Dropped(h, roots)
<1>1. IsFiniteSet(D) /\ (\A a \in D : Bytes(h)[a] \in Nat) /\ Held(h) \in Nat
  BY GoodIs
<1>2. roots \subseteq A /\ A \subseteq D /\ Closed(h, A)
  BY AliveIs, GoodIs
<1>3. IsFiniteSet(A) /\ IsFiniteSet(D \ A)
  BY <1>1, <1>2, FS_Subset
<1>4. n \in Nat
  BY <1>1, <1>3, SumNat
<1>5. Held(h) = SumFunctionOnSet(Bytes(h), A) + n
  BY <1>1, <1>2, SumSplit DEF Held
<1>6. SumFunctionOnSet(Bytes(h), A) \in Nat
  BY <1>1, <1>2, <1>3, SumNat
<1>7. Good(k) /\ k.obj = h.obj /\ k.live <= h.live /\ (n <= h.live => k.live = h.live - n)
  BY <1>4, FreedIs
<1>8. DOMAIN g = {"obj", "live"} /\ g.live = k.live /\ g.obj = [a \in A |-> h.obj[a]]
  <2>1. g = [k EXCEPT !.obj = Restrict(@, A)]
    BY DEF Dropped
  <2> HIDE DEF g, k, A
  <2>2. DOMAIN k = {"obj", "live"}
    BY <1>7 DEF Good
  <2>3. DOMAIN g = {"obj", "live"} /\ g.live = k.live /\ g.obj = Restrict(k.obj, A)
    BY <2>1, <2>2
  <2> QED BY <1>7, <2>3 DEF Restrict
<1> HIDE DEF g, k, A, n, D
<1>9. DOMAIN g.obj = A /\ \A a \in A : g.obj[a] = h.obj[a]
  BY <1>8
<1>10. Good(g)
  <2>1. \A a \in A : Object(h.obj[a]) /\ Holds(h, h.obj[a].items)
    BY <1>2 DEF Good, D
  <2>2. \A a \in A : Holds(g, h.obj[a].items)
    <3> SUFFICES ASSUME NEW a \in A, NEW i \in DOMAIN h.obj[a].items
                 PROVE  h.obj[a].items[i] \in {Scalar} \union A
      BY <1>9 DEF Holds
    <3>1. Elements(h.obj[a]) \subseteq A
      BY <1>2 DEF Closed
    <3>2. h.obj[a].items[i] = Scalar \/ h.obj[a].items[i] \in Elements(h.obj[a])
      BY DEF Elements, Range
    <3> QED BY <3>1, <3>2
  <2>3. A \subseteq Address
    BY <1>2 DEF Good, D
  <2>4. g.live \in Nat
    BY <1>7, <1>8 DEF Good
  <2>5. \A a \in DOMAIN g.obj : Object(g.obj[a]) /\ Holds(g, g.obj[a].items)
    BY <1>9, <2>1, <2>2
  <2> QED BY <1>8, <1>9, <2>3, <2>4, <2>5 DEF Good
<1>11. Held(g) = SumFunctionOnSet(Bytes(h), A)
  <2>1. \A a \in A : Bytes(g)[a] = Bytes(h)[a]
    BY <1>2, <1>9 DEF Bytes, D
  <2>2. SumFunctionOnSet(Bytes(g), A) = SumFunctionOnSet(Bytes(h), A)
    BY <1>3, <2>1, SumSame
  <2> QED BY <1>9, <2>2 DEF Held
<1>12. ASSUME NEW m \in Nat, h.live = Held(h) + m PROVE g.live = Held(g) + m
  BY <1>4, <1>5, <1>6, <1>7, <1>8, <1>11, <1>12
<1> QED BY <1>2, <1>7, <1>8, <1>9, <1>10, <1>12 DEF g, D

\* One field of one object.
LEMMA FieldSet ==
  ASSUME NEW h, DOMAIN h = {"obj", "live"}, NEW t \in DOMAIN h.obj,
         NEW k \in DOMAIN h.obj[t], NEW v,
         NEW g, g = [h EXCEPT !.obj[t][k] = v]
  PROVE  /\ DOMAIN g = {"obj", "live"} /\ g.live = h.live
         /\ DOMAIN g.obj = DOMAIN h.obj
         /\ \A b \in DOMAIN h.obj \ {t} : g.obj[b] = h.obj[b]
         /\ DOMAIN g.obj[t] = DOMAIN h.obj[t]
         /\ g.obj[t][k] = v
         /\ \A q \in DOMAIN h.obj[t] \ {k} : g.obj[t][q] = h.obj[t][q]
<1>1. DOMAIN g = {"obj", "live"} /\ g.live = h.live /\ g.obj = [h.obj EXCEPT ![t][k] = v]
  OBVIOUS
<1>2. /\ DOMAIN g.obj = DOMAIN h.obj
      /\ \A b \in DOMAIN h.obj \ {t} : g.obj[b] = h.obj[b]
      /\ g.obj[t] = [h.obj[t] EXCEPT ![k] = v]
  BY ONLY <1>1, t \in DOMAIN h.obj
<1>3. /\ DOMAIN g.obj[t] = DOMAIN h.obj[t]
      /\ g.obj[t][k] = v
      /\ \A q \in DOMAIN h.obj[t] \ {k} : g.obj[t][q] = h.obj[t][q]
  BY ONLY <1>2, k \in DOMAIN h.obj[t]
<1> QED BY <1>1, <1>2, <1>3

\* A heap with one object changed.
LEMMA ObjectSet ==
  ASSUME NEW h, Good(h), NEW t \in DOMAIN h.obj, NEW g,
         DOMAIN g = {"obj", "live"}, g.live \in Nat, DOMAIN g.obj = DOMAIN h.obj,
         \A b \in DOMAIN h.obj \ {t} : g.obj[b] = h.obj[b],
         Object(g.obj[t]), Holds(h, g.obj[t].items)
  PROVE  Good(g) /\ Held(g) + Bytes(h)[t] = Held(h) + Bytes(g)[t]
<1>1. Good(g)
  <2>1. \A b \in DOMAIN g.obj : Object(g.obj[b]) /\ Holds(h, g.obj[b].items)
    BY DEF Good
  <2>2. \A b \in DOMAIN g.obj : Object(g.obj[b]) /\ Holds(g, g.obj[b].items)
    BY <2>1 DEF Holds
  <2>3. DOMAIN g.obj \subseteq Address
    BY DEF Good
  <2> QED BY <2>2, <2>3 DEF Good
<1>2. IsFiniteSet(DOMAIN h.obj)
  BY GoodIs
<1>3. \A b \in DOMAIN h.obj : Bytes(h)[b] \in Nat /\ Bytes(g)[b] \in Nat
  BY <1>1, GoodIs
<1>4. \A b \in DOMAIN h.obj \ {t} : Bytes(g)[b] = Bytes(h)[b]
  BY DEF Bytes
<1>5. SumFunctionOnSet(Bytes(h), DOMAIN h.obj) + Bytes(g)[t]
        = SumFunctionOnSet(Bytes(g), DOMAIN h.obj) + Bytes(h)[t]
  BY ONLY <1>2, <1>3, <1>4, t \in DOMAIN h.obj, SumChange
<1> QED BY <1>1, <1>5 DEF Held

\* A cell gets another value.
Recelled(g, h, c) ==
  /\ Good(g) /\ g.live = h.live /\ Held(g) = Held(h)
  /\ DOMAIN g.obj = DOMAIN h.obj
  /\ \A b \in DOMAIN h.obj \ {c} : g.obj[b] = h.obj[b]
  /\ g.obj[c].kind = "cell"
  /\ g.obj[c].top = h.obj[c].top /\ g.obj[c].count = h.obj[c].count

\* A cell gets another value.
LEMMA CellSet ==
  ASSUME NEW h, Good(h), NEW c \in DOMAIN h.obj, h.obj[c].kind = "cell",
         NEW v \in {Scalar} \union DOMAIN h.obj,
         NEW g, g = [h EXCEPT !.obj[c].items = <<v>>]
  PROVE  Recelled(g, h, c)
<1>1. DOMAIN h = {"obj", "live"} /\ Object(h.obj[c]) /\ h.live \in Nat
  BY DEF Good
<1>2. "items" \in DOMAIN h.obj[c]
  BY <1>1 DEF Object
<1>3. /\ DOMAIN g = {"obj", "live"} /\ g.live = h.live
      /\ DOMAIN g.obj = DOMAIN h.obj
      /\ \A b \in DOMAIN h.obj \ {c} : g.obj[b] = h.obj[b]
      /\ DOMAIN g.obj[c] = DOMAIN h.obj[c]
      /\ g.obj[c].items = <<v>>
      /\ \A q \in DOMAIN h.obj[c] \ {"items"} : g.obj[c][q] = h.obj[c][q]
  BY <1>1, <1>2, FieldSet
<1>4. /\ g.obj[c].kind = h.obj[c].kind /\ g.obj[c].bytes = h.obj[c].bytes
      /\ g.obj[c].home = h.obj[c].home
      /\ g.obj[c].top = h.obj[c].top /\ g.obj[c].count = h.obj[c].count
  BY <1>1, <1>3 DEF Object
<1>5. v \in Nat
  BY GoodIs DEF Scalar
<1>6. Formed("cell", <<v>>) /\ Holds(h, <<v>>)
  BY <1>5 DEF Formed, Holds
<1>7. Object(g.obj[c]) /\ Holds(h, g.obj[c].items)
  BY <1>1, <1>3, <1>4, <1>6 DEF Object
<1>8. Good(g)
  BY <1>1, <1>3, <1>7, ObjectSet
<1>9. Held(g) = Held(h)
  <2>1. \A a \in DOMAIN h.obj : g.obj[a].bytes = h.obj[a].bytes /\ g.obj[a].home = h.obj[a].home
    BY <1>3, <1>4
  <2> QED BY <1>3, <2>1, HeldSame
<1> QED BY <1>3, <1>4, <1>8, <1>9 DEF Recelled

-----------------------------------------------------------------------------
(* What holds the objects *)

IsCell(h, c) == c \in DOMAIN h.obj /\ h.obj[c].kind = "cell"

FrameSet == [kind : {"block", "try"}, charge : Nat, local : Nat]

EntrySet ==
  [key : ({"binding"} \X Var) \union ({"cell"} \X Address) \union ({"local"} \X Nat),
   cell : Nat, old : Nat]

ScopeIn(h, s) == s \in [Var -> Nat] /\ \A x \in Var : s[x] # NoCell => IsCell(h, s[x])

ValueIn(h, v) == v \in {Nothing, Scalar} \union DOMAIN h.obj

FramesIn(h, f) ==
  f \in Seq(FrameSet) /\ \A i \in 1 .. Len(f) : f[i].local # NoCell => f[i].local \in DOMAIN h.obj

\* An entry for a cell is of that cell.
UndoIn(h, u) ==
  /\ u \in Seq(EntrySet)
  /\ \A i \in 1 .. Len(u) :
       /\ u[i].cell # NoCell => IsCell(h, u[i].cell)
       /\ u[i].old # Scalar => u[i].old \in DOMAIN h.obj
       /\ \A c \in Address : u[i].key = CellKey(c) => u[i].cell = c

Sound(h, s, v, f, u) ==
  Good(h) /\ ScopeIn(h, s) /\ ValueIn(h, v) /\ FramesIn(h, f) /\ UndoIn(h, u)

\* What frames and entries are charged.
Charges(f) == SumFunctionOnSet([i \in DOMAIN f |-> f[i].charge], DOMAIN f)

Owes(u, f) == JournalBytes * Len(u) + Charges(f)

\* The counter is what the objects were charged and n more.
Exact(h, n) == h.live = Held(h) + n /\ h.live <= HeapLimit

Ledger(h, u, f, changed) == changed \in BOOLEAN /\ (~changed => Exact(h, Owes(u, f)))

HandlesOf(s, v, f, u) ==
  ({s[x] : x \in Var} \union {f[i].local : i \in DOMAIN f}
     \union {u[i].cell : i \in DOMAIN u} \union {u[i].old : i \in DOMAIN u}
     \union {v}) \ {Scalar, Nothing}

\* g has the objects of h.
Extends(g, h) ==
  \A a \in DOMAIN h.obj : a \in DOMAIN g.obj /\ g.obj[a].kind = h.obj[a].kind

\* Handles stay good while objects are only added or changed.
LEMMA SoundExtends ==
  ASSUME NEW h, NEW g, NEW s, NEW v, NEW f, NEW u,
         Sound(h, s, v, f, u), Good(g), Extends(g, h)
  PROVE  Sound(g, s, v, f, u)
BY DEF Sound, Extends, ScopeIn, ValueIn, FramesIn, UndoIn, IsCell

\* The charges of frames are a number.
LEMMA ChargesNat ==
  ASSUME NEW f \in Seq(FrameSet)
  PROVE  Charges(f) \in Nat
<1>1. DOMAIN f = 1 .. Len(f) /\ Len(f) \in Nat
  OBVIOUS
<1>2. IsFiniteSet(DOMAIN f)
  BY <1>1, FS_Interval
<1>3. \A i \in DOMAIN f : f[i] \in FrameSet
  OBVIOUS
<1>4. \A i \in DOMAIN f : f[i].charge \in Nat
  BY <1>3 DEF FrameSet
<1> DEFINE F == [i \in DOMAIN f |-> f[i].charge]
<1>5. \A i \in DOMAIN f : F[i] \in Nat
  BY <1>4
<1> QED BY <1>2, <1>5, SumNat DEF Charges

\* One frame more.
LEMMA ChargesMore ==
  ASSUME NEW f \in Seq(FrameSet), NEW e \in FrameSet
  PROVE  /\ Append(f, e) \in Seq(FrameSet)
         /\ Charges(Append(f, e)) = Charges(f) + e.charge
<1> DEFINE g == Append(f, e)
           n == Len(f)
           F == [i \in DOMAIN f |-> f[i].charge]
           G == [i \in DOMAIN g |-> g[i].charge]
<1>1. /\ n \in Nat /\ DOMAIN f = 1 .. n /\ DOMAIN g = (1 .. n) \union {n + 1} /\ g \in Seq(FrameSet)
      /\ g[n + 1] = e /\ \A i \in 1 .. n : g[i] = f[i]
  OBVIOUS
<1> HIDE DEF g, n
<1>2. IsFiniteSet(1 .. n) /\ n + 1 \notin 1 .. n
  BY <1>1, FS_Interval
<1>3. e.charge \in Nat /\ \A i \in 1 .. n : f[i].charge \in Nat
  <2>1. \A i \in 1 .. n : f[i] \in FrameSet
    BY <1>1
  <2> QED BY <2>1 DEF FrameSet
<1>4. /\ \A i \in 1 .. n : G[i] = F[i]
      /\ \A i \in (1 .. n) \union {n + 1} : G[i] \in Nat
      /\ G[n + 1] = e.charge
  BY <1>1, <1>3
<1>5. Charges(f) = SumFunctionOnSet(F, 1 .. n) /\ Charges(g) = SumFunctionOnSet(G, (1 .. n) \union {n + 1})
  BY <1>1 DEF Charges
<1> HIDE DEF F, G
<1>6. SumFunctionOnSet(G, (1 .. n) \union {n + 1}) = G[n + 1] + SumFunctionOnSet(G, 1 .. n)
  BY <1>2, <1>4, SumAdd
<1>7. SumFunctionOnSet(G, 1 .. n) = SumFunctionOnSet(F, 1 .. n)
  BY <1>2, <1>4, SumSame
<1>8. Charges(f) \in Nat
  BY ChargesNat
<1>9. Charges(g) = Charges(f) + e.charge
  BY <1>3, <1>4, <1>5, <1>6, <1>7, <1>8
<1> QED BY <1>1, <1>9 DEF g

\* The last frame goes.
LEMMA ChargesLess ==
  ASSUME NEW f \in Seq(FrameSet), f # <<>>
  PROVE  /\ SubSeq(f, 1, Len(f) - 1) \in Seq(FrameSet)
         /\ Charges(f) = Charges(SubSeq(f, 1, Len(f) - 1)) + f[Len(f)].charge
         /\ Len(SubSeq(f, 1, Len(f) - 1)) = Len(f) - 1
         /\ \A i \in 1 .. Len(f) - 1 : SubSeq(f, 1, Len(f) - 1)[i] = f[i]
         /\ f[Len(f)] \in FrameSet
<1> DEFINE g == SubSeq(f, 1, Len(f) - 1)
           e == f[Len(f)]
<1>1. /\ Len(f) \in Nat /\ Len(f) > 0 /\ DOMAIN f = 1 .. Len(f)
  OBVIOUS
<1>2. g \in Seq(FrameSet) /\ Len(g) = Len(f) - 1 /\ \A i \in 1 .. Len(f) - 1 : g[i] = f[i]
  BY <1>1
<1>3. e \in FrameSet
  BY <1>1
<1> HIDE DEF g, e
<1>4. Append(g, e) = f
  <2>1. /\ Append(g, e) \in Seq(FrameSet) /\ Len(Append(g, e)) = Len(g) + 1
        /\ \A i \in 1 .. Len(g) : Append(g, e)[i] = g[i]
        /\ Append(g, e)[Len(g) + 1] = e
    BY <1>2, <1>3, AppendProperties
  <2>2. Len(Append(g, e)) = Len(f) /\ \A i \in 1 .. Len(f) : Append(g, e)[i] = f[i]
    BY ONLY <1>1, <1>2, <2>1 DEF e
  <2> QED BY <2>1, <2>2, SeqEqual
<1>5. Charges(f) = Charges(g) + e.charge
  BY <1>2, <1>3, <1>4, ChargesMore
<1> QED BY <1>2, <1>3, <1>5 DEF g, e

\* One frame is another.
LEMMA ChargesChange ==
  ASSUME NEW f \in Seq(FrameSet), NEW n \in 1 .. Len(f), NEW e \in FrameSet
  PROVE  /\ [f EXCEPT ![n] = e] \in Seq(FrameSet)
         /\ Charges([f EXCEPT ![n] = e]) + f[n].charge = Charges(f) + e.charge
<1> DEFINE g == [f EXCEPT ![n] = e]
           F == [i \in DOMAIN f |-> f[i].charge]
           G == [i \in DOMAIN g |-> g[i].charge]
<1>1. /\ Len(f) \in Nat /\ DOMAIN f = 1 .. Len(f) /\ DOMAIN g = 1 .. Len(f) /\ g \in Seq(FrameSet)
      /\ g[n] = e /\ \A i \in 1 .. Len(f) : i # n => g[i] = f[i]
  OBVIOUS
<1> HIDE DEF g
<1>2. IsFiniteSet(1 .. Len(f))
  BY <1>1, FS_Interval
<1>3. \A i \in 1 .. Len(f) : f[i].charge \in Nat /\ g[i].charge \in Nat
  <2>1. \A i \in 1 .. Len(f) : f[i] \in FrameSet /\ g[i] \in FrameSet
    BY <1>1
  <2> QED BY <2>1 DEF FrameSet
<1>4. /\ \A i \in 1 .. Len(f) : F[i] \in Nat /\ G[i] \in Nat
      /\ \A i \in (1 .. Len(f)) \ {n} : F[i] = G[i]
      /\ F[n] = f[n].charge /\ G[n] = e.charge
  BY <1>1, <1>3
<1>5. Charges(f) = SumFunctionOnSet(F, 1 .. Len(f)) /\ Charges(g) = SumFunctionOnSet(G, 1 .. Len(f))
  BY <1>1 DEF Charges
<1> HIDE DEF F, G
<1>6. SumFunctionOnSet(F, 1 .. Len(f)) + G[n] = SumFunctionOnSet(G, 1 .. Len(f)) + F[n]
  BY <1>2, <1>4, SumChange, Zenon
<1> QED BY <1>1, <1>4, <1>5, <1>6 DEF g

\* Roots are objects of the heap.
LEMMA RootsIn ==
  ASSUME NEW h, NEW s, NEW v, NEW f, NEW u, Sound(h, s, v, f, u)
  PROVE  HandlesOf(s, v, f, u) \subseteq DOMAIN h.obj
<1>1. DOMAIN f = 1 .. Len(f) /\ DOMAIN u = 1 .. Len(u)
  BY DEF Sound, FramesIn, UndoIn
<1> QED
  BY <1>1 DEF HandlesOf, Sound, ScopeIn, ValueIn, FramesIn, UndoIn, IsCell, NoCell, Scalar, Nothing

\* What Settle leaves is sound and as exact as before.
LEMMA SettleKeeps ==
  ASSUME NEW h, NEW s, NEW v, NEW f, NEW u, NEW changed,
         Sound(h, s, v, f, u), Ledger(h, u, f, changed),
         NEW g, g = Dropped(h, HandlesOf(s, v, f, u))
  PROVE  Sound(g, s, v, f, u) /\ Ledger(g, u, f, changed)
<1> DEFINE roots == HandlesOf(s, v, f, u)
<1>0. DOMAIN f = 1 .. Len(f) /\ DOMAIN u = 1 .. Len(u) /\ Len(u) \in Nat
  BY DEF Sound, FramesIn, UndoIn
<1>1. roots \subseteq DOMAIN h.obj
  BY RootsIn
<1>2. Good(h)
  BY DEF Sound
<1>3. /\ Good(g)
      /\ DOMAIN g.obj \subseteq DOMAIN h.obj
      /\ roots \subseteq DOMAIN g.obj
      /\ \A a \in DOMAIN g.obj : g.obj[a] = h.obj[a]
      /\ g.live <= h.live
      /\ \A n \in Nat : h.live = Held(h) + n => g.live = Held(g) + n
  BY <1>1, <1>2, DroppedIs
<1>4. Nothing # Scalar /\ 0 \notin DOMAIN h.obj /\ -1 \notin DOMAIN h.obj
  BY <1>2, GoodIs DEF Nothing, Scalar
<1>5. Sound(g, s, v, f, u)
  <2>1. \A x \in Var : s[x] # NoCell => s[x] \in roots
    BY <1>4 DEF HandlesOf, Sound, ScopeIn, NoCell, Scalar, Nothing, IsCell
  <2>2. v \in {Nothing, Scalar} \/ v \in roots
    BY DEF HandlesOf
  <2>3. \A i \in 1 .. Len(f) : f[i].local # NoCell => f[i].local \in roots
    BY <1>0, <1>4 DEF HandlesOf, Sound, FramesIn, NoCell, Scalar, Nothing
  <2>4. \A i \in 1 .. Len(u) : /\ u[i].cell # NoCell => u[i].cell \in roots
                               /\ u[i].old # Scalar => u[i].old \in roots
    BY <1>0, <1>4 DEF HandlesOf, Sound, UndoIn, NoCell, Scalar, Nothing, IsCell
  <2> HIDE DEF roots
  <2>5. ScopeIn(g, s)
    BY <1>3, <2>1 DEF Sound, ScopeIn, IsCell
  <2>6. ValueIn(g, v)
    BY <1>3, <2>2 DEF ValueIn
  <2>7. FramesIn(g, f)
    BY <1>3, <2>3 DEF Sound, FramesIn
  <2>8. UndoIn(g, u)
    BY <1>3, <2>4 DEF Sound, UndoIn, IsCell
  <2> QED BY <1>3, <2>5, <2>6, <2>7, <2>8 DEF Sound
<1>6. Ledger(g, u, f, changed)
  <2>1. Charges(f) \in Nat /\ Owes(u, f) \in Nat
    BY <1>0, ChargesNat DEF Sound, FramesIn, JournalBytes, Owes
  <2>2. h.live \in Nat /\ g.live \in Nat /\ HeapLimit \in Nat
    BY <1>2, <1>3, HeapAssumption DEF Good
  <2>3. Exact(h, Owes(u, f)) => Exact(g, Owes(u, f))
    BY <1>3, <2>1, <2>2 DEF Exact
  <2> QED BY <2>3 DEF Ledger
<1> QED BY <1>5, <1>6

-----------------------------------------------------------------------------
(* Depths *)

\* Among finitely many there is a largest.
LEMMA Highest ==
  ASSUME NEW S, IsFiniteSet(S), S # {}, NEW f, \A x \in S : f[x] \in Nat
  PROVE  \E m \in S : \A k \in S : f[k] <= f[m]
<1> DEFINE P == {T \in SUBSET S : T = {} \/ \E m \in T : \A k \in T : f[k] <= f[m]}
<1>1. {} \in P
  OBVIOUS
<1>2. ASSUME NEW T \in SUBSET S, NEW x \in S, T \in P, x \notin T
      PROVE  T \union {x} \in P
  <2>1. CASE T = {}
    BY <2>1
  <2>2. CASE T # {}
    <3>1. PICK m \in T : \A k \in T : f[k] <= f[m]
      BY <1>2, <2>2
    <3>2. CASE f[x] <= f[m]
      <4>1. \A k \in T \union {x} : f[k] <= f[m]
        BY <3>1, <3>2
      <4> QED BY <4>1
    <3>3. CASE ~(f[x] <= f[m])
      <4>1. \A k \in T : f[k] \in Nat /\ f[m] \in Nat /\ f[x] \in Nat
        OBVIOUS
      <4>2. \A k \in T \union {x} : f[k] <= f[x]
        BY <3>1, <3>3, <4>1
      <4> QED BY <4>2
    <3> QED BY <3>2, <3>3
  <2> QED BY <2>1, <2>2
<1> HIDE DEF P
<1>3. \A T \in SUBSET S : T \in P
  BY <1>1, <1>2, FiniteInduction
<1>4. S \in P
  BY <1>3
<1> QED BY <1>4 DEF P

Numbered(h, q) == IsFiniteSet(DOMAIN q) /\ \A i \in DOMAIN q : DepthIn(h, q[i]) \in Nat

Deepest(h, q, d) == {i \in DOMAIN q : DepthIn(h, q[i]) = d}

\* What a summary has to be.
Describes(s, h, q) ==
  /\ s = [top |-> s.top, count |-> s.count]
  /\ s.top \in Nat
  /\ \A i \in DOMAIN q : DepthIn(h, q[i]) <= s.top
  /\ s.count = Cardinality(Deepest(h, q, s.top))
  /\ IF DOMAIN q = {} THEN s.top = 0 ELSE Deepest(h, q, s.top) # {}

\* What describes the elements is their summary.
LEMMA SummaryBy ==
  ASSUME NEW h, NEW q, Numbered(h, q), NEW s, Describes(s, h, q)
  PROVE  Summary(h, q) = s
<1> DEFINE D == {DepthIn(h, q[i]) : i \in DOMAIN q}
           top == IF D = {} THEN 0 ELSE Max(D)
<1>1. Summary(h, q) = [top |-> top, count |-> Cardinality({i \in DOMAIN q : DepthIn(h, q[i]) = top})]
  BY DEF Summary
<1>2. top = s.top
  <2>1. CASE DOMAIN q = {}
    BY <2>1 DEF Describes
  <2>2. CASE DOMAIN q # {}
    <3>1. s.top \in D /\ \A d \in D : d <= s.top
      BY <2>2 DEF Describes, Deepest
    <3>2. D \subseteq Nat
      BY DEF Numbered
    <3>3. Max(D) \in D /\ \A d \in D : Max(D) >= d
      BY <3>1, <3>2 DEF Max
    <3>4. Max(D) = s.top
      <4> HIDE DEF D
      <4>1. Max(D) \in Nat /\ s.top \in Nat /\ Max(D) >= s.top /\ Max(D) <= s.top
        BY <3>1, <3>2, <3>3
      <4> QED BY <4>1
    <3> QED BY <3>1, <3>4
  <2> QED BY <2>1, <2>2
<1> HIDE DEF top, D
<1> QED BY <1>1, <1>2 DEF Describes, Deepest

\* A summary describes its elements.
LEMMA SummaryIs ==
  ASSUME NEW h, NEW q, Numbered(h, q)
  PROVE  Describes(Summary(h, q), h, q)
<1>1. CASE DOMAIN q = {}
  <2> DEFINE s == [top |-> 0, count |-> Cardinality(Deepest(h, q, 0))]
  <2>1. Describes(s, h, q)
    BY <1>1 DEF Describes
  <2> HIDE DEF s
  <2> QED BY <2>1, SummaryBy
<1>2. CASE DOMAIN q # {}
  <2> DEFINE f == [i \in DOMAIN q |-> DepthIn(h, q[i])]
  <2>1. PICK m \in DOMAIN q : \A k \in DOMAIN q : f[k] <= f[m]
    <3>1. \A i \in DOMAIN q : f[i] \in Nat
      BY DEF Numbered
    <3> HIDE DEF f
    <3> QED BY <1>2, <3>1, Highest DEF Numbered
  <2> DEFINE d == DepthIn(h, q[m])
             s == [top |-> d, count |-> Cardinality(Deepest(h, q, d))]
  <2>2. Describes(s, h, q)
    <3>1. d \in Nat /\ \A i \in DOMAIN q : DepthIn(h, q[i]) <= d
      BY <2>1 DEF Numbered
    <3>2. m \in Deepest(h, q, d)
      BY DEF Deepest
    <3> HIDE DEF d
    <3> QED BY <1>2, <3>1, <3>2 DEF Describes
  <2> HIDE DEF s
  <2> QED BY <2>2, SummaryBy
<1> QED BY <1>1, <1>2

\* Only the depths of the elements count.
LEMMA SummarySame ==
  ASSUME NEW h, NEW g, NEW q, \A i \in DOMAIN q : DepthIn(g, q[i]) = DepthIn(h, q[i])
  PROVE  Summary(g, q) = Summary(h, q)
<1>1. {DepthIn(g, q[i]) : i \in DOMAIN q} = {DepthIn(h, q[i]) : i \in DOMAIN q}
  OBVIOUS
<1>2. \A d : {i \in DOMAIN q : DepthIn(g, q[i]) = d} = {i \in DOMAIN q : DepthIn(h, q[i]) = d}
  OBVIOUS
<1> QED BY <1>1, <1>2 DEF Summary

\* note_child_removed counts the deepest elements that stay.
LEMMA RemovedIs ==
  ASSUME NEW h, NEW q, Numbered(h, q), NEW s, Describes(s, h, q), NEW i \in DOMAIN q
  PROVE  ChildRemoved(s, DepthIn(h, q[i]))
           = [top |-> s.top, count |-> Cardinality(Deepest(h, q, s.top) \ {i})]
<1> DEFINE E == Deepest(h, q, s.top)
           d == DepthIn(h, q[i])
<1>1. IsFiniteSet(E)
  BY FS_Subset DEF Deepest, Numbered
<1>2. Cardinality(E \ {i}) = IF i \in E THEN Cardinality(E) - 1 ELSE Cardinality(E)
  BY <1>1, FS_RemoveElement
<1>3. s = [top |-> s.top, count |-> Cardinality(E)]
  BY DEF Describes
<1>4. i \in E <=> d = s.top
  BY DEF Deepest
<1>5. Cardinality(E) \in Nat /\ (i \in E => Cardinality(E) # 0)
  BY <1>1, FS_CardinalityType, FS_EmptySet
<1> HIDE DEF E, d
<1>6. CASE i \in E
  <2>1. d = s.top /\ s.count > 0 /\ s.count = Cardinality(E)
    BY <1>3, <1>4, <1>5, <1>6
  <2>2. ChildRemoved(s, d) = [s EXCEPT !.count = @ - 1]
    BY <2>1 DEF ChildRemoved
  <2>3. [s EXCEPT !.count = @ - 1] = [top |-> s.top, count |-> Cardinality(E) - 1]
    <3>1. PICK t, n : t = s.top /\ n = Cardinality(E)
      OBVIOUS
    <3>2. s = [top |-> t, count |-> n]
      BY <1>3, <3>1
    <3>3. [s EXCEPT !.count = @ - 1] = [top |-> t, count |-> n - 1]
      BY <3>2
    <3> QED BY <3>1, <3>3
  <2> QED BY <1>2, <1>6, <2>2, <2>3 DEF E, d
<1>7. CASE i \notin E
  <2>1. ChildRemoved(s, d) = s
    BY <1>4, <1>7 DEF ChildRemoved
  <2> QED BY <1>2, <1>3, <1>7, <2>1 DEF E, d
<1> QED BY <1>6, <1>7

\* note_child_added: a deeper element, an equally deep one, or another.
LEMMA ChildAddedIs ==
  ASSUME NEW t \in Nat, NEW n \in Nat, NEW d \in Nat
  PROVE  ChildAdded([top |-> t, count |-> n], d)
           = IF d > t THEN [top |-> d, count |-> 1]
             ELSE IF d = t THEN [top |-> t, count |-> n + 1]
             ELSE [top |-> t, count |-> n]
BY DEF ChildAdded

\* note_child_added, for an element at i beside those that stay.
LEMMA AddedIs ==
  ASSUME NEW h, NEW q, Numbered(h, q), NEW s, Describes(s, h, q),
         NEW i, NEW r, Numbered(h, r), DOMAIN r = DOMAIN q \union {i},
         \A j \in DOMAIN q \ {i} : r[j] = q[j],
         NEW less, less = [top |-> s.top, count |-> Cardinality(Deepest(h, q, s.top) \ {i})],
         NEW more, more = ChildAdded(less, DepthIn(h, r[i]))
  PROVE  /\ more.count # 0 => Describes(more, h, r)
         /\ i \notin DOMAIN q => more.count # 0
<1> DEFINE E == Deepest(h, q, s.top) \ {i}
           d == DepthIn(h, r[i])
           n == Cardinality(E)
<1>0. IsFiniteSet(E)
  <2>1. IsFiniteSet(Deepest(h, q, s.top))
    BY FS_Subset DEF Deepest, Numbered
  <2> QED BY <2>1, FS_RemoveElement
<1>1. n \in Nat /\ d \in Nat /\ s.top \in Nat
  BY <1>0, FS_CardinalityType DEF Numbered, Describes
<1>2. \A j \in DOMAIN q \ {i} : DepthIn(h, r[j]) = DepthIn(h, q[j]) /\ DepthIn(h, r[j]) <= s.top
  BY DEF Describes
<1>3. less.top = s.top /\ less.count = n /\ less = [top |-> s.top, count |-> n]
  OBVIOUS
<1>4. \A e : Deepest(h, r, e) = {j \in DOMAIN q \ {i} : DepthIn(h, q[j]) = e}
                                  \union (IF d = e THEN {i} ELSE {})
  BY <1>2 DEF Deepest
<1>5. Deepest(h, r, s.top) = E \union (IF d = s.top THEN {i} ELSE {})
  BY <1>4 DEF Deepest
<1>6. i \notin DOMAIN q /\ d < s.top => n # 0
  <2>1. ASSUME i \notin DOMAIN q, d < s.top PROVE E # {}
    <3>0. DOMAIN q = {} => s.top = 0
      BY DEF Describes
    <3> HIDE DEF d
    <3>1. DOMAIN q # {}
      <4>1. ASSUME s.top = 0 PROVE FALSE
        BY <1>1, <2>1, <4>1
      <4> QED BY <3>0, <4>1
    <3>2. Deepest(h, q, s.top) # {}
      BY <3>1 DEF Describes
    <3>3. i \notin Deepest(h, q, s.top)
      BY <2>1 DEF Deepest
    <3> QED BY <3>2, <3>3
  <2> HIDE DEF E
  <2> QED BY <1>0, <2>1, FS_EmptySet
<1>11. more = IF d > s.top THEN [top |-> d, count |-> 1]
              ELSE IF d = s.top THEN [top |-> s.top, count |-> n + 1]
              ELSE [top |-> s.top, count |-> n]
  <2>1. more = ChildAdded([top |-> s.top, count |-> n], d)
    BY <1>3
  <2> HIDE DEF n, d
  <2> QED BY ONLY <1>1, <2>1, ChildAddedIs
<1>7. CASE d > s.top
  <2>1. more = [top |-> d, count |-> 1]
    BY <1>3, <1>7, <1>11
  <2>2. Deepest(h, r, d) = {i}
    <3>1. \A j \in DOMAIN q \ {i} : DepthIn(h, q[j]) # d
      BY <1>1, <1>2, <1>7 DEF Numbered
    <3> QED BY <1>4, <3>1
  <2>3. \A j \in DOMAIN r : DepthIn(h, r[j]) <= d
    <3>1. \A j \in DOMAIN q \ {i} : DepthIn(h, r[j]) <= d
      BY <1>1, <1>2, <1>7 DEF Numbered
    <3>2. DepthIn(h, r[i]) <= d
      BY <1>1
    <3> QED BY <3>1, <3>2
  <2>4. Cardinality({i}) = 1
    BY FS_Singleton
  <2> HIDE DEF d
  <2>5. more.top = d /\ more.count = 1 /\ DOMAIN r # {}
    BY <2>1
  <2>6. Describes(more, h, r)
    BY ONLY <1>1, <2>1, <2>2, <2>3, <2>4, <2>5 DEF Describes
  <2> QED BY <2>5, <2>6
<1>8. ASSUME d <= s.top PROVE \A j \in DOMAIN r : DepthIn(h, r[j]) <= s.top
  BY <1>2, <1>8
<1>9. CASE d = s.top
  <2>1. more = [top |-> s.top, count |-> n + 1]
    <3> HIDE DEF d, n
    <3>1. ~(d > s.top)
      BY <1>1, <1>9
    <3> QED BY ONLY <1>9, <1>11, <3>1
  <2>2. Deepest(h, r, s.top) = E \union {i}
    BY <1>5, <1>9
  <2>3. Cardinality(E \union {i}) = n + 1
    BY <1>0, FS_AddElement
  <2>4. more.top = s.top /\ more.count = n + 1
    BY <2>1
  <2> HIDE DEF n, E, d
  <2>5. \A j \in DOMAIN r : DepthIn(h, r[j]) <= s.top
    BY <1>1, <1>8, <1>9
  <2>6. Deepest(h, r, s.top) # {} /\ n + 1 # 0
    BY <1>1, <2>2
  <2> QED BY <1>1, <2>1, <2>2, <2>3, <2>4, <2>5, <2>6 DEF Describes
<1>10. CASE d < s.top
  <2>1. more = less
    <3> HIDE DEF d, n
    <3>1. ~(d > s.top) /\ d # s.top
      BY <1>1, <1>10
    <3>2. more = [top |-> s.top, count |-> n]
      BY ONLY <1>11, <3>1
    <3> QED BY <1>3, <3>2
  <2>2. Deepest(h, r, s.top) = E
    BY <1>1, <1>5, <1>10
  <2>3. n # 0 => E # {}
    BY FS_EmptySet
  <2> HIDE DEF n, E, d
  <2>4. \A j \in DOMAIN r : DepthIn(h, r[j]) <= s.top
    BY <1>1, <1>8, <1>10
  <2> QED BY <1>1, <1>3, <1>6, <1>10, <2>1, <2>2, <2>3, <2>4 DEF Describes, n
<1> HIDE DEF d
<1> QED BY <1>1, <1>7, <1>9, <1>10

\* Without one element: what is counted is deepest as long as it is any.
LEMMA LeftOverIs ==
  ASSUME NEW h, NEW q, Numbered(h, q), NEW s, Describes(s, h, q),
         NEW i \in DOMAIN q, NEW r, DOMAIN r = DOMAIN q \ {i},
         \A j \in DOMAIN r : r[j] = q[j],
         NEW less, less = ChildRemoved(s, DepthIn(h, q[i])), less.count # 0
  PROVE  Describes(less, h, r)
<1> DEFINE E == Deepest(h, q, s.top) \ {i}
<1>1. less = [top |-> s.top, count |-> Cardinality(E)]
  BY RemovedIs
<1>2. Deepest(h, r, s.top) = E
  BY DEF Deepest
<1>3. E # {}
  BY <1>1, FS_EmptySet
<1>4. \A j \in DOMAIN r : DepthIn(h, r[j]) <= s.top
  BY DEF Describes
<1>5. s.top \in Nat /\ DOMAIN r # {}
  BY <1>2, <1>3 DEF Describes, Deepest
<1> HIDE DEF E
<1> QED BY <1>1, <1>2, <1>3, <1>4, <1>5 DEF Describes

\* settle_child_depth reads all of the elements when none is counted.
LEMMA SettledIs ==
  ASSUME NEW h, NEW r, Numbered(h, r), NEW s, s.count # 0 => Describes(s, h, r)
  PROVE  SettledSummary(h, r, s) = Summary(h, r)
BY SummaryBy DEF SettledSummary

\* A backing is at most one deeper than its elements.
LEMMA TopBelow ==
  ASSUME NEW h, NEW q, Numbered(h, q), NEW n \in Nat \ {0},
         \A i \in DOMAIN q : DepthIn(h, q[i]) < n
  PROVE  /\ Summary(h, q).top < n /\ Summary(h, q).top \in Nat
         /\ Summary(h, q).count \in Nat
         /\ Summary(h, q) = [top |-> Summary(h, q).top, count |-> Summary(h, q).count]
         /\ \A i \in DOMAIN q : DepthIn(h, q[i]) <= Summary(h, q).top
<1> DEFINE s == Summary(h, q)
<1>1. Describes(s, h, q)
  BY SummaryIs
<1> HIDE DEF s
<1>2. IsFiniteSet(Deepest(h, q, s.top))
  BY FS_Subset DEF Deepest, Numbered
<1>3. s.count \in Nat
  BY <1>1, <1>2, FS_CardinalityType DEF Describes
<1>4. s.top < n
  <2>1. CASE DOMAIN q = {}
    BY <1>1, <2>1 DEF Describes
  <2>2. CASE DOMAIN q # {}
    BY <1>1, <2>2 DEF Describes, Deepest
  <2> QED BY <2>1, <2>2
<1> QED BY <1>1, <1>3, <1>4 DEF s, Describes

-----------------------------------------------------------------------------
(* Heaps whose summaries are true *)

\* Every backing keeps the summary of its elements, none of which is at
\* MAX_VALUE_DEPTH.
Measured(h) ==
  \A a \in DOMAIN h.obj :
    LET o == h.obj[a]
    IN  /\ o.top \in Nat /\ o.count \in Nat
        /\ DOMAIN o.items \subseteq 1 .. MaxElements
        /\ o.kind # "cell" => /\ Summary(h, o.items) = [top |-> o.top, count |-> o.count]
                              /\ o.top < MaxValueDepth

\* What a new backing may hold.
Shallow(h, kind, items) ==
  /\ DOMAIN items \subseteq 1 .. MaxElements
  /\ kind # "cell" => \A i \in DOMAIN items : DepthIn(h, items[i]) < MaxValueDepth

\* The elements of a backing are finitely many, each with a depth.
LEMMA NumberedIs ==
  ASSUME NEW h, Measured(h), NEW q, Holds(h, q), DOMAIN q \subseteq 1 .. MaxElements
  PROVE  Numbered(h, q)
<1>1. IsFiniteSet(1 .. MaxElements)
  BY HeapAssumption, FS_Interval
<1>2. IsFiniteSet(DOMAIN q)
  BY <1>1, FS_Subset
<1>3. \A i \in DOMAIN q : DepthIn(h, q[i]) \in Nat
  <2>1. \A a \in DOMAIN h.obj : h.obj[a].top \in Nat
    BY DEF Measured
  <2> QED BY <2>1 DEF Holds, DepthIn
<1> QED BY <1>2, <1>3 DEF Numbered

\* check_element_depth
LEMMA NotTooDeep ==
  ASSUME NEW h, Measured(h)
  PROVE  /\ \A v \in {Scalar} \union DOMAIN h.obj :
              DepthIn(h, v) \in Nat /\ (~TooDeep(h, v) => DepthIn(h, v) < MaxValueDepth)
         /\ \A q : Holds(h, q) /\ (\A v \in Range(q) : ~TooDeep(h, v)) =>
              \A i \in DOMAIN q : DepthIn(h, q[i]) < MaxValueDepth
<1>1. \A v \in {Scalar} \union DOMAIN h.obj :
        DepthIn(h, v) \in Nat /\ (~TooDeep(h, v) => DepthIn(h, v) < MaxValueDepth)
  <2>1. \A a \in DOMAIN h.obj : h.obj[a].top \in Nat
    BY DEF Measured
  <2> QED BY <2>1, HeapAssumption DEF DepthIn, TooDeep
<1>2. \A q : \A i \in DOMAIN q : q[i] \in Range(q)
  BY DEF Range
<1> QED BY <1>1, <1>2 DEF Holds

\* Objects go, the cells among them get other values, no backing changes.
LEMMA MeasuredSame ==
  ASSUME NEW h, Measured(h), NEW g, Good(g), DOMAIN g.obj \subseteq DOMAIN h.obj,
         \A a \in DOMAIN g.obj :
           /\ g.obj[a].kind = h.obj[a].kind
           /\ g.obj[a].top = h.obj[a].top /\ g.obj[a].count = h.obj[a].count
           /\ g.obj[a].kind # "cell" => g.obj[a].items = h.obj[a].items
  PROVE  Measured(g)
<1> SUFFICES ASSUME NEW a \in DOMAIN g.obj
             PROVE  /\ g.obj[a].top \in Nat /\ g.obj[a].count \in Nat
                    /\ DOMAIN g.obj[a].items \subseteq 1 .. MaxElements
                    /\ g.obj[a].kind # "cell" =>
                         /\ Summary(g, g.obj[a].items)
                              = [top |-> g.obj[a].top, count |-> g.obj[a].count]
                         /\ g.obj[a].top < MaxValueDepth
  BY DEF Measured
<1>1. /\ g.obj[a].kind = h.obj[a].kind
      /\ g.obj[a].top = h.obj[a].top /\ g.obj[a].count = h.obj[a].count
  OBVIOUS
<1>2. h.obj[a].top \in Nat /\ h.obj[a].count \in Nat
      /\ DOMAIN h.obj[a].items \subseteq 1 .. MaxElements
  BY DEF Measured
<1>3. CASE g.obj[a].kind = "cell"
  <2>1. g.obj[a].items \in Seq(Nat) /\ Len(g.obj[a].items) = 1
    BY <1>3 DEF Good, Object, Formed
  <2>2. DOMAIN g.obj[a].items = 1 .. 1
    BY <2>1
  <2>3. 1 .. 1 \subseteq 1 .. MaxElements
    BY HeapAssumption
  <2> QED BY <1>1, <1>2, <1>3, <2>2, <2>3
<1>4. CASE g.obj[a].kind # "cell"
  <2>1. g.obj[a].items = h.obj[a].items
    BY <1>4
  <2>2. Summary(h, h.obj[a].items) = [top |-> h.obj[a].top, count |-> h.obj[a].count]
        /\ h.obj[a].top < MaxValueDepth
    BY <1>1, <1>4 DEF Measured
  <2>3. \A i \in DOMAIN g.obj[a].items :
          DepthIn(g, g.obj[a].items[i]) = DepthIn(h, g.obj[a].items[i])
    BY DEF Good, Holds, DepthIn
  <2>4. Summary(g, g.obj[a].items) = Summary(h, g.obj[a].items)
    BY <2>3, SummarySame
  <2> QED BY <1>1, <1>2, <2>1, <2>2, <2>4
<1> QED BY <1>3, <1>4

\* The counter has no part in it.
LEMMA MeasuredPlain ==
  ASSUME NEW h, Measured(h), NEW g, Good(g), g.obj = h.obj
  PROVE  Measured(g)
BY MeasuredSame

\* What is dropped leaves the summaries of the others true.
LEMMA MeasuredDrop ==
  ASSUME NEW h, Good(h), Measured(h), NEW roots \in SUBSET DOMAIN h.obj
  PROVE  Measured(Dropped(h, roots))
<1> DEFINE g == Dropped(h, roots)
<1>1. Good(g) /\ DOMAIN g.obj \subseteq DOMAIN h.obj /\ \A a \in DOMAIN g.obj : g.obj[a] = h.obj[a]
  BY DroppedIs
<1> HIDE DEF g
<1>2. Measured(g)
  BY <1>1, MeasuredSame
<1> QED BY <1>2 DEF g

\* One object is new or is a backing that is written to; no other backing holds
\* it, and a cell may get another value.
Beside(g, h, t) ==
  \A b \in DOMAIN h.obj \ {t} :
    /\ g.obj[b].kind = h.obj[b].kind
    /\ g.obj[b].top = h.obj[b].top /\ g.obj[b].count = h.obj[b].count
    /\ g.obj[b].kind # "cell" => /\ g.obj[b].items = h.obj[b].items
                                 /\ \A i \in DOMAIN h.obj[b].items : h.obj[b].items[i] # t

Placed(g, h, t, kind, items) ==
  /\ DOMAIN g.obj = DOMAIN h.obj \union {t}
  /\ g.obj[t].kind = kind /\ g.obj[t].items = items
  /\ \A i \in DOMAIN items : items[i] # t
  /\ g.obj[t].top = IF kind = "cell" THEN 0 ELSE Summary(h, items).top
  /\ g.obj[t].count = IF kind = "cell" THEN 0 ELSE Summary(h, items).count

\* One backing is new or written to, with its summary; the others are as before.
LEMMA MeasuredSet ==
  ASSUME NEW h, Measured(h), Good(h), NEW g, Good(g),
         NEW t, NEW kind, NEW items, Holds(h, items), Shallow(h, kind, items),
         Placed(g, h, t, kind, items), Beside(g, h, t)
  PROVE  Measured(g)
<1> USE DEF Placed, Beside
<1>1. \A v \in {Scalar} \union DOMAIN h.obj : v # t => DepthIn(g, v) = DepthIn(h, v)
  BY DEF DepthIn
<1>2. ASSUME NEW q, Holds(h, q), \A i \in DOMAIN q : q[i] # t
      PROVE  Summary(g, q) = Summary(h, q)
  <2>1. \A i \in DOMAIN q : DepthIn(g, q[i]) = DepthIn(h, q[i])
    BY <1>1, <1>2 DEF Holds
  <2> QED BY <2>1, SummarySame
<1> DEFINE Well(a) == /\ g.obj[a].top \in Nat /\ g.obj[a].count \in Nat
                      /\ DOMAIN g.obj[a].items \subseteq 1 .. MaxElements
                      /\ g.obj[a].kind # "cell" =>
                           /\ Summary(g, g.obj[a].items)
                                = [top |-> g.obj[a].top, count |-> g.obj[a].count]
                           /\ g.obj[a].top < MaxValueDepth
<1>3. Well(t)
  <2> DEFINE s == Summary(h, items)
  <2>1. DOMAIN items \subseteq 1 .. MaxElements
    BY DEF Shallow
  <2>2. CASE kind = "cell"
    BY <2>1, <2>2
  <2>3. CASE kind # "cell"
    <3>1. Numbered(h, items)
      BY <2>1, NumberedIs
    <3>2. \A i \in DOMAIN items : DepthIn(h, items[i]) < MaxValueDepth
      BY <2>3 DEF Shallow
    <3>3. Summary(g, items) = s
      BY <1>2
    <3>4. /\ s.top < MaxValueDepth /\ s.top \in Nat /\ s.count \in Nat
          /\ s = [top |-> s.top, count |-> s.count]
      BY <3>1, <3>2, HeapAssumption, TopBelow
    <3>5. g.obj[t].top = s.top /\ g.obj[t].count = s.count
      BY <2>3
    <3> HIDE DEF s
    <3> QED BY <2>1, <3>3, <3>4, <3>5
  <2> QED BY <2>2, <2>3
<1>4. ASSUME NEW a \in DOMAIN h.obj \ {t} PROVE Well(a)
  <2>1. /\ g.obj[a].kind = h.obj[a].kind
        /\ g.obj[a].top = h.obj[a].top /\ g.obj[a].count = h.obj[a].count
    BY <1>4
  <2>2. h.obj[a].top \in Nat /\ h.obj[a].count \in Nat
        /\ DOMAIN h.obj[a].items \subseteq 1 .. MaxElements
    BY <1>4 DEF Measured
  <2>3. CASE g.obj[a].kind = "cell"
    <3>1. g.obj[a].items \in Seq(Nat) /\ Len(g.obj[a].items) = 1
      BY <1>4, <2>3 DEF Good, Object, Formed
    <3>2. DOMAIN g.obj[a].items = 1 .. 1
      BY <3>1
    <3>3. 1 .. 1 \subseteq 1 .. MaxElements
      BY HeapAssumption
    <3> QED BY <2>1, <2>2, <2>3, <3>2, <3>3
  <2>4. CASE g.obj[a].kind # "cell"
    <3>1. /\ g.obj[a].items = h.obj[a].items
          /\ \A i \in DOMAIN h.obj[a].items : h.obj[a].items[i] # t
      BY <1>4, <2>4
    <3>2. Summary(h, h.obj[a].items) = [top |-> h.obj[a].top, count |-> h.obj[a].count]
          /\ h.obj[a].top < MaxValueDepth
      BY <1>4, <2>1, <2>4 DEF Measured
    <3>3. Holds(h, h.obj[a].items)
      BY <1>4 DEF Good
    <3>4. Summary(g, h.obj[a].items) = Summary(h, h.obj[a].items)
      BY <1>2, <3>1, <3>3
    <3> QED BY <2>1, <2>2, <3>1, <3>2, <3>4
  <2> QED BY <2>3, <2>4
<1>5. \A a \in DOMAIN g.obj : Well(a)
  BY <1>3, <1>4
<1> QED BY <1>5 DEF Measured

\* Tracked::new of a list or a dict whose elements were looked at, or of a cell.
LEMMA MeasuredMade ==
  ASSUME NEW h, Good(h), Measured(h), NEW n \in Nat \ {0}, HasFresh(h, n),
         NEW kind, NEW items, Formed(kind, items), Holds(h, items), Shallow(h, kind, items)
  PROVE  Measured(Made(h, kind, items))
<1> DEFINE g == Made(h, kind, items)
           t == Fresh(h)
           s == Summary(h, items)
<1>1. /\ Good(g)
      /\ DOMAIN g.obj = DOMAIN h.obj \union {t}
      /\ \A a \in DOMAIN h.obj : g.obj[a] = h.obj[a]
      /\ g.obj[t].kind = kind /\ g.obj[t].items = items
      /\ g.obj[t].top = IF kind = "cell" THEN 0 ELSE s.top
      /\ g.obj[t].count = IF kind = "cell" THEN 0 ELSE s.count
  BY MadeIs
<1>2. t \notin DOMAIN h.obj /\ t # Scalar
  BY FreshIs, HeapAssumption DEF Scalar
<1> HIDE DEF g, t, s
<1>3. Placed(g, h, t, kind, items)
  BY <1>1, <1>2 DEF Placed, Holds, s
<1>4. Beside(g, h, t)
  BY <1>1, <1>2 DEF Beside, Good, Holds
<1>5. Measured(g)
  BY <1>1, <1>3, <1>4, MeasuredSet
<1> QED BY <1>5 DEF g

-----------------------------------------------------------------------------
(* Writing into a list or a dict *)

\* g is h but for one backing, t, which has new elements and a new summary; a
\* cell may have been given that backing.
Alike(g, h, t) ==
  \A b \in DOMAIN h.obj \ {t} :
    /\ g.obj[b].kind = h.obj[b].kind
    /\ g.obj[b].top = h.obj[b].top /\ g.obj[b].count = h.obj[b].count
    /\ g.obj[b].kind # "cell" => g.obj[b].items = h.obj[b].items

Rewritten(g, h, a, t, items, summary) ==
  /\ DOMAIN g.obj = DOMAIN h.obj \union {t}
  /\ Alike(g, h, t)
  /\ g.obj[t].kind = h.obj[a].kind /\ g.obj[t].items = items
  /\ g.obj[t].top = summary.top /\ g.obj[t].count = summary.count
  /\ IF MustCopy(h, a) THEN t \notin DOMAIN h.obj ELSE t = a

\* The cell has the backing, and no other cell or backing changes.
Elsewhere(g, h, c, t) ==
  /\ g.obj[c].items = <<t>>
  /\ \A b \in DOMAIN h.obj \ {c, t} : g.obj[b].items = h.obj[b].items

\* The write charges what the backing grows, whether it is copied or not, and a
\* refusal leaves the charges as they were; only in a backing of an earlier
\* ledger, written to in place, is the difference not that of its charge.
LEMMA WriteIs ==
  ASSUME NEW h, Good(h), NEW c \in DOMAIN h.obj, h.obj[c].kind = "cell",
         h.obj[c].items[1] \in DOMAIN h.obj, h.obj[h.obj[c].items[1]].kind # "cell",
         HasFresh(h, 1),
         NEW items, Formed(h.obj[h.obj[c].items[1]].kind, items), Holds(h, items), NEW summary,
         NEW w, w = Write(h, c, items, summary)
  PROVE  /\ Good(w.heap) /\ Extends(w.heap, h)
         /\ w.ok \in BOOLEAN
         /\ \/ w.heap = h
            \/ \E t : t \in Nat /\ Rewritten(w.heap, h, h.obj[c].items[1], t, items, summary)
                     /\ Elsewhere(w.heap, h, c, t)
         /\ MustCopy(h, h.obj[c].items[1]) \/ h.obj[h.obj[c].items[1]].home = "now" =>
              \A n \in Nat : Exact(h, n) => Exact(w.heap, n)
<1> DEFINE a     == h.obj[c].items[1]
           kind  == h.obj[a].kind
           copy  == MustCopy(h, a)
           t     == IF copy THEN Fresh(h) ELSE a
           made  == Made(h, kind, h.obj[a].items)
           own   == IF copy THEN [made EXCEPT !.obj[c].items = <<t>>] ELSE h
           first == Body(kind, h.obj[a].items)
           old   == own.obj[t].bytes
           new   == Body(kind, items)
           one   == [own EXCEPT !.obj[t].items = items]
           two   == [one EXCEPT !.obj[t].top = summary.top]
           wrote == [two EXCEPT !.obj[t].count = summary.count]
           grown == IF new > old THEN Charged(wrote, new - old) ELSE Freed(wrote, old - new)
           paid  == [grown EXCEPT !.obj[t].bytes = new]
<1>1. /\ Object(h.obj[a]) /\ Holds(h, h.obj[a].items) /\ h.live \in Nat /\ Held(h) \in Nat
      /\ HeapLimit \in Nat
  BY HeapAssumption, GoodIs DEF Good
<1>2. w = IF copy /\ ~Fits(h, first) THEN [heap |-> h, ok |-> FALSE]
          ELSE IF new > old /\ ~Fits(own, new - old) THEN [heap |-> wrote, ok |-> FALSE]
          ELSE [heap |-> paid, ok |-> TRUE]
  <2> DEFINE all == [own EXCEPT !.obj[t].items = items, !.obj[t].top = summary.top,
                                !.obj[t].count = summary.count]
             more == [(IF new > old THEN Charged(all, new - old) ELSE Freed(all, old - new))
                        EXCEPT !.obj[t].bytes = new]
  <2>2. w = CASE copy /\ ~Fits(h, first) -> [heap |-> h, ok |-> FALSE]
              [] (~copy \/ Fits(h, first)) /\ new > old /\ ~Fits(own, new - old)
                   -> [heap |-> all, ok |-> FALSE]
              [] OTHER -> [heap |-> more, ok |-> TRUE]
    <3>1. w = Write(h, c, items, summary)
      OBVIOUS
    <3> QED BY ONLY <3>1, Zenon DEF Write
  <2> HIDE DEF kind, copy, t, made, own, first, old, new
  <2>3. all = wrote
    OBVIOUS
  <2>4. more = paid
    BY <2>3
  <2> HIDE DEF all, more, one, two, wrote, grown, paid
  <2>1. w = CASE copy /\ ~Fits(h, first) -> [heap |-> h, ok |-> FALSE]
              [] (~copy \/ Fits(h, first)) /\ new > old /\ ~Fits(own, new - old)
                   -> [heap |-> wrote, ok |-> FALSE]
              [] OTHER -> [heap |-> paid, ok |-> TRUE]
    BY ONLY <2>2, <2>3, <2>4
  <2> QED BY ONLY <2>1, Zenon
<1> HIDE DEF copy
<1>13. a \in DOMAIN h.obj /\ h.obj[a].kind # "cell" /\ Formed(kind, items) /\ a # c
  OBVIOUS
<1>17. h.obj[c].items = <<a>>
  <2>1. h.obj[c].items \in Seq(Nat) /\ Len(h.obj[c].items) = 1
    BY Zenon DEF Good, Object, Formed
  <2> QED BY <2>1
<1> HIDE DEF a
\* The backing that is written to.
<1>3. /\ Good(own) /\ Extends(own, h) /\ t \in DOMAIN own.obj
      /\ own.obj[t].kind = kind
      /\ copy \/ h.obj[a].home = "now" => own.obj[t].home = "now"
      /\ own.live - Held(own) = h.live - Held(h)
      /\ h.live <= HeapLimit /\ (copy => Fits(h, first)) => own.live <= HeapLimit
      /\ DOMAIN own.obj = DOMAIN h.obj \union {t} /\ Alike(own, h, t)
      /\ Elsewhere(own, h, c, t) /\ c # t
      /\ IF copy THEN t \notin DOMAIN h.obj ELSE t = a
  <2>1. CASE copy
    <3>1. /\ Good(made)
          /\ DOMAIN made.obj = DOMAIN h.obj \union {t}
          /\ \A b \in DOMAIN h.obj : made.obj[b] = h.obj[b]
          /\ made.obj[t].kind = kind
          /\ made.obj[t].home = "now"
          /\ made.live = h.live + first
          /\ Held(made) = Held(h) + first
      <4>1. Formed(kind, h.obj[a].items)
        BY <1>1 DEF Object
      <4>2. t = Fresh(h)
        BY <2>1
      <4> HIDE DEF t, kind
      <4>3. 1 \in Nat \ {0}
        OBVIOUS
      <4> QED BY ONLY <1>1, <4>1, <4>2, <4>3, Good(h), HasFresh(h, 1), MadeIs
                 DEF made, first
    <3>2. own = [made EXCEPT !.obj[c].items = <<t>>]
      BY <2>1
    <3>3. t \notin DOMAIN h.obj
      <4>1. 1 \in Nat \ {0}
        OBVIOUS
      <4> QED BY <2>1, <4>1, FreshIs
    <3>4. first \in Nat
      BY <1>1, BodyNat DEF Object
    <3> HIDE DEF own, made, t, first, kind
    <3>5. c \in DOMAIN made.obj /\ made.obj[c].kind = "cell" /\ t \in {Scalar} \union DOMAIN made.obj
          /\ c # t
      BY <3>1, <3>3
    <3>6. Recelled(own, made, c)
      BY ONLY <3>1, <3>2, <3>5, CellSet
    <3> USE DEF Recelled
    <3>7. own.obj[t] = made.obj[t] /\ t \in DOMAIN own.obj
      BY <3>1, <3>5, <3>6
    <3>8. Extends(own, h)
      BY <3>1, <3>5, <3>6 DEF Extends
    <3>9. own.live - Held(own) = h.live - Held(h)
      BY <1>1, <3>1, <3>4, <3>6
    <3>10. Fits(h, first) => own.live <= HeapLimit
      BY <3>1, <3>6 DEF Fits
    <3>11. Alike(own, h, t)
      BY <3>1, <3>3, <3>5, <3>6 DEF Alike
    <3>12. Elsewhere(own, h, c, t)
      <4>1. DOMAIN made = {"obj", "live"} /\ "items" \in DOMAIN made.obj[c]
        BY <3>1, <3>5 DEF Good, Object
      <4>2. own.obj[c]["items"] = <<t>>
        BY ONLY <3>2, <3>5, <4>1, FieldSet
      <4>3. \A b \in DOMAIN h.obj \ {c, t} : own.obj[b].items = h.obj[b].items
        BY <3>1, <3>6
      <4> QED BY <4>2, <4>3 DEF Elsewhere
    <3> QED BY <2>1, <3>1, <3>3, <3>5, <3>6, <3>7, <3>8, <3>9, <3>10, <3>11, <3>12
  <2>2. CASE ~copy
    <3>1. own = h /\ t = a
      BY <2>2
    <3> HIDE DEF own, t
    <3>2. Extends(h, h)
      BY DEF Extends
    <3>3. Alike(h, h, t)
      BY DEF Alike
    <3>4. Elsewhere(h, h, c, t)
      BY <1>17, <3>1 DEF Elsewhere
    <3> QED BY <1>1, <1>13, <2>2, <3>1, <3>2, <3>3, <3>4
  <2> QED BY <2>1, <2>2, Zenon
<1> HIDE DEF own, t, made, first
<1>4. /\ DOMAIN own = {"obj", "live"} /\ own.live \in Nat /\ Held(own) \in Nat
      /\ Object(own.obj[t])
      /\ DOMAIN own.obj[t] = {"kind", "items", "bytes", "home", "top", "count"}
      /\ old \in Nat
  BY <1>3, GoodIs DEF Good, Object
<1> HIDE DEF old
<1>5. new \in Nat
  BY <1>13, BodyNat
<1> HIDE DEF new
<1>6. Holds(own, items)
  BY <1>3 DEF Holds, Extends
\* The write of its fields.
<1>7. /\ DOMAIN wrote = {"obj", "live"} /\ wrote.live = own.live
      /\ DOMAIN wrote.obj = DOMAIN own.obj
      /\ \A b \in DOMAIN own.obj \ {t} : wrote.obj[b] = own.obj[b]
      /\ DOMAIN wrote.obj[t] = DOMAIN own.obj[t]
      /\ wrote.obj[t].items = items /\ wrote.obj[t].kind = kind
      /\ wrote.obj[t].bytes = old /\ wrote.obj[t].home = own.obj[t].home
      /\ wrote.obj[t].top = summary.top /\ wrote.obj[t].count = summary.count
  <2>1. /\ DOMAIN one = {"obj", "live"} /\ one.live = own.live
        /\ DOMAIN one.obj = DOMAIN own.obj
        /\ \A b \in DOMAIN own.obj \ {t} : one.obj[b] = own.obj[b]
        /\ DOMAIN one.obj[t] = DOMAIN own.obj[t]
        /\ one.obj[t].items = items
        /\ \A q \in DOMAIN own.obj[t] \ {"items"} : one.obj[t][q] = own.obj[t][q]
    BY <1>3, <1>4, FieldSet
  <2> HIDE DEF one
  <2>2. /\ DOMAIN two = {"obj", "live"} /\ two.live = one.live
        /\ DOMAIN two.obj = DOMAIN one.obj
        /\ \A b \in DOMAIN one.obj \ {t} : two.obj[b] = one.obj[b]
        /\ DOMAIN two.obj[t] = DOMAIN one.obj[t]
        /\ two.obj[t]["top"] = summary.top
        /\ \A q \in DOMAIN one.obj[t] \ {"top"} : two.obj[t][q] = one.obj[t][q]
    BY <1>3, <1>4, <2>1, FieldSet
  <2> HIDE DEF two
  <2>3. /\ DOMAIN wrote = {"obj", "live"} /\ wrote.live = two.live
        /\ DOMAIN wrote.obj = DOMAIN two.obj
        /\ \A b \in DOMAIN two.obj \ {t} : wrote.obj[b] = two.obj[b]
        /\ DOMAIN wrote.obj[t] = DOMAIN two.obj[t]
        /\ wrote.obj[t]["count"] = summary.count
        /\ \A q \in DOMAIN two.obj[t] \ {"count"} : wrote.obj[t][q] = two.obj[t][q]
    BY <1>3, <1>4, <2>1, <2>2, FieldSet
  <2> HIDE DEF wrote
  <2>4. \A q \in {"kind", "bytes", "home"} : wrote.obj[t][q] = own.obj[t][q]
    BY <1>4, <2>1, <2>2, <2>3
  <2>5. wrote.obj[t].items = items
    BY <1>4, <2>1, <2>2, <2>3
  <2>6. \A b \in DOMAIN own.obj \ {t} : wrote.obj[b] = own.obj[b]
    BY <2>1, <2>2, <2>3
  <2>7. wrote.obj[t].top = summary.top /\ wrote.obj[t].count = summary.count
    <3>1. wrote.obj[t]["top"] = two.obj[t]["top"]
      BY <1>4, <2>1, <2>2, <2>3
    <3> QED BY <2>2, <2>3, <3>1
  <2> QED BY <1>3, <2>1, <2>2, <2>3, <2>4, <2>5, <2>6, <2>7 DEF old
<1> HIDE DEF one, two, wrote
<1>8. Good(wrote) /\ Held(wrote) = Held(own) /\ Extends(wrote, h)
  <2>1. Object(wrote.obj[t]) /\ Holds(own, wrote.obj[t].items)
    BY <1>3, <1>4, <1>6, <1>7, <1>13 DEF Object
  <2>2. Good(wrote)
    BY <1>3, <1>4, <1>7, <2>1, ObjectSet
  <2>3. \A b \in DOMAIN own.obj : /\ wrote.obj[b].bytes = own.obj[b].bytes
                                  /\ wrote.obj[b].home = own.obj[b].home
    BY <1>7 DEF old
  <2>4. Held(wrote) = Held(own)
    BY <1>3, <1>7, <2>3, HeldSame
  <2>5. Extends(wrote, h)
    BY <1>3, <1>7 DEF Extends
  <2> QED BY <2>2, <2>4, <2>5
\* What it grows or shrinks.
<1>9. /\ Good(grown) /\ grown.obj = wrote.obj /\ Held(grown) = Held(own)
      /\ new > old => grown.live = own.live + (new - old)
      /\ ~(new > old) /\ old - new <= own.live => grown.live = own.live - (old - new)
      /\ ~(new > old) => grown.live <= own.live
  <2>1. CASE new > old
    <3>1. new - old \in Nat
      BY <1>4, <1>5, <2>1
    <3>2. grown = Charged(wrote, new - old)
      BY <2>1
    <3> QED BY <1>7, <1>8, <2>1, <3>1, <3>2, ChargedIs
  <2>2. CASE ~(new > old)
    <3>1. old - new \in Nat
      BY <1>4, <1>5, <2>2
    <3>2. grown = Freed(wrote, old - new)
      BY <2>2
    <3> QED BY <1>7, <1>8, <2>2, <3>1, <3>2, FreedIs
  <2> QED BY <2>1, <2>2
<1> HIDE DEF grown
<1>10. /\ Good(paid) /\ Extends(paid, h) /\ paid.live = grown.live
       /\ own.obj[t].home = "now" => Held(paid) + old = Held(own) + new
       /\ DOMAIN paid.obj = DOMAIN own.obj
       /\ \A b \in DOMAIN own.obj \ {t} : paid.obj[b] = own.obj[b]
       /\ paid.obj[t].items = items /\ paid.obj[t].kind = kind
       /\ paid.obj[t].top = summary.top /\ paid.obj[t].count = summary.count
  <2>1. DOMAIN grown = {"obj", "live"} /\ grown.live \in Nat
        /\ DOMAIN grown.obj[t] = {"kind", "items", "bytes", "home", "top", "count"}
        /\ t \in DOMAIN grown.obj /\ Object(grown.obj[t]) /\ Holds(grown, grown.obj[t].items)
    BY <1>3, <1>4, <1>7, <1>9 DEF Good
  <2>2. /\ DOMAIN paid = {"obj", "live"} /\ paid.live = grown.live
        /\ DOMAIN paid.obj = DOMAIN grown.obj
        /\ \A b \in DOMAIN grown.obj \ {t} : paid.obj[b] = grown.obj[b]
        /\ DOMAIN paid.obj[t] = DOMAIN grown.obj[t]
        /\ paid.obj[t].bytes = new
        /\ \A q \in DOMAIN grown.obj[t] \ {"bytes"} : paid.obj[t][q] = grown.obj[t][q]
    BY <2>1, FieldSet
  <2> HIDE DEF paid
  <2>3. \A q \in {"kind", "items", "home", "top", "count"} : paid.obj[t][q] = grown.obj[t][q]
    BY <2>1, <2>2
  <2>4. Object(paid.obj[t]) /\ Holds(grown, paid.obj[t].items)
    BY <1>5, <2>1, <2>2, <2>3 DEF Object
  <2>5. Good(paid) /\ Held(paid) + Bytes(grown)[t] = Held(grown) + Bytes(paid)[t]
    BY <1>9, <2>1, <2>2, <2>4, ObjectSet
  <2>6. own.obj[t].home = "now" => Bytes(grown)[t] = old /\ Bytes(paid)[t] = new
    BY <1>7, <1>9, <2>1, <2>2, <2>3 DEF Bytes
  <2>7. Extends(paid, h)
    BY <1>8, <1>9, <2>2, <2>3 DEF Extends
  <2>8. /\ paid.obj[t].items = items /\ paid.obj[t].kind = kind
        /\ paid.obj[t].top = summary.top /\ paid.obj[t].count = summary.count
    BY <1>7, <1>9, <2>3
  <2>9. /\ DOMAIN paid.obj = DOMAIN own.obj
        /\ \A b \in DOMAIN own.obj \ {t} : paid.obj[b] = own.obj[b]
    BY <1>7, <1>9, <2>2
  <2> QED BY <1>9, <2>2, <2>5, <2>6, <2>7, <2>8, <2>9
<1> HIDE DEF paid
<1>11. ASSUME copy \/ h.obj[a].home = "now",
              NEW n \in Nat, Exact(h, n)
       PROVE  Exact(w.heap, n)
  <2>1. CASE copy /\ ~Fits(h, first)
    <3>1. w.heap = h
      BY <1>2, <2>1
    <3> QED BY <1>11, <3>1
  <2> USE DEF Exact
  <2> DEFINE over == new > old /\ ~Fits(own, new - old)
  <2>2. CASE ~(copy /\ ~Fits(h, first))
    <3>0. h.live = Held(h) + n
      BY <1>11
    <3>4. own.live = Held(own) + n
      BY <1>1, <1>3, <1>4, <3>0, <1>11
    <3>5. own.live <= HeapLimit
      BY <1>3, <1>11, <2>2
    <3>1. own.live = Held(own) + n /\ own.live <= HeapLimit
      BY <3>4, <3>5
    <3>2. CASE over
      <4>1. w.heap = wrote
        BY <1>2, <2>2, <3>2
      <4> QED BY <1>7, <1>8, <3>1, <4>1
    <3>3. CASE ~over
      <4>1. w.heap = paid
        BY <1>2, <2>2, <3>3
      <4>2. own.obj[t].home = "now"
        BY <1>3, <1>11
      <4>3. Held(paid) + old = Held(own) + new /\ Held(paid) \in Nat
        BY <1>10, <4>2, GoodIs
      <4>4. own.live >= old
        <5>1. Bytes(own)[t] = old
          BY <1>3, <4>2 DEF Bytes, old
        <5>2. IsFiniteSet(DOMAIN own.obj) /\ \A b \in DOMAIN own.obj : Bytes(own)[b] \in Nat
          BY <1>3, GoodIs
        <5>3. Held(own) = Bytes(own)[t] + SumFunctionOnSet(Bytes(own), DOMAIN own.obj \ {t})
          BY <1>3, <5>2, SumTake DEF Held
        <5>4. IsFiniteSet(DOMAIN own.obj \ {t})
          BY <5>2, FS_RemoveElement
        <5>5. SumFunctionOnSet(Bytes(own), DOMAIN own.obj \ {t}) \in Nat
          BY <5>2, <5>4, SumNat
        <5> QED BY <1>4, <3>1, <5>1, <5>3, <5>5
      <4>5. CASE new > old
        <5>1. grown.live = own.live + (new - old)
          BY <1>9, <4>5
        <5>2. Fits(own, new - old)
          BY <3>3, <4>5
        <5>3. own.live + (new - old) <= HeapLimit
          BY <5>2 DEF Fits
        <5> QED BY <1>4, <1>5, <1>10, <3>1, <4>1, <4>3, <5>1, <5>3
      <4>6. CASE ~(new > old)
        <5>1. old - new <= own.live
          BY <1>4, <1>5, <4>4, <4>6
        <5>2. grown.live = own.live - (old - new) /\ grown.live <= own.live
          BY <1>9, <4>6, <5>1
        <5> QED BY <1>1, <1>4, <1>5, <1>10, <3>1, <4>1, <4>3, <5>2
      <4> QED BY <4>5, <4>6
    <3> QED BY <3>2, <3>3
  <2> QED BY <2>1, <2>2
<1>12. Good(w.heap) /\ Extends(w.heap, h) /\ w.ok \in BOOLEAN
  <2>1. Extends(h, h)
    BY DEF Extends
  <2> QED BY <1>2, <1>8, <1>10, <2>1
<1>14. ASSUME NEW g, DOMAIN g.obj = DOMAIN own.obj,
              \A b \in DOMAIN own.obj \ {t} : g.obj[b] = own.obj[b],
              g.obj[t].items = items, g.obj[t].kind = kind,
              g.obj[t].top = summary.top, g.obj[t].count = summary.count
       PROVE  Rewritten(g, h, a, t, items, summary) /\ Elsewhere(g, h, c, t)
  <2>1. Alike(g, h, t)
    BY <1>3, <1>14 DEF Alike
  <2>2. Elsewhere(g, h, c, t)
    BY <1>3, <1>14 DEF Elsewhere
  <2> QED BY <1>3, <1>14, <2>1, <2>2 DEF Rewritten, copy
<1>15. w.heap = h \/ (Rewritten(w.heap, h, a, t, items, summary) /\ Elsewhere(w.heap, h, c, t))
  <2>1. Rewritten(wrote, h, a, t, items, summary) /\ Elsewhere(wrote, h, c, t)
    BY <1>7, <1>14
  <2>2. Rewritten(paid, h, a, t, items, summary) /\ Elsewhere(paid, h, c, t)
    BY <1>10, <1>14
  <2> QED BY <1>2, <2>1, <2>2
<1>16. t \in Nat
  BY <1>3, GoodIs
<1> QED BY <1>11, <1>12, <1>15, <1>16 DEF copy, a

\* A backing that is not copied is held by one cell and by nothing else.
Unshared(h, c, a) ==
  /\ acc # a /\ \A i \in DOMAIN undo' : undo'[i].old # a
  /\ \A b \in DOMAIN h.obj \ {c} : \A i \in DOMAIN h.obj[b].items : h.obj[b].items[i] # a

\* A backing that need not be copied is the value of one cell and of nothing else.
LEMMA UnsharedIs ==
  ASSUME NEW h, Good(h), Measured(h), NEW c \in DOMAIN h.obj, h.obj[c].kind = "cell",
         NEW a, a = h.obj[c].items[1], undo' \in Seq(EntrySet), ~MustCopy(h, a)
  PROVE  Unshared(h, c, a)
<1> DEFINE S == (DOMAIN h.obj) \X (1 .. MaxElements)
           P == {p \in S : p[2] \in DOMAIN h.obj[p[1]].items /\ h.obj[p[1]].items[p[2]] = a}
           U == {i \in DOMAIN undo' : undo'[i].old = a}
           one == IF acc = a THEN 1 ELSE 0
<1>1. IsFiniteSet(P)
  <2>1. IsFiniteSet(S)
    <3>1. IsFiniteSet(DOMAIN h.obj) /\ IsFiniteSet(1 .. MaxElements)
      BY HeapAssumption, GoodIs, FS_Interval
    <3> QED BY <3>1, FS_Product
  <2> QED BY <2>1, FS_Subset
<1>2. Cardinality(P) \in Nat /\ Cardinality(U) \in Nat
  <2>1. PICK n \in Nat : DOMAIN undo' = 1 .. n
    OBVIOUS
  <2>2. IsFiniteSet(1 .. n) /\ U \in SUBSET (1 .. n)
    BY <2>1, FS_Interval
  <2>3. IsFiniteSet(U)
    BY <2>2, FS_Subset
  <2> QED BY <1>1, <2>3, FS_CardinalityType
<1>3. Cardinality(P) + Cardinality(U) + one <= 1
  <2>1. HandleCount(h, a) = Cardinality(P) + Cardinality(U) + one
    BY DEF HandleCount
  <2> HIDE DEF P, U, one
  <2>2. one \in Nat
    BY DEF one
  <2>3. ~(HandleCount(h, a) > 1)
    BY DEF MustCopy
  <2> QED BY <1>2, <2>1, <2>2, <2>3
<1>4. <<c, 1>> \in P
  <2>1. DOMAIN h.obj[c].items = 1 .. 1
    <3>1. h.obj[c].items \in Seq(Nat) /\ Len(h.obj[c].items) = 1
      BY DEF Good, Object, Formed
    <3> QED BY <3>1
  <2>2. 1 \in 1 .. MaxElements /\ 1 \in 1 .. 1
    BY HeapAssumption
  <2> QED BY <2>1, <2>2
<1>9. IsFiniteSet(U)
  <2>1. PICK n \in Nat : DOMAIN undo' = 1 .. n
    OBVIOUS
  <2>2. IsFiniteSet(1 .. n) /\ U \in SUBSET (1 .. n)
    BY <2>1, FS_Interval
  <2> QED BY <2>2, FS_Subset
<1> HIDE DEF P, U
<1>10. Cardinality(U) = 0
  <2>1. Cardinality(P) # 0 /\ one \in Nat
    BY <1>1, <1>4, FS_EmptySet
  <2> QED BY <1>2, <1>3, <2>1
<1>11. U = {}
  BY <1>9, <1>10, FS_EmptySet
<1>5. P \ {<<c, 1>>} = {}
  <2>1. Cardinality(P \ {<<c, 1>>}) = Cardinality(P) - 1 /\ IsFiniteSet(P \ {<<c, 1>>})
    BY <1>1, <1>4, FS_RemoveElement
  <2>2. Cardinality(P \ {<<c, 1>>}) \in Nat
    BY <2>1, FS_CardinalityType
  <2>3. Cardinality(P \ {<<c, 1>>}) = 0
    BY <1>2, <1>3, <2>1, <2>2
  <2> QED BY <2>1, <2>3, FS_EmptySet
<1>6. Cardinality(P) # 0
  BY <1>1, <1>4, FS_EmptySet
<1>7. acc # a
  BY <1>2, <1>3, <1>6
<1>8. ASSUME NEW b \in DOMAIN h.obj \ {c}, NEW i \in DOMAIN h.obj[b].items, h.obj[b].items[i] = a
      PROVE  FALSE
  <2>1. i \in 1 .. MaxElements
    BY Zenon DEF Measured
  <2>2. <<b, i>> \in P
    BY <1>8, <2>1 DEF P
  <2> QED BY <1>5, <2>2
<1> QED BY <1>7, <1>8, <1>11 DEF Unshared, U

\* detach and write: the summary that is written is that of the elements, and
\* what is written to is no element of another backing or of itself.
LEMMA WriteMeasured ==
  ASSUME NEW h, Good(h), Measured(h), NEW c \in DOMAIN h.obj, h.obj[c].kind = "cell",
         NEW a \in DOMAIN h.obj, a = h.obj[c].items[1], h.obj[a].kind # "cell",
         undo' \in Seq(EntrySet),
         NEW items, Holds(h, items), Shallow(h, h.obj[a].kind, items),
         \A i \in DOMAIN items :
           items[i] = acc \/ \E j \in DOMAIN h.obj[a].items : items[i] = h.obj[a].items[j],
         NEW t \in Nat, NEW g, Good(g), Rewritten(g, h, a, t, items, Summary(h, items))
  PROVE  Measured(g)
<1>1. /\ \A b \in DOMAIN h.obj : b # c => \A i \in DOMAIN h.obj[b].items : h.obj[b].items[i] # t
      /\ \A i \in DOMAIN items : items[i] # t
  <2>1. CASE MustCopy(h, a)
    <3>1. t \notin DOMAIN h.obj
      BY <2>1, Zenon DEF Rewritten
    <3>2. t # Scalar
      <4>1. t \in DOMAIN g.obj
        BY Zenon DEF Rewritten
      <4> QED BY <4>1, GoodIs, Zenon DEF Scalar
    <3>3. \A b \in DOMAIN h.obj : Holds(h, h.obj[b].items)
      BY Zenon DEF Good
    <3>4. \A q : Holds(h, q) => \A i \in DOMAIN q : q[i] # t
      BY <3>1, <3>2, Zenon DEF Holds
    <3> QED BY <3>3, <3>4, Zenon
  <2>2. CASE ~MustCopy(h, a)
    <3>1. t = a
      BY <2>2, Zenon DEF Rewritten
    <3>2. Unshared(h, c, a)
      BY <2>2, UnsharedIs, Zenon
    <3>3. a # c
      BY Zenon
    <3>4. \A j \in DOMAIN h.obj[a].items : h.obj[a].items[j] # a
      BY <3>2, <3>3, Zenon DEF Unshared
    <3>5. \A i \in DOMAIN items : items[i] # a
      BY <3>2, <3>4, Zenon DEF Unshared
    <3>6. \A b \in DOMAIN h.obj : b # c => \A i \in DOMAIN h.obj[b].items : h.obj[b].items[i] # a
      BY <3>2, Zenon DEF Unshared
    <3> QED BY ONLY <3>1, <3>5, <3>6, Zenon
  <2> QED BY <2>1, <2>2, Zenon
<1>2. Placed(g, h, t, h.obj[a].kind, items)
  BY <1>1, Zenon DEF Rewritten, Placed
<1>3. Beside(g, h, t)
  <2>1. Alike(g, h, t)
    BY Zenon DEF Rewritten
  <2>2. ASSUME NEW b \in DOMAIN h.obj \ {t}
        PROVE  /\ g.obj[b].kind = h.obj[b].kind
               /\ g.obj[b].top = h.obj[b].top /\ g.obj[b].count = h.obj[b].count
               /\ g.obj[b].kind # "cell" => g.obj[b].items = h.obj[b].items
    BY ONLY <2>1, <2>2 DEF Alike
  <2>3. ASSUME NEW b \in DOMAIN h.obj \ {t}, g.obj[b].kind # "cell"
        PROVE  \A i \in DOMAIN h.obj[b].items : h.obj[b].items[i] # t
    <3>1. b # c
      BY <2>2, <2>3, Zenon
    <3> QED BY ONLY <1>1, <2>3, <3>1, Zenon
  <2> QED BY ONLY <2>2, <2>3, Zenon DEF Beside
<1> QED BY <1>2, <1>3, MeasuredSet, Zenon

-----------------------------------------------------------------------------
(* The counter through the operations *)

\* A charge that fits is owed.
LEMMA ChargedExact ==
  ASSUME NEW h, Good(h), NEW n \in Nat, NEW m \in Nat, Exact(h, m), Fits(h, n)
  PROVE  Exact(Charged(h, n), m + n)
<1>1. /\ Charged(h, n).live = h.live + n /\ Held(Charged(h, n)) = Held(h)
  BY ChargedIs
<1>2. Held(h) \in Nat /\ h.live \in Nat
  BY GoodIs DEF Good
<1> QED BY <1>1, <1>2 DEF Exact, Fits

\* A release of what is owed.
LEMMA FreedExact ==
  ASSUME NEW h, Good(h), NEW n \in Nat, NEW m \in Nat, Exact(h, m + n)
  PROVE  Exact(Freed(h, n), m)
<1>1. Held(h) \in Nat /\ h.live \in Nat /\ HeapLimit \in Nat
  BY GoodIs, HeapAssumption DEF Good
<1>2. n <= h.live
  BY <1>1 DEF Exact
<1>3. Freed(h, n).live = h.live - n /\ Held(Freed(h, n)) = Held(h)
  BY <1>2, FreedIs
<1> QED BY <1>1, <1>3 DEF Exact

\* A new object that fits is owed for itself.
LEMMA MadeExact ==
  ASSUME NEW h, Good(h), NEW n \in Nat \ {0}, HasFresh(h, n),
         NEW kind, NEW items, Formed(kind, items), Holds(h, items),
         NEW m \in Nat, Exact(h, m), Fits(h, Body(kind, items))
  PROVE  Exact(Made(h, kind, items), m)
<1>1. /\ Made(h, kind, items).live = h.live + Body(kind, items)
      /\ Held(Made(h, kind, items)) = Held(h) + Body(kind, items)
  BY MadeIs
<1>2. Held(h) \in Nat /\ h.live \in Nat /\ Body(kind, items) \in Nat
  BY GoodIs, BodyNat DEF Good
<1> QED BY <1>1, <1>2 DEF Exact, Fits

\* A new object leaves the others.
LEMMA MadeExtends ==
  ASSUME NEW h, Good(h), NEW n \in Nat \ {0}, HasFresh(h, n),
         NEW kind, NEW items, Formed(kind, items), Holds(h, items)
  PROVE  /\ Good(Made(h, kind, items)) /\ Extends(Made(h, kind, items), h)
         /\ Fresh(h) \in DOMAIN Made(h, kind, items).obj
         /\ Made(h, kind, items).obj[Fresh(h)].kind = kind
         /\ Fresh(h) \in Nat \ {0}
<1>1. /\ Good(Made(h, kind, items))
      /\ DOMAIN Made(h, kind, items).obj = DOMAIN h.obj \union {Fresh(h)}
      /\ \A a \in DOMAIN h.obj : Made(h, kind, items).obj[a] = h.obj[a]
      /\ Made(h, kind, items).obj[Fresh(h)].kind = kind
  BY MadeIs
<1>2. Fresh(h) \in Nat \ {0}
  BY FreshIs, HeapAssumption
<1> QED BY <1>1, <1>2 DEF Extends

\* A heap that has the objects of one that has those of a third.
LEMMA ExtendsAll ==
  ASSUME NEW f, NEW g, NEW h, Extends(g, h), Extends(f, g)
  PROVE  Extends(f, h)
BY DEF Extends

\* A charge keeps the heap well formed.
LEMMA ChargedExtends ==
  ASSUME NEW h, Good(h), NEW n \in Nat
  PROVE  Good(Charged(h, n)) /\ Extends(Charged(h, n), h)
BY ChargedIs DEF Extends

\* A release keeps the heap well formed.
LEMMA FreedExtends ==
  ASSUME NEW h, Good(h), NEW n \in Nat
  PROVE  Good(Freed(h, n)) /\ Extends(Freed(h, n), h)
BY FreedIs DEF Extends

\* What frames and entries are charged is a number.
LEMMA OwesNat ==
  ASSUME NEW f \in Seq(FrameSet), NEW u, Len(u) \in Nat
  PROVE  Owes(u, f) \in Nat
BY ChargesNat DEF Owes, JournalBytes

-----------------------------------------------------------------------------
(* The invariant *)

RunSet == [at : {"idle", "on", "over"}, transactional : BOOLEAN, error : {"none", "depth", "heap"}]

RunIs == run \in RunSet /\ (run.at = "idle" => frames = <<>> /\ undo = <<>>)

\* Handles lead to objects, the counter is exact, no frame or entry is left
\* between runs, and every backing keeps the summary of its elements.
HeapInv ==
  /\ Sound(heap, scope, acc, frames, undo)
  /\ Ledger(heap, undo, frames, foreign)
  /\ RunIs
  /\ Measured(heap)

\* The end of an action: h is what it left.
LEMMA Settles ==
  ASSUME NEW h, Settle(h), Sound(h, scope', acc', frames', undo'),
         Ledger(h, undo', frames', foreign'), Measured(h), RunIs'
  PROVE  HeapInv'
<1>1. heap' = Dropped(h, HandlesOf(scope', acc', frames', undo'))
  BY DEF Settle, Handles, HandlesOf
<1>2. /\ Sound(heap', scope', acc', frames', undo')
      /\ Ledger(heap', undo', frames', foreign')
  BY <1>1, SettleKeeps
<1>3. PICK roots : roots = HandlesOf(scope', acc', frames', undo') /\ roots \subseteq DOMAIN h.obj
  BY RootsIn
<1>4. Measured(heap')
  <2>1. Good(h)
    BY DEF Sound
  <2>2. Measured(Dropped(h, roots))
    BY <1>3, <2>1, MeasuredDrop
  <2> QED BY <1>1, <1>3, <2>2
<1>5. Measured(heap)'
  BY <1>4
<1> QED BY <1>2, <1>5 DEF HeapInv

\* A refusal, with h the heap it leaves and the journal already written.
LEMMA Refuses ==
  ASSUME HeapInv, run.at = "on", NEW h, NEW e \in {"depth", "heap"}, Refuse(h, e),
         Sound(h, scope, acc, frames, undo'), Ledger(h, undo', frames, foreign), Measured(h)
  PROVE  HeapInv'
<1>1. UNCHANGED <<scope, frames, foreign>> /\ acc' = Nothing /\ Settle(h)
      /\ run' = [run EXCEPT !.error = e]
  BY DEF Refuse
<1>2. Sound(h, scope', acc', frames', undo')
  BY <1>1 DEF Sound, ValueIn
<1>3. Ledger(h, undo', frames', foreign')
  BY <1>1
<1>4. RunIs'
  BY <1>1 DEF HeapInv, RunIs, RunSet
<1> QED BY <1>1, <1>2, <1>3, <1>4, Settles

\* A refusal that touched nothing.
LEMMA RefusesAsIs ==
  ASSUME HeapInv, run.at = "on", NEW e \in {"depth", "heap"}, Refuse(heap, e), UNCHANGED undo
  PROVE  HeapInv'
BY Refuses DEF HeapInv

\* The entry of a journal that needs one.
LEMMA Enters ==
  ASSUME HeapInv, run.at # "idle", NEW h, Sound(h, scope, acc, frames, undo),
         NEW key, NEW cell, NEW old, Entry(key, cell, old) \in EntrySet,
         cell # NoCell => IsCell(h, cell), old # Scalar => old \in DOMAIN h.obj,
         \A c \in Address : key = CellKey(c) => cell = c,
         ~EntryRefused(h, key), Journal(key, cell, old)
  PROVE  /\ Good(Entered(h, key)) /\ Entered(h, key).obj = h.obj
         /\ UndoIn(h, undo') /\ UndoIn(Entered(h, key), undo')
         /\ \A f \in Seq(FrameSet) :
              Exact(h, Owes(undo, f)) => Exact(Entered(h, key), Owes(undo', f))
         /\ RunIs /\ run' = run /\ frames' = frames => RunIs'
<1>0. Good(h) /\ JournalBytes \in Nat /\ undo \in Seq(EntrySet) /\ Len(undo) \in Nat
  BY DEF Sound, UndoIn, JournalBytes
<1>1. CASE NeedsEntry(key)
  <2>1. Entered(h, key) = Charged(h, JournalBytes) /\ Fits(h, JournalBytes)
    BY <1>1 DEF Entered, EntryRefused
  <2>2. undo' = Append(undo, Entry(key, cell, old))
    BY <1>1 DEF Journal
  <2>3. Good(Entered(h, key)) /\ Entered(h, key).obj = h.obj
    BY <1>0, <2>1, ChargedIs
  <2>4. undo' \in Seq(EntrySet) /\ Len(undo') = Len(undo) + 1
        /\ (\A i \in 1 .. Len(undo) : undo'[i] = undo[i])
        /\ undo'[Len(undo) + 1] = Entry(key, cell, old)
    BY ONLY <1>0, <2>2, Entry(key, cell, old) \in EntrySet, AppendProperties
  <2>5. UndoIn(h, undo')
    <3>1. \A i \in 1 .. Len(undo) :
            /\ undo[i].cell # NoCell => IsCell(h, undo[i].cell)
            /\ undo[i].old # Scalar => undo[i].old \in DOMAIN h.obj
            /\ \A c \in Address : undo[i].key = CellKey(c) => undo[i].cell = c
      BY DEF Sound, UndoIn
    <3> DEFINE new == Entry(key, cell, old)
    <3>2. new.key = key /\ new.cell = cell /\ new.old = old
      BY DEF Entry
    <3>3. \A i \in 1 .. Len(undo') : i \in 1 .. Len(undo) \/ i = Len(undo) + 1
      BY <1>0, <2>4
    <3> HIDE DEF new
    <3>4. undo'[Len(undo) + 1] = new
      BY <2>4 DEF new
    <3> QED BY <2>4, <3>1, <3>2, <3>3, <3>4 DEF UndoIn
  <2>6. UndoIn(Entered(h, key), undo')
    BY <2>3, <2>5 DEF UndoIn, IsCell
  <2>7. ASSUME NEW f \in Seq(FrameSet), Exact(h, Owes(undo, f))
        PROVE  Exact(Entered(h, key), Owes(undo', f))
    <3>1. Owes(undo, f) \in Nat /\ Charges(f) \in Nat
      BY <1>0, OwesNat, ChargesNat
    <3>2. Exact(Entered(h, key), Owes(undo, f) + JournalBytes)
      BY <1>0, <2>1, <2>7, <3>1, ChargedExact
    <3>3. Owes(undo', f) = Owes(undo, f) + JournalBytes
      BY <1>0, <2>4, <3>1 DEF Owes, JournalBytes
    <3> QED BY <3>2, <3>3
  <2>8. RunIs /\ run' = run /\ frames' = frames => RunIs'
    BY DEF RunIs
  <2> QED BY <2>3, <2>5, <2>6, <2>7, <2>8
<1>2. CASE ~NeedsEntry(key)
  <2>1. Entered(h, key) = h /\ undo' = undo
    BY <1>2 DEF Entered, Journal
  <2> QED BY <1>0, <2>1 DEF Sound, RunIs
<1> QED BY <1>1, <1>2

\* What an expression reads.
LEMMA KnownIn ==
  ASSUME HeapInv
  PROVE  /\ \A x \in Bound : /\ x \in Var /\ IsCell(heap, scope[x]) /\ scope[x] \in Address
                             /\ ValueOf(x) \in {Scalar} \union DOMAIN heap.obj
                             /\ heap.obj[scope[x]].items = <<ValueOf(x)>>
         /\ Known \subseteq {Scalar} \union DOMAIN heap.obj
         /\ Known \subseteq Nat
<1>1. Good(heap) /\ DOMAIN heap.obj \subseteq Nat \ {0}
  BY GoodIs DEF HeapInv, Sound
<1>2. ASSUME NEW x \in Bound
      PROVE  /\ x \in Var /\ IsCell(heap, scope[x]) /\ scope[x] \in Address
             /\ ValueOf(x) \in {Scalar} \union DOMAIN heap.obj
             /\ heap.obj[scope[x]].items = <<ValueOf(x)>>
  <2>1. x \in Var /\ IsCell(heap, scope[x])
    BY DEF Bound, HeapInv, Sound, ScopeIn
  <2>2. Object(heap.obj[scope[x]]) /\ Holds(heap, heap.obj[scope[x]].items)
        /\ scope[x] \in Address
    BY <1>1, <2>1 DEF IsCell, Good
  <2>3. heap.obj[scope[x]].items \in Seq(Nat) /\ Len(heap.obj[scope[x]].items) = 1
    BY <2>1, <2>2 DEF IsCell, Object, Formed
  <2>4. 1 \in DOMAIN heap.obj[scope[x]].items
    BY <2>3
  <2>5. ValueOf(x) \in {Scalar} \union DOMAIN heap.obj
    BY <2>2, <2>4 DEF Holds, ValueOf
  <2>6. heap.obj[scope[x]].items = <<ValueOf(x)>>
    BY <2>3 DEF ValueOf
  <2> QED BY <2>1, <2>2, <2>5, <2>6
<1>3. Known \subseteq {Scalar} \union DOMAIN heap.obj
  BY <1>2 DEF Known
<1> QED BY <1>1, <1>2, <1>3 DEF Scalar

\* A name or a number changes no object.
LEMMA EvaluateKeeps ==
  ASSUME HeapInv, NEW v, Evaluate(v)
  PROVE  HeapInv'
<1>1. v \in {Scalar} \union DOMAIN heap.obj
  BY KnownIn DEF Evaluate
<1>2. heap' = heap
  BY DEF Evaluate
<1>3. Measured(heap)'
  BY <1>2 DEF HeapInv
<1> QED BY <1>1, <1>3 DEF Evaluate, HeapInv, Sound, ValueIn, RunIs

\* A list or a dict literal: refused, or charged whole.
LEMMA LiteralKeeps ==
  ASSUME HeapInv, NEW kind, NEW items, Formed(kind, items),
         DOMAIN items \subseteq 1 .. MaxElements, Literal(kind, items)
  PROVE  HeapInv'
<1>1. run.at = "on" /\ Good(heap) /\ HasFresh(heap, 1)
  BY DEF Literal, Running, HeapInv, Sound
<1>2. CASE UNCHANGED undo /\ (Refuse(heap, "depth") \/ Refuse(heap, "heap"))
  BY <1>1, <1>2, RefusesAsIs
<1>3. CASE /\ \A v \in Range(items) : ~TooDeep(heap, v)
           /\ Fits(heap, Body(kind, items))
           /\ acc' = Fresh(heap)
           /\ UNCHANGED <<scope, frames, undo, run, before, foreign>>
           /\ Settle(Made(heap, kind, items))
  <2>1. Holds(heap, items)
    BY KnownIn DEF Literal, Holds, Range
  <2> DEFINE h == Made(heap, kind, items)
  <2>2. 1 \in Nat \ {0}
    OBVIOUS
  <2>3. Good(h) /\ Extends(h, heap) /\ Fresh(heap) \in DOMAIN h.obj
    BY <1>1, <2>1, <2>2, MadeExtends
  <2>4. Sound(h, scope, acc, frames, undo)
    BY <2>3, SoundExtends DEF HeapInv
  <2>5. \A m \in Nat : Exact(heap, m) => Exact(h, m)
    BY <1>1, <1>3, <2>1, <2>2, MadeExact
  <2>6. Owes(undo, frames) \in Nat
    BY OwesNat DEF HeapInv, Sound, UndoIn, FramesIn
  <2>7. Ledger(h, undo, frames, foreign)
    BY <2>5, <2>6 DEF HeapInv, Ledger
  <2>10. Measured(heap)
    BY DEF HeapInv
  <2>11. Shallow(heap, kind, items)
    BY <1>3, <2>1, <2>10, NotTooDeep DEF Shallow
  <2>12. Measured(h)
    BY <1>1, <2>1, <2>2, <2>10, <2>11, MeasuredMade
  <2> HIDE DEF h
  <2>8. Sound(h, scope', acc', frames', undo')
    BY <1>3, <2>3, <2>4 DEF Sound, ValueIn
  <2>9. Ledger(h, undo', frames', foreign') /\ RunIs' /\ Settle(h)
    BY <1>3, <2>7 DEF HeapInv, RunIs, h
  <2> QED BY <2>8, <2>9, <2>12, Settles
<1> QED BY <1>2, <1>3 DEF Literal

\* A new object leaves every handle good.
LEMMA MadeSound ==
  ASSUME NEW h, NEW s, NEW v, NEW f, NEW u, Sound(h, s, v, f, u),
         NEW n \in Nat \ {0}, HasFresh(h, n),
         NEW kind, NEW items, Formed(kind, items), Holds(h, items)
  PROVE  /\ Sound(Made(h, kind, items), s, v, f, u)
         /\ Extends(Made(h, kind, items), h)
         /\ Fresh(h) \in DOMAIN Made(h, kind, items).obj
         /\ Made(h, kind, items).obj[Fresh(h)].kind = kind
         /\ Fresh(h) \in Nat \ {0}
<1>1. Good(h)
  BY DEF Sound
<1>2. Good(Made(h, kind, items)) /\ Extends(Made(h, kind, items), h)
  BY <1>1, MadeExtends
<1>3. Sound(Made(h, kind, items), s, v, f, u)
  BY ONLY <1>2, Sound(h, s, v, f, u), SoundExtends
<1> QED BY <1>1, <1>2, <1>3, MadeExtends

\* One more object leaves one address less.
LEMMA FreshLeft ==
  ASSUME NEW h, Good(h), NEW kind, NEW items, Formed(kind, items), Holds(h, items),
         HasFresh(h, 2)
  PROVE  HasFresh(Made(h, kind, items), 1)
<1> DEFINE S == Address \ DOMAIN h.obj
           g == Made(h, kind, items)
<1>1. IsFiniteSet(S)
  BY HeapAssumption, FS_Difference
<1>0. 2 \in Nat \ {0}
  OBVIOUS
<1>2. Fresh(h) \in S /\ DOMAIN g.obj = DOMAIN h.obj \union {Fresh(h)}
  BY <1>0, FreshIs, MadeIs
<1>3. Address \ DOMAIN g.obj = S \ {Fresh(h)}
  BY <1>2
<1>4. Cardinality(S) >= 2 /\ Cardinality(S) \in Nat
  BY <1>1, FS_CardinalityType DEF HasFresh
<1> HIDE DEF S, g
<1>5. Cardinality(S \ {Fresh(h)}) = Cardinality(S) - 1
  BY <1>1, <1>2, FS_RemoveElement
<1>6. Cardinality(S \ {Fresh(h)}) >= 1
  BY <1>4, <1>5
<1>7. HasFresh(g, 1)
  BY <1>3, <1>6 DEF HasFresh
<1> QED BY <1>7 DEF g

\* What the invariant says, for the leaves that need one part.
LEMMA StateIs ==
  ASSUME HeapInv
  PROVE  /\ Good(heap) /\ Owes(undo, frames) \in Nat /\ frames \in Seq(FrameSet)
         /\ undo \in Seq(EntrySet) /\ Len(undo) \in Nat /\ Len(frames) \in Nat
         /\ Sound(heap, scope, acc, frames, undo) /\ Ledger(heap, undo, frames, foreign)
         /\ foreign \in BOOLEAN /\ (~foreign => Exact(heap, Owes(undo, frames)))
         /\ run \in RunSet
<1>1. frames \in Seq(FrameSet) /\ undo \in Seq(EntrySet)
  BY DEF HeapInv, Sound, FramesIn, UndoIn
<1> QED BY <1>1, OwesNat DEF HeapInv, Sound, Ledger, RunIs

\* An empty list.
LEMMA EmptyMeasured ==
  ASSUME NEW h, Good(h), Measured(h), HasFresh(h, 2)
  PROVE  /\ Measured(Made(h, "list", <<>>))
         /\ DepthIn(Made(h, "list", <<>>), Fresh(h)) = 1
<1> DEFINE g == Made(h, "list", <<>>)
<1>0. 2 \in Nat \ {0}
  OBVIOUS
<1>1. PICK q : q = <<>>
  OBVIOUS
<1>2. Formed("list", q) /\ Holds(h, q) /\ DOMAIN q = {}
  BY <1>1 DEF Formed, Holds
<1>3. Shallow(h, "list", q)
  BY <1>2 DEF Shallow
<1>4. Measured(Made(h, "list", q))
  BY ONLY Good(h), Measured(h), HasFresh(h, 2), <1>0, <1>2, <1>3, MeasuredMade
<1>5. Summary(h, q).top = 0
  <2>1. Numbered(h, q)
    BY <1>2, NumberedIs
  <2> QED BY <1>2, <2>1, SummaryIs DEF Describes
<1>6. Fresh(h) # Scalar
  BY <1>0, FreshIs, HeapAssumption DEF Scalar
<1>7. Made(h, "list", q).obj[Fresh(h)].top = Summary(h, q).top
  BY <1>0, <1>2, MadeIs
<1>8. DepthIn(Made(h, "list", q), Fresh(h)) = 1
  BY <1>5, <1>6, <1>7 DEF DepthIn
<1> QED BY <1>1, <1>4, <1>8

\* A cell is no backing.
LEMMA CellMeasured ==
  ASSUME NEW h, Good(h), Measured(h), HasFresh(h, 1), NEW q, Formed("cell", q), Holds(h, q)
  PROVE  Measured(Made(h, "cell", q))
<1>1. DOMAIN q = 1 .. 1
  BY DEF Formed
<1>2. 1 .. 1 \subseteq 1 .. MaxElements /\ 1 \in Nat \ {0}
  BY HeapAssumption
<1>3. Shallow(h, "cell", q)
  BY <1>1, <1>2 DEF Shallow
<1> QED BY <1>2, <1>3, MeasuredMade

\* track_result: the inner list may stay charged when the outer is refused.
LEMMA ResultKeeps ==
  ASSUME HeapInv, Result
  PROVE  HeapInv'
<1> DEFINE inner == Made(heap, "list", <<>>)
           outer == <<Fresh(heap), Scalar>>
           last  == Made(inner, "list", outer)
<1>0. run.at = "on" /\ HasFresh(heap, 2) /\ 1 \in Nat \ {0} /\ 2 \in Nat \ {0}
  BY DEF Result, Running
<1>1. Formed("list", <<>>) /\ Holds(heap, <<>>)
  BY DEF Formed, Holds
<1>2. /\ Sound(inner, scope, acc, frames, undo) /\ Extends(inner, heap)
      /\ Fresh(heap) \in DOMAIN inner.obj /\ Fresh(heap) \in Nat
  BY <1>0, <1>1, StateIs, MadeSound
<1>3. Fits(heap, ListBody(0)) => Ledger(inner, undo, frames, foreign)
  <2>1. Body("list", <<>>) = ListBody(0)
    BY DEF Body
  <2>2. Fits(heap, ListBody(0)) /\ Exact(heap, Owes(undo, frames)) => Exact(inner, Owes(undo, frames))
    BY <1>0, <1>1, <2>1, StateIs, MadeExact
  <2> QED BY <2>2, StateIs DEF Ledger
<1>4. HasFresh(inner, 1)
  BY <1>0, <1>1, StateIs, FreshLeft
<1>5. Good(inner) /\ Owes(undo, frames) \in Nat
  BY <1>2, StateIs DEF Sound
<1>13. Measured(inner) /\ DepthIn(inner, Fresh(heap)) = 1
  BY <1>0, EmptyMeasured DEF HeapInv, Sound
<1> HIDE DEF inner
<1>6. Formed("list", outer) /\ Holds(inner, outer)
  BY <1>2 DEF Formed, Holds, Scalar
<1>7. Body("list", outer) = ListBody(2)
  BY DEF Body
<1>14. Shallow(inner, "list", outer)
  <2>1. DOMAIN outer = 1 .. 2 /\ outer[1] = Fresh(heap) /\ outer[2] = Scalar
    OBVIOUS
  <2>2. 1 .. 2 \subseteq 1 .. MaxElements /\ 1 < MaxValueDepth /\ 0 < MaxValueDepth
    BY HeapAssumption
  <2>3. DepthIn(inner, Scalar) = 0
    BY DEF DepthIn
  <2>4. \A i \in 1 .. 2 : i = 1 \/ i = 2
    OBVIOUS
  <2> HIDE DEF outer
  <2> QED BY <1>13, <2>1, <2>2, <2>3, <2>4 DEF Shallow
<1> HIDE DEF outer
<1>15. Measured(last)
  BY <1>0, <1>4, <1>5, <1>6, <1>13, <1>14, MeasuredMade
<1>8. /\ Sound(last, scope, acc, frames, undo) /\ Fresh(inner) \in DOMAIN last.obj
  BY <1>0, <1>2, <1>4, <1>6, MadeSound
<1>9. Fits(heap, ListBody(0)) /\ Fits(inner, ListBody(2)) => Ledger(last, undo, frames, foreign)
  <2>1. Fits(inner, ListBody(2)) /\ Exact(inner, Owes(undo, frames)) => Exact(last, Owes(undo, frames))
    BY <1>0, <1>4, <1>5, <1>6, <1>7, MadeExact
  <2> QED BY <1>3, <2>1 DEF Ledger
<1> HIDE DEF last
<1>10. CASE ~Fits(heap, ListBody(0)) /\ UNCHANGED undo /\ Refuse(heap, "heap")
  BY <1>0, <1>10, RefusesAsIs
<1>11. CASE /\ Fits(heap, ListBody(0)) /\ ~Fits(inner, ListBody(2))
            /\ UNCHANGED undo /\ Refuse(inner, "heap")
  BY <1>0, <1>2, <1>3, <1>11, <1>13, Refuses
<1>12. CASE /\ Fits(heap, ListBody(0)) /\ Fits(inner, ListBody(2))
            /\ acc' = Fresh(inner)
            /\ UNCHANGED <<scope, frames, undo, run, before, foreign>>
            /\ Settle(last)
  <2>1. Sound(last, scope', acc', frames', undo')
    BY <1>8, <1>12 DEF Sound, ValueIn
  <2>2. Ledger(last, undo', frames', foreign') /\ RunIs'
    BY <1>9, <1>12 DEF HeapInv, RunIs
  <2> QED BY <1>12, <1>15, <2>1, <2>2, Settles
<1> QED BY <1>10, <1>11, <1>12 DEF Result, inner, outer, last

\* One binding more.
LEMMA ScopeChange ==
  ASSUME NEW h, NEW s, ScopeIn(h, s), NEW x \in Var, NEW c \in Nat, IsCell(h, c)
  PROVE  ScopeIn(h, [s EXCEPT ![x] = c])
BY DEF ScopeIn

\* Env::set: the new cell is dropped when its entry is refused.
LEMMA LetKeeps ==
  ASSUME HeapInv, NEW x \in Var, Let(x)
  PROVE  HeapInv'
<1> DEFINE made == Made(heap, "cell", <<acc>>)
           key  == BindingKey(x)
<1>0. run.at = "on" /\ HasFresh(heap, 1) /\ 1 \in Nat \ {0}
  BY DEF Let, Running
<1>1. acc \in {Scalar} \union DOMAIN heap.obj /\ acc \in Nat
  BY GoodIs DEF Let, HeapInv, Sound, ValueIn, Scalar
<1>2. Formed("cell", <<acc>>) /\ Holds(heap, <<acc>>)
  BY <1>1 DEF Formed, Holds
<1>3. /\ Sound(made, scope, acc, frames, undo) /\ Extends(made, heap)
      /\ Fresh(heap) \in DOMAIN made.obj /\ Fresh(heap) \in Nat
      /\ made.obj[Fresh(heap)].kind = "cell"
  BY <1>0, <1>2, StateIs, MadeSound
<1>4. Fits(heap, CellBytes) => (Exact(heap, Owes(undo, frames)) => Exact(made, Owes(undo, frames)))
  <2>1. Body("cell", <<acc>>) = CellBytes
    BY DEF Body
  <2> QED BY <1>0, <1>2, <2>1, StateIs, MadeExact
<1>5. CASE UNCHANGED undo /\ Refuse(heap, "heap")
  BY <1>0, <1>5, RefusesAsIs
<1>8. Measured(made)
  BY <1>0, <1>2, CellMeasured DEF HeapInv, Sound
<1> HIDE DEF made
<1>6. CASE /\ Fits(heap, CellBytes) /\ UNCHANGED undo /\ Refuse(made, "heap")
  <2>1. Ledger(made, undo, frames, foreign)
    BY <1>4, <1>6, StateIs DEF Ledger
  <2> QED BY <1>0, <1>3, <1>6, <1>8, <2>1, Refuses
<1>7. CASE /\ Fits(heap, CellBytes) /\ ~EntryRefused(made, key)
           /\ Journal(key, scope[x], Scalar)
           /\ scope' = [scope EXCEPT ![x] = Fresh(heap)]
           /\ acc' = Nothing
           /\ UNCHANGED <<frames, run, before, foreign>>
           /\ Settle(Entered(made, key))
  <2>1. scope[x] \in Nat /\ (scope[x] # NoCell => IsCell(made, scope[x]))
    BY <1>3 DEF Sound, ScopeIn
  <2>2. Entry(key, scope[x], Scalar) \in EntrySet
    BY <2>1 DEF Entry, EntrySet, BindingKey, Scalar
  <2>3. \A c \in Address : key = CellKey(c) => scope[x] = c
    BY DEF BindingKey, CellKey
  <2> DEFINE h == Entered(made, key)
  <2>4. /\ Good(h) /\ h.obj = made.obj /\ UndoIn(h, undo')
        /\ \A f \in Seq(FrameSet) : Exact(made, Owes(undo, f)) => Exact(h, Owes(undo', f))
        /\ RunIs'
    <3> HIDE DEF key
    <3>1. RunIs /\ run' = run /\ frames' = frames /\ run.at # "idle"
      BY <1>0, <1>7 DEF HeapInv
    <3>2. Scalar # Scalar => Scalar \in DOMAIN made.obj
      OBVIOUS
    <3>3. ~EntryRefused(made, key) /\ Journal(key, scope[x], Scalar)
      BY <1>7
    <3> QED BY <1>3, <2>1, <2>2, <2>3, <3>1, <3>2, <3>3, Enters
  <2> HIDE DEF h
  <2>5. Sound(h, scope, acc, frames, undo)
    BY <1>3, <2>4, SoundExtends DEF Extends
  <2>9. Measured(h)
    BY <1>8, <2>4, MeasuredPlain
  <2>6. ScopeIn(h, scope')
    BY <1>3, <1>7, <2>4, <2>5, ScopeChange DEF Sound, IsCell
  <2>7. Sound(h, scope', acc', frames', undo')
    BY <1>7, <2>4, <2>5, <2>6 DEF Sound, ValueIn
  <2>8. Ledger(h, undo', frames', foreign')
    <3>1. ~foreign => Exact(h, Owes(undo', frames))
      BY <1>4, <1>7, <2>4, StateIs
    <3> QED BY <1>7, <3>1, StateIs DEF Ledger
  <2> QED BY <1>7, <2>4, <2>7, <2>8, <2>9, Settles DEF h
<1> QED BY <1>5, <1>6, <1>7 DEF Let, made

\* A write to a variable that was entered first.
LEMMA EnteringIs ==
  ASSUME HeapInv, run.at = "on", NEW x \in Bound, Entering(x)
  PROVE  /\ Sound(Journaled(x), scope, acc, frames, undo')
         /\ Journaled(x).obj = heap.obj /\ Measured(Journaled(x))
         /\ ~foreign => Exact(Journaled(x), Owes(undo', frames))
         /\ Owes(undo', frames) \in Nat
<1> DEFINE key == CellKey(scope[x])
           h   == Journaled(x)
<1>1. /\ IsCell(heap, scope[x]) /\ scope[x] \in Address
      /\ ValueOf(x) \in {Scalar} \union DOMAIN heap.obj /\ scope[x] \in Nat /\ ValueOf(x) \in Nat
  <2>1. /\ IsCell(heap, scope[x]) /\ scope[x] \in Address
        /\ ValueOf(x) \in {Scalar} \union DOMAIN heap.obj
    BY KnownIn
  <2>2. DOMAIN heap.obj \subseteq Nat
    BY StateIs, GoodIs
  <2>3. Address \subseteq Nat
    BY HeapAssumption
  <2>4. scope[x] \in Nat
    BY <2>1, <2>3
  <2>5. ValueOf(x) \in Nat
    BY ONLY <2>1, <2>2 DEF Scalar
  <2> QED BY <2>1, <2>4, <2>5
<1>2. Entry(key, scope[x], ValueOf(x)) \in EntrySet
  BY <1>1 DEF Entry, EntrySet, CellKey
<1>3. \A c \in Address : key = CellKey(c) => scope[x] = c
  BY DEF CellKey
<1>4. h = Entered(heap, key)
  BY DEF Journaled
<1>5. ~EntryRefused(heap, key) /\ Journal(key, scope[x], ValueOf(x)) /\ run.at # "idle"
  BY DEF Entering
<1> HIDE DEF key, h
<1>6. /\ Good(h) /\ h.obj = heap.obj /\ UndoIn(h, undo')
      /\ \A f \in Seq(FrameSet) : Exact(heap, Owes(undo, f)) => Exact(h, Owes(undo', f))
  BY <1>1, <1>2, <1>3, <1>4, <1>5, StateIs, Enters
<1>7. Sound(h, scope, acc, frames, undo)
  BY <1>6, StateIs, SoundExtends DEF Extends
<1>8. Sound(h, scope, acc, frames, undo')
  BY <1>6, <1>7 DEF Sound
<1>9. ~foreign => Exact(h, Owes(undo', frames))
  BY <1>6, StateIs
<1>10. Len(undo') \in Nat
  BY <1>6 DEF UndoIn
<1>11. Owes(undo', frames) \in Nat
  BY <1>10, StateIs, OwesNat
<1>12. Measured(h)
  BY <1>6, MeasuredPlain DEF HeapInv
<1> QED BY <1>6, <1>8, <1>9, <1>11, <1>12 DEF h

\* journal_cell is refused.
LEMMA EntryFailsKeeps ==
  ASSUME HeapInv, run.at = "on", NEW x, EntryFails(x)
  PROVE  HeapInv'
BY RefusesAsIs DEF EntryFails

\* check_element_depth refuses, after the entry.
LEMMA RefuseElementKeeps ==
  ASSUME HeapInv, run.at = "on", NEW x \in Bound, RefuseElement(x)
  PROVE  HeapInv'
<1>1. /\ Sound(Journaled(x), scope, acc, frames, undo')
      /\ Measured(Journaled(x))
      /\ ~foreign => Exact(Journaled(x), Owes(undo', frames))
  BY EnteringIs DEF RefuseElement
<1>2. Ledger(Journaled(x), undo', frames, foreign)
  BY <1>1, StateIs DEF Ledger
<1>3. Refuse(Journaled(x), "depth")
  BY DEF RefuseElement
<1> QED BY <1>1, <1>2, <1>3, Refuses

\* Env::update, which writes to a cell.
LEMMA UpdateKeeps ==
  ASSUME HeapInv, NEW x, Update(x)
  PROVE  HeapInv'
<1>0. run.at = "on" /\ x \in Bound
  BY DEF Update, Running
<1>1. CASE EntryFails(x)
  BY <1>0, <1>1, EntryFailsKeeps
<1>2. CASE /\ Entering(x)
           /\ acc' = Nothing
           /\ UNCHANGED <<scope, frames, run, before, foreign>>
           /\ Settle([Journaled(x) EXCEPT !.obj[scope[x]].items = <<acc>>])
  <2> DEFINE h == Journaled(x)
             g == [h EXCEPT !.obj[scope[x]].items = <<acc>>]
  <2>1. /\ Sound(h, scope, acc, frames, undo') /\ h.obj = heap.obj /\ Measured(h)
        /\ ~foreign => Exact(h, Owes(undo', frames))
    BY <1>0, <1>2, EnteringIs
  <2>2. Settle(g)
    BY <1>2
  <2> HIDE DEF h
  <2>3. IsCell(h, scope[x])
    BY <1>0, <2>1, KnownIn DEF IsCell
  <2>4. acc \in {Scalar} \union DOMAIN h.obj
    BY <2>1 DEF Update, Sound, ValueIn
  <2>5. g = [h EXCEPT !.obj[scope[x]].items = <<acc>>]
    OBVIOUS
  <2> HIDE DEF g
  <2>6. Recelled(g, h, scope[x])
    <3>1. Good(h) /\ scope[x] \in DOMAIN h.obj /\ h.obj[scope[x]].kind = "cell"
      BY <2>1, <2>3 DEF Sound, IsCell
    <3>2. PICK c : c = scope[x]
      OBVIOUS
    <3>3. PICK v : v = acc
      OBVIOUS
    <3>4. g = [h EXCEPT !.obj[c].items = <<v>>]
      BY ONLY <2>5, <3>2, <3>3
    <3>5. Good(h) /\ c \in DOMAIN h.obj /\ h.obj[c].kind = "cell" /\ v \in {Scalar} \union DOMAIN h.obj
      BY ONLY <3>1, <3>2, <3>3, <2>4
    <3>6. Recelled(g, h, c)
      BY ONLY <3>4, <3>5, CellSet
    <3> QED BY ONLY <3>6, <3>2
  <2>7. Extends(g, h)
    BY <2>3, <2>6 DEF Extends, IsCell, Recelled
  <2>8. Sound(g, scope, acc, frames, undo')
    BY <2>1, <2>6, <2>7, SoundExtends DEF Recelled
  <2>9. Sound(g, scope', acc', frames', undo')
    BY <1>2, <2>8 DEF Sound, ValueIn
  <2>10. Ledger(g, undo', frames', foreign') /\ RunIs'
    BY <1>0, <1>2, <2>1, <2>6, StateIs DEF Ledger, Exact, RunIs, Recelled
  <2>11. Measured(g)
    <3>1. \A a \in DOMAIN g.obj :
            /\ g.obj[a].kind = h.obj[a].kind
            /\ g.obj[a].top = h.obj[a].top /\ g.obj[a].count = h.obj[a].count
            /\ g.obj[a].kind # "cell" => g.obj[a].items = h.obj[a].items
      BY <2>3, <2>6 DEF Recelled, IsCell
    <3>2. Good(g) /\ DOMAIN g.obj \subseteq DOMAIN h.obj
      BY <2>6 DEF Recelled
    <3> QED BY ONLY <2>1, <3>1, <3>2, MeasuredSame
  <2> QED BY <2>2, <2>9, <2>10, <2>11, Settles
<1> QED BY <1>1, <1>2 DEF Update

\* Handles are counted in the objects only.
LEMMA SameCount ==
  ASSUME NEW h, NEW g, g.obj = h.obj, NEW a
  PROVE  MustCopy(g, a) = MustCopy(h, a)
<1>1. {p \in (DOMAIN g.obj) \X (1 .. MaxElements) :
         p[2] \in DOMAIN g.obj[p[1]].items /\ g.obj[p[1]].items[p[2]] = a}
      = {p \in (DOMAIN h.obj) \X (1 .. MaxElements) :
           p[2] \in DOMAIN h.obj[p[1]].items /\ h.obj[p[1]].items[p[2]] = a}
  OBVIOUS
<1>2. HandleCount(g, a) = HandleCount(h, a)
  BY <1>1, Zenon DEF HandleCount
<1> QED BY <1>2 DEF MustCopy

\* The new elements of a backing: the value on its way in and what was there.
Written(x, items) ==
  /\ Shallow(heap, heap.obj[ValueOf(x)].kind, items)
  /\ \A i \in DOMAIN items :
       \/ items[i] = acc
       \/ \E j \in DOMAIN heap.obj[ValueOf(x)].items : items[i] = heap.obj[ValueOf(x)].items[j]

\* detach, write and the charge of the growth.
LEMMA WriteThroughKeeps ==
  ASSUME HeapInv, run.at = "on", HasFresh(heap, 1), NEW x \in Bound,
         ValueOf(x) # Scalar, heap.obj[ValueOf(x)].kind # "cell",
         NEW items, Formed(heap.obj[ValueOf(x)].kind, items), Holds(heap, items),
         Written(x, items),
         NEW summary, summary = Summary(heap, items), NEW v, ValueIn(heap, v),
         WriteThrough(x, items, summary, v)
  PROVE  HeapInv'
<1> DEFINE h == Journaled(x)
           a == ValueOf(x)
           c == scope[x]
           w == Write(h, c, items, summary)
           inPlace == ~MustCopy(heap, a) /\ heap.obj[a].home = "past"
<1>1. /\ Entering(x)
      /\ run' = IF w.ok THEN run ELSE [run EXCEPT !.error = "heap"]
      /\ acc' = IF w.ok THEN v ELSE Nothing
      /\ foreign' = (foreign \/ inPlace)
      /\ UNCHANGED <<scope, frames, before>>
      /\ Settle(w.heap)
  BY DEF WriteThrough
<1>2. /\ Sound(h, scope, acc, frames, undo') /\ h.obj = heap.obj /\ Measured(h)
      /\ ~foreign => Exact(h, Owes(undo', frames))
      /\ Owes(undo', frames) \in Nat
  BY <1>1, EnteringIs, Zenon
<1>3. /\ IsCell(heap, c) /\ a \in DOMAIN heap.obj /\ heap.obj[c].items[1] = a
  BY KnownIn DEF ValueOf
<1>4. MustCopy(h, a) = MustCopy(heap, a)
  BY <1>2, SameCount
<1>5. w = Write(h, c, items, summary)
  OBVIOUS
<1>6. /\ HasFresh(h, 1) /\ Holds(h, items) /\ ValueIn(h, v)
  BY <1>2 DEF HasFresh, Holds, ValueIn
<1>7. heap.obj[a].home \in {"now", "past"}
  BY <1>3, StateIs DEF Good, Object
<1>8. heap.obj[a].kind # "cell" /\ Formed(heap.obj[a].kind, items)
  OBVIOUS
<1>15. /\ Shallow(heap, heap.obj[a].kind, items) /\ summary = Summary(heap, items)
       /\ \A i \in DOMAIN items :
            items[i] = acc \/ \E j \in DOMAIN heap.obj[a].items : items[i] = heap.obj[a].items[j]
  BY DEF Written
<1> HIDE DEF h, a, c, w
<1>9. /\ Good(w.heap) /\ Extends(w.heap, h) /\ w.ok \in BOOLEAN
      /\ w.heap = h \/ \E t : t \in Nat /\ Rewritten(w.heap, h, a, t, items, summary)
      /\ MustCopy(h, a) \/ h.obj[a].home = "now" =>
           \A n \in Nat : Exact(h, n) => Exact(w.heap, n)
  <2>1. Good(h) /\ c \in DOMAIN h.obj /\ h.obj[c].kind = "cell"
        /\ h.obj[c].items[1] \in DOMAIN h.obj /\ h.obj[h.obj[c].items[1]].kind # "cell"
        /\ Formed(h.obj[h.obj[c].items[1]].kind, items)
        /\ HasFresh(h, 1) /\ Holds(h, items)
    BY <1>2, <1>3, <1>6, <1>8, Zenon DEF Sound, IsCell
  <2>2. /\ Good(w.heap) /\ Extends(w.heap, h) /\ w.ok \in BOOLEAN
        /\ \/ w.heap = h
           \/ \E t : t \in Nat /\ Rewritten(w.heap, h, h.obj[c].items[1], t, items, summary)
                    /\ Elsewhere(w.heap, h, c, t)
        /\ MustCopy(h, h.obj[c].items[1]) \/ h.obj[h.obj[c].items[1]].home = "now" =>
             \A n \in Nat : Exact(h, n) => Exact(w.heap, n)
    BY ONLY <1>5, <2>1, WriteIs, Zenon
  <2>3. h.obj[c].items[1] = a
    BY <1>2, <1>3
  <2> QED BY <2>2, <2>3
<1>10. Sound(w.heap, scope, acc, frames, undo')
  BY <1>2, <1>9, SoundExtends
<1>11. ValueIn(w.heap, v)
  BY <1>6, <1>9 DEF ValueIn, Extends
<1>12. Sound(w.heap, scope', acc', frames', undo')
  BY <1>1, <1>10, <1>11 DEF Sound, ValueIn
<1>13. Ledger(w.heap, undo', frames', foreign')
  <2>1. foreign' \in BOOLEAN
    BY <1>1, StateIs
  <2>2. ~foreign' => ~foreign /\ (MustCopy(h, a) \/ h.obj[a].home = "now")
    BY <1>1, <1>2, <1>4, <1>7
  <2>3. ~foreign' => Exact(w.heap, Owes(undo', frames))
    BY <1>2, <1>9, <2>2
  <2> QED BY <1>1, <2>1, <2>3 DEF Ledger
<1>14. RunIs'
  BY <1>1, <1>9, StateIs DEF RunIs, RunSet
<1>16. Measured(w.heap)
  <2>1. CASE w.heap = h
    BY <1>2, <2>1, Zenon
  <2>2. CASE w.heap # h
    <3>1. PICK t \in Nat : Rewritten(w.heap, h, a, t, items, summary)
      BY <1>9, <2>2
    <3>2. Summary(h, items) = summary
      BY <1>2, <1>15, SummarySame DEF DepthIn
    <3>3. Shallow(h, h.obj[a].kind, items)
      BY <1>2, <1>15 DEF Shallow, DepthIn
    <3>4. /\ Good(h) /\ Measured(h) /\ c \in DOMAIN h.obj /\ h.obj[c].kind = "cell"
          /\ a \in DOMAIN h.obj /\ a = h.obj[c].items[1] /\ h.obj[a].kind # "cell"
          /\ undo' \in Seq(EntrySet) /\ Holds(h, items)
      BY <1>2, <1>3, <1>6, <1>8 DEF Sound, IsCell, UndoIn
    <3>5. \A i \in DOMAIN items :
            items[i] = acc \/ \E j \in DOMAIN h.obj[a].items : items[i] = h.obj[a].items[j]
      BY <1>2, <1>15
    <3>6. PICK g : g = w.heap
      OBVIOUS
    <3>7. Good(g) /\ Rewritten(g, h, a, t, items, Summary(h, items))
      BY <1>9, <3>1, <3>2, <3>6
    <3> QED BY ONLY <3>3, <3>4, <3>5, <3>6, <3>7, WriteMeasured, Zenon
  <2> QED BY <2>1, <2>2
<1> QED BY <1>1, <1>12, <1>13, <1>14, <1>16, Settles

\* What a variable holds that is written to.
LEMMA HoldsIs ==
  ASSUME HeapInv, NEW x, NEW kind \in {"list", "dict"}, HoldsA(kind, x)
  PROVE  /\ x \in Bound /\ ValueOf(x) # Scalar
         /\ ValueOf(x) \in DOMAIN heap.obj
         /\ heap.obj[ValueOf(x)].kind = kind
         /\ Formed(kind, heap.obj[ValueOf(x)].items)
         /\ Holds(heap, heap.obj[ValueOf(x)].items)
<1>1. x \in Bound /\ ValueOf(x) \in DOMAIN heap.obj /\ heap.obj[ValueOf(x)].kind = kind
      /\ ValueOf(x) # Scalar
  BY KnownIn DEF HoldsA
<1> QED BY <1>1, StateIs DEF Good, Object

\* A list with one element more.
LEMMA HoldsMore ==
  ASSUME NEW h, NEW q \in Seq(Nat), Holds(h, q), NEW v \in Nat, v \in {Scalar} \union DOMAIN h.obj
  PROVE  Append(q, v) \in Seq(Nat) /\ Holds(h, Append(q, v))
<1>1. /\ Append(q, v) \in Seq(Nat) /\ DOMAIN Append(q, v) = 1 .. Len(q) + 1
      /\ \A i \in 1 .. Len(q) : Append(q, v)[i] = q[i]
      /\ Append(q, v)[Len(q) + 1] = v
      /\ Len(q) \in Nat /\ DOMAIN q = 1 .. Len(q)
  BY AppendProperties
<1> DEFINE r == Append(q, v)
<1> HIDE DEF r
<1>2. \A i \in 1 .. Len(q) + 1 : r[i] \in {Scalar} \union DOMAIN h.obj
  <2>1. \A i \in 1 .. Len(q) : q[i] \in {Scalar} \union DOMAIN h.obj
    BY <1>1 DEF Holds
  <2>2. \A i \in 1 .. Len(q) + 1 : i \in 1 .. Len(q) \/ i = Len(q) + 1
    BY <1>1
  <2> QED BY <1>1, <2>1, <2>2 DEF r
<1> QED BY <1>1, <1>2 DEF Holds, r

\* A sequence without its last element.
LEMMA LessIs ==
  ASSUME NEW q \in Seq(Nat), q # <<>>, NEW n \in Nat, n = Len(q)
  PROVE  /\ DOMAIN SubSeq(q, 1, n - 1) = 1 .. n - 1
         /\ \A j \in 1 .. n - 1 : SubSeq(q, 1, n - 1)[j] = q[j]
<1>1. n > 0
  OBVIOUS
<1>2. /\ SubSeq(q, 1, n - 1) \in Seq(Nat) /\ Len(SubSeq(q, 1, n - 1)) = n - 1
      /\ \A j \in 1 .. n - 1 : SubSeq(q, 1, n - 1)[j] = q[j]
  BY <1>1
<1> QED BY <1>2

\* A list without its last element.
LEMMA HoldsLess ==
  ASSUME NEW h, NEW q \in Seq(Nat), q # <<>>, Holds(h, q)
  PROVE  SubSeq(q, 1, Len(q) - 1) \in Seq(Nat) /\ Holds(h, SubSeq(q, 1, Len(q) - 1))
<1> DEFINE r == SubSeq(q, 1, Len(q) - 1)
<1>1. Len(q) \in Nat /\ Len(q) > 0 /\ DOMAIN q = 1 .. Len(q)
  OBVIOUS
<1>2. r \in Seq(Nat) /\ Len(r) = Len(q) - 1 /\ \A i \in 1 .. Len(q) - 1 : r[i] = q[i]
  BY <1>1
<1>3. DOMAIN r = 1 .. Len(q) - 1
  BY <1>2
<1> HIDE DEF r
<1>5. \A i \in 1 .. Len(q) - 1 : i \in DOMAIN q
  BY <1>1
<1>6. \A i \in DOMAIN q : q[i] \in {Scalar} \union DOMAIN h.obj
  BY DEF Holds
<1>7. \A i \in DOMAIN r : r[i] \in {Scalar} \union DOMAIN h.obj
  BY ONLY <1>2, <1>3, <1>5, <1>6
<1>4. Holds(h, r)
  BY <1>7 DEF Holds
<1> QED BY <1>2, <1>4 DEF r

\* What a variable holds keeps the summary of its elements.
LEMMA OfIs ==
  ASSUME HeapInv, NEW a \in DOMAIN heap.obj, heap.obj[a].kind # "cell",
         NEW q, q = heap.obj[a].items
  PROVE  /\ Numbered(heap, q) /\ Describes(Of(a), heap, q)
         /\ DOMAIN q \subseteq 1 .. MaxElements
         /\ \A i \in DOMAIN q : DepthIn(heap, q[i]) < MaxValueDepth
<1>1. Measured(heap) /\ Good(heap)
  BY StateIs DEF HeapInv
<1>2. /\ DOMAIN q \subseteq 1 .. MaxElements
      /\ Summary(heap, q) = [top |-> heap.obj[a].top, count |-> heap.obj[a].count]
      /\ heap.obj[a].top < MaxValueDepth /\ heap.obj[a].top \in Nat
  BY <1>1 DEF Measured
<1>3. Holds(heap, q)
  BY <1>1 DEF Good
<1>4. Numbered(heap, q)
  BY <1>1, <1>2, <1>3, NumberedIs
<1>5. Of(a) = Summary(heap, q)
  BY <1>2 DEF Of
<1>6. Describes(Of(a), heap, q)
  BY <1>4, <1>5, SummaryIs
<1>7. Of(a).top = heap.obj[a].top
  BY DEF Of
<1>8. ASSUME NEW i \in DOMAIN q PROVE DepthIn(heap, q[i]) < MaxValueDepth
  <2>1. DepthIn(heap, q[i]) <= heap.obj[a].top
    BY <1>6, <1>7 DEF Describes
  <2>2. DepthIn(heap, q[i]) \in Nat
    BY <1>4 DEF Numbered
  <2> QED BY <1>2, <2>1, <2>2, HeapAssumption
<1> QED BY <1>2, <1>4, <1>6, <1>8

\* One element comes, in the place of another or in a new one.
LEMMA PutIs ==
  ASSUME NEW h, NEW q, Numbered(h, q), NEW s, Describes(s, h, q),
         NEW i, NEW r, Numbered(h, r), DOMAIN r = DOMAIN q \union {i},
         \A j \in DOMAIN q \ {i} : r[j] = q[j],
         NEW less, less = IF i \in DOMAIN q THEN ChildRemoved(s, DepthIn(h, q[i])) ELSE s,
         NEW more, more = ChildAdded(less, DepthIn(h, r[i]))
  PROVE  /\ SettledSummary(h, r, more) = Summary(h, r)
         /\ i \notin DOMAIN q => more = Summary(h, r)
<1>1. less = [top |-> s.top, count |-> Cardinality(Deepest(h, q, s.top) \ {i})]
  <2>1. CASE i \in DOMAIN q
    BY <2>1, RemovedIs
  <2>2. CASE i \notin DOMAIN q
    <3>1. Deepest(h, q, s.top) \ {i} = Deepest(h, q, s.top)
      BY <2>2 DEF Deepest
    <3>2. s = [top |-> s.top, count |-> s.count] /\ s.count = Cardinality(Deepest(h, q, s.top))
      BY DEF Describes
    <3> QED BY <2>2, <3>1, <3>2
  <2> QED BY <2>1, <2>2
<1>2. /\ more.count # 0 => Describes(more, h, r)
      /\ i \notin DOMAIN q => more.count # 0
  BY <1>1, AddedIs
<1>3. SettledSummary(h, r, more) = Summary(h, r)
  BY <1>2, SettledIs
<1>4. i \notin DOMAIN q => more = Summary(h, r)
  BY <1>2, SummaryBy
<1> QED BY <1>3, <1>4

\* The elements after a push or an assignment.
LEMMA PutWritten ==
  ASSUME HeapInv, NEW x, ValueOf(x) \in DOMAIN heap.obj, heap.obj[ValueOf(x)].kind # "cell",
         ~TooDeep(heap, acc), acc \in {Scalar} \union DOMAIN heap.obj,
         NEW i \in 1 .. MaxElements,
         NEW r, DOMAIN r = DOMAIN heap.obj[ValueOf(x)].items \union {i}, r[i] = acc,
         \A j \in DOMAIN heap.obj[ValueOf(x)].items \ {i} : r[j] = heap.obj[ValueOf(x)].items[j]
  PROVE  Written(x, r) /\ Numbered(heap, r)
<1>1. PICK a \in DOMAIN heap.obj : a = ValueOf(x)
  OBVIOUS
<1>2. PICK q : q = heap.obj[a].items
  OBVIOUS
<1>3. /\ Numbered(heap, q) /\ DOMAIN q \subseteq 1 .. MaxElements
      /\ \A j \in DOMAIN q : DepthIn(heap, q[j]) < MaxValueDepth
  BY <1>1, <1>2, OfIs
<1>4. DepthIn(heap, acc) < MaxValueDepth /\ DepthIn(heap, acc) \in Nat
  BY NotTooDeep DEF HeapInv
<1>5. DOMAIN r = DOMAIN q \union {i} /\ r[i] = acc /\ \A j \in DOMAIN q \ {i} : r[j] = q[j]
  BY <1>1, <1>2
<1>6. \A j \in DOMAIN r : DepthIn(heap, r[j]) < MaxValueDepth /\ DepthIn(heap, r[j]) \in Nat
  BY <1>3, <1>4, <1>5 DEF Numbered
<1>7. IsFiniteSet(DOMAIN r)
  BY <1>3, <1>5, FS_AddElement DEF Numbered
<1>8. DOMAIN r \subseteq 1 .. MaxElements
  BY <1>3, <1>5
<1>9. \A j \in DOMAIN r : r[j] = acc \/ \E k \in DOMAIN q : r[j] = q[k]
  BY <1>5
<1>10. \A j \in DOMAIN r : r[j] = acc \/ \E k \in DOMAIN heap.obj[ValueOf(x)].items :
                                             r[j] = heap.obj[ValueOf(x)].items[k]
  BY ONLY <1>1, <1>2, <1>9
<1> QED BY <1>6, <1>7, <1>8, <1>10 DEF Written, Shallow, Numbered

\* The elements after a pop.
LEMMA LessWritten ==
  ASSUME HeapInv, NEW x, ValueOf(x) \in DOMAIN heap.obj, heap.obj[ValueOf(x)].kind # "cell",
         NEW r, DOMAIN r \subseteq DOMAIN heap.obj[ValueOf(x)].items,
         \A j \in DOMAIN r : r[j] = heap.obj[ValueOf(x)].items[j]
  PROVE  Written(x, r) /\ Numbered(heap, r)
<1>1. PICK a \in DOMAIN heap.obj : a = ValueOf(x)
  OBVIOUS
<1>2. PICK q : q = heap.obj[a].items
  OBVIOUS
<1>3. /\ Numbered(heap, q) /\ DOMAIN q \subseteq 1 .. MaxElements
      /\ \A j \in DOMAIN q : DepthIn(heap, q[j]) < MaxValueDepth
  BY <1>1, <1>2, OfIs
<1>4. DOMAIN r \subseteq DOMAIN q /\ \A j \in DOMAIN r : r[j] = q[j]
  BY <1>1, <1>2
<1>5. \A j \in DOMAIN r : DepthIn(heap, r[j]) < MaxValueDepth /\ DepthIn(heap, r[j]) \in Nat
  BY <1>3, <1>4 DEF Numbered
<1>6. IsFiniteSet(DOMAIN r) /\ DOMAIN r \subseteq 1 .. MaxElements
  BY <1>3, <1>4, FS_Subset DEF Numbered
<1>7. \A j \in DOMAIN r : \E k \in DOMAIN heap.obj[ValueOf(x)].items :
                            r[j] = heap.obj[ValueOf(x)].items[k]
  OBVIOUS
<1> QED BY <1>5, <1>6, <1>7 DEF Written, Shallow, Numbered

\* apply_push
LEMMA PushKeeps ==
  ASSUME HeapInv, NEW x, Push(x)
  PROVE  HeapInv'
<1> DEFINE a == ValueOf(x)
           items == Append(heap.obj[a].items, acc)
<1>0. run.at = "on" /\ HasFresh(heap, 1) /\ HoldsA("list", x) /\ acc # Nothing
  BY DEF Push, Running
<1>1. /\ x \in Bound /\ a # Scalar /\ a \in DOMAIN heap.obj /\ heap.obj[a].kind = "list"
      /\ Formed("list", heap.obj[a].items) /\ Holds(heap, heap.obj[a].items)
  BY <1>0, HoldsIs
<1>2. CASE EntryFails(x)
  BY <1>0, <1>2, EntryFailsKeeps
<1>3. CASE RefuseElement(x)
  BY <1>0, <1>1, <1>3, RefuseElementKeeps
<1>4. CASE /\ ~TooDeep(heap, acc) /\ Len(heap.obj[a].items) < MaxElements
           /\ WriteThrough(x, items, ChildAdded(Of(a), DepthIn(heap, acc)), Nothing)
  <2>1. acc \in {Scalar} \union DOMAIN heap.obj /\ acc \in Nat
    BY <1>0, StateIs, GoodIs DEF Sound, ValueIn, Scalar
  <2>2. heap.obj[a].items \in Seq(Nat)
    BY <1>1 DEF Formed
  <2>3. items \in Seq(Nat) /\ Holds(heap, items)
    BY <1>1, <2>1, <2>2, HoldsMore
  <2>4. Holds(heap, items)
    BY <2>3
  <2>7. PICK q : q = heap.obj[a].items
    OBVIOUS
  <2>8. PICK n \in Nat : n = Len(q) /\ DOMAIN q = 1 .. n
    BY <2>2, <2>7
  <2>9. /\ DOMAIN items = DOMAIN q \union {n + 1} /\ items[n + 1] = acc
        /\ \A j \in DOMAIN q \ {n + 1} : items[j] = q[j]
        /\ n + 1 \in 1 .. MaxElements /\ n + 1 \notin DOMAIN q
    <3>1. /\ DOMAIN items = 1 .. Len(q) + 1 /\ items[Len(q) + 1] = acc
          /\ \A j \in 1 .. Len(q) : items[j] = q[j]
      BY <2>1, <2>2, <2>7, AppendProperties
    <3>2. n < MaxElements /\ MaxElements \in Nat
      BY <1>4, <2>7, <2>8, HeapAssumption
    <3>3. n + 1 \in 1 .. MaxElements /\ 1 .. n + 1 = (1 .. n) \union {n + 1} /\ n + 1 \notin 1 .. n
      BY <3>2
    <3> QED BY <2>8, <3>1, <3>3
  <2> HIDE DEF items
  <2>10. Written(x, items) /\ Numbered(heap, items)
    <3>1. ValueOf(x) \in DOMAIN heap.obj /\ heap.obj[ValueOf(x)].kind # "cell"
          /\ q = heap.obj[ValueOf(x)].items /\ ~TooDeep(heap, acc)
      BY <1>1, <1>4, <2>7
    <3>2. PICK i \in 1 .. MaxElements : i = n + 1
      BY <2>9
    <3> QED BY <2>1, <2>9, <3>1, <3>2, PutWritten
  <2>11. ChildAdded(Of(a), DepthIn(heap, acc)) = Summary(heap, items)
    <3>1. Numbered(heap, q) /\ Describes(Of(a), heap, q)
      BY <1>1, <2>7, OfIs
    <3>2. PICK s : s = Of(a)
      OBVIOUS
    <3>3. PICK i : i = n + 1
      OBVIOUS
    <3>4. PICK more : more = ChildAdded(s, DepthIn(heap, items[i]))
      OBVIOUS
    <3>5. s = IF i \in DOMAIN q THEN ChildRemoved(s, DepthIn(heap, q[i])) ELSE s
      BY <2>9, <3>3
    <3>6. more = Summary(heap, items)
      <4>1. /\ Numbered(heap, q) /\ Describes(s, heap, q) /\ Numbered(heap, items)
            /\ DOMAIN items = DOMAIN q \union {i} /\ i \notin DOMAIN q
            /\ \A j \in DOMAIN q \ {i} : items[j] = q[j]
        BY <2>9, <2>10, <3>1, <3>2, <3>3
      <4> QED BY ONLY <3>4, <3>5, <4>1, PutIs
    <3> QED BY <2>9, <3>2, <3>3, <3>4, <3>6
  <2>5. Formed("list", items) /\ ValueIn(heap, Nothing)
    BY <2>3 DEF Formed, ValueIn
  <2>12. WriteThrough(x, items, Summary(heap, items), Nothing)
    BY <1>4, <2>11
  <2> HIDE DEF a
  <2>6. ValueOf(x) # Scalar /\ heap.obj[ValueOf(x)].kind # "cell"
        /\ Formed(heap.obj[ValueOf(x)].kind, items)
    BY <1>1, <2>5 DEF a
  <2> QED BY <1>0, <1>1, <2>4, <2>5, <2>6, <2>10, <2>12, WriteThroughKeeps
<1> QED BY <1>2, <1>3, <1>4 DEF Push

\* apply_pop
LEMMA PopKeeps ==
  ASSUME HeapInv, NEW x, Pop(x)
  PROVE  HeapInv'
<1> DEFINE a    == ValueOf(x)
           old  == heap.obj[a].items
           last == old[Len(old)]
           rest == SubSeq(old, 1, Len(old) - 1)
           s    == SettledSummary(heap, rest, ChildRemoved(Of(a), DepthIn(heap, last)))
<1>0. run.at = "on" /\ HasFresh(heap, 1) /\ HoldsA("list", x) /\ old # <<>>
  BY DEF Pop, Running
<1>1. /\ x \in Bound /\ a # Scalar /\ a \in DOMAIN heap.obj /\ heap.obj[a].kind = "list"
      /\ Formed("list", old) /\ Holds(heap, old)
  BY <1>0, HoldsIs
<1>2. CASE EntryFails(x)
  BY <1>0, <1>2, EntryFailsKeeps
<1>3. CASE WriteThrough(x, rest, s, last)
  <2>1. old \in Seq(Nat) /\ Len(old) \in Nat /\ Len(old) > 0 /\ DOMAIN old = 1 .. Len(old)
    BY <1>0, <1>1 DEF Formed
  <2>2. last \in {Scalar} \union DOMAIN heap.obj
    BY <1>1, <2>1 DEF Holds
  <2>3. rest \in Seq(Nat) /\ Holds(heap, rest)
    BY <1>0, <1>1, <2>1, HoldsLess
  <2>4. Holds(heap, rest)
    BY <2>3
  <2>7. PICK n \in Nat : n = Len(old) /\ n > 0 /\ last = old[n]
    BY <2>1
  <2>8. /\ DOMAIN rest = DOMAIN old \ {n} /\ n \in DOMAIN old
        /\ \A j \in DOMAIN rest : rest[j] = old[j]
    <3>1. DOMAIN rest = 1 .. n - 1 /\ \A j \in 1 .. n - 1 : rest[j] = old[j]
      <4>1. rest = SubSeq(old, 1, n - 1)
        BY <2>7
      <4> HIDE DEF rest, old
      <4>2. old \in Seq(Nat) /\ old # <<>> /\ n = Len(old)
        BY <1>0, <2>1, <2>7
      <4> QED BY <4>1, <4>2, LessIs
    <3>2. 1 .. n - 1 = (1 .. n) \ {n} /\ n \in 1 .. n
      BY <2>7
    <3> HIDE DEF rest, old
    <3> QED BY <2>1, <2>7, <3>1, <3>2
  <2>9. PICK q : q = old
    OBVIOUS
  <2>10. PICK less : less = ChildRemoved(Of(a), DepthIn(heap, last))
    OBVIOUS
  <2>13. PICK r : r = rest
    OBVIOUS
  <2>11. Written(x, r) /\ Numbered(heap, r)
    <3>1. ValueOf(x) \in DOMAIN heap.obj /\ heap.obj[ValueOf(x)].kind # "cell"
          /\ DOMAIN r \subseteq DOMAIN heap.obj[ValueOf(x)].items
          /\ \A j \in DOMAIN r : r[j] = heap.obj[ValueOf(x)].items[j]
      BY <1>1, <2>8, <2>13
    <3> QED BY <3>1, LessWritten
  <2>12. s = Summary(heap, rest)
    <3>1. Numbered(heap, q) /\ Describes(Of(a), heap, q)
      BY <1>1, <2>9, OfIs
    <3>2. PICK sum : sum = Of(a)
      OBVIOUS
    <3>3. less = ChildRemoved(sum, DepthIn(heap, q[n]))
      BY <2>7, <2>9, <2>10, <3>2
    <3>4. n \in DOMAIN q /\ DOMAIN r = DOMAIN q \ {n} /\ \A j \in DOMAIN r : r[j] = q[j]
      BY <2>8, <2>9, <2>13
    <3>5. less.count # 0 => Describes(less, heap, r)
      BY ONLY <3>1, <3>2, <3>3, <3>4, LeftOverIs
    <3>6. SettledSummary(heap, r, less) = Summary(heap, r)
      BY ONLY <2>11, <3>5, SettledIs
    <3> QED BY <2>10, <2>13, <3>6
  <2>14. Written(x, rest)
    BY <2>11, <2>13
  <2> HIDE DEF rest, last, s
  <2>5. Formed("list", rest) /\ ValueIn(heap, last)
    BY <2>2, <2>3 DEF Formed, ValueIn
  <2> HIDE DEF a, old
  <2>6. ValueOf(x) # Scalar /\ heap.obj[ValueOf(x)].kind # "cell"
        /\ Formed(heap.obj[ValueOf(x)].kind, rest)
    BY <1>1, <2>5 DEF a
  <2>15. WriteThrough(x, rest, Summary(heap, rest), last)
    BY <1>3, <2>12
  <2> QED BY <1>0, <1>1, <2>4, <2>5, <2>6, <2>14, <2>15, WriteThroughKeeps
<1> QED BY <1>2, <1>3 DEF Pop

\* An element is assigned.
LEMMA SetAtKeeps ==
  ASSUME HeapInv, NEW x, NEW i \in 1 .. MaxElements, SetAt(x, i)
  PROVE  HeapInv'
<1> DEFINE a     == ValueOf(x)
           o     == heap.obj[a]
           items == [j \in DOMAIN o.items \union {i} |-> IF j = i THEN acc ELSE o.items[j]]
           less  == IF i \in DOMAIN o.items
                    THEN ChildRemoved(Of(a), DepthIn(heap, o.items[i])) ELSE Of(a)
           s     == SettledSummary(heap, items, ChildAdded(less, DepthIn(heap, acc)))
<1>0. /\ run.at = "on" /\ HasFresh(heap, 1) /\ acc # Nothing
      /\ HoldsA("list", x) \/ HoldsA("dict", x)
      /\ IF o.kind = "list" THEN i \in DOMAIN o.items ELSE i \in Key
  BY DEF SetAt, Running
<1>1. /\ x \in Bound /\ a # Scalar /\ a \in DOMAIN heap.obj /\ o.kind \in {"list", "dict"}
      /\ Formed(o.kind, o.items) /\ Holds(heap, o.items)
  <2>1. PICK kind \in {"list", "dict"} : HoldsA(kind, x)
    BY <1>0
  <2> QED BY <2>1, HoldsIs
<1>2. CASE EntryFails(x)
  BY <1>0, <1>2, EntryFailsKeeps
<1>3. CASE RefuseElement(x)
  BY <1>0, <1>1, <1>3, RefuseElementKeeps
<1>4. CASE ~TooDeep(heap, acc) /\ WriteThrough(x, items, s, Nothing)
  <2>1. acc \in {Scalar} \union DOMAIN heap.obj /\ acc \in Nat
    BY <1>0, StateIs, GoodIs DEF Sound, ValueIn, Scalar
  <2>2. Holds(heap, items)
    BY <1>1, <2>1 DEF Holds
  <2>3. Formed(o.kind, items)
    <3>1. CASE o.kind = "list"
      <4>1. o.items \in Seq(Nat) /\ DOMAIN o.items = 1 .. Len(o.items) /\ Len(o.items) \in Nat
        BY <1>1, <3>1 DEF Formed
      <4>2. items \in [1 .. Len(o.items) -> Nat]
        <5>1. DOMAIN items = 1 .. Len(o.items)
          BY <1>0, <3>1, <4>1
        <5>2. \A j \in 1 .. Len(o.items) : items[j] \in Nat
          BY <2>1, <4>1, SMTT(30)
        <5> QED BY <5>1, <5>2
      <4> HIDE DEF items
      <4>4. PICK n : n = Len(o.items)
        OBVIOUS
      <4>5. n \in Nat /\ items \in [1 .. n -> Nat]
        BY <4>1, <4>2, <4>4
      <4>3. items \in Seq(Nat)
        BY ONLY <4>5
      <4> QED BY <3>1, <4>3 DEF Formed
    <3>2. CASE o.kind = "dict"
      BY <1>0, <1>1, <3>2 DEF Formed
    <3> QED BY <1>1, <3>1, <3>2
  <2>6. PICK q : q = o.items
    OBVIOUS
  <2>7. PICK r : r = items
    OBVIOUS
  <2>8. /\ DOMAIN r = DOMAIN q \union {i} /\ r[i] = acc
        /\ \A j \in DOMAIN q \ {i} : r[j] = q[j]
    BY <2>6, <2>7
  <2>9. Written(x, r) /\ Numbered(heap, r)
    <3>1. ValueOf(x) \in DOMAIN heap.obj /\ heap.obj[ValueOf(x)].kind # "cell"
          /\ q = heap.obj[ValueOf(x)].items /\ ~TooDeep(heap, acc)
      BY <1>1, <1>4, <2>6
    <3> QED BY <2>1, <2>8, <3>1, PutWritten
  <2>10. PICK sum : sum = Of(a)
    OBVIOUS
  <2>11. PICK was : was = less
    OBVIOUS
  <2>12. PICK more : more = ChildAdded(was, DepthIn(heap, r[i]))
    OBVIOUS
  <2>13. s = Summary(heap, items)
    <3>1. Numbered(heap, q) /\ Describes(sum, heap, q)
      BY <1>1, <2>6, <2>10, OfIs
    <3>2. was = IF i \in DOMAIN q THEN ChildRemoved(sum, DepthIn(heap, q[i])) ELSE sum
      BY <2>6, <2>10, <2>11
    <3>3. SettledSummary(heap, r, more) = Summary(heap, r)
      BY ONLY <2>8, <2>9, <2>12, <3>1, <3>2, PutIs
    <3> QED BY <2>7, <2>8, <2>11, <2>12, <3>3
  <2>14. Written(x, items)
    BY <2>7, <2>9
  <2> HIDE DEF items, s
  <2>4. ValueIn(heap, Nothing)
    BY DEF ValueIn
  <2>5. ValueOf(x) # Scalar /\ heap.obj[ValueOf(x)].kind # "cell"
        /\ Formed(heap.obj[ValueOf(x)].kind, items)
    BY <1>1, <2>3
  <2>15. WriteThrough(x, items, Summary(heap, items), Nothing)
    BY <1>4, <2>13
  <2> QED BY <1>0, <1>1, <2>2, <2>4, <2>5, <2>14, <2>15, WriteThroughKeeps
<1> QED BY <1>2, <1>3, <1>4 DEF SetAt

\* The charges of frames.
LEMMA FrameBytesNat ==
  /\ FrameBytes(0) \in Nat /\ FrameBytes(1) \in Nat
  /\ \A kind \in {"block", "try"}, charge \in Nat, local \in Nat :
       /\ Frame(kind, charge, local) \in FrameSet
       /\ Frame(kind, charge, local).charge = charge
       /\ Frame(kind, charge, local).local = local
BY DEF FrameBytes, Frame, FrameSet

\* One more frame, whose variable is a cell of h.
LEMMA FramesMore ==
  ASSUME NEW h, NEW f, FramesIn(h, f), NEW e \in FrameSet,
         e.local # NoCell => e.local \in DOMAIN h.obj,
         NEW u, Len(u) \in Nat
  PROVE  /\ FramesIn(h, Append(f, e))
         /\ Append(f, e) \in Seq(FrameSet)
         /\ Owes(u, Append(f, e)) = Owes(u, f) + e.charge
<1> DEFINE g == Append(f, e)
<1>0. f \in Seq(FrameSet)
  BY DEF FramesIn
<1>1. /\ g \in Seq(FrameSet) /\ Len(g) = Len(f) + 1 /\ Len(f) \in Nat
      /\ \A i \in 1 .. Len(f) : g[i] = f[i]
      /\ g[Len(f) + 1] = e
  BY <1>0, AppendProperties
<1>2. Charges(g) = Charges(f) + e.charge
  BY <1>0, ChargesMore
<1>3. Charges(f) \in Nat /\ e.charge \in Nat
  BY <1>0, ChargesNat DEF FrameSet
<1> HIDE DEF g
<1>4. \A i \in 1 .. Len(g) : i \in 1 .. Len(f) \/ i = Len(f) + 1
  BY <1>1
<1>5. FramesIn(h, g)
  BY <1>1, <1>4 DEF FramesIn
<1>6. Owes(u, g) = Owes(u, f) + e.charge
  BY <1>2, <1>3 DEF Owes, JournalBytes
<1> QED BY <1>1, <1>5, <1>6 DEF g

\* A block or a try body is entered.
LEMMA EnterKeeps ==
  ASSUME HeapInv, NEW kind \in {"block", "try"}, Enter(kind)
  PROVE  HeapInv'
<1>0. run.at = "on"
  BY DEF Enter, Running
<1>1. CASE UNCHANGED undo /\ Refuse(heap, "heap")
  BY <1>0, <1>1, RefusesAsIs
<1>2. CASE /\ Fits(heap, FrameBytes(0))
           /\ frames' = Append(frames, Frame(kind, FrameBytes(0), NoCell))
           /\ UNCHANGED <<scope, acc, undo, run, before, foreign>>
           /\ Settle(Charged(heap, FrameBytes(0)))
  <2> DEFINE h == Charged(heap, FrameBytes(0))
             e == Frame(kind, FrameBytes(0), NoCell)
  <2>1. e \in FrameSet /\ e.charge = FrameBytes(0) /\ e.local = NoCell /\ FrameBytes(0) \in Nat
    BY FrameBytesNat DEF NoCell
  <2>2. Good(h) /\ Extends(h, heap)
    BY <2>1, StateIs, ChargedExtends
  <2>3. ~foreign => Exact(h, Owes(undo, frames) + FrameBytes(0))
    BY <1>2, <2>1, StateIs, ChargedExact
  <2> HIDE DEF h, e
  <2>4. Sound(h, scope, acc, frames, undo)
    BY <2>2, StateIs, SoundExtends
  <2>5. /\ FramesIn(h, Append(frames, e))
        /\ Owes(undo, Append(frames, e)) = Owes(undo, frames) + FrameBytes(0)
    BY <2>1, <2>4, StateIs, FramesMore DEF Sound
  <2>6. frames' = Append(frames, e) /\ Settle(h)
    BY <1>2 DEF e, h
  <2>7. Sound(h, scope', acc', frames', undo')
    BY <1>2, <2>4, <2>5, <2>6 DEF Sound
  <2>8. Ledger(h, undo', frames', foreign') /\ RunIs'
    BY <1>0, <1>2, <2>3, <2>5, <2>6, StateIs DEF Ledger, RunIs
  <2>9. Measured(h)
    BY <2>1, StateIs, ChargedIs, MeasuredPlain DEF h, HeapInv
  <2> QED BY <2>6, <2>7, <2>8, <2>9, Settles
<1> QED BY <1>1, <1>2 DEF Enter

\* The contents of a cell.
LEMMA CellOf ==
  ASSUME NEW h, Good(h), NEW w \in {Scalar} \union DOMAIN h.obj, NEW q, q = <<w>>
  PROVE  Formed("cell", q) /\ Holds(h, q) /\ DOMAIN q = 1 .. 1
<1>1. w \in Nat
  BY GoodIs DEF Scalar
<1> QED BY <1>1 DEF Formed, Holds

\* A frame with one variable, paid and made: what the refusals of
\* begin_for_iteration and of the catch body leave, and what their success does.
Round(h, paid, made, s, v, f, u, n) ==
  /\ Good(paid) /\ paid.obj = h.obj /\ Fresh(paid) = Fresh(h)
  /\ Sound(Freed(paid, FrameBytes(1)), s, v, f, u)
  /\ Exact(h, n) => Exact(Freed(paid, FrameBytes(1)), n)
  /\ Sound(made, s, v, f, u)
  /\ IsCell(made, Fresh(h)) /\ Fresh(h) \in Nat /\ Fresh(h) # NoCell
  /\ Fits(paid, CellBytes) /\ Exact(h, n) => Exact(made, n + FrameBytes(1))
  /\ Sound(Freed(made, FrameBytes(1)), s, v, f, u)
  /\ Fits(paid, CellBytes) /\ Exact(h, n) => Exact(Freed(made, FrameBytes(1)), n)

\* What a loop round has charged, at each of its refusals.
LEMMA RoundIs ==
  ASSUME NEW h, NEW s, NEW v, NEW f, NEW u, Sound(h, s, v, f, u), NEW n \in Nat,
         HasFresh(h, 1), NEW q, Formed("cell", q), Holds(h, q),
         Fits(h, FrameBytes(1)),
         NEW paid, paid = Charged(h, FrameBytes(1)),
         NEW made, made = Made(paid, "cell", q)
  PROVE  Round(h, paid, made, s, v, f, u, n)
<1>0. Good(h) /\ FrameBytes(1) \in Nat /\ 1 \in Nat \ {0} /\ n + FrameBytes(1) \in Nat
  BY FrameBytesNat DEF Sound
<1>1. Good(paid) /\ paid.obj = h.obj /\ Extends(paid, h)
  BY <1>0, ChargedIs DEF Extends
<1>2. Exact(h, n) => Exact(paid, n + FrameBytes(1))
  BY <1>0, ChargedExact
<1>3. Sound(paid, s, v, f, u)
  BY <1>1, SoundExtends
<1>4. HasFresh(paid, 1) /\ Fresh(paid) = Fresh(h)
  BY <1>1 DEF HasFresh, Fresh
<1>5. Formed("cell", q) /\ Holds(paid, q)
  BY <1>1 DEF Holds
<1>6. /\ Sound(made, s, v, f, u) /\ Fresh(paid) \in DOMAIN made.obj
      /\ made.obj[Fresh(paid)].kind = "cell" /\ Fresh(paid) \in Nat \ {0}
  BY ONLY <1>0, <1>3, <1>4, <1>5, made = Made(paid, "cell", q), MadeSound
<1>7. Fits(paid, CellBytes) /\ Exact(paid, n + FrameBytes(1)) => Exact(made, n + FrameBytes(1))
  <2>1. Body("cell", q) = CellBytes
    BY DEF Body
  <2> QED BY <1>0, <1>1, <1>4, <1>5, <2>1, MadeExact
<1>8. ASSUME NEW g, Sound(g, s, v, f, u)
      PROVE  /\ Sound(Freed(g, FrameBytes(1)), s, v, f, u)
             /\ Exact(g, n + FrameBytes(1)) => Exact(Freed(g, FrameBytes(1)), n)
  <2>1. Good(g)
    BY <1>8 DEF Sound
  <2>2. Good(Freed(g, FrameBytes(1))) /\ Extends(Freed(g, FrameBytes(1)), g)
    BY <1>0, <2>1, FreedExtends
  <2>3. Sound(Freed(g, FrameBytes(1)), s, v, f, u)
    BY <1>8, <2>2, SoundExtends
  <2>4. Exact(g, n + FrameBytes(1)) => Exact(Freed(g, FrameBytes(1)), n)
    BY <1>0, <2>1, FreedExact
  <2> QED BY <2>3, <2>4
<1>9. IsCell(made, Fresh(h)) /\ Fresh(h) \in Nat /\ Fresh(h) # NoCell
  BY <1>4, <1>6 DEF IsCell, NoCell
<1>10. /\ Sound(Freed(paid, FrameBytes(1)), s, v, f, u)
       /\ Exact(paid, n + FrameBytes(1)) => Exact(Freed(paid, FrameBytes(1)), n)
  BY <1>3, <1>8
<1>11. /\ Sound(Freed(made, FrameBytes(1)), s, v, f, u)
       /\ Exact(made, n + FrameBytes(1)) => Exact(Freed(made, FrameBytes(1)), n)
  BY <1>6, <1>8
<1> QED BY <1>1, <1>2, <1>4, <1>6, <1>7, <1>9, <1>10, <1>11 DEF Round

\* The summaries at each refusal of a loop round.
LEMMA RoundMeasured ==
  ASSUME NEW h, Good(h), Measured(h),
         HasFresh(h, 1), NEW q, Formed("cell", q), Holds(h, q),
         NEW paid, paid = Charged(h, FrameBytes(1)),
         NEW made, made = Made(paid, "cell", q)
  PROVE  /\ Measured(Freed(paid, FrameBytes(1))) /\ Measured(made)
         /\ Measured(Freed(made, FrameBytes(1)))
<1>0. FrameBytes(1) \in Nat /\ 1 \in Nat \ {0}
  BY FrameBytesNat
<1>1. Good(paid) /\ paid.obj = h.obj
  BY <1>0, ChargedIs
<1>2. Measured(paid)
  BY <1>1, MeasuredPlain
<1>3. HasFresh(paid, 1) /\ Holds(paid, q)
  BY <1>1 DEF HasFresh, Holds
<1>4. Measured(made)
  BY <1>1, <1>2, <1>3, CellMeasured
<1>5. Good(made)
  BY <1>0, <1>1, <1>3, MadeIs
<1>6. \A g : Good(g) /\ Measured(g) => Measured(Freed(g, FrameBytes(1)))
  BY <1>0, FreedIs, MeasuredPlain
<1> QED BY <1>1, <1>2, <1>4, <1>5, <1>6

\* The entry of a variable of a frame.
LEMMA LocalEntry ==
  ASSUME NEW n \in Nat
  PROVE  /\ Entry(<<"local", n>>, NoCell, Scalar) \in EntrySet
         /\ \A c \in Address : <<"local", n>> = CellKey(c) => NoCell = c
BY DEF Entry, EntrySet, NoCell, Scalar, CellKey

\* begin_for_iteration: each refusal gives back what was charged before it.
LEMMA EnterRoundKeeps ==
  ASSUME HeapInv, NEW v, EnterRound(v)
  PROVE  HeapInv'
<1> DEFINE paid == Charged(heap, FrameBytes(1))
           made == Made(paid, "cell", <<v>>)
           back == Freed(paid, FrameBytes(1))
           e    == Frame("block", FrameBytes(1), Fresh(heap))
           key  == LocalKey
           n    == Owes(undo, frames)
<1>0. run.at = "on" /\ HasFresh(heap, 1) /\ n \in Nat
      /\ v \in {Scalar} \union DOMAIN heap.obj
  BY KnownIn, StateIs DEF EnterRound, Running
<1>1. CASE UNCHANGED undo /\ Refuse(heap, "heap")
  BY <1>0, <1>1, RefusesAsIs
<1>2. PICK q : /\ q = <<v>> /\ paid = Charged(heap, FrameBytes(1))
               /\ made = Made(paid, "cell", q)
  OBVIOUS
<1>20. Formed("cell", q) /\ Holds(heap, q)
  BY <1>0, <1>2, StateIs, CellOf
<1> HIDE DEF paid, made, n
<1>3. ASSUME Fits(heap, FrameBytes(1))
      PROVE  /\ Sound(back, scope, acc, frames, undo)
             /\ Exact(heap, n) => Exact(back, n)
             /\ Sound(made, scope, acc, frames, undo)
             /\ IsCell(made, Fresh(heap)) /\ Fresh(heap) \in Nat /\ Fresh(heap) # NoCell
             /\ Fits(paid, CellBytes) /\ Exact(heap, n) => Exact(made, n + FrameBytes(1))
             /\ Sound(Freed(made, FrameBytes(1)), scope, acc, frames, undo)
             /\ Fits(paid, CellBytes) /\ Exact(heap, n) => Exact(Freed(made, FrameBytes(1)), n)
  <2>1. Sound(heap, scope, acc, frames, undo)
    BY StateIs
  <2>2. Round(heap, paid, made, scope, acc, frames, undo, n)
    BY ONLY <1>0, <1>2, <1>3, <1>20, <2>1, RoundIs
  <2> QED BY <2>2 DEF Round
<1>7. Measured(back) /\ Measured(made) /\ Measured(Freed(made, FrameBytes(1)))
  BY <1>0, <1>2, <1>20, StateIs, RoundMeasured DEF HeapInv
<1>4. CASE /\ Fits(heap, FrameBytes(1)) /\ UNCHANGED undo /\ Refuse(back, "heap")
  <2> HIDE DEF back
  <2>1. Ledger(back, undo, frames, foreign)
    BY <1>3, <1>4, StateIs DEF Ledger, n
  <2> QED BY <1>0, <1>3, <1>4, <1>7, <2>1, Refuses
<1> HIDE DEF back
<1>5. CASE /\ Fits(heap, FrameBytes(1)) /\ Fits(paid, CellBytes)
           /\ UNCHANGED undo /\ Refuse(Freed(made, FrameBytes(1)), "heap")
  <2>1. Ledger(Freed(made, FrameBytes(1)), undo, frames, foreign)
    BY <1>3, <1>5, StateIs DEF Ledger, n
  <2> QED BY <1>0, <1>3, <1>5, <1>7, <2>1, Refuses
<1>6. CASE /\ Fits(heap, FrameBytes(1)) /\ Fits(paid, CellBytes)
           /\ ~EntryRefused(made, key)
           /\ Journal(key, NoCell, Scalar)
           /\ frames' = Append(frames, e)
           /\ UNCHANGED <<scope, acc, run, before, foreign>>
           /\ Settle(Entered(made, key))
  <2> DEFINE h == Entered(made, key)
  <2>1. e \in FrameSet /\ e.charge = FrameBytes(1) /\ e.local = Fresh(heap)
    BY <1>3, <1>6, FrameBytesNat
  <2> HIDE DEF e
  <2>2. Entry(key, NoCell, Scalar) \in EntrySet /\ \A c \in Address : key = CellKey(c) => NoCell = c
    BY StateIs, LocalEntry DEF LocalKey
  <2>3. /\ Good(h) /\ h.obj = made.obj /\ UndoIn(h, undo')
        /\ \A f \in Seq(FrameSet) : Exact(made, Owes(undo, f)) => Exact(h, Owes(undo', f))
    BY <1>0, <1>3, <1>6, <2>2, Enters
  <2> HIDE DEF h
  <2>4. Sound(h, scope, acc, frames, undo)
    BY <1>3, <1>6, <2>3, SoundExtends DEF Extends
  <2>5. e.local \in DOMAIN h.obj
    BY <1>3, <1>6, <2>1, <2>3 DEF IsCell
  <2>6. /\ FramesIn(h, frames') /\ frames' \in Seq(FrameSet)
        /\ Owes(undo, frames') = n + FrameBytes(1)
    BY <1>6, <2>1, <2>4, <2>5, StateIs, FramesMore DEF Sound, n
  <2>7. Sound(h, scope', acc', frames', undo')
    BY <1>6, <2>3, <2>4, <2>6 DEF Sound
  <2>8. Ledger(h, undo', frames', foreign') /\ RunIs'
    <3>1. ~foreign => Exact(made, Owes(undo, frames'))
      BY <1>3, <1>6, <2>6, StateIs DEF n
    <3>2. ~foreign => Exact(h, Owes(undo', frames'))
      BY <2>3, <2>6, <3>1
    <3> QED BY <1>0, <1>6, <3>2, StateIs DEF Ledger, RunIs
  <2>9. Measured(h)
    BY <1>7, <2>3, MeasuredPlain
  <2> QED BY <1>6, <2>7, <2>8, <2>9, Settles DEF h
<1> QED BY <1>1, <1>4, <1>5, <1>6 DEF EnterRound, paid, made, back

\* pop_frame gives the charge of the frame back.
LEMMA LeaveKeeps ==
  ASSUME HeapInv, Leave
  PROVE  HeapInv'
<1> DEFINE e == frames[Len(frames)]
           h == Freed(heap, e.charge)
<1>0. /\ run.at = "on" /\ frames # <<>>
      /\ frames' = SubSeq(frames, 1, Len(frames) - 1)
      /\ UNCHANGED <<scope, acc, undo, run, before, foreign>>
      /\ Settle(h)
  BY DEF Leave
<1>1. frames \in Seq(FrameSet) /\ Len(frames) \in Nat
  BY StateIs
<1>2. frames' \in Seq(FrameSet) /\ Charges(frames) = Charges(frames') + e.charge
  BY <1>0, <1>1, ChargesLess
<1>3. /\ e \in FrameSet /\ Len(frames') = Len(frames) - 1
      /\ \A i \in 1 .. Len(frames) - 1 : frames'[i] = frames[i]
  BY <1>0, <1>1, ChargesLess
<1> HIDE DEF e
<1>5. e.charge \in Nat /\ Charges(frames') \in Nat /\ Owes(undo, frames') \in Nat
  BY <1>2, <1>3, StateIs, ChargesNat, OwesNat DEF FrameSet
<1>6. Owes(undo, frames) = Owes(undo, frames') + e.charge
  BY <1>2, <1>5, StateIs DEF Owes, JournalBytes
<1>7. Good(h) /\ Extends(h, heap)
  BY <1>5, StateIs, FreedExtends
<1>8. ~foreign => Exact(h, Owes(undo, frames'))
  BY <1>5, <1>6, StateIs, FreedExact
<1>13. Measured(h)
  BY <1>5, <1>7, StateIs, FreedIs, MeasuredPlain DEF HeapInv
<1> HIDE DEF h
<1>9. Sound(h, scope, acc, frames, undo)
  BY <1>7, StateIs, SoundExtends
<1>10. FramesIn(h, frames')
  <2>1. \A i \in 1 .. Len(frames') : i \in 1 .. Len(frames) /\ frames'[i] = frames[i]
    BY <1>1, <1>3
  <2> QED BY <1>2, <1>9, <2>1 DEF Sound, FramesIn
<1>11. Sound(h, scope', acc', frames', undo')
  BY <1>0, <1>9, <1>10 DEF Sound
<1>12. Ledger(h, undo', frames', foreign') /\ RunIs'
  BY <1>0, <1>8, StateIs DEF Ledger, RunIs
<1> QED BY <1>0, <1>11, <1>12, <1>13, Settles

\* The frame of a try body without its charge, and in its place another one.
Moved(u, f, g, less, more) == Owes(u, g) + less = Owes(u, f) + more

\* The frame of a try body becomes that of its catch body.
LEMMA FrameSwapped ==
  ASSUME NEW h, NEW f, FramesIn(h, f), NEW n \in 1 .. Len(f), NEW e \in FrameSet,
         e.local # NoCell => e.local \in DOMAIN h.obj,
         NEW u, Len(u) \in Nat, NEW g, g = [f EXCEPT ![n] = e]
  PROVE  /\ FramesIn(h, g) /\ g \in Seq(FrameSet)
         /\ Owes(u, g) \in Nat /\ Owes(u, f) \in Nat
         /\ f[n].charge \in Nat /\ e.charge \in Nat
         /\ Moved(u, f, g, f[n].charge, e.charge)
<1>0. f \in Seq(FrameSet)
  BY DEF FramesIn
<1>1. g \in Seq(FrameSet) /\ Charges(g) + f[n].charge = Charges(f) + e.charge
  BY <1>0, ChargesChange
<1>2. Len(g) = Len(f) /\ \A i \in 1 .. Len(f) : g[i] = IF i = n THEN e ELSE f[i]
  BY <1>0
<1>3. f[n] \in FrameSet
  BY <1>0
<1>4. Charges(g) \in Nat /\ Charges(f) \in Nat /\ f[n].charge \in Nat /\ e.charge \in Nat
  BY <1>0, <1>1, <1>3, ChargesNat DEF FrameSet
<1>5. Owes(u, g) + f[n].charge = Owes(u, f) + e.charge /\ Owes(u, g) \in Nat
  <2>1. PICK j : j = JournalBytes * Len(u)
    OBVIOUS
  <2>2. j \in Nat
    BY <2>1 DEF JournalBytes
  <2>3. Owes(u, g) = j + Charges(g) /\ Owes(u, f) = j + Charges(f)
    BY <2>1 DEF Owes
  <2>4. PICK p \in Nat, q \in Nat, r \in Nat, t \in Nat :
          p = Charges(g) /\ q = f[n].charge /\ r = Charges(f) /\ t = e.charge
    BY <1>4
  <2>5. p + q = r + t
    BY ONLY <1>1, <2>4
  <2>6. (j + p) + q = (j + r) + t /\ j + p \in Nat
    BY ONLY <2>2, <2>5, p \in Nat, q \in Nat, r \in Nat, t \in Nat
  <2> QED BY ONLY <2>3, <2>4, <2>6
<1>6. FramesIn(h, g)
  BY <1>1, <1>2 DEF FramesIn
<1>7. Owes(u, f) \in Nat
  BY <1>0, OwesNat
<1> QED BY ONLY <1>1, <1>4, <1>5, <1>6, <1>7 DEF Moved

\* A frame whose charge was given back already.
LEMMA UnchargedIs ==
  ASSUME NEW f \in FrameSet
  PROVE  /\ Uncharged(f) \in FrameSet /\ Uncharged(f).charge = 0
         /\ Uncharged(f).local = f.local
BY DEF Uncharged, FrameSet

\* handle_error: the charge of the try body is given back once.
LEMMA CatchKeeps ==
  ASSUME HeapInv, Catch
  PROVE  HeapInv'
<1> DEFINE n    == Len(frames)
           torn == Freed(heap, frames[n].charge)
           paid == Charged(torn, FrameBytes(1))
           made == Made(paid, "cell", <<Scalar>>)
           key  == <<"local", n - 1>>
           bare == [frames EXCEPT ![n] = Uncharged(@)]
           k    == Owes(undo, bare)
           e    == Frame("block", FrameBytes(1), Fresh(paid))
           back == Freed(paid, FrameBytes(1))
           away == Freed(made, FrameBytes(1))
<1>0. run.at = "on" /\ HasFresh(heap, 1) /\ frames # <<>>
  BY DEF Catch
<1>1. /\ Good(heap) /\ frames \in Seq(FrameSet) /\ Len(undo) \in Nat /\ n \in Nat
      /\ n \in 1 .. Len(frames) /\ frames[n] \in FrameSet /\ n - 1 \in Nat
      /\ Sound(heap, scope, acc, frames, undo) /\ FramesIn(heap, frames)
  BY <1>0, StateIs DEF Sound
<1>2. frames[n].charge \in Nat /\ (frames[n].local # NoCell => frames[n].local \in DOMAIN heap.obj)
  BY <1>1 DEF FrameSet, FramesIn
<1>3. /\ bare = [frames EXCEPT ![n] = Uncharged(frames[n])]
      /\ Uncharged(frames[n]) \in FrameSet /\ Uncharged(frames[n]).charge = 0
      /\ Uncharged(frames[n]).local = frames[n].local
  BY <1>1, UnchargedIs
<1>4. /\ FramesIn(heap, bare) /\ bare \in Seq(FrameSet)
      /\ k + frames[n].charge = Owes(undo, frames) + 0 /\ k \in Nat
  <2> DEFINE z == Uncharged(frames[n])
  <2>1. bare = [frames EXCEPT ![n] = z] /\ z \in FrameSet /\ z.charge = 0
        /\ (z.local # NoCell => z.local \in DOMAIN heap.obj)
    BY <1>2, <1>3
  <2> HIDE DEF bare, z, n, k
  <2>2. /\ FramesIn(heap, bare) /\ bare \in Seq(FrameSet)
        /\ Owes(undo, bare) + frames[n].charge = Owes(undo, frames) + z.charge
        /\ Owes(undo, bare) \in Nat
    <3>1. FramesIn(heap, bare) /\ bare \in Seq(FrameSet)
      BY ONLY <1>1, <2>1, FrameSwapped
    <3>2. Owes(undo, bare) \in Nat
      BY ONLY <1>1, <2>1, FrameSwapped
    <3>3. Moved(undo, frames, bare, frames[n].charge, z.charge)
      BY ONLY <1>1, <2>1, FrameSwapped
    <3> QED BY ONLY <3>1, <3>2, <3>3 DEF Moved
  <2> QED BY <2>1, <2>2 DEF k
<1> HIDE DEF n, k
\* The charge of the try body is given back.
<1>5. /\ Good(torn) /\ Extends(torn, heap) /\ torn.obj = heap.obj
      /\ ~foreign => Exact(torn, k)
  <2>1. Good(torn) /\ Extends(torn, heap) /\ torn.obj = heap.obj
    BY <1>1, <1>2, FreedExtends, FreedIs
  <2>2. Owes(undo, frames) = k + frames[n].charge
    BY <1>4, StateIs
  <2>3. ~foreign => Exact(torn, k)
    BY <1>1, <1>2, <1>4, <2>2, StateIs, FreedExact
  <2> QED BY <2>1, <2>3
<1> HIDE DEF torn
<1>6. Sound(torn, scope, acc, frames, undo) /\ HasFresh(torn, 1)
  BY <1>0, <1>1, <1>5, SoundExtends DEF HasFresh
<1>7. ASSUME NEW h, CatchFails(h), Sound(h, scope, acc, frames, undo), Measured(h),
             ~foreign => Exact(h, k)
      PROVE  HeapInv'
  <2>1. /\ run' = [run EXCEPT !.error = "heap"] /\ frames' = bare
        /\ UNCHANGED <<scope, acc, undo, before, foreign>> /\ Settle(h)
    BY <1>7 DEF CatchFails, n
  <2>2. FramesIn(h, frames)
    BY <1>7 DEF Sound
  <2>3. FramesIn(h, bare)
    <3> DEFINE z == Uncharged(frames[n])
    <3>1. bare = [frames EXCEPT ![n] = z] /\ z \in FrameSet
          /\ (z.local # NoCell => z.local \in DOMAIN h.obj)
      BY <1>1, <1>3, <2>2 DEF FramesIn
    <3> HIDE DEF bare, z
    <3> QED BY <1>1, <2>2, <3>1, FrameSwapped
  <2>4. Sound(h, scope', acc', frames', undo')
    BY <1>7, <2>1, <2>3 DEF Sound
  <2>5. Ledger(h, undo', frames', foreign')
    BY <1>7, <2>1, StateIs DEF Ledger, k
  <2>6. RunIs'
    BY <1>0, <2>1, StateIs DEF RunIs, RunSet
  <2> QED BY <1>7, <2>1, <2>4, <2>5, <2>6, Settles
<1>13. Measured(torn)
  BY <1>5, MeasuredPlain DEF HeapInv
<1>14. Measured(back) /\ Measured(made) /\ Measured(away)
  <2>1. PICK q : /\ q = <<Scalar>> /\ paid = Charged(torn, FrameBytes(1))
                 /\ made = Made(paid, "cell", q)
    OBVIOUS
  <2>2. Formed("cell", q) /\ Holds(torn, q)
    BY <2>1 DEF Formed, Holds, Scalar
  <2> HIDE DEF paid, made
  <2> QED BY <1>5, <1>6, <1>13, <2>1, <2>2, RoundMeasured
<1>8. ASSUME Fits(torn, FrameBytes(1))
      PROVE  /\ Fresh(paid) = Fresh(torn)
             /\ Sound(back, scope, acc, frames, undo)
             /\ ~foreign => Exact(back, k)
             /\ Sound(made, scope, acc, frames, undo)
             /\ IsCell(made, Fresh(torn)) /\ Fresh(torn) \in Nat /\ Fresh(torn) # NoCell
             /\ Fits(paid, CellBytes) => (~foreign => Exact(made, k + FrameBytes(1)))
             /\ Sound(away, scope, acc, frames, undo)
             /\ Fits(paid, CellBytes) => (~foreign => Exact(away, k))
  <2>2. PICK q : /\ q = <<Scalar>> /\ paid = Charged(torn, FrameBytes(1))
                 /\ made = Made(paid, "cell", q)
    OBVIOUS
  <2>20. Formed("cell", q) /\ Holds(torn, q)
    BY <2>2 DEF Formed, Holds, Scalar
  <2> HIDE DEF paid, made
  <2>3. Round(torn, paid, made, scope, acc, frames, undo, k)
    BY <1>4, <1>6, <1>8, <2>2, <2>20, RoundIs
  <2> QED BY <1>5, <2>3 DEF Round
<1>9. CASE ~Fits(torn, FrameBytes(1)) /\ CatchFails(torn)
  BY <1>5, <1>6, <1>7, <1>9, <1>13
<1> HIDE DEF back, away, paid, made
<1>10. CASE Fits(torn, FrameBytes(1)) /\ ~Fits(paid, CellBytes) /\ CatchFails(back)
  BY <1>7, <1>8, <1>10, <1>14
<1>11. CASE /\ Fits(torn, FrameBytes(1)) /\ Fits(paid, CellBytes)
            /\ EntryRefused(made, key) /\ CatchFails(away)
  BY <1>7, <1>8, <1>11, <1>14
<1>12. CASE /\ Fits(torn, FrameBytes(1)) /\ Fits(paid, CellBytes)
            /\ ~EntryRefused(made, key)
            /\ Journal(key, NoCell, Scalar)
            /\ frames' = [frames EXCEPT ![n] = e]
            /\ run' = [run EXCEPT !.error = "none"]
            /\ UNCHANGED <<scope, acc, before, foreign>>
            /\ Settle(Entered(made, key))
  <2> DEFINE h == Entered(made, key)
  <2>1. e \in FrameSet /\ e.charge = FrameBytes(1) /\ e.local = Fresh(torn)
    BY <1>8, <1>12, FrameBytesNat
  <2> HIDE DEF e
  <2>2. Entry(key, NoCell, Scalar) \in EntrySet /\ \A c \in Address : key = CellKey(c) => NoCell = c
    BY <1>1, LocalEntry
  <2>3. /\ Good(h) /\ h.obj = made.obj /\ UndoIn(h, undo')
        /\ \A f \in Seq(FrameSet) : Exact(made, Owes(undo, f)) => Exact(h, Owes(undo', f))
    <3> HIDE DEF key
    <3> QED BY <1>0, <1>8, <1>12, <2>2, Enters
  <2> HIDE DEF h
  <2>4. Sound(h, scope, acc, frames, undo)
    BY <1>8, <1>12, <2>3, SoundExtends DEF Extends
  <2>5. e.local \in DOMAIN h.obj
    BY <1>8, <1>12, <2>1, <2>3 DEF IsCell
  <2>6. /\ FramesIn(h, frames') /\ frames' \in Seq(FrameSet)
        /\ Owes(undo, frames') + frames[n].charge = Owes(undo, frames) + e.charge
        /\ Owes(undo, frames') \in Nat
    <3>1. FramesIn(h, frames) /\ frames' = [frames EXCEPT ![n] = e]
      BY <1>12, <2>4 DEF Sound
    <3>2. e.local # NoCell => e.local \in DOMAIN h.obj
      BY <2>5
    <3>3. FramesIn(h, frames') /\ frames' \in Seq(FrameSet) /\ Owes(undo, frames') \in Nat
      BY ONLY <1>1, <2>1, <3>1, <3>2, FrameSwapped
    <3>5. Moved(undo, frames, frames', frames[n].charge, e.charge)
      BY ONLY <1>1, <2>1, <3>1, <3>2, FrameSwapped
    <3> QED BY ONLY <3>3, <3>5 DEF Moved
  <2>7. Owes(undo, frames') = k + FrameBytes(1)
    <3>1. Owes(undo, frames) \in Nat /\ FrameBytes(1) \in Nat
      BY StateIs, FrameBytesNat
    <3>2. PICK c, o, p, b : /\ c = frames[n].charge /\ o = Owes(undo, frames)
                            /\ p = Owes(undo, frames') /\ b = FrameBytes(1)
      OBVIOUS
    <3>3. c \in Nat /\ o \in Nat /\ p \in Nat /\ b \in Nat /\ k \in Nat
      BY <1>2, <1>4, <2>6, <3>1, <3>2
    <3>4. k + c = o + 0 /\ p + c = o + b
      BY <1>4, <2>1, <2>6, <3>2
    <3> HIDE DEF k
    <3>5. p = k + b
      BY ONLY <3>3, <3>4
    <3> QED BY ONLY <3>2, <3>5
  <2>8. Sound(h, scope', acc', frames', undo')
    BY <1>12, <2>3, <2>4, <2>6 DEF Sound
  <2>9. Ledger(h, undo', frames', foreign') /\ RunIs'
    <3>1. ~foreign => Exact(h, Owes(undo', frames'))
      BY <1>8, <1>12, <2>3, <2>6, <2>7
    <3> QED BY <1>0, <1>12, <3>1, StateIs DEF Ledger, RunIs, RunSet
  <2>10. Measured(h)
    BY <1>14, <2>3, MeasuredPlain
  <2> QED BY <1>12, <2>8, <2>9, <2>10, Settles DEF h
<1> QED BY <1>9, <1>10, <1>11, <1>12 DEF Catch, n, torn, paid, made, back, away

-----------------------------------------------------------------------------
(* Runs *)

\* No frames and no entries.
LEMMA OwesNothing ==
  /\ Owes(<<>>, <<>>) = 0
  /\ <<>> \in Seq(FrameSet) /\ \A h : FramesIn(h, <<>>) /\ UndoIn(h, <<>>)
<1>1. Charges(<<>>) = 0
  BY SumEmpty DEF Charges
<1>2. <<>> \in Seq(FrameSet) /\ \A h : FramesIn(h, <<>>) /\ UndoIn(h, <<>>)
  BY DEF FramesIn, UndoIn
<1> QED BY <1>1, <1>2 DEF Owes, JournalBytes

\* A new ledger owes nothing for the objects of earlier ones.
LEMMA NewLedgerIs ==
  ASSUME NEW h, Good(h)
  PROVE  /\ Good(NewLedger(h)) /\ Extends(NewLedger(h), h) /\ Exact(NewLedger(h), 0)
         /\ Measured(h) => Measured(NewLedger(h))
<1> DEFINE g == NewLedger(h)
<1>1. /\ DOMAIN g = {"obj", "live"} /\ g.live = 0 /\ DOMAIN g.obj = DOMAIN h.obj
      /\ \A a \in DOMAIN h.obj : g.obj[a] = [h.obj[a] EXCEPT !.home = "past"]
  BY DEF NewLedger
<1> HIDE DEF g
<1>2. ASSUME NEW a \in DOMAIN h.obj
      PROVE  /\ Object(g.obj[a]) /\ Holds(h, g.obj[a].items) /\ g.obj[a].home = "past"
             /\ g.obj[a].kind = h.obj[a].kind /\ g.obj[a].items = h.obj[a].items
             /\ g.obj[a].top = h.obj[a].top /\ g.obj[a].count = h.obj[a].count
  <2>1. Object(h.obj[a]) /\ Holds(h, h.obj[a].items)
    BY DEF Good
  <2>2. g.obj[a] = [h.obj[a] EXCEPT !.home = "past"]
    BY <1>1
  <2>3. /\ DOMAIN g.obj[a] = DOMAIN h.obj[a] /\ g.obj[a].home = "past"
        /\ g.obj[a].kind = h.obj[a].kind /\ g.obj[a].items = h.obj[a].items
        /\ g.obj[a].bytes = h.obj[a].bytes
        /\ g.obj[a].top = h.obj[a].top /\ g.obj[a].count = h.obj[a].count
    BY <2>1, <2>2 DEF Object
  <2> QED BY <2>1, <2>3 DEF Object
<1>3. Good(g)
  <2>1. \A a \in DOMAIN g.obj : Object(g.obj[a]) /\ Holds(g, g.obj[a].items)
    BY <1>1, <1>2 DEF Holds
  <2> QED BY <1>1, <2>1 DEF Good
<1>4. Held(g) = 0
  <2>1. \A a \in DOMAIN g.obj : Bytes(g)[a] = 0
    BY <1>1, <1>2 DEF Bytes
  <2>2. IsFiniteSet(DOMAIN g.obj)
    BY <1>3, GoodIs
  <2> QED BY <2>1, <2>2, SumZero DEF Held
<1>5. Extends(g, h)
  BY <1>1, <1>2 DEF Extends
<1>6. Measured(h) => Measured(g)
  BY <1>1, <1>2, <1>3, MeasuredSame
<1> QED BY <1>1, <1>3, <1>4, <1>5, <1>6, HeapAssumption DEF Exact, g

\* A run begins, with a new ledger or in the one of the session.
LEMMA StartKeeps ==
  ASSUME HeapInv, NEW fresh \in BOOLEAN, NEW transactional \in BOOLEAN,
         Start(fresh, transactional)
  PROVE  HeapInv'
<1>1. /\ frames = <<>> /\ undo = <<>>
      /\ run' = [at |-> "on", transactional |-> transactional, error |-> "none"]
      /\ heap' = IF fresh THEN NewLedger(heap) ELSE heap
      /\ UNCHANGED <<scope, acc, frames, undo, foreign>>
  BY DEF Start, HeapInv, RunIs
<1>2. RunIs'
  BY <1>1 DEF RunIs, RunSet
<1>3. CASE ~fresh
  <2>1. heap' = heap
    BY <1>1, <1>3
  <2>2. Measured(heap)'
    BY <2>1 DEF HeapInv
  <2> QED BY <1>1, <1>2, <2>1, <2>2, StateIs DEF HeapInv
<1>4. CASE fresh
  <2>1. heap' = NewLedger(heap)
    BY <1>1, <1>4
  <2>2. Good(heap') /\ Extends(heap', heap) /\ Exact(heap', 0)
    BY <2>1, StateIs, NewLedgerIs
  <2>5. Measured(heap')
    BY <2>1, StateIs, NewLedgerIs DEF HeapInv
  <2>6. Measured(heap)'
    BY <2>5
  <2>3. Sound(heap', scope, acc, frames, undo)
    BY <2>2, StateIs, SoundExtends
  <2>4. Ledger(heap', undo, frames, foreign)
    BY <1>1, <2>2, OwesNothing, StateIs DEF Ledger
  <2> QED BY <1>1, <1>2, <2>3, <2>4, <2>6 DEF HeapInv
<1> QED BY <1>3, <1>4

\* The charges of the journal are given back with it.
LEMMA JournalGone ==
  ASSUME NEW h, Good(h), NEW m, m = Len(undo), m \in Nat, Owes(undo, <<>>) = JournalBytes * m
  PROVE  /\ Good(Freed(h, JournalBytes * m)) /\ Extends(Freed(h, JournalBytes * m), h)
         /\ Exact(h, Owes(undo, <<>>)) => Exact(Freed(h, JournalBytes * m), 0)
         /\ Measured(h) => Measured(Freed(h, JournalBytes * m))
<1> DEFINE n == JournalBytes * m
<1>1. n \in Nat /\ Owes(undo, <<>>) = n
  BY DEF JournalBytes
<1> HIDE DEF n
<1>2. Good(Freed(h, n)) /\ Extends(Freed(h, n), h)
  BY <1>1, FreedExtends
<1>3. 0 \in Nat /\ n = 0 + n
  BY <1>1
<1>4. Exact(h, n) => Exact(Freed(h, n), 0)
  BY <1>1, <1>3, FreedExact
<1>5. Measured(h) => Measured(Freed(h, n))
  BY <1>1, FreedIs, MeasuredPlain
<1> QED BY <1>1, <1>2, <1>4, <1>5 DEF n

\* Between runs only the journal is left to pay for.
LEMMA OwesJournal ==
  ASSUME HeapInv
  PROVE  Owes(undo, <<>>) = JournalBytes * Len(undo)
<1>1. Charges(<<>>) = 0
  BY SumEmpty DEF Charges
<1> QED BY <1>1, StateIs DEF Owes, JournalBytes

\* finalize_session(true)
LEMMA CommitKeeps ==
  ASSUME HeapInv, Commit
  PROVE  HeapInv'
<1> DEFINE h == Freed(heap, JournalBytes * Len(undo))
<1>1. /\ frames = <<>> /\ undo' = <<>> /\ run' = [run EXCEPT !.at = "over"]
      /\ UNCHANGED <<scope, acc, frames, before, foreign>>
      /\ Settle(h)
  BY DEF Commit
<1>2. /\ Good(h) /\ Extends(h, heap) /\ (Exact(heap, Owes(undo, <<>>)) => Exact(h, 0))
      /\ Measured(h)
  <2>1. PICK m : m = Len(undo)
    OBVIOUS
  <2>2. m \in Nat /\ Owes(undo, <<>>) = JournalBytes * m
    BY <2>1, StateIs, OwesJournal
  <2>3. /\ Good(Freed(heap, JournalBytes * m)) /\ Extends(Freed(heap, JournalBytes * m), heap)
        /\ Exact(heap, Owes(undo, <<>>)) => Exact(Freed(heap, JournalBytes * m), 0)
        /\ Measured(Freed(heap, JournalBytes * m))
    <3>1. Good(heap) /\ Measured(heap)
      BY StateIs DEF HeapInv
    <3> QED BY ONLY <2>1, <2>2, <3>1, JournalGone
  <2> QED BY <2>1, <2>3
<1> HIDE DEF h
<1>3. Sound(h, scope, acc, frames, undo)
  BY <1>2, StateIs, SoundExtends
<1>4. Sound(h, scope', acc', frames', undo')
  BY <1>1, <1>3, OwesNothing DEF Sound
<1>5. Ledger(h, undo', frames', foreign')
  BY <1>1, <1>2, OwesNothing, StateIs DEF Ledger
<1>6. RunIs'
  BY <1>1, StateIs DEF RunIs, RunSet
<1> QED BY <1>1, <1>2, <1>4, <1>5, <1>6, Settles

\* The oldest entry of a key.
LEMMA Oldest ==
  ASSUME HeapInv, NEW at \in SUBSET DOMAIN undo, at # {}
  PROVE  Min(at) \in at
<1>1. at \subseteq Nat
  BY StateIs
<1>2. \E m \in at : \A k \in at : m <= k
  BY <1>1, LeastOf
<1> QED BY <1>2 DEF Min

\* What an entry has.
LEMMA UndoIs ==
  ASSUME HeapInv, NEW i \in DOMAIN undo
  PROVE  /\ undo[i].cell # NoCell => IsCell(heap, undo[i].cell)
         /\ undo[i].cell \in Nat
         /\ undo[i].old \in {Scalar} \union DOMAIN heap.obj
         /\ \A c \in Address : undo[i].key = CellKey(c) => undo[i].cell = c
<1>1. i \in 1 .. Len(undo) /\ undo[i] \in EntrySet
  BY StateIs
<1>2. undo[i].cell \in Nat
  BY <1>1 DEF EntrySet
<1> QED BY <1>1, <1>2, StateIs DEF Sound, UndoIn

\* The bindings that rollback_submission restores.
LEMMA OldBindingIs ==
  ASSUME HeapInv
  PROVE  ScopeIn(heap, [x \in Var |-> OldBinding(x)])
<1>1. ASSUME NEW x \in Var
      PROVE  OldBinding(x) \in Nat /\ (OldBinding(x) # NoCell => IsCell(heap, OldBinding(x)))
  <2> DEFINE at == {i \in DOMAIN undo : undo[i].key = BindingKey(x)}
  <2>1. CASE at = {}
    BY <2>1, StateIs DEF OldBinding, Sound, ScopeIn
  <2>2. CASE at # {}
    <3>1. Min(at) \in DOMAIN undo
      BY <2>2, Oldest
    <3>2. OldBinding(x) = undo[Min(at)].cell
      BY <2>2 DEF OldBinding
    <3> QED BY <3>1, <3>2, UndoIs
  <2> QED BY <2>1, <2>2
<1> QED BY <1>1 DEF ScopeIn

\* The values that rollback_submission restores.
LEMMA OldValuesIs ==
  ASSUME HeapInv
  PROVE  /\ Good(OldValues(heap)) /\ Extends(OldValues(heap), heap)
         /\ \A n \in Nat : Exact(heap, n) => Exact(OldValues(heap), n)
         /\ Measured(OldValues(heap))
<1> DEFINE g == OldValues(heap)
           at(a) == {i \in DOMAIN undo : undo[i].key = CellKey(a)}
           was(a) == IF at(a) = {} THEN heap.obj[a]
                     ELSE [heap.obj[a] EXCEPT !.items = <<undo[Min(at(a))].old>>]
<1>0. Good(heap) /\ DOMAIN heap = {"obj", "live"}
  BY StateIs DEF Good
<1>1. /\ DOMAIN g = {"obj", "live"} /\ g.live = heap.live /\ DOMAIN g.obj = DOMAIN heap.obj
      /\ \A a \in DOMAIN heap.obj : g.obj[a] = was(a)
  BY <1>0 DEF OldValues
<1> HIDE DEF g
<1>2. ASSUME NEW a \in DOMAIN heap.obj
      PROVE  /\ Object(g.obj[a]) /\ Holds(heap, g.obj[a].items)
             /\ g.obj[a].kind = heap.obj[a].kind /\ g.obj[a].bytes = heap.obj[a].bytes
             /\ g.obj[a].home = heap.obj[a].home
             /\ g.obj[a].top = heap.obj[a].top /\ g.obj[a].count = heap.obj[a].count
             /\ g.obj[a].kind # "cell" => g.obj[a].items = heap.obj[a].items
  <2>0. Object(heap.obj[a]) /\ Holds(heap, heap.obj[a].items) /\ a \in Address /\ a # NoCell
    BY <1>0, HeapAssumption DEF Good, NoCell
  <2>1. CASE at(a) = {}
    BY <1>1, <2>0, <2>1
  <2>2. CASE at(a) # {}
    <3>1. Min(at(a)) \in at(a)
      BY <2>2, Oldest
    <3> DEFINE v == undo[Min(at(a))].old
    <3>2. undo[Min(at(a))].key = CellKey(a) /\ Min(at(a)) \in DOMAIN undo
      BY <3>1
    <3>3. IsCell(heap, a) /\ v \in {Scalar} \union DOMAIN heap.obj
      BY <2>0, <3>2, UndoIs
    <3>4. v \in Nat
      BY <3>3, StateIs, GoodIs DEF Scalar
    <3>5. g.obj[a] = [heap.obj[a] EXCEPT !.items = <<v>>]
      BY <1>1, <2>2
    <3> HIDE DEF v, at, was
    <3>6. /\ DOMAIN g.obj[a] = DOMAIN heap.obj[a] /\ g.obj[a].items = <<v>>
          /\ g.obj[a].kind = heap.obj[a].kind /\ g.obj[a].bytes = heap.obj[a].bytes
          /\ g.obj[a].home = heap.obj[a].home
          /\ g.obj[a].top = heap.obj[a].top /\ g.obj[a].count = heap.obj[a].count
      BY <2>0, <3>5 DEF Object
    <3>7. Formed("cell", <<v>>) /\ Holds(heap, <<v>>)
      BY <3>3, <3>4 DEF Formed, Holds
    <3> QED BY <2>0, <3>3, <3>6, <3>7 DEF Object, IsCell
  <2> QED BY <2>1, <2>2
<1> HIDE DEF at, was
<1>3. Good(g)
  <2>1. \A a \in DOMAIN g.obj : Object(g.obj[a]) /\ Holds(g, g.obj[a].items)
    BY <1>1, <1>2 DEF Holds
  <2> QED BY <1>0, <1>1, <2>1 DEF Good
<1>4. Held(g) = Held(heap)
  BY <1>0, <1>1, <1>2, HeldSame
<1>5. Extends(g, heap)
  BY <1>1, <1>2 DEF Extends
<1>6. Measured(g)
  BY <1>1, <1>2, <1>3, MeasuredSame DEF HeapInv
<1> QED BY <1>1, <1>3, <1>4, <1>5, <1>6 DEF Exact, g

\* finalize_session(false)
LEMMA RollbackKeeps ==
  ASSUME HeapInv, Rollback
  PROVE  HeapInv'
<1> DEFINE g == OldValues(heap)
           h == Freed(g, JournalBytes * Len(undo))
<1>1. /\ frames = <<>> /\ undo' = <<>> /\ run' = [run EXCEPT !.at = "over"]
      /\ scope' = [x \in Var |-> OldBinding(x)]
      /\ UNCHANGED <<acc, frames, before, foreign>>
      /\ Settle(h)
  BY DEF Rollback
<1>2. /\ Good(g) /\ Extends(g, heap) /\ \A n \in Nat : Exact(heap, n) => Exact(g, n)
      /\ Measured(g)
  BY OldValuesIs
<1> HIDE DEF g
<1>3. /\ Good(h) /\ Extends(h, g) /\ (Exact(g, Owes(undo, <<>>)) => Exact(h, 0))
      /\ Measured(h)
  <2>1. PICK m : m = Len(undo)
    OBVIOUS
  <2>2. m \in Nat /\ Owes(undo, <<>>) = JournalBytes * m
    BY <2>1, StateIs, OwesJournal
  <2>3. /\ Good(Freed(g, JournalBytes * m)) /\ Extends(Freed(g, JournalBytes * m), g)
        /\ Exact(g, Owes(undo, <<>>)) => Exact(Freed(g, JournalBytes * m), 0)
        /\ Measured(Freed(g, JournalBytes * m))
    BY ONLY <1>2, <2>1, <2>2, JournalGone
  <2> QED BY <2>1, <2>3
<1> HIDE DEF h
<1>4. Extends(h, heap)
  BY <1>2, <1>3, ExtendsAll
<1>5. Sound(h, scope, acc, frames, undo)
  BY <1>3, <1>4, StateIs, SoundExtends
<1>6. ScopeIn(h, scope')
  BY <1>1, <1>4, OldBindingIs DEF ScopeIn, Extends, IsCell
<1>7. Sound(h, scope', acc', frames', undo')
  BY <1>1, <1>5, <1>6, OwesNothing DEF Sound
<1>8. Ledger(h, undo', frames', foreign')
  BY <1>1, <1>2, <1>3, OwesNothing, StateIs DEF Ledger
<1>9. RunIs'
  BY <1>1, StateIs DEF RunIs, RunSet
<1> QED BY <1>1, <1>3, <1>7, <1>8, <1>9, Settles

-----------------------------------------------------------------------------
(* What earlier runs left *)

\* A least element is the minimum.
LEMMA MinIs ==
  ASSUME NEW S \in SUBSET Nat, NEW m \in S, \A k \in S : m <= k
  PROVE  Min(S) = m
<1>1. Min(S) \in S /\ \A k \in S : Min(S) <= k
  BY DEF Min
<1>2. Min(S) <= m /\ m <= Min(S) /\ Min(S) \in Nat /\ m \in Nat
  BY <1>1
<1> QED BY <1>2

\* What a variable or an element can be: a scalar, a list or a dict.
ValuesOf(h) == {Scalar} \union {a \in DOMAIN h.obj : h.obj[a].kind # "cell"}

\* No object holds a cell.
Plain(h) ==
  \A a \in DOMAIN h.obj : \A i \in DOMAIN h.obj[a].items : h.obj[a].items[i] \in ValuesOf(h)

\* No two variables have one cell.
OneEach(s) == \A x, y \in Var : s[x] = s[y] /\ s[x] # NoCell => x = y

\* One more of what earlier runs left, at the next address.
LEMMA LeftMore ==
  ASSUME NEW h, Good(h), h.live = Held(h), NEW n \in 1 .. 3, DOMAIN h.obj = 1 .. (n - 1),
         NEW kind, NEW items, Formed(kind, items), Holds(h, items),
         Measured(h), Shallow(h, kind, items)
  PROVE  LET g == Made(h, kind, items)
         IN  /\ Good(g) /\ g.live = Held(g) /\ DOMAIN g.obj = 1 .. n
             /\ g.obj[n].kind = kind
             /\ \A a \in DOMAIN h.obj : g.obj[a] = h.obj[a]
             /\ Measured(g) /\ (kind = "list" => g.obj[n].top = Summary(h, items).top)
             /\ Plain(h) /\ (\A i \in DOMAIN items : items[i] \in ValuesOf(h)) => Plain(g)
<1>0. n \in Address /\ 1 \in Nat \ {0}
  BY HeapAssumption
<1>1. IsFiniteSet(Address \ DOMAIN h.obj)
  BY HeapAssumption, FS_Difference
<1>2. n \in Address \ DOMAIN h.obj
  BY <1>0
<1>3. HasFresh(h, 1)
  <2>1. Cardinality(Address \ DOMAIN h.obj) \in Nat
        /\ Cardinality(Address \ DOMAIN h.obj) # 0
    BY <1>1, <1>2, FS_CardinalityType, FS_EmptySet
  <2> QED BY <2>1 DEF HasFresh
<1>4. Fresh(h) = n
  <2>1. \A k \in Address \ DOMAIN h.obj : n <= k
    <3>1. \A k \in Nat \ {0} : k \notin 1 .. (n - 1) => n <= k
      OBVIOUS
    <3> QED BY <3>1, HeapAssumption
  <2>2. Address \ DOMAIN h.obj \in SUBSET Nat
    BY HeapAssumption
  <2> QED BY <1>2, <2>1, <2>2, MinIs DEF Fresh
<1>5. 1 .. n = (1 .. (n - 1)) \union {n}
  OBVIOUS
<1> DEFINE g == Made(h, kind, items)
<1>6. /\ Good(g)
      /\ DOMAIN g.obj = DOMAIN h.obj \union {n}
      /\ \A a \in DOMAIN h.obj : g.obj[a] = h.obj[a]
      /\ g.obj[n].kind = kind /\ g.obj[n].items = items
      /\ kind = "list" => g.obj[n].top = Summary(h, items).top
      /\ g.live = h.live + Body(kind, items)
      /\ Held(g) = Held(h) + Body(kind, items)
  BY <1>0, <1>3, <1>4, MadeIs
<1>7. Measured(g)
  BY <1>0, <1>3, MeasuredMade
<1> HIDE DEF g
<1>8. Plain(h) /\ (\A i \in DOMAIN items : items[i] \in ValuesOf(h)) => Plain(g)
  <2>1. ValuesOf(h) \subseteq ValuesOf(g)
    BY <1>6 DEF ValuesOf
  <2>2. ASSUME Plain(h), \A i \in DOMAIN items : items[i] \in ValuesOf(h),
               NEW a \in DOMAIN g.obj, NEW i \in DOMAIN g.obj[a].items
        PROVE  g.obj[a].items[i] \in ValuesOf(h)
    BY <1>6, <2>2 DEF Plain
  <2> QED BY <2>1, <2>2 DEF Plain
<1> QED BY <1>5, <1>6, <1>7, <1>8 DEF g

\* What earlier runs left is well formed and paid for, and each variable has a
\* cell of its own.
LEMMA LeftIs ==
  ASSUME NEW x \in Var, NEW l \in Left(x)
  PROVE  /\ Good(l.heap) /\ ScopeIn(l.heap, l.scope) /\ l.heap.live = Held(l.heap)
         /\ Measured(l.heap) /\ Plain(l.heap) /\ OneEach(l.scope)
<1> DEFINE bound  == Made(OneList, "cell", <<1>>)
           nested == Made(OneList, "list", <<1>>)
           two    == Made(bound, "cell", <<1>>)
           three  == Made(nested, "cell", <<2>>)
<1>0. 1 .. 1 \subseteq 1 .. MaxElements /\ 0 < MaxValueDepth /\ 1 < MaxValueDepth
  BY HeapAssumption
<1>12. \A h, v : Shallow(h, "cell", <<v>>)
  BY <1>0 DEF Shallow
<1>1. Good(None) /\ None.live = Held(None) /\ DOMAIN None.obj = {} /\ Measured(None)
      /\ Plain(None)
  <2>1. None.live = 0 /\ DOMAIN None = {"obj", "live"} /\ None.obj = <<>>
    BY DEF None
  <2>2. DOMAIN None.obj = {}
    BY <2>1
  <2>3. Held(None) = 0
    BY <2>2, SumEmpty DEF Held
  <2>4. Measured(None)
    BY <2>2 DEF Measured
  <2> QED BY <2>1, <2>2, <2>3, <2>4 DEF Good, Plain
<1>2. /\ Good(OneList) /\ OneList.live = Held(OneList) /\ DOMAIN OneList.obj = 1 .. 1
      /\ Measured(OneList) /\ DepthIn(OneList, 1) = 1
      /\ Plain(OneList) /\ OneList.obj[1].kind = "list"
  <2>1. Formed("list", <<Scalar>>) /\ Holds(None, <<Scalar>>)
    BY DEF Formed, Holds, Scalar
  <2>2. DOMAIN None.obj = 1 .. (1 - 1)
    BY <1>1
  <2>3. PICK q : q = <<Scalar>>
    OBVIOUS
  <2>4. DOMAIN q = 1 .. 1 /\ q[1] = Scalar
    BY <2>3
  <2>5. \A i \in DOMAIN q : DepthIn(None, q[i]) = 0
    BY <2>4 DEF DepthIn
  <2>6. Shallow(None, "list", q)
    BY <1>0, <2>4, <2>5 DEF Shallow
  <2>7. Summary(None, q).top = 0
    <3>1. Numbered(None, q)
      BY <1>0, <1>1, <2>1, <2>3, <2>4, NumberedIs
    <3>2. Describes(Summary(None, q), None, q)
      BY <3>1, SummaryIs
    <3>3. DOMAIN q # {}
      BY <2>4
    <3> QED BY <2>5, <3>2, <3>3 DEF Describes, Deepest
  <2>8. Formed("list", q) /\ Holds(None, q) /\ OneList = Made(None, "list", q)
    BY <2>1, <2>3 DEF OneList
  <2>9. /\ Good(OneList) /\ OneList.live = Held(OneList) /\ DOMAIN OneList.obj = 1 .. 1
        /\ Measured(OneList) /\ OneList.obj[1].top = Summary(None, q).top
        /\ Plain(OneList) /\ OneList.obj[1].kind = "list"
    <3>1. \A i \in DOMAIN q : q[i] \in ValuesOf(None)
      BY <2>4 DEF ValuesOf
    <3> QED BY <1>1, <2>2, <2>6, <2>8, <3>1, LeftMore
  <2>10. DepthIn(OneList, 1) = 1
    BY <2>7, <2>9 DEF DepthIn, Scalar
  <2> QED BY <2>9, <2>10
<1>3. /\ Good(bound) /\ bound.live = Held(bound) /\ DOMAIN bound.obj = 1 .. 2
      /\ bound.obj[2].kind = "cell" /\ Measured(bound)
      /\ Plain(bound) /\ 1 \in ValuesOf(bound)
  <2>1. Formed("cell", <<1>>) /\ Holds(OneList, <<1>>)
    BY <1>2 DEF Formed, Holds
  <2>2. DOMAIN OneList.obj = 1 .. (2 - 1) /\ 1 \in DOMAIN OneList.obj
    BY <1>2
  <2>3. \A i \in DOMAIN <<1>> : <<1>>[i] \in ValuesOf(OneList)
    BY <1>2, <2>2 DEF ValuesOf
  <2>4. /\ Good(bound) /\ bound.live = Held(bound) /\ DOMAIN bound.obj = 1 .. 2
        /\ bound.obj[2].kind = "cell" /\ Measured(bound) /\ Plain(bound)
        /\ \A a \in DOMAIN OneList.obj : bound.obj[a] = OneList.obj[a]
    BY <1>2, <1>12, <2>1, <2>2, <2>3, LeftMore
  <2> HIDE DEF bound
  <2> QED BY <1>2, <2>2, <2>4 DEF ValuesOf
<1>4. /\ Good(nested) /\ nested.live = Held(nested) /\ DOMAIN nested.obj = 1 .. 2
      /\ Measured(nested) /\ Plain(nested) /\ nested.obj[2].kind = "list"
  <2>1. Formed("list", <<1>>) /\ Holds(OneList, <<1>>)
    BY <1>2 DEF Formed, Holds
  <2>2. DOMAIN OneList.obj = 1 .. (2 - 1)
    BY <1>2
  <2>3. Shallow(OneList, "list", <<1>>)
    BY <1>0, <1>2 DEF Shallow
  <2>4. \A i \in DOMAIN <<1>> : <<1>>[i] \in ValuesOf(OneList)
    BY <1>2 DEF ValuesOf
  <2> QED BY <1>2, <2>1, <2>2, <2>3, <2>4, LeftMore
<1> HIDE DEF bound, nested
<1>5. /\ Good(two) /\ two.live = Held(two) /\ DOMAIN two.obj = 1 .. 3
      /\ two.obj[3].kind = "cell" /\ two.obj[2].kind = "cell" /\ Measured(two)
      /\ Plain(two)
  <2>1. Formed("cell", <<1>>) /\ Holds(bound, <<1>>)
    BY <1>3 DEF Formed, Holds
  <2>2. DOMAIN bound.obj = 1 .. (3 - 1) /\ 2 \in DOMAIN bound.obj
    BY <1>3
  <2>3. /\ Good(two) /\ two.live = Held(two) /\ DOMAIN two.obj = 1 .. 3
        /\ Measured(two) /\ two.obj[3].kind = "cell" /\ Plain(two)
        /\ \A a \in DOMAIN bound.obj : two.obj[a] = bound.obj[a]
    <3>1. \A i \in DOMAIN <<1>> : <<1>>[i] \in ValuesOf(bound)
      BY <1>3
    <3> QED BY <1>3, <1>12, <2>1, <2>2, <3>1, LeftMore
  <2> HIDE DEF two
  <2> QED BY <1>3, <2>2, <2>3
<1>6. /\ Good(three) /\ three.live = Held(three) /\ DOMAIN three.obj = 1 .. 3
      /\ three.obj[3].kind = "cell" /\ Measured(three) /\ Plain(three)
  <2>1. Formed("cell", <<2>>) /\ Holds(nested, <<2>>)
    BY <1>4 DEF Formed, Holds
  <2>2. DOMAIN nested.obj = 1 .. (3 - 1) /\ 2 \in DOMAIN nested.obj
    BY <1>4
  <2>3. \A i \in DOMAIN <<2>> : <<2>>[i] \in ValuesOf(nested)
    BY <1>4, <2>2 DEF ValuesOf
  <2> QED BY <1>4, <1>12, <2>1, <2>2, <2>3, LeftMore
<1> HIDE DEF two, three
<1>7. \/ l = [heap |-> None, scope |-> [z \in Var |-> NoCell]]
      \/ l = [heap |-> bound, scope |-> [z \in Var |-> IF z = x THEN 2 ELSE NoCell]]
      \/ \E y \in Var \ {x} :
           l = [heap |-> two,
                scope |-> [z \in Var |-> IF z = x THEN 2 ELSE IF z = y THEN 3 ELSE NoCell]]
      \/ l = [heap |-> three, scope |-> [z \in Var |-> IF z = x THEN 3 ELSE NoCell]]
  BY DEF Left, bound, nested, two, three
<1>8. CASE l = [heap |-> None, scope |-> [z \in Var |-> NoCell]]
  BY <1>1, <1>8 DEF ScopeIn, OneEach, NoCell
<1>9. CASE l = [heap |-> bound, scope |-> [z \in Var |-> IF z = x THEN 2 ELSE NoCell]]
  BY <1>3, <1>9 DEF ScopeIn, OneEach, NoCell, IsCell
<1>10. ASSUME NEW y \in Var \ {x},
              l = [heap |-> two,
                   scope |-> [z \in Var |-> IF z = x THEN 2 ELSE IF z = y THEN 3 ELSE NoCell]]
       PROVE  /\ Good(l.heap) /\ ScopeIn(l.heap, l.scope) /\ l.heap.live = Held(l.heap)
              /\ Measured(l.heap) /\ Plain(l.heap) /\ OneEach(l.scope)
  BY <1>5, <1>10 DEF ScopeIn, OneEach, NoCell, IsCell
<1>11. CASE l = [heap |-> three, scope |-> [z \in Var |-> IF z = x THEN 3 ELSE NoCell]]
  BY <1>6, <1>11 DEF ScopeIn, OneEach, NoCell, IsCell
<1> QED BY <1>7, <1>8, <1>9, <1>10, <1>11

\* The invariant holds at first.
LEMMA InitHolds ==
  ASSUME Init
  PROVE  HeapInv
<1>0. PICK x \in Var : \E l \in Left(x) :
        l.heap.live <= HeapLimit /\ heap = l.heap /\ scope = l.scope
  BY DEF Init
<1>1. PICK l \in Left(x) : l.heap.live <= HeapLimit /\ heap = l.heap /\ scope = l.scope
  BY <1>0
<1>2. /\ Good(heap) /\ ScopeIn(heap, scope) /\ heap.live = Held(heap) /\ heap.live <= HeapLimit
      /\ Measured(heap)
  BY <1>1, LeftIs
<1>3. /\ acc = Nothing /\ frames = <<>> /\ undo = <<>> /\ foreign = FALSE
      /\ run = [at |-> "idle", transactional |-> FALSE, error |-> "none"]
  BY DEF Init
<1>4. Sound(heap, scope, acc, frames, undo)
  BY <1>2, <1>3, OwesNothing DEF Sound, ValueIn
<1>5. Ledger(heap, undo, frames, foreign)
  <2>1. Owes(undo, frames) = 0
    BY <1>3, OwesNothing
  <2>2. Held(heap) \in Nat
    BY <1>2, GoodIs
  <2>3. Exact(heap, Owes(undo, frames))
    BY <1>2, <2>1, <2>2 DEF Exact
  <2> QED BY <1>3, <2>3 DEF Ledger
<1>6. RunIs
  BY <1>3 DEF RunIs, RunSet
<1> QED BY <1>2, <1>4, <1>5, <1>6 DEF HeapInv

-----------------------------------------------------------------------------
(* The theorem *)

\* It holds after an expression or a statement.
LEMMA WorkKeeps ==
  ASSUME HeapInv, Work
  PROVE  HeapInv'
<1>1. ASSUME NEW v \in Known, Evaluate(v) \/ EnterRound(v) PROVE HeapInv'
  BY <1>1, EvaluateKeeps, EnterRoundKeeps
<1>2. ASSUME NEW q \in Lists, Literal("list", q) PROVE HeapInv'
  <2>1. PICK n \in 0 .. MaxLiteral : q \in [1 .. n -> Known]
    BY DEF Lists
  <2>2. n \in Nat /\ Known \subseteq Nat
    BY HeapAssumption, KnownIn
  <2>3. q \in [1 .. n -> Nat]
    BY <2>1, <2>2
  <2>4. q \in Seq(Nat)
    BY ONLY <2>2, <2>3
  <2>5. Formed("list", q)
    BY <2>4 DEF Formed
  <2>6. DOMAIN q \subseteq 1 .. MaxElements
    BY <2>1, HeapAssumption
  <2> QED BY <1>2, <2>5, <2>6, LiteralKeeps
<1>3. ASSUME NEW d \in Dicts, Literal("dict", d) PROVE HeapInv'
  <2>1. Formed("dict", d)
    BY DEF Dicts, Formed
  <2>2. DOMAIN d \subseteq 1 .. MaxElements
    <3>1. PICK K \in SUBSET Key : d \in [K -> Known]
      BY DEF Dicts
    <3>2. 1 \in 1 .. MaxElements
      BY HeapAssumption
    <3> QED BY <3>1, <3>2 DEF Key
  <2> QED BY <1>3, <2>1, <2>2, LiteralKeeps
<1>4. ASSUME Result PROVE HeapInv'
  BY <1>4, ResultKeeps
<1>5. ASSUME NEW x \in Var, Let(x) \/ Update(x) \/ Push(x) \/ Pop(x) PROVE HeapInv'
  BY <1>5, LetKeeps, UpdateKeeps, PushKeeps, PopKeeps
<1>6. ASSUME NEW x \in Var, NEW i \in 1 .. MaxElements, SetAt(x, i) PROVE HeapInv'
  BY <1>6, SetAtKeeps
<1>7. ASSUME NEW kind \in {"block", "try"}, Enter(kind) PROVE HeapInv'
  BY <1>7, EnterKeeps
<1> QED BY <1>1, <1>2, <1>3, <1>4, <1>5, <1>6, <1>7 DEF Work

\* It holds after every step.
LEMMA NextKeeps ==
  ASSUME HeapInv, [Next]_vars
  PROVE  HeapInv'
<1>1. CASE Work
  BY <1>1, WorkKeeps
<1>2. CASE Leave
  BY <1>2, LeaveKeeps
<1>3. CASE Catch
  BY <1>3, CatchKeeps
<1>4. CASE Commit
  BY <1>4, CommitKeeps
<1>5. CASE Rollback
  BY <1>5, RollbackKeeps
<1>6. ASSUME NEW fresh \in BOOLEAN, NEW transactional \in BOOLEAN, Start(fresh, transactional)
      PROVE  HeapInv'
  BY <1>6, StartKeeps
<1>7. CASE UNCHANGED vars
  <2>1. heap' = heap
    BY <1>7 DEF vars
  <2>2. Measured(heap)'
    BY <2>1 DEF HeapInv
  <2> QED BY <1>7, <2>2 DEF vars, HeapInv, Sound, Ledger, RunIs
<1> QED BY <1>1, <1>2, <1>3, <1>4, <1>5, <1>6, <1>7 DEF Next

\* Whatever is made, shared, copied, refused, caught or rolled back, no handle
\* of a variable, a frame or the journal leads to an object that is gone, and
\* the counter is the charges of what is left (Tracked::drop, pop_frame,
\* rollback_submission), and no summary is stale.
THEOREM HeapInvHolds == Spec => []HeapInv
<1>1. Init => HeapInv
  BY InitHolds
<1>2. HeapInv /\ [Next]_vars => HeapInv'
  BY NextKeeps
<1> QED BY <1>1, <1>2, PTL DEF Spec

\* live_heap_bytes is what is held and never over max_live_heap_bytes, for any
\* limit, any number of variables, elements, frames and steps, unless the run
\* changed an object of an earlier ledger in place.
THEOREM LiveIsExactHolds == Spec => []LiveIsExact
<1>1. HeapInv => LiveIsExact
  <2> SUFFICES ASSUME HeapInv, ~foreign PROVE heap.live = Owed /\ heap.live <= HeapLimit
    BY DEF LiveIsExact
  <2>1. Exact(heap, Owes(undo, frames))
    BY StateIs
  <2>2. DOMAIN Bytes(heap) = DOMAIN heap.obj
    BY DEF Bytes
  <2>3. SumFunction(Bytes(heap)) = Held(heap)
    BY <2>2 DEF SumFunction, Held
  <2>4. SumFunction([i \in DOMAIN frames |-> frames[i].charge]) = Charges(frames)
    BY DEF SumFunction, Charges
  <2>5. Held(heap) \in Nat /\ Charges(frames) \in Nat /\ Len(undo) \in Nat
    BY StateIs, GoodIs, ChargesNat
  <2>6. Owed = Held(heap) + Owes(undo, frames)
    BY <2>3, <2>4, <2>5 DEF Owed, Owes, JournalBytes
  <2> QED BY <2>1, <2>6 DEF Exact
<1> QED BY <1>1, HeapInvHolds, PTL

\* The depth that check_element_depth reads is the depth of the value, however
\* elements were added, replaced and taken away (note_child_added,
\* note_child_removed, settle_child_depth), and none is over MAX_VALUE_DEPTH.
THEOREM DepthsAreTrueHolds == Spec => []DepthsAreTrue
<1>1. HeapInv => DepthsAreTrue
  <2> SUFFICES ASSUME HeapInv, NEW a \in DOMAIN heap.obj, heap.obj[a].kind # "cell"
               PROVE  /\ heap.obj[a].top = Summary(heap, heap.obj[a].items).top
                      /\ heap.obj[a].count = Summary(heap, heap.obj[a].items).count
                      /\ DepthIn(heap, a) <= MaxValueDepth
    BY DEF DepthsAreTrue
  <2>1. /\ Summary(heap, heap.obj[a].items)
             = [top |-> heap.obj[a].top, count |-> heap.obj[a].count]
        /\ heap.obj[a].top \in Nat /\ heap.obj[a].top < MaxValueDepth
    BY DEF HeapInv, Measured
  <2>2. a # Scalar
    BY StateIs, GoodIs DEF Scalar
  <2>3. DepthIn(heap, a) = heap.obj[a].top + 1
    BY <2>2 DEF DepthIn
  <2>4. DepthIn(heap, a) <= MaxValueDepth
    BY <2>1, <2>3, HeapAssumption
  <2> QED BY <2>1, <2>4
<1> QED BY <1>1, HeapInvHolds, PTL

-----------------------------------------------------------------------------
(* The contents of a value *)

\* The rounds of Content: what a value is down to a depth.
Part(d, h, n, w) ==
  IF w = Scalar \/ n = 0 THEN <<"scalar">>
  ELSE <<h.obj[w].kind, [i \in DOMAIN h.obj[w].items |-> d[n - 1][h.obj[w].items[i]]]>>

Deep(d, h, N) ==
  d = [n \in 0 .. N |-> [w \in {Scalar} \union DOMAIN h.obj |-> Part(d, h, n, w)]]

\* They are a function.
LEMMA DeepExists ==
  ASSUME NEW h
  PROVE  \A N \in Nat : \E d : Deep(d, h, N)
<1> DEFINE W == {Scalar} \union DOMAIN h.obj
           P == {N \in Nat : \E d : Deep(d, h, N)}
<1>1. 0 \in P
  <2> DEFINE d == [n \in 0 .. 0 |-> [w \in W |-> <<"scalar">>]]
  <2>1. \A q : [w \in W |-> Part(q, h, 0, w)] = [w \in W |-> <<"scalar">>]
    BY DEF Part
  <2>2. [n \in 0 .. 0 |-> [w \in W |-> Part(d, h, n, w)]]
          = [n \in 0 .. 0 |-> [w \in W |-> <<"scalar">>]]
    <3>1. \A n \in 0 .. 0 : n = 0
      OBVIOUS
    <3> HIDE DEF d
    <3> QED BY <2>1, <3>1
  <2>3. Deep(d, h, 0)
    BY ONLY <2>2 DEF Deep, d
  <2> HIDE DEF d
  <2>4. \E q : Deep(q, h, 0)
    BY <2>3
  <2> QED BY <2>4
<1>2. ASSUME NEW N \in Nat, N \in P PROVE N + 1 \in P
  <2>1. PICK d : Deep(d, h, N)
    BY <1>2
  <2> DEFINE q == [n \in 0 .. (N + 1) |->
                     IF n = N + 1 THEN [w \in W |-> Part(d, h, N + 1, w)] ELSE d[n]]
  <2>2. DOMAIN q = 0 .. (N + 1)
    OBVIOUS
  <2>3. ASSUME NEW n \in 0 .. (N + 1)
        PROVE  q[n] = [w \in W |-> Part(q, h, n, w)]
    <3>1. CASE n = N + 1
      <4>1. q[n] = [w \in W |-> Part(d, h, n, w)] /\ q[n - 1] = d[n - 1]
        BY <3>1
      <4> HIDE DEF q
      <4>2. \A w : Part(q, h, n, w) = Part(d, h, n, w)
        BY <4>1 DEF Part
      <4> QED BY <4>1, <4>2
    <3>2. CASE n \in 1 .. N
      <4>1. q[n] = d[n] /\ q[n - 1] = d[n - 1]
        BY <3>2
      <4>2. d[n] = [w \in W |-> Part(d, h, n, w)]
        BY <2>1, <3>2 DEF Deep
      <4> HIDE DEF q
      <4>3. \A w : Part(q, h, n, w) = Part(d, h, n, w)
        BY <4>1 DEF Part
      <4> QED BY <4>1, <4>2, <4>3
    <3>3. CASE n = 0
      <4>1. q[0] = d[0] /\ d[0] = [w \in W |-> Part(d, h, 0, w)]
        BY <2>1 DEF Deep
      <4> HIDE DEF q
      <4>2. \A w : Part(q, h, 0, w) = Part(d, h, 0, w)
        BY DEF Part
      <4> QED BY <3>3, <4>1, <4>2
    <3>4. n = N + 1 \/ n \in 1 .. N \/ n = 0
      OBVIOUS
    <3> QED BY <3>1, <3>2, <3>3, <3>4
  <2>4. q = [n \in 0 .. (N + 1) |-> q[n]]
    OBVIOUS
  <2> HIDE DEF q
  <2>5. Deep(q, h, N + 1)
    BY <2>3, <2>4 DEF Deep
  <2>6. \E g : Deep(g, h, N + 1)
    BY <2>5
  <2>7. N + 1 \in Nat
    OBVIOUS
  <2> QED BY ONLY <2>6, <2>7 DEF P
<1> HIDE DEF P
<1>3. \A N \in Nat : N \in P
  BY <1>1, <1>2, Induction
<1> QED BY <1>3 DEF P

\* The content of a value is the last round.
LEMMA ContentIs ==
  ASSUME NEW h
  PROVE  \E d : Deep(d, h, MaxValueDepth) /\ \A v : Content(h, v) = d[MaxValueDepth][v]
<1> DEFINE d == CHOOSE q : Deep(q, h, MaxValueDepth)
<1>1. Deep(d, h, MaxValueDepth)
  BY DeepExists, HeapAssumption
<1>2. \A v : Content(h, v) = d[MaxValueDepth][v]
  BY DEF Content, Deep, Part
<1> HIDE DEF d
<1> QED BY <1>1, <1>2

\* Values have the same content in two heaps in which they and what they hold
\* are the same.
LEMMA ContentSame ==
  ASSUME NEW h, NEW g, NEW A, A \subseteq DOMAIN h.obj, A \subseteq DOMAIN g.obj,
         \A a \in A : /\ g.obj[a].kind = h.obj[a].kind /\ g.obj[a].items = h.obj[a].items
                      /\ \A i \in DOMAIN h.obj[a].items : h.obj[a].items[i] \in {Scalar} \union A
  PROVE  \A v \in {Scalar} \union A : Content(g, v) = Content(h, v)
<1>1. PICK d : Deep(d, h, MaxValueDepth) /\ \A v : Content(h, v) = d[MaxValueDepth][v]
  BY ContentIs
<1>2. PICK e : Deep(e, g, MaxValueDepth) /\ \A v : Content(g, v) = e[MaxValueDepth][v]
  BY ContentIs
<1>3. MaxValueDepth \in Nat
  BY HeapAssumption
<1> DEFINE P == {n \in Nat : n <= MaxValueDepth => \A v \in {Scalar} \union A : e[n][v] = d[n][v]}
<1>4. ASSUME NEW n \in 0 .. MaxValueDepth, NEW v \in {Scalar} \union A
      PROVE  d[n][v] = Part(d, h, n, v) /\ e[n][v] = Part(e, g, n, v)
  <2>1. v \in {Scalar} \union DOMAIN h.obj /\ v \in {Scalar} \union DOMAIN g.obj
    OBVIOUS
  <2>2. /\ d[n] = [w \in {Scalar} \union DOMAIN h.obj |-> Part(d, h, n, w)]
        /\ e[n] = [w \in {Scalar} \union DOMAIN g.obj |-> Part(e, g, n, w)]
    BY <1>1, <1>2, <1>3 DEF Deep
  <2> QED BY <2>1, <2>2
<1>5. 0 \in P
  <2>1. 0 \in 0 .. MaxValueDepth
    BY <1>3
  <2>2. ASSUME NEW v \in {Scalar} \union A PROVE e[0][v] = d[0][v]
    BY <1>4, <2>1 DEF Part
  <2> QED BY <2>2
<1>6. ASSUME NEW n \in Nat, n \in P PROVE n + 1 \in P
  <2> SUFFICES ASSUME n + 1 <= MaxValueDepth, NEW v \in {Scalar} \union A
               PROVE  e[n + 1][v] = d[n + 1][v]
    OBVIOUS
  <2>1. n + 1 \in 0 .. MaxValueDepth /\ n + 1 # 0 /\ (n + 1) - 1 = n /\ n <= MaxValueDepth
    BY <1>3
  <2>2. \A w \in {Scalar} \union A : e[n][w] = d[n][w]
    BY <1>6, <2>1
  <2>3. d[n + 1][v] = Part(d, h, n + 1, v) /\ e[n + 1][v] = Part(e, g, n + 1, v)
    BY <1>4, <2>1
  <2> HIDE DEF P
  <2>4. CASE v = Scalar
    BY <2>3, <2>4 DEF Part
  <2>5. CASE v # Scalar
    <3>1. v \in A
      BY <2>5
    <3>2. PICK q : q = h.obj[v].items
      OBVIOUS
    <3>3. g.obj[v].items = q /\ g.obj[v].kind = h.obj[v].kind
          /\ \A i \in DOMAIN q : q[i] \in {Scalar} \union A
      BY <3>1, <3>2
    <3>4. [i \in DOMAIN q |-> e[n][q[i]]] = [i \in DOMAIN q |-> d[n][q[i]]]
      BY <2>2, <3>3
    <3>5. Part(d, h, n + 1, v) = <<h.obj[v].kind, [i \in DOMAIN q |-> d[n][q[i]]]>>
      BY <2>1, <2>5, <3>2 DEF Part
    <3>6. Part(e, g, n + 1, v) = <<h.obj[v].kind, [i \in DOMAIN q |-> e[n][q[i]]]>>
      BY <2>1, <2>5, <3>3 DEF Part
    <3> QED BY <2>3, <3>4, <3>5, <3>6
  <2> QED BY <2>4, <2>5
<1> HIDE DEF P
<1>7. \A n \in Nat : n \in P
  BY <1>5, <1>6, Induction
<1>8. \A v \in {Scalar} \union A : e[MaxValueDepth][v] = d[MaxValueDepth][v]
  BY <1>3, <1>7 DEF P
<1> QED BY <1>1, <1>2, <1>8

-----------------------------------------------------------------------------
(* What the journal gives back *)

\* The entries of a key, of which the oldest counts.
Marks(u, key) == {i \in DOMAIN u : u[i].key = key}
Mark(u, key)  == u[Min(Marks(u, key))]

\* The cell that was bound to x, the value that was in cell c, and the
\* contents of all variables, before the entries of u.
OldCell(u, s, x) == IF Marks(u, BindingKey(x)) = {} THEN s[x] ELSE Mark(u, BindingKey(x)).cell
OldItem(h, u, c) == IF Marks(u, CellKey(c)) = {} THEN h.obj[c].items[1] ELSE Mark(u, CellKey(c)).old
OldContents(h, s, u) ==
  [y \in {z \in Var : OldCell(u, s, z) # NoCell} |-> Content(h, OldItem(h, u, OldCell(u, s, y)))]

\* An entry is written for a key that has none, with what is there.
Notes(e) ==
  /\ undo' = Append(undo, e) /\ run.transactional
  /\ Marks(undo, e.key) = {}
  /\ e.old \in ValuesOf(heap) /\ e.cell \in {NoCell} \union DOMAIN heap.obj
  /\ \A c : e.key = CellKey(c) => e.old = heap.obj[c].items[1]
  /\ \A y \in Var : e.key = BindingKey(y) => e.cell = scope[y]

Noted == undo' = undo \/ \E e : Notes(e)

\* One entry more, of another key or the first of its key.
LEMMA MarksMore ==
  ASSUME NEW u \in Seq(EntrySet), NEW e, NEW key, Marks(u, e.key) = {}
  PROVE  /\ key # e.key => Marks(Append(u, e), key) = Marks(u, key)
         /\ Marks(Append(u, e), e.key) # {} /\ Mark(Append(u, e), e.key) = e
         /\ \A i \in DOMAIN u : Append(u, e)[i] = u[i]
         /\ \A i \in DOMAIN Append(u, e) : i \in DOMAIN u \/ Append(u, e)[i] = e
<1>1. PICK n \in Nat : n = Len(u) /\ DOMAIN u = 1 .. n
  OBVIOUS
<1>2. PICK w : w = Append(u, e)
  OBVIOUS
<1>3. /\ DOMAIN w = 1 .. (n + 1) /\ w[n + 1] = e
      /\ \A i \in 1 .. n : w[i] = u[i]
  BY <1>1, <1>2
<1>4. \A i : i \in 1 .. (n + 1) <=> i \in 1 .. n \/ i = n + 1
  BY <1>1
<1>5. \A i \in 1 .. n : u[i].key # e.key
  BY <1>1 DEF Marks
<1>6. key # e.key => Marks(w, key) = Marks(u, key)
  <2>1. ASSUME key # e.key PROVE \A i : i \in Marks(w, key) <=> i \in Marks(u, key)
    BY <1>1, <1>3, <1>4, <2>1 DEF Marks
  <2> QED BY <2>1
<1>7. Marks(w, e.key) = {n + 1}
  <2>1. \A i : i \in Marks(w, e.key) <=> i = n + 1
    BY <1>3, <1>4, <1>5 DEF Marks
  <2> QED BY <2>1
<1>8. Min({n + 1}) = n + 1
  <2>1. {n + 1} \in SUBSET Nat /\ n + 1 \in {n + 1} /\ \A k \in {n + 1} : n + 1 <= k
    OBVIOUS
  <2> QED BY ONLY <2>1, MinIs
<1>9. Mark(w, e.key) = e
  BY <1>3, <1>7, <1>8 DEF Mark
<1> QED BY <1>1, <1>2, <1>3, <1>4, <1>6, <1>7, <1>9

\* An entry that is looked up is one of the journal.
LEMMA MarkIs ==
  ASSUME NEW u \in Seq(EntrySet), NEW key, Marks(u, key) # {}
  PROVE  \E i \in DOMAIN u : Mark(u, key) = u[i] /\ u[i].key = key
<1>1. Marks(u, key) \in SUBSET Nat
  BY DEF Marks
<1>2. Min(Marks(u, key)) \in Marks(u, key)
  BY <1>1, LeastOf DEF Min
<1> QED BY <1>2 DEF Marks, Mark

\* Keys of one kind are none of another.
LEMMA KeysDiffer ==
  /\ \A x, y : BindingKey(x) = BindingKey(y) => x = y
  /\ \A c, d : CellKey(c) = CellKey(d) => c = d
  /\ \A x, c, n : BindingKey(x) # CellKey(c) /\ BindingKey(x) # <<"local", n>>
                  /\ CellKey(c) # <<"local", n>>
BY DEF BindingKey, CellKey

\* Journal writes an entry, if one is needed.
LEMMA JournalNotes ==
  ASSUME undo \in Seq(EntrySet), NEW key, NEW cell, NEW old, Journal(key, cell, old),
         old \in ValuesOf(heap), cell \in {NoCell} \union DOMAIN heap.obj,
         \A c : key = CellKey(c) => old = heap.obj[c].items[1],
         \A y \in Var : key = BindingKey(y) => cell = scope[y]
  PROVE  Noted /\ (run.transactional => Marks(undo', key) # {})
<1>1. PICK e : e = Entry(key, cell, old)
  OBVIOUS
<1>2. e.key = key /\ e.cell = cell /\ e.old = old
  BY <1>1 DEF Entry
<1>3. NeedsEntry(key) <=> run.transactional /\ Marks(undo, key) = {}
  BY DEF NeedsEntry, Marks
<1>4. CASE NeedsEntry(key)
  <2>1. undo' = Append(undo, e)
    BY <1>1, <1>4 DEF Journal
  <2>2. Notes(e)
    BY <1>2, <1>3, <1>4, <2>1 DEF Notes
  <2>3. Marks(undo', key) # {}
    BY <1>2, <1>3, <1>4, <2>1, MarksMore
  <2> QED BY <2>2, <2>3 DEF Noted
<1>5. CASE ~NeedsEntry(key)
  BY <1>3, <1>5 DEF Journal, Noted
<1> QED BY <1>4, <1>5

-----------------------------------------------------------------------------
(* Values are separate *)

\* Cells hold values and values hold values; a cell is of one variable, now and
\* after a rollback; and the journal gives back what was there when the
\* transaction began.
SeparateInv ==
  /\ Plain(heap) /\ acc \in ValuesOf(heap) \union {Nothing}
  /\ \A i \in DOMAIN undo : undo[i].old \in ValuesOf(heap)
  /\ OneEach(scope)
  /\ OneEach([x \in Var |-> OldCell(undo, scope, x)])
  /\ undo # <<>> => run.transactional
  /\ run.at = "on" /\ run.transactional => OldContents(heap, scope, undo) = before

\* A step within a run: all objects but cell c and backing t are as they were.
Rest(c, t) ==
  \A a \in DOMAIN heap.obj \intersect DOMAIN heap'.obj :
    /\ heap'.obj[a].kind = heap.obj[a].kind
    /\ a \notin {c, t} => heap'.obj[a].items = heap.obj[a].items

\* A backing that is written to is in cell c and nowhere else.
Lone(c, t) ==
  t \in DOMAIN heap.obj =>
    /\ heap.obj[t].kind # "cell"
    /\ \A b \in DOMAIN heap.obj \ {c} : \A i \in DOMAIN heap.obj[b].items :
         heap.obj[b].items[i] # t
    /\ \A i \in DOMAIN undo' : undo'[i].old # t

\* A cell that is written to is that of x, and is journaled.
Owned(x, c) ==
  c # NoCell =>
    x \in Var /\ c = scope[x] /\ (run.transactional => Marks(undo', CellKey(c)) # {})

\* A binding that changes is that of x, to a new cell, and is journaled.
Rebound(x) ==
  \/ scope' = scope
  \/ /\ x \in Var /\ scope' = [scope EXCEPT ![x] = scope'[x]]
     /\ scope'[x] \notin DOMAIN heap.obj
     /\ run.transactional => Marks(undo', BindingKey(x)) # {}

Touches(x, c, t) ==
  /\ Rest(c, t) /\ Lone(c, t) /\ Owned(x, c) /\ Rebound(x) /\ Noted
  /\ Plain(heap') /\ acc' \in ValuesOf(heap') \union {Nothing}
  /\ run.at = "on" /\ run'.at = "on"
  /\ run'.transactional = run.transactional /\ before' = before

\* What a cell has.
LEMMA CellHas ==
  ASSUME NEW h, Good(h), NEW c, IsCell(h, c)
  PROVE  1 \in DOMAIN h.obj[c].items /\ h.obj[c].items[1] \in {Scalar} \union DOMAIN h.obj
         /\ c # NoCell
<1>1. h.obj[c].items \in Seq(Nat) /\ Len(h.obj[c].items) = 1
  BY DEF Good, Object, Formed, IsCell
<1>2. 1 \in DOMAIN h.obj[c].items
  BY <1>1
<1> QED BY <1>2, GoodIs DEF Good, Holds, IsCell, NoCell

\* The cell that was bound to a variable is one.
LEMMA OldCellIs ==
  ASSUME NEW h, NEW s, NEW v, NEW f, NEW u, Sound(h, s, v, f, u), NEW x \in Var
  PROVE  OldCell(u, s, x) # NoCell => IsCell(h, OldCell(u, s, x))
<1>1. CASE Marks(u, BindingKey(x)) = {}
  BY <1>1 DEF OldCell, Sound, ScopeIn
<1>2. CASE Marks(u, BindingKey(x)) # {}
  <2>1. u \in Seq(EntrySet) /\ \A i \in 1 .. Len(u) : u[i].cell # NoCell => IsCell(h, u[i].cell)
    BY DEF Sound, UndoIn
  <2>2. PICK i \in DOMAIN u : Mark(u, BindingKey(x)) = u[i]
    BY <1>2, <2>1, MarkIs
  <2>3. OldCell(u, s, x) = u[i].cell /\ i \in 1 .. Len(u)
    BY <1>2, <2>1, <2>2 DEF OldCell
  <2> QED BY <2>1, <2>3
<1> QED BY <1>1, <1>2

\* What the two invariants say of a state and the next.
LEMMA PairIs ==
  ASSUME HeapInv, SeparateInv, HeapInv'
  PROVE  /\ Good(heap) /\ Good(heap')
         /\ Sound(heap, scope, acc, frames, undo)
         /\ Sound(heap', scope', acc', frames', undo')
         /\ undo \in Seq(EntrySet) /\ undo' \in Seq(EntrySet)
         /\ \A y \in Var : /\ scope[y] # NoCell => IsCell(heap, scope[y])
                           /\ scope'[y] # NoCell => IsCell(heap', scope'[y])
         /\ scope \in [Var -> Nat] /\ scope' \in [Var -> Nat]
         /\ NoCell \notin DOMAIN heap.obj /\ NoCell \notin DOMAIN heap'.obj
         /\ Scalar \notin DOMAIN heap.obj /\ Scalar \notin DOMAIN heap'.obj
<1>1. Sound(heap, scope, acc, frames, undo) /\ Sound(heap', scope', acc', frames', undo')
  BY DEF HeapInv
<1>2. Good(heap) /\ Good(heap')
  BY <1>1 DEF Sound
<1>3. undo \in Seq(EntrySet) /\ undo' \in Seq(EntrySet)
  BY <1>1 DEF Sound, UndoIn
<1> QED BY <1>1, <1>2, <1>3, GoodIs DEF Sound, ScopeIn, NoCell, Scalar

\* Every other value keeps its content.
LEMMA ContentKept ==
  ASSUME HeapInv, SeparateInv, HeapInv', NEW x, NEW c, NEW t, Touches(x, c, t),
         NEW v \in ValuesOf(heap), v \in {Scalar} \union DOMAIN heap'.obj,
         t \in DOMAIN heap.obj => v # t
  PROVE  Content(heap', v) = Content(heap, v)
<1> DEFINE A == {a \in DOMAIN heap.obj \intersect DOMAIN heap'.obj :
                   heap.obj[a].kind # "cell" /\ a # t}
<1>1. ASSUME NEW a \in A
      PROVE  /\ heap'.obj[a].kind = heap.obj[a].kind /\ heap'.obj[a].items = heap.obj[a].items
             /\ \A i \in DOMAIN heap.obj[a].items : heap.obj[a].items[i] \in {Scalar} \union A
  <2>1. a # c
    BY PairIs DEF Touches, Owned, IsCell
  <2>2. heap'.obj[a].kind = heap.obj[a].kind /\ heap'.obj[a].items = heap.obj[a].items
    BY <2>1 DEF Touches, Rest
  <2>3. ASSUME NEW i \in DOMAIN heap.obj[a].items
        PROVE  heap.obj[a].items[i] \in {Scalar} \union A
    <3>1. heap.obj[a].items[i] \in ValuesOf(heap)
      BY DEF SeparateInv, Plain
    <3>2. heap.obj[a].items[i] \in {Scalar} \union DOMAIN heap'.obj
      BY <2>2, PairIs DEF Good, Holds
    <3>3. t \in DOMAIN heap.obj => heap.obj[a].items[i] # t
      BY <2>1 DEF Touches, Lone
    <3> QED BY <3>1, <3>2, <3>3 DEF ValuesOf
  <2> QED BY <2>2, <2>3
<1>2. v \in {Scalar} \union A
  BY DEF ValuesOf
<1>3. A \subseteq DOMAIN heap.obj /\ A \subseteq DOMAIN heap'.obj
  OBVIOUS
<1> HIDE DEF A
<1>4. \A a \in A :
        /\ heap'.obj[a].kind = heap.obj[a].kind /\ heap'.obj[a].items = heap.obj[a].items
        /\ \A i \in DOMAIN heap.obj[a].items : heap.obj[a].items[i] \in {Scalar} \union A
  BY <1>1
<1>5. \A w \in {Scalar} \union A : Content(heap', w) = Content(heap, w)
  BY ONLY <1>3, <1>4, ContentSame, Zenon
<1> QED BY <1>2, <1>5

\* An entry that is there stays the oldest of its key.
LEMMA MarkKept ==
  ASSUME undo \in Seq(EntrySet), Noted, NEW key, Marks(undo, key) # {}
  PROVE  Marks(undo', key) = Marks(undo, key) /\ Mark(undo', key) = Mark(undo, key)
<1>1. CASE undo' = undo
  BY <1>1
<1>2. ASSUME NEW e, Notes(e)
      PROVE  Marks(undo', key) = Marks(undo, key) /\ Mark(undo', key) = Mark(undo, key)
  <2>1. undo' = Append(undo, e) /\ Marks(undo, e.key) = {}
    BY <1>2 DEF Notes
  <2>2. Marks(undo', key) = Marks(undo, key)
    BY <2>1, MarksMore
  <2>3. Min(Marks(undo, key)) \in DOMAIN undo
    <3>1. Marks(undo, key) \in SUBSET Nat
      BY DEF Marks
    <3>2. Min(Marks(undo, key)) \in Marks(undo, key)
      BY <3>1, LeastOf DEF Min
    <3> QED BY <3>2 DEF Marks
  <2>4. PICK i \in DOMAIN undo : i = Min(Marks(undo, key))
    BY <2>3
  <2>5. undo'[i] = undo[i]
    BY <2>1, MarksMore
  <2> QED BY <2>2, <2>4, <2>5 DEF Mark
<1> QED BY <1>1, <1>2 DEF Noted

\* The bindings that a rollback restores are the same after the step.
LEMMA OldCellKept ==
  ASSUME HeapInv, SeparateInv, HeapInv', NEW x, NEW c, NEW t, Touches(x, c, t),
         run.transactional, NEW y \in Var
  PROVE  OldCell(undo', scope', y) = OldCell(undo, scope, y)
<1>1. CASE Marks(undo, BindingKey(y)) # {}
  <2>1. Marks(undo', BindingKey(y)) = Marks(undo, BindingKey(y))
        /\ Mark(undo', BindingKey(y)) = Mark(undo, BindingKey(y))
    BY <1>1, PairIs, MarkKept DEF Touches
  <2> QED BY <1>1, <2>1 DEF OldCell
<1>2. CASE Marks(undo, BindingKey(y)) = {} /\ Marks(undo', BindingKey(y)) # {}
  <2>1. PICK e : Notes(e)
    BY <1>2 DEF Touches, Noted
  <2>2. undo' = Append(undo, e) /\ Marks(undo, e.key) = {}
    BY <2>1 DEF Notes
  <2>3. e.key = BindingKey(y)
    BY <1>2, <2>2, PairIs, MarksMore
  <2>4. Mark(undo', BindingKey(y)) = e
    <3>1. undo \in Seq(EntrySet)
      BY PairIs
    <3>2. Mark(Append(undo, e), e.key) = e
      BY ONLY <2>2, <3>1, MarksMore
    <3> QED BY <2>2, <2>3, <3>2
  <2>5. e.cell = scope[y]
    BY <2>1, <2>3 DEF Notes
  <2> QED BY <1>2, <2>4, <2>5 DEF OldCell
<1>3. CASE Marks(undo, BindingKey(y)) = {} /\ Marks(undo', BindingKey(y)) = {}
  <2>1. scope'[y] = scope[y]
    BY <1>3, PairIs DEF Touches, Rebound
  <2> QED BY <1>3, <2>1 DEF OldCell
<1> QED BY <1>1, <1>2, <1>3

\* The value that a rollback restores is the same after the step, and is not the
\* backing that was written to.
LEMMA OldItemKept ==
  ASSUME HeapInv, SeparateInv, HeapInv', NEW x, NEW c, NEW t, Touches(x, c, t),
         run.transactional, NEW d, IsCell(heap, d), IsCell(heap', d)
  PROVE  /\ OldItem(heap', undo', d) = OldItem(heap, undo, d)
         /\ OldItem(heap, undo, d) \in ValuesOf(heap)
         /\ OldItem(heap, undo, d) \in {Scalar} \union DOMAIN heap'.obj
         /\ t \in DOMAIN heap.obj => OldItem(heap, undo, d) # t
<1>0. /\ \A i \in DOMAIN undo' : undo'[i].old \in {Scalar} \union DOMAIN heap'.obj
      /\ undo \in Seq(EntrySet) /\ undo' \in Seq(EntrySet)
  BY PairIs DEF Sound, UndoIn
<1>1. CASE Marks(undo, CellKey(d)) # {}
  <2>1. PICK m : m = Mark(undo, CellKey(d)) /\ \E i \in DOMAIN undo : m = undo[i]
    BY <1>0, <1>1, MarkIs
  <2>2. Mark(undo', CellKey(d)) = m /\ Marks(undo', CellKey(d)) # {}
    BY <1>0, <1>1, <2>1, MarkKept DEF Touches
  <2>3. PICK i \in DOMAIN undo' : m = undo'[i]
    BY <1>0, <2>2, MarkIs
  <2>4. OldItem(heap, undo, d) = m.old /\ OldItem(heap', undo', d) = m.old
    BY <1>1, <2>1, <2>2 DEF OldItem
  <2>5. m.old \in ValuesOf(heap)
    BY <2>1 DEF SeparateInv
  <2>6. m.old \in {Scalar} \union DOMAIN heap'.obj
    BY <1>0, <2>3
  <2>7. t \in DOMAIN heap.obj => m.old # t
    BY <2>3 DEF Touches, Lone
  <2> QED BY <2>4, <2>5, <2>6, <2>7
<1>2. CASE Marks(undo, CellKey(d)) = {} /\ Marks(undo', CellKey(d)) # {}
  <2>1. PICK e : Notes(e)
    BY <1>2 DEF Touches, Noted
  <2>2. undo' = Append(undo, e) /\ Marks(undo, e.key) = {}
    BY <2>1 DEF Notes
  <2>3. e.key = CellKey(d)
    BY <1>0, <1>2, <2>2, MarksMore
  <2>4. Mark(undo', CellKey(d)) = e
    <3>1. Mark(Append(undo, e), e.key) = e
      BY ONLY <1>0, <2>2, MarksMore
    <3> QED BY <2>2, <2>3, <3>1
  <2>5. PICK i \in DOMAIN undo' : e = undo'[i]
    BY <1>0, <1>2, <2>4, MarkIs
  <2>6. e.old = heap.obj[d].items[1] /\ e.old \in ValuesOf(heap)
    BY <2>1, <2>3 DEF Notes
  <2>7. OldItem(heap, undo, d) = e.old /\ OldItem(heap', undo', d) = e.old
    BY <1>2, <2>4, <2>6 DEF OldItem
  <2>8. e.old \in {Scalar} \union DOMAIN heap'.obj
    BY <1>0, <2>5
  <2>9. t \in DOMAIN heap.obj => e.old # t
    BY <2>5 DEF Touches, Lone
  <2> QED BY <2>6, <2>7, <2>8, <2>9
<1>3. CASE Marks(undo, CellKey(d)) = {} /\ Marks(undo', CellKey(d)) = {}
  <2>1. d # c
    BY <1>3, PairIs DEF Touches, Owned, IsCell
  <2>2. d # t
    BY DEF Touches, Lone, IsCell
  <2>3. heap'.obj[d].items = heap.obj[d].items
    BY <2>1, <2>2 DEF Touches, Rest, IsCell
  <2>4. PICK v : v = heap.obj[d].items[1]
    OBVIOUS
  <2>5. OldItem(heap, undo, d) = v /\ OldItem(heap', undo', d) = v
    BY <1>3, <2>3, <2>4 DEF OldItem
  <2>6. 1 \in DOMAIN heap.obj[d].items
    BY PairIs, CellHas
  <2>7. v \in ValuesOf(heap)
    BY <2>4, <2>6 DEF SeparateInv, Plain, IsCell
  <2>8. v \in {Scalar} \union DOMAIN heap'.obj
    BY <2>3, <2>4, PairIs, CellHas
  <2>9. t \in DOMAIN heap.obj => v # t
    BY <2>1, <2>4, <2>6 DEF Touches, Lone, IsCell
  <2> QED BY <2>5, <2>7, <2>8, <2>9
<1> QED BY <1>1, <1>2, <1>3

\* What a rollback restores is the same after the step.
LEMMA OldContentsKept ==
  ASSUME HeapInv, SeparateInv, HeapInv', NEW x, NEW c, NEW t, Touches(x, c, t),
         run.transactional
  PROVE  OldContents(heap', scope', undo') = OldContents(heap, scope, undo)
<1>1. \A y \in Var : OldCell(undo', scope', y) = OldCell(undo, scope, y)
  BY OldCellKept
<1>2. ASSUME NEW y \in Var, OldCell(undo, scope, y) # NoCell
      PROVE  Content(heap', OldItem(heap', undo', OldCell(undo', scope', y)))
               = Content(heap, OldItem(heap, undo, OldCell(undo, scope, y)))
  <2>1. PICK d : d = OldCell(undo, scope, y)
    OBVIOUS
  <2>2. IsCell(heap, d)
    BY <1>2, <2>1, PairIs, OldCellIs
  <2>3. IsCell(heap', d)
    <3>1. d = OldCell(undo', scope', y) /\ d # NoCell
      BY <1>1, <1>2, <2>1
    <3>2. Sound(heap', scope', acc', frames', undo')
      BY PairIs
    <3> QED BY ONLY <3>1, <3>2, y \in Var, OldCellIs
  <2>4. PICK v : v = OldItem(heap, undo, d)
    OBVIOUS
  <2>5. /\ OldItem(heap', undo', d) = v /\ v \in ValuesOf(heap)
        /\ v \in {Scalar} \union DOMAIN heap'.obj
        /\ t \in DOMAIN heap.obj => v # t
    BY <2>2, <2>3, <2>4, OldItemKept
  <2>6. Content(heap', v) = Content(heap, v)
    BY <2>5, ContentKept
  <2> QED BY <1>1, <2>1, <2>4, <2>5, <2>6
<1> QED BY <1>1, <1>2 DEF OldContents

\* The journal is empty in a run that is no transaction.
LEMMA PlainRun ==
  ASSUME SeparateInv, NEW x, NEW c, NEW t, Touches(x, c, t), ~run.transactional
  PROVE  undo = <<>> /\ undo' = <<>>
BY DEF SeparateInv, Touches, Noted, Notes

\* Values stay values.
LEMMA ValueKept ==
  ASSUME NEW c, NEW t, Rest(c, t), NEW v \in ValuesOf(heap),
         v \in {Scalar} \union DOMAIN heap'.obj
  PROVE  v \in ValuesOf(heap')
BY DEF Rest, ValuesOf

\* The invariant is kept by every step of a run.
LEMMA SeparateKept ==
  ASSUME HeapInv, SeparateInv, HeapInv', NEW x, NEW c, NEW t, Touches(x, c, t)
  PROVE  SeparateInv'
<1>0. undo \in Seq(EntrySet) /\ undo' \in Seq(EntrySet)
  BY PairIs
<1>1. Plain(heap') /\ acc' \in ValuesOf(heap') \union {Nothing}
  BY DEF Touches
<1>2. ASSUME NEW i \in DOMAIN undo' PROVE undo'[i].old \in ValuesOf(heap')
  <2>1. undo'[i].old \in {Scalar} \union DOMAIN heap'.obj
    BY PairIs DEF Sound, UndoIn
  <2>2. undo'[i].old \in ValuesOf(heap)
    <3>1. CASE undo' = undo
      BY <3>1 DEF SeparateInv
    <3>2. ASSUME NEW e, Notes(e) PROVE undo'[i].old \in ValuesOf(heap)
      <4>1. undo' = Append(undo, e) /\ Marks(undo, e.key) = {} /\ e.old \in ValuesOf(heap)
        BY <3>2 DEF Notes
      <4>2. /\ \A j \in DOMAIN undo : undo'[j] = undo[j]
            /\ i \in DOMAIN undo \/ undo'[i] = e
        BY <1>0, <4>1, MarksMore
      <4> QED BY <4>1, <4>2 DEF SeparateInv
    <3> QED BY <3>1, <3>2 DEF Touches, Noted
  <2>3. Rest(c, t)
    BY DEF Touches
  <2> QED BY <2>1, <2>2, <2>3, ValueKept
<1>3. OneEach(scope')
  <2>1. OneEach(scope) /\ Rebound(x) /\ scope \in [Var -> Nat]
        /\ \A y \in Var : scope[y] # NoCell => scope[y] \in DOMAIN heap.obj
    BY PairIs DEF SeparateInv, Touches, IsCell
  <2> QED BY <2>1 DEF OneEach, Rebound
<1>4. OneEach([y \in Var |-> OldCell(undo', scope', y)])
  <2>1. CASE run.transactional
    <3>1. [y \in Var |-> OldCell(undo', scope', y)] = [y \in Var |-> OldCell(undo, scope, y)]
      BY <2>1, OldCellKept
    <3> QED BY <3>1 DEF SeparateInv
  <2>2. CASE ~run.transactional
    <3>1. undo' = <<>>
      BY <2>2, PlainRun
    <3>2. \A y \in Var : OldCell(undo', scope', y) = scope'[y]
      BY <3>1 DEF OldCell, Marks
    <3> QED BY <1>3, <3>2 DEF OneEach
  <2> QED BY <2>1, <2>2
<1>5. undo' # <<>> => run'.transactional
  BY PlainRun DEF Touches
<1>6. run'.at = "on" /\ run'.transactional => OldContents(heap', scope', undo') = before'
  BY OldContentsKept DEF Touches, SeparateInv
<1> QED BY <1>1, <1>2, <1>3, <1>4, <1>5, <1>6 DEF SeparateInv

\* A step of a run changes what one variable holds, at most.
LEMMA ChangesOne ==
  ASSUME HeapInv, SeparateInv, HeapInv', NEW x, NEW c, NEW t, Touches(x, c, t),
         NEW y \in Var, y # x, scope'[y] # NoCell
  PROVE  /\ scope[y] = scope'[y]
         /\ Content(heap', heap'.obj[scope'[y]].items[1]) = Content(heap, heap.obj[scope[y]].items[1])
<1>1. scope'[y] = scope[y]
  BY PairIs DEF Touches, Rebound
<1>2. PICK d : d = scope[y]
  OBVIOUS
<1>3. IsCell(heap, d) /\ IsCell(heap', d) /\ d # NoCell
  BY <1>1, <1>2, PairIs
<1>4. d # c
  BY <1>2, <1>3 DEF Touches, Owned, SeparateInv, OneEach
<1>5. d # t
  BY <1>3 DEF Touches, Lone, IsCell
<1>6. heap'.obj[d].items = heap.obj[d].items
  BY <1>3, <1>4, <1>5 DEF Touches, Rest, IsCell
<1>7. PICK v : v = heap.obj[d].items[1]
  OBVIOUS
<1>8. 1 \in DOMAIN heap.obj[d].items
  BY <1>3, PairIs, CellHas
<1>9. v \in ValuesOf(heap)
  BY <1>3, <1>7, <1>8 DEF SeparateInv, Plain, IsCell
<1>10. v \in {Scalar} \union DOMAIN heap'.obj
  BY <1>3, <1>6, <1>7, PairIs, CellHas
<1>11. t \in DOMAIN heap.obj => v # t
  BY <1>3, <1>4, <1>7, <1>8 DEF Touches, Lone, IsCell
<1>12. Content(heap', v) = Content(heap, v)
  BY <1>9, <1>10, <1>11, ContentKept
<1> QED BY <1>1, <1>2, <1>6, <1>7, <1>12

-----------------------------------------------------------------------------
(* Steps of a run *)

\* Heap h has what the heap had, but for cell c and backing t.
Kept(h, c, t) ==
  /\ Good(h) /\ Plain(h)
  /\ \A a \in DOMAIN heap.obj :
       /\ a \in DOMAIN h.obj /\ h.obj[a].kind = heap.obj[a].kind
       /\ a \notin {c, t} => h.obj[a].items = heap.obj[a].items

\* The heap itself is kept.
LEMMA KeptAsIs ==
  ASSUME HeapInv, SeparateInv
  PROVE  /\ Kept(heap, NoCell, NoCell) /\ Good(heap) /\ NoCell \notin DOMAIN heap.obj
         /\ undo \in Seq(EntrySet) /\ frames \in Seq(FrameSet) /\ scope \in [Var -> Nat]
BY StateIs, GoodIs DEF SeparateInv, Kept, NoCell, Sound, ScopeIn

\* Charges and releases keep all objects.
LEMMA KeptPaid ==
  ASSUME NEW h, NEW c, NEW t, Kept(h, c, t), NEW g, Good(g), g.obj = h.obj
  PROVE  Kept(g, c, t) /\ ValuesOf(g) = ValuesOf(h)
BY DEF Kept, Plain, ValuesOf

\* A new object keeps the others.
LEMMA KeptMade ==
  ASSUME NEW h, NEW c, NEW t, Kept(h, c, t), NEW n \in Nat \ {0}, HasFresh(h, n),
         NEW kind, NEW items, Formed(kind, items), \A i \in DOMAIN items : items[i] \in ValuesOf(h),
         NEW g, g = Made(h, kind, items), NEW a, a = Fresh(h)
  PROVE  /\ Kept(g, c, t) /\ ValuesOf(h) \subseteq ValuesOf(g)
         /\ a \in DOMAIN g.obj /\ g.obj[a].kind = kind
         /\ a \notin DOMAIN h.obj /\ a \notin DOMAIN heap.obj
         /\ \A b \in DOMAIN h.obj : b \in DOMAIN g.obj
         /\ Holds(h, items)
<1>1. Holds(h, items)
  BY DEF Holds, ValuesOf
<1>2. Good(h)
  BY DEF Kept
<1>3. /\ Good(g) /\ DOMAIN g.obj = DOMAIN h.obj \union {a}
      /\ \A b \in DOMAIN h.obj : g.obj[b] = h.obj[b]
      /\ g.obj[a].kind = kind /\ g.obj[a].items = items
  BY <1>1, <1>2, MadeIs
<1>4. a \notin DOMAIN h.obj
  BY <1>2, FreshIs
<1>5. ValuesOf(h) \subseteq ValuesOf(g)
  BY <1>3 DEF ValuesOf
<1>6. Plain(g)
  <2>1. \A b \in DOMAIN h.obj : \A i \in DOMAIN h.obj[b].items : h.obj[b].items[i] \in ValuesOf(g)
    BY <1>5 DEF Kept, Plain
  <2> QED BY <1>3, <1>5, <2>1 DEF Plain
<1> QED BY <1>1, <1>3, <1>4, <1>5, <1>6 DEF Kept

\* What Settle leaves of a heap.
LEMMA SettleLeaves ==
  ASSUME NEW h, Good(h), Settle(h), Handles' \subseteq DOMAIN h.obj
  PROVE  /\ Good(heap') /\ DOMAIN heap'.obj \subseteq DOMAIN h.obj
         /\ Handles' \subseteq DOMAIN heap'.obj
         /\ \A a \in DOMAIN heap'.obj : heap'.obj[a] = h.obj[a]
<1>1. PICK roots : roots = Handles' /\ roots \in SUBSET DOMAIN h.obj
  OBVIOUS
<1>2. heap' = Dropped(h, roots)
  BY <1>1 DEF Settle
<1> QED BY <1>1, <1>2, DroppedIs

\* What the entries hold after the step.
LEMMA NotedHolds ==
  ASSUME HeapInv, SeparateInv, Noted
  PROVE  \A i \in DOMAIN undo' : /\ undo'[i].cell \in {NoCell} \union DOMAIN heap.obj
                                 /\ undo'[i].old \in {Scalar} \union DOMAIN heap.obj
<1>1. \A i \in DOMAIN undo : /\ undo[i].cell \in {NoCell} \union DOMAIN heap.obj
                             /\ undo[i].old \in {Scalar} \union DOMAIN heap.obj
  BY UndoIs DEF IsCell
<1>2. CASE undo' = undo
  BY <1>1, <1>2
<1>3. ASSUME NEW e, Notes(e), NEW i \in DOMAIN undo'
      PROVE  /\ undo'[i].cell \in {NoCell} \union DOMAIN heap.obj
             /\ undo'[i].old \in {Scalar} \union DOMAIN heap.obj
  <2>1. undo' = Append(undo, e) /\ Marks(undo, e.key) = {} /\ undo \in Seq(EntrySet)
        /\ e.cell \in {NoCell} \union DOMAIN heap.obj /\ e.old \in {Scalar} \union DOMAIN heap.obj
    BY <1>3, KeptAsIs DEF Notes, ValuesOf
  <2>2. (\A j \in DOMAIN undo : undo'[j] = undo[j]) /\ (i \in DOMAIN undo \/ undo'[i] = e)
    BY <2>1, MarksMore
  <2> QED BY <1>1, <2>1, <2>2
<1> QED BY <1>2, <1>3 DEF Noted

\* The end of a step that left heap h.
LEMMA StepTouches ==
  ASSUME HeapInv, SeparateInv, NEW h, NEW x, NEW c, NEW t, Kept(h, c, t), Settle(h),
         Lone(c, t), Owned(x, c), Rebound(x), Noted,
         \A y \in Var : scope'[y] \in {NoCell} \union DOMAIN h.obj,
         acc' \in ValuesOf(h) \union {Nothing},
         \A i \in DOMAIN frames' : frames'[i].local \in {NoCell} \union DOMAIN h.obj,
         run.at = "on", run'.at = "on", run'.transactional = run.transactional, before' = before
  PROVE  Touches(x, c, t)
<1>1. DOMAIN heap.obj \subseteq DOMAIN h.obj /\ Good(h) /\ Plain(h)
  BY DEF Kept
<1>2. Handles' \subseteq DOMAIN h.obj
  <2>1. \A i \in DOMAIN undo' : /\ undo'[i].cell \in {NoCell} \union DOMAIN heap.obj
                                /\ undo'[i].old \in {Scalar} \union DOMAIN heap.obj
    BY NotedHolds
  <2>2. acc' \in DOMAIN h.obj \union {Scalar, Nothing}
    BY DEF ValuesOf
  <2> QED BY <1>1, <2>1, <2>2 DEF Handles, NoCell, Scalar
<1>3. /\ Good(heap') /\ DOMAIN heap'.obj \subseteq DOMAIN h.obj
      /\ Handles' \subseteq DOMAIN heap'.obj
      /\ \A a \in DOMAIN heap'.obj : heap'.obj[a] = h.obj[a]
  BY <1>1, <1>2, SettleLeaves
<1>4. Rest(c, t)
  BY <1>3 DEF Kept, Rest
<1>5. \A v \in ValuesOf(h) : v \in {Scalar} \union DOMAIN heap'.obj => v \in ValuesOf(heap')
  BY <1>3 DEF ValuesOf
<1>6. Plain(heap')
  <2>1. ASSUME NEW a \in DOMAIN heap'.obj, NEW i \in DOMAIN heap'.obj[a].items
        PROVE  heap'.obj[a].items[i] \in ValuesOf(heap')
    <3>1. heap'.obj[a].items[i] \in ValuesOf(h)
      BY <1>1, <1>3 DEF Plain
    <3>2. heap'.obj[a].items[i] \in {Scalar} \union DOMAIN heap'.obj
      BY <1>3 DEF Good, Holds
    <3> QED BY <1>5, <3>1, <3>2
  <2> QED BY <2>1 DEF Plain
<1>7. acc' \in ValuesOf(heap') \union {Nothing}
  <2>1. acc' \in {Scalar, Nothing} \union DOMAIN heap'.obj
    BY <1>3 DEF Handles
  <2> QED BY <1>5, <2>1 DEF ValuesOf
<1> QED BY <1>4, <1>6, <1>7 DEF Touches

\* A step that writes to no cell and to no backing, and binds nothing.
LEMMA StepQuiet ==
  ASSUME HeapInv, SeparateInv, NEW h, Kept(h, NoCell, NoCell), Settle(h), Noted,
         scope' = scope, acc' \in ValuesOf(h) \union {Nothing},
         \A i \in DOMAIN frames' : frames'[i].local \in {NoCell} \union DOMAIN h.obj,
         run.at = "on", run'.at = "on", run'.transactional = run.transactional, before' = before
  PROVE  \E x, c, t : Touches(x, c, t)
<1>1. Lone(NoCell, NoCell)
  BY KeptAsIs DEF Lone
<1>2. Owned(NoCell, NoCell) /\ Rebound(NoCell)
  BY DEF Owned, Rebound
<1>3. \A y \in Var : scope'[y] \in {NoCell} \union DOMAIN h.obj
  BY StateIs DEF Sound, ScopeIn, IsCell, Kept
<1>4. Touches(NoCell, NoCell, NoCell)
  BY <1>1, <1>2, <1>3, StepTouches
<1> QED BY <1>4

\* The frames that are there have cells that are kept.
LEMMA LocalsKept ==
  ASSUME HeapInv, NEW h, NEW c, NEW t, Kept(h, c, t), NEW i \in DOMAIN frames
  PROVE  frames[i].local \in {NoCell} \union DOMAIN h.obj
<1>1. frames \in Seq(FrameSet)
      /\ \A j \in 1 .. Len(frames) : frames[j].local # NoCell => frames[j].local \in DOMAIN heap.obj
  BY StateIs DEF Sound, FramesIn
<1>2. i \in 1 .. Len(frames)
  BY <1>1
<1> QED BY <1>1, <1>2 DEF Kept

\* A refusal, with h the heap it leaves.
LEMMA RefuseTouches ==
  ASSUME HeapInv, SeparateInv, run.at = "on", NEW h, Kept(h, NoCell, NoCell),
         NEW e, Refuse(h, e), Noted
  PROVE  \E x, c, t : Touches(x, c, t)
<1>1. /\ acc' = Nothing /\ scope' = scope /\ frames' = frames /\ before' = before
      /\ Settle(h) /\ run' = [run EXCEPT !.error = e]
  BY DEF Refuse
<1>2. run \in RunSet
  BY StateIs
<1>3. run'.at = "on" /\ run'.transactional = run.transactional
  BY <1>1, <1>2 DEF RunSet
<1>4. \A i \in DOMAIN frames' : frames'[i].local \in {NoCell} \union DOMAIN h.obj
  BY <1>1, LocalsKept
<1> QED BY <1>1, <1>3, <1>4, StepQuiet

-----------------------------------------------------------------------------
(* One action at a time *)

\* What an expression reads is a value.
LEMMA KnownValues ==
  ASSUME HeapInv, SeparateInv
  PROVE  /\ Known \subseteq ValuesOf(heap)
         /\ \A x \in Bound : ValueOf(x) \in ValuesOf(heap)
<1>1. \A x \in Bound : ValueOf(x) \in ValuesOf(heap)
  <2>1. ASSUME NEW x \in Bound PROVE ValueOf(x) \in ValuesOf(heap)
    <3>1. IsCell(heap, scope[x]) /\ Good(heap)
      BY KnownIn, KeptAsIs
    <3>2. 1 \in DOMAIN heap.obj[scope[x]].items
      BY <3>1, CellHas
    <3> QED BY <3>1, <3>2 DEF SeparateInv, Plain, ValueOf, IsCell
  <2> QED BY <2>1
<1> QED BY <1>1 DEF Known, ValuesOf

\* A name or a number.
LEMMA EvaluateTouches ==
  ASSUME HeapInv, SeparateInv, NEW v, Evaluate(v)
  PROVE  \E x, c, t : Touches(x, c, t)
<1>1. /\ heap' = heap /\ scope' = scope /\ undo' = undo /\ run' = run /\ before' = before
      /\ acc' = v /\ v \in Known /\ run.at = "on"
  BY DEF Evaluate, Running
<1>2. Lone(NoCell, NoCell) /\ Owned(NoCell, NoCell) /\ Rest(NoCell, NoCell)
  BY <1>1, KeptAsIs DEF Lone, Owned, Rest
<1>3. Touches(NoCell, NoCell, NoCell)
  BY <1>1, <1>2, KnownValues DEF Touches, SeparateInv, Rebound, Noted
<1> QED BY <1>3

\* A literal.
LEMMA LiteralTouches ==
  ASSUME HeapInv, SeparateInv, NEW kind, NEW items, kind # "cell", Formed(kind, items), Literal(kind, items)
  PROVE  \E x, c, t : Touches(x, c, t)
<1>1. run.at = "on" /\ HasFresh(heap, 1) /\ 1 \in Nat \ {0}
  BY DEF Literal, Running
<1>2. CASE UNCHANGED undo /\ (Refuse(heap, "depth") \/ Refuse(heap, "heap"))
  BY <1>1, <1>2, KeptAsIs, RefuseTouches DEF Noted
<1>3. CASE /\ acc' = Fresh(heap)
           /\ UNCHANGED <<scope, frames, undo, run, before, foreign>>
           /\ Settle(Made(heap, kind, items))
           /\ kind # "cell"
  <2>1. \A i \in DOMAIN items : items[i] \in ValuesOf(heap)
    BY KnownValues DEF Literal, Range
  <2>2. PICK h : h = Made(heap, kind, items)
    OBVIOUS
  <2>3. PICK a : a = Fresh(heap)
    OBVIOUS
  <2>4. Kept(h, NoCell, NoCell) /\ a \in DOMAIN h.obj /\ h.obj[a].kind = kind
    BY <1>1, <2>1, <2>2, <2>3, KeptAsIs, KeptMade
  <2>5. acc' \in ValuesOf(h) \union {Nothing}
    BY <1>3, <2>3, <2>4 DEF ValuesOf
  <2>6. \A i \in DOMAIN frames' : frames'[i].local \in {NoCell} \union DOMAIN h.obj
    BY <1>3, <2>4, LocalsKept
  <2>7. Settle(h) /\ Noted
    BY <1>3, <2>2 DEF Noted
  <2> QED BY <1>1, <1>3, <2>4, <2>5, <2>6, <2>7, StepQuiet
<1> QED BY <1>2, <1>3 DEF Literal

\* What a builtin made.
LEMMA ResultTouches ==
  ASSUME HeapInv, SeparateInv, Result
  PROVE  \E x, c, t : Touches(x, c, t)
<1>0. run.at = "on" /\ HasFresh(heap, 2) /\ 1 \in Nat \ {0} /\ 2 \in Nat \ {0}
  BY DEF Result, Running
<1>1. PICK a : a = Fresh(heap)
  OBVIOUS
<1>2. PICK inner : inner = Made(heap, "list", <<>>)
  OBVIOUS
<1>3. PICK last : last = Made(inner, "list", <<a, Scalar>>)
  OBVIOUS
<1>4. Formed("list", <<>>) /\ Holds(heap, <<>>) /\ \A i \in DOMAIN <<>> : <<>>[i] \in ValuesOf(heap)
  BY DEF Formed, Holds
<1>5. Kept(inner, NoCell, NoCell) /\ a \in DOMAIN inner.obj /\ inner.obj[a].kind = "list"
  BY <1>0, <1>1, <1>2, <1>4, KeptAsIs, KeptMade
<1>6. HasFresh(inner, 1)
  BY <1>0, <1>2, <1>4, KeptAsIs, FreshLeft
<1>7. a \in Nat
  BY <1>5, GoodIs DEF Kept
<1>8. PICK outer : outer = <<a, Scalar>>
  OBVIOUS
<1>9. Formed("list", outer) /\ \A i \in DOMAIN outer : outer[i] \in ValuesOf(inner)
  <2>1. outer \in Seq(Nat) /\ DOMAIN outer = {1, 2} /\ outer[1] = a /\ outer[2] = Scalar
    BY <1>7, <1>8 DEF Scalar
  <2> QED BY <1>5, <2>1 DEF Formed, ValuesOf
<1>10. PICK b : b = Fresh(inner)
  OBVIOUS
<1>11. Kept(last, NoCell, NoCell) /\ b \in DOMAIN last.obj /\ last.obj[b].kind = "list"
  BY <1>0, <1>3, <1>5, <1>6, <1>8, <1>9, <1>10, KeptMade
<1>12. CASE UNCHANGED undo /\ (Refuse(heap, "heap") \/ Refuse(inner, "heap"))
  BY <1>0, <1>5, <1>12, KeptAsIs, RefuseTouches DEF Noted
<1>13. CASE /\ acc' = b
            /\ UNCHANGED <<scope, frames, undo, run, before, foreign>>
            /\ Settle(last)
  <2>1. acc' \in ValuesOf(last) \union {Nothing}
    BY <1>11, <1>13 DEF ValuesOf
  <2>2. \A i \in DOMAIN frames' : frames'[i].local \in {NoCell} \union DOMAIN last.obj
    BY <1>11, <1>13, LocalsKept
  <2>3. Noted
    BY <1>13 DEF Noted
  <2> QED BY <1>0, <1>11, <1>13, <2>1, <2>2, <2>3, StepQuiet
<1> QED BY <1>1, <1>2, <1>3, <1>10, <1>12, <1>13 DEF Result

\* Env::set
LEMMA LetTouches ==
  ASSUME HeapInv, SeparateInv, NEW x \in Var, Let(x)
  PROVE  \E z, c, t : Touches(z, c, t)
<1>0. run.at = "on" /\ HasFresh(heap, 1) /\ 1 \in Nat \ {0} /\ acc # Nothing
  BY DEF Let, Running
<1>1. PICK a : a = Fresh(heap)
  OBVIOUS
<1>2. PICK q : q = <<acc>>
  OBVIOUS
<1>3. PICK made : made = Made(heap, "cell", q)
  OBVIOUS
<1>4. acc \in ValuesOf(heap) /\ acc \in Nat
  <2>1. acc \in ValuesOf(heap)
    BY <1>0 DEF SeparateInv
  <2> QED BY <2>1, StateIs, GoodIs DEF ValuesOf, Scalar
<1>5. Formed("cell", q) /\ \A i \in DOMAIN q : q[i] \in ValuesOf(heap)
  BY <1>2, <1>4 DEF Formed
<1>6. /\ Kept(made, NoCell, NoCell) /\ a \in DOMAIN made.obj /\ a \notin DOMAIN heap.obj
      /\ Good(made)
  <2>1. /\ Kept(made, NoCell, NoCell) /\ a \in DOMAIN made.obj /\ a \notin DOMAIN heap.obj
    BY <1>0, <1>1, <1>3, <1>5, KeptAsIs, KeptMade
  <2> QED BY <2>1 DEF Kept
<1>7. CASE UNCHANGED undo /\ (Refuse(heap, "heap") \/ Refuse(made, "heap"))
  BY <1>0, <1>6, <1>7, KeptAsIs, RefuseTouches DEF Noted
<1>8. CASE /\ Journal(BindingKey(x), scope[x], Scalar)
           /\ scope' = [scope EXCEPT ![x] = a]
           /\ acc' = Nothing
           /\ UNCHANGED <<frames, run, before, foreign>>
           /\ Settle(Entered(made, BindingKey(x)))
  <2>1. PICK h : h = Entered(made, BindingKey(x))
    OBVIOUS
  <2>2. Good(h) /\ h.obj = made.obj
    BY <1>6, <2>1, ChargedIs DEF Entered, JournalBytes
  <2>3. Kept(h, NoCell, NoCell)
    BY <1>6, <2>2, KeptPaid
  <2>4. Noted /\ (run.transactional => Marks(undo', BindingKey(x)) # {})
    <3>1. Scalar \in ValuesOf(heap) /\ scope[x] \in {NoCell} \union DOMAIN heap.obj
      BY StateIs DEF ValuesOf, Sound, ScopeIn, IsCell
    <3>2. \A c : BindingKey(x) # CellKey(c)
      BY KeysDiffer
    <3>3. \A y \in Var : BindingKey(x) = BindingKey(y) => scope[x] = scope[y]
      BY KeysDiffer
    <3>4. PICK key : key = BindingKey(x)
      OBVIOUS
    <3> QED BY <1>8, <3>1, <3>2, <3>3, <3>4, KeptAsIs, JournalNotes
  <2>5. Rebound(x)
    BY <1>6, <1>8, <2>4, KeptAsIs DEF Rebound
  <2>6. Lone(NoCell, NoCell) /\ Owned(x, NoCell)
    BY KeptAsIs DEF Lone, Owned
  <2>7. \A y \in Var : scope'[y] \in {NoCell} \union DOMAIN h.obj
    <3>1. \A y \in Var : scope[y] \in {NoCell} \union DOMAIN heap.obj
      BY StateIs DEF Sound, ScopeIn, IsCell
    <3> QED BY <1>6, <1>8, <2>2, <2>3, <3>1, KeptAsIs DEF Kept
  <2>8. \A i \in DOMAIN frames' : frames'[i].local \in {NoCell} \union DOMAIN h.obj
    BY <1>8, <2>3, LocalsKept
  <2>9. Touches(x, NoCell, NoCell)
    BY <1>0, <1>8, <2>1, <2>3, <2>4, <2>5, <2>6, <2>7, <2>8, StepTouches
  <2> QED BY <2>9
<1> QED BY <1>1, <1>2, <1>3, <1>7, <1>8 DEF Let

\* A write that was entered first is journaled.
LEMMA EnteringTouches ==
  ASSUME HeapInv, SeparateInv, NEW x \in Bound, Entering(x)
  PROVE  /\ Noted /\ Owned(x, scope[x])
         /\ Kept(Journaled(x), NoCell, NoCell) /\ Journaled(x).obj = heap.obj
<1>1. PICK c : c = scope[x]
  OBVIOUS
<1>2. x \in Var /\ IsCell(heap, c)
  BY <1>1, KnownIn
<1>3. Journal(CellKey(c), c, ValueOf(x))
  BY <1>1 DEF Entering
<1>4. ValueOf(x) \in ValuesOf(heap) /\ ValueOf(x) = heap.obj[c].items[1]
  BY <1>1, KnownValues DEF ValueOf
<1>5. Noted /\ (run.transactional => Marks(undo', CellKey(c)) # {})
  <2>1. PICK key : key = CellKey(c)
    OBVIOUS
  <2>2. \A d : key = CellKey(d) => ValueOf(x) = heap.obj[d].items[1]
    BY <1>4, <2>1, KeysDiffer
  <2>3. \A y \in Var : key = BindingKey(y) => c = scope[y]
    BY <2>1, KeysDiffer
  <2>4. c \in {NoCell} \union DOMAIN heap.obj
    BY <1>2 DEF IsCell
  <2> QED BY <1>3, <1>4, <2>1, <2>2, <2>3, <2>4, KeptAsIs, JournalNotes
<1>6. Owned(x, scope[x])
  BY <1>1, <1>2, <1>5 DEF Owned
<1>7. Good(Journaled(x)) /\ Journaled(x).obj = heap.obj
  BY KeptAsIs, ChargedIs DEF Journaled, Entered, JournalBytes
<1>8. Kept(Journaled(x), NoCell, NoCell)
  BY <1>7, KeptAsIs, KeptPaid
<1> QED BY <1>5, <1>6, <1>7, <1>8

\* journal_cell or check_element_depth refuses.
LEMMA RefusedTouches ==
  ASSUME HeapInv, SeparateInv, run.at = "on", NEW z \in Bound, EntryFails(z) \/ RefuseElement(z)
  PROVE  \E x, c, t : Touches(x, c, t)
<1>1. CASE EntryFails(z)
  BY <1>1, KeptAsIs, RefuseTouches DEF EntryFails, Noted
<1>2. CASE RefuseElement(z)
  <2>1. Noted /\ Kept(Journaled(z), NoCell, NoCell)
    BY <1>2, EnteringTouches DEF RefuseElement
  <2>2. Refuse(Journaled(z), "depth")
    BY <1>2 DEF RefuseElement
  <2> QED BY <2>1, <2>2, RefuseTouches
<1> QED BY <1>1, <1>2

\* Env::update
LEMMA UpdateTouches ==
  ASSUME HeapInv, SeparateInv, NEW x, Update(x)
  PROVE  \E z, c, t : Touches(z, c, t)
<1>0. run.at = "on" /\ x \in Bound /\ acc # Nothing /\ acc \in ValuesOf(heap)
  BY DEF Update, Running, SeparateInv
<1>1. CASE EntryFails(x)
  BY <1>0, <1>1, RefusedTouches
<1>2. CASE /\ Entering(x)
           /\ acc' = Nothing
           /\ UNCHANGED <<scope, frames, run, before, foreign>>
           /\ Settle([Journaled(x) EXCEPT !.obj[scope[x]].items = <<acc>>])
  <2>1. PICK h : h = Journaled(x)
    OBVIOUS
  <2>2. PICK c : c = scope[x]
    OBVIOUS
  <2>3. PICK v : v = acc
    OBVIOUS
  <2>4. PICK q : q = <<v>>
    OBVIOUS
  <2>5. PICK g : g = [h EXCEPT !.obj[c].items = q]
    OBVIOUS
  <2>6. /\ Noted /\ Owned(x, c) /\ Kept(h, NoCell, NoCell) /\ h.obj = heap.obj
    BY <1>0, <1>2, <2>1, <2>2, EnteringTouches
  <2>7. IsCell(h, c) /\ Good(h) /\ IsCell(heap, c)
    BY <1>0, <2>2, <2>6, KnownIn DEF IsCell, Kept
  <2>8. v \in ValuesOf(h) /\ v \in {Scalar} \union DOMAIN h.obj
    BY <1>0, <2>3, <2>6 DEF ValuesOf
  <2>9. Recelled(g, h, c)
    BY ONLY <2>4, <2>5, <2>7, <2>8, CellSet DEF IsCell
  <2>10. /\ g.obj[c].items = q /\ \A b \in DOMAIN h.obj \ {c} : g.obj[b] = h.obj[b]
    <3>1. DOMAIN h = {"obj", "live"} /\ c \in DOMAIN h.obj /\ "items" \in DOMAIN h.obj[c]
      BY <2>7 DEF Good, Object, IsCell
    <3>2. g.obj[c]["items"] = q
      BY ONLY <2>5, <3>1, FieldSet
    <3> QED BY <2>9, <3>2 DEF Recelled
  <2>11. ValuesOf(g) = ValuesOf(h)
    BY <2>7, <2>9 DEF ValuesOf, Recelled, IsCell
  <2>12. Plain(g)
    <3>1. ASSUME NEW b \in DOMAIN g.obj, NEW i \in DOMAIN g.obj[b].items
          PROVE  g.obj[b].items[i] \in ValuesOf(g)
      <4>1. CASE b = c
        <5>1. g.obj[b].items = <<v>>
          BY <2>4, <2>10, <4>1
        <5>2. i = 1
          BY <5>1
        <5> QED BY <2>8, <2>11, <5>1, <5>2
      <4>2. CASE b # c
        BY <2>6, <2>9, <2>10, <2>11, <4>2 DEF Kept, Plain, Recelled
      <4> QED BY <4>1, <4>2
    <3> QED BY <3>1 DEF Plain
  <2>13. Kept(g, c, NoCell)
    BY <2>6, <2>7, <2>9, <2>10, <2>12 DEF Kept, Recelled, IsCell
  <2>14. Lone(c, NoCell) /\ Rebound(x)
    BY <1>2, KeptAsIs DEF Lone, Rebound
  <2>15. \A y \in Var : scope'[y] \in {NoCell} \union DOMAIN g.obj
    <3>1. \A y \in Var : scope[y] \in {NoCell} \union DOMAIN heap.obj
      BY StateIs DEF Sound, ScopeIn, IsCell
    <3> QED BY <1>2, <2>13, <3>1 DEF Kept
  <2>16. \A i \in DOMAIN frames' : frames'[i].local \in {NoCell} \union DOMAIN g.obj
    BY <1>2, <2>13, LocalsKept
  <2>17. Settle(g)
    BY <1>2, <2>1, <2>2, <2>3, <2>4, <2>5
  <2>18. Touches(x, c, NoCell)
    BY <1>0, <1>2, <2>6, <2>13, <2>14, <2>15, <2>16, <2>17, StepTouches
  <2> QED BY <2>18
<1> QED BY <1>1, <1>2 DEF Update

\* A write into a list or a dict.
LEMMA WriteThroughTouches ==
  ASSUME HeapInv, SeparateInv, run.at = "on", HasFresh(heap, 1), NEW x \in Bound,
         ValueOf(x) # Scalar, heap.obj[ValueOf(x)].kind # "cell",
         NEW items, Formed(heap.obj[ValueOf(x)].kind, items),
         \A i \in DOMAIN items : items[i] \in ValuesOf(heap),
         NEW summary, NEW v \in ValuesOf(heap) \union {Nothing},
         WriteThrough(x, items, summary, v)
  PROVE  \E z, c, t : Touches(z, c, t)
<1>1. PICK h : h = Journaled(x)
  OBVIOUS
<1>2. PICK c : c = scope[x]
  BY Zenon
<1>3. PICK a : a = ValueOf(x) /\ a = heap.obj[c].items[1]
  BY <1>2 DEF ValueOf
<1>4. PICK w : w = Write(h, c, items, summary)
  OBVIOUS
<1>5. /\ Entering(x)
      /\ run' = IF w.ok THEN run ELSE [run EXCEPT !.error = "heap"]
      /\ acc' = IF w.ok THEN v ELSE Nothing
      /\ UNCHANGED <<scope, frames, before>>
      /\ Settle(w.heap)
  BY <1>1, <1>2, <1>4 DEF WriteThrough
<1>6. /\ Noted /\ Owned(x, c) /\ Kept(h, NoCell, NoCell) /\ h.obj = heap.obj
  BY <1>1, <1>2, <1>5, EnteringTouches
<1>7. Measured(h) /\ undo' \in Seq(EntrySet)
  BY <1>1, <1>5, EnteringIs, Zenon DEF Sound, UndoIn
<1>8. /\ Good(h) /\ IsCell(h, c) /\ a \in DOMAIN h.obj /\ h.obj[c].items[1] = a
      /\ h.obj[a].kind # "cell" /\ Formed(h.obj[a].kind, items)
      /\ HasFresh(h, 1) /\ c # NoCell /\ x \in Var
  BY <1>2, <1>3, <1>6, KnownIn, KeptAsIs, Zenon DEF Kept, IsCell, HasFresh
<1>9. Holds(h, items) /\ ValuesOf(h) = ValuesOf(heap)
  BY <1>6 DEF Holds, ValuesOf
<1>10. /\ Good(w.heap) /\ Extends(w.heap, h) /\ w.ok \in BOOLEAN
       /\ \/ w.heap = h
          \/ \E t : t \in Nat /\ Rewritten(w.heap, h, a, t, items, summary)
                    /\ Elsewhere(w.heap, h, c, t)
  <2>1. /\ c \in DOMAIN h.obj /\ h.obj[c].kind = "cell"
        /\ h.obj[c].items[1] \in DOMAIN h.obj /\ h.obj[h.obj[c].items[1]].kind # "cell"
        /\ Formed(h.obj[h.obj[c].items[1]].kind, items)
    BY <1>8 DEF IsCell
  <2>2. /\ Good(w.heap) /\ Extends(w.heap, h) /\ w.ok \in BOOLEAN
        /\ \/ w.heap = h
           \/ \E t : t \in Nat /\ Rewritten(w.heap, h, h.obj[c].items[1], t, items, summary)
                     /\ Elsewhere(w.heap, h, c, t)
    BY ONLY <1>4, <1>8, <1>9, <2>1, WriteIs
  <2> QED BY <1>8, <2>2
<1>11. run'.at = "on" /\ run'.transactional = run.transactional
  BY <1>5, <1>10, StateIs DEF RunSet
<1>12. Rebound(x)
  BY <1>5 DEF Rebound
<1>13. PICK g : g = w.heap
  OBVIOUS
<1>14. ValuesOf(h) \subseteq ValuesOf(g) /\ DOMAIN h.obj \subseteq DOMAIN g.obj
  BY <1>10, <1>13 DEF ValuesOf, Extends
<1>15. acc' \in ValuesOf(g) \union {Nothing}
  BY <1>5, <1>9, <1>10, <1>14
<1>16. \A y \in Var : scope'[y] \in {NoCell} \union DOMAIN g.obj
  <2>1. \A y \in Var : scope[y] \in {NoCell} \union DOMAIN heap.obj
    BY StateIs DEF Sound, ScopeIn, IsCell
  <2> QED BY <1>5, <1>6, <1>14, <2>1
<1>17. \A i \in DOMAIN frames' : frames'[i].local \in {NoCell} \union DOMAIN g.obj
  BY <1>5, <1>6, <1>14, LocalsKept
<1>18. CASE g = h
  <2>1. Lone(NoCell, NoCell) /\ Owned(x, NoCell) /\ Kept(g, NoCell, NoCell)
    BY <1>6, <1>18, KeptAsIs DEF Lone, Owned
  <2>2. Touches(x, NoCell, NoCell)
    BY <1>5, <1>6, <1>11, <1>12, <1>13, <1>15, <1>16, <1>17, <2>1, StepTouches
  <2> QED BY <2>2
<1>19. CASE g # h
  <2>1. PICK t : Rewritten(g, h, a, t, items, summary) /\ Elsewhere(g, h, c, t)
    BY <1>10, <1>13, <1>19
  <2>2. /\ DOMAIN g.obj = DOMAIN h.obj \union {t}
        /\ g.obj[t].kind = h.obj[a].kind /\ g.obj[t].items = items
        /\ t \in DOMAIN h.obj => t = a /\ ~MustCopy(h, a)
        /\ g.obj[c].items = <<t>>
        /\ \A b \in DOMAIN h.obj \ {c, t} : g.obj[b].items = h.obj[b].items
    BY <2>1 DEF Rewritten, Elsewhere
  <2>3. Plain(g)
    <3>1. ASSUME NEW b \in DOMAIN g.obj, NEW i \in DOMAIN g.obj[b].items
          PROVE  g.obj[b].items[i] \in ValuesOf(g)
      <4>1. CASE b = t
        BY <1>9, <1>14, <2>2, <4>1
      <4>2. CASE b # t /\ b = c
        <5>1. t \in ValuesOf(g)
          BY <1>8, <2>2 DEF ValuesOf
        <5>2. g.obj[b].items = <<t>>
          BY <2>2, <4>2
        <5>3. i = 1
          BY <5>2
        <5> QED BY <5>1, <5>2, <5>3
      <4>3. CASE b # t /\ b # c
        <5>1. b \in DOMAIN h.obj /\ g.obj[b].items = h.obj[b].items
          BY <2>2, <4>3
        <5> QED BY <1>6, <1>14, <5>1 DEF Kept, Plain
      <4> QED BY <4>1, <4>2, <4>3
    <3> QED BY <3>1 DEF Plain
  <2>4. Kept(g, c, t)
    BY <1>6, <1>10, <1>13, <1>14, <2>2, <2>3 DEF Kept, Extends
  <2>5. Lone(c, t)
    <3>1. CASE t \notin DOMAIN heap.obj
      BY <3>1 DEF Lone
    <3>2. CASE t \in DOMAIN heap.obj
      <4>1. t = a /\ ~MustCopy(h, a)
        BY <1>6, <2>2, <3>2
      <4>2. Unshared(h, c, a)
        BY <1>7, <1>8, <4>1, UnsharedIs DEF IsCell
      <4> QED BY <1>6, <1>8, <4>1, <4>2 DEF Unshared, Lone
    <3> QED BY <3>1, <3>2
  <2>6. Touches(x, c, t)
    BY <1>5, <1>6, <1>11, <1>12, <1>13, <1>15, <1>16, <1>17, <2>4, <2>5, StepTouches
  <2> QED BY <2>6
<1> QED BY <1>18, <1>19

\* apply_push
LEMMA PushTouches ==
  ASSUME HeapInv, SeparateInv, NEW x, Push(x)
  PROVE  \E z, c, t : Touches(z, c, t)
<1>0. run.at = "on" /\ HasFresh(heap, 1) /\ HoldsA("list", x) /\ acc \in ValuesOf(heap)
  BY DEF Push, Running, SeparateInv
<1>1. PICK a : a = ValueOf(x)
  OBVIOUS
<1>2. /\ x \in Bound /\ a # Scalar /\ a \in DOMAIN heap.obj /\ heap.obj[a].kind = "list"
      /\ Formed("list", heap.obj[a].items) /\ Holds(heap, heap.obj[a].items)
  BY <1>0, <1>1, HoldsIs
<1>3. CASE EntryFails(x) \/ RefuseElement(x)
  BY <1>0, <1>2, <1>3, RefusedTouches
<1>4. ASSUME NEW summary, WriteThrough(x, Append(heap.obj[a].items, acc), summary, Nothing)
      PROVE  \E z, c, t : Touches(z, c, t)
  <2>1. PICK q \in Seq(Nat) : q = heap.obj[a].items
    BY <1>2 DEF Formed
  <2>2. PICK v : v = acc
    OBVIOUS
  <2>3. v \in Nat /\ v \in ValuesOf(heap)
    BY <1>0, <2>2, StateIs, GoodIs DEF ValuesOf, Scalar
  <2>4. PICK items : items = Append(q, v)
    OBVIOUS
  <2>5. items \in Seq(Nat) /\ \A i \in DOMAIN items : items[i] \in ValuesOf(heap)
    <3>1. \A i \in DOMAIN q : q[i] \in ValuesOf(heap)
      BY <1>2, <2>1 DEF SeparateInv, Plain
    <3>2. /\ items \in Seq(Nat) /\ DOMAIN items = 1 .. Len(q) + 1 /\ items[Len(q) + 1] = v
          /\ \A j \in 1 .. Len(q) : items[j] = q[j]
      BY <2>3, <2>4, AppendProperties
    <3>3. PICK n \in Nat : n = Len(q) /\ DOMAIN q = 1 .. n
      OBVIOUS
    <3> QED BY <2>3, <3>1, <3>2, <3>3
  <2>6. Formed(heap.obj[ValueOf(x)].kind, items)
    BY <1>1, <1>2, <2>5 DEF Formed
  <2>7. WriteThrough(x, items, summary, Nothing)
    BY <1>4, <2>1, <2>2, <2>4
  <2> QED BY <1>0, <1>1, <1>2, <2>5, <2>6, <2>7, WriteThroughTouches
<1> QED BY <1>1, <1>3, <1>4 DEF Push

\* apply_pop
LEMMA PopTouches ==
  ASSUME HeapInv, SeparateInv, NEW x, Pop(x)
  PROVE  \E z, c, t : Touches(z, c, t)
<1>1. PICK a : a = ValueOf(x)
  OBVIOUS
<1>2. PICK q : q = heap.obj[a].items
  OBVIOUS
<1>0. run.at = "on" /\ HasFresh(heap, 1) /\ HoldsA("list", x) /\ q # <<>>
  BY <1>1, <1>2 DEF Pop, Running
<1>3. /\ x \in Bound /\ a # Scalar /\ a \in DOMAIN heap.obj /\ heap.obj[a].kind = "list"
      /\ Formed("list", q) /\ Holds(heap, q)
  BY <1>0, <1>1, <1>2, HoldsIs
<1>4. CASE EntryFails(x)
  BY <1>0, <1>3, <1>4, RefusedTouches
<1>5. ASSUME NEW summary, WriteThrough(x, SubSeq(q, 1, Len(q) - 1), summary, q[Len(q)])
      PROVE  \E z, c, t : Touches(z, c, t)
  <2>1. q \in Seq(Nat)
    BY <1>3 DEF Formed
  <2>2. PICK n \in Nat : n = Len(q) /\ DOMAIN q = 1 .. n /\ n > 0
    BY <1>0, <2>1
  <2>3. \A i \in DOMAIN q : q[i] \in ValuesOf(heap)
    BY <1>2, <1>3 DEF SeparateInv, Plain
  <2>4. PICK items : items = SubSeq(q, 1, n - 1)
    OBVIOUS
  <2>5. items \in Seq(Nat) /\ \A i \in DOMAIN items : items[i] \in ValuesOf(heap)
    <3>1. items \in Seq(Nat)
      BY <1>0, <1>3, <2>1, <2>2, <2>4, HoldsLess
    <3>2. DOMAIN items = 1 .. n - 1 /\ \A j \in 1 .. n - 1 : items[j] = q[j]
      BY ONLY <1>0, <2>1, <2>2, <2>4, LessIs
    <3> QED BY <2>2, <2>3, <3>1, <3>2
  <2>6. Formed(heap.obj[ValueOf(x)].kind, items)
    BY <1>1, <1>3, <2>5 DEF Formed
  <2>7. PICK v : v = q[n]
    OBVIOUS
  <2>8. v \in ValuesOf(heap)
    BY <2>2, <2>3, <2>7
  <2>9. WriteThrough(x, items, summary, v)
    BY <1>5, <2>2, <2>4, <2>7
  <2> QED BY <1>0, <1>1, <1>3, <2>5, <2>6, <2>8, <2>9, WriteThroughTouches
<1> QED BY <1>1, <1>2, <1>4, <1>5 DEF Pop

\* An element is assigned.
LEMMA SetAtTouches ==
  ASSUME HeapInv, SeparateInv, NEW x, NEW i \in 1 .. MaxElements, SetAt(x, i)
  PROVE  \E z, c, t : Touches(z, c, t)
<1>1. PICK a : a = ValueOf(x)
  OBVIOUS
<1>2. PICK q : q = heap.obj[a].items
  OBVIOUS
<1>3. PICK kind : kind = heap.obj[a].kind
  OBVIOUS
<1>0. /\ run.at = "on" /\ HasFresh(heap, 1) /\ acc \in ValuesOf(heap)
      /\ HoldsA("list", x) \/ HoldsA("dict", x)
      /\ IF kind = "list" THEN i \in DOMAIN q ELSE i \in Key
  BY <1>1, <1>2, <1>3 DEF SetAt, Running, SeparateInv
<1>4. /\ x \in Bound /\ a # Scalar /\ a \in DOMAIN heap.obj /\ kind \in {"list", "dict"}
      /\ Formed(kind, q) /\ Holds(heap, q)
  <2>1. PICK k \in {"list", "dict"} : HoldsA(k, x)
    BY <1>0
  <2> QED BY <1>1, <1>2, <1>3, <2>1, HoldsIs
<1>5. CASE EntryFails(x) \/ RefuseElement(x)
  BY <1>0, <1>4, <1>5, RefusedTouches
<1>6. ASSUME NEW summary,
             WriteThrough(x, [j \in DOMAIN q \union {i} |-> IF j = i THEN acc ELSE q[j]],
                          summary, Nothing)
      PROVE  \E z, c, t : Touches(z, c, t)
  <2>1. PICK v : v = acc
    OBVIOUS
  <2>2. v \in Nat /\ v \in ValuesOf(heap)
    BY <1>0, <2>1, StateIs, GoodIs DEF ValuesOf, Scalar
  <2>3. PICK items : items = [j \in DOMAIN q \union {i} |-> IF j = i THEN v ELSE q[j]]
    OBVIOUS
  <2>4. \A j \in DOMAIN q : q[j] \in ValuesOf(heap)
    BY <1>2, <1>4 DEF SeparateInv, Plain
  <2>5. \A j \in DOMAIN items : items[j] \in ValuesOf(heap)
    BY <2>2, <2>3, <2>4
  <2>6. Formed(kind, items)
    <3>1. CASE kind = "list"
      <4>1. q \in Seq(Nat)
        BY <1>4, <3>1 DEF Formed
      <4>2. PICK n \in Nat : DOMAIN q = 1 .. n
        BY <4>1
      <4>3. items \in [1 .. n -> Nat]
        BY <1>0, <2>2, <2>3, <3>1, <4>1, <4>2
      <4>4. items \in Seq(Nat)
        BY ONLY <4>2, <4>3
      <4> QED BY <3>1, <4>4 DEF Formed
    <3>2. CASE kind = "dict"
      BY <1>0, <1>4, <2>3, <3>2 DEF Formed
    <3> QED BY <1>4, <3>1, <3>2
  <2>7. WriteThrough(x, items, summary, Nothing)
    BY <1>6, <2>1, <2>3
  <2> QED BY <1>0, <1>1, <1>3, <1>4, <2>5, <2>6, <2>7, WriteThroughTouches
<1> QED BY <1>1, <1>2, <1>5, <1>6 DEF SetAt

\* A charge or a release keeps what is there.
LEMMA PaidKept ==
  ASSUME NEW h, Kept(h, NoCell, NoCell), NEW n \in Nat
  PROVE  /\ Kept(Charged(h, n), NoCell, NoCell) /\ Charged(h, n).obj = h.obj
         /\ Kept(Freed(h, n), NoCell, NoCell) /\ Freed(h, n).obj = h.obj
<1>1. Good(h)
  BY DEF Kept
<1>2. Good(Charged(h, n)) /\ Charged(h, n).obj = h.obj
  BY <1>1, ChargedIs
<1>3. Good(Freed(h, n)) /\ Freed(h, n).obj = h.obj
  BY <1>1, FreedIs
<1> QED BY <1>2, <1>3, KeptPaid

\* A block or a try body is entered.
LEMMA EnterTouches ==
  ASSUME HeapInv, SeparateInv, NEW kind \in {"block", "try"}, Enter(kind)
  PROVE  \E x, c, t : Touches(x, c, t)
<1>0. run.at = "on" /\ acc = Nothing
  BY DEF Enter, Running
<1>1. CASE UNCHANGED undo /\ Refuse(heap, "heap")
  BY <1>0, <1>1, KeptAsIs, RefuseTouches DEF Noted
<1>2. CASE /\ frames' = Append(frames, Frame(kind, FrameBytes(0), NoCell))
           /\ UNCHANGED <<scope, acc, undo, run, before, foreign>>
           /\ Settle(Charged(heap, FrameBytes(0)))
  <2>1. PICK h : h = Charged(heap, FrameBytes(0))
    OBVIOUS
  <2>2. Kept(h, NoCell, NoCell)
    BY <2>1, KeptAsIs, PaidKept, FrameBytesNat
  <2>3. PICK e \in FrameSet : e = Frame(kind, FrameBytes(0), NoCell) /\ e.local = NoCell
    BY FrameBytesNat DEF NoCell
  <2>4. \A i \in DOMAIN frames' : frames'[i].local \in {NoCell} \union DOMAIN h.obj
    <3>1. \A i \in DOMAIN frames : frames[i].local \in {NoCell} \union DOMAIN h.obj
      BY <2>2, LocalsKept
    <3>2. frames' = Append(frames, e) /\ frames \in Seq(FrameSet)
      BY <1>2, <2>3, KeptAsIs
    <3> QED BY <2>3, <3>1, <3>2
  <2> QED BY <1>0, <1>2, <2>1, <2>2, <2>4, StepQuiet DEF Noted
<1> QED BY <1>1, <1>2 DEF Enter

\* A loop round is entered.
LEMMA EnterRoundTouches ==
  ASSUME HeapInv, SeparateInv, NEW v, EnterRound(v)
  PROVE  \E x, c, t : Touches(x, c, t)
<1>0. run.at = "on" /\ acc = Nothing /\ HasFresh(heap, 1) /\ v \in Known /\ 1 \in Nat \ {0}
  BY DEF EnterRound, Running
<1>1. v \in ValuesOf(heap) /\ v \in Nat
  BY <1>0, KnownIn, KnownValues
<1>2. PICK q : q = <<v>>
  OBVIOUS
<1>3. Formed("cell", q) /\ \A i \in DOMAIN q : q[i] \in ValuesOf(heap)
  BY <1>1, <1>2 DEF Formed
<1>4. PICK paid : paid = Charged(heap, FrameBytes(1))
  OBVIOUS
<1>5. Kept(paid, NoCell, NoCell) /\ paid.obj = heap.obj
  BY <1>4, KeptAsIs, PaidKept, FrameBytesNat
<1>6. /\ HasFresh(paid, 1) /\ Fresh(paid) = Fresh(heap)
      /\ \A i \in DOMAIN q : q[i] \in ValuesOf(paid)
  BY <1>0, <1>3, <1>5 DEF HasFresh, Fresh, ValuesOf
<1>7. PICK made : made = Made(paid, "cell", q)
  OBVIOUS
<1>8. PICK a : a = Fresh(heap)
  OBVIOUS
<1>9. Kept(made, NoCell, NoCell) /\ a \in DOMAIN made.obj
  BY <1>0, <1>3, <1>5, <1>6, <1>7, <1>8, KeptMade
<1>10. /\ Kept(Freed(paid, FrameBytes(1)), NoCell, NoCell)
       /\ Kept(Freed(made, FrameBytes(1)), NoCell, NoCell)
  BY <1>5, <1>9, PaidKept, FrameBytesNat
<1>11. CASE /\ UNCHANGED undo
            /\ \/ Refuse(heap, "heap") \/ Refuse(Freed(paid, FrameBytes(1)), "heap")
               \/ Refuse(Freed(made, FrameBytes(1)), "heap")
  BY <1>0, <1>10, <1>11, KeptAsIs, RefuseTouches DEF Noted
<1>12. CASE /\ Journal(LocalKey, NoCell, Scalar)
            /\ frames' = Append(frames, Frame("block", FrameBytes(1), a))
            /\ UNCHANGED <<scope, acc, run, before, foreign>>
            /\ Settle(Entered(made, LocalKey))
  <2>1. PICK h : h = Entered(made, LocalKey)
    OBVIOUS
  <2>2. Kept(h, NoCell, NoCell) /\ h.obj = made.obj
    <3>1. JournalBytes \in Nat
      BY DEF JournalBytes
    <3> QED BY <1>9, <2>1, <3>1, PaidKept DEF Entered
  <2>3. Noted
    <3>1. PICK key : key = LocalKey
      OBVIOUS
    <3>2. (\A c : key # CellKey(c)) /\ (\A y : key # BindingKey(y))
      BY <3>1, KeysDiffer DEF LocalKey
    <3>3. Scalar \in ValuesOf(heap) /\ NoCell \in {NoCell} \union DOMAIN heap.obj
      BY DEF ValuesOf
    <3>4. Journal(key, NoCell, Scalar) /\ undo \in Seq(EntrySet)
      BY <1>12, <3>1, KeptAsIs
    <3> QED BY ONLY <3>2, <3>3, <3>4, JournalNotes
  <2>4. \A i \in DOMAIN frames' : frames'[i].local \in {NoCell} \union DOMAIN h.obj
    <3>1. \A i \in DOMAIN frames : frames[i].local \in {NoCell} \union DOMAIN h.obj
      BY <2>2, LocalsKept
    <3>2. a \in Nat
      BY <1>9, GoodIs DEF Kept
    <3>3. PICK e \in FrameSet : e = Frame("block", FrameBytes(1), a) /\ e.local = a
      BY <3>2, FrameBytesNat
    <3>4. frames' = Append(frames, e) /\ frames \in Seq(FrameSet)
      BY <1>12, <3>3, KeptAsIs
    <3> QED BY <1>9, <2>2, <3>1, <3>3, <3>4
  <2> QED BY <1>0, <1>12, <2>1, <2>2, <2>3, <2>4, StepQuiet
<1> QED BY <1>2, <1>4, <1>7, <1>8, <1>11, <1>12 DEF EnterRound

\* pop_frame
LEMMA LeaveTouches ==
  ASSUME HeapInv, SeparateInv, Leave
  PROVE  \E x, c, t : Touches(x, c, t)
<1>1. /\ run.at = "on" /\ acc = Nothing /\ frames # <<>>
      /\ frames' = SubSeq(frames, 1, Len(frames) - 1)
      /\ UNCHANGED <<scope, acc, undo, run, before, foreign>>
      /\ Settle(Freed(heap, frames[Len(frames)].charge))
  BY DEF Leave
<1>2. frames \in Seq(FrameSet)
  BY KeptAsIs
<1>3. /\ Len(SubSeq(frames, 1, Len(frames) - 1)) = Len(frames) - 1
      /\ \A i \in 1 .. Len(frames) - 1 : SubSeq(frames, 1, Len(frames) - 1)[i] = frames[i]
      /\ frames[Len(frames)] \in FrameSet
      /\ SubSeq(frames, 1, Len(frames) - 1) \in Seq(FrameSet)
  BY <1>1, <1>2, ChargesLess
<1>4. PICK n \in Nat : n = frames[Len(frames)].charge
  BY <1>3 DEF FrameSet
<1>5. PICK h : h = Freed(heap, n)
  OBVIOUS
<1>6. Kept(h, NoCell, NoCell)
  BY <1>5, KeptAsIs, PaidKept
<1>7. \A i \in DOMAIN frames' : frames'[i].local \in {NoCell} \union DOMAIN h.obj
  <2>1. \A i \in DOMAIN frames : frames[i].local \in {NoCell} \union DOMAIN h.obj
    BY <1>6, LocalsKept
  <2>2. PICK m \in Nat : m = Len(frames) /\ DOMAIN frames = 1 .. m
    BY <1>2
  <2>3. DOMAIN frames' = 1 .. m - 1 /\ \A i \in 1 .. m - 1 : frames'[i] = frames[i]
    BY <1>1, <1>3, <2>2
  <2> QED BY <2>1, <2>2, <2>3
<1> QED BY <1>1, <1>4, <1>5, <1>6, <1>7, StepQuiet DEF Noted

\* The frame of a try body without its charge has the same cell.
LEMMA UnchargedLocals ==
  ASSUME HeapInv, frames # <<>>, frames' = [frames EXCEPT ![Len(frames)] = Uncharged(@)],
         NEW h, NEW c, NEW t, Kept(h, c, t)
  PROVE  \A i \in DOMAIN frames' : frames'[i].local \in {NoCell} \union DOMAIN h.obj
<1>1. frames \in Seq(FrameSet)
  BY StateIs DEF Sound, FramesIn
<1>2. DOMAIN frames' = DOMAIN frames
  OBVIOUS
<1>3. ASSUME NEW i \in DOMAIN frames PROVE frames'[i].local = frames[i].local
  <2>1. frames'[i] = IF i = Len(frames) THEN Uncharged(frames[i]) ELSE frames[i]
    OBVIOUS
  <2>2. frames[i] \in FrameSet
    BY <1>1
  <2> QED BY <2>1, <2>2 DEF Uncharged, FrameSet
<1> QED BY <1>2, <1>3, LocalsKept

\* handle_error
LEMMA CatchTouches ==
  ASSUME HeapInv, SeparateInv, Catch
  PROVE  \E x, c, t : Touches(x, c, t)
<1>0. run.at = "on" /\ HasFresh(heap, 1) /\ frames # <<>> /\ 1 \in Nat \ {0}
      /\ run \in RunSet /\ frames \in Seq(FrameSet) /\ Len(frames) \in DOMAIN frames
  <2>1. run.at = "on" /\ HasFresh(heap, 1) /\ frames # <<>>
    BY DEF Catch
  <2>2. run \in RunSet /\ frames \in Seq(FrameSet)
    BY StateIs, KeptAsIs
  <2> QED BY <2>1, <2>2
<1>1. acc \in ValuesOf(heap) \union {Nothing}
  BY DEF SeparateInv
<1>2. PICK n \in Nat : n = frames[Len(frames)].charge
  <2>1. frames[Len(frames)] \in FrameSet
    BY <1>0
  <2> QED BY <2>1 DEF FrameSet
<1>3. PICK torn : torn = Freed(heap, n)
  OBVIOUS
<1>4. Kept(torn, NoCell, NoCell) /\ torn.obj = heap.obj
  BY <1>3, KeptAsIs, PaidKept
<1>5. PICK paid : paid = Charged(torn, FrameBytes(1))
  OBVIOUS
<1>6. Kept(paid, NoCell, NoCell) /\ paid.obj = heap.obj
  BY <1>4, <1>5, PaidKept, FrameBytesNat
<1>7. PICK q : q = <<Scalar>>
  OBVIOUS
<1>8. Formed("cell", q) /\ (\A i \in DOMAIN q : q[i] \in ValuesOf(paid)) /\ HasFresh(paid, 1)
  <2>1. HasFresh(paid, 1)
    BY <1>0, <1>6 DEF HasFresh
  <2>2. Formed("cell", q)
    BY <1>7 DEF Formed, Scalar
  <2> QED BY <1>7, <2>1, <2>2 DEF ValuesOf
<1>9. PICK made : made = Made(paid, "cell", q)
  OBVIOUS
<1>10. PICK a : a = Fresh(paid)
  OBVIOUS
<1>11. Kept(made, NoCell, NoCell) /\ a \in DOMAIN made.obj
  BY <1>0, <1>6, <1>8, <1>9, <1>10, KeptMade
<1>12. /\ Kept(Freed(paid, FrameBytes(1)), NoCell, NoCell)
       /\ Kept(Freed(made, FrameBytes(1)), NoCell, NoCell)
  BY <1>6, <1>11, PaidKept, FrameBytesNat
<1>13. ASSUME NEW h, Kept(h, NoCell, NoCell), CatchFails(h)
       PROVE  \E x, c, t : Touches(x, c, t)
  <2>1. /\ run' = [run EXCEPT !.error = "heap"] /\ Settle(h)
        /\ frames' = [frames EXCEPT ![Len(frames)] = Uncharged(@)]
        /\ UNCHANGED <<scope, acc, undo, before, foreign>>
    BY <1>13 DEF CatchFails
  <2>2. run'.at = "on" /\ run'.transactional = run.transactional
    BY <1>0, <2>1 DEF RunSet
  <2>3. \A i \in DOMAIN frames' : frames'[i].local \in {NoCell} \union DOMAIN h.obj
    BY <1>0, <1>13, <2>1, UnchargedLocals
  <2>4. acc' \in ValuesOf(h) \union {Nothing}
    BY <1>1, <1>13, <2>1 DEF Kept, ValuesOf
  <2> QED BY <1>0, <1>13, <2>1, <2>2, <2>3, <2>4, StepQuiet DEF Noted
<1>14. PICK key : key = <<"local", Len(frames) - 1>>
  OBVIOUS
<1>15. CASE /\ Journal(key, NoCell, Scalar)
            /\ frames' = [frames EXCEPT ![Len(frames)] = Frame("block", FrameBytes(1), a)]
            /\ run' = [run EXCEPT !.error = "none"]
            /\ UNCHANGED <<scope, acc, before, foreign>>
            /\ Settle(Entered(made, key))
  <2>1. PICK h : h = Entered(made, key)
    OBVIOUS
  <2>2. Kept(h, NoCell, NoCell) /\ h.obj = made.obj
    <3>1. JournalBytes \in Nat
      BY DEF JournalBytes
    <3> QED BY <1>11, <2>1, <3>1, PaidKept DEF Entered
  <2>3. Noted
    <3>1. (\A c : key # CellKey(c)) /\ (\A y : key # BindingKey(y))
      BY <1>14, KeysDiffer
    <3>2. Scalar \in ValuesOf(heap) /\ NoCell \in {NoCell} \union DOMAIN heap.obj
      BY DEF ValuesOf
    <3>3. Journal(key, NoCell, Scalar) /\ undo \in Seq(EntrySet)
      BY <1>15, KeptAsIs
    <3> QED BY ONLY <3>1, <3>2, <3>3, JournalNotes
  <2>4. \A i \in DOMAIN frames' : frames'[i].local \in {NoCell} \union DOMAIN h.obj
    <3>1. \A i \in DOMAIN frames : frames[i].local \in {NoCell} \union DOMAIN h.obj
      BY <2>2, LocalsKept
    <3>2. Frame("block", FrameBytes(1), a).local = a
      BY DEF Frame
    <3>3. DOMAIN frames' = DOMAIN frames
          /\ \A i \in DOMAIN frames :
               \/ frames'[i] = frames[i]
               \/ frames'[i] = Frame("block", FrameBytes(1), a)
      BY <1>15
    <3>4. a \in DOMAIN h.obj
      BY <1>11, <2>2
    <3> QED BY <3>1, <3>2, <3>3, <3>4
  <2>5. run'.at = "on" /\ run'.transactional = run.transactional
    BY <1>0, <1>15 DEF RunSet
  <2>6. acc' \in ValuesOf(h) \union {Nothing}
    BY <1>1, <1>15, <2>2 DEF Kept, ValuesOf
  <2> QED BY <1>0, <1>15, <2>1, <2>2, <2>3, <2>4, <2>5, <2>6, StepQuiet
<1>16. \/ CatchFails(torn) \/ CatchFails(Freed(paid, FrameBytes(1)))
       \/ CatchFails(Freed(made, FrameBytes(1)))
       \/ /\ Journal(key, NoCell, Scalar)
          /\ frames' = [frames EXCEPT ![Len(frames)] = Frame("block", FrameBytes(1), a)]
          /\ run' = [run EXCEPT !.error = "none"]
          /\ UNCHANGED <<scope, acc, before, foreign>>
          /\ Settle(Entered(made, key))
  BY <1>2, <1>3, <1>5, <1>7, <1>9, <1>10, <1>14 DEF Catch
<1> QED BY <1>4, <1>12, <1>13, <1>15, <1>16

\* The steps of a run.
LEMMA WorkTouches ==
  ASSUME HeapInv, SeparateInv, Work
  PROVE  \E x, c, t : Touches(x, c, t)
<1>1. ASSUME NEW v \in Known, Evaluate(v) \/ EnterRound(v) PROVE \E x, c, t : Touches(x, c, t)
  BY <1>1, EvaluateTouches, EnterRoundTouches
<1>2. ASSUME NEW q \in Lists, Literal("list", q) PROVE \E x, c, t : Touches(x, c, t)
  <2>1. PICK n \in 0 .. MaxLiteral : q \in [1 .. n -> Known]
    BY DEF Lists
  <2>2. n \in Nat /\ Known \subseteq Nat
    BY HeapAssumption, KnownIn
  <2>3. q \in [1 .. n -> Nat]
    BY <2>1, <2>2
  <2>4. q \in Seq(Nat)
    BY ONLY <2>2, <2>3
  <2>5. Formed("list", q)
    BY <2>4 DEF Formed
  <2> QED BY <1>2, <2>5, LiteralTouches
<1>3. ASSUME NEW d \in Dicts, Literal("dict", d) PROVE \E x, c, t : Touches(x, c, t)
  <2>1. Formed("dict", d)
    BY DEF Dicts, Formed
  <2> QED BY <1>3, <2>1, LiteralTouches
<1>4. ASSUME Result PROVE \E x, c, t : Touches(x, c, t)
  BY <1>4, ResultTouches
<1>5. ASSUME NEW x \in Var, Let(x) \/ Update(x) \/ Push(x) \/ Pop(x)
      PROVE  \E y, c, t : Touches(y, c, t)
  BY <1>5, LetTouches, UpdateTouches, PushTouches, PopTouches
<1>6. ASSUME NEW x \in Var, NEW i \in 1 .. MaxElements, SetAt(x, i)
      PROVE  \E y, c, t : Touches(y, c, t)
  BY <1>6, SetAtTouches
<1>7. ASSUME NEW kind \in {"block", "try"}, Enter(kind) PROVE \E x, c, t : Touches(x, c, t)
  BY <1>7, EnterTouches
<1> QED BY <1>1, <1>2, <1>3, <1>4, <1>5, <1>6, <1>7 DEF Work

-----------------------------------------------------------------------------
(* The start and the end of a run *)

\* What is left has the elements it had; cells hold values that were there.
Same ==
  \A a \in DOMAIN heap'.obj :
    /\ a \in DOMAIN heap.obj /\ heap'.obj[a].kind = heap.obj[a].kind
    /\ heap.obj[a].kind # "cell" => heap'.obj[a].items = heap.obj[a].items
    /\ \A i \in DOMAIN heap'.obj[a].items : heap'.obj[a].items[i] \in ValuesOf(heap)

\* Values that are left have the content they had.
LEMMA SameContent ==
  ASSUME HeapInv, SeparateInv, HeapInv', Same,
         NEW v \in ValuesOf(heap), v \in {Scalar} \union DOMAIN heap'.obj
  PROVE  v \in ValuesOf(heap') /\ Content(heap', v) = Content(heap, v)
<1> DEFINE A == {a \in DOMAIN heap'.obj : heap.obj[a].kind # "cell"}
<1>1. ASSUME NEW a \in A
      PROVE  /\ heap'.obj[a].kind = heap.obj[a].kind /\ heap'.obj[a].items = heap.obj[a].items
             /\ \A i \in DOMAIN heap.obj[a].items : heap.obj[a].items[i] \in {Scalar} \union A
  <2>1. heap'.obj[a].kind = heap.obj[a].kind /\ heap'.obj[a].items = heap.obj[a].items
    BY DEF Same
  <2>2. \A i \in DOMAIN heap'.obj[a].items : /\ heap'.obj[a].items[i] \in ValuesOf(heap)
                                             /\ heap'.obj[a].items[i] \in {Scalar} \union DOMAIN heap'.obj
    BY PairIs DEF Same, Good, Holds
  <2> QED BY <2>1, <2>2 DEF ValuesOf
<1>2. v \in {Scalar} \union A
  BY DEF ValuesOf
<1>3. A \subseteq DOMAIN heap.obj /\ A \subseteq DOMAIN heap'.obj
  BY DEF Same
<1>4. v \in ValuesOf(heap')
  BY <1>2 DEF ValuesOf, Same
<1> HIDE DEF A
<1>5. \A a \in A :
        /\ heap'.obj[a].kind = heap.obj[a].kind /\ heap'.obj[a].items = heap.obj[a].items
        /\ \A i \in DOMAIN heap.obj[a].items : heap.obj[a].items[i] \in {Scalar} \union A
  BY <1>1
<1>6. \A w \in {Scalar} \union A : Content(heap', w) = Content(heap, w)
  BY ONLY <1>3, <1>5, ContentSame
<1> QED BY <1>2, <1>4, <1>6

\* The variables have what journal u gives back, all of it if u is empty.
LEMMA Restored ==
  ASSUME HeapInv, SeparateInv, HeapInv', Same, NEW u,
         \A y \in Var : scope'[y] = OldCell(u, scope, y),
         \A y \in Var : scope'[y] # NoCell =>
           heap'.obj[scope'[y]].items[1] = OldItem(heap, u, scope'[y])
  PROVE  Contents(heap', scope') = OldContents(heap, scope, u)
<1>1. ASSUME NEW y \in Var, scope'[y] # NoCell
      PROVE  Content(heap', heap'.obj[scope'[y]].items[1])
               = Content(heap, OldItem(heap, u, OldCell(u, scope, y)))
  <2>1. PICK d : d = scope'[y]
    OBVIOUS
  <2>2. IsCell(heap', d)
    BY <1>1, <2>1, PairIs
  <2>3. PICK v : v = heap'.obj[d].items[1]
    OBVIOUS
  <2>4. 1 \in DOMAIN heap'.obj[d].items /\ v \in {Scalar} \union DOMAIN heap'.obj
    BY <2>2, <2>3, PairIs, CellHas
  <2>5. v \in ValuesOf(heap)
    BY <2>2, <2>3, <2>4 DEF Same, IsCell
  <2>6. Content(heap', v) = Content(heap, v)
    BY <2>4, <2>5, SameContent
  <2> QED BY <1>1, <2>1, <2>3, <2>6
<1> QED BY <1>1 DEF Contents, OldContents

\* An empty journal gives back what is there.
LEMMA NothingNoted ==
  ASSUME NEW h, NEW s
  PROVE  /\ \A y : OldCell(<<>>, s, y) = s[y]
         /\ \A c : OldItem(h, <<>>, c) = h.obj[c].items[1]
         /\ OldContents(h, s, <<>>) = Contents(h, s)
<1>1. \A key : Marks(<<>>, key) = {}
  BY DEF Marks
<1>2. (\A y : OldCell(<<>>, s, y) = s[y]) /\ \A c : OldItem(h, <<>>, c) = h.obj[c].items[1]
  BY <1>1 DEF OldCell, OldItem
<1> QED BY <1>2 DEF OldContents, Contents

\* The invariant holds where nothing is journaled.
LEMMA RestSeparate ==
  ASSUME HeapInv, SeparateInv, HeapInv', Same, undo' = <<>>, OneEach(scope'), acc' = acc,
         run'.at = "on" /\ run'.transactional => Contents(heap', scope') = before'
  PROVE  SeparateInv'
<1>1. Plain(heap')
  <2>1. \A a \in DOMAIN heap'.obj : \A i \in DOMAIN heap'.obj[a].items :
          /\ heap'.obj[a].items[i] \in ValuesOf(heap)
          /\ heap'.obj[a].items[i] \in {Scalar} \union DOMAIN heap'.obj
    BY PairIs DEF Same, Good, Holds
  <2> QED BY <2>1, SameContent DEF Plain
<1>2. acc' \in ValuesOf(heap') \union {Nothing}
  <2>1. acc' \in {Scalar, Nothing} \union DOMAIN heap'.obj
    BY PairIs DEF Sound, ValueIn
  <2>2. acc' \in ValuesOf(heap) \union {Nothing}
    BY DEF SeparateInv
  <2> QED BY <2>1, <2>2, SameContent DEF ValuesOf
<1>3. [y \in Var |-> OldCell(undo', scope', y)] = [y \in Var |-> scope'[y]]
  BY NothingNoted
<1>4. OneEach([y \in Var |-> OldCell(undo', scope', y)])
  BY <1>3 DEF OneEach
<1>5. OldContents(heap', scope', undo') = Contents(heap', scope')
  BY NothingNoted
<1> QED BY <1>1, <1>2, <1>4, <1>5 DEF SeparateInv

\* What Settle leaves at the end of a run.
LEMMA EndSame ==
  ASSUME HeapInv, SeparateInv, NEW h, Good(h), Settle(h),
         Sound(h, scope', acc', frames', undo'), DOMAIN h.obj = DOMAIN heap.obj,
         \A a \in DOMAIN h.obj :
           /\ h.obj[a].kind = heap.obj[a].kind
           /\ heap.obj[a].kind # "cell" => h.obj[a].items = heap.obj[a].items
           /\ \A i \in DOMAIN h.obj[a].items : h.obj[a].items[i] \in ValuesOf(heap)
  PROVE  Same /\ \A a \in DOMAIN heap'.obj : heap'.obj[a] = h.obj[a]
<1>1. Handles' \subseteq DOMAIN h.obj
  <2>1. HandlesOf(scope', acc', frames', undo') \subseteq DOMAIN h.obj
    BY RootsIn
  <2> QED BY <2>1 DEF Handles, HandlesOf
<1>2. DOMAIN heap'.obj \subseteq DOMAIN h.obj /\ \A a \in DOMAIN heap'.obj : heap'.obj[a] = h.obj[a]
  BY <1>1, SettleLeaves
<1> QED BY <1>2 DEF Same

\* A run begins with what is there.
LEMMA StartSeparate ==
  ASSUME HeapInv, SeparateInv, HeapInv', NEW fresh \in BOOLEAN, NEW transactional \in BOOLEAN,
         Start(fresh, transactional)
  PROVE  SeparateInv' /\ Contents(heap', scope') = Contents(heap, scope)
<1>1. /\ undo = <<>> /\ undo' = <<>>
      /\ run' = [at |-> "on", transactional |-> transactional, error |-> "none"]
      /\ heap' = IF fresh THEN NewLedger(heap) ELSE heap
      /\ before' = IF transactional THEN Contents(heap, scope) ELSE <<>>
      /\ UNCHANGED <<scope, acc>>
  BY DEF Start, HeapInv, RunIs
<1>2. /\ DOMAIN heap'.obj = DOMAIN heap.obj
      /\ \A a \in DOMAIN heap.obj : /\ heap'.obj[a].kind = heap.obj[a].kind
                                    /\ heap'.obj[a].items = heap.obj[a].items
  <2>1. CASE ~fresh
    BY <1>1, <2>1
  <2>2. CASE fresh
    <3>1. DOMAIN NewLedger(heap).obj = DOMAIN heap.obj
          /\ \A a \in DOMAIN heap.obj : NewLedger(heap).obj[a] = [heap.obj[a] EXCEPT !.home = "past"]
      BY DEF NewLedger
    <3>2. \A a \in DOMAIN heap.obj : Object(heap.obj[a])
      BY PairIs DEF Good
    <3> QED BY <1>1, <2>2, <3>1, <3>2 DEF Object
  <2> QED BY <2>1, <2>2
<1>3. Same
  BY <1>2 DEF Same, SeparateInv, Plain
<1>4. Contents(heap', scope') = OldContents(heap, scope, <<>>)
  <2>1. \A y \in Var : scope'[y] = OldCell(<<>>, scope, y)
    BY <1>1, NothingNoted
  <2>2. ASSUME NEW y \in Var, scope'[y] # NoCell
        PROVE  heap'.obj[scope'[y]].items[1] = OldItem(heap, <<>>, scope'[y])
    <3>1. PICK d : d = scope'[y]
      OBVIOUS
    <3>2. d \in DOMAIN heap.obj
      BY <1>2, <2>2, <3>1, PairIs DEF IsCell
    <3>3. OldItem(heap, <<>>, d) = heap.obj[d].items[1]
      BY NothingNoted
    <3> QED BY <1>2, <3>1, <3>2, <3>3
  <2> QED BY <1>3, <2>1, <2>2, Restored
<1>5. Contents(heap', scope') = Contents(heap, scope)
  BY <1>4, NothingNoted
<1>6. OneEach(scope')
  BY <1>1 DEF SeparateInv
<1>7. run'.transactional = transactional
  BY <1>1
<1>8. SeparateInv'
  BY <1>1, <1>3, <1>5, <1>6, <1>7, RestSeparate
<1> QED BY <1>5, <1>8

\* A run that ends well leaves what is there.
LEMMA CommitSeparate ==
  ASSUME HeapInv, SeparateInv, HeapInv', Commit
  PROVE  SeparateInv' /\ Contents(heap', scope') = Contents(heap, scope)
<1>1. /\ undo' = <<>> /\ run' = [run EXCEPT !.at = "over"]
      /\ UNCHANGED <<scope, acc, frames>>
      /\ Settle(Freed(heap, JournalBytes * Len(undo)))
  BY DEF Commit
<1>2. PICK n \in Nat : n = JournalBytes * Len(undo)
  <2>1. Len(undo) \in Nat
    BY PairIs
  <2> QED BY <2>1 DEF JournalBytes
<1>3. PICK h : h = Freed(heap, n)
  OBVIOUS
<1>4. Good(h) /\ h.obj = heap.obj
  BY <1>3, PairIs, FreedIs
<1>5. Sound(h, scope', acc', frames', undo')
  <2>1. Sound(heap, scope, acc, frames, undo)
    BY PairIs
  <2> QED BY <1>1, <1>4, <2>1, OwesNothing DEF Sound, ScopeIn, ValueIn, FramesIn, IsCell
<1>6. Same /\ \A a \in DOMAIN heap'.obj : heap'.obj[a] = heap.obj[a]
  <2>1. Settle(h)
    BY <1>1, <1>2, <1>3
  <2>2. \A a \in DOMAIN h.obj : \A i \in DOMAIN h.obj[a].items : h.obj[a].items[i] \in ValuesOf(heap)
    BY <1>4 DEF SeparateInv, Plain
  <2>3. Same /\ \A a \in DOMAIN heap'.obj : heap'.obj[a] = h.obj[a]
    BY <1>4, <1>5, <2>1, <2>2, EndSame
  <2> QED BY <1>4, <2>3
<1>7. Contents(heap', scope') = OldContents(heap, scope, <<>>)
  <2>1. \A y \in Var : scope'[y] = OldCell(<<>>, scope, y)
    BY <1>1, NothingNoted
  <2>2. ASSUME NEW y \in Var, scope'[y] # NoCell
        PROVE  heap'.obj[scope'[y]].items[1] = OldItem(heap, <<>>, scope'[y])
    <3>1. PICK d : d = scope'[y]
      OBVIOUS
    <3>2. d \in DOMAIN heap'.obj
      BY <2>2, <3>1, PairIs DEF IsCell
    <3>3. OldItem(heap, <<>>, d) = heap.obj[d].items[1]
      BY NothingNoted
    <3> QED BY <1>6, <3>1, <3>2, <3>3
  <2> QED BY <1>6, <2>1, <2>2, Restored
<1>8. Contents(heap', scope') = Contents(heap, scope)
  BY <1>7, NothingNoted
<1>9. OneEach(scope') /\ acc' = acc /\ run'.at # "on"
  <2>1. run \in RunSet
    BY StateIs
  <2> QED BY <1>1, <2>1 DEF SeparateInv, RunSet
<1>10. SeparateInv'
  BY <1>1, <1>6, <1>9, RestSeparate
<1> QED BY <1>8, <1>10

\* What rollback_submission puts back into the cells.
LEMMA OldValuesAre ==
  ASSUME HeapInv, SeparateInv
  PROVE  /\ DOMAIN OldValues(heap).obj = DOMAIN heap.obj
         /\ \A a \in DOMAIN heap.obj :
              /\ OldValues(heap).obj[a].kind = heap.obj[a].kind
              /\ heap.obj[a].kind # "cell" => OldValues(heap).obj[a].items = heap.obj[a].items
              /\ heap.obj[a].kind = "cell" => OldValues(heap).obj[a].items = <<OldItem(heap, undo, a)>>
              /\ \A i \in DOMAIN OldValues(heap).obj[a].items :
                   OldValues(heap).obj[a].items[i] \in ValuesOf(heap)
<1> DEFINE g == OldValues(heap)
           was(a) == IF Marks(undo, CellKey(a)) = {} THEN heap.obj[a]
                     ELSE [heap.obj[a] EXCEPT !.items = <<Mark(undo, CellKey(a)).old>>]
<1>1. /\ DOMAIN g.obj = DOMAIN heap.obj
      /\ \A a \in DOMAIN heap.obj : g.obj[a] = was(a)
  <2>1. DOMAIN heap = {"obj", "live"}
    BY StateIs DEF Good
  <2> QED BY <2>1 DEF OldValues, Marks, Mark
<1> HIDE DEF g
<1>2. Good(heap) /\ undo \in Seq(EntrySet)
  BY KeptAsIs
<1>3. ASSUME NEW a \in DOMAIN heap.obj
      PROVE  /\ g.obj[a].kind = heap.obj[a].kind
             /\ heap.obj[a].kind # "cell" => g.obj[a].items = heap.obj[a].items
             /\ heap.obj[a].kind = "cell" => g.obj[a].items = <<OldItem(heap, undo, a)>>
             /\ \A i \in DOMAIN g.obj[a].items : g.obj[a].items[i] \in ValuesOf(heap)
  <2>1. Object(heap.obj[a]) /\ Holds(heap, heap.obj[a].items) /\ a \in Address /\ a # NoCell
    BY <1>2, HeapAssumption DEF Good, NoCell
  <2>2. \A i \in DOMAIN heap.obj[a].items : heap.obj[a].items[i] \in ValuesOf(heap)
    BY DEF SeparateInv, Plain
  <2>3. CASE Marks(undo, CellKey(a)) = {}
    <3>1. g.obj[a] = heap.obj[a] /\ OldItem(heap, undo, a) = heap.obj[a].items[1]
      BY <1>1, <2>3 DEF OldItem
    <3>2. ASSUME heap.obj[a].kind = "cell" PROVE heap.obj[a].items = <<heap.obj[a].items[1]>>
      <4>1. PICK q : q = heap.obj[a].items
        OBVIOUS
      <4>2. q \in Seq(Nat) /\ Len(q) = 1
        BY <2>1, <3>2, <4>1 DEF Object, Formed
      <4>3. q = <<q[1]>>
        BY <4>2
      <4> QED BY <4>1, <4>3
    <3> QED BY <2>2, <3>1, <3>2
  <2>4. CASE Marks(undo, CellKey(a)) # {}
    <3>1. PICK j \in DOMAIN undo : Mark(undo, CellKey(a)) = undo[j] /\ undo[j].key = CellKey(a)
      BY <1>2, <2>4, MarkIs
    <3>2. IsCell(heap, a)
      BY <2>1, <3>1, UndoIs
    <3>3. PICK v : v = undo[j].old /\ v \in ValuesOf(heap)
      BY DEF SeparateInv
    <3>4. g.obj[a] = [heap.obj[a] EXCEPT !.items = <<v>>]
      BY <1>1, <2>4, <3>1, <3>3
    <3>5. OldItem(heap, undo, a) = v
      BY <2>4, <3>1, <3>3 DEF OldItem
    <3> HIDE DEF was
    <3>6. g.obj[a].items = <<v>> /\ g.obj[a].kind = heap.obj[a].kind
      BY <2>1, <3>4 DEF Object
    <3> QED BY <3>2, <3>3, <3>5, <3>6 DEF IsCell
  <2> QED BY <2>3, <2>4
<1> QED BY <1>1, <1>3 DEF g

\* A run that fails gives back what was there, if it is a transaction.
LEMMA RollbackSeparate ==
  ASSUME HeapInv, SeparateInv, HeapInv', Rollback
  PROVE  /\ SeparateInv'
         /\ Contents(heap', scope') = IF run.transactional THEN before ELSE Contents(heap, scope)
<1>1. /\ undo' = <<>> /\ run' = [run EXCEPT !.at = "over"] /\ run.at = "on"
      /\ scope' = [y \in Var |-> OldBinding(y)]
      /\ UNCHANGED <<acc, frames>>
      /\ Settle(Freed(OldValues(heap), JournalBytes * Len(undo)))
  BY DEF Rollback
<1>2. PICK n \in Nat : n = JournalBytes * Len(undo)
  <2>1. Len(undo) \in Nat
    BY PairIs
  <2> QED BY <2>1 DEF JournalBytes
<1>3. PICK g : g = OldValues(heap)
  OBVIOUS
<1>4. Good(g) /\ Extends(g, heap)
  BY <1>3, OldValuesIs
<1>5. PICK h : h = Freed(g, n)
  OBVIOUS
<1>6. Good(h) /\ h.obj = g.obj
  BY <1>4, <1>5, FreedIs
<1>7. /\ DOMAIN h.obj = DOMAIN heap.obj
      /\ \A a \in DOMAIN heap.obj :
           /\ h.obj[a].kind = heap.obj[a].kind
           /\ heap.obj[a].kind # "cell" => h.obj[a].items = heap.obj[a].items
           /\ heap.obj[a].kind = "cell" => h.obj[a].items = <<OldItem(heap, undo, a)>>
           /\ \A i \in DOMAIN h.obj[a].items : h.obj[a].items[i] \in ValuesOf(heap)
  BY <1>3, <1>6, OldValuesAre
<1>8. \A y \in Var : scope'[y] = OldCell(undo, scope, y)
  BY <1>1 DEF OldBinding, OldCell, Marks, Mark
<1>9. Sound(h, scope', acc', frames', undo')
  <2>1. Sound(heap, scope, acc, frames, undo)
    BY PairIs
  <2>2. scope' \in [Var -> Nat] /\ \A y \in Var : scope'[y] # NoCell => IsCell(heap, scope'[y])
    BY <1>1, OldBindingIs DEF ScopeIn
  <2> QED BY <1>1, <1>6, <1>7, <2>1, <2>2, OwesNothing DEF Sound, ScopeIn, ValueIn, FramesIn, IsCell
<1>10. Same /\ \A a \in DOMAIN heap'.obj : heap'.obj[a] = h.obj[a]
  <2>1. Settle(h)
    BY <1>1, <1>2, <1>3, <1>5
  <2> QED BY <1>6, <1>7, <1>9, <2>1, EndSame
<1>11. Contents(heap', scope') = OldContents(heap, scope, undo)
  <2>1. ASSUME NEW y \in Var, scope'[y] # NoCell
        PROVE  heap'.obj[scope'[y]].items[1] = OldItem(heap, undo, scope'[y])
    <3>1. PICK d : d = scope'[y]
      OBVIOUS
    <3>2. d \in DOMAIN heap'.obj /\ heap'.obj[d].kind = "cell"
      BY <2>1, <3>1, PairIs DEF IsCell
    <3>3. heap'.obj[d].items = <<OldItem(heap, undo, d)>>
      BY <1>7, <1>10, <3>2 DEF Same
    <3> QED BY <3>1, <3>3
  <2> QED BY <1>8, <1>10, <2>1, Restored
<1>12. Contents(heap', scope') = IF run.transactional THEN before ELSE Contents(heap, scope)
  <2>1. CASE run.transactional
    BY <1>1, <1>11, <2>1 DEF SeparateInv
  <2>2. CASE ~run.transactional
    <3>1. undo = <<>>
      BY <2>2 DEF SeparateInv
    <3> QED BY <1>11, <2>2, <3>1, NothingNoted
  <2> QED BY <2>1, <2>2
<1>13. OneEach(scope') /\ acc' = acc /\ run'.at # "on"
  <2>1. run \in RunSet
    BY StateIs
  <2> QED BY <1>1, <1>8, <2>1 DEF SeparateInv, OneEach, RunSet
<1>14. SeparateInv'
  BY <1>1, <1>10, <1>13, RestSeparate
<1> QED BY <1>12, <1>14

-----------------------------------------------------------------------------
(* No step but one changes a variable *)

\* It holds at first.
LEMMA InitSeparate ==
  ASSUME Init
  PROVE  SeparateInv
<1>1. PICK x \in Var : \E l \in Left(x) :
        l.heap.live <= HeapLimit /\ heap = l.heap /\ scope = l.scope
  BY DEF Init
<1>2. PICK l \in Left(x) : heap = l.heap /\ scope = l.scope
  BY <1>1
<1>3. Plain(heap) /\ OneEach(scope)
  BY <1>2, LeftIs
<1>4. acc = Nothing /\ undo = <<>> /\ run.at = "idle"
  BY DEF Init
<1>5. [y \in Var |-> OldCell(undo, scope, y)] = [y \in Var |-> scope[y]]
  BY <1>4, NothingNoted
<1>6. OneEach([y \in Var |-> OldCell(undo, scope, y)])
  BY <1>3, <1>5 DEF OneEach
<1> QED BY <1>3, <1>4, <1>6 DEF SeparateInv

\* It holds after every step.
LEMMA NextSeparate ==
  ASSUME HeapInv, SeparateInv, HeapInv', [Next]_vars
  PROVE  SeparateInv'
<1>1. ASSUME Work \/ Leave \/ Catch PROVE SeparateInv'
  BY <1>1, WorkTouches, LeaveTouches, CatchTouches, SeparateKept
<1>2. CASE Commit
  BY <1>2, CommitSeparate
<1>3. CASE Rollback
  BY <1>3, RollbackSeparate
<1>4. ASSUME NEW fresh \in BOOLEAN, NEW transactional \in BOOLEAN, Start(fresh, transactional)
      PROVE  SeparateInv'
  BY <1>4, StartSeparate
<1>5. CASE UNCHANGED vars
  <2>1. heap' = heap /\ scope' = scope /\ acc' = acc /\ undo' = undo /\ run' = run /\ before' = before
    BY <1>5 DEF vars
  <2> QED BY <2>1 DEF SeparateInv
<1> QED BY <1>1, <1>2, <1>3, <1>4, <1>5 DEF Next

\* What ValuesAreSeparate says of a step.
Apart ==
  LET old == Contents(heap, scope)
      new == Contents(heap', scope')
      ended == run.at = "on" /\ run'.at = "over"
  IN  IF ended
      THEN new = IF run.error # "none" /\ run.transactional THEN before ELSE old
      ELSE Cardinality({x \in DOMAIN new : x \notin DOMAIN old \/ new[x] # old[x]}) <= 1

\* A step that changes no variable but x, and ends no run, keeps values apart.
LEMMA OneChange ==
  ASSUME NEW x, ~(run.at = "on" /\ run'.at = "over"),
         \A y \in DOMAIN Contents(heap', scope') : y # x =>
           y \in DOMAIN Contents(heap, scope) /\ Contents(heap', scope')[y] = Contents(heap, scope)[y]
  PROVE  Apart
<1> DEFINE old == Contents(heap, scope)
           new == Contents(heap', scope')
           S == {y \in DOMAIN new : y \notin DOMAIN old \/ new[y] # old[y]}
<1>1. S \subseteq {x}
  OBVIOUS
<1>2. IsFiniteSet({x}) /\ Cardinality({x}) = 1
  BY FS_Singleton
<1> HIDE DEF S
<1>3. Cardinality(S) <= 1
  BY <1>1, <1>2, FS_Subset
<1> QED BY <1>3 DEF Apart, S

\* Every step keeps values apart.
LEMMA NextApart ==
  ASSUME HeapInv, SeparateInv, HeapInv', Next
  PROVE  Apart
<1>1. ASSUME NEW x, NEW c, NEW t, Touches(x, c, t) PROVE Apart
  <2>1. run'.at # "over"
    BY <1>1 DEF Touches
  <2>2. ASSUME NEW y \in DOMAIN Contents(heap', scope'), y # x
        PROVE  y \in DOMAIN Contents(heap, scope)
               /\ Contents(heap', scope')[y] = Contents(heap, scope)[y]
    <3>1. y \in Var /\ scope'[y] # NoCell
      BY DEF Contents
    <3>2. /\ scope[y] = scope'[y]
          /\ Content(heap', heap'.obj[scope'[y]].items[1])
               = Content(heap, heap.obj[scope[y]].items[1])
      BY <1>1, <2>2, <3>1, ChangesOne
    <3> QED BY <3>1, <3>2 DEF Contents
  <2> QED BY <2>1, <2>2, OneChange
<1>2. ASSUME Work \/ Leave \/ Catch PROVE Apart
  BY <1>1, <1>2, WorkTouches, LeaveTouches, CatchTouches
<1>3. CASE Commit
  <2>1. run.at = "on" /\ run.error = "none" /\ run'.at = "over"
    BY <1>3, StateIs DEF Commit, Running, RunSet
  <2> QED BY <1>3, <2>1, CommitSeparate DEF Apart
<1>4. CASE Rollback
  <2>1. run.at = "on" /\ run.error # "none" /\ run'.at = "over"
    BY <1>4, StateIs DEF Rollback, RunSet
  <2> QED BY <1>4, <2>1, RollbackSeparate DEF Apart
<1>5. ASSUME NEW fresh \in BOOLEAN, NEW transactional \in BOOLEAN, Start(fresh, transactional)
      PROVE  Apart
  <2>1. run.at = "idle"
    BY <1>5 DEF Start
  <2>2. Contents(heap', scope') = Contents(heap, scope)
    BY <1>5, StartSeparate
  <2> QED BY <2>1, <2>2, OneChange
<1> QED BY <1>2, <1>3, <1>4, <1>5 DEF Next

\* Values have no identity (detach): a step changes the contents of one
\* variable at most, for any sharing of backings, and a transaction that fails
\* gives all of them back (rollback_submission), for any number of variables,
\* elements, frames and steps.
THEOREM ValuesAreSeparateHolds == Spec => ValuesAreSeparate
<1>1. Init => HeapInv /\ SeparateInv
  BY InitHolds, InitSeparate
<1>2. HeapInv /\ SeparateInv /\ [Next]_vars => (HeapInv /\ SeparateInv)'
  <2> SUFFICES ASSUME HeapInv, SeparateInv, [Next]_vars PROVE HeapInv' /\ SeparateInv'
    OBVIOUS
  <2>1. HeapInv'
    BY NextKeeps
  <2> QED BY <2>1, NextSeparate
<1>3. HeapInv /\ SeparateInv /\ [Next]_vars => [Apart]_vars
  BY NextKeeps, NextApart
<1> QED BY <1>1, <1>2, <1>3, PTL DEF Spec, ValuesAreSeparate, Apart

=============================================================================
