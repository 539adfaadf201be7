----------------------------- MODULE ProofLemmas -----------------------------
(***************************************************************************)
(* Facts the proofs of several modules rest on: induction over the natural *)
(* numbers and over the subsets of a finite set, stated for a set T of the *)
(* values that have the property; what the folds of the community modules  *)
(* compute; the minimum of a set of numbers; quotient and remainder.       *)
(***************************************************************************)
EXTENDS Integers, Sequences, FiniteSets, FiniteSetsExt, FiniteSetTheorems,
        SequenceTheorems, WellFoundedInduction, NaturalsInduction, TLAPS

(***************************************************************************)
(* Arithmetic                                                              *)
(***************************************************************************)

LEMMA DivMod ==
  ASSUME NEW n \in Nat \ {0}, NEW q \in Nat, NEW r \in 0 .. n - 1
  PROVE  (q * n + r) \div n = q /\ (q * n + r) % n = r
<1>1. (q * n + r) \div n = q
  OBVIOUS
<1>2. (q * n + r) % n = r
  OBVIOUS
<1> QED
  BY <1>1, <1>2

\* Number x of m blocks of n: the block it is in, and its place there.
LEMMA DivModBound ==
  ASSUME NEW n \in Nat \ {0}, NEW m \in Nat, NEW x \in 0 .. m * n - 1
  PROVE  /\ x \div n \in 0 .. m - 1
         /\ x % n \in 0 .. n - 1
         /\ x = (x \div n) * n + (x % n)
<1>1. x \in Nat /\ x < m * n
  OBVIOUS
<1>2. x % n \in 0 .. n - 1 /\ x \div n \in Int /\ x = (x \div n) * n + (x % n)
  BY <1>1
<1> DEFINE q == x \div n
<1> HIDE DEF q
<1>3. q >= 0
  BY <1>1 DEF q
<1>4. q < m
  <2> SUFFICES ASSUME q >= m PROVE FALSE
    BY <1>2 DEF q
  <2>1. q * n >= m * n
    BY <1>2 DEF q
  <2> QED
    BY <2>1, <1>1, <1>2 DEF q
<1> QED
  BY <1>2, <1>3, <1>4 DEF q

(***************************************************************************)
(* Induction                                                               *)
(***************************************************************************)

Less == {p \in Nat \X Nat : p[1] < p[2]}

LEMMA LessWellFounded == IsWellFoundedOn(Less, Nat)
BY NatLessThanWellFounded DEF OpToRel, Less

\* A set of natural numbers that is not empty has a least element.
LEMMA LeastElement ==
  ASSUME NEW S, S \subseteq Nat, S # {}
  PROVE  \E x \in S : \A y \in S : x <= y
<1>1. PICK x \in S : \A y \in S : ~(<<y, x>> \in Less)
  BY LessWellFounded, WFMin
<1>2. ASSUME NEW y \in S PROVE x <= y
  <2> SUFFICES ASSUME ~(x <= y) PROVE FALSE
    OBVIOUS
  <2>1. <<y, x>> \in Nat \X Nat /\ y < x
    OBVIOUS
  <2> QED
    BY <1>1, <2>1 DEF Less
<1> QED
  BY <1>2

LEMMA MinIsLeast ==
  ASSUME NEW S, S \subseteq Nat, S # {}
  PROVE  Min(S) \in S /\ \A y \in S : Min(S) <= y
<1>1. \E x \in S : \A y \in S : x <= y
  BY LeastElement
<1> QED
  BY <1>1 DEF Min

LEMMA InductionOverNat ==
  ASSUME NEW T, 0 \in T, \A n \in Nat : n \in T => n + 1 \in T
  PROVE  Nat \subseteq T
<1> DEFINE U == Nat \ T
<1>1. SUFFICES ASSUME U # {} PROVE FALSE
  OBVIOUS
<1>2. PICK x \in U : \A y \in U : x <= y
  <2> HIDE DEF U
  <2>1. U \subseteq Nat
    BY DEF U
  <2> QED
    BY <1>1, <2>1, LeastElement
<1>3. x \in Nat /\ x - 1 \in Nat
  OBVIOUS
<1>4. x - 1 \in T
  BY <1>2, <1>3
<1> QED
  BY <1>3, <1>4

\* Induction along an interval that begins at 0.
LEMMA InductionUpTo ==
  ASSUME NEW N \in Nat, NEW T, 0 \in T, \A n \in 0 .. N - 1 : n \in T => n + 1 \in T
  PROVE  0 .. N \subseteq T
<1> DEFINE V == {n \in Nat : n <= N => n \in T}
<1>1. 0 \in V
  OBVIOUS
<1>2. ASSUME NEW n \in Nat, n \in V PROVE n + 1 \in V
  BY <1>2
<1> HIDE DEF V
<1>3. Nat \subseteq V
  BY <1>1, <1>2, InductionOverNat
<1> QED
  BY <1>3 DEF V

\* A property of the empty set is one of every subset of S if a set inherits it from
\* the sets with one element less.
LEMMA InductionOverSubsets ==
  ASSUME NEW S, IsFiniteSet(S), NEW T, {} \in T,
         \A s \in SUBSET S : s # {} /\ (\A x \in s : s \ {x} \in T) => s \in T
  PROVE  SUBSET S \subseteq T
<1> DEFINE V == {n \in Nat : \A s \in SUBSET S : Cardinality(s) = n => s \in T}
<1>1. \A s \in SUBSET S : IsFiniteSet(s) /\ Cardinality(s) \in Nat
  BY FS_Subset, FS_CardinalityType
<1>2. 0 \in V
  BY <1>1, FS_EmptySet
<1>3. ASSUME NEW n \in Nat, n \in V PROVE n + 1 \in V
  <2> SUFFICES ASSUME NEW s \in SUBSET S, Cardinality(s) = n + 1 PROVE s \in T
    OBVIOUS
  <2>1. s # {}
    <3>1. Cardinality({}) = 0
      BY FS_EmptySet
    <3>2. n + 1 # 0
      OBVIOUS
    <3> QED
      BY <3>1, <3>2
  <2>2. ASSUME NEW x \in s PROVE s \ {x} \in T
    <3>1. Cardinality(s \ {x}) = Cardinality(s) - 1
      BY <1>1, FS_RemoveElement
    <3>2. (n + 1) - 1 = n
      OBVIOUS
    <3>3. s \ {x} \in SUBSET S /\ Cardinality(s \ {x}) = n
      BY <3>1, <3>2
    <3> QED
      BY <1>3, <3>3
  <2> QED
    BY <2>1, <2>2
<1> HIDE DEF V
<1>4. Nat \subseteq V
  BY <1>2, <1>3, InductionOverNat
<1> QED
  BY <1>1, <1>4 DEF V

(***************************************************************************)
(* Folds                                                                   *)
(***************************************************************************)

\* The recursion of MapThenFoldSet over the subsets of a finite set S has a
\* solution: F[<<x, v>>] is what an element x makes of the value v.
Recursion(it, S, base, F) ==
  it = [s \in SUBSET S |->
          IF s = {} THEN base
          ELSE F[<<CHOOSE x \in s : TRUE, it[s \ {CHOOSE x \in s : TRUE}]>>]]

LEMMA RecursionExists ==
  ASSUME NEW S, IsFiniteSet(S), NEW V, NEW base \in V, NEW F \in [S \X V -> V]
  PROVE  \E it \in [SUBSET S -> V] : Recursion(it, S, base, F)
<1> DEFINE first(s) == CHOOSE x \in s : TRUE
           small(n) == {s \in SUBSET S : Cardinality(s) <= n}
           step(g, s) == IF s = {} THEN base ELSE F[<<first(s), g[s \ {first(s)}]>>]
           T == {n \in Nat : \E g \in [small(n) -> V] : \A s \in small(n) : g[s] = step(g, s)}
<1>1. \A s \in SUBSET S : IsFiniteSet(s) /\ Cardinality(s) \in Nat
  BY FS_Subset, FS_CardinalityType
<1>2. \A s \in SUBSET S : s # {} => first(s) \in s
  OBVIOUS
<1>3. \A s \in SUBSET S :
        s # {} => s \ {first(s)} \in SUBSET S /\ Cardinality(s \ {first(s)}) = Cardinality(s) - 1
  BY <1>1, <1>2, FS_RemoveElement
<1>4. 0 \in T
  <2> DEFINE g == [s \in small(0) |-> base]
  <2>1. \A s \in small(0) : s = {}
    BY <1>1, FS_EmptySet
  <2>2. g \in [small(0) -> V] /\ \A s \in small(0) : g[s] = step(g, s)
    BY <2>1
  <2> QED
    BY <2>2
<1>5. ASSUME NEW n \in Nat, n \in T PROVE n + 1 \in T
  <2>1. PICK g \in [small(n) -> V] : \A s \in small(n) : g[s] = step(g, s)
    BY <1>5
  <2> DEFINE h == [s \in small(n + 1) |-> step(g, s)]
  <2>2. ASSUME NEW s \in small(n + 1), s # {}
        PROVE  s \ {first(s)} \in small(n) /\ first(s) \in S
    BY <1>1, <1>2, <1>3, <2>2
  <2>3. \A s \in small(n) : s \in small(n + 1)
    BY <1>1
  <2> HIDE DEF first, small
  <2>4. h \in [small(n + 1) -> V]
    BY <2>2
  <2>5. \A s \in small(n) : h[s] = g[s]
    BY <2>1, <2>3
  <2> HIDE DEF h
  <2>6. \A s \in small(n + 1) : h[s] = step(h, s)
    <3> SUFFICES ASSUME NEW s \in small(n + 1) PROVE h[s] = step(h, s)
      OBVIOUS
    <3>1. h[s] = step(g, s)
      BY DEF h
    <3> QED
      BY <2>2, <2>5, <3>1
  <2>7. n + 1 \in Nat
    OBVIOUS
  <2> HIDE DEF step
  <2> QED
    BY <2>4, <2>6, <2>7
<1> HIDE DEF T
<1>6. Nat \subseteq T
  BY <1>4, <1>5, InductionOverNat
<1>7. Cardinality(S) \in T
  BY <1>6, FS_CardinalityType
<1>8. small(Cardinality(S)) = SUBSET S
  BY FS_Subset
<1>9. PICK g \in [SUBSET S -> V] : \A s \in SUBSET S : g[s] = step(g, s)
  BY <1>7, <1>8 DEF T
<1>10. Recursion(g, S, base, F)
  BY <1>9 DEF Recursion
<1> QED
  BY <1>10

(***************************************************************************)
(* Sums                                                                    *)
(***************************************************************************)

\* The element the fold takes first.
Taken(s) == CHOOSE x \in s : TRUE

Adds(it, f, S) ==
  it = [s \in SUBSET S |-> IF s = {} THEN 0 ELSE f[Taken(s)] + it[s \ {Taken(s)}]]

LEMMA SumIsRecursion ==
  ASSUME NEW S, IsFiniteSet(S), NEW f, \A x \in S : f[x] \in Int
  PROVE  \E it \in [SUBSET S -> Int] : Adds(it, f, S) /\ SumFunctionOnSet(f, S) = it[S]
<1> DEFINE F == [p \in S \X Int |-> f[p[1]] + p[2]]
           d == CHOOSE it : Adds(it, f, S)
<1>1. F \in [S \X Int -> Int]
  OBVIOUS
<1>2. PICK it \in [SUBSET S -> Int] : Recursion(it, S, 0, F)
  <2> HIDE DEF F
  <2>1. 0 \in Int
    OBVIOUS
  <2> QED
    BY <1>1, <2>1, RecursionExists
<1>3. \A s \in SUBSET S : s # {} => Taken(s) \in S /\ it[s \ {Taken(s)}] \in Int
  BY DEF Taken
<1>4. \A s \in SUBSET S :
        s # {} => F[<<Taken(s), it[s \ {Taken(s)}]>>] = f[Taken(s)] + it[s \ {Taken(s)}]
  BY <1>3
<1>5. it = [s \in SUBSET S |-> IF s = {} THEN 0 ELSE F[<<Taken(s), it[s \ {Taken(s)}]>>]]
  BY <1>2 DEF Recursion, Taken
<1>6. Adds(it, f, S)
  <2> HIDE DEF F
  <2> QED
    BY <1>4, <1>5 DEF Adds
<1>7. Adds(d, f, S)
  BY <1>6
<1>8. SumFunctionOnSet(f, S) = d[S]
  BY DEF SumFunctionOnSet, FoldFunctionOnSet, MapThenFoldSet, Adds, Taken
<1>9. d \in [SUBSET S -> Int]
  <2> HIDE DEF d
  <2> DEFINE T == {s \in SUBSET S : d[s] \in Int}
  <2>1. d = [s \in SUBSET S |-> IF s = {} THEN 0 ELSE f[Taken(s)] + d[s \ {Taken(s)}]]
    BY <1>7 DEF Adds
  <2>2. {} \in T
    BY <2>1
  <2>3. ASSUME NEW s \in SUBSET S, s # {}, \A x \in s : s \ {x} \in T PROVE s \in T
    <3>1. Taken(s) \in s
      BY <2>3 DEF Taken
    <3>2. d[s \ {Taken(s)}] \in Int /\ f[Taken(s)] \in Int
      BY <2>3, <3>1
    <3>3. d[s] = f[Taken(s)] + d[s \ {Taken(s)}]
      BY <2>1, <2>3
    <3> QED
      BY <3>2, <3>3
  <2>4. SUBSET S \subseteq T
    <3> HIDE DEF T
    <3> QED
      BY <2>2, <2>3, InductionOverSubsets
  <2> QED
    BY <2>1, <2>4
<1> QED
  BY <1>7, <1>8, <1>9

\* Two solutions of the recursion agree where both are defined.
LEMMA AddsUnique ==
  ASSUME NEW S, IsFiniteSet(S), NEW T \in SUBSET S, NEW f,
         NEW g, Adds(g, f, S), NEW h, Adds(h, f, T)
  PROVE  g[T] = h[T]
<1> DEFINE W == {s \in SUBSET T : g[s] = h[s]}
<1>1. g = [s \in SUBSET S |-> IF s = {} THEN 0 ELSE f[Taken(s)] + g[s \ {Taken(s)}]]
  BY DEF Adds
<1>2. h = [s \in SUBSET T |-> IF s = {} THEN 0 ELSE f[Taken(s)] + h[s \ {Taken(s)}]]
  BY DEF Adds
<1>3. {} \in W
  BY <1>1, <1>2
<1>4. ASSUME NEW s \in SUBSET T, s # {}, \A x \in s : s \ {x} \in W PROVE s \in W
  <2>1. Taken(s) \in s
    BY <1>4 DEF Taken
  <2>2. g[s \ {Taken(s)}] = h[s \ {Taken(s)}]
    BY <1>4, <2>1
  <2>3. s \in SUBSET S /\ g[s] = f[Taken(s)] + g[s \ {Taken(s)}]
    BY <1>1, <1>4
  <2>4. h[s] = f[Taken(s)] + h[s \ {Taken(s)}]
    BY <1>2, <1>4
  <2> QED
    BY <2>2, <2>3, <2>4
<1>5. IsFiniteSet(T)
  BY FS_Subset
<1>6. SUBSET T \subseteq W
  <2> HIDE DEF W
  <2> QED
    BY <1>3, <1>4, <1>5, InductionOverSubsets
<1> QED
  BY <1>6

LEMMA SumUnfolds ==
  ASSUME NEW S, IsFiniteSet(S), NEW f, \A x \in S : f[x] \in Int
  PROVE  /\ SumFunctionOnSet(f, S) \in Int
         /\ S = {} => SumFunctionOnSet(f, S) = 0
         /\ S # {} => /\ Taken(S) \in S
                      /\ SumFunctionOnSet(f, S)
                           = f[Taken(S)] + SumFunctionOnSet(f, S \ {Taken(S)})
<1>1. PICK g \in [SUBSET S -> Int] : Adds(g, f, S) /\ SumFunctionOnSet(f, S) = g[S]
  BY SumIsRecursion
<1>2. g = [s \in SUBSET S |-> IF s = {} THEN 0 ELSE f[Taken(s)] + g[s \ {Taken(s)}]]
  BY <1>1 DEF Adds
<1>3. ASSUME S # {}
      PROVE  /\ Taken(S) \in S
             /\ SumFunctionOnSet(f, S) = f[Taken(S)] + SumFunctionOnSet(f, S \ {Taken(S)})
  <2> DEFINE T == S \ {Taken(S)}
  <2>1. Taken(S) \in S
    BY <1>3 DEF Taken
  <2>2. IsFiniteSet(T) /\ T \in SUBSET S
    BY FS_Subset
  <2> HIDE DEF T
  <2>3. \A x \in T : f[x] \in Int
    BY <2>2
  <2>4. PICK h \in [SUBSET T -> Int] : Adds(h, f, T) /\ SumFunctionOnSet(f, T) = h[T]
    BY <2>2, <2>3, SumIsRecursion
  <2>5. g[T] = h[T]
    BY <1>1, <2>2, <2>4, AddsUnique
  <2>6. g[S] = f[Taken(S)] + g[T]
    BY <1>2, <1>3 DEF T
  <2> QED
    BY <1>1, <2>1, <2>4, <2>5, <2>6 DEF T
<1>4. S = {} => SumFunctionOnSet(f, S) = 0
  BY <1>1, <1>2
<1>5. SumFunctionOnSet(f, S) \in Int
  BY <1>1
<1> QED
  BY <1>3, <1>4, <1>5

\* The order of a sum does not matter.
LEMMA SumTakeAny ==
  ASSUME NEW S, IsFiniteSet(S), NEW f, \A x \in S : f[x] \in Int
  PROVE  \A x \in S : SumFunctionOnSet(f, S) = f[x] + SumFunctionOnSet(f, S \ {x})
<1> DEFINE sum(s) == SumFunctionOnSet(f, s)
           T == {s \in SUBSET S : \A x \in s : sum(s) = f[x] + sum(s \ {x})}
<1>0. ASSUME NEW s \in SUBSET S
      PROVE  /\ sum(s) \in Int
             /\ s # {} => Taken(s) \in s /\ sum(s) = f[Taken(s)] + sum(s \ {Taken(s)})
  <2>1. IsFiniteSet(s) /\ \A x \in s : f[x] \in Int
    BY FS_Subset
  <2> QED
    BY <2>1, SumUnfolds
<1> HIDE DEF sum
<1>1. {} \in T
  OBVIOUS
<1>2. ASSUME NEW s \in SUBSET S, s # {}, \A x \in s : s \ {x} \in T PROVE s \in T
  <2> SUFFICES ASSUME NEW x \in s PROVE sum(s) = f[x] + sum(s \ {x})
    OBVIOUS
  <2> DEFINE c == Taken(s)
  <2>1. c \in s /\ sum(s) = f[c] + sum(s \ {c})
    BY <1>0, <1>2
  <2> HIDE DEF c
  <2>2. CASE c = x
    BY <2>1, <2>2
  <2>3. CASE c # x
    <3>1. sum(s \ {c}) = f[x] + sum((s \ {c}) \ {x})
      BY <1>2, <2>1, <2>3
    <3>2. sum(s \ {x}) = f[c] + sum((s \ {x}) \ {c})
      BY <1>2, <2>1, <2>3
    <3>3. (s \ {c}) \ {x} = (s \ {x}) \ {c}
      OBVIOUS
    <3>4. sum((s \ {c}) \ {x}) \in Int /\ f[c] \in Int /\ f[x] \in Int
      BY <1>0, <2>1
    <3> DEFINE v == sum((s \ {c}) \ {x})
               a == f[c]
               b == f[x]
    <3>5. sum(s) = a + (b + v) /\ sum(s \ {x}) = a + v
      BY <2>1, <3>1, <3>2, <3>3
    <3>6. a \in Int /\ b \in Int /\ v \in Int
      BY <3>4
    <3> HIDE DEF v, a, b
    <3>7. a + (b + v) = b + (a + v)
      BY <3>6
    <3> QED
      BY <3>5, <3>7 DEF b
  <2> QED
    BY <2>2, <2>3
<1>3. SUBSET S \subseteq T
  <2> HIDE DEF T
  <2> QED
    BY <1>1, <1>2, InductionOverSubsets
<1> QED
  BY <1>3 DEF sum

LEMMA SumBound ==
  ASSUME NEW S, IsFiniteSet(S), NEW B \in Nat, NEW f, \A x \in S : f[x] \in 0 .. B
  PROVE  SumFunctionOnSet(f, S) \in 0 .. B * Cardinality(S)
<1> DEFINE sum(s) == SumFunctionOnSet(f, s)
           T == {s \in SUBSET S : sum(s) \in 0 .. B * Cardinality(s)}
<1>0. ASSUME NEW s \in SUBSET S
      PROVE  /\ IsFiniteSet(s) /\ Cardinality(s) \in Nat
             /\ s = {} => sum(s) = 0
             /\ s # {} => Taken(s) \in s /\ sum(s) = f[Taken(s)] + sum(s \ {Taken(s)})
  <2>1. IsFiniteSet(s) /\ \A x \in s : f[x] \in Int
    BY FS_Subset
  <2> QED
    BY <2>1, SumUnfolds, FS_CardinalityType
<1> HIDE DEF sum
<1>1. {} \in T
  <2>1. sum({}) = 0
    BY <1>0
  <2>2. Cardinality({}) = 0
    BY FS_EmptySet
  <2>3. B * 0 = 0
    OBVIOUS
  <2> QED
    BY <2>1, <2>2, <2>3
<1>2. ASSUME NEW s \in SUBSET S, s # {}, \A x \in s : s \ {x} \in T PROVE s \in T
  <2> DEFINE c == Taken(s)
             n == Cardinality(s)
             v == sum(s \ {c})
  <2>1. c \in s /\ sum(s) = f[c] + v
    BY <1>0, <1>2
  <2>2. Cardinality(s \ {c}) = n - 1 /\ n \in Nat
    BY <1>0, <2>1, FS_RemoveElement
  <2>3. v \in 0 .. B * (n - 1)
    BY <1>2, <2>1, <2>2
  <2>4. f[c] \in 0 .. B
    BY <2>1
  <2> HIDE DEF c, n, v
  <2>5. B * (n - 1) = B * n - B /\ B * n \in Int
    BY <2>2
  <2>6. sum(s) \in 0 .. B * n
    BY <2>1, <2>3, <2>4, <2>5
  <2> QED
    BY <2>6 DEF n
<1>3. SUBSET S \subseteq T
  <2> HIDE DEF T
  <2> QED
    BY <1>1, <1>2, InductionOverSubsets
<1> QED
  BY <1>3 DEF sum

(***************************************************************************)
(* Sequences                                                               *)
(***************************************************************************)

\* A sequence without its element i: the elements behind it move up by one.
Removed(q, i) == SubSeq(q, 1, i - 1) \o SubSeq(q, i + 1, Len(q))

LEMMA RemovedProperties ==
  ASSUME NEW S, NEW q \in Seq(S), NEW i \in DOMAIN q
  PROVE  /\ Removed(q, i) \in Seq(S)
         /\ Len(Removed(q, i)) = Len(q) - 1
         /\ \A k \in 1 .. Len(q) - 1 :
               Removed(q, i)[k] = IF k < i THEN q[k] ELSE q[k + 1]
<1> DEFINE a == SubSeq(q, 1, i - 1)
           b == SubSeq(q, i + 1, Len(q))
<1>1. i \in 1 .. Len(q) /\ Len(q) \in Nat
  OBVIOUS
<1>2. /\ a \in Seq(S) /\ Len(a) = i - 1
      /\ \A k \in 1 .. i - 1 : a[k] = q[k]
  <2>1. \A k \in 1 .. i - 1 : q[k] \in S
    BY <1>1
  <2>2. /\ a \in Seq(S) /\ Len(a) = IF 1 <= i - 1 THEN i - 1 - 1 + 1 ELSE 0
        /\ \A k \in 1 .. i - 1 - 1 + 1 : a[k] = q[1 + k - 1]
    BY <1>1, <2>1, SubSeqProperties
  <2>3. QED
    BY <1>1, <2>2
<1>3. /\ b \in Seq(S) /\ Len(b) = Len(q) - i
      /\ \A k \in 1 .. Len(q) - i : b[k] = q[k + i]
  <2>1. \A k \in i + 1 .. Len(q) : q[k] \in S
    BY <1>1
  <2>2. /\ b \in Seq(S) /\ Len(b) = IF i + 1 <= Len(q) THEN Len(q) - (i + 1) + 1 ELSE 0
        /\ \A k \in 1 .. Len(q) - (i + 1) + 1 : b[k] = q[i + 1 + k - 1]
    BY <1>1, <2>1, SubSeqProperties
  <2>3. QED
    BY <1>1, <2>2
<1>4. /\ a \o b \in Seq(S) /\ Len(a \o b) = Len(a) + Len(b)
      /\ \A k \in 1 .. Len(a) + Len(b) : (a \o b)[k] = IF k <= Len(a) THEN a[k] ELSE b[k - Len(a)]
  BY <1>2, <1>3, ConcatProperties
<1>5. \A k \in 1 .. Len(q) - 1 : (a \o b)[k] = IF k < i THEN q[k] ELSE q[k + 1]
  <2> TAKE k \in 1 .. Len(q) - 1
  <2> HIDE DEF a, b
  <2>1. CASE k < i
    <3>1. k \in 1 .. Len(a) + Len(b) /\ k <= Len(a) /\ k \in 1 .. i - 1
      BY <2>1, <1>1, <1>2, <1>3
    <3>2. (a \o b)[k] = a[k]
      BY <3>1, <1>4
    <3>3. QED
      BY <2>1, <3>1, <3>2, <1>2
  <2>2. CASE ~(k < i)
    <3>1. k - (i - 1) \in 1 .. Len(q) - i /\ k - (i - 1) + i = k + 1
      BY <2>2, <1>1
    <3>2. (a \o b)[k] = b[k - (i - 1)]
      <4>1. k \in 1 .. Len(a) + Len(b) /\ ~(k <= Len(a))
        BY <2>2, <1>1, <1>2, <1>3
      <4>2. (a \o b)[k] = b[k - Len(a)]
        BY <4>1, <1>4
      <4>3. QED
        BY <4>2, <1>2
    <3>3. QED
      BY <2>2, <3>1, <3>2, <1>3
  <2>3. QED
    BY <2>1, <2>2
<1>6. Removed(q, i) = a \o b
  BY DEF Removed
<1>7. QED
  <2> HIDE DEF a, b
  <2>1. Len(a) + Len(b) = Len(q) - 1
    BY <1>1, <1>2, <1>3
  <2>2. QED
    BY <2>1, <1>4, <1>5, <1>6

LEMMA SeqElement ==
  ASSUME NEW T, NEW s \in Seq(T), NEW i \in DOMAIN s
  PROVE  s[i] \in T /\ i \in 1 .. Len(s) /\ Len(s) \in Nat
OBVIOUS

LEMMA SeqSubset ==
  ASSUME NEW T, NEW U, T \subseteq U, NEW s \in Seq(T)
  PROVE  s \in Seq(U)
OBVIOUS

LEMMA Concatenated ==
  ASSUME NEW T, NEW s \in Seq(T), NEW t \in Seq(T)
  PROVE  /\ s \o t \in Seq(T) /\ Len(s \o t) = Len(s) + Len(t)
         /\ Len(s) \in Nat /\ Len(t) \in Nat
OBVIOUS

(***************************************************************************)
(* How many elements of a sequence lie in a set                            *)
(***************************************************************************)

PlacesIn(q, X) == {i \in DOMAIN q : q[i] \in X}
CountIn(q, X) == Cardinality(PlacesIn(q, X))
One(e, X) == IF e \in X THEN 1 ELSE 0

LEMMA CountType ==
  ASSUME NEW T, NEW q \in Seq(T), NEW X
  PROVE  IsFiniteSet(PlacesIn(q, X)) /\ CountIn(q, X) \in Nat
<1>1. DOMAIN q = 1 .. Len(q) /\ Len(q) \in Nat
  OBVIOUS
<1>2. PlacesIn(q, X) \in SUBSET Nat /\ \A i \in PlacesIn(q, X) : i <= Len(q)
  BY <1>1 DEF PlacesIn
<1>3. IsFiniteSet(PlacesIn(q, X))
  BY <1>1, <1>2, FS_BoundedSetOfNaturals
<1> QED
  BY <1>3, FS_CardinalityType DEF CountIn

LEMMA CountAppend ==
  ASSUME NEW T, NEW q \in Seq(T), NEW e \in T, NEW X
  PROVE  CountIn(Append(q, e), X) = CountIn(q, X) + One(e, X)
<1> DEFINE p == Append(q, e)
           n == Len(q) + 1
<1>1. /\ DOMAIN q = 1 .. Len(q) /\ Len(q) \in Nat
      /\ DOMAIN p = 1 .. n /\ p[n] = e /\ \A i \in DOMAIN q : p[i] = q[i]
  OBVIOUS
<1>2. IsFiniteSet(PlacesIn(q, X)) /\ CountIn(q, X) \in Nat
  BY CountType
<1> HIDE DEF p
<1>3. CASE e \in X
  <2>1. PlacesIn(p, X) = PlacesIn(q, X) \cup {n} /\ n \notin PlacesIn(q, X)
    BY <1>1, <1>3 DEF PlacesIn
  <2> HIDE DEF n
  <2>2. CountIn(p, X) = CountIn(q, X) + 1
    BY <1>2, <2>1, FS_AddElement DEF CountIn
  <2> QED
    BY <1>3, <2>2 DEF One, p
<1>4. CASE e \notin X
  <2>1. PlacesIn(p, X) = PlacesIn(q, X)
    BY <1>1, <1>4 DEF PlacesIn
  <2> QED
    BY <1>2, <1>4, <2>1 DEF One, p, CountIn
<1> QED
  BY <1>3, <1>4

LEMMA CountShift ==
  ASSUME NEW T, NEW q \in Seq(T), NEW i \in DOMAIN q, NEW X, NEW p \in Seq(T),
         Len(p) = Len(q) - 1,
         \A k \in 1 .. Len(q) - 1 : p[k] = IF k < i THEN q[k] ELSE q[k + 1]
  PROVE  CountIn(p, X) = CountIn(q, X) - One(q[i], X)
<1> DEFINE n == Len(q)
           f == [k \in PlacesIn(p, X) |-> IF k < i THEN k ELSE k + 1]
           D == PlacesIn(q, X) \ {i}
<1>1. DOMAIN q = 1 .. n /\ n \in Nat /\ DOMAIN p = 1 .. n - 1 /\ i \in 1 .. n
  OBVIOUS
<1>2. f \in Bijection(PlacesIn(p, X), D)
  <2>1. ASSUME NEW k \in PlacesIn(p, X) PROVE f[k] \in D
    BY <1>1, <2>1 DEF PlacesIn
  <2>2. ASSUME NEW j \in PlacesIn(p, X), NEW k \in PlacesIn(p, X), f[j] = f[k] PROVE j = k
    BY <1>1, <2>2 DEF PlacesIn
  <2>3. ASSUME NEW j \in D PROVE \E k \in PlacesIn(p, X) : f[k] = j
    <3>1. CASE j < i
      <4>1. j \in PlacesIn(p, X)
        BY <1>1, <3>1 DEF PlacesIn
      <4> QED
        BY <3>1, <4>1
    <3>2. CASE j > i
      <4>1. j - 1 \in 1 .. n - 1 /\ ~(j - 1 < i) /\ j - 1 + 1 = j /\ q[j] \in X
        BY <1>1, <3>2 DEF PlacesIn
      <4>2. j - 1 \in PlacesIn(p, X)
        BY <1>1, <4>1 DEF PlacesIn
      <4> QED
        BY <4>1, <4>2
    <3> QED
      BY <1>1, <3>1, <3>2 DEF PlacesIn
  <2> QED
    BY <2>1, <2>2, <2>3 DEF Bijection, Injection, Surjection, IsInjective
<1>3. /\ IsFiniteSet(PlacesIn(q, X)) /\ CountIn(q, X) \in Nat
      /\ IsFiniteSet(PlacesIn(p, X)) /\ CountIn(p, X) \in Nat
  BY CountType
<1>4. Cardinality(D) = Cardinality(PlacesIn(p, X))
  <2> HIDE DEF f, D
  <2> QED
    BY <1>2, <1>3, FS_Bijection DEF ExistsBijection
<1>5. Cardinality(D) = IF i \in PlacesIn(q, X) THEN CountIn(q, X) - 1 ELSE CountIn(q, X)
  BY <1>3, FS_RemoveElement DEF CountIn
<1>6. i \in PlacesIn(q, X) <=> q[i] \in X
  BY DEF PlacesIn
<1> QED
  BY <1>3, <1>4, <1>5, <1>6 DEF One, CountIn

LEMMA CountRemoved ==
  ASSUME NEW T, NEW q \in Seq(T), NEW i \in DOMAIN q, NEW X
  PROVE  CountIn(Removed(q, i), X) = CountIn(q, X) - One(q[i], X)
BY RemovedProperties, CountShift

LEMMA CountTail ==
  ASSUME NEW T, NEW q \in Seq(T), q # <<>>, NEW X
  PROVE  CountIn(Tail(q), X) = CountIn(q, X) - One(Head(q), X)
<1> DEFINE p == Tail(q)
<1>1. /\ p \in Seq(T) /\ Len(p) = Len(q) - 1 /\ Head(q) = q[1] /\ 1 \in DOMAIN q
      /\ \A k \in 1 .. Len(q) - 1 : p[k] = IF k < 1 THEN q[k] ELSE q[k + 1]
  OBVIOUS
<1> HIDE DEF p
<1>2. CountIn(p, X) = CountIn(q, X) - One(q[1], X)
  BY <1>1, CountShift
<1> QED
  BY <1>1, <1>2 DEF p

LEMMA CountReplaced ==
  ASSUME NEW T, NEW q \in Seq(T), NEW i \in DOMAIN q, NEW e \in T, NEW X
  PROVE  CountIn([q EXCEPT ![i] = e], X) = CountIn(q, X) - One(q[i], X) + One(e, X)
<1> DEFINE p == [q EXCEPT ![i] = e]
           D == PlacesIn(q, X) \ {i}
<1>1. DOMAIN p = DOMAIN q /\ p[i] = e /\ \A k \in DOMAIN q : k # i => p[k] = q[k]
  OBVIOUS
<1> HIDE DEF p
<1>2. IsFiniteSet(PlacesIn(q, X)) /\ CountIn(q, X) \in Nat
  BY CountType
<1>3. /\ IsFiniteSet(D)
      /\ Cardinality(D) = IF i \in PlacesIn(q, X) THEN CountIn(q, X) - 1 ELSE CountIn(q, X)
  BY <1>2, FS_RemoveElement DEF CountIn
<1>4. (i \in PlacesIn(q, X) <=> q[i] \in X) /\ i \notin D
  BY DEF PlacesIn
<1>5. CASE e \in X
  <2>1. PlacesIn(p, X) = D \cup {i}
    BY <1>1, <1>5 DEF PlacesIn
  <2> HIDE DEF D
  <2>2. CountIn(p, X) = Cardinality(D) + 1
    BY <1>3, <1>4, <2>1, FS_AddElement DEF CountIn
  <2> QED
    BY <1>2, <1>3, <1>4, <1>5, <2>2 DEF One, p
<1>6. CASE e \notin X
  <2>1. PlacesIn(p, X) = D
    BY <1>1, <1>6 DEF PlacesIn
  <2>2. CountIn(p, X) = Cardinality(D)
    BY <2>1 DEF CountIn
  <2> HIDE DEF D
  <2> QED
    BY <1>2, <1>3, <1>4, <1>6, <2>2 DEF One, p
<1> QED
  BY <1>5, <1>6
==============================================================================
