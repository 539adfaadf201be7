---------------------------- MODULE HotSpotProofs ----------------------------
(***************************************************************************)
(* Proofs about HotSpot.  The grid model: the transient temperatures go on  *)
(* from call to call (AgeInv); the steady state is solved on the model that  *)
(* was built, at whatever depth of the multigrid (SolveInv, with the powers  *)
(* of two and the prolongation's weights); a dumped file of temperatures     *)
(* reads back, block by block (the layers' stretches of the vectors,         *)
(* StartInv).  The floor planner: its Polish expressions stay normalized     *)
(* (PolishInv, with the ranks of positions in an ascending array).           *)
(***************************************************************************)
EXTENDS GridModel, Floorplan, ProofLemmas

Phases == {"alloc", "resistances", "init", "idle", "rows", "compute", "rk4", "coarsen", "heuristic",
           "iterate", "prolong", "matrix", "solved", "fatal"}

(***************************************************************************)
(* The age of the temperatures                                             *)
(***************************************************************************)

\* Between calls init_temp is as old as the grid's temperatures.  During a call temp
\* is, and from its first transient row on the model writes to temp.
AgeInv ==
  /\ pc \in Phases
  /\ vec \in [init : Int, temp : Int] /\ trans \in Int /\ lines \in Nat
  /\ do_transient \in BOOLEAN
  /\ pc \in {"alloc", "resistances", "init", "idle"} => vec.init = trans
  /\ pc \notin {"alloc", "resistances", "init", "idle"} => vec.temp = trans
  /\ ((pc = "rows" /\ do_transient) \/ pc = "compute") /\ lines > 0 => last_temp = "temp"
  /\ pc = "rk4" => last_temp = "temp"

LEMMA AgeInit == Init => AgeInv
BY DEF Init, AgeInv, Phases

LEMMA AgeNext == AgeInv /\ [Next]_vars => AgeInv'
<1> SUFFICES ASSUME AgeInv, [Next]_vars
             PROVE  AgeInv'
  OBVIOUS
<1> USE DEF AgeInv, Phases, unchangedCall, unchangedSolver, unchangedSteady
<1>1. CASE populate_R_model_grid
  BY <1>1 DEF populate_R_model_grid
<1>2. CASE populate_C_model_grid
  BY <1>2 DEF populate_C_model_grid
<1>3. CASE initTemp
  BY <1>3 DEF initTemp
<1>4. CASE switchAnalysis
  BY <1>4 DEF switchAnalysis
<1>5. CASE beginCalculate
  BY <1>5 DEF beginCalculate
<1>6. CASE readRow
  BY <1>6 DEF readRow
<1>7. CASE compute_temp_grid
  BY <1>7 DEF compute_temp_grid, passesTemp
<1>8. CASE rk4Retry
  BY <1>8 DEF rk4Retry
<1>9. CASE rk4Step
  BY <1>9 DEF rk4Step
<1>10. CASE steady_state_temp_grid
  BY <1>10 DEF steady_state_temp_grid
<1>11. CASE coarsen
  BY <1>11 DEF coarsen
<1>12. CASE set_heuristic_temp
  BY <1>12 DEF set_heuristic_temp
<1>13. CASE iterate
  BY <1>13 DEF iterate
<1>14. CASE prolong
  BY <1>14 DEF prolong
<1>15. CASE build_steady_grid_matrix
  BY <1>15 DEF build_steady_grid_matrix
<1>16. CASE direct_SLU
  BY <1>16 DEF direct_SLU
<1>17. CASE endCalculate
  BY <1>17 DEF endCalculate
<1>18. CASE UNCHANGED vars
  BY <1>18 DEF vars
<1> QED
  BY <1>1, <1>2, <1>3, <1>4, <1>5, <1>6, <1>7, <1>8, <1>9, <1>10, <1>11, <1>12, <1>13,
     <1>14, <1>15, <1>16, <1>17, <1>18 DEF Next

\* What a step does to the temperatures.
Continues ==
  /\ trans' \in {trans, trans + 1}
  /\ pc' = "idle" => vec'.init = trans'
  /\ (pc = "rk4" /\ pc' = "rows") => vec'.temp = trans + 1

LEMMA StepContinues == AgeInv /\ AgeInv' /\ [Next]_vars => [Continues]_vars
<1> SUFFICES ASSUME AgeInv, AgeInv', Next
             PROVE  Continues
  OBVIOUS
<1>1. pc' = "idle" => vec'.init = trans'
  BY DEF AgeInv
<1>2. CASE compute_temp_grid
  BY <1>1, <1>2 DEF compute_temp_grid, AgeInv, Continues
<1>3. CASE rk4Step
  BY <1>1, <1>3 DEF rk4Step, AgeInv, Continues
<1>4. CASE trans' = trans /\ ~(pc = "rk4" /\ pc' = "rows")
  BY <1>1, <1>4 DEF Continues
<1>5. ASSUME ~compute_temp_grid, ~rk4Step
      PROVE  trans' = trans /\ ~(pc = "rk4" /\ pc' = "rows")
  BY <1>5 DEF Next, populate_R_model_grid, populate_C_model_grid, initTemp, switchAnalysis,
     beginCalculate, readRow, rk4Retry, steady_state_temp_grid, coarsen, set_heuristic_temp,
     iterate, prolong, build_steady_grid_matrix, direct_SLU, endCalculate,
     unchangedSolver, unchangedSteady
<1> QED
  BY <1>2, <1>3, <1>4, <1>5

\* However calls, warm-ups and analyses follow one another, the transient temperatures
\* of the grid go on where they stopped, although calculateTemperature frees the vector
\* they were written to and compute_temp starts each call from the blocks' init_temp.
THEOREM GridTemperaturesContinue == Spec => TemperatureContinuity
<1>1. AgeInv /\ [Next]_vars => AgeInv'
  BY AgeNext
<1>2. Spec => []AgeInv
  BY AgeInit, <1>1, PTL DEF Spec
<1>3. Spec => [][Continues]_vars
  BY <1>2, StepContinues, PTL DEF Spec
<1> QED
  BY <1>3 DEF TemperatureContinuity, Continues

(***************************************************************************)
(* Powers of two                                                           *)
(***************************************************************************)

\* f is power2 as far as n.
Doubles(f, n) == f = [k \in 0 .. n |-> IF k = 0 THEN 1 ELSE 2 * f[k - 1]]

LEMMA DoublesExists == \A n \in Nat : \E f \in [0 .. n -> Nat] : Doubles(f, n)
<1> DEFINE T == {n \in Nat : \E f \in [0 .. n -> Nat] : Doubles(f, n)}
<1>1. 0 \in T
  <2> DEFINE f == [k \in 0 .. 0 |-> 1]
  <2>1. f \in [0 .. 0 -> Nat] /\ Doubles(f, 0)
    BY DEF Doubles
  <2> QED
    BY <2>1
<1>2. ASSUME NEW n \in Nat, n \in T
      PROVE  n + 1 \in T
  <2>1. PICK f \in [0 .. n -> Nat] : Doubles(f, n)
    BY <1>2
  <2> DEFINE g == [k \in 0 .. n + 1 |-> IF k = n + 1 THEN 2 * f[n] ELSE f[k]]
  <2>2. g \in [0 .. n + 1 -> Nat]
    OBVIOUS
  <2>3. \A k \in 0 .. n : f[k] = IF k = 0 THEN 1 ELSE 2 * f[k - 1]
    BY <2>1 DEF Doubles
  <2>4. ASSUME NEW k \in 0 .. n + 1
        PROVE  g[k] = IF k = 0 THEN 1 ELSE 2 * g[k - 1]
    <3>1. CASE k = n + 1
      <4>1. n # n + 1 /\ n \in 0 .. n + 1 /\ k - 1 = n
        BY <3>1
      <4>2. g[k] = 2 * f[n] /\ g[k - 1] = f[n]
        BY <3>1, <4>1
      <4> QED
        BY <3>1, <4>2
    <3>2. CASE k \in 0 .. n
      <4>1. k # n + 1 /\ (k # 0 => k - 1 \in 0 .. n + 1 /\ k - 1 # n + 1)
        BY <3>2
      <4>2. g[k] = f[k] /\ (k # 0 => g[k - 1] = f[k - 1])
        BY <4>1
      <4> HIDE DEF g
      <4> QED
        BY <2>3, <3>2, <4>2
    <3> QED
      BY <3>1, <3>2
  <2> HIDE DEF g
  <2>5. Doubles(g, n + 1)
    BY <2>2, <2>4 DEF Doubles
  <2> QED
    BY <2>2, <2>5
<1> HIDE DEF T
<1>3. Nat \subseteq T
  BY <1>1, <1>2, InductionOverNat
<1> QED
  BY <1>3 DEF T

LEMMA DoublesAgree ==
  ASSUME NEW m \in Nat, NEW n \in Nat, m <= n, NEW f, Doubles(f, m), NEW g, Doubles(g, n)
  PROVE  \A k \in 0 .. m : f[k] = g[k]
<1> DEFINE T == {k \in Nat : f[k] = g[k]}
<1>1. /\ \A k \in 0 .. m : f[k] = IF k = 0 THEN 1 ELSE 2 * f[k - 1]
      /\ \A k \in 0 .. n : g[k] = IF k = 0 THEN 1 ELSE 2 * g[k - 1]
  BY DEF Doubles
<1>2. 0 \in T
  BY <1>1
<1>3. ASSUME NEW k \in 0 .. m - 1, k \in T
      PROVE  k + 1 \in T
  BY <1>1, <1>3
<1> HIDE DEF T
<1>4. 0 .. m \subseteq T
  BY <1>2, <1>3, InductionUpTo
<1> QED
  BY <1>4 DEF T

LEMMA Power2Exists == \E p : p = [k \in Nat |-> IF k = 0 THEN 1 ELSE 2 * p[k - 1]]
<1> DEFINE upTo(n) == CHOOSE f \in [0 .. n -> Nat] : Doubles(f, n)
           p == [k \in Nat |-> upTo(k)[k]]
<1>1. ASSUME NEW n \in Nat
      PROVE  upTo(n) \in [0 .. n -> Nat] /\ Doubles(upTo(n), n)
  BY DoublesExists
<1> HIDE DEF upTo
<1>2. ASSUME NEW k \in Nat
      PROVE  p[k] = IF k = 0 THEN 1 ELSE 2 * p[k - 1]
  <2>1. upTo(k)[k] = IF k = 0 THEN 1 ELSE 2 * upTo(k)[k - 1]
    <3> DEFINE f == upTo(k)
    <3>1. Doubles(f, k)
      BY <1>1
    <3> HIDE DEF f
    <3>2. f[k] = IF k = 0 THEN 1 ELSE 2 * f[k - 1]
      BY <3>1 DEF Doubles
    <3> QED
      BY <3>2 DEF f
  <2>2. ASSUME k # 0
        PROVE  upTo(k)[k - 1] = upTo(k - 1)[k - 1]
    <3>1. k - 1 \in Nat /\ k - 1 <= k
      BY <2>2
    <3>2. \A j \in 0 .. k - 1 : upTo(k - 1)[j] = upTo(k)[j]
      BY <1>1, <3>1, DoublesAgree
    <3> QED
      BY <3>1, <3>2
  <2> QED
    BY <2>1, <2>2
<1>3. p = [k \in Nat |-> p[k]]
  OBVIOUS
<1> HIDE DEF p
<1>4. p = [k \in Nat |-> IF k = 0 THEN 1 ELSE 2 * p[k - 1]]
  BY <1>2, <1>3
<1> QED
  BY <1>4

LEMMA Power2Unfolds ==
  /\ power2[0] = 1
  /\ \A k \in Nat : power2[k + 1] = 2 * power2[k]
  /\ \A k \in Nat : power2[k] \in Nat \ {0}
<1>1. power2 = [k \in Nat |-> IF k = 0 THEN 1 ELSE 2 * power2[k - 1]]
  <2> DEFINE p == CHOOSE q : q = [k \in Nat |-> IF k = 0 THEN 1 ELSE 2 * q[k - 1]]
  <2>1. p = [k \in Nat |-> IF k = 0 THEN 1 ELSE 2 * p[k - 1]]
    BY Power2Exists
  <2> QED
    BY <2>1 DEF power2
<1>2. power2[0] = 1
  BY <1>1
<1>3. \A k \in Nat : power2[k + 1] = 2 * power2[k]
  BY <1>1
<1> DEFINE T == {k \in Nat : power2[k] \in Nat \ {0}}
<1>4. 0 \in T
  BY <1>2
<1>5. \A k \in Nat : k \in T => k + 1 \in T
  BY <1>3
<1> HIDE DEF T
<1>6. Nat \subseteq T
  BY <1>4, <1>5, InductionOverNat
<1>7. \A k \in Nat : power2[k] \in Nat \ {0}
  BY <1>6 DEF T
<1> QED
  BY <1>2, <1>3, <1>7

\* A power of two: IsPowerOfTwo without its bound.
Binary(n) == \E k \in Nat : n = power2[k]

LEMMA Halves ==
  ASSUME NEW n \in Nat, Binary(n), n > 1
  PROVE  Binary(n \div 2) /\ n = 2 * (n \div 2)
<1>1. PICK k \in Nat : n = power2[k]
  BY DEF Binary
<1>2. k - 1 \in Nat
  BY <1>1, Power2Unfolds
<1>3. n = 2 * power2[k - 1] /\ power2[k - 1] \in Nat
  BY <1>1, <1>2, Power2Unfolds
<1>4. n \div 2 = power2[k - 1]
  BY <1>3
<1> QED
  BY <1>2, <1>3, <1>4 DEF Binary

LEMMA BinaryDoubled == \A n : Binary(n) => Binary(2 * n)
BY Power2Unfolds DEF Binary

(***************************************************************************)
(* From a coarse grid to the next finer one                                *)
(***************************************************************************)

LEMMA SumOfOne ==
  ASSUME NEW x, NEW f, f[x] \in Int
  PROVE  SumFunctionOnSet(f, {x}) = f[x]
<1>1. IsFiniteSet({x}) /\ IsFiniteSet({}) /\ {x} \ {x} = {}
  BY FS_Singleton, FS_EmptySet
<1>2. SumFunctionOnSet(f, {x}) = f[x] + SumFunctionOnSet(f, {})
  BY <1>1, SumTakeAny
<1>3. SumFunctionOnSet(f, {}) = 0
  BY <1>1, SumUnfolds
<1> QED
  BY <1>2, <1>3

OneMore(f, S, x, T) == SumFunctionOnSet(f, T) = SumFunctionOnSet(f, S) + f[x]

LEMMA SumOneMore ==
  ASSUME NEW S, IsFiniteSet(S), NEW x, x \notin S, NEW T, T = S \cup {x},
         NEW f, \A y \in T : f[y] \in Int
  PROVE  IsFiniteSet(T) /\ OneMore(f, S, x, T)
<1>1. IsFiniteSet(T) /\ T \ {x} = S /\ x \in T
  BY FS_AddElement
<1>2. SumFunctionOnSet(f, T) = f[x] + SumFunctionOnSet(f, S)
  BY <1>1, SumTakeAny
<1>3. SumFunctionOnSet(f, S) \in Int /\ f[x] \in Int
  BY <1>1, SumUnfolds
<1> QED
  BY <1>1, <1>2, <1>3 DEF OneMore

FourOf(f, a, b, c, d) == SumFunctionOnSet(f, {a, b, c, d}) = f[a] + f[b] + f[c] + f[d]

LEMMA SumOfFour ==
  ASSUME NEW a, NEW b, NEW c, NEW d, a # b, a # c, a # d, b # c, b # d, c # d,
         NEW f, f[a] \in Int, f[b] \in Int, f[c] \in Int, f[d] \in Int
  PROVE  FourOf(f, a, b, c, d)
<1> DEFINE A == {a}
           B == A \cup {b}
           C == B \cup {c}
           D == C \cup {d}
<1>1. SumFunctionOnSet(f, A) = f[a]
  BY SumOfOne
<1>2. IsFiniteSet(A)
  BY FS_Singleton
<1>3. b \notin A /\ c \notin B /\ d \notin C
  OBVIOUS
<1>4. (\A y \in B : f[y] \in Int) /\ (\A y \in C : f[y] \in Int) /\ \A y \in D : f[y] \in Int
  OBVIOUS
<1>5. B = A \cup {b} /\ C = B \cup {c} /\ D = C \cup {d}
  OBVIOUS
<1>6. D = {a, b, c, d}
  OBVIOUS
<1> HIDE DEF A, B, C, D
<1>7. IsFiniteSet(B) /\ OneMore(f, A, b, B)
  BY <1>2, <1>3, <1>4, <1>5, SumOneMore
<1>8. IsFiniteSet(C) /\ OneMore(f, B, c, C)
  BY <1>3, <1>4, <1>5, <1>7, SumOneMore
<1>9. OneMore(f, C, d, D)
  BY <1>3, <1>4, <1>5, <1>8, SumOneMore
<1> QED
  BY <1>1, <1>6, <1>7, <1>8, <1>9 DEF OneMore, FourOf

\* The weights of the four coarse cells around a fine one make an average.
Averages(w, i, j, a, b) ==
  /\ w.at = <<2 * i + 1 + a, 2 * j + 1 + b>>
  /\ DOMAIN w.weights = {i, i + 1} \X {j, j + 1}
  /\ SumFunctionOnSet(w.weights, {i, i + 1} \X {j, j + 1}) = 16

LEMMA InterpolationAverages ==
  ASSUME NEW i \in Nat, NEW j \in Nat, NEW a \in {0, 1}, NEW b \in {0, 1}
  PROVE  Averages(interpolate(i, j, a, b), i, j, a, b)
<1> DEFINE f == [x \in {i, i + 1} \X {j, j + 1} |->
                  (IF x[1] = i + a THEN 3 ELSE 1) * (IF x[2] = j + b THEN 3 ELSE 1)]
           S == {i, i + 1} \X {j, j + 1}
<1>1. S = {<<i, j>>, <<i, j + 1>>, <<i + 1, j>>, <<i + 1, j + 1>>}
  OBVIOUS
<1>2. /\ f[<<i, j>>] = (IF a = 0 THEN 3 ELSE 1) * (IF b = 0 THEN 3 ELSE 1)
      /\ f[<<i, j + 1>>] = (IF a = 0 THEN 3 ELSE 1) * (IF b = 1 THEN 3 ELSE 1)
      /\ f[<<i + 1, j>>] = (IF a = 1 THEN 3 ELSE 1) * (IF b = 0 THEN 3 ELSE 1)
      /\ f[<<i + 1, j + 1>>] = (IF a = 1 THEN 3 ELSE 1) * (IF b = 1 THEN 3 ELSE 1)
  OBVIOUS
<1>0. /\ interpolate(i, j, a, b).at = <<2 * i + 1 + a, 2 * j + 1 + b>>
      /\ interpolate(i, j, a, b).weights = f
      /\ DOMAIN f = S
  BY DEF interpolate
<1> HIDE DEF f, S
<1>3. /\ f[<<i, j>>] \in Int /\ f[<<i, j + 1>>] \in Int
      /\ f[<<i + 1, j>>] \in Int /\ f[<<i + 1, j + 1>>] \in Int
      /\ f[<<i, j>>] + f[<<i, j + 1>>] + f[<<i + 1, j>>] + f[<<i + 1, j + 1>>] = 16
  BY <1>2
<1> DEFINE u == <<i, j>>
           v == <<i, j + 1>>
           w == <<i + 1, j>>
           z == <<i + 1, j + 1>>
<1>4. u # v /\ u # w /\ u # z /\ v # w /\ v # z /\ w # z
  OBVIOUS
<1>5. S = {u, v, w, z} /\ f[u] \in Int /\ f[v] \in Int /\ f[w] \in Int /\ f[z] \in Int
      /\ f[u] + f[v] + f[w] + f[z] = 16
  BY <1>1, <1>3
<1> HIDE DEF u, v, w, z
<1>6. FourOf(f, u, v, w, z)
  BY <1>4, <1>5, SumOfFour
<1>7. SumFunctionOnSet(f, S) = 16
  BY <1>5, <1>6 DEF FourOf
<1> QED
  BY <1>0, <1>7 DEF S, Averages

\* Every fine cell is written, as an average of coarse cells.
CellWritten(nr, nc, p, q) ==
  \E w \in interpolated(nr, nc) \cup copied(nr, nc) :
     /\ w.at = <<p, q>>
     /\ DOMAIN w.weights \subseteq (0 .. nr - 1) \X (0 .. nc - 1)
     /\ SumFunctionOnSet(w.weights, DOMAIN w.weights) = 16

LEMMA CopiesOfBoundary ==
  ASSUME NEW nr \in Nat \ {0}, NEW nc \in Nat \ {0}, NEW a \in {0, 1}
  PROVE  /\ \A i \in 0 .. nr - 1 : /\ copy(2 * i + a, 0, <<i, 0>>) \in copied(nr, nc)
                                   /\ copy(2 * i + a, 2 * nc - 1, <<i, nc - 1>>) \in copied(nr, nc)
         /\ \A j \in 0 .. nc - 1 : /\ copy(0, 2 * j + a, <<0, j>>) \in copied(nr, nc)
                                   /\ copy(2 * nr - 1, 2 * j + a, <<nr - 1, j>>) \in copied(nr, nc)
<1> DEFINE W == {copy(2 * i + d, 0, <<i, 0>>) : i \in 0 .. nr - 1, d \in {0, 1}}
           E == {copy(2 * i + d, 2 * nc - 1, <<i, nc - 1>>) : i \in 0 .. nr - 1, d \in {0, 1}}
           N == {copy(0, 2 * j + d, <<0, j>>) : j \in 0 .. nc - 1, d \in {0, 1}}
           S == {copy(2 * nr - 1, 2 * j + d, <<nr - 1, j>>) : j \in 0 .. nc - 1, d \in {0, 1}}
<1>1. copied(nr, nc) = W \cup E \cup N \cup S
  BY DEF copied
<1>2. \A i \in 0 .. nr - 1 : copy(2 * i + a, 0, <<i, 0>>) \in W
  OBVIOUS
<1>3. \A i \in 0 .. nr - 1 : copy(2 * i + a, 2 * nc - 1, <<i, nc - 1>>) \in E
  OBVIOUS
<1>4. \A j \in 0 .. nc - 1 : copy(0, 2 * j + a, <<0, j>>) \in N
  OBVIOUS
<1>5. \A j \in 0 .. nc - 1 : copy(2 * nr - 1, 2 * j + a, <<nr - 1, j>>) \in S
  OBVIOUS
<1> HIDE DEF W, E, N, S
<1> QED
  BY <1>1, <1>2, <1>3, <1>4, <1>5

LEMMA InnerInterpolated ==
  ASSUME NEW nr \in Nat \ {0}, NEW nc \in Nat \ {0}, NEW i \in 0 .. nr - 2, NEW j \in 0 .. nc - 2,
         NEW a \in {0, 1}, NEW b \in {0, 1}
  PROVE  interpolate(i, j, a, b) \in interpolated(nr, nc)
BY DEF interpolated

LEMMA FineCellWritten ==
  ASSUME NEW nr \in Nat \ {0}, NEW nc \in Nat \ {0},
         NEW p \in 0 .. 2 * nr - 1, NEW q \in 0 .. 2 * nc - 1
  PROVE  CellWritten(nr, nc, p, q)
<1> DEFINE coarse == (0 .. nr - 1) \X (0 .. nc - 1)
           Written(w) == /\ w \in interpolated(nr, nc) \cup copied(nr, nc)
                         /\ w.at = <<p, q>>
                         /\ DOMAIN w.weights \subseteq coarse
                         /\ SumFunctionOnSet(w.weights, DOMAIN w.weights) = 16
<1>1. ASSUME NEW x \in coarse, copy(p, q, x) \in copied(nr, nc)
      PROVE  Written(copy(p, q, x))
  <2> DEFINE f == [y \in {x} |-> 16]
  <2>1. f[x] = 16 /\ DOMAIN f = {x}
    OBVIOUS
  <2> HIDE DEF f
  <2>2. SumFunctionOnSet(f, {x}) = 16
    BY <2>1, SumOfOne
  <2>3. copy(p, q, x).at = <<p, q>> /\ copy(p, q, x).weights = f
    BY DEF f, copy
  <2> HIDE DEF coarse
  <2>4. DOMAIN f \subseteq coarse
    BY <1>1, <2>1
  <2> QED
    BY <1>1, <2>1, <2>2, <2>3, <2>4
<1>2. \A n \in Nat : n = 2 * (n \div 2) + (n % 2) /\ n \div 2 \in Nat /\ n % 2 \in {0, 1}
  OBVIOUS
<1> DEFINE i == p \div 2
           a == p % 2
           j == q \div 2
           b == q % 2
<1>3. i \in 0 .. nr - 1 /\ a \in {0, 1} /\ p = 2 * i + a
  BY <1>2
<1>4. j \in 0 .. nc - 1 /\ b \in {0, 1} /\ q = 2 * j + b
  BY <1>2
<1> HIDE DEF i, a, j, b, Written
<1> USE DEF CellWritten
<1>5. CASE q = 0
  <2>1. <<i, 0>> \in coarse
    BY <1>3
  <2>2. copy(2 * i + a, 0, <<i, 0>>) \in copied(nr, nc)
    BY <1>3, CopiesOfBoundary
  <2>3. copy(p, q, <<i, 0>>) \in copied(nr, nc)
    BY <1>3, <1>5, <2>2
  <2> QED
    BY <1>1, <2>1, <2>3 DEF Written
<1>6. CASE q = 2 * nc - 1
  <2>1. <<i, nc - 1>> \in coarse
    BY <1>3
  <2>2. copy(2 * i + a, 2 * nc - 1, <<i, nc - 1>>) \in copied(nr, nc)
    BY <1>3, CopiesOfBoundary
  <2>3. copy(p, q, <<i, nc - 1>>) \in copied(nr, nc)
    BY <1>3, <1>6, <2>2
  <2> QED
    BY <1>1, <2>1, <2>3 DEF Written
<1>7. CASE p = 0
  <2>1. <<0, j>> \in coarse
    BY <1>4
  <2>2. copy(0, 2 * j + b, <<0, j>>) \in copied(nr, nc)
    BY <1>4, CopiesOfBoundary
  <2>3. copy(p, q, <<0, j>>) \in copied(nr, nc)
    BY <1>4, <1>7, <2>2
  <2> QED
    BY <1>1, <2>1, <2>3 DEF Written
<1>8. CASE p = 2 * nr - 1
  <2>1. <<nr - 1, j>> \in coarse
    BY <1>4
  <2>2. copy(2 * nr - 1, 2 * j + b, <<nr - 1, j>>) \in copied(nr, nc)
    BY <1>4, CopiesOfBoundary
  <2>3. copy(p, q, <<nr - 1, j>>) \in copied(nr, nc)
    BY <1>4, <1>8, <2>2
  <2> QED
    BY <1>1, <2>1, <2>3 DEF Written
<1>9. CASE p \in 1 .. 2 * nr - 2 /\ q \in 1 .. 2 * nc - 2
  <2> DEFINE k == (p - 1) \div 2
             c == (p - 1) % 2
             l == (q - 1) \div 2
             d == (q - 1) % 2
  <2>1. k \in 0 .. nr - 2 /\ c \in {0, 1} /\ p = 2 * k + 1 + c
    BY <1>2, <1>9
  <2>2. l \in 0 .. nc - 2 /\ d \in {0, 1} /\ q = 2 * l + 1 + d
    BY <1>2, <1>9
  <2> HIDE DEF k, c, l, d
  <2> DEFINE w == interpolate(k, l, c, d)
  <2>3. w \in interpolated(nr, nc)
    BY <2>1, <2>2, InnerInterpolated
  <2>a. k \in Nat /\ l \in Nat
    BY <2>1, <2>2
  <2>b. Averages(w, k, l, c, d)
    BY <2>a, <2>1, <2>2, InterpolationAverages
  <2> HIDE DEF w
  <2>4. /\ w.at = <<2 * k + 1 + c, 2 * l + 1 + d>>
        /\ DOMAIN w.weights = {k, k + 1} \X {l, l + 1}
        /\ SumFunctionOnSet(w.weights, {k, k + 1} \X {l, l + 1}) = 16
    BY <2>b, Zenon DEF Averages
  <2>5. {k, k + 1} \X {l, l + 1} \subseteq coarse
    BY <2>1, <2>2
  <2> HIDE DEF coarse
  <2>6. w.at = <<p, q>>
    BY <2>1, <2>2, <2>4
  <2> DEFINE S == {k, k + 1} \X {l, l + 1}
             D == DOMAIN w.weights
  <2>7. D = S /\ S \subseteq coarse /\ SumFunctionOnSet(w.weights, S) = 16
    BY <2>4, <2>5
  <2> HIDE DEF S, D
  <2>8. D \subseteq coarse /\ SumFunctionOnSet(w.weights, D) = 16
    BY <2>7
  <2>9. DOMAIN w.weights \subseteq coarse /\ SumFunctionOnSet(w.weights, DOMAIN w.weights) = 16
    BY <2>8 DEF D
  <2>10. w \in interpolated(nr, nc) \cup copied(nr, nc)
    BY <2>3
  <2> QED
    BY <2>6, <2>9, <2>10 DEF coarse
<1>10. \/ q = 0 \/ q = 2 * nc - 1 \/ p = 0 \/ p = 2 * nr - 1
       \/ p \in 1 .. 2 * nr - 2 /\ q \in 1 .. 2 * nc - 2
  OBVIOUS
<1> QED
  BY <1>5, <1>6, <1>7, <1>8, <1>9, <1>10

LEMMA ProlongGuesses ==
  ASSUME NEW m, m.rows \in Nat \ {0}, m.cols \in Nat \ {0},
         NEW solved, solved \in [Plane(m) -> {"solved"}],
         NEW to, to.rows = 2 * m.rows, to.cols = 2 * m.cols
  PROVE  multigrid_prolong_temp(m, solved) \in [Plane(to) -> {"guess"}]
<1> DEFINE fine0 == [rows |-> 2 * m.rows, cols |-> 2 * m.cols]
           writes == interpolated(m.rows, m.cols) \cup copied(m.rows, m.cols)
           average(w) == /\ DOMAIN w \subseteq DOMAIN solved
                         /\ \A x \in DOMAIN w : solved[x] = "solved"
                         /\ SumFunctionOnSet(w, DOMAIN w) = 16
<1>1. Plane(fine0) = Plane(to)
  BY DEF Plane
<1>2. multigrid_prolong_temp(m, solved) =
        [x \in Plane(fine0) |-> IF \E w \in writes : w.at = x /\ average(w.weights) THEN "guess" ELSE "unset"]
  BY DEF multigrid_prolong_temp
<1>3. ASSUME NEW x \in Plane(to)
      PROVE  \E w \in writes : w.at = x /\ average(w.weights)
  <2>1. PICK p \in 0 .. 2 * m.rows - 1, q \in 0 .. 2 * m.cols - 1 : x = <<p, q>>
    BY DEF Plane
  <2>a. CellWritten(m.rows, m.cols, p, q)
    BY FineCellWritten
  <2>2. PICK w \in writes :
           /\ w.at = <<p, q>>
           /\ DOMAIN w.weights \subseteq (0 .. m.rows - 1) \X (0 .. m.cols - 1)
           /\ SumFunctionOnSet(w.weights, DOMAIN w.weights) = 16
    BY <2>a DEF CellWritten
  <2>3. DOMAIN solved = (0 .. m.rows - 1) \X (0 .. m.cols - 1) /\ \A y \in DOMAIN solved : solved[y] = "solved"
    BY DEF Plane
  <2> HIDE DEF writes
  <2> QED
    BY <2>1, <2>2, <2>3
<1> HIDE DEF fine0, writes, average
<1> QED
  BY <1>1, <1>2, <1>3

(***************************************************************************)
(* The steady state                                                        *)
(***************************************************************************)

IsStack(s) == \E S : s \in Seq(S)

\* What was at the end of the stack of finer grids, or is the current one.
Bottom(top, s) == IF s = <<>> THEN top ELSE s[Len(s)]

LEMMA PushKeepsBottom ==
  ASSUME NEW s, IsStack(s), NEW x
  PROVE  /\ IsStack(<<x>> \o s) /\ Len(<<x>> \o s) = Len(s) + 1 /\ <<x>> \o s # <<>>
         /\ \A y : Bottom(y, <<x>> \o s) = Bottom(x, s)
<1>1. PICK S : s \in Seq(S)
  BY DEF IsStack
<1> DEFINE T == S \cup {x}
           r == <<x>> \o s
<1>2. s \in Seq(T) /\ <<x>> \in Seq(T)
  BY <1>1
<1>3. Len(s) \in Nat /\ (s = <<>> <=> Len(s) = 0)
  BY <1>1
<1> HIDE DEF T
<1>4. r \in Seq(T) /\ Len(r) = Len(s) + 1
  BY <1>2
<1>5. r # <<>>
  BY <1>3, <1>4
<1>6. r[Len(s) + 1] = IF Len(s) = 0 THEN x ELSE s[Len(s)]
  BY <1>2, <1>3
<1> HIDE DEF r
<1>7. \A y : Bottom(y, r) = Bottom(x, s)
  BY <1>3, <1>4, <1>5, <1>6 DEF Bottom
<1> QED
  BY <1>4, <1>5, <1>7 DEF r, IsStack

LEMMA PopKeepsBottom ==
  ASSUME NEW s, IsStack(s), s # <<>>
  PROVE  /\ IsStack(Tail(s)) /\ Len(Tail(s)) = Len(s) - 1 /\ Len(s) \in Nat \ {0}
         /\ \A y : Bottom(Head(s), Tail(s)) = Bottom(y, s)
<1>1. PICK S : s \in Seq(S)
  BY DEF IsStack
<1>2. Len(s) \in Nat \ {0}
  BY <1>1
<1> DEFINE r == Tail(s)
<1>3. r \in Seq(S) /\ Len(r) = Len(s) - 1 /\ \A k \in 1 .. Len(r) : r[k] = s[k + 1]
  BY <1>1, <1>2
<1>4. r = <<>> <=> Len(r) = 0
  BY <1>3
<1>5. Head(s) = s[1]
  BY <1>1, <1>2
<1> HIDE DEF r
<1>6. \A y : Bottom(Head(s), r) = Bottom(y, s)
  BY <1>2, <1>3, <1>4, <1>5 DEF Bottom
<1> QED
  BY <1>2, <1>3, <1>6 DEF r, IsStack

\* The grid in use: so many times coarser than the configured one as there are finer
\* grids on the stack.
Models == [rows : Nat, cols : Nat, quarter : Nat, r_ready : BOOLEAN, c_ready : BOOLEAN]

GridInUse ==
  /\ model \in Models
  /\ model.rows * power2[model.quarter] = cfg.rows
  /\ model.cols * power2[model.quarter] = cfg.cols
  /\ ~cfg.slu => Binary(model.rows) /\ Binary(model.cols)
  /\ IsStack(fine) /\ Len(fine) = model.quarter

\* The coarsest grid's way back: the power of the finest grid is at the bottom of the
\* stack, and every cell of the grid in use has a guess, or is solved.
SolutionInHand ==
  /\ pc \notin {"coarsen", "iterate", "prolong"} => fine = <<>>
  /\ pc = "prolong" => fine # <<>>
  /\ pc = "coarsen" => ~cfg.slu
  /\ pc \in Steady => Bottom(gp, fine) = xlate_vector_b2g(cfg, bgmap, overall)
  /\ pc = "iterate" => gt \in [Plane(model) -> {"guess"}]
  /\ pc \in {"prolong", "solved"} => gt \in [Plane(model) -> {"solved"}]
  /\ pc = "matrix" => DOMAIN gt = Plane(model)

SolveInv ==
  /\ pc \in Phases
  /\ cfg \in Configs
  /\ GridInUse
  /\ SolutionInHand

LEMMA StackEmpty == IsStack(<<>>) /\ Len(<<>>) = 0
<1>1. <<>> \in Seq({})
  OBVIOUS
<1> QED
  BY <1>1 DEF IsStack

LEMMA SolveInit == Init => SolveInv
<1> SUFFICES ASSUME Init
             PROVE  SolveInv
  OBVIOUS
<1> USE DEF Init
<1>0. model \in Models
  BY GridAssumption DEF Models
<1>1. cfg \in Configs /\ cfg.slu \in BOOLEAN /\ cfg.rows \in Nat \ {0} /\ cfg.cols \in Nat \ {0}
  BY GridAssumption
<1>2. ~cfg.slu => IsPowerOfTwo(cfg.rows) /\ IsPowerOfTwo(cfg.cols)
  BY GridAssumption
<1>3. ~cfg.slu => Binary(cfg.rows) /\ Binary(cfg.cols)
  BY <1>1, <1>2 DEF IsPowerOfTwo, Binary
<1>4. power2[0] = 1
  BY Power2Unfolds
<1>5. GridInUse
  BY <1>0, <1>1, <1>3, <1>4, StackEmpty DEF GridInUse
<1> QED
  BY <1>1, <1>5 DEF SolveInv, SolutionInHand, Phases, Steady

LEMMA CoarserModel ==
  ASSUME NEW m \in Models
  PROVE  /\ coarser(m) \in Models
         /\ coarser(m).rows = m.rows \div 2 /\ coarser(m).cols = m.cols \div 2
         /\ coarser(m).quarter = m.quarter + 1
<1> DEFINE r == m.rows \div 2
           c == m.cols \div 2
           q == m.quarter + 1
<1>1. m = [rows |-> m.rows, cols |-> m.cols, quarter |-> m.quarter,
           r_ready |-> m.r_ready, c_ready |-> m.c_ready]
  BY DEF Models
<1>2. r \in Nat /\ c \in Nat /\ q \in Nat /\ m.r_ready \in BOOLEAN /\ m.c_ready \in BOOLEAN
  BY DEF Models
<1>3. coarser(m) = [m EXCEPT !.rows = r, !.cols = c, !.quarter = q]
  BY DEF coarser
<1> HIDE DEF r, c, q
<1>4. coarser(m) = [rows |-> r, cols |-> c, quarter |-> q, r_ready |-> m.r_ready, c_ready |-> m.c_ready]
  BY <1>1, <1>3
<1>5. coarser(m) \in Models /\ coarser(m).rows = r /\ coarser(m).cols = c /\ coarser(m).quarter = q
  BY <1>2, <1>4 DEF Models
<1> QED
  BY <1>5 DEF r, c, q

LEMMA FinerModel ==
  ASSUME NEW m \in Models, m.quarter # 0
  PROVE  /\ finer(m) \in Models
         /\ finer(m).rows = 2 * m.rows /\ finer(m).cols = 2 * m.cols
         /\ finer(m).quarter = m.quarter - 1
<1> DEFINE r == 2 * m.rows
           c == 2 * m.cols
           q == m.quarter - 1
<1>1. m = [rows |-> m.rows, cols |-> m.cols, quarter |-> m.quarter,
           r_ready |-> m.r_ready, c_ready |-> m.c_ready]
  BY DEF Models
<1>2. r \in Nat /\ c \in Nat /\ q \in Nat /\ m.r_ready \in BOOLEAN /\ m.c_ready \in BOOLEAN
  BY DEF Models
<1>3. finer(m) = [m EXCEPT !.rows = r, !.cols = c, !.quarter = q]
  BY DEF finer
<1> HIDE DEF r, c, q
<1>4. finer(m) = [rows |-> r, cols |-> c, quarter |-> q, r_ready |-> m.r_ready, c_ready |-> m.c_ready]
  BY <1>1, <1>3
<1>5. finer(m) \in Models /\ finer(m).rows = r /\ finer(m).cols = c /\ finer(m).quarter = q
  BY <1>2, <1>4 DEF Models
<1> QED
  BY <1>5 DEF r, c, q

LEMMA GridKept ==
  GridInUse /\ UNCHANGED <<cfg, fine, model.rows, model.cols, model.quarter>>
  /\ model' \in Models
    => GridInUse'
BY DEF GridInUse

LEMMA GridCoarsened == SolveInv /\ coarsen => GridInUse'
<1> SUFFICES ASSUME SolveInv, coarsen
             PROVE  GridInUse'
  OBVIOUS
<1> USE DEF SolveInv, SolutionInHand, coarsen, GridInUse
<1>1. cfg' = cfg /\ fine' = <<gp>> \o fine
  BY DEF unchangedSteady
<1>2. model.rows \in Nat /\ model.cols \in Nat /\ model.quarter \in Nat
  BY DEF Models
<1>3. model' = coarser(model) /\ model \in Models
  OBVIOUS
<1>4. model.rows > 1 /\ model.cols > 1
  BY <1>2 DEF Coarsest
<1>5. /\ Binary(model.rows \div 2) /\ model.rows = 2 * (model.rows \div 2)
      /\ Binary(model.cols \div 2) /\ model.cols = 2 * (model.cols \div 2)
  BY <1>2, <1>4, Halves
<1>6. /\ model'.rows = model.rows \div 2 /\ model'.cols = model.cols \div 2
      /\ model'.quarter = model.quarter + 1
      /\ model' \in Models
  BY <1>3, CoarserModel
<1>7. IsStack(fine') /\ Len(fine') = model'.quarter
  <2>1. IsStack(fine) /\ Len(fine) = model.quarter
    OBVIOUS
  <2>2. IsStack(<<gp>> \o fine) /\ Len(<<gp>> \o fine) = Len(fine) + 1
    BY <2>1, PushKeepsBottom
  <2> QED
    BY <1>1, <1>6, <2>1, <2>2
<1> DEFINE r == model.rows \div 2
           c == model.cols \div 2
           p == power2[model.quarter]
<1>8. power2[model'.quarter] = 2 * p /\ p \in Nat /\ r \in Nat /\ c \in Nat
  <2>1. power2[model.quarter + 1] = 2 * p /\ p \in Nat
    BY <1>2, Power2Unfolds
  <2>2. r \in Nat /\ c \in Nat
    BY <1>2
  <2> QED
    BY <1>6, <2>1, <2>2
<1>9. (2 * r) * p = cfg.rows /\ (2 * c) * p = cfg.cols
  BY <1>5
<1> HIDE DEF p, r, c
<1>10. r * (2 * p) = (2 * r) * p /\ c * (2 * p) = (2 * c) * p
  BY <1>8
<1>11. model'.rows * power2[model'.quarter] = cfg.rows /\ model'.cols * power2[model'.quarter] = cfg.cols
  BY <1>6, <1>8, <1>9, <1>10 DEF r, c
<1> QED
  BY <1>1, <1>5, <1>6, <1>7, <1>11

LEMMA GridRefined == SolveInv /\ prolong => GridInUse' /\ model.rows \in Nat \ {0} /\ model.cols \in Nat \ {0}
<1> SUFFICES ASSUME SolveInv, prolong
             PROVE  GridInUse' /\ model.rows \in Nat \ {0} /\ model.cols \in Nat \ {0}
  OBVIOUS
<1> USE DEF SolveInv, SolutionInHand, prolong, GridInUse
<1>1. cfg' = cfg /\ fine' = Tail(fine) /\ fine # <<>>
  BY DEF unchangedSteady
<1>2. model.rows \in Nat /\ model.cols \in Nat
  BY DEF Models
<1>3. IsStack(fine') /\ Len(fine') = model.quarter - 1 /\ model.quarter \in Nat \ {0}
  BY <1>1, PopKeepsBottom
<1>4. /\ model'.rows = 2 * model.rows /\ model'.cols = 2 * model.cols
      /\ model'.quarter = model.quarter - 1
      /\ model' \in Models
  BY <1>3, FinerModel
<1> DEFINE p == power2[model.quarter - 1]
           r == model.rows
           c == model.cols
<1>5. model.quarter - 1 \in Nat /\ model.quarter = (model.quarter - 1) + 1
  BY <1>3
<1>6. power2[model.quarter] = 2 * p /\ p \in Nat
  BY <1>5, Power2Unfolds
<1>7. r * (2 * p) = cfg.rows /\ c * (2 * p) = cfg.cols /\ r \in Nat /\ c \in Nat
  BY <1>2, <1>6
<1>8. cfg.rows \in Nat \ {0} /\ cfg.cols \in Nat \ {0}
  BY GridAssumption
<1> HIDE DEF p, r, c
<1>9. r * (2 * p) = (2 * r) * p /\ c * (2 * p) = (2 * c) * p
  BY <1>6, <1>7
<1>10. r # 0 /\ c # 0
  BY <1>6, <1>7, <1>8
<1>11. model'.rows * power2[model'.quarter] = cfg.rows /\ model'.cols * power2[model'.quarter] = cfg.cols
  BY <1>4, <1>7, <1>9 DEF r, c, p
<1>12. ~cfg.slu => Binary(2 * model.rows) /\ Binary(2 * model.cols)
  BY BinaryDoubled
<1> QED
  BY <1>1, <1>3, <1>4, <1>7, <1>10, <1>11, <1>12 DEF r, c

LEMMA ReadyModel ==
  ASSUME NEW m \in Models
  PROVE  /\ [m EXCEPT !.r_ready = TRUE] \in Models /\ [m EXCEPT !.c_ready = TRUE] \in Models
         /\ [m EXCEPT !.r_ready = TRUE].rows = m.rows /\ [m EXCEPT !.r_ready = TRUE].cols = m.cols
         /\ [m EXCEPT !.r_ready = TRUE].quarter = m.quarter
         /\ [m EXCEPT !.c_ready = TRUE].rows = m.rows /\ [m EXCEPT !.c_ready = TRUE].cols = m.cols
         /\ [m EXCEPT !.c_ready = TRUE].quarter = m.quarter
BY DEF Models

LEMMA GridReady ==
  /\ GridInUse /\ populate_R_model_grid => GridInUse'
  /\ GridInUse /\ populate_C_model_grid => GridInUse'
<1>1. ASSUME GridInUse, cfg' = cfg, fine' = fine, NEW m, model' = m, m \in Models,
             m.rows = model.rows, m.cols = model.cols, m.quarter = model.quarter
      PROVE  GridInUse'
  BY <1>1 DEF GridInUse
<1>2. ASSUME GridInUse, populate_R_model_grid
      PROVE  GridInUse'
  <2>1. model \in Models /\ cfg' = cfg /\ fine' = fine /\ model' = [model EXCEPT !.r_ready = TRUE]
    BY <1>2 DEF GridInUse, populate_R_model_grid, unchangedSolver
  <2> QED
    BY <1>1, <1>2, <2>1, ReadyModel
<1>3. ASSUME GridInUse, populate_C_model_grid
      PROVE  GridInUse'
  <2>1. model \in Models /\ cfg' = cfg /\ fine' = fine /\ model' = [model EXCEPT !.c_ready = TRUE]
    BY <1>3 DEF GridInUse, populate_C_model_grid, unchangedSolver
  <2> QED
    BY <1>1, <1>3, <2>1, ReadyModel
<1> QED
  BY <1>2, <1>3

\* Outside the steady state nothing is claimed of the solution, and no finer grid is kept.
Elsewhere == {"alloc", "resistances", "init", "idle", "rows", "compute", "rk4"}

LEMMA StackKept ==
  ASSUME SolveInv, cfg' = cfg, model' = model, fine' = fine, pc' \in Elsewhere, pc \notin {"coarsen", "iterate", "prolong"}
  PROVE  SolveInv'
<1>1. GridInUse' /\ fine' = <<>> /\ pc' \in Phases /\ cfg' \in Configs
  BY DEF SolveInv, SolutionInHand, GridInUse, Elsewhere, Phases
<1>2. SolutionInHand'
  BY <1>1 DEF Elsewhere, SolutionInHand, Steady
<1> QED
  BY <1>1, <1>2 DEF SolveInv

LEMMA SolveSteadyStarts == SolveInv /\ steady_state_temp_grid => SolveInv'
<1> SUFFICES ASSUME SolveInv, steady_state_temp_grid
             PROVE  SolveInv'
  OBVIOUS
<1>1. fine = <<>> /\ cfg \in Configs /\ GridInUse /\ cfg.slu \in BOOLEAN
  BY GridAssumption DEF SolveInv, SolutionInHand, steady_state_temp_grid
<1>2. /\ cfg' = cfg /\ model' = model /\ fine' = <<>> /\ bgmap' = bgmap /\ overall' = overall
      /\ gp' = xlate_vector_b2g(cfg, bgmap, overall)
      /\ gt' = [x \in Plane(model) |-> "unset"]
      /\ pc' = IF cfg.slu THEN "matrix" ELSE IF cfg.det THEN "heuristic" ELSE "coarsen"
  BY DEF steady_state_temp_grid, unchangedCall
<1>3. GridInUse'
  BY <1>1, <1>2 DEF GridInUse
<1>4. SolutionInHand'
  BY <1>1, <1>2 DEF SolutionInHand, Bottom
<1> QED
  BY <1>1, <1>2, <1>3, <1>4 DEF Phases, SolveInv

LEMMA SolveCoarsen == SolveInv /\ coarsen => SolveInv'
<1> SUFFICES ASSUME SolveInv, coarsen
             PROVE  SolveInv'
  OBVIOUS
<1>1. /\ pc = "coarsen" /\ pc' = pc /\ cfg' = cfg /\ bgmap' = bgmap /\ overall' = overall
      /\ fine' = <<gp>> \o fine
  BY DEF coarsen, unchangedSteady, unchangedCall
<1>2. GridInUse'
  BY GridCoarsened
<1>3. IsStack(fine) /\ Bottom(gp, fine) = xlate_vector_b2g(cfg, bgmap, overall) /\ ~cfg.slu
  BY <1>1 DEF SolveInv, SolutionInHand, GridInUse, Steady
<1>4. Bottom(gp', fine') = Bottom(gp, fine)
  BY <1>1, <1>3, PushKeepsBottom
<1>5. SolutionInHand'
  BY <1>1, <1>3, <1>4 DEF SolutionInHand
<1>6. pc' \in Phases /\ cfg' \in Configs
  BY <1>1 DEF SolveInv, SolutionInHand
<1> QED
  BY <1>2, <1>5, <1>6 DEF SolveInv

LEMMA SolveHeuristic == SolveInv /\ set_heuristic_temp => SolveInv'
<1> SUFFICES ASSUME SolveInv, set_heuristic_temp
             PROVE  SolveInv'
  OBVIOUS
<1>1. /\ pc \in {"heuristic", "coarsen"} /\ pc' = "iterate"
      /\ cfg' = cfg /\ bgmap' = bgmap /\ overall' = overall /\ model' = model
      /\ fine' = fine /\ gp' = gp
      /\ gt' = [x \in Plane(model) |-> "guess"]
  BY DEF set_heuristic_temp, unchangedSteady, unchangedCall
<1>2. GridInUse' /\ cfg' \in Configs
  BY <1>1 DEF SolveInv, SolutionInHand, GridInUse
<1>3. Bottom(gp, fine) = xlate_vector_b2g(cfg, bgmap, overall)
  BY <1>1 DEF SolveInv, SolutionInHand, Steady
<1>4. gt' \in [Plane(model') -> {"guess"}]
  BY <1>1
<1>5. SolutionInHand'
  BY <1>1, <1>3, <1>4 DEF SolutionInHand
<1> QED
  BY <1>1, <1>2, <1>5 DEF Phases, SolveInv

LEMMA SolveIterate == SolveInv /\ iterate => SolveInv'
<1> SUFFICES ASSUME SolveInv, iterate
             PROVE  SolveInv'
  OBVIOUS
<1>1. /\ pc = "iterate" /\ pc' = IF fine = <<>> THEN "solved" ELSE "prolong"
      /\ cfg' = cfg /\ bgmap' = bgmap /\ overall' = overall /\ model' = model
      /\ fine' = fine /\ gp' = gp
      /\ gt' = [x \in DOMAIN gt |-> IF gt[x] = "unset" THEN "unset" ELSE "solved"]
  BY DEF iterate, unchangedSteady, unchangedCall
<1>2. GridInUse' /\ cfg' \in Configs
  BY <1>1 DEF SolveInv, SolutionInHand, GridInUse
<1>3. Bottom(gp, fine) = xlate_vector_b2g(cfg, bgmap, overall) /\ gt \in [Plane(model) -> {"guess"}]
  BY <1>1 DEF SolveInv, SolutionInHand, Steady
<1>4. gt' \in [Plane(model') -> {"solved"}]
  BY <1>1, <1>3
<1>5. SolutionInHand'
  BY <1>1, <1>3, <1>4 DEF SolutionInHand
<1> QED
  BY <1>1, <1>2, <1>5 DEF Phases, SolveInv

LEMMA SolveProlong == SolveInv /\ prolong => SolveInv'
<1> SUFFICES ASSUME SolveInv, prolong
             PROVE  SolveInv'
  OBVIOUS
<1>1. /\ pc = "prolong" /\ pc' = "iterate"
      /\ cfg' = cfg /\ bgmap' = bgmap /\ overall' = overall /\ model' = finer(model)
      /\ fine' = Tail(fine) /\ gp' = Head(fine)
      /\ gt' = multigrid_prolong_temp(model, gt)
  BY DEF prolong, unchangedSteady, unchangedCall
<1>2. GridInUse' /\ model.rows \in Nat \ {0} /\ model.cols \in Nat \ {0}
  BY GridRefined
<1>3. /\ Bottom(gp, fine) = xlate_vector_b2g(cfg, bgmap, overall) /\ gt \in [Plane(model) -> {"solved"}]
      /\ IsStack(fine) /\ fine # <<>> /\ model \in Models /\ model.quarter = Len(fine) /\ cfg \in Configs
  BY <1>1 DEF SolveInv, SolutionInHand, Steady, GridInUse
<1>4. /\ Bottom(gp', fine') = Bottom(gp, fine) /\ model.quarter # 0
  <2>1. Len(fine) \in Nat \ {0} /\ \A y : Bottom(Head(fine), Tail(fine)) = Bottom(y, fine)
    BY <1>3, PopKeepsBottom
  <2> QED
    BY <1>1, <1>3, <2>1
<1>5. model'.rows = 2 * model.rows /\ model'.cols = 2 * model.cols
  BY <1>1, <1>3, <1>4, FinerModel
<1>6. gt' \in [Plane(model') -> {"guess"}]
  BY <1>1, <1>2, <1>3, <1>5, ProlongGuesses
<1>7. SolutionInHand'
  BY <1>1, <1>3, <1>4, <1>6 DEF SolutionInHand
<1> QED
  BY <1>1, <1>2, <1>3, <1>7 DEF Phases, SolveInv

LEMMA SolveDirect ==
  /\ SolveInv /\ build_steady_grid_matrix => SolveInv'
  /\ SolveInv /\ direct_SLU => SolveInv'
<1>1. ASSUME SolveInv, pc = "matrix", pc' \in {"matrix", "solved", "fatal"},
             UNCHANGED <<cfg, bgmap, overall, model, fine, gp>>,
             pc' = "matrix" => gt' = gt,
             pc' = "solved" => gt' = [x \in DOMAIN gt |-> "solved"]
      PROVE  SolveInv'
  <2>1. GridInUse' /\ cfg' \in Configs /\ pc' \in Phases
    BY <1>1 DEF SolveInv, SolutionInHand, GridInUse, Phases
  <2>2. /\ Bottom(gp, fine) = xlate_vector_b2g(cfg, bgmap, overall) /\ DOMAIN gt = Plane(model)
        /\ fine = <<>>
    BY <1>1 DEF SolveInv, SolutionInHand, Steady
  <2>3. pc' = "solved" => gt' \in [Plane(model') -> {"solved"}]
    BY <1>1, <2>2
  <2>4. SolutionInHand'
    BY <1>1, <2>2, <2>3 DEF SolutionInHand
  <2> QED
    BY <2>1, <2>4 DEF SolveInv
<1>2. ASSUME SolveInv, build_steady_grid_matrix
      PROVE  SolveInv'
  BY <1>1, <1>2 DEF build_steady_grid_matrix, unchangedCall
<1>3. ASSUME SolveInv, direct_SLU
      PROVE  SolveInv'
  BY <1>1, <1>3 DEF direct_SLU, unchangedCall
<1> QED
  BY <1>2, <1>3

LEMMA SolveNext == SolveInv /\ [Next]_vars => SolveInv'
<1> SUFFICES ASSUME SolveInv, [Next]_vars
             PROVE  SolveInv'
  OBVIOUS
<1> USE DEF Elsewhere, unchangedCall, unchangedSolver
<1>1. ASSUME NEW p \in Elsewhere, pc' = p, GridInUse', cfg' = cfg, fine' = <<>>
      PROVE  SolveInv'
  <2>1. SolutionInHand'
    BY <1>1 DEF Elsewhere, SolutionInHand, Steady
  <2> QED
    BY <1>1, <2>1 DEF Phases, SolveInv
<1>2. CASE populate_R_model_grid \/ populate_C_model_grid
  <2>1. GridInUse'
    BY <1>2, GridReady DEF SolveInv, SolutionInHand
  <2>2. fine = <<>> /\ fine' = fine /\ cfg' = cfg /\ pc' \in {"resistances", "init"}
    BY <1>2 DEF SolveInv, SolutionInHand, populate_R_model_grid, populate_C_model_grid
  <2> QED
    BY <1>1, <2>1, <2>2
<1>3. CASE initTemp
  BY <1>3, StackKept DEF initTemp
<1>4. CASE switchAnalysis
  BY <1>4, StackKept DEF switchAnalysis
<1>5. CASE beginCalculate
  BY <1>5, StackKept DEF beginCalculate
<1>6. CASE readRow
  BY <1>6, StackKept DEF readRow
<1>7. CASE compute_temp_grid
  BY <1>7, StackKept DEF compute_temp_grid
<1>8. CASE rk4Retry
  BY <1>8, StackKept DEF rk4Retry
<1>9. CASE rk4Step
  BY <1>9, StackKept DEF rk4Step
<1>10. CASE steady_state_temp_grid
  BY <1>10, SolveSteadyStarts
<1>11. CASE coarsen
  BY <1>11, SolveCoarsen
<1>12. CASE set_heuristic_temp
  BY <1>12, SolveHeuristic
<1>13. CASE iterate
  BY <1>13, SolveIterate
<1>14. CASE prolong
  BY <1>14, SolveProlong
<1>15. CASE build_steady_grid_matrix \/ direct_SLU
  BY <1>15, SolveDirect
<1>16. CASE endCalculate
  BY <1>16, StackKept DEF endCalculate
<1>17. CASE UNCHANGED vars
  BY <1>17 DEF vars, SolveInv, SolutionInHand, GridInUse, Steady
<1> QED
  BY <1>2, <1>3, <1>4, <1>5, <1>6, <1>7, <1>8, <1>9, <1>10, <1>11, <1>12, <1>13, <1>14,
     <1>15, <1>16, <1>17 DEF Next

LEMMA SolveSolves == SolveInv => SteadySolvesModel
<1> SUFFICES ASSUME SolveInv
             PROVE  SteadySolvesModel
  OBVIOUS
<1>1. pc = "iterate" => DOMAIN gt = Plane(model) /\ \A x \in DOMAIN gt : gt[x] = "guess"
  BY DEF SolveInv, SolutionInHand
<1>2. pc \in {"solved", "idle", "rows", "rk4"} => model.quarter = 0
  BY StackEmpty DEF SolveInv, SolutionInHand, GridInUse
<1>3. pc = "solved" => gt = [x \in Plane(model) |-> "solved"]
  BY DEF SolveInv, SolutionInHand
<1>4. pc = "solved" => gp = xlate_vector_b2g(cfg, bgmap, overall) /\ fine = <<>>
  BY DEF SolveInv, SolutionInHand, Steady, Bottom
<1> QED
  BY <1>1, <1>2, <1>3, <1>4 DEF SolveInv, SolutionInHand, GridInUse, SteadySolvesModel

\* For every grid whose sides are powers of two (any grid with SuperLU) the multigrid
\* comes back to the model it started from: at every level the resistances belong to
\* the grid in use, the prolongation of a solved grid leaves no finer cell without a
\* guess, and what is solved at the end is the finest grid with the average power.
THEOREM SteadyStateSolvesModel == Spec => []SteadySolvesModel
<1>1. SolveInv /\ [Next]_vars => SolveInv'
  BY SolveNext
<1> QED
  BY SolveInit, <1>1, SolveSolves, PTL DEF Spec

(***************************************************************************)
(* The blocks of the layers, one after another                             *)
(***************************************************************************)

LEMMA ConfigFlags ==
  ASSUME NEW c \in Configs
  PROVE  Len(c.plans) \in Nat \ {0} /\ c.lcf \in BOOLEAN /\ c.sec \in BOOLEAN
<1>1. c.plans \in Seq(Seq(Rectangle)) /\ c.plans # <<>>
  BY GridAssumption
<1>2. c.lcf \in BOOLEAN /\ c.sec \in BOOLEAN
  BY GridAssumption
<1>3. Len(c.plans) \in Nat \ {0}
  BY <1>1
<1> QED
  BY <1>2, <1>3

LEMMA LayersCounted ==
  ASSUME NEW c \in Configs
  PROVE  /\ n_layers(c) \in Nat /\ n_layers(c) >= 3
         /\ c.lcf /\ c.sec => n_layers(c) = Len(c.plans) + 5 /\ silidx(c) = 3
         /\ c.lcf /\ ~c.sec => n_layers(c) = Len(c.plans) + 2 /\ silidx(c) = 0
<1> USE DEF n_layers, silidx, DEFAULT_CHIP_LAYERS, SEC_CHIP_LAYERS, SEC_PACK_LAYERS
<1> DEFINE L == Len(c.plans)
<1>1. L \in Nat \ {0}
  BY ConfigFlags
<1> HIDE DEF L
<1>2. CASE c.lcf /\ c.sec
  <2>1. n_layers(c) = L + 0 + 2 + 3 /\ silidx(c) = 3 + 0
    BY <1>2 DEF L
  <2> QED
    BY <1>1, <1>2, <2>1 DEF L
<1>3. CASE c.lcf /\ ~c.sec
  <2>1. n_layers(c) = L + 2 + 0 /\ silidx(c) = 0
    BY <1>3 DEF L
  <2> QED
    BY <1>1, <1>3, <2>1 DEF L
<1>4. CASE ~c.lcf /\ c.sec
  <2>1. n_layers(c) = (2 + 2) + 2 + 3
    BY <1>4
  <2> QED
    BY <1>4, <2>1
<1>5. CASE ~c.lcf /\ ~c.sec
  <2>1. n_layers(c) = (2 + 0) + 2 + 0
    BY <1>5
  <2> QED
    BY <1>5, <2>1
<1> QED
  BY <1>2, <1>3, <1>4, <1>5

\* Where the chip's layers are.
LEMMA ChipPlan ==
  ASSUME NEW c \in Configs, NEW n \in Int,
         c.lcf => n - (IF c.sec THEN SEC_PACK_LAYERS ELSE 0) + 1 \in 1 .. Len(c.plans)
  PROVE  chipLayer(c, n).flp \in Seq(Rectangle)
<1>1. c.plans \in Seq(Seq(Rectangle)) /\ Len(c.plans) \in Nat \ {0} /\ c.lcf \in BOOLEAN
  BY GridAssumption
<1>2. \A k \in 1 .. Len(c.plans) : c.plans[k] \in Seq(Rectangle)
  BY <1>1
<1>3. CASE c.lcf
  <2> DEFINE k == n - (IF c.sec THEN SEC_PACK_LAYERS ELSE 0) + 1
  <2>1. chipLayer(c, n).flp = c.plans[k]
    BY <1>3 DEF chipLayer
  <2> QED
    BY <1>2, <1>3, <2>1
<1>4. CASE ~c.lcf
  <2>1. chipLayer(c, n).flp = c.plans[1]
    BY <1>4 DEF chipLayer
  <2>2. 1 \in 1 .. Len(c.plans)
    BY <1>1
  <2> QED
    BY <1>2, <2>1, <2>2
<1> QED
  BY <1>3, <1>4

LEMMA LayerPlan ==
  ASSUME NEW c \in Configs, NEW n \in LayerNos(c)
  PROVE  layer(c, n).flp \in Seq(Rectangle)
<1> DEFINE pack == IF c.sec THEN SEC_PACK_LAYERS ELSE 0
           top == n_layers(c) - 2
<1>1. Len(c.plans) \in Nat \ {0} /\ c.lcf \in BOOLEAN /\ c.sec \in BOOLEAN
  BY ConfigFlags
<1>2. c.lcf => n_layers(c) = Len(c.plans) + 2 + pack /\ silidx(c) = pack
  <2>1. c.lcf /\ c.sec => n_layers(c) = Len(c.plans) + 5 /\ silidx(c) = 3
    BY LayersCounted
  <2>2. c.lcf /\ ~c.sec => n_layers(c) = Len(c.plans) + 2 /\ silidx(c) = 0
    BY LayersCounted
  <2>3. (c.sec => pack = 3) /\ (~c.sec => pack = 0)
    BY DEF SEC_PACK_LAYERS
  <2> HIDE DEF pack
  <2> QED
    BY <1>1, <2>1, <2>2, <2>3
<1>3. pack \in Nat /\ (c.sec => pack = 3) /\ (~c.sec => pack = 0) /\ silidx(c) \in Int
  BY <1>1 DEF SEC_PACK_LAYERS, SEC_CHIP_LAYERS, silidx
<1>4. n \in Nat /\ n <= n_layers(c) - 1 /\ n_layers(c) \in Nat
  BY LayersCounted DEF LayerNos
<1> HIDE DEF pack
<1>5. ASSUME NEW m \in Int, c.lcf => m - pack + 1 \in 1 .. Len(c.plans)
      PROVE  chipLayer(c, m).flp \in Seq(Rectangle)
  BY <1>5, ChipPlan DEF pack
<1>6. CASE n >= n_layers(c) - 2
  <2>1. layer(c, n).flp = chipLayer(c, top - 1).flp
    BY <1>6 DEF layer, packLayer, chipLayer
  <2>2. c.lcf => (top - 1) - pack + 1 \in 1 .. Len(c.plans)
    BY <1>1, <1>2, <1>3
  <2>3. top - 1 \in Int
    BY <1>4
  <2> HIDE DEF top
  <2> QED
    BY <1>5, <2>1, <2>2, <2>3
<1>7. CASE n < n_layers(c) - 2 /\ c.sec /\ n <= LAYER_SUB
  <2>1. layer(c, n).flp = chipLayer(c, silidx(c)).flp
    BY <1>4, <1>7 DEF layer, packLayer, chipLayer
  <2>2. c.lcf => silidx(c) - pack + 1 \in 1 .. Len(c.plans)
    BY <1>1, <1>2, <1>3
  <2> QED
    BY <1>3, <1>5, <2>1, <2>2
<1>8. CASE n < n_layers(c) - 2 /\ ~(c.sec /\ n <= LAYER_SUB)
  <2>1. layer(c, n).flp = chipLayer(c, n).flp
    BY <1>4, <1>8 DEF layer
  <2>2. c.lcf => n - pack + 1 \in 1 .. Len(c.plans)
    BY <1>1, <1>2, <1>3, <1>4, <1>8 DEF LAYER_SUB
  <2> QED
    BY <1>4, <1>5, <2>1, <2>2
<1> QED
  BY <1>4, <1>6, <1>7, <1>8

\* base adds up the layers' blocks; no layer starts before an earlier one ends.
BaseSteps(c) ==
  /\ base(c, 0) = 0
  /\ \A n \in LayerNos(c) : base(c, n + 1) = base(c, n) + Len(layer(c, n).flp)
  /\ \A n \in 0 .. n_layers(c) : base(c, n) \in Nat

LEMMA BaseAdds ==
  ASSUME NEW c \in Configs
  PROVE  BaseSteps(c)
<1> DEFINE L == n_layers(c)
           f == sizes(c)
<1>1. L \in Nat /\ LayerNos(c) = 0 .. L - 1
  BY LayersCounted DEF LayerNos
<1>2. \A n \in 0 .. L - 1 : f[n] = Len(layer(c, n).flp) /\ f[n] \in Nat
  BY <1>1, LayerPlan DEF sizes
<1> HIDE DEF L, f
<1>3. base(c, 0) = 0
  <2>1. 0 .. 0 - 1 = {} /\ IsFiniteSet({})
    BY FS_EmptySet
  <2>2. SumFunctionOnSet(f, {}) = 0
    BY <2>1, SumUnfolds
  <2> QED
    BY <2>1, <2>2 DEF base, f
<1>4. ASSUME NEW n \in 0 .. L - 1
      PROVE  base(c, n + 1) = base(c, n) + f[n]
  <2> DEFINE S == 0 .. n - 1
             T == 0 .. n
  <2>1. IsFiniteSet(S)
    BY <1>1, FS_Interval
  <2>2. n \notin S /\ T = S \cup {n} /\ T \subseteq 0 .. L - 1
    BY <1>1
  <2> HIDE DEF S, T
  <2>3. \A y \in T : f[y] \in Int
    BY <1>2, <2>2
  <2>4. OneMore(f, S, n, T)
    BY <2>1, <2>2, <2>3, SumOneMore
  <2>5. base(c, n) = SumFunctionOnSet(f, S)
    BY DEF base, f, S
  <2>6. (n + 1) - 1 = n
    BY <1>1
  <2>7. base(c, n + 1) = SumFunctionOnSet(f, T)
    BY <2>6 DEF base, f, T
  <2> QED
    BY <2>4, <2>5, <2>7 DEF OneMore
<1> DEFINE G == {n \in 0 .. L : base(c, n) \in Nat}
<1>5. 0 \in G
  BY <1>1, <1>3
<1>6. \A n \in 0 .. L - 1 : n \in G => n + 1 \in G
  BY <1>1, <1>2, <1>4
<1> HIDE DEF G
<1>7. 0 .. L \subseteq G
  BY <1>1, <1>5, <1>6, InductionUpTo
<1>8. \A n \in 0 .. L : base(c, n) \in Nat
  BY <1>7 DEF G
<1> QED
  BY <1>1, <1>2, <1>3, <1>4, <1>8 DEF BaseSteps, L

LEMMA BaseMonotone ==
  ASSUME NEW c \in Configs, NEW n \in 0 .. n_layers(c), NEW m \in 0 .. n_layers(c), n <= m
  PROVE  base(c, n) <= base(c, m)
<1> DEFINE L == n_layers(c)
           b(x) == base(c, x)
           T == {x \in 0 .. L : n <= x => b(n) <= b(x)}
<1>1. L \in Nat /\ LayerNos(c) = 0 .. L - 1
  BY LayersCounted DEF LayerNos
<1>2. \A x \in 0 .. L : b(x) \in Nat
  BY BaseAdds DEF BaseSteps
<1>3. \A x \in 0 .. L - 1 : b(x) <= b(x + 1)
  <2> TAKE x \in 0 .. L - 1
  <2>1. b(x + 1) = b(x) + Len(layer(c, x).flp)
    BY <1>1, BaseAdds DEF BaseSteps
  <2>2. Len(layer(c, x).flp) \in Nat
    BY <1>1, LayerPlan
  <2>3. b(x) \in Nat
    BY <1>1, <1>2
  <2> HIDE DEF b
  <2> QED
    BY <2>1, <2>2, <2>3
<1>4. n \in 0 .. L /\ m \in 0 .. L
  OBVIOUS
<1> HIDE DEF L, b
<1>5. 0 \in T
  BY <1>1, <1>2, <1>4
<1>6. \A x \in 0 .. L - 1 : x \in T => x + 1 \in T
  <2> SUFFICES ASSUME NEW x \in 0 .. L - 1, x \in T
               PROVE  x + 1 \in T
    OBVIOUS
  <2>1. x + 1 \in 0 .. L /\ x \in 0 .. L
    BY <1>1
  <2>2. b(x) <= b(x + 1) /\ b(x) \in Nat /\ b(x + 1) \in Nat /\ b(n) \in Nat
    BY <1>2, <1>3, <1>4, <2>1
  <2>3. n <= x => b(n) <= b(x)
    OBVIOUS
  <2>4. n <= x + 1 => b(n) <= b(x + 1)
    <3>1. CASE n <= x
      BY <2>2, <2>3, <3>1
    <3>2. CASE n = x + 1
      BY <2>2, <3>2
    <3> QED
      BY <1>1, <1>4, <2>1, <3>1, <3>2
  <2> QED
    BY <2>1, <2>4
<1> HIDE DEF T
<1>7. 0 .. L \subseteq T
  BY <1>1, <1>5, <1>6, InductionUpTo
<1>8. m \in T
  BY <1>4, <1>7
<1> QED
  BY <1>8 DEF T, b

\* The layer the k-th block belongs to.
Holds(c, n, k) == base(c, n) < k /\ k <= base(c, n + 1)
layerOf(c, k) == CHOOSE n \in LayerNos(c) : base(c, n) < k /\ k <= base(c, n + 1)

LEMMA LayerFound ==
  ASSUME NEW c \in Configs, NEW k \in 1 .. total_n_blocks(c)
  PROVE  /\ layerOf(c, k) \in LayerNos(c) /\ Holds(c, layerOf(c, k), k)
         /\ total_n_blocks(c) \in Nat
<1> DEFINE L == n_layers(c)
           T == {n \in 0 .. L : \A x \in 1 .. base(c, n) : \E m \in LayerNos(c) : Holds(c, m, x)}
<1>1. L \in Nat /\ LayerNos(c) = 0 .. L - 1
  BY LayersCounted DEF LayerNos
<1>2. base(c, 0) = 0 /\ \A x \in 0 .. L : base(c, x) \in Nat
  BY BaseAdds DEF BaseSteps
<1>3. total_n_blocks(c) = base(c, L)
  BY DEF total_n_blocks
<1> HIDE DEF L
<1>4. 0 \in T
  BY <1>1, <1>2
<1>5. \A n \in 0 .. L - 1 : n \in T => n + 1 \in T
  <2> SUFFICES ASSUME NEW n \in 0 .. L - 1, n \in T, NEW x \in 1 .. base(c, n + 1)
               PROVE  \E m \in LayerNos(c) : Holds(c, m, x)
    BY <1>1
  <2>1. n \in 0 .. L /\ n + 1 \in 0 .. L
    BY <1>1
  <2>2. base(c, n) \in Nat /\ base(c, n + 1) \in Nat
    BY <1>2, <2>1
  <2>3. CASE x <= base(c, n)
    BY <2>2, <2>3
  <2>4. CASE base(c, n) < x
    <3>1. Holds(c, n, x)
      BY <2>2, <2>4 DEF Holds
    <3> QED
      BY <1>1, <3>1
  <2> QED
    BY <2>2, <2>3, <2>4
<1> HIDE DEF T
<1>6. 0 .. L \subseteq T
  BY <1>1, <1>4, <1>5, InductionUpTo
<1>7. L \in T
  BY <1>1, <1>6
<1>8. \E n \in LayerNos(c) : Holds(c, n, k)
  BY <1>3, <1>7 DEF T
<1>9. layerOf(c, k) \in LayerNos(c) /\ Holds(c, layerOf(c, k), k)
  BY <1>8 DEF layerOf, Holds
<1>10. total_n_blocks(c) \in Nat
  BY <1>1, <1>2, <1>3
<1> QED
  BY <1>9, <1>10

LEMMA LayerUnique ==
  ASSUME NEW c \in Configs, NEW k \in Int, NEW n \in LayerNos(c), NEW m \in LayerNos(c),
         Holds(c, n, k), Holds(c, m, k)
  PROVE  n = m
<1>0. n_layers(c) \in Nat /\ LayerNos(c) = 0 .. n_layers(c) - 1
  BY LayersCounted DEF LayerNos
<1> DEFINE L == n_layers(c)
           b(x) == base(c, x)
<1>1. \A x \in 0 .. L : b(x) \in Nat
  BY BaseAdds DEF BaseSteps
<1>2. \A x, y \in 0 .. L : x <= y => b(x) <= b(y)
  BY BaseMonotone
<1>3. b(n) < k /\ k <= b(n + 1) /\ b(m) < k /\ k <= b(m + 1)
  BY DEF Holds
<1>4. n \in 0 .. L - 1 /\ m \in 0 .. L - 1 /\ L \in Nat
  BY <1>0
<1> HIDE DEF L, b
<1>5. n \in 0 .. L /\ m \in 0 .. L /\ n + 1 \in 0 .. L /\ m + 1 \in 0 .. L /\ n \in Int /\ m \in Int
  BY <1>4
<1>6. ~(n < m)
  <2> SUFFICES ASSUME n < m PROVE FALSE
    OBVIOUS
  <2>1. n + 1 <= m
    BY <1>5
  <2>2. b(n + 1) <= b(m) /\ b(n + 1) \in Nat /\ b(m) \in Nat
    BY <1>1, <1>2, <1>5, <2>1
  <2> QED
    BY <1>3, <2>2
<1>7. ~(m < n)
  <2> SUFFICES ASSUME m < n PROVE FALSE
    OBVIOUS
  <2>1. m + 1 <= n
    BY <1>5
  <2>2. b(m + 1) <= b(n) /\ b(m + 1) \in Nat /\ b(n) \in Nat
    BY <1>1, <1>2, <1>5, <2>1
  <2> QED
    BY <1>3, <2>2
<1> QED
  BY <1>5, <1>6, <1>7

\* Every block of a layer stands in the layer's stretch of the vectors.
LEMMA BlockPlace ==
  ASSUME NEW c \in Configs, NEW n \in LayerNos(c), NEW i \in BlockNos(c, n)
  PROVE  /\ base(c, n) \in Nat /\ i \in 1 .. Len(layer(c, n).flp)
         /\ base(c, n) + i \in 1 .. total_n_blocks(c)
         /\ total_n_blocks(c) \in Nat
         /\ layerOf(c, base(c, n) + i) = n
<1>0. n_layers(c) \in Nat /\ n \in 0 .. n_layers(c) - 1
  BY LayersCounted DEF LayerNos
<1>1. /\ base(c, n) \in Nat /\ base(c, n + 1) \in Nat /\ total_n_blocks(c) \in Nat
      /\ base(c, n + 1) = base(c, n) + Len(layer(c, n).flp)
  BY <1>0, BaseAdds DEF BaseSteps, total_n_blocks
<1>2. i \in 1 .. Len(layer(c, n).flp) /\ Len(layer(c, n).flp) \in Nat
  BY LayerPlan DEF BlockNos
<1>3. base(c, n + 1) <= total_n_blocks(c)
  <2>1. n + 1 \in 0 .. n_layers(c) /\ n_layers(c) \in 0 .. n_layers(c) /\ n + 1 <= n_layers(c)
    BY <1>0
  <2> QED
    BY <2>1, BaseMonotone DEF total_n_blocks
<1> DEFINE k == base(c, n) + i
<1>4. k \in 1 .. total_n_blocks(c) /\ Holds(c, n, k)
  BY <1>1, <1>2, <1>3 DEF Holds
<1> HIDE DEF k
<1>5. layerOf(c, k) \in LayerNos(c) /\ Holds(c, layerOf(c, k), k)
  BY <1>4, LayerFound
<1>6. layerOf(c, k) = n
  <2> DEFINE m == layerOf(c, k)
  <2>1. m \in LayerNos(c) /\ Holds(c, m, k) /\ k \in Int
    BY <1>1, <1>4, <1>5
  <2> HIDE DEF m
  <2>2. m = n
    BY <1>4, <2>1, LayerUnique
  <2> QED
    BY <2>2 DEF m
<1> QED
  BY <1>1, <1>2, <1>4, <1>6 DEF k

LEMMA BlockOfPlace ==
  ASSUME NEW c \in Configs, NEW k \in 1 .. total_n_blocks(c)
  PROVE  /\ layerOf(c, k) \in LayerNos(c)
         /\ k - base(c, layerOf(c, k)) \in BlockNos(c, layerOf(c, k))
         /\ base(c, layerOf(c, k)) \in Nat /\ total_n_blocks(c) \in Nat
<1> DEFINE n == layerOf(c, k)
<1>1. n \in LayerNos(c) /\ Holds(c, n, k) /\ total_n_blocks(c) \in Nat
  BY LayerFound
<1> HIDE DEF n
<1>2. n_layers(c) \in Nat /\ n \in 0 .. n_layers(c) - 1
  BY <1>1, LayersCounted DEF LayerNos
<1>3. base(c, n) \in Nat /\ base(c, n + 1) = base(c, n) + Len(layer(c, n).flp)
  BY <1>1, <1>2, BaseAdds DEF BaseSteps
<1>4. BlockNos(c, n) = 1 .. Len(layer(c, n).flp) /\ Len(layer(c, n).flp) \in Nat
  BY <1>1, LayerPlan DEF BlockNos
<1>5. k - base(c, n) \in 1 .. Len(layer(c, n).flp)
  BY <1>1, <1>3, <1>4 DEF Holds
<1> QED
  BY <1>1, <1>3, <1>4, <1>5 DEF n

(***************************************************************************)
(* The file of initial temperatures                                        *)
(***************************************************************************)

LEMMA VectorCounted ==
  ASSUME NEW c \in Configs
  PROVE  VectorSize(c) \in Nat /\ total_n_blocks(c) \in Nat /\ total_n_blocks(c) <= VectorSize(c)
<1>1. total_n_blocks(c) \in Nat
  <2>1. n_layers(c) \in 0 .. n_layers(c)
    BY LayersCounted
  <2> QED
    BY <2>1, BaseAdds DEF BaseSteps, total_n_blocks
<1>2. extra_nodes(Grid(c, c)) \in Nat
  BY DEF extra_nodes, EXTRA, EXTRA_SEC
<1> QED
  BY <1>1, <1>2 DEF VectorSize

\* The block a layer's i-th line is about.
UnitOf(c, n, i, flip) == IF flip THEN Len(layer(c, n).flp) + 1 - i ELSE i

LEMMA UnitInLayer ==
  ASSUME NEW c \in Configs, NEW n \in LayerNos(c), NEW i \in BlockNos(c, n), NEW flip \in BOOLEAN
  PROVE  /\ UnitOf(c, n, i, flip) \in BlockNos(c, n)
         /\ UnitOf(c, n, UnitOf(c, n, i, flip), flip) = i
<1> DEFINE l == Len(layer(c, n).flp)
<1>1. BlockNos(c, n) = 1 .. l /\ l \in Nat
  BY LayerPlan DEF BlockNos
<1> HIDE DEF l
<1>2. UnitOf(c, n, i, flip) = IF flip THEN l + 1 - i ELSE i
  BY DEF UnitOf, l
<1>3. UnitOf(c, n, UnitOf(c, n, i, flip), flip)
        = IF flip THEN l + 1 - UnitOf(c, n, i, flip) ELSE UnitOf(c, n, i, flip)
  BY DEF UnitOf, l
<1> QED
  BY <1>1, <1>2, <1>3

\* What dump_temp_grid writes of a block, and of a package node.
LineOf(c, n, u) == [prefix |-> prefix(c, n), unit |-> u, val |-> base(c, n) + u]
Dumped(c, flip) == dump_temp_grid(c, DumpedTemp(c), flip)

LEMMA DumpedLines ==
  ASSUME NEW c \in Configs, NEW flip \in BOOLEAN
  PROVE  /\ \A n \in LayerNos(c) : \A i \in BlockNos(c, n) :
              Dumped(c, flip)[base(c, n) + i] = LineOf(c, n, UnitOf(c, n, i, flip))
         /\ \A k \in 1 .. VectorSize(c) : k > total_n_blocks(c) => Dumped(c, flip)[k].val = k
<1> DEFINE line(n, i) == [prefix |-> prefix(c, n), unit |-> UnitOf(c, n, i, flip),
                          val |-> DumpedTemp(c)[base(c, n) + UnitOf(c, n, i, flip)]]
           node(k) == [prefix |-> <<"inode">>, unit |-> k - total_n_blocks(c), val |-> DumpedTemp(c)[k]]
<1>1. Dumped(c, flip) =
        [k \in 1 .. VectorSize(c) |->
           IF k <= total_n_blocks(c) THEN line(layerOf(c, k), k - base(c, layerOf(c, k))) ELSE node(k)]
  BY DEF Dumped, dump_temp_grid, layerOf, UnitOf
<1>2. VectorSize(c) \in Nat /\ total_n_blocks(c) \in Nat /\ total_n_blocks(c) <= VectorSize(c)
  BY VectorCounted
<1>3. \A k \in 1 .. VectorSize(c) : DumpedTemp(c)[k] = k
  BY DEF DumpedTemp
<1>4. ASSUME NEW n \in LayerNos(c), NEW i \in BlockNos(c, n)
      PROVE  Dumped(c, flip)[base(c, n) + i] = LineOf(c, n, UnitOf(c, n, i, flip))
  <2> DEFINE k == base(c, n) + i
             u == UnitOf(c, n, i, flip)
  <2>1. base(c, n) \in Nat /\ k \in 1 .. total_n_blocks(c) /\ layerOf(c, k) = n /\ i \in Int
    BY BlockPlace
  <2>2. u \in BlockNos(c, n)
    BY UnitInLayer
  <2> HIDE DEF u
  <2>3. base(c, n) + u \in 1 .. total_n_blocks(c)
    BY <2>2, BlockPlace
  <2>4. base(c, n) + u \in 1 .. VectorSize(c) /\ k \in 1 .. VectorSize(c) /\ k <= total_n_blocks(c)
    BY <1>2, <2>1, <2>3
  <2>5. k - base(c, n) = i
    BY <2>1
  <2>6. DumpedTemp(c)[base(c, n) + u] = base(c, n) + u
    BY <1>3, <2>4
  <2> HIDE DEF k, line, node
  <2>7. Dumped(c, flip)[k] = line(n, i)
    BY <1>1, <2>1, <2>4, <2>5
  <2> USE DEF line
  <2>8. line(n, i) = LineOf(c, n, u)
    BY <2>6 DEF LineOf, u
  <2> QED
    BY <2>7, <2>8 DEF k, u
<1>5. ASSUME NEW k \in 1 .. VectorSize(c), k > total_n_blocks(c)
      PROVE  Dumped(c, flip)[k].val = k
  <2>1. ~(k <= total_n_blocks(c))
    BY <1>2, <1>5
  <2> HIDE DEF line, node
  <2>2. Dumped(c, flip)[k] = node(k)
    BY <1>1, <2>1
  <2>3. node(k).val = DumpedTemp(c)[k]
    BY DEF node
  <2> QED
    BY <1>3, <2>2, <2>3
<1> QED
  BY <1>4, <1>5

\* A file that was dumped for the configuration reads back what was dumped, whatever
\* the order of a layer's lines.
LEMMA FileReadBack ==
  ASSUME NEW c \in Configs, NEW flip \in BOOLEAN, NEW clip \in BOOLEAN
  PROVE  read_temp_grid(c, Dumped(c, flip), clip).vals = DumpedTemp(c)
<1> DEFINE file == Dumped(c, flip)
           linesOf(n) == {file[base(c, n) + i] : i \in BlockNos(c, n)}
           fits == \A n \in LayerNos(c) : \A l \in linesOf(n) : l.prefix = prefix(c, n)
           found(k) == (CHOOSE l \in linesOf(layerOf(c, k)) : l.unit = k - base(c, layerOf(c, k))).val
           value(k) == IF k > total_n_blocks(c) THEN file[k].val ELSE found(k)
<1>1. read_temp_grid(c, file, clip).vals =
        IF fits THEN [k \in 1 .. VectorSize(c) |-> value(k)] ELSE <<>>
  BY DEF read_temp_grid, layerOf
<1>2. /\ \A n \in LayerNos(c) : \A i \in BlockNos(c, n) :
           file[base(c, n) + i] = LineOf(c, n, UnitOf(c, n, i, flip))
      /\ \A k \in 1 .. VectorSize(c) : k > total_n_blocks(c) => file[k].val = k
  BY DumpedLines
<1> HIDE DEF file
<1>3. fits
  <2> SUFFICES ASSUME NEW n \in LayerNos(c), NEW l \in linesOf(n)
               PROVE  l.prefix = prefix(c, n)
    OBVIOUS
  <2>1. PICK i \in BlockNos(c, n) : l = file[base(c, n) + i]
    OBVIOUS
  <2>2. l = LineOf(c, n, UnitOf(c, n, i, flip))
    BY <1>2, <2>1
  <2> QED
    BY <2>2 DEF LineOf
<1>4. ASSUME NEW k \in 1 .. total_n_blocks(c)
      PROVE  found(k) = k
  <2> DEFINE n == layerOf(c, k)
             u == k - base(c, n)
  <2>1. n \in LayerNos(c) /\ u \in BlockNos(c, n) /\ base(c, n) \in Nat /\ k \in Int
    BY BlockOfPlace
  <2>2. base(c, n) + u = k
    BY <2>1
  <2> DEFINE good(l) == l \in linesOf(n) /\ l.unit = u
             l0 == file[base(c, n) + UnitOf(c, n, u, flip)]
  <2> HIDE DEF n, u
  <2>3. UnitOf(c, n, u, flip) \in BlockNos(c, n) /\ UnitOf(c, n, UnitOf(c, n, u, flip), flip) = u
    BY <2>1, UnitInLayer
  <2>4. l0 \in linesOf(n) /\ l0.unit = u
    <3>1. l0 = LineOf(c, n, u)
      BY <1>2, <2>1, <2>3
    <3>2. LineOf(c, n, u).unit = u
      BY DEF LineOf
    <3>3. l0 \in linesOf(n)
      BY <2>3
    <3> HIDE DEF l0
    <3> QED
      BY <3>1, <3>2, <3>3
  <2>5. ASSUME NEW l \in linesOf(n), l.unit = u
        PROVE  l.val = k
    <3>1. PICK i \in BlockNos(c, n) : l = file[base(c, n) + i]
      OBVIOUS
    <3>2. l = LineOf(c, n, UnitOf(c, n, i, flip))
      BY <1>2, <2>1, <3>1
    <3>3. l.unit = UnitOf(c, n, i, flip) /\ l.val = base(c, n) + UnitOf(c, n, i, flip)
      BY <3>2 DEF LineOf
    <3> QED
      BY <2>2, <2>5, <3>3
  <2> HIDE DEF linesOf, l0
  <2>6. (CHOOSE l \in linesOf(n) : l.unit = u).val = k
    <3> DEFINE l1 == CHOOSE l \in linesOf(n) : l.unit = u
    <3>1. l1 \in linesOf(n) /\ l1.unit = u
      BY <2>4
    <3> HIDE DEF l1
    <3>2. l1.val = k
      BY <2>5, <3>1
    <3> QED
      BY <3>2 DEF l1
  <2> QED
    BY <2>6 DEF n, u
<1>5. VectorSize(c) \in Nat /\ total_n_blocks(c) \in Nat
  BY VectorCounted
<1> HIDE DEF fits, found
<1>6. \A k \in 1 .. VectorSize(c) : value(k) = k
  BY <1>2, <1>4, <1>5
<1> HIDE DEF value
<1>7. read_temp_grid(c, file, clip).vals = [k \in 1 .. VectorSize(c) |-> k]
  BY <1>1, <1>3, <1>6
<1> QED
  BY <1>7 DEF DumpedTemp, file

\* Until the first call the model has what it starts from.
StartInv ==
  /\ cfg \in Configs /\ calls \in Nat
  /\ pc \in {"alloc", "resistances", "init"} => calls = 0
  /\ pc \notin {"alloc", "resistances", "init", "idle"} => calls # 0
  /\ StartsFromTheFile

LEMMA StartNext == StartInv /\ [Next]_vars => StartInv'
<1> SUFFICES ASSUME StartInv, [Next]_vars
             PROVE  StartInv'
  OBVIOUS
<1> USE DEF StartInv, StartsFromTheFile, unchangedCall, unchangedSolver, unchangedSteady
<1>1. CASE initTemp
  <2>1. cfg' = cfg /\ pc' = "idle" /\ calls' = calls
    BY <1>1 DEF initTemp
  <2>2. start'.vals \in {set_temp_grid(cfg, InitTemp), DumpedTemp(cfg)}
    <3>1. CASE start' = [vals |-> set_temp_grid(cfg, InitTemp), max |-> 0]
      BY <3>1
    <3>2. ASSUME NEW flip \in BOOLEAN, NEW clip \in BOOLEAN,
                 start' = read_temp_grid(cfg, Dumped(cfg, flip), clip)
          PROVE  start'.vals = DumpedTemp(cfg)
      BY <3>2, FileReadBack
    <3> QED
      BY <1>1, <3>1, <3>2 DEF initTemp, Dumped
  <2>3. start'.vals \in {set_temp_grid(cfg', InitTemp), DumpedTemp(cfg')}
    BY <2>1, <2>2
  <2> QED
    BY <2>1, <2>3
<1>2. CASE switchAnalysis
  BY <1>2 DEF switchAnalysis
<1>3. CASE beginCalculate
  BY <1>3 DEF beginCalculate
<1>4. CASE readRow
  BY <1>4 DEF readRow
<1>5. CASE endCalculate
  BY <1>5 DEF endCalculate
<1>6. CASE UNCHANGED vars
  BY <1>6 DEF vars
<1>7. ASSUME calls' = calls, cfg' = cfg, pc' # "idle",
             pc \in {"alloc", "resistances", "init"} <=> pc' \in {"alloc", "resistances", "init"},
             pc # "idle"
      PROVE  StartInv'
  BY <1>7
<1>8. CASE populate_R_model_grid
  BY <1>7, <1>8 DEF populate_R_model_grid
<1>9. CASE populate_C_model_grid
  BY <1>7, <1>9 DEF populate_C_model_grid
<1>10. CASE compute_temp_grid
  BY <1>7, <1>10 DEF compute_temp_grid
<1>11. CASE rk4Retry
  BY <1>7, <1>11 DEF rk4Retry
<1>12. CASE rk4Step
  BY <1>7, <1>12 DEF rk4Step
<1>13. CASE steady_state_temp_grid
  BY <1>7, <1>13 DEF steady_state_temp_grid
<1>14. CASE coarsen
  BY <1>7, <1>14 DEF coarsen
<1>15. CASE set_heuristic_temp
  BY <1>7, <1>15 DEF set_heuristic_temp
<1>16. CASE iterate
  BY <1>7, <1>16 DEF iterate
<1>17. CASE prolong
  BY <1>7, <1>17 DEF prolong
<1>18. CASE build_steady_grid_matrix
  BY <1>7, <1>18 DEF build_steady_grid_matrix
<1>19. CASE direct_SLU
  BY <1>7, <1>19 DEF direct_SLU
<1> QED
  BY <1>1, <1>2, <1>3, <1>4, <1>5, <1>6, <1>8, <1>9, <1>10, <1>11, <1>12, <1>13, <1>14,
     <1>15, <1>16, <1>17, <1>18, <1>19 DEF Next

\* Whatever the stack's layers and floor plans, a run starts from the configured
\* temperature or from the value the earlier run dumped for each block and package
\* node: read_temp_grid finds a block's line by its name within its layer's stretch.
THEOREM GridStartsFromTheFile == Spec => []StartsFromTheFile
<1>1. Init => StartInv
  BY DEF Init, StartInv, StartsFromTheFile
<1>2. StartInv /\ [Next]_vars => StartInv'
  BY StartNext
<1>3. StartInv => StartsFromTheFile
  BY DEF StartInv
<1> QED
  BY <1>1, <1>2, <1>3, PTL DEF Spec

(***************************************************************************)
(* Polish expressions: sets of positions in ascending order                *)
(***************************************************************************)

Below(S, x) == {y \in S : y < x}
Rank(S, x) == Cardinality(Below(S, x))

LEMMA BelowFinite ==
  ASSUME NEW S, S \subseteq Nat, IsFiniteSet(S), NEW x
  PROVE  IsFiniteSet(Below(S, x)) /\ Rank(S, x) \in Nat
<1>1. Below(S, x) \in SUBSET S
  BY DEF Below
<1> QED
  BY <1>1, FS_Subset, FS_CardinalityType DEF Rank

LEMMA RankGrows ==
  ASSUME NEW S, S \subseteq Nat, IsFiniteSet(S), NEW x \in S, NEW y \in S, x < y
  PROVE  Rank(S, x) < Rank(S, y)
<1> DEFINE X == Below(S, x) \cup {x}
<1>1. IsFiniteSet(X) /\ Cardinality(X) = Rank(S, x) + 1
  <2>1. IsFiniteSet(Below(S, x))
    BY BelowFinite
  <2>2. x \notin Below(S, x)
    <3>1. x \in Nat
      OBVIOUS
    <3>2. ~(x < x)
      BY <3>1
    <3> QED
      BY <3>2 DEF Below
  <2> QED
    BY <2>1, <2>2, FS_AddElement DEF Rank
<1>2. X \in SUBSET Below(S, y)
  <2> SUFFICES ASSUME NEW z \in X PROVE z \in Below(S, y)
    OBVIOUS
  <2>1. z \in S /\ (z < x \/ z = x)
    BY DEF Below
  <2>2. z \in Nat /\ x \in Nat /\ y \in Nat
    BY <2>1
  <2>3. z < y
    BY <2>1, <2>2
  <2> QED
    BY <2>1, <2>3 DEF Below
<1> HIDE DEF X
<1>3. Cardinality(X) <= Cardinality(Below(S, y))
  BY <1>2, BelowFinite, FS_Subset
<1>4. Rank(S, x) \in Nat /\ Rank(S, y) \in Nat
  BY BelowFinite
<1> QED
  BY <1>1, <1>3, <1>4 DEF Rank

LEMMA RankUnique ==
  ASSUME NEW S, S \subseteq Nat, IsFiniteSet(S), NEW x \in S, NEW y \in S, Rank(S, x) = Rank(S, y)
  PROVE  x = y
<1>1. x \in Nat /\ y \in Nat
  OBVIOUS
<1>2. ~(x < y)
  <2> SUFFICES ASSUME x < y PROVE FALSE
    OBVIOUS
  <2>1. Rank(S, x) < Rank(S, y)
    BY RankGrows
  <2>2. Rank(S, x) \in Nat
    BY BelowFinite
  <2>3. ~(Rank(S, x) < Rank(S, x))
    BY <2>2
  <2> QED
    BY <2>1, <2>3
<1>3. ~(y < x)
  <2> SUFFICES ASSUME y < x PROVE FALSE
    OBVIOUS
  <2>1. Rank(S, y) < Rank(S, x)
    BY RankGrows
  <2>2. Rank(S, x) \in Nat
    BY BelowFinite
  <2>3. ~(Rank(S, x) < Rank(S, x))
    BY <2>2
  <2> QED
    BY <2>1, <2>3
<1> QED
  BY <1>1, <1>2, <1>3

LEMMA RankExists ==
  ASSUME NEW S, S \subseteq Nat, IsFiniteSet(S), NEW k \in 0 .. Cardinality(S) - 1
  PROVE  \E x \in S : Rank(S, x) = k
<1> DEFINE n == Cardinality(S)
           T == 0 .. n - 1
           r == [x \in S |-> Rank(S, x)]
<1>1. n \in Nat
  BY FS_CardinalityType
<1>2. IsFiniteSet(T) /\ Cardinality(T) = n
  <2> HIDE DEF n
  <2>1. IsFiniteSet(0 .. n - 1) /\ Cardinality(0 .. n - 1) = IF 0 > n - 1 THEN 0 ELSE (n - 1) - 0 + 1
    BY <1>1, FS_Interval
  <2> QED
    BY <1>1, <2>1
<1>3. ASSUME NEW x \in S
      PROVE  Rank(S, x) \in T
  <2>1. Below(S, x) \in SUBSET (S \ {x})
    BY DEF Below
  <2>2. IsFiniteSet(S \ {x}) /\ Cardinality(S \ {x}) = n - 1
    BY FS_RemoveElement
  <2>3. Rank(S, x) <= n - 1
    BY <2>1, <2>2, FS_Subset DEF Rank
  <2>4. Rank(S, x) \in Nat
    BY BelowFinite
  <2> HIDE DEF n
  <2> QED
    BY <1>1, <2>3, <2>4
<1> HIDE DEF n, T
<1>4. r \in [S -> T]
  BY <1>3
<1>5. \A x, y \in S : r[x] = r[y] => x = y
  BY RankUnique
<1>6. r \in Injection(S, T)
  BY <1>4, <1>5 DEF Injection, IsInjective
<1>7. Cardinality(S) = Cardinality(T)
  BY <1>2 DEF n
<1> HIDE DEF r
<1>8. r \in Surjection(S, T)
  BY <1>2, <1>6, <1>7, FS_Injection
<1>9. \A t \in T : \E x \in S : r[x] = t
  BY <1>8 DEF Surjection
<1>10. k \in T
  BY DEF T, n
<1> QED
  BY <1>9, <1>10 DEF r

\* The k-th element is the one with k smaller ones.
LEMMA AscendingIs ==
  ASSUME NEW S, S \subseteq Nat, IsFiniteSet(S)
  PROVE  /\ DOMAIN ascending(S) = 0 .. Cardinality(S) - 1
         /\ \A k \in 0 .. Cardinality(S) - 1 :
              /\ ascending(S)[k] \in S /\ Rank(S, ascending(S)[k]) = k
              /\ \A x \in S : Rank(S, x) = k => x = ascending(S)[k]
<1>1. DOMAIN ascending(S) = 0 .. Cardinality(S) - 1
  BY DEF ascending
<1>2. ASSUME NEW k \in 0 .. Cardinality(S) - 1
      PROVE  /\ ascending(S)[k] \in S /\ Rank(S, ascending(S)[k]) = k
             /\ \A x \in S : Rank(S, x) = k => x = ascending(S)[k]
  <2>1. ascending(S)[k] = CHOOSE x \in S : Rank(S, x) = k
    BY DEF ascending, Rank, Below
  <2>2. \E x \in S : Rank(S, x) = k
    BY RankExists
  <2>3. ascending(S)[k] \in S /\ Rank(S, ascending(S)[k]) = k
    BY <2>1, <2>2
  <2> QED
    BY <2>3, RankUnique
<1> QED
  BY <1>1, <1>2

\* One element moves to the place beside it, which was free.
Shifted(S, p, q) == (S \ {p}) \cup {q}
shiftedTo(x, p, q) == IF x = p THEN q ELSE x
KeepsRanks(S, p, q) ==
  \A x \in S : /\ shiftedTo(x, p, q) \in Shifted(S, p, q)
              /\ Rank(Shifted(S, p, q), shiftedTo(x, p, q)) = Rank(S, x)

LEMMA ShiftedRank ==
  ASSUME NEW S, S \subseteq Nat, IsFiniteSet(S), NEW p \in S, NEW q \in Nat, q \notin S,
         q = p + 1 \/ p = q + 1
  PROVE  /\ Shifted(S, p, q) \subseteq Nat /\ IsFiniteSet(Shifted(S, p, q))
         /\ Cardinality(Shifted(S, p, q)) = Cardinality(S)
         /\ KeepsRanks(S, p, q)
<1> DEFINE R == Shifted(S, p, q)
<1>1. ASSUME NEW A, IsFiniteSet(A), p \in A, q \notin A
      PROVE  IsFiniteSet(Shifted(A, p, q)) /\ Cardinality(Shifted(A, p, q)) = Cardinality(A)
  <2>1. IsFiniteSet(A \ {p}) /\ Cardinality(A \ {p}) = Cardinality(A) - 1 /\ Cardinality(A) \in Nat
    BY <1>1, FS_RemoveElement, FS_CardinalityType
  <2>2. IsFiniteSet((A \ {p}) \cup {q}) /\ Cardinality((A \ {p}) \cup {q}) = Cardinality(A \ {p}) + 1
    BY <1>1, <2>1, FS_AddElement
  <2> QED
    BY <2>1, <2>2 DEF Shifted
<1>2. R \subseteq Nat
  BY DEF Shifted
<1>3. ASSUME NEW x \in S, x # p
      PROVE  x \in R /\ Rank(R, x) = Rank(S, x)
  <2>1. x \in R /\ x \in Nat /\ p \in Nat
    BY <1>3 DEF Shifted
  <2>2. CASE p < x
    <3>1. q < x
      BY <1>3, <2>1, <2>2
    <3>2. Below(R, x) = Shifted(Below(S, x), p, q)
      BY <2>2, <3>1 DEF Below, Shifted
    <3>3. p \in Below(S, x) /\ q \notin Below(S, x)
      BY <2>2 DEF Below
    <3> QED
      BY <1>1, <2>1, <3>2, <3>3, BelowFinite DEF Rank
  <2>3. CASE ~(p < x)
    <3>1. ~(q < x)
      BY <1>3, <2>1, <2>3
    <3>2. Below(R, x) = Below(S, x)
      BY <2>3, <3>1 DEF Below, Shifted
    <3> QED
      BY <2>1, <3>2 DEF Rank
  <2> QED
    BY <2>2, <2>3
<1>4. q \in R /\ Rank(R, q) = Rank(S, p)
  <2>1. Below(R, q) = Below(S, p)
    <3> SUFFICES ASSUME NEW y PROVE y \in Below(R, q) <=> y \in Below(S, p)
      OBVIOUS
    <3>1. p \in Nat /\ (y \in S => y \in Nat)
      OBVIOUS
    <3> QED
      BY <3>1 DEF Below, Shifted
  <2> QED
    BY <2>1 DEF Rank, Shifted
<1> HIDE DEF R
<1>5. \A x \in S : shiftedTo(x, p, q) \in R /\ Rank(R, shiftedTo(x, p, q)) = Rank(S, x)
  BY <1>3, <1>4 DEF shiftedTo
<1>6. IsFiniteSet(R) /\ Cardinality(R) = Cardinality(S)
  BY <1>1 DEF R
<1> QED
  BY <1>2, <1>5, <1>6 DEF R, KeepsRanks

LEMMA AscendingShifted ==
  ASSUME NEW S, S \subseteq Nat, IsFiniteSet(S), NEW p \in S, NEW q \in Nat, q \notin S,
         q = p + 1 \/ p = q + 1
  PROVE  ascending(Shifted(S, p, q))
           = [k \in DOMAIN ascending(S) |-> shiftedTo(ascending(S)[k], p, q)]
<1> DEFINE R == Shifted(S, p, q)
           n == Cardinality(S)
           a == ascending(S)
           b == ascending(R)
           to(x) == shiftedTo(x, p, q)
<1>1. R \subseteq Nat /\ IsFiniteSet(R) /\ Cardinality(R) = n
  BY ShiftedRank
<1>2. \A x \in S : to(x) \in R /\ Rank(R, to(x)) = Rank(S, x)
  BY ShiftedRank DEF KeepsRanks
<1> HIDE DEF R, to
<1>3. DOMAIN a = 0 .. n - 1 /\ \A k \in 0 .. n - 1 : a[k] \in S /\ Rank(S, a[k]) = k
  BY AscendingIs
<1>4. DOMAIN b = 0 .. n - 1 /\ \A k \in 0 .. n - 1 : \A x \in R : Rank(R, x) = k => x = b[k]
  BY <1>1, AscendingIs
<1>5. b = [k \in DOMAIN b |-> b[k]]
  BY DEF ascending
<1> HIDE DEF a, b, n
<1>6. \A k \in 0 .. n - 1 : b[k] = to(a[k])
  BY <1>2, <1>3, <1>4
<1>7. b = [k \in DOMAIN a |-> to(a[k])]
  BY <1>3, <1>4, <1>5, <1>6
<1> QED
  BY <1>7 DEF a, b, R, to

(***************************************************************************)
(* The fields of a Polish expression follow its pattern of units and cuts   *)
(***************************************************************************)

Cuts == {CUT_VERTICAL, CUT_HORIZONTAL}
Last(n) == 2 * n - 2
UnitsAt(e) == {i \in DOMAIN e : IsUnit(e, i)}
CutsUpTo(e, i) == {j \in 0 .. i : ~IsUnit(e, j)}

Elements(e, n) ==
  /\ e \in [0 .. Last(n) -> Nat \cup Cuts]
  /\ \A u \in 0 .. n - 1 : \E i \in 0 .. Last(n) : e[i] = u

Expression(e, u, f, c, b) ==
  [elements |-> e, unit_pos |-> u, flip_pos |-> f, chain_pos |-> c, ballot_count |-> b]

\* The elements of an expression, and the fields a scan of them gives.
Scanned(e) ==
  Expression(e, fill_unit_pos(e), fill_flip_pos(e), fill_chain_pos(e), fill_ballot_count(e))

\* The inductive form of WellFormed: the elements are units and cuts.
Polish(x, n) ==
  /\ x = Scanned(x.elements)
  /\ Elements(x.elements, n) /\ Balloted(x.elements) /\ Normalized(x.elements)

LEMMA ElementsSize ==
  ASSUME NEW n \in Nat, n >= 1, NEW e, Elements(e, n)
  PROVE  /\ DOMAIN e = 0 .. Last(n) /\ Last(n) \in Nat /\ Size(e) = Last(n) + 1
         /\ \A i \in 0 .. Last(n) : /\ IsUnit(e, i) \in BOOLEAN
                                    /\ IsUnit(e, i) <=> e[i] \in Nat
                                    /\ ~IsUnit(e, i) <=> e[i] \in Cuts
<1>1. Last(n) \in Nat
  BY DEF Last
<1>2. DOMAIN e = 0 .. Last(n)
  BY DEF Elements
<1>3. Cardinality(0 .. Last(n)) = Last(n) + 1
  <2>1. Cardinality(0 .. Last(n)) = IF 0 > Last(n) THEN 0 ELSE Last(n) - 0 + 1
    BY <1>1, FS_Interval
  <2> QED
    BY <1>1, <2>1
<1>4. \A i \in 0 .. Last(n) : e[i] \in Nat \cup {-2, -3}
  BY DEF Elements, Cuts, CUT_VERTICAL, CUT_HORIZONTAL
<1>5. \A i \in 0 .. Last(n) : /\ IsUnit(e, i) \in BOOLEAN
                              /\ IsUnit(e, i) <=> e[i] \in Nat
                              /\ ~IsUnit(e, i) <=> e[i] \in {-2, -3}
  BY <1>4 DEF IsUnit
<1> QED
  BY <1>1, <1>2, <1>3, <1>5 DEF Size, Cuts, CUT_VERTICAL, CUT_HORIZONTAL

LEMMA PolishFields ==
  ASSUME NEW n \in Nat, n >= 1, NEW x, Polish(x, n)
  PROVE  /\ x.unit_pos = fill_unit_pos(x.elements)
         /\ x.flip_pos = fill_flip_pos(x.elements)
         /\ x.chain_pos = fill_chain_pos(x.elements)
         /\ x.ballot_count = fill_ballot_count(x.elements)
<1> DEFINE e == x.elements
<1>1. x = Scanned(e)
  BY DEF Polish
<1> HIDE DEF e
<1>2. /\ x.unit_pos = fill_unit_pos(e) /\ x.flip_pos = fill_flip_pos(e)
      /\ x.chain_pos = fill_chain_pos(e) /\ x.ballot_count = fill_ballot_count(e)
  BY <1>1 DEF Scanned, Expression
<1> QED
  BY <1>2 DEF e

SamePattern(d, e, n) == \A i \in 0 .. Last(n) : IsUnit(d, i) <=> IsUnit(e, i)

\* What is found by scanning depends on where the units are, not on which they are.
LEMMA PatternDecides ==
  ASSUME NEW n \in Nat, n >= 1, NEW d, NEW e, Elements(d, n), Elements(e, n), SamePattern(d, e, n)
  PROVE  /\ fill_unit_pos(d) = fill_unit_pos(e)
         /\ fill_flip_pos(d) = fill_flip_pos(e)
         /\ fill_chain_pos(d) = fill_chain_pos(e)
         /\ fill_ballot_count(d) = fill_ballot_count(e)
         /\ Balloted(d) <=> Balloted(e)
<1>1. /\ DOMAIN d = 0 .. Last(n) /\ DOMAIN e = 0 .. Last(n) /\ Last(n) \in Nat
      /\ Size(d) = Last(n) + 1 /\ Size(e) = Last(n) + 1
  BY ElementsSize
<1>2. \A i \in 0 .. Last(n) : IsUnit(d, i) <=> IsUnit(e, i)
  BY DEF SamePattern
<1>3. {i \in DOMAIN d : IsUnit(d, i)} = {i \in DOMAIN e : IsUnit(e, i)}
  BY <1>1, <1>2, Zenon
<1>4. {i \in 0 .. Size(d) - 2 : IsUnit(d, i) # IsUnit(d, i + 1)}
        = {i \in 0 .. Size(e) - 2 : IsUnit(e, i) # IsUnit(e, i + 1)}
  <2> SUFFICES ASSUME NEW i \in 0 .. Last(n) - 1
               PROVE  (IsUnit(d, i) # IsUnit(d, i + 1)) <=> (IsUnit(e, i) # IsUnit(e, i + 1))
    <3>1. Size(d) - 2 = Last(n) - 1 /\ Size(e) - 2 = Last(n) - 1
      BY <1>1
    <3> QED
      BY <3>1, Zenon
  <2>1. i \in 0 .. Last(n) /\ i + 1 \in 0 .. Last(n)
    BY <1>1
  <2>2. /\ IsUnit(d, i) \in BOOLEAN /\ IsUnit(d, i + 1) \in BOOLEAN
        /\ IsUnit(e, i) \in BOOLEAN /\ IsUnit(e, i + 1) \in BOOLEAN
    BY <2>1, ElementsSize
  <2> QED
    BY <1>2, <2>1, <2>2, Zenon
<1>5. {i \in DOMAIN d : ~IsUnit(d, i) /\ (i = 0 \/ IsUnit(d, i - 1))}
        = {i \in DOMAIN e : ~IsUnit(e, i) /\ (i = 0 \/ IsUnit(e, i - 1))}
  <2>1. ASSUME NEW i \in 0 .. Last(n)
        PROVE  (~IsUnit(d, i) /\ (i = 0 \/ IsUnit(d, i - 1)))
                 <=> (~IsUnit(e, i) /\ (i = 0 \/ IsUnit(e, i - 1)))
    <3>1. CASE i = 0
      BY <1>2, <3>1, Zenon
    <3>2. CASE i # 0
      <4>1. i - 1 \in 0 .. Last(n)
        BY <1>1, <3>2
      <4> QED
        BY <1>2, <4>1, Zenon
    <3> QED
      BY <3>1, <3>2
  <2> QED
    BY <1>1, <2>1, Zenon
<1>6. \A i \in 0 .. Last(n) : CutsUpTo(d, i) = CutsUpTo(e, i)
  <2> SUFFICES ASSUME NEW i \in 0 .. Last(n) PROVE CutsUpTo(d, i) = CutsUpTo(e, i)
    OBVIOUS
  <2>1. \A j \in 0 .. i : j \in 0 .. Last(n)
    BY <1>1
  <2> QED
    BY <1>2, <2>1, Zenon DEF CutsUpTo
<1>7. \A i \in 0 .. Last(n) : {j \in 0 .. i : ~IsUnit(d, j)} = {j \in 0 .. i : ~IsUnit(e, j)}
  BY <1>6 DEF CutsUpTo
<1>8. fill_ballot_count(d) = fill_ballot_count(e)
  BY <1>1, <1>7, Zenon DEF fill_ballot_count
<1> QED
  BY <1>1, <1>3, <1>4, <1>5, <1>8, Zenon DEF fill_unit_pos, fill_flip_pos, fill_chain_pos, Balloted

\* Two places exchange their elements.
LEMMA SwappedElements ==
  ASSUME NEW n \in Nat, n >= 1, NEW e, Elements(e, n), NEW p \in 0 .. Last(n), NEW q \in 0 .. Last(n),
         p # q
  PROVE  /\ Elements(swapped(e, p, q), n)
         /\ swapped(e, p, q)[p] = e[q] /\ swapped(e, p, q)[q] = e[p]
         /\ \A i \in 0 .. Last(n) : i # p /\ i # q => swapped(e, p, q)[i] = e[i]
<1> DEFINE d == swapped(e, p, q)
<1>1. e \in [0 .. Last(n) -> Nat \cup Cuts]
  BY DEF Elements
<1>2. d \in [0 .. Last(n) -> Nat \cup Cuts]
  BY <1>1 DEF swapped
<1>3. /\ d[p] = e[q] /\ d[q] = e[p]
      /\ \A i \in 0 .. Last(n) : i # p /\ i # q => d[i] = e[i]
  BY <1>1 DEF swapped
<1> HIDE DEF d
<1>4. ASSUME NEW u \in 0 .. n - 1
      PROVE  \E i \in 0 .. Last(n) : d[i] = u
  <2>1. PICK i \in 0 .. Last(n) : e[i] = u
    BY DEF Elements
  <2>2. CASE i = p
    BY <1>3, <2>1, <2>2
  <2>3. CASE i = q
    BY <1>3, <2>1, <2>3
  <2>4. CASE i # p /\ i # q
    BY <1>3, <2>1, <2>4
  <2> QED
    BY <2>2, <2>3, <2>4
<1>5. Elements(d, n)
  BY <1>2, <1>4 DEF Elements
<1> QED
  BY <1>3, <1>5 DEF d

\* New elements with the units where they were: the other fields stay right.
LEMMA RefreshElements ==
  ASSUME NEW n \in Nat, n >= 1, NEW x, Polish(x, n),
         NEW d, Elements(d, n), SamePattern(d, x.elements, n), Normalized(d)
  PROVE  Polish([x EXCEPT !.elements = d], n)
<1> DEFINE e == x.elements
           y == [x EXCEPT !.elements = d]
<1>1. x = Scanned(e) /\ Elements(e, n) /\ Balloted(e)
  BY DEF Polish
<1>2. SamePattern(d, e, n)
  OBVIOUS
<1> HIDE DEF e
<1>3. y = Expression(d, fill_unit_pos(e), fill_flip_pos(e), fill_chain_pos(e), fill_ballot_count(e))
  <2> DEFINE u == fill_unit_pos(e)
             f == fill_flip_pos(e)
             c == fill_chain_pos(e)
             b == fill_ballot_count(e)
  <2> HIDE DEF u, f, c, b
  <2>1. x = [elements |-> e, unit_pos |-> u, flip_pos |-> f, chain_pos |-> c, ballot_count |-> b]
    BY <1>1 DEF u, f, c, b, Scanned, Expression
  <2>2. y = [elements |-> d, unit_pos |-> u, flip_pos |-> f, chain_pos |-> c, ballot_count |-> b]
    BY <2>1
  <2> QED
    BY <2>2 DEF u, f, c, b, Expression
<1>4. /\ fill_unit_pos(d) = fill_unit_pos(e) /\ fill_flip_pos(d) = fill_flip_pos(e)
      /\ fill_chain_pos(d) = fill_chain_pos(e) /\ fill_ballot_count(d) = fill_ballot_count(e)
      /\ Balloted(d) <=> Balloted(e)
  BY <1>1, <1>2, PatternDecides
<1> HIDE DEF y
<1>5. y = Scanned(d)
  BY <1>3, <1>4, Zenon DEF Scanned
<1>6. y.elements = d
  BY <1>5 DEF Scanned, Expression
<1>7. Polish(y, n)
  BY <1>1, <1>4, <1>5, <1>6, Zenon DEF Polish
<1> QED
  BY <1>7 DEF y

(***************************************************************************)
(* M1: two units change places                                             *)
(***************************************************************************)

NextUnit(e, p, q) ==
  /\ q \in DOMAIN e /\ q > p /\ IsUnit(e, q)
  /\ \A j \in p + 1 .. q - 1 : ~IsUnit(e, j)

LEMMA UnitsFinite ==
  ASSUME NEW n \in Nat, n >= 1, NEW e, Elements(e, n)
  PROVE  /\ UnitsAt(e) \subseteq Nat /\ IsFiniteSet(UnitsAt(e)) /\ Cardinality(UnitsAt(e)) \in Nat
         /\ UnitsAt(e) \subseteq 0 .. Last(n)
<1>1. DOMAIN e = 0 .. Last(n) /\ Last(n) \in Nat
  BY ElementsSize
<1>2. UnitsAt(e) \in SUBSET (0 .. Last(n))
  BY <1>1 DEF UnitsAt
<1>3. IsFiniteSet(0 .. Last(n))
  BY <1>1, FS_Interval
<1>4. IsFiniteSet(UnitsAt(e))
  BY <1>2, <1>3, FS_Subset
<1> QED
  BY <1>2, <1>4, FS_CardinalityType

\* After every unit but the last there is a next one.
LEMMA NextUnitExists ==
  ASSUME NEW n \in Nat, n >= 1, NEW e, Elements(e, n),
         NEW k \in 0 .. Cardinality(UnitsAt(e)) - 2, NEW p, p = fill_unit_pos(e)[k]
  PROVE  p \in UnitsAt(e) /\ \E q \in DOMAIN e : NextUnit(e, p, q)
<1> DEFINE S == UnitsAt(e)
           a == ascending(S)
<1>1. S \subseteq Nat /\ IsFiniteSet(S) /\ Cardinality(S) \in Nat
  BY UnitsFinite
<1>2. p = a[k]
  BY DEF fill_unit_pos, UnitsAt
<1> HIDE DEF S
<1>3. k \in 0 .. Cardinality(S) - 1 /\ k + 1 \in 0 .. Cardinality(S) - 1 /\ k \in Nat
  BY <1>1 DEF S
<1>4. /\ a[k] \in S /\ Rank(S, a[k]) = k
      /\ a[k + 1] \in S /\ Rank(S, a[k + 1]) = k + 1
  BY <1>1, <1>3, AscendingIs
<1> DEFINE r == a[k + 1]
<1> HIDE DEF a, r
<1>5. p \in S /\ Rank(S, p) = k /\ r \in S /\ Rank(S, r) = k + 1
  BY <1>2, <1>4 DEF r
<1>6. p \in Nat /\ r \in Nat
  BY <1>1, <1>5
<1>7. ~(r < p)
  <2> SUFFICES ASSUME r < p PROVE FALSE
    OBVIOUS
  <2>1. Rank(S, r) < Rank(S, p)
    BY <1>1, <1>5, RankGrows
  <2> QED
    BY <1>3, <1>5, <2>1
<1>8. r # p
  BY <1>3, <1>5
<1>9. r > p
  BY <1>6, <1>7, <1>8
<1> DEFINE L == {y \in S : y > p}
<1>10. L \subseteq Nat /\ r \in L
  BY <1>1, <1>5, <1>9
<1>11. PICK q \in L : \A y \in L : q <= y
  BY <1>10, LeastElement
<1>12. q \in DOMAIN e /\ q > p /\ IsUnit(e, q) /\ q \in Nat
  BY <1>10, <1>11 DEF S, UnitsAt
<1>13. ASSUME NEW j \in p + 1 .. q - 1
       PROVE  ~IsUnit(e, j)
  <2>1. DOMAIN e = 0 .. Last(n) /\ Last(n) \in Nat
    BY ElementsSize
  <2>2. j \in DOMAIN e /\ j > p /\ j < q /\ j \in Nat
    BY <1>6, <1>12, <2>1
  <2> SUFFICES ASSUME IsUnit(e, j) PROVE FALSE
    OBVIOUS
  <2>3. j \in L
    BY <2>2 DEF S, UnitsAt
  <2>4. q <= j
    BY <1>11, <2>3
  <2> QED
    BY <1>12, <2>2, <2>4
<1>14. NextUnit(e, p, q)
  BY <1>12, <1>13 DEF NextUnit
<1> QED
  BY <1>5, <1>12, <1>14 DEF S

LEMMA SwapUnitsKeeps ==
  ASSUME NEW n \in Nat, n >= 1, NEW x, Polish(x, n),
         NEW k \in DOMAIN x.unit_pos \ {Cardinality(DOMAIN x.unit_pos) - 1}
  PROVE  Polish(NPE_swap_units(x, x.unit_pos[k]), n)
<1> DEFINE e == x.elements
           p == x.unit_pos[k]
           q == CHOOSE i \in DOMAIN e : NextUnit(e, p, i)
           d == swapped(e, p, q)
<1>1. x = Scanned(e) /\ Elements(e, n) /\ Normalized(e)
  BY DEF Polish
<1>2. x.unit_pos = fill_unit_pos(e)
  BY PolishFields
<1>3. NPE_swap_units(x, p) = [x EXCEPT !.elements = d]
  <2>1. q = CHOOSE i \in DOMAIN x.elements :
                /\ i > p /\ IsUnit(x.elements, i)
                /\ \A j \in p + 1 .. i - 1 : ~IsUnit(x.elements, j)
    BY DEF NextUnit
  <2> HIDE DEF q, p
  <2> QED
    BY <2>1 DEF NPE_swap_units
<1> HIDE DEF e
<1>4. k \in 0 .. Cardinality(UnitsAt(e)) - 2
  <2> DEFINE m == Cardinality(UnitsAt(e))
  <2>1. DOMAIN x.unit_pos = 0 .. m - 1
    BY <1>2 DEF fill_unit_pos, UnitsAt, ascending
  <2>2. m \in Nat
    BY <1>1, UnitsFinite
  <2> HIDE DEF m
  <2>3. Cardinality(0 .. m - 1) = m
    <3>1. Cardinality(0 .. m - 1) = IF 0 > m - 1 THEN 0 ELSE (m - 1) - 0 + 1
      BY <2>2, FS_Interval
    <3> QED
      BY <2>2, <3>1
  <2>4. k \in 0 .. m - 1 /\ k # m - 1
    BY <2>1, <2>3
  <2>5. k \in 0 .. m - 2
    BY <2>2, <2>4
  <2> QED
    BY <2>5 DEF m
<1>5. p = fill_unit_pos(e)[k]
  BY <1>2
<1> HIDE DEF p
<1>6. p \in UnitsAt(e) /\ \E i \in DOMAIN e : NextUnit(e, p, i)
  BY <1>1, <1>4, <1>5, NextUnitExists
<1>7. q \in DOMAIN e /\ NextUnit(e, p, q)
  BY <1>6
<1> HIDE DEF q
<1>8. DOMAIN e = 0 .. Last(n) /\ Last(n) \in Nat /\ Size(e) = Last(n) + 1
  BY <1>1, ElementsSize
<1>9. p \in 0 .. Last(n) /\ q \in 0 .. Last(n) /\ p # q /\ IsUnit(e, p) /\ IsUnit(e, q)
  BY <1>6, <1>7, <1>8 DEF UnitsAt, NextUnit
<1>10. /\ Elements(d, n) /\ d[p] = e[q] /\ d[q] = e[p]
       /\ \A i \in 0 .. Last(n) : i # p /\ i # q => d[i] = e[i]
  BY <1>1, <1>9, SwappedElements
<1> HIDE DEF d
<1>11. SamePattern(d, e, n)
  BY <1>9, <1>10 DEF SamePattern, IsUnit
<1>12. Normalized(d)
  <2>1. Size(d) = Last(n) + 1
    BY <1>10, ElementsSize
  <2> SUFFICES ASSUME NEW i \in 0 .. Last(n) - 1, ~IsUnit(d, i)
               PROVE  d[i] # d[i + 1]
    BY <1>8, <2>1 DEF Normalized
  <2>2. i \in 0 .. Last(n) /\ i + 1 \in 0 .. Last(n) /\ i \in 0 .. Size(e) - 2
    BY <1>8
  <2>3. ~IsUnit(e, i) /\ i # p /\ i # q
    BY <1>9, <1>11, <2>2 DEF SamePattern
  <2>4. d[i] = e[i]
    BY <1>10, <2>2, <2>3
  <2>5. CASE IsUnit(d, i + 1)
    <3>1. d[i] \in Cuts /\ d[i + 1] \in Nat
      BY <1>10, <2>2, <2>5, ElementsSize
    <3> QED
      BY <3>1 DEF Cuts, CUT_VERTICAL, CUT_HORIZONTAL
  <2>6. CASE ~IsUnit(d, i + 1)
    <3>1. d[i + 1] = e[i + 1]
      BY <1>9, <1>10, <1>11, <2>2, <2>6 DEF SamePattern
    <3>2. e[i] # e[i + 1]
      BY <1>1, <2>2, <2>3 DEF Normalized
    <3> QED
      BY <2>4, <3>1, <3>2
  <2> QED
    BY <2>5, <2>6
<1>13. Polish([x EXCEPT !.elements = d], n)
  BY <1>10, <1>11, <1>12, RefreshElements DEF e
<1> QED
  BY <1>3, <1>13 DEF p

(***************************************************************************)
(* M2: a chain of cuts is inverted                                         *)
(***************************************************************************)

InChain(e, p, i) == i >= p /\ \A j \in p .. i : ~IsUnit(e, j)
Inverted(e, p) == [i \in DOMAIN e |-> IF InChain(e, p, i) THEN Other(e[i]) ELSE e[i]]

LEMMA InvertChainKeeps ==
  ASSUME NEW n \in Nat, n >= 1, NEW x, Polish(x, n), NEW k \in DOMAIN x.chain_pos
  PROVE  Polish(NPE_invert_chain(x, x.chain_pos[k]), n)
<1> DEFINE e == x.elements
           p == x.chain_pos[k]
           d == Inverted(e, p)
           S == {i \in DOMAIN e : ~IsUnit(e, i) /\ (i = 0 \/ IsUnit(e, i - 1))}
<1>1. x = Scanned(e) /\ Elements(e, n) /\ Normalized(e)
  BY DEF Polish
<1>2. x.chain_pos = ascending(S)
  BY PolishFields DEF fill_chain_pos
<1>3. NPE_invert_chain(x, p) = [x EXCEPT !.elements = d]
  <2> HIDE DEF p
  <2>1. NPE_invert_chain(x, p)
          = [x EXCEPT !.elements = [i \in DOMAIN x.elements |->
               IF InChain(x.elements, p, i) THEN Other(x.elements[i]) ELSE x.elements[i]]]
    BY DEF NPE_invert_chain, InChain
  <2> QED
    BY <2>1 DEF Inverted
<1> HIDE DEF e
<1>4. DOMAIN e = 0 .. Last(n) /\ Last(n) \in Nat /\ Size(e) = Last(n) + 1
  BY <1>1, ElementsSize
<1>5. p \in 0 .. Last(n) /\ ~IsUnit(e, p) /\ (p = 0 \/ IsUnit(e, p - 1))
  <2>1. S \in SUBSET (0 .. Last(n))
    BY <1>4
  <2> HIDE DEF S
  <2>2. S \subseteq Nat /\ IsFiniteSet(S)
    <3>1. IsFiniteSet(0 .. Last(n))
      BY <1>4, FS_Interval
    <3>2. IsFiniteSet(S)
      BY <2>1, <3>1, FS_Subset
    <3> QED
      BY <1>4, <2>1, <3>2
  <2>3. DOMAIN ascending(S) = 0 .. Cardinality(S) - 1
    BY <2>2, AscendingIs
  <2>4. k \in 0 .. Cardinality(S) - 1
    BY <1>2, <2>3
  <2>5. ascending(S)[k] \in S
    BY <2>2, <2>4, AscendingIs
  <2>6. p \in S
    BY <1>2, <2>5
  <2> HIDE DEF p
  <2> QED
    BY <1>4, <2>6 DEF S
<1> HIDE DEF p, S
<1>6. \A i \in 0 .. Last(n) : InChain(e, p, i) => ~IsUnit(e, i)
  BY <1>5 DEF InChain
<1>7. \A i \in 0 .. Last(n) : /\ InChain(e, p, i) => d[i] = Other(e[i])
                              /\ ~InChain(e, p, i) => d[i] = e[i]
  BY <1>4 DEF Inverted
<1>8. d = [i \in 0 .. Last(n) |-> d[i]]
  BY <1>4 DEF Inverted
<1> HIDE DEF d
<1>9. \A i \in 0 .. Last(n) : /\ IsUnit(e, i) <=> e[i] \in Nat
                              /\ ~IsUnit(e, i) <=> e[i] \in Cuts
  BY <1>1, ElementsSize
<1>10. \A c \in Cuts : Other(c) \in Cuts /\ Other(c) # c
  BY DEF Cuts, Other, CUT_VERTICAL, CUT_HORIZONTAL
<1>11. \A a, c \in Cuts : a # c => Other(a) # Other(c)
  BY DEF Cuts, Other, CUT_VERTICAL, CUT_HORIZONTAL
<1>12. ASSUME NEW i \in 0 .. Last(n)
       PROVE  /\ IsUnit(e, i) => d[i] = e[i]
              /\ ~IsUnit(e, i) => d[i] \in Cuts
              /\ d[i] \in Nat \cup Cuts
  BY <1>6, <1>7, <1>9, <1>10
<1>13. Elements(d, n)
  <2>1. d \in [0 .. Last(n) -> Nat \cup Cuts]
    BY <1>8, <1>12
  <2>2. ASSUME NEW u \in 0 .. n - 1
        PROVE  \E i \in 0 .. Last(n) : d[i] = u
    <3>1. PICK i \in 0 .. Last(n) : e[i] = u
      BY <1>1 DEF Elements
    <3>2. IsUnit(e, i)
      BY <1>9, <3>1
    <3> QED
      BY <1>12, <3>1, <3>2
  <2> QED
    BY <2>1, <2>2 DEF Elements
<1>14. SamePattern(d, e, n)
  <2> SUFFICES ASSUME NEW i \in 0 .. Last(n) PROVE IsUnit(d, i) <=> IsUnit(e, i)
    BY DEF SamePattern
  <2>1. /\ IsUnit(d, i) \in BOOLEAN /\ IsUnit(e, i) \in BOOLEAN
        /\ IsUnit(d, i) <=> d[i] \in Nat
        /\ ~IsUnit(d, i) <=> d[i] \in Cuts
    BY <1>1, <1>13, ElementsSize
  <2>2. \A c \in Cuts : c \notin Nat
    BY DEF Cuts, CUT_VERTICAL, CUT_HORIZONTAL
  <2>3. CASE IsUnit(e, i)
    BY <1>9, <1>12, <2>1, <2>3
  <2>4. CASE ~IsUnit(e, i)
    BY <1>12, <2>1, <2>2, <2>4
  <2> QED
    BY <2>3, <2>4
<1>15. Normalized(d)
  <2>1. Size(d) = Last(n) + 1
    BY <1>13, ElementsSize
  <2> SUFFICES ASSUME NEW i \in 0 .. Last(n) - 1, ~IsUnit(d, i)
               PROVE  d[i] # d[i + 1]
    BY <1>4, <2>1 DEF Normalized
  <2>2. i \in 0 .. Last(n) /\ i + 1 \in 0 .. Last(n) /\ i \in 0 .. Size(e) - 2 /\ i \in Int
    BY <1>4
  <2>3. ~IsUnit(e, i) /\ e[i] \in Cuts /\ d[i] \in Cuts
    BY <1>9, <1>12, <1>14, <2>2 DEF SamePattern
  <2>4. CASE IsUnit(e, i + 1)
    <3>1. d[i + 1] \in Nat
      BY <1>9, <1>12, <2>2, <2>4
    <3> QED
      BY <2>3, <3>1 DEF Cuts, CUT_VERTICAL, CUT_HORIZONTAL
  <2>5. CASE ~IsUnit(e, i + 1)
    <3>1. e[i] # e[i + 1] /\ e[i + 1] \in Cuts
      BY <1>1, <1>9, <2>2, <2>3, <2>5 DEF Normalized
    <3>2. InChain(e, p, i) <=> InChain(e, p, i + 1)
      <4>1. p \in Int /\ (p = i + 1 => FALSE)
        BY <1>4, <1>5, <2>2, <2>3
      <4>2. InChain(e, p, i) => InChain(e, p, i + 1)
        <5>1. \A j \in p .. i + 1 : j \in p .. i \/ j = i + 1
          BY <2>2, <4>1
        <5> QED
          BY <2>2, <2>5, <4>1, <5>1 DEF InChain
      <4>3. InChain(e, p, i + 1) => InChain(e, p, i)
        <5>1. \A j \in p .. i : j \in p .. i + 1
          BY <2>2, <4>1
        <5>2. i + 1 >= p => i >= p
          BY <2>2, <4>1
        <5> QED
          BY <5>1, <5>2 DEF InChain
      <4> QED
        BY <4>2, <4>3
    <3>3. CASE InChain(e, p, i)
      BY <1>7, <1>11, <2>2, <2>3, <3>1, <3>2, <3>3
    <3>4. CASE ~InChain(e, p, i)
      BY <1>7, <2>2, <3>1, <3>2, <3>4
    <3> QED
      BY <3>3, <3>4
  <2> QED
    BY <2>4, <2>5
<1>16. Polish([x EXCEPT !.elements = d], n)
  BY <1>13, <1>14, <1>15, RefreshElements DEF e
<1> QED
  BY <1>3, <1>16 DEF p

(***************************************************************************)
(* M3: a unit and a cut beside it change places                            *)
(***************************************************************************)

\* The place of the unit, f, and that of the cut, t, of the two from p on.
Adjacent(e, p, f, t, n) ==
  /\ p \in 1 .. Last(n) - 1
  /\ (f = p /\ t = p + 1) \/ (f = p + 1 /\ t = p)
  /\ IsUnit(e, f) /\ ~IsUnit(e, t)

BallotCount(e, i) == Cardinality(CutsUpTo(e, i))

LEMMA BallotCounts ==
  ASSUME NEW n \in Nat, n >= 1, NEW e, Elements(e, n)
  PROVE  /\ fill_ballot_count(e) = [i \in 0 .. Last(n) |-> BallotCount(e, i)]
         /\ \A i \in 0 .. Last(n) : IsFiniteSet(CutsUpTo(e, i)) /\ BallotCount(e, i) \in Nat
<1>1. DOMAIN e = 0 .. Last(n) /\ Last(n) \in Nat
  BY ElementsSize
<1>2. fill_ballot_count(e) = [i \in 0 .. Last(n) |-> BallotCount(e, i)]
  BY <1>1 DEF fill_ballot_count, BallotCount, CutsUpTo
<1>3. ASSUME NEW i \in 0 .. Last(n)
      PROVE  IsFiniteSet(CutsUpTo(e, i))
  <2>1. CutsUpTo(e, i) \in SUBSET (0 .. i)
    BY DEF CutsUpTo
  <2>2. IsFiniteSet(0 .. i)
    BY <1>1, FS_Interval
  <2> QED
    BY <2>1, <2>2, FS_Subset
<1> QED
  BY <1>2, <1>3, FS_CardinalityType DEF BallotCount

LEMMA SwappedPattern ==
  ASSUME NEW n \in Nat, n >= 1, NEW e, Elements(e, n), NEW p, NEW f, NEW t, Adjacent(e, p, f, t, n)
  PROVE  LET d == swapped(e, p, p + 1)
         IN  /\ Elements(d, n) /\ d[f] = e[t] /\ d[t] = e[f]
             /\ IsUnit(d, t) /\ ~IsUnit(d, f)
             /\ \A i \in 0 .. Last(n) : i # p /\ i # p + 1 => d[i] = e[i]
             /\ \A i \in 0 .. Last(n) : i # p /\ i # p + 1 => (IsUnit(d, i) <=> IsUnit(e, i))
<1> DEFINE d == swapped(e, p, p + 1)
<1>1. p \in 0 .. Last(n) /\ p + 1 \in 0 .. Last(n) /\ p # p + 1
  BY ElementsSize DEF Adjacent
<1>2. /\ Elements(d, n) /\ d[p] = e[p + 1] /\ d[p + 1] = e[p]
      /\ \A i \in 0 .. Last(n) : i # p /\ i # p + 1 => d[i] = e[i]
  BY <1>1, SwappedElements
<1> HIDE DEF d
<1>3. d[f] = e[t] /\ d[t] = e[f]
  BY <1>2 DEF Adjacent
<1>4. IsUnit(d, t) /\ ~IsUnit(d, f)
  BY <1>3 DEF Adjacent, IsUnit
<1>5. \A i \in 0 .. Last(n) : i # p /\ i # p + 1 => (IsUnit(d, i) <=> IsUnit(e, i))
  BY <1>2 DEF IsUnit
<1> QED
  BY <1>2, <1>3, <1>4, <1>5 DEF d

LEMMA SwappedUnits ==
  ASSUME NEW n \in Nat, n >= 1, NEW e, Elements(e, n), NEW p, NEW f, NEW t, Adjacent(e, p, f, t, n)
  PROVE  fill_unit_pos(swapped(e, p, p + 1)) = update_unit_pos(fill_unit_pos(e), f, t - f)
<1> DEFINE d == swapped(e, p, p + 1)
           S == UnitsAt(e)
           a == fill_unit_pos(e)
<1>1. /\ Elements(d, n) /\ IsUnit(d, t) /\ ~IsUnit(d, f)
      /\ \A i \in 0 .. Last(n) : i # p /\ i # p + 1 => (IsUnit(d, i) <=> IsUnit(e, i))
  BY SwappedPattern
<1> HIDE DEF d
<1>2. Last(n) \in Nat /\ DOMAIN e = 0 .. Last(n) /\ DOMAIN d = 0 .. Last(n)
  BY <1>1, ElementsSize
<1>3. f \in 0 .. Last(n) /\ t \in 0 .. Last(n) /\ (t = f + 1 \/ f = t + 1) /\ f \in Int /\ t \in Nat /\ f # t
  BY <1>2 DEF Adjacent
<1>4. f \in S /\ t \notin S
  BY <1>2, <1>3 DEF Adjacent, UnitsAt
<1>5. UnitsAt(d) = Shifted(S, f, t)
  <2> SUFFICES ASSUME NEW i \in 0 .. Last(n)
               PROVE  IsUnit(d, i) <=> (IsUnit(e, i) /\ i # f) \/ i = t
    BY <1>2, <1>3 DEF UnitsAt, Shifted
  <2>1. CASE i = f
    BY <1>1, <1>3, <2>1
  <2>2. CASE i = t
    BY <1>1, <1>3, <2>2
  <2>3. CASE i # f /\ i # t
    <3>1. i # p /\ i # p + 1
      BY <2>3 DEF Adjacent
    <3> QED
      BY <1>1, <2>3, <3>1
  <2> QED
    BY <2>1, <2>2, <2>3
<1>6. a = ascending(S) /\ fill_unit_pos(d) = ascending(UnitsAt(d))
  BY DEF fill_unit_pos, UnitsAt
<1>7. S \subseteq Nat /\ IsFiniteSet(S)
  BY UnitsFinite
<1> HIDE DEF S, a
<1>8. fill_unit_pos(d) = [k \in DOMAIN a |-> shiftedTo(a[k], f, t)]
  BY <1>3, <1>4, <1>5, <1>6, <1>7, AscendingShifted
<1>9. f + (t - f) = t
  BY <1>3
<1>10. update_unit_pos(a, f, t - f) = [k \in DOMAIN a |-> IF a[k] = f THEN t ELSE a[k]]
  BY <1>9 DEF update_unit_pos
<1> QED
  BY <1>8, <1>10 DEF shiftedTo, a, d

LEMMA SwappedBallots ==
  ASSUME NEW n \in Nat, n >= 1, NEW e, Elements(e, n), NEW p, NEW f, NEW t, Adjacent(e, p, f, t, n)
  PROVE  LET d == swapped(e, p, p + 1)
         IN  /\ BallotCount(d, p) = IF f = p THEN BallotCount(e, p) + 1 ELSE BallotCount(e, p) - 1
             /\ \A i \in 0 .. Last(n) : i # p => BallotCount(d, i) = BallotCount(e, i)
             /\ f = p => BallotCount(e, p + 1) = BallotCount(e, p) + 1
<1> DEFINE d == swapped(e, p, p + 1)
<1>1. /\ Elements(d, n) /\ IsUnit(d, t) /\ ~IsUnit(d, f)
      /\ \A i \in 0 .. Last(n) : i # p /\ i # p + 1 => (IsUnit(d, i) <=> IsUnit(e, i))
  BY SwappedPattern
<1> HIDE DEF d
<1>2. Last(n) \in Nat /\ p \in 1 .. Last(n) - 1 /\ p \in 0 .. Last(n) /\ p + 1 \in 0 .. Last(n)
      /\ p \in Nat
  BY ElementsSize DEF Adjacent
<1>3. /\ (f = p /\ t = p + 1) \/ (f = p + 1 /\ t = p)
      /\ IsUnit(e, f) /\ ~IsUnit(e, t)
  BY DEF Adjacent
<1>4. \A i \in 0 .. Last(n) : IsFiniteSet(CutsUpTo(e, i)) /\ BallotCount(e, i) \in Nat
  BY BallotCounts
<1>5. ASSUME NEW i \in 0 .. Last(n), i < p
      PROVE  BallotCount(d, i) = BallotCount(e, i)
  <2>1. \A j \in 0 .. i : j \in 0 .. Last(n) /\ j # p /\ j # p + 1
    BY <1>2, <1>5
  <2>2. CutsUpTo(d, i) = CutsUpTo(e, i)
    BY <1>1, <2>1 DEF CutsUpTo
  <2> QED
    BY <2>2 DEF BallotCount
<1>6. ASSUME NEW i \in 0 .. Last(n), i > p
      PROVE  BallotCount(d, i) = BallotCount(e, i)
  <2>1. f \in 0 .. i /\ t \in 0 .. i /\ f # t /\ f \in Nat /\ t \in Nat /\ (f = t + 1 \/ t = f + 1)
    BY <1>2, <1>3, <1>6
  <2>2. CutsUpTo(d, i) = Shifted(CutsUpTo(e, i), t, f)
    <3> SUFFICES ASSUME NEW j \in 0 .. i
                 PROVE  ~IsUnit(d, j) <=> (~IsUnit(e, j) /\ j # t) \/ j = f
      BY <2>1 DEF CutsUpTo, Shifted
    <3>1. CASE j = f
      BY <1>1, <3>1
    <3>2. CASE j = t
      BY <1>1, <2>1, <3>2
    <3>3. CASE j # f /\ j # t
      <4>1. j # p /\ j # p + 1 /\ j \in 0 .. Last(n)
        BY <1>2, <1>3, <3>3
      <4> QED
        BY <1>1, <3>3, <4>1
    <3> QED
      BY <3>1, <3>2, <3>3
  <2> DEFINE C == CutsUpTo(e, i)
  <2>3. C \subseteq Nat /\ IsFiniteSet(C) /\ t \in C /\ f \notin C
    BY <1>3, <1>4, <2>1 DEF CutsUpTo
  <2> HIDE DEF C
  <2>4. Cardinality(Shifted(C, t, f)) = Cardinality(C)
    BY <2>1, <2>3, ShiftedRank
  <2> QED
    BY <2>2, <2>4 DEF BallotCount, C
<1> DEFINE C == CutsUpTo(e, p)
<1>7. IsFiniteSet(C) /\ Cardinality(C) = BallotCount(e, p) /\ BallotCount(e, p) \in Nat
  BY <1>2, <1>4 DEF BallotCount
<1>8. \A j \in 0 .. p : j # p => j \in 0 .. Last(n) /\ j # p + 1
  BY <1>2
<1>9. CASE f = p
  <2>1. t = p + 1 /\ p # p + 1
    BY <1>2, <1>3, <1>9
  <2>2. p \notin C /\ CutsUpTo(d, p) = C \cup {p}
    BY <1>1, <1>2, <1>3, <1>8, <1>9 DEF CutsUpTo
  <2>3. p + 1 \notin C /\ CutsUpTo(e, p + 1) = C \cup {p + 1}
    <3>1. \A j : j \in 0 .. p + 1 <=> j \in 0 .. p \/ j = p + 1
      BY <1>2
    <3>2. p + 1 \notin 0 .. p
      BY <1>2
    <3> QED
      BY <1>3, <2>1, <3>1, <3>2 DEF CutsUpTo
  <2> HIDE DEF C
  <2>4. Cardinality(C \cup {p}) = Cardinality(C) + 1
    BY <1>7, <2>2, FS_AddElement
  <2>5. Cardinality(C \cup {p + 1}) = Cardinality(C) + 1
    BY <1>7, <2>3, FS_AddElement
  <2>6. BallotCount(d, p) = BallotCount(e, p) + 1 /\ BallotCount(e, p + 1) = BallotCount(e, p) + 1
    BY <1>7, <2>2, <2>3, <2>4, <2>5 DEF BallotCount
  <2>7. \A i \in 0 .. Last(n) : i # p => i < p \/ i > p
    BY <1>2
  <2> QED
    BY <1>5, <1>6, <1>9, <2>6, <2>7 DEF d
<1>10. CASE f # p
  <2>1. t = p
    BY <1>3, <1>10
  <2>2. p \in C /\ CutsUpTo(d, p) = C \ {p}
    BY <1>1, <1>2, <1>3, <1>8, <2>1 DEF CutsUpTo
  <2> HIDE DEF C
  <2>3. Cardinality(C \ {p}) = Cardinality(C) - 1
    BY <1>7, <2>2, FS_RemoveElement
  <2>4. BallotCount(d, p) = BallotCount(e, p) - 1
    BY <1>7, <2>2, <2>3 DEF BallotCount
  <2>5. \A i \in 0 .. Last(n) : i # p => i < p \/ i > p
    BY <1>2
  <2> QED
    BY <1>5, <1>6, <1>10, <2>4, <2>5 DEF d
<1> QED
  BY <1>9, <1>10

\* A position where a unit and a cut meet is never the first: the balloting leaves no
\* cut among the first two elements.
LEMMA FlipIsInside ==
  ASSUME NEW n \in Nat, n >= 1, NEW x, Polish(x, n), NEW k \in DOMAIN x.flip_pos, NEW p, p = x.flip_pos[k]
  PROVE  /\ p \in 1 .. Last(n) - 1 /\ IsUnit(x.elements, p) # IsUnit(x.elements, p + 1)
         /\ IsUnit(x.elements, p) \in BOOLEAN /\ IsUnit(x.elements, p + 1) \in BOOLEAN
<1> DEFINE e == x.elements
           S == {i \in 0 .. Size(e) - 2 : IsUnit(e, i) # IsUnit(e, i + 1)}
<1>1. Elements(e, n) /\ Balloted(e)
  BY DEF Polish
<1>2. x.flip_pos = ascending(S)
  BY PolishFields DEF fill_flip_pos
<1> HIDE DEF e
<1>3. DOMAIN e = 0 .. Last(n) /\ Last(n) \in Nat /\ Size(e) = Last(n) + 1
  BY <1>1, ElementsSize
<1>4. p \in S
  <2>1. S \in SUBSET (0 .. Last(n) - 1)
    BY <1>3
  <2> HIDE DEF S
  <2>2. IsFiniteSet(0 .. Last(n) - 1)
    BY <1>3, FS_Interval
  <2>3. IsFiniteSet(S)
    BY <2>1, <2>2, FS_Subset
  <2>4. S \subseteq Nat
    BY <1>3, <2>1
  <2>5. k \in 0 .. Cardinality(S) - 1
    BY <1>2, <2>3, <2>4, AscendingIs
  <2> QED
    BY <1>2, <2>3, <2>4, <2>5, AscendingIs
<1>5. p \in 0 .. Last(n) - 1 /\ IsUnit(e, p) # IsUnit(e, p + 1)
  BY <1>3, <1>4
<1>6. p \in 0 .. Last(n) /\ p + 1 \in 0 .. Last(n)
  BY <1>3, <1>5
<1>7. IsUnit(e, p) \in BOOLEAN /\ IsUnit(e, p + 1) \in BOOLEAN
  BY <1>1, <1>6, ElementsSize
<1>8. p # 0
  <2> SUFFICES ASSUME p = 0 PROVE FALSE
    OBVIOUS
  <2>1. \A i \in 0 .. Last(n) : /\ fill_ballot_count(e)[i] = BallotCount(e, i)
                                /\ IsFiniteSet(CutsUpTo(e, i)) /\ BallotCount(e, i) \in Nat
    <3>1. fill_ballot_count(e) = [i \in 0 .. Last(n) |-> BallotCount(e, i)]
      BY <1>1, BallotCounts
    <3>2. \A i \in 0 .. Last(n) : fill_ballot_count(e)[i] = BallotCount(e, i)
      BY <3>1
    <3> QED
      BY <1>1, <3>2, BallotCounts
  <2>2. 2 * BallotCount(e, 1) < 1 + 1
    BY <1>1, <1>3, <1>6, <2>1 DEF Balloted
  <2>3. BallotCount(e, 1) = 0
    BY <1>6, <2>1, <2>2
  <2>4. CutsUpTo(e, 1) = {}
    BY <1>6, <2>1, <2>3, FS_EmptySet DEF BallotCount
  <2>5. IsUnit(e, 0) /\ IsUnit(e, 1)
    BY <2>4 DEF CutsUpTo
  <2> QED
    BY <1>5, <1>7, <2>5
<1>9. p \in 1 .. Last(n) - 1
  BY <1>3, <1>5, <1>8
<1> QED
  BY <1>5, <1>7, <1>9 DEF e

\* Every unit is found in unit_pos.
LEMMA UnitIsListed ==
  ASSUME NEW n \in Nat, n >= 1, NEW e, Elements(e, n), NEW f \in UnitsAt(e)
  PROVE  \E k \in DOMAIN fill_unit_pos(e) : fill_unit_pos(e)[k] = f
<1> DEFINE S == UnitsAt(e)
<1>1. S \subseteq Nat /\ IsFiniteSet(S) /\ Cardinality(S) \in Nat /\ S \subseteq 0 .. Last(n)
  BY UnitsFinite
<1>2. fill_unit_pos(e) = ascending(S)
  BY DEF fill_unit_pos, UnitsAt
<1>3. f \in S
  OBVIOUS
<1> HIDE DEF S
<1>4. Rank(S, f) \in 0 .. Cardinality(S) - 1
  <2>1. Below(S, f) \in SUBSET (S \ {f})
    <3>1. f \in Nat
      BY <1>1, <1>3
    <3>2. ~(f < f)
      BY <3>1
    <3> QED
      BY <3>2 DEF Below
  <2>2. IsFiniteSet(S \ {f}) /\ Cardinality(S \ {f}) = Cardinality(S) - 1
    BY <1>1, <1>3, FS_RemoveElement
  <2>3. Rank(S, f) <= Cardinality(S) - 1
    BY <2>1, <2>2, FS_Subset DEF Rank
  <2>4. Rank(S, f) \in Nat
    BY <1>1, BelowFinite
  <2> QED
    BY <1>1, <2>3, <2>4
<1> DEFINE k == Rank(S, f)
<1>5. k \in 0 .. Cardinality(S) - 1
  BY <1>4
<1>6. ascending(S)[k] = f /\ k \in DOMAIN ascending(S)
  BY <1>1, <1>3, <1>5, AscendingIs
<1> QED
  BY <1>2, <1>6

\* The places of the unit and the cut that an M3 exchanges.
LEMMA FlipIsAdjacent ==
  ASSUME NEW n \in Nat, n >= 1, NEW x, Polish(x, n), NEW k \in DOMAIN x.flip_pos, NEW p, p = x.flip_pos[k],
         NEW f, NEW t, IsUnit(x.elements, p) => f = p /\ t = p + 1,
         ~IsUnit(x.elements, p) => f = p + 1 /\ t = p
  PROVE  Adjacent(x.elements, p, f, t, n) /\ f \in UnitsAt(x.elements)
<1> DEFINE e == x.elements
<1>1. Elements(e, n)
  BY DEF Polish
<1>2. /\ p \in 1 .. Last(n) - 1 /\ IsUnit(e, p) # IsUnit(e, p + 1)
      /\ IsUnit(e, p) \in BOOLEAN /\ IsUnit(e, p + 1) \in BOOLEAN
  BY FlipIsInside
<1>3. Adjacent(e, p, f, t, n)
  BY <1>2 DEF Adjacent
<1> HIDE DEF e
<1>4. DOMAIN e = 0 .. Last(n) /\ Last(n) \in Nat
  BY <1>1, ElementsSize
<1>5. f \in UnitsAt(e)
  BY <1>3, <1>4 DEF Adjacent, UnitsAt
<1> QED
  BY <1>3, <1>5 DEF e

\* No swap of a unit and a cut ends the program.
LEMMA SwapNeverFatal ==
  ASSUME NEW n \in Nat, n >= 1, NEW x, Polish(x, n), NEW k \in DOMAIN x.flip_pos
  PROVE  ~swapFatal(x, x.flip_pos[k])
<1> DEFINE e == x.elements
           p == x.flip_pos[k]
           f == IF IsUnit(e, p) THEN p ELSE p + 1
           t == IF IsUnit(e, p) THEN p + 1 ELSE p
<1>1. Elements(e, n) /\ x.unit_pos = fill_unit_pos(e)
  BY PolishFields DEF Polish
<1>2. p \in 1 .. Last(n) - 1
  BY FlipIsInside
<1>3. f \in UnitsAt(e)
  <2>1. IsUnit(e, p) => f = p /\ t = p + 1
    OBVIOUS
  <2>2. ~IsUnit(e, p) => f = p + 1 /\ t = p
    OBVIOUS
  <2> HIDE DEF p, f, t
  <2>3. p = x.flip_pos[k]
    BY DEF p
  <2> QED
    BY <2>1, <2>2, <2>3, FlipIsAdjacent
<1> HIDE DEF e, f, p
<1>4. Last(n) \in Nat /\ Size(e) = Last(n) + 1
  BY <1>1, ElementsSize
<1>5. \E i \in DOMAIN x.unit_pos : x.unit_pos[i] = f
  BY <1>1, <1>3, UnitIsListed
<1>6. ~(p <= 0) /\ ~(p >= Size(e) - 1)
  BY <1>2, <1>4
<1>7. ~swapFatal(x, p)
  BY <1>5, <1>6 DEF swapFatal, e, f
<1> QED
  BY <1>7 DEF p

LEMMA PolishWellFormed ==
  ASSUME NEW n \in Nat, n >= 1, NEW x, Polish(x, n)
  PROVE  WellFormed(x, n)
<1> DEFINE e == x.elements
<1>1. DOMAIN e = 0 .. Last(n) /\ Size(e) = Last(n) + 1
  BY ElementsSize DEF Polish
<1>2. Size(e) = 2 * n - 1
  BY <1>1 DEF Last
<1>3. \A u \in 0 .. n - 1 : \E i \in DOMAIN e : e[i] = u
  BY <1>1 DEF Polish, Elements
<1> QED
  BY <1>2, <1>3, PolishFields, SwapNeverFatal DEF WellFormed, Polish

LEMMA SwapCutUnitKeeps ==
  ASSUME NEW n \in Nat, n >= 1, NEW x, Polish(x, n), NEW k \in DOMAIN x.flip_pos,
         swapLegal(x, x.flip_pos[k])
  PROVE  Polish(NPE_swap_cut_unit(x, x.flip_pos[k]), n)
<1> DEFINE e == x.elements
           p == x.flip_pos[k]
           f == IF IsUnit(e, p) THEN p ELSE p + 1
           t == IF IsUnit(e, p) THEN p + 1 ELSE p
           d == swapped(e, p, p + 1)
           y == NPE_swap_cut_unit(x, p)
<1>1. /\ x = Scanned(e) /\ Elements(e, n) /\ Balloted(e) /\ Normalized(e)
      /\ x.unit_pos = fill_unit_pos(e) /\ x.ballot_count = fill_ballot_count(e)
  BY PolishFields DEF Polish
<1>2. Adjacent(e, p, f, t, n)
  <2>1. IsUnit(e, p) => f = p /\ t = p + 1
    OBVIOUS
  <2>2. ~IsUnit(e, p) => f = p + 1 /\ t = p
    OBVIOUS
  <2> HIDE DEF p, f, t
  <2>3. p = x.flip_pos[k]
    BY DEF p
  <2> QED
    BY <2>1, <2>2, <2>3, FlipIsAdjacent
<1>3. swapLegal(x, p)
  OBVIOUS
<1> HIDE DEF e, p
<1>4. /\ DOMAIN e = 0 .. Last(n) /\ Last(n) \in Nat /\ Size(e) = Last(n) + 1
      /\ \A i \in 0 .. Last(n) : /\ IsUnit(e, i) <=> e[i] \in Nat
                                 /\ ~IsUnit(e, i) <=> e[i] \in Cuts
  BY <1>1, ElementsSize
<1>5. p \in 1 .. Last(n) - 1 /\ p \in 0 .. Last(n) /\ p + 1 \in 0 .. Last(n) /\ p - 1 \in 0 .. Last(n) /\ p \in Nat
  BY <1>2, <1>4 DEF Adjacent
<1>6. (IsUnit(e, p) <=> f = p) /\ t - f = IF f = p THEN 1 ELSE -1
  BY <1>5
<1> HIDE DEF f, t
<1>7. /\ Elements(d, n) /\ d[f] = e[t] /\ d[t] = e[f] /\ IsUnit(d, t) /\ ~IsUnit(d, f)
      /\ \A i \in 0 .. Last(n) : i # p /\ i # p + 1 => d[i] = e[i]
  BY <1>1, <1>2, SwappedPattern
<1>8. fill_unit_pos(d) = update_unit_pos(fill_unit_pos(e), f, t - f)
  BY <1>1, <1>2, SwappedUnits
<1>9. /\ BallotCount(d, p) = IF f = p THEN BallotCount(e, p) + 1 ELSE BallotCount(e, p) - 1
      /\ \A i \in 0 .. Last(n) : i # p => BallotCount(d, i) = BallotCount(e, i)
      /\ f = p => BallotCount(e, p + 1) = BallotCount(e, p) + 1
  BY <1>1, <1>2, SwappedBallots
<1>10. /\ fill_ballot_count(e) = [i \in 0 .. Last(n) |-> BallotCount(e, i)]
       /\ fill_ballot_count(d) = [i \in 0 .. Last(n) |-> BallotCount(d, i)]
       /\ \A i \in 0 .. Last(n) : BallotCount(e, i) \in Nat /\ BallotCount(d, i) \in Nat
  <2> HIDE DEF d
  <2> QED
    BY <1>1, <1>7, BallotCounts
<1>11. y = Scanned(d)
  <2> DEFINE u == fill_unit_pos(e)
             b == fill_ballot_count(e)
             v == IF f = p THEN update_unit_pos(u, p, 1) ELSE update_unit_pos(u, p + 1, -1)
             w == [b EXCEPT ![p] = IF f = p THEN b[p] + 1 ELSE b[p] - 1]
             g == fill_flip_pos(e)
             c == fill_chain_pos(e)
             g1 == fill_flip_pos(d)
             c1 == fill_chain_pos(d)
  <2>1. x = [elements |-> e, unit_pos |-> u, flip_pos |-> g, chain_pos |-> c, ballot_count |-> b]
    BY <1>1 DEF Scanned, Expression
  <2>2. y = [x EXCEPT !.elements = d,
                      !.unit_pos = IF IsUnit(e, p) THEN update_unit_pos(@, p, 1) ELSE update_unit_pos(@, p + 1, -1),
                      !.ballot_count[p] = IF IsUnit(e, p) THEN @ + 1 ELSE @ - 1,
                      !.flip_pos = g1,
                      !.chain_pos = c1]
    BY DEF NPE_swap_cut_unit, e
  <2> HIDE DEF u, b, d, y, g, c, g1, c1
  <2>3. y = [elements |-> d,
             unit_pos |-> IF IsUnit(e, p) THEN update_unit_pos(u, p, 1) ELSE update_unit_pos(u, p + 1, -1),
             flip_pos |-> g1, chain_pos |-> c1,
             ballot_count |-> [b EXCEPT ![p] = IF IsUnit(e, p) THEN b[p] + 1 ELSE b[p] - 1]]
    BY <2>1, <2>2
  <2>4. y = Expression(d, v, g1, c1, w)
    BY <1>6, <2>3 DEF Expression
  <2>5. v = fill_unit_pos(d)
    <3>1. CASE f = p
      BY <1>6, <1>8, <3>1 DEF u
    <3>2. CASE f # p
      <4>1. f = p + 1
        BY <1>2, <3>2 DEF Adjacent
      <4> QED
        BY <1>6, <1>8, <3>2, <4>1 DEF u
    <3> QED
      BY <3>1, <3>2
  <2>6. w = fill_ballot_count(d)
    <3>1. b = [i \in 0 .. Last(n) |-> BallotCount(e, i)]
      BY <1>10 DEF b
    <3>2. w = [i \in 0 .. Last(n) |-> BallotCount(d, i)]
      BY <1>5, <1>9, <3>1
    <3> QED
      BY <1>10, <3>2
  <2> HIDE DEF v, w
  <2> QED
    BY <2>4, <2>5, <2>6 DEF Scanned, g1, c1
<1> HIDE DEF d, y
<1>12. DOMAIN d = 0 .. Last(n) /\ Size(d) = Last(n) + 1
  BY <1>7, ElementsSize
<1>13. \A i \in 0 .. Last(n) : 2 * BallotCount(e, i) < i + 1
  BY <1>1, <1>4, <1>10 DEF Balloted
<1>14. Balloted(d)
  <2> SUFFICES ASSUME NEW i \in 0 .. Last(n) PROVE 2 * BallotCount(d, i) < i + 1
    BY <1>10, <1>12 DEF Balloted
  <2>1. CASE i # p
    BY <1>9, <1>13, <2>1
  <2>2. CASE i = p /\ f = p
    <3>1. 2 * x.ballot_count[p + 1] < p + 1
      BY <1>3, <1>6, <2>2 DEF swapLegal, e
    <3>2. x.ballot_count[p + 1] = BallotCount(e, p + 1)
      BY <1>1, <1>5, <1>10
    <3> QED
      BY <1>9, <2>2, <3>1, <3>2
  <2>3. CASE i = p /\ f # p
    <3>1. BallotCount(d, p) = BallotCount(e, p) - 1 /\ BallotCount(e, p) \in Nat /\ 2 * BallotCount(e, p) < p + 1
      BY <1>5, <1>9, <1>10, <1>13, <2>3
    <3> QED
      BY <1>5, <2>3, <3>1
  <2> QED
    BY <2>1, <2>2, <2>3
<1>15. Normalized(d)
  <2> SUFFICES ASSUME NEW i \in 0 .. Last(n) - 1, ~IsUnit(d, i)
               PROVE  d[i] # d[i + 1]
    BY <1>4, <1>12 DEF Normalized
  <2>1. i \in 0 .. Last(n) /\ i + 1 \in 0 .. Last(n) /\ i \in 0 .. Size(e) - 2 /\ i \in Int
    BY <1>4
  <2>2. d[i] \in Cuts
    BY <1>7, <2>1, ElementsSize
  <2>3. \A c \in Cuts : c \notin Nat
    BY DEF Cuts, CUT_VERTICAL, CUT_HORIZONTAL
  <2>4. CASE IsUnit(d, i + 1)
    <3>1. d[i + 1] \in Nat
      BY <1>7, <2>1, <2>4, ElementsSize
    <3> QED
      BY <2>2, <2>3, <3>1
  <2>5. CASE ~IsUnit(d, i + 1)
    <3>1. i # t /\ i + 1 # t
      BY <1>7, <2>5
    <3>2. CASE f = p
      <4>1. t = p + 1 /\ d[p] = e[p + 1]
        BY <1>2, <1>7, <3>2 DEF Adjacent
      <4>2. i # p /\ i # p + 1
        BY <1>5, <2>1, <3>1, <4>1
      <4>3. d[i] = e[i]
        BY <1>7, <2>1, <4>2
      <4>4. CASE i + 1 = p
        <5>1. e[p - 1] # e[p + 1]
          BY <1>3, <1>6, <3>2 DEF swapLegal, e
        <5>2. i = p - 1
          BY <2>1, <4>4
        <5> QED
          BY <4>1, <4>3, <4>4, <5>1, <5>2
      <4>5. CASE i + 1 # p
        <5>1. i + 1 # p + 1
          BY <1>5, <2>1, <4>2
        <5>2. d[i + 1] = e[i + 1]
          BY <1>7, <2>1, <4>5, <5>1
        <5>3. ~IsUnit(e, i)
          BY <1>4, <2>1, <2>2, <4>3
        <5>4. e[i] # e[i + 1]
          BY <1>1, <2>1, <5>3 DEF Normalized
        <5> QED
          BY <4>3, <5>2, <5>4
      <4> QED
        BY <4>4, <4>5
    <3>3. CASE f # p
      <4>1. f = p + 1 /\ t = p /\ d[p + 1] = e[p]
        BY <1>2, <1>7, <3>3 DEF Adjacent
      <4>2. i # p /\ i + 1 # p /\ i + 1 # p + 1
        BY <1>5, <2>1, <3>1, <4>1
      <4>3. CASE i = p + 1
        <5>1. d[i] = e[p] /\ i + 1 = p + 2 /\ p < Size(e) - 2
          BY <1>4, <1>5, <2>1, <4>1, <4>3
        <5>2. i + 1 # p
          BY <4>2
        <5>3. d[i + 1] = e[i + 1]
          BY <1>7, <2>1, <4>2
        <5>4. e[p] # e[p + 2]
          BY <1>3, <1>6, <3>3, <5>1 DEF swapLegal, e
        <5> QED
          BY <5>1, <5>3, <5>4
      <4>4. CASE i # p + 1
        <5>1. d[i] = e[i]
          BY <1>7, <2>1, <4>2, <4>4
        <5>2. d[i + 1] = e[i + 1]
          BY <1>7, <2>1, <4>2
        <5>3. ~IsUnit(e, i)
          BY <1>4, <2>1, <2>2, <5>1
        <5>4. e[i] # e[i + 1]
          BY <1>1, <2>1, <5>3 DEF Normalized
        <5> QED
          BY <5>1, <5>2, <5>4
      <4> QED
        BY <4>3, <4>4
    <3> QED
      BY <3>2, <3>3
  <2> QED
    BY <2>4, <2>5
<1>16. y.elements = d
  BY <1>11 DEF Scanned, Expression
<1>17. Polish(y, n)
  BY <1>7, <1>11, <1>14, <1>15, <1>16, Zenon DEF Polish
<1> QED
  BY <1>17 DEF y, p

(***************************************************************************)
(* The first expression, and what a random move leads to                   *)
(***************************************************************************)

InitialElements(n) ==
  [i \in 0 .. Last(n) |->
     IF i = 0 THEN 0 ELSE IF i % 2 = 1 THEN (i + 1) \div 2 ELSE CUT_VERTICAL]

LEMMA InitialIsElements ==
  ASSUME NEW n \in Nat, n >= 1
  PROVE  /\ Elements(InitialElements(n), n)
         /\ \A i \in 0 .. Last(n) : IsUnit(InitialElements(n), i) <=> (i = 0 \/ i % 2 = 1)
<1> DEFINE e == InitialElements(n)
<1>1. Last(n) \in Nat
  BY DEF Last
<1>2. ASSUME NEW i \in 0 .. Last(n)
      PROVE  /\ i % 2 = 1 => (i + 1) \div 2 \in Nat
             /\ i = 0 => e[i] = 0
             /\ i # 0 /\ i % 2 = 1 => e[i] = (i + 1) \div 2
             /\ i # 0 /\ i % 2 # 1 => e[i] = CUT_VERTICAL
  <2>1. (i + 1) \div 2 \in Nat
    OBVIOUS
  <2> QED
    BY <2>1 DEF InitialElements
<1>3. e = [i \in 0 .. Last(n) |-> e[i]]
  BY DEF InitialElements
<1> HIDE DEF e
<1>4. e \in [0 .. Last(n) -> Nat \cup Cuts]
  <2>1. \A i \in 0 .. Last(n) : e[i] \in Nat \cup Cuts
    BY <1>2 DEF Cuts
  <2> QED
    BY <1>3, <2>1
<1>5. ASSUME NEW u \in 0 .. n - 1
      PROVE  \E i \in 0 .. Last(n) : e[i] = u
  <2>1. CASE u = 0
    <3>1. 0 \in 0 .. Last(n) /\ e[0] = 0
      BY <1>1, <1>2
    <3> QED
      BY <2>1, <3>1
  <2>2. CASE u # 0
    <3> DEFINE i == 2 * u - 1
    <3>1. i \in 0 .. Last(n) /\ i # 0
      BY <2>2 DEF Last
    <3>2. i % 2 = 1 /\ (i + 1) \div 2 = u
      <4>1. u \in Nat
        OBVIOUS
      <4>2. i = (u - 1) * 2 + 1 /\ i + 1 = u * 2 + 0 /\ u - 1 \in Nat
        BY <2>2, <4>1
      <4> HIDE DEF i
      <4>3. ((u - 1) * 2 + 1) % 2 = 1
        BY <4>2, DivMod
      <4>4. (u * 2 + 0) \div 2 = u
        BY <4>1, DivMod
      <4> QED
        BY <4>2, <4>3, <4>4
    <3> HIDE DEF i
    <3>3. e[i] = u
      BY <1>2, <3>1, <3>2
    <3> QED
      BY <3>1, <3>3
  <2> QED
    BY <2>1, <2>2
<1>6. Elements(e, n)
  BY <1>4, <1>5 DEF Elements
<1>7. \A i \in 0 .. Last(n) : IsUnit(e, i) <=> (i = 0 \/ i % 2 = 1)
  BY <1>2 DEF IsUnit, CUT_VERTICAL
<1> QED
  BY <1>6, <1>7 DEF e

\* The elements up to i hold i \div 2 cuts.
LEMMA InitialCounts ==
  ASSUME NEW n \in Nat, n >= 1, NEW i \in 0 .. Last(n)
  PROVE  2 * BallotCount(InitialElements(n), i) <= i
<1> DEFINE e == InitialElements(n)
           T == {j \in Nat : j <= Last(n) => 2 * BallotCount(e, j) = j - (j % 2)}
<1>1. Elements(e, n) /\ \A j \in 0 .. Last(n) : IsUnit(e, j) <=> (j = 0 \/ j % 2 = 1)
  BY InitialIsElements
<1> HIDE DEF e
<1>2. Last(n) \in Nat
  BY DEF Last
<1>3. \A j \in 0 .. Last(n) : IsFiniteSet(CutsUpTo(e, j)) /\ BallotCount(e, j) \in Nat
  BY <1>1, BallotCounts
<1>4. 0 \in T
  <2>1. CutsUpTo(e, 0) = {}
    BY <1>1, <1>2 DEF CutsUpTo
  <2>2. BallotCount(e, 0) = 0
    BY <2>1, FS_EmptySet DEF BallotCount
  <2> QED
    BY <2>2
<1>5. ASSUME NEW j \in Nat, j \in T
      PROVE  j + 1 \in T
  <2> SUFFICES ASSUME j + 1 <= Last(n)
               PROVE  2 * BallotCount(e, j + 1) = (j + 1) - ((j + 1) % 2)
    OBVIOUS
  <2>1. j \in 0 .. Last(n) /\ j + 1 \in 0 .. Last(n) /\ j + 1 # 0
    BY <1>2
  <2>2. 2 * BallotCount(e, j) = j - (j % 2) /\ BallotCount(e, j) \in Nat /\ IsFiniteSet(CutsUpTo(e, j))
    BY <1>3, <1>5, <2>1
  <2>3. j + 1 \notin CutsUpTo(e, j)
    BY DEF CutsUpTo
  <2>4. \A m : m \in 0 .. j + 1 <=> m \in 0 .. j \/ m = j + 1
    OBVIOUS
  <2>5. CASE (j + 1) % 2 = 1
    <3>1. CutsUpTo(e, j + 1) = CutsUpTo(e, j)
      BY <1>1, <2>1, <2>4, <2>5 DEF CutsUpTo
    <3>2. j % 2 = 0
      BY <2>5
    <3> QED
      BY <2>2, <2>5, <3>1, <3>2 DEF BallotCount
  <2>6. CASE (j + 1) % 2 # 1
    <3>1. CutsUpTo(e, j + 1) = CutsUpTo(e, j) \cup {j + 1}
      BY <1>1, <2>1, <2>4, <2>6 DEF CutsUpTo
    <3>2. Cardinality(CutsUpTo(e, j) \cup {j + 1}) = BallotCount(e, j) + 1
      BY <2>2, <2>3, FS_AddElement DEF BallotCount
    <3>3. BallotCount(e, j + 1) = BallotCount(e, j) + 1
      BY <3>1, <3>2 DEF BallotCount
    <3>4. j % 2 = 1 /\ (j + 1) % 2 = 0
      BY <2>6
    <3> QED
      BY <2>2, <3>3, <3>4
  <2> QED
    BY <2>5, <2>6
<1> HIDE DEF T
<1>6. Nat \subseteq T
  BY <1>4, <1>5, InductionOverNat
<1>7. i \in Nat /\ i <= Last(n)
  BY <1>2
<1>8. 2 * BallotCount(e, i) = i - (i % 2)
  BY <1>6, <1>7 DEF T
<1>9. i % 2 \in 0 .. 1
  BY <1>7
<1> QED
  BY <1>7, <1>8, <1>9 DEF e

LEMMA InitialIsPolish ==
  ASSUME NEW n \in Nat, n >= 1
  PROVE  Polish(NPE_get_initial(n), n)
<1> DEFINE e == InitialElements(n)
           x == NPE_get_initial(n)
<1>1. x = Scanned(e)
  BY DEF NPE_get_initial, Scanned, Expression, InitialElements, Last
<1>2. Elements(e, n) /\ \A i \in 0 .. Last(n) : IsUnit(e, i) <=> (i = 0 \/ i % 2 = 1)
  BY InitialIsElements
<1>3. \A i \in 0 .. Last(n) : 2 * BallotCount(e, i) <= i
  BY InitialCounts
<1> HIDE DEF e, x
<1>4. DOMAIN e = 0 .. Last(n) /\ Last(n) \in Nat /\ Size(e) = Last(n) + 1
  BY <1>2, ElementsSize
<1>5. Balloted(e)
  <2>1. /\ fill_ballot_count(e) = [i \in 0 .. Last(n) |-> BallotCount(e, i)]
        /\ \A i \in 0 .. Last(n) : BallotCount(e, i) \in Nat
    BY <1>2, BallotCounts
  <2> SUFFICES ASSUME NEW i \in 0 .. Last(n) PROVE 2 * BallotCount(e, i) < i + 1
    BY <1>4, <2>1 DEF Balloted
  <2>2. 2 * BallotCount(e, i) <= i /\ BallotCount(e, i) \in Nat /\ i \in Nat
    BY <1>3, <1>4, <2>1
  <2> QED
    BY <2>2
<1>6. Normalized(e)
  <2> SUFFICES ASSUME NEW i \in 0 .. Last(n) - 1, ~IsUnit(e, i)
               PROVE  e[i] # e[i + 1]
    BY <1>4 DEF Normalized
  <2>1. i \in 0 .. Last(n) /\ i + 1 \in 0 .. Last(n) /\ i \in Nat
    BY <1>4
  <2>2. i % 2 # 1
    BY <1>2, <2>1
  <2>3. (i + 1) % 2 = 1
    BY <2>1, <2>2
  <2>4. IsUnit(e, i + 1)
    BY <1>2, <2>1, <2>3
  <2>5. e[i] \in Cuts /\ e[i + 1] \in Nat
    BY <1>2, <2>1, <2>4, ElementsSize
  <2> QED
    BY <2>5 DEF Cuts, CUT_VERTICAL, CUT_HORIZONTAL
<1>7. x.elements = e
  BY <1>1 DEF Scanned, Expression
<1>8. Polish(x, n)
  BY <1>1, <1>2, <1>5, <1>6, <1>7, Zenon DEF Polish
<1> QED
  BY <1>8 DEF x

LEMMA MoveIsPolish ==
  ASSUME NEW n \in Nat, n >= 1, NEW x, Polish(x, n), NEW y \in make_random_move(x)
  PROVE  Polish(y, n)
<1>1. CASE y \in {NPE_swap_units(x, x.unit_pos[i]) : i \in DOMAIN x.unit_pos \ {Cardinality(DOMAIN x.unit_pos) - 1}}
  BY <1>1, SwapUnitsKeeps
<1>2. CASE y \in {NPE_invert_chain(x, x.chain_pos[i]) : i \in DOMAIN x.chain_pos}
  BY <1>2, InvertChainKeeps
<1>3. CASE y \in {NPE_swap_cut_unit(x, p) :
                    p \in {x.flip_pos[i] : i \in {k \in DOMAIN x.flip_pos :
                             ~swapFatal(x, x.flip_pos[k]) /\ swapLegal(x, x.flip_pos[k])}}}
  <2>1. PICK k \in DOMAIN x.flip_pos : swapLegal(x, x.flip_pos[k]) /\ y = NPE_swap_cut_unit(x, x.flip_pos[k])
    BY <1>3
  <2> QED
    BY <2>1, SwapCutUnitKeeps
<1> QED
  BY <1>1, <1>2, <1>3 DEF make_random_move

(***************************************************************************)
(* The annealing                                                           *)
(***************************************************************************)

\* Every expression at hand is well formed in the inductive sense.
PolishInv == \A x \in Exprs : Polish(x, NCore)

LEMMA CoreUnits == NCore \in Nat /\ NCore >= 1
BY SizeAssumption DEF MAX_STACK

LEMMA PolishInitially == FlpInit => PolishInv
<1>1. FlpInit => expr = NPE_get_initial(NCore) /\ next = expr /\ best = expr
  BY DEF FlpInit
<1> QED
  BY <1>1, CoreUnits, InitialIsPolish DEF PolishInv, Exprs

\* An expression of the next state is one of this state or a move away from expr.
LEMMA ExpressionsMove ==
  ASSUME [FlpNext]_flp_vars
  PROVE  Exprs' \subseteq Exprs \cup make_random_move(expr)
<1>1. CASE begin \/ giveUp \/ cool \/ selectBest \/ UNCHANGED flp_vars
  <2>1. UNCHANGED <<expr, next, best>>
    BY <1>1 DEF begin, giveUp, cool, selectBest, flp_vars
  <2> QED
    BY <2>1 DEF Exprs
<1>2. CASE firstCost
  <2>1. UNCHANGED <<expr, next>> /\ best' = expr
    BY <1>2 DEF firstCost
  <2> QED
    BY <2>1 DEF Exprs
<1>3. CASE tryMove
  <2>1. UNCHANGED <<expr, best>> /\ next' \in make_random_move(expr)
    BY <1>3 DEF tryMove
  <2> QED
    BY <2>1 DEF Exprs
<1>4. CASE decide
  <2>1. next' = expr' /\ expr' \in {next, expr} /\ best' \in {next, best}
    BY <1>4 DEF decide, accept, reject
  <2> QED
    BY <2>1 DEF Exprs
<1> QED
  BY <1>1, <1>2, <1>3, <1>4 DEF FlpNext

LEMMA PolishStep ==
  ASSUME PolishInv, [FlpNext]_flp_vars
  PROVE  PolishInv'
<1>1. \A x \in Exprs \cup make_random_move(expr) : Polish(x, NCore)
  <2>1. Polish(expr, NCore)
    BY DEF PolishInv, Exprs
  <2> QED
    BY <2>1, CoreUnits, MoveIsPolish DEF PolishInv
<1> QED
  BY <1>1, ExpressionsMove DEF PolishInv

\* PolishNormalized: however the moves of the annealing follow one another and whichever
\* are accepted (make_random_move of npe.cc, floorplan() of flp.cc), every expression is
\* a permutation of the core units with one cut less, balloted and normalized, its
\* piecemeal updated positions and counts are those a scan finds, and none of its M3
\* moves ends the program: for any number of units, shapes, costs and configurations.
THEOREM ExpressionsStayNormalized == FlpSpec => []PolishNormalized
<1>1. PolishInv => PolishNormalized
  BY CoreUnits, PolishWellFormed DEF PolishInv, PolishNormalized
<1> QED
  BY <1>1, PolishInitially, PolishStep, PTL DEF FlpSpec

(***************************************************************************)
(* The strips of the rim                                                   *)
(***************************************************************************)

Concats(s, G, m) == s = [k \in 0 .. m |-> IF k = 0 THEN <<>> ELSE s[k - 1] \o G[k]]

\* The concatenations of the first 0, 1, ..., m sequences exist.
LEMMA ConcatsExist ==
  ASSUME NEW V, NEW n \in Nat, NEW G \in [1 .. n -> Seq(V)]
  PROVE  \E s \in [0 .. n -> Seq(V)] : Concats(s, G, n)
<1> DEFINE T == {m \in 0 .. n : \E s \in [0 .. m -> Seq(V)] : Concats(s, G, m)}
<1>1. 0 \in T
  <2> DEFINE s == [k \in 0 .. 0 |-> <<>>]
  <2>1. <<>> \in Seq(V)
    OBVIOUS
  <2>2. s \in [0 .. 0 -> Seq(V)] /\ \A k \in 0 .. 0 : k = 0
    BY <2>1
  <2>3. Concats(s, G, 0)
    BY <2>2 DEF Concats
  <2> HIDE DEF s
  <2> QED
    BY <2>2, <2>3
<1>2. ASSUME NEW m \in 0 .. n - 1, m \in T
      PROVE  m + 1 \in T
  <2>1. PICK s \in [0 .. m -> Seq(V)] : Concats(s, G, m)
    BY <1>2
  <2> DEFINE r == [k \in 0 .. m + 1 |-> IF k = m + 1 THEN s[m] \o G[m + 1] ELSE s[k]]
  <2>2. s[m] \in Seq(V) /\ G[m + 1] \in Seq(V)
    BY <2>1
  <2>3. s[m] \o G[m + 1] \in Seq(V)
    BY <2>2
  <2>4. \A k \in 0 .. m + 1 : k # m + 1 => k \in 0 .. m
    OBVIOUS
  <2>5. r \in [0 .. m + 1 -> Seq(V)]
    BY <2>1, <2>3, <2>4
  <2>6. \A k \in 0 .. m : s[k] = IF k = 0 THEN <<>> ELSE s[k - 1] \o G[k]
    BY <2>1 DEF Concats
  <2>7. ASSUME NEW k \in 0 .. m + 1
        PROVE  r[k] = IF k = 0 THEN <<>> ELSE r[k - 1] \o G[k]
    <3>1. CASE k = m + 1
      <4>1. k # 0 /\ k - 1 = m /\ m # m + 1 /\ m \in 0 .. m + 1
        BY <3>1
      <4>2. r[m] = s[m] /\ r[k] = s[m] \o G[m + 1]
        BY <3>1, <4>1
      <4> QED
        BY <3>1, <4>1, <4>2
    <3>2. CASE k # m + 1
      <4>1. k \in 0 .. m /\ (k # 0 => k - 1 \in 0 .. m /\ k - 1 \in 0 .. m + 1 /\ k - 1 # m + 1)
        BY <3>2
      <4>2. r[k] = s[k] /\ (k # 0 => r[k - 1] = s[k - 1])
        BY <3>2, <4>1
      <4> QED
        BY <2>6, <4>1, <4>2
    <3> QED
      BY <3>1, <3>2
  <2>8. r = [k \in 0 .. m + 1 |-> r[k]]
    OBVIOUS
  <2> HIDE DEF r
  <2>9. Concats(r, G, m + 1)
    BY <2>7, <2>8 DEF Concats
  <2>10. m + 1 \in 0 .. n
    OBVIOUS
  <2> QED
    BY <2>5, <2>9, <2>10
<1> HIDE DEF T
<1>3. 0 .. n \subseteq T
  BY <1>1, <1>2, InductionUpTo
<1> QED
  BY <1>3 DEF T

\* Whatever exists is what the CHOOSE of a recursive definition takes.
LEMMA ConcatsAgree ==
  ASSUME NEW V, NEW n \in Nat, NEW G \in [1 .. n -> Seq(V)], NEW s, Concats(s, G, n)
  PROVE  \A k \in 0 .. n : s[k] \in Seq(V)
<1> DEFINE T == {k \in 0 .. n : s[k] \in Seq(V)}
<1>1. \A k \in 0 .. n : s[k] = IF k = 0 THEN <<>> ELSE s[k - 1] \o G[k]
  BY DEF Concats
<1>2. 0 \in T
  <2>1. 0 \in 0 .. n
    OBVIOUS
  <2>2. s[0] = <<>>
    BY <1>1, <2>1
  <2>3. <<>> \in Seq(V)
    OBVIOUS
  <2> QED
    BY <2>1, <2>2, <2>3
<1>3. ASSUME NEW k \in 0 .. n - 1, k \in T
      PROVE  k + 1 \in T
  <2>1. k + 1 \in 0 .. n /\ k + 1 # 0 /\ (k + 1) - 1 = k /\ k + 1 \in 1 .. n
    OBVIOUS
  <2>2. s[k + 1] = s[k] \o G[k + 1]
    BY <1>1, <2>1
  <2>3. s[k] \in Seq(V) /\ G[k + 1] \in Seq(V)
    BY <1>3, <2>1
  <2>4. s[k] \o G[k + 1] \in Seq(V)
    BY <2>3
  <2> QED
    BY <2>1, <2>2, <2>4
<1> HIDE DEF T
<1>4. 0 .. n \subseteq T
  BY <1>2, <1>3, InductionUpTo
<1> QED
  BY <1>4 DEF T

LEMMA StripsAreSequence ==
  ASSUME NEW u, NEW t, NEW width, NEW height
  PROVE  \E V : stripsOf(u, t, width, height) \in Seq(V)
<1> DEFINE more1(b) == IF b THEN t ELSE 0
           w == Rect(0, u.y, t, u.h + more1(u.y + u.h = height - t))
           e == Rect(u.x + u.w, u.y - more1(u.y = t), t, u.h + more1(u.y = t))
           h == Rect(u.x, u.y + u.h, u.w + more1(u.x + u.w = width - t), t)
           s == Rect(u.x - more1(u.x = t), 0, u.w + more1(u.x = t), t)
           V == {w, e, h, s}
           west == IF u.x = t THEN <<w>> ELSE <<>>
           east == IF u.x + u.w = width - t THEN <<e>> ELSE <<>>
           north == IF u.y + u.h = height - t THEN <<h>> ELSE <<>>
           south == IF u.y = t THEN <<s>> ELSE <<>>
<1>1. stripsOf(u, t, width, height) = west \o east \o north \o south
  BY DEF stripsOf
<1> HIDE DEF w, e, h, s
<1>2. west \in Seq(V) /\ east \in Seq(V) /\ north \in Seq(V) /\ south \in Seq(V)
  <2>1. <<>> \in Seq(V) /\ <<w>> \in Seq(V) /\ <<e>> \in Seq(V) /\ <<h>> \in Seq(V) /\ <<s>> \in Seq(V)
    OBVIOUS
  <2> HIDE DEF V
  <2> QED
    BY <2>1
<1> HIDE DEF V, west, east, north, south
<1>3. west \o east \in Seq(V)
  BY <1>2
<1>4. west \o east \o north \in Seq(V)
  BY <1>2, <1>3
<1>5. west \o east \o north \o south \in Seq(V)
  BY <1>2, <1>4
<1> QED
  BY <1>1, <1>5

LEMMA RimIsSequence ==
  ASSUME NEW moved, NEW n \in Nat, NEW t, NEW width, NEW height
  PROVE  Len(rimStrips(moved, n, t, width, height)) \in Nat
<1> DEFINE G == [k \in 1 .. n |-> stripsOf(moved[k - 1], t, width, height)]
           in(k) == CHOOSE V : G[k] \in Seq(V)
           V == UNION {in(k) : k \in 1 .. n}
           strips == CHOOSE s : s = [k \in 0 .. n |-> IF k = 0 THEN <<>>
                                       ELSE s[k - 1] \o stripsOf(moved[k - 1], t, width, height)]
<1>1. \A k \in 1 .. n : \E U : G[k] \in Seq(U)
  BY StripsAreSequence
<1>2. rimStrips(moved, n, t, width, height) = strips[n]
  BY DEF rimStrips
<1>3. ASSUME NEW s
      PROVE  s = [k \in 0 .. n |-> IF k = 0 THEN <<>>
                    ELSE s[k - 1] \o stripsOf(moved[k - 1], t, width, height)] <=> Concats(s, G, n)
  <2>1. \A k \in 0 .. n : k # 0 => stripsOf(moved[k - 1], t, width, height) = G[k]
    OBVIOUS
  <2> HIDE DEF G
  <2> QED
    BY <2>1 DEF Concats
<1>4. G = [k \in 1 .. n |-> G[k]]
  OBVIOUS
<1> HIDE DEF G
<1>5. \A k \in 1 .. n : G[k] \in Seq(in(k))
  BY <1>1
<1> HIDE DEF in
<1>6. \A k \in 1 .. n : in(k) \subseteq V
  OBVIOUS
<1> HIDE DEF V
<1>7. \A k \in 1 .. n : G[k] \in Seq(V)
  BY <1>5, <1>6
<1>8. G \in [1 .. n -> Seq(V)]
  BY <1>4, <1>7
<1>9. \E s : Concats(s, G, n)
  BY <1>8, ConcatsExist
<1>10. Concats(strips, G, n)
  BY <1>3, <1>9
<1> HIDE DEF strips
<1>11. strips[n] \in Seq(V)
  BY <1>8, <1>10, ConcatsAgree
<1> QED
  BY <1>2, <1>11

(***************************************************************************)
(* What a plan consists of                                                 *)
(***************************************************************************)

Plan(n, u, w) == [n_units |-> n, units |-> u, wires |-> w]

placesOf(e, ratio) == recursive_sizing(tree_from_NPE(e), ratio)
Kept(e, ratio) == {i \in DOMAIN e : ~IsUnit(e, i) /\ ~placesOf(e, ratio)[i].cut[1].compact}
Gone(e, ratio) == NCore - 1 - Cardinality(Kept(e, ratio))

\* Slots of the slicing tree's plan, and with the L2.
SizedN(e, ratio) == NCore + Cardinality(Kept(e, ratio))
SizedUnits(e, ratio) == slotUnits(tree_from_NPE(e), placesOf(e, ratio), NCore, Kept(e, ratio))

LEMMA TreePlan ==
  ASSUME NEW u, NEW w, NEW e, NEW ratio
  PROVE  tree_to_flp(Plan(SlicedUnits, u, w), e, ratio)
           = Plan(SizedN(e, ratio), SizedUnits(e, ratio), w)
<1> DEFINE f == Plan(SlicedUnits, u, w)
<1>1. f.n_units = SlicedUnits
  BY DEF Plan
<1>2. (f.n_units + 1) \div 2 = NCore
  BY <1>1, CoreUnits DEF SlicedUnits
<1> HIDE DEF f
<1>3. tree_to_flp(f, e, ratio)
        = fillSlots(f, tree_from_NPE(e), placesOf(e, ratio), NCore, Kept(e, ratio))
  BY <1>2 DEF tree_to_flp, sizeTree, placeTree, placesOf, Kept
<1>4. fillSlots(f, tree_from_NPE(e), placesOf(e, ratio), NCore, Kept(e, ratio))
        = Plan(SizedN(e, ratio), SizedUnits(e, ratio), w)
  <2>1. f.wires = w
    BY DEF f, Plan
  <2> QED
    BY <2>1 DEF fillSlots, SizedN, SizedUnits, Plan
<1> QED
  BY <1>3, <1>4 DEF f

\* There is one cut less than units, and a dead block at most for each cut.
LEMMA KeptBound ==
  ASSUME NEW e, Elements(e, NCore), NEW ratio
  PROVE  Cardinality(Kept(e, ratio)) \in 0 .. NCore - 1
<1> DEFINE U == UnitsAt(e)
           C == DOMAIN e \ U
           names == {e[i] : i \in U}
<1>1. DOMAIN e = 0 .. Last(NCore) /\ Last(NCore) \in Nat /\ Size(e) = Last(NCore) + 1
  BY CoreUnits, ElementsSize
<1>2. IsFiniteSet(U) /\ Cardinality(U) \in Nat
  BY CoreUnits, UnitsFinite
<1>3. IsFiniteSet(DOMAIN e) /\ Cardinality(DOMAIN e) = 2 * NCore - 1
  BY <1>1, CoreUnits, FS_Interval DEF Size, Last
<1>4. 0 .. NCore - 1 \subseteq names
  <2> SUFFICES ASSUME NEW v \in 0 .. NCore - 1 PROVE v \in names
    OBVIOUS
  <2>1. PICK i \in 0 .. Last(NCore) : e[i] = v
    BY DEF Elements
  <2>2. i \in U
    BY <1>1, <2>1 DEF UnitsAt, IsUnit
  <2> QED
    BY <2>1, <2>2
<1>5. Cardinality(U) >= NCore
  <2>1. IsFiniteSet(names) /\ Cardinality(names) <= Cardinality(U)
    <3> DEFINE g == [i \in U |-> e[i]]
    <3>1. names = {g[i] : i \in U}
      OBVIOUS
    <3>2. g \in [U -> names]
      OBVIOUS
    <3>3. \A v \in names : \E i \in U : g[i] = v
      OBVIOUS
    <3> HIDE DEF U, names, g
    <3>4. g \in Surjection(U, names)
      BY <3>2, <3>3 DEF Surjection
    <3> QED
      BY <1>2, <3>4, FS_Surjection
  <2>2. Cardinality(0 .. NCore - 1) <= Cardinality(names)
    <3> HIDE DEF names
    <3> QED
      BY <1>4, <2>1, FS_Subset
  <2>3. Cardinality(0 .. NCore - 1) = NCore
    <3>1. Cardinality(0 .. NCore - 1) = IF 0 > NCore - 1 THEN 0 ELSE (NCore - 1) - 0 + 1
      BY CoreUnits, FS_Interval
    <3> QED
      BY <3>1, CoreUnits
  <2>4. Cardinality(names) \in Nat
    BY <2>1, FS_CardinalityType
  <2> HIDE DEF U, names
  <2> QED
    BY <1>2, <2>1, <2>2, <2>3, <2>4, CoreUnits
<1>6. IsFiniteSet(C) /\ Cardinality(C) = Cardinality(DOMAIN e) - Cardinality(U)
  <2>1. (DOMAIN e) \cap U = U
    BY DEF UnitsAt
  <2> HIDE DEF U
  <2> QED
    BY <1>3, <2>1, FS_Difference
<1>7. Kept(e, ratio) \subseteq C
  BY DEF Kept, UnitsAt
<1> HIDE DEF C, U
<1>8. IsFiniteSet(Kept(e, ratio)) /\ Cardinality(Kept(e, ratio)) <= Cardinality(C)
  BY <1>6, <1>7, FS_Subset
<1>9. Cardinality(Kept(e, ratio)) \in Nat
  BY <1>8, FS_CardinalityType
<1> QED
  BY <1>2, <1>3, <1>5, <1>6, <1>8, <1>9, CoreUnits

LEMMA GoneBound ==
  ASSUME NEW e, Elements(e, NCore), NEW ratio
  PROVE  /\ Gone(e, ratio) \in 0 .. NCore - 1
         /\ SizedN(e, ratio) = SlicedUnits - Gone(e, ratio) /\ SizedN(e, ratio) \in NCore .. SlicedUnits
<1> DEFINE k == Cardinality(Kept(e, ratio))
<1>1. k \in 0 .. NCore - 1
  BY KeptBound
<1> HIDE DEF k
<1> QED
  BY <1>1, CoreUnits DEF Gone, SizedN, SlicedUnits, k

L2Slots(c) == IF c.wrap_l2 THEN L2_ARMS + 1 ELSE 0
L2N(c, e) == SizedN(e, c.compact_ratio) + L2Slots(c)
WrapL2(c, f) == IF c.wrap_l2 THEN flp_wrap_l2(f) ELSE f
L2Units(c, e) == WrapL2(c, Plan(SizedN(e, c.compact_ratio), SizedUnits(e, c.compact_ratio), {})).units
L2Wiring(c, w, s) == IF c.wrap_l2 THEN copy_l2_info(w, s) ELSE w

LEMMA L2Plan ==
  ASSUME NEW c \in FlpConfigs, NEW e, NEW w, SizedN(e, c.compact_ratio) \in Nat
  PROVE  WrapL2(c, Plan(SizedN(e, c.compact_ratio), SizedUnits(e, c.compact_ratio), w))
           = Plan(L2N(c, e), L2Units(c, e), L2Wiring(c, w, SizedN(e, c.compact_ratio)))
<1> DEFINE n == SizedN(e, c.compact_ratio)
           u == SizedUnits(e, c.compact_ratio)
           size == L2Size(get_total_width(u), get_total_height(u))
           v == appended(flp_translate(u, size[1], size[2]),
                         <<Rect(0, 0, 2 * size[1] + get_total_width(u), size[2]),
                           Rect(0, size[2], size[1], get_total_height(u)),
                           Rect(size[1] + get_total_width(u), size[2], size[1], get_total_height(u))>>)
<1>1. c.wrap_l2 \in BOOLEAN
  BY ConfigAssumption
<1> HIDE DEF n, u
<1>2. ASSUME NEW x
      PROVE  flp_wrap_l2(Plan(n, u, x)) = Plan(n + L2_ARMS + 1, v, copy_l2_info(x, n))
  <2> DEFINE f == Plan(n, u, x)
  <2>1. f.n_units = n /\ f.units = u /\ f.wires = x
    BY DEF Plan
  <2> HIDE DEF f
  <2>2. flp_wrap_l2(f) = placeL2(f, get_total_width(u), get_total_height(u), size[1], size[2])
    BY <2>1 DEF flp_wrap_l2
  <2>3. placeL2(f, get_total_width(u), get_total_height(u), size[1], size[2])
          = Plan(n + L2_ARMS + 1, v, copy_l2_info(x, n))
    BY <2>1 DEF placeL2, Plan
  <2> QED
    BY <2>2, <2>3 DEF f
<1> HIDE DEF v
<1>3. CASE c.wrap_l2
  <2>1. L2Units(c, e) = v
    <3> DEFINE q == Plan(n + L2_ARMS + 1, v, copy_l2_info({}, n))
    <3>1. flp_wrap_l2(Plan(n, u, {})) = q
      BY <1>2
    <3>2. q.units = v
      BY DEF Plan
    <3>3. L2Units(c, e) = flp_wrap_l2(Plan(n, u, {})).units
      BY <1>3 DEF L2Units, WrapL2, n, u
    <3> HIDE DEF q
    <3> QED
      BY <3>1, <3>2, <3>3
  <2>2. L2N(c, e) = n + L2_ARMS + 1
    BY <1>3 DEF L2N, L2Slots, L2_ARMS, n
  <2>3. L2Wiring(c, w, n) = copy_l2_info(w, n)
    BY <1>3 DEF L2Wiring
  <2>4. WrapL2(c, Plan(n, u, w)) = Plan(n + L2_ARMS + 1, v, copy_l2_info(w, n))
    BY <1>2, <1>3 DEF WrapL2
  <2> QED
    BY <2>1, <2>2, <2>3, <2>4 DEF n, u
<1>4. CASE ~c.wrap_l2
  <2>1. L2Units(c, e) = u
    BY <1>4 DEF L2Units, WrapL2, Plan, n, u
  <2>2. L2N(c, e) = n
    BY <1>4 DEF L2N, L2Slots, n
  <2>3. L2Wiring(c, w, n) = w
    BY <1>4 DEF L2Wiring
  <2>4. WrapL2(c, Plan(n, u, w)) = Plan(n, u, w)
    BY <1>4 DEF WrapL2
  <2> QED
    BY <2>1, <2>2, <2>3, <2>4 DEF n, u
<1> QED
  BY <1>1, <1>3, <1>4

RimStrips(c, e) ==
  rimStrips(flp_translate(L2Units(c, e), RimThickness, RimThickness), L2N(c, e), RimThickness,
            get_total_width(L2Units(c, e)) + 2 * RimThickness,
            get_total_height(L2Units(c, e)) + 2 * RimThickness)
RimN(c, e) == IF c.model_rim THEN Len(RimStrips(c, e)) ELSE 0
RimUnits(c, e) ==
  IF c.model_rim
    THEN appended(flp_translate(L2Units(c, e), RimThickness, RimThickness), RimStrips(c, e))
    ELSE L2Units(c, e)
Outside(w, n, m) == {x \in w : larger(x[1], x[2]) \notin n .. n + m - 1}
WrapRim(c, f) == IF c.model_rim THEN flp_wrap_rim(f, RimThickness) ELSE f

LEMMA RimPlan ==
  ASSUME NEW c \in FlpConfigs, NEW e, NEW w, L2N(c, e) \in Nat
  PROVE  /\ RimN(c, e) \in Nat
         /\ WrapRim(c, Plan(L2N(c, e), L2Units(c, e), w))
              = Plan(L2N(c, e) + RimN(c, e), RimUnits(c, e), Outside(w, L2N(c, e), RimN(c, e)))
<1> DEFINE n == L2N(c, e)
           u == L2Units(c, e)
           f == Plan(n, u, w)
           r == RimStrips(c, e)
<1>1. c.model_rim \in BOOLEAN
  BY ConfigAssumption
<1>2. Len(r) \in Nat
  BY RimIsSequence DEF RimStrips
<1>3. f.n_units = n /\ f.units = u /\ f.wires = w
  BY DEF Plan
<1>4. CASE c.model_rim
  <2>1. flp_wrap_rim(f, RimThickness) = appendStrips(f, flp_translate(u, RimThickness, RimThickness), r, n)
    <3> HIDE DEF f
    <3> QED
      BY <1>3 DEF flp_wrap_rim, placeStrips, RimStrips
  <2> HIDE DEF r, n, u, f
  <2>2. appendStrips(f, flp_translate(u, RimThickness, RimThickness), r, n)
          = Plan(n + Len(r), appended(flp_translate(u, RimThickness, RimThickness), r), Outside(w, n, Len(r)))
    BY <1>3 DEF appendStrips, Plan, Outside
  <2>3. RimN(c, e) = Len(r)
    BY <1>4 DEF RimN, r
  <2>4. RimUnits(c, e) = appended(flp_translate(u, RimThickness, RimThickness), r)
    BY <1>4 DEF RimUnits, r, u
  <2>5. WrapRim(c, f) = flp_wrap_rim(f, RimThickness)
    BY <1>4 DEF WrapRim
  <2>6. WrapRim(c, f) = Plan(n + RimN(c, e), RimUnits(c, e), Outside(w, n, RimN(c, e)))
    BY <2>1, <2>2, <2>3, <2>4, <2>5
  <2> QED
    BY <1>2, <2>3, <2>6 DEF f, n, u
<1>5. CASE ~c.model_rim
  <2>1. RimN(c, e) = 0 /\ RimUnits(c, e) = u
    BY <1>5 DEF RimN, RimUnits
  <2>2. Outside(w, n, 0) = w
    <3> HIDE DEF n
    <3>1. n .. n + 0 - 1 = {}
      BY DEF n
    <3> QED
      BY <3>1 DEF Outside
  <2>3. n + 0 = n
    OBVIOUS
  <2>4. WrapRim(c, f) = f
    BY <1>5 DEF WrapRim
  <2> HIDE DEF f, n, u
  <2>5. WrapRim(c, f) = Plan(n + RimN(c, e), RimUnits(c, e), Outside(w, n, RimN(c, e)))
    BY <2>1, <2>2, <2>3, <2>4 DEF f
  <2> QED
    BY <2>1, <2>5 DEF f, n, u
<1> QED
  BY <1>1, <1>4, <1>5

\* A plan made from the slots of the slicing tree, whatever they hold.
LEMMA PlanParts ==
  ASSUME NEW c \in FlpConfigs, NEW u, NEW w, NEW m, NEW dst, NEW src, NEW e, Elements(e, NCore)
  PROVE  LET g == Gone(e, c.compact_ratio)
             s == SizedN(e, c.compact_ratio)
         IN  /\ L2N(c, e) \in Nat /\ RimN(c, e) \in Nat
             /\ planFor(c, Plan(SlicedUnits, u, w), m, dst, src, e)
                  = [flp |-> Plan(L2N(c, e) + RimN(c, e), RimUnits(c, e),
                                  Outside(L2Wiring(c, w, s), L2N(c, e), RimN(c, e))),
                     compacted |-> g, rim_blocks |-> RimN(c, e),
                     power |-> trim_hotspot_vector(dst, src, nodes(m), s, g)]
<1> DEFINE ratio == c.compact_ratio
           g == Gone(e, ratio)
           s == SizedN(e, ratio)
           f == Plan(SlicedUnits, u, w)
           sized == Plan(s, SizedUnits(e, ratio), w)
           l2 == Plan(L2N(c, e), L2Units(c, e), L2Wiring(c, w, s))
           rim == Plan(L2N(c, e) + RimN(c, e), RimUnits(c, e), Outside(L2Wiring(c, w, s), L2N(c, e), RimN(c, e)))
           p == trim_hotspot_vector(dst, src, nodes(m), s, g)
<1>1. g \in 0 .. NCore - 1 /\ s \in NCore .. SlicedUnits /\ s \in Nat /\ s = SlicedUnits - g
  BY GoneBound, CoreUnits
<1>2. L2N(c, e) \in Nat
  BY <1>1 DEF L2N, L2Slots, L2_ARMS
<1>3. RimN(c, e) \in Nat
  BY <1>2, RimPlan
<1>4. tree_to_flp(f, e, ratio) = sized
  BY TreePlan
<1>5. f.n_units = SlicedUnits /\ sized.n_units = s
  BY DEF Plan
<1>6. WrapL2(c, sized) = l2
  BY <1>1, L2Plan
<1>7. WrapRim(c, l2) = rim
  BY <1>2, RimPlan
<1>8. rim.n_units = L2N(c, e) + RimN(c, e) /\ l2.n_units = L2N(c, e)
  BY DEF Plan
<1> HIDE DEF f, sized, l2, rim, ratio
<1>9. planFor(c, f, m, dst, src, e) = compaction(c, f, sized, m, dst, src)
  BY <1>4 DEF planFor, ratio
<1>10. (f.n_units - 1) \div 2 - (sized.n_units - (f.n_units + 1) \div 2) = g
  <2> DEFINE k == Cardinality(Kept(e, ratio))
  <2>1. k \in 0 .. NCore - 1
    BY KeptBound
  <2>2. (SlicedUnits - 1) \div 2 = NCore - 1 /\ (SlicedUnits + 1) \div 2 = NCore
    BY CoreUnits DEF SlicedUnits
  <2>3. s = NCore + k /\ g = NCore - 1 - k
    BY DEF SizedN, Gone
  <2> HIDE DEF k, s, g
  <2> QED
    BY <1>5, <2>1, <2>2, <2>3, CoreUnits
<1> HIDE DEF g, s
<1>11. compaction(c, f, sized, m, dst, src) = wrapped(c, sized, g, m, dst, src)
  BY <1>10 DEF compaction
<1>12. wrapped(c, sized, g, m, dst, src) = wrapRim(c, l2, g, p)
  BY <1>5, <1>6 DEF wrapped, WrapL2
<1> HIDE DEF p
<1>13. wrapRim(c, l2, g, p) = finished(rim, l2, g, p)
  BY <1>7 DEF wrapRim, WrapRim
<1>14. finished(rim, l2, g, p)
         = [flp |-> rim, compacted |-> g, rim_blocks |-> RimN(c, e), power |-> p]
  <2>1. rim.n_units - l2.n_units = RimN(c, e)
    BY <1>2, <1>3, <1>8
  <2> QED
    BY <2>1 DEF finished
<1>15. planFor(c, f, m, dst, src, e)
         = [flp |-> rim, compacted |-> g, rim_blocks |-> RimN(c, e), power |-> p]
  BY <1>9, <1>11, <1>12, <1>13, <1>14
<1> QED
  BY <1>2, <1>3, <1>15 DEF f, rim, g, s, p, ratio

(***************************************************************************)
(* The wires of the slots                                                  *)
(***************************************************************************)

CoreOf(w) == {t \in w : t[1] < NCore /\ t[2] < NCore}
CoreWires == CoreOf(DescWires)

\* The wires of the L2 whose base is slot s.
L2From(s) == {<<s + c, t[2], t[3]>> : c \in 0 .. L2_ARMS, t \in {w \in DescWires : w[1] = NCore /\ w[2] < NCore}}
L2To(s) == {<<t[1], s + c, t[3]>> : c \in 0 .. L2_ARMS, t \in {w \in DescWires : w[2] = NCore /\ w[1] < NCore}}
L2Wires(s) == L2From(s) \cup L2To(s)

\* A wire has an end in the core.
Ended(w) == \A t \in w : t[1] \in Nat /\ t[2] \in Nat /\ (t[1] < NCore \/ t[2] < NCore)
HalfReady(c, w) == Ended(w) /\ CoreOf(w) = CoreWires /\ (~c.wrap_l2 => w = CoreWires)
DeadSlots == NCore .. 2 * NCore - 2
NoDeadWires(w) == \A t \in w : t[1] \notin DeadSlots /\ t[2] \notin DeadSlots
Ready(c, w) == HalfReady(c, w) /\ NoDeadWires(w)
InUse(w, n) == {t \in w : t[1] < n /\ t[2] < n}
WiresOfSlots(c, s) == CoreWires \cup (IF c.wrap_l2 THEN L2Wires(s) ELSE {})

LEMMA CoreWiresEnd ==
  /\ CoreOf(CoreWires) = CoreWires
  /\ Ended(CoreWires)
  /\ \A t \in CoreWires : t[1] \in 0 .. NCore - 1 /\ t[2] \in 0 .. NCore - 1
<1>1. \A t \in CoreWires : t[1] \in 0 .. NCore - 1 /\ t[2] \in 0 .. NCore - 1
  BY WireAssumption, CoreUnits DEF CoreWires, CoreOf
<1>2. CoreOf(CoreWires) = CoreWires
  BY DEF CoreWires, CoreOf
<1> QED
  BY <1>1, <1>2, CoreUnits DEF Ended

LEMMA L2WiresEnd ==
  ASSUME NEW s \in Nat, NEW t \in L2Wires(s)
  PROVE  \/ t[1] \in s .. s + L2_ARMS /\ t[2] \in 0 .. NCore - 1
         \/ t[2] \in s .. s + L2_ARMS /\ t[1] \in 0 .. NCore - 1
<1>1. CASE t \in L2From(s)
  <2>1. PICK k \in 0 .. L2_ARMS, x \in {w \in DescWires : w[1] = NCore /\ w[2] < NCore} :
          t = <<s + k, x[2], x[3]>>
    BY <1>1 DEF L2From
  <2>2. x[2] \in 0 .. NCore - 1
    BY WireAssumption, CoreUnits
  <2>3. t[1] = s + k /\ t[2] = x[2]
    BY <2>1
  <2>4. s + k \in s .. s + L2_ARMS
    BY DEF L2_ARMS
  <2> QED
    BY <2>2, <2>3, <2>4
<1>2. CASE t \in L2To(s)
  <2>1. PICK k \in 0 .. L2_ARMS, x \in {w \in DescWires : w[2] = NCore /\ w[1] < NCore} :
          t = <<x[1], s + k, x[3]>>
    BY <1>2 DEF L2To
  <2>2. x[1] \in 0 .. NCore - 1
    BY WireAssumption, CoreUnits
  <2>3. t[2] = s + k /\ t[1] = x[1]
    BY <2>1
  <2>4. s + k \in s .. s + L2_ARMS
    BY DEF L2_ARMS
  <2> QED
    BY <2>2, <2>3, <2>4
<1> QED
  BY <1>1, <1>2 DEF L2Wires

\* What copy_l2_info leaves and what it adds.
LEMMA CopyParts ==
  ASSUME NEW w, NEW s, NEW t
  PROVE  /\ t \in copy_l2_info(w, s) => t \in L2Wires(s) \/ t \in w
         /\ t \in L2Wires(s) => t \in copy_l2_info(w, s)
         /\ t \in copy_l2_info(w, s) /\ t \notin L2Wires(s) =>
              /\ ~(t[1] \in s .. s + L2_ARMS /\ t[2] < NCore)
              /\ ~(t[2] \in s .. s + L2_ARMS /\ t[1] < NCore)
         /\ t \in w /\ ~(t[1] \in s .. s + L2_ARMS /\ t[2] < NCore)
                    /\ ~(t[2] \in s .. s + L2_ARMS /\ t[1] < NCore) => t \in copy_l2_info(w, s)
<1> DEFINE kept == {x \in w : ~ \/ x[1] \in s .. s + L2_ARMS /\ x[2] < NCore
                                \/ x[2] \in s .. s + L2_ARMS /\ x[1] < NCore}
<1>1. copy_l2_info(w, s) = kept \cup L2From(s) \cup L2To(s)
  BY DEF copy_l2_info, L2From, L2To
<1>2. t \in copy_l2_info(w, s) <=> t \in kept \/ t \in L2Wires(s)
  BY <1>1 DEF L2Wires
<1> QED
  BY <1>2

LEMMA CopyReady ==
  ASSUME NEW c \in FlpConfigs, c.wrap_l2, NEW w, HalfReady(c, w), NEW s \in NCore .. SlicedUnits
  PROVE  /\ HalfReady(c, copy_l2_info(w, s))
         /\ \A t \in copy_l2_info(w, s) :
              t[1] \in s .. s + L2_ARMS \/ t[2] \in s .. s + L2_ARMS => t \in L2Wires(s)
<1> DEFINE x == copy_l2_info(w, s)
<1>0. s \in Nat /\ s >= NCore /\ NCore \in Nat
  BY CoreUnits DEF SlicedUnits
<1>1. Ended(w) /\ CoreOf(w) = CoreWires
  BY DEF HalfReady
<1>2. Ended(x)
  <2> SUFFICES ASSUME NEW t \in x
               PROVE  t[1] \in Nat /\ t[2] \in Nat /\ (t[1] < NCore \/ t[2] < NCore)
    BY DEF Ended
  <2>1. CASE t \in L2Wires(s)
    <3>1. \/ t[1] \in s .. s + L2_ARMS /\ t[2] \in 0 .. NCore - 1
          \/ t[2] \in s .. s + L2_ARMS /\ t[1] \in 0 .. NCore - 1
      BY <1>0, <2>1, L2WiresEnd
    <3> QED
      BY <1>0, <3>1 DEF L2_ARMS
  <2>2. CASE t \in w
    BY <1>1, <2>2 DEF Ended
  <2> QED
    BY <2>1, <2>2, CopyParts
<1>3. ASSUME NEW t
      PROVE  t \in CoreOf(x) <=> t \in CoreOf(w)
  <2>1. ASSUME t \in CoreOf(x) PROVE t \in w /\ t[1] < NCore /\ t[2] < NCore
    <3>1. t \in x /\ t[1] < NCore /\ t[2] < NCore
      BY <2>1 DEF CoreOf
    <3>2. t \notin L2Wires(s)
      <4> SUFFICES ASSUME t \in L2Wires(s) PROVE FALSE
        OBVIOUS
      <4>1. \/ t[1] \in s .. s + L2_ARMS /\ t[2] \in 0 .. NCore - 1
            \/ t[2] \in s .. s + L2_ARMS /\ t[1] \in 0 .. NCore - 1
        BY <1>0, L2WiresEnd
      <4> QED
        BY <1>0, <3>1, <4>1 DEF L2_ARMS
    <3> QED
      BY <3>1, <3>2, CopyParts
  <2>2. ASSUME t \in CoreOf(w) PROVE t \in x /\ t[1] < NCore /\ t[2] < NCore
    <3>1. t \in w /\ t[1] < NCore /\ t[2] < NCore
      BY <2>2 DEF CoreOf
    <3>2. t[1] \in Nat /\ t[2] \in Nat
      BY <1>1, <3>1 DEF Ended
    <3>3. t[1] \notin s .. s + L2_ARMS /\ t[2] \notin s .. s + L2_ARMS
      BY <1>0, <3>1, <3>2 DEF L2_ARMS
    <3> QED
      BY <3>1, <3>3, CopyParts
  <2> QED
    BY <2>1, <2>2 DEF CoreOf
<1>4. ASSUME NEW t \in x, t[1] \in s .. s + L2_ARMS \/ t[2] \in s .. s + L2_ARMS
      PROVE  t \in L2Wires(s)
  <2>1. t[1] \in Nat /\ t[2] \in Nat /\ (t[1] < NCore \/ t[2] < NCore)
    BY <1>2 DEF Ended
  <2> SUFFICES ASSUME t \notin L2Wires(s) PROVE FALSE
    OBVIOUS
  <2>2. /\ ~(t[1] \in s .. s + L2_ARMS /\ t[2] < NCore)
        /\ ~(t[2] \in s .. s + L2_ARMS /\ t[1] < NCore)
    BY CopyParts
  <2> QED
    BY <1>0, <1>4, <2>1, <2>2 DEF L2_ARMS
<1> HIDE DEF x
<1>5. CoreOf(x) = CoreWires
  BY <1>1, <1>3
<1>6. HalfReady(c, x)
  BY <1>2, <1>5 DEF HalfReady
<1> QED
  BY <1>4, <1>6 DEF x

\* The wires in use in a plan are those of its blocks, whatever wires other plans left.
LEMMA PlanWires ==
  ASSUME NEW c \in FlpConfigs, NEW w, Ready(c, w), NEW s \in NCore .. SlicedUnits, NEW m \in Nat
  PROVE  LET n == s + L2Slots(c)
             x == Outside(L2Wiring(c, w, s), n, m)
         IN  HalfReady(c, x) /\ InUse(x, n + m) = WiresOfSlots(c, s)
<1> DEFINE n == s + L2Slots(c)
           y == L2Wiring(c, w, s)
           x == Outside(y, n, m)
<1>0. s \in Nat /\ s >= NCore /\ NCore \in Nat /\ s <= 2 * NCore - 1
  BY CoreUnits DEF SlicedUnits
<1>1. c.wrap_l2 \in BOOLEAN
  BY ConfigAssumption
<1>2. n \in Nat /\ n >= NCore /\ n = IF c.wrap_l2 THEN s + 3 ELSE s
  BY <1>0, <1>1 DEF L2Slots, L2_ARMS
<1>3. HalfReady(c, w) /\ NoDeadWires(w)
  BY DEF Ready
<1>4. HalfReady(c, y)
  BY <1>1, <1>3, CopyReady DEF L2Wiring
<1>5. Ended(y) /\ CoreOf(y) = CoreWires
  BY <1>4 DEF HalfReady
<1> HIDE DEF n
<1>6. \A t \in x : t \in y /\ larger(t[1], t[2]) \notin n .. n + m - 1
  BY DEF Outside
<1>7. ASSUME NEW t \in y, larger(t[1], t[2]) \notin n .. n + m - 1
      PROVE  t \in x
  BY <1>7 DEF Outside
<1> HIDE DEF x, y
<1>8. ASSUME NEW t \in CoreWires
      PROVE  t \in x /\ t \in y /\ t[1] \in 0 .. NCore - 1 /\ t[2] \in 0 .. NCore - 1
  <2>1. t \in y /\ t[1] \in 0 .. NCore - 1 /\ t[2] \in 0 .. NCore - 1
    BY <1>5, CoreWiresEnd DEF CoreOf
  <2>2. larger(t[1], t[2]) \notin n .. n + m - 1
    BY <1>0, <1>2, <2>1 DEF larger
  <2> QED
    BY <1>7, <2>1, <2>2
<1>9. Ended(x)
  BY <1>5, <1>6 DEF Ended
<1>10. CoreOf(x) = CoreWires
  <2>1. CoreOf(x) \subseteq CoreWires
    BY <1>5, <1>6 DEF CoreOf
  <2>2. CoreWires \subseteq CoreOf(x)
    BY <1>0, <1>8 DEF CoreOf
  <2> QED
    BY <2>1, <2>2
<1>11. ~c.wrap_l2 => x = CoreWires
  <2> SUFFICES ASSUME ~c.wrap_l2 PROVE x = CoreWires
    OBVIOUS
  <2>1. y = CoreWires
    BY <1>4 DEF HalfReady
  <2> QED
    BY <1>6, <1>8, <2>1
<1>12. HalfReady(c, x)
  BY <1>9, <1>10, <1>11 DEF HalfReady
<1>13. ASSUME NEW t
       PROVE  t \in InUse(x, n + m) => t \in WiresOfSlots(c, s)
  <2> SUFFICES ASSUME t \in InUse(x, n + m), t \notin CoreWires
               PROVE  c.wrap_l2 /\ t \in L2Wires(s)
    BY DEF WiresOfSlots
  <2>1. t \in x /\ t[1] < n + m /\ t[2] < n + m
    BY DEF InUse
  <2>2. t \in y /\ larger(t[1], t[2]) \notin n .. n + m - 1
    BY <1>6, <2>1
  <2>3. t[1] \in Nat /\ t[2] \in Nat /\ (t[1] < NCore \/ t[2] < NCore)
    BY <1>5, <2>2 DEF Ended
  <2>4. ~(t[1] < NCore /\ t[2] < NCore)
    BY <1>5, <2>2 DEF CoreOf
  <2>5. t[1] < n /\ t[2] < n
    BY <1>0, <1>2, <2>1, <2>2, <2>3, <2>4 DEF larger
  <2>6. c.wrap_l2
    BY <1>1, <1>11, <2>1
  <2>7. y = copy_l2_info(w, s)
    BY <2>6 DEF y, L2Wiring
  <2>8. CASE t \in w /\ t \notin L2Wires(s)
    <3>1. t[1] \notin DeadSlots /\ t[2] \notin DeadSlots
      BY <1>3, <2>8 DEF NoDeadWires
    <3>2. t[1] \in s .. s + L2_ARMS \/ t[2] \in s .. s + L2_ARMS
      BY <1>0, <1>2, <2>3, <2>4, <2>5, <2>6, <3>1 DEF DeadSlots, L2_ARMS
    <3> QED
      BY <1>3, <2>2, <2>6, <2>7, <2>8, <3>2, CopyReady
  <2> QED
    BY <2>2, <2>6, <2>7, <2>8, CopyParts
<1>14. ASSUME NEW t \in WiresOfSlots(c, s)
       PROVE  t \in InUse(x, n + m)
  <2>1. CASE t \in CoreWires
    <3>1. t \in x /\ t[1] \in 0 .. NCore - 1 /\ t[2] \in 0 .. NCore - 1
      BY <1>8, <2>1
    <3> QED
      BY <1>0, <1>2, <3>1 DEF InUse
  <2>2. CASE c.wrap_l2 /\ t \in L2Wires(s)
    <3>1. t \in y
      BY <2>2, CopyParts DEF y, L2Wiring
    <3>2. \/ t[1] \in s .. s + L2_ARMS /\ t[2] \in 0 .. NCore - 1
          \/ t[2] \in s .. s + L2_ARMS /\ t[1] \in 0 .. NCore - 1
      BY <1>0, <2>2, L2WiresEnd
    <3>3. t[1] \in 0 .. n - 1 /\ t[2] \in 0 .. n - 1
      BY <1>0, <1>2, <2>2, <3>2 DEF L2_ARMS
    <3>4. larger(t[1], t[2]) \notin n .. n + m - 1 /\ t[1] < n + m /\ t[2] < n + m
      BY <1>2, <3>3 DEF larger
    <3>5. t \in x
      BY <1>7, <3>1, <3>4
    <3> QED
      BY <3>4, <3>5 DEF InUse
  <2> QED
    BY <2>1, <2>2 DEF WiresOfSlots
<1>15. InUse(x, n + m) = WiresOfSlots(c, s)
  BY <1>13, <1>14
<1> QED
  BY <1>12, <1>15 DEF x, y, n

DeadCleared(w, n) ==
  {x \in w : ~ \/ x[1] \in DeadSlots /\ x[2] < n
               \/ x[2] \in DeadSlots /\ x[1] < n}

\* The slots of the slicing tree are given back without the wires of dead blocks.
LEMMA RestoredReady ==
  ASSUME NEW c \in FlpConfigs, NEW w, HalfReady(c, w), NEW n \in Nat, n >= NCore
  PROVE  Ready(c, DeadCleared(w, n))
<1> DEFINE y == DeadCleared(w, n)
<1>0. ASSUME NEW t
      PROVE  t \in y <=> /\ t \in w
                         /\ ~(t[1] \in DeadSlots /\ t[2] < n)
                         /\ ~(t[2] \in DeadSlots /\ t[1] < n)
  BY DEF DeadCleared
<1> HIDE DEF y
<1>1. Ended(w) /\ CoreOf(w) = CoreWires /\ (~c.wrap_l2 => w = CoreWires)
  BY DEF HalfReady
<1>2. Ended(y)
  BY <1>0, <1>1 DEF Ended
<1>3. NoDeadWires(y)
  <2> SUFFICES ASSUME NEW t \in y
               PROVE  t[1] \notin DeadSlots /\ t[2] \notin DeadSlots
    BY DEF NoDeadWires
  <2>1. t[1] \in Nat /\ t[2] \in Nat /\ (t[1] < NCore \/ t[2] < NCore)
    BY <1>2 DEF Ended
  <2>2. ~(t[1] \in DeadSlots /\ t[2] < n) /\ ~(t[2] \in DeadSlots /\ t[1] < n)
    BY <1>0
  <2> QED
    BY <2>1, <2>2, CoreUnits DEF DeadSlots
<1>4. CoreWires \subseteq y
  <2> SUFFICES ASSUME NEW t \in CoreWires
               PROVE  t \in y
    OBVIOUS
  <2>1. t \in w
    BY <1>1 DEF CoreOf
  <2>2. t[1] \in 0 .. NCore - 1 /\ t[2] \in 0 .. NCore - 1
    BY CoreWiresEnd
  <2>3. t[1] \notin DeadSlots /\ t[2] \notin DeadSlots
    BY <2>2, CoreUnits DEF DeadSlots
  <2> QED
    BY <1>0, <2>1, <2>3
<1>5. y \subseteq w
  BY <1>0
<1>6. CoreOf(y) = CoreWires
  <2>1. CoreOf(y) \subseteq CoreOf(w)
    BY <1>5 DEF CoreOf
  <2>2. CoreWires \subseteq CoreOf(y)
    BY <1>4, CoreWiresEnd, CoreUnits DEF CoreOf
  <2> QED
    BY <1>1, <2>1, <2>2
<1>7. ~c.wrap_l2 => y = CoreWires
  BY <1>1, <1>4, <1>5
<1>8. Ready(c, y)
  BY <1>2, <1>3, <1>6, <1>7 DEF Ready, HalfReady
<1> QED
  BY <1>8 DEF y

(***************************************************************************)
(* The powers of the slots                                                 *)
(***************************************************************************)

SrcPower(c) == {t \in DescPower : t[1] < wrappedUnits(c)}
CorePower == {t \in DescPower : t[1] < NCore}
L2Power(c) == {t \in SrcPower(c) : t[1] >= SlicedUnits}
MovedDown(S, g) == {<<t[1] - g, t[2]>> : t \in S}
Trimmed(c, g) == CorePower \cup MovedDown(L2Power(c), g)

\* A slot of the core, of its dead blocks or of the L2.
MaxSlot == 2 * NCore - 1 + L2_ARMS
SmallSlots(p) == \A t \in p : t[1] \in 0 .. MaxSlot

LEMMA SrcPowerSlots ==
  ASSUME NEW c \in FlpConfigs
  PROVE  /\ SmallSlots(SrcPower(c))
         /\ \A t \in SrcPower(c) : t[1] \in 0 .. NCore - 1 \/ t[1] \in SlicedUnits .. MaxSlot
         /\ CorePower \subseteq SrcPower(c)
         /\ ~c.wrap_l2 => L2Power(c) = {}
         /\ c.wrap_l2 => L2Power(c) = {t \in DescPower : t[1] >= SlicedUnits}
<1>1. \A t \in DescPower : t[1] \in 0 .. NCore - 1 \/ t[1] \in SlicedUnits .. MaxSlot
  BY SlotPowerAssumption DEF SlicedUnits, MaxSlot
<1>2. c.wrap_l2 \in BOOLEAN
  BY ConfigAssumption
<1>3. wrappedUnits(c) = IF c.wrap_l2 THEN MaxSlot + 1 ELSE SlicedUnits
  BY <1>2, CoreUnits DEF wrappedUnits, MaxSlot, SlicedUnits, L2_ARMS
<1>4. SlicedUnits \in Nat /\ MaxSlot = SlicedUnits + 2 /\ NCore <= SlicedUnits /\ NCore \in Nat
  BY CoreUnits DEF MaxSlot, SlicedUnits, L2_ARMS
<1>5. CorePower \subseteq SrcPower(c)
  BY <1>1, <1>2, <1>3, <1>4 DEF CorePower, SrcPower
<1>6. ~c.wrap_l2 => L2Power(c) = {}
  BY <1>1, <1>3, <1>4 DEF L2Power, SrcPower
<1>7. c.wrap_l2 => L2Power(c) = {t \in DescPower : t[1] >= SlicedUnits}
  <2> SUFFICES ASSUME c.wrap_l2, NEW t \in DescPower, t[1] >= SlicedUnits
               PROVE  t[1] < wrappedUnits(c)
    BY DEF L2Power, SrcPower
  <2> QED
    BY <1>1, <1>3, <1>4
<1>8. SmallSlots(SrcPower(c))
  <2> SUFFICES ASSUME NEW t \in DescPower
               PROVE  t[1] \in 0 .. MaxSlot
    BY DEF SmallSlots, SrcPower
  <2> QED
    BY <1>1, <1>4
<1> QED
  BY <1>1, <1>5, <1>6, <1>7, <1>8 DEF SrcPower

\* Trimming the vector of the description moves the powers of the L2, and nothing
\* of an earlier plan's vector stays.
LEMMA TrimPlan ==
  ASSUME NEW c \in FlpConfigs, NEW dst, SmallSlots(dst), NEW m \in Nat, m >= NCore,
         NEW g \in 0 .. NCore - 1
  PROVE  trim_hotspot_vector(dst, SrcPower(c), nodes(m), SlicedUnits - g, g) = Trimmed(c, g)
<1> DEFINE n == nodes(m)
           at == SlicedUnits - g
           src == SrcPower(c)
           written == 0 .. smaller(at, n) - 1 \cup at .. n - 1 - g
           low == {t \in src : t[1] < at /\ t[1] < n}
           window == {u \in src : u[1] \in at + g .. n - 1}
           moved == {<<t[1] - g, t[2]>> : t \in window}
           stay == {t \in dst : t[1] \notin written}
<1>1. trim_hotspot_vector(dst, src, n, at, g) = low \cup moved \cup stay
  BY DEF trim_hotspot_vector
<1>2. NCore \in Nat /\ g \in Nat /\ SlicedUnits = 2 * NCore - 1 /\ MaxSlot = 2 * NCore + 1 /\ g <= NCore - 1
  BY CoreUnits DEF MaxSlot, SlicedUnits, L2_ARMS
<1>3. n \in Nat /\ n >= 4 * NCore + 12
  BY <1>2 DEF nodes, NL, EXTRA_NODES
<1>4. at \in Nat /\ at >= NCore /\ at <= SlicedUnits /\ at + g = SlicedUnits
  BY <1>2
<1> HIDE DEF n, at
<1>5. \A t \in src : t[1] \in 0 .. NCore - 1 \/ t[1] \in SlicedUnits .. MaxSlot
  BY SrcPowerSlots
<1>6. low = CorePower
  <2>1. low \subseteq CorePower
    BY <1>2, <1>4, <1>5 DEF CorePower, SrcPower
  <2>2. ASSUME NEW t \in CorePower PROVE t \in low
    <3>1. t \in src /\ t[1] < NCore
      BY SrcPowerSlots DEF CorePower
    <3>2. t[1] \in 0 .. NCore - 1
      BY <1>2, <1>5, <3>1
    <3> QED
      BY <1>2, <1>3, <1>4, <3>1, <3>2
  <2> QED
    BY <2>1, <2>2
<1>7. window = L2Power(c)
  <2>1. ASSUME NEW t \in src
        PROVE  t[1] \in at + g .. n - 1 <=> t[1] >= SlicedUnits
    BY <1>2, <1>3, <1>4, <1>5
  <2> QED
    BY <2>1 DEF L2Power
<1>8. stay = {}
  <2> SUFFICES ASSUME NEW t \in dst
               PROVE  t[1] \in written
    OBVIOUS
  <2>1. t[1] \in 0 .. MaxSlot
    BY DEF SmallSlots
  <2>2. smaller(at, n) = at
    BY <1>2, <1>3, <1>4 DEF smaller
  <2> QED
    BY <1>2, <1>3, <1>4, <2>1, <2>2
<1>9. moved = MovedDown(L2Power(c), g)
  BY <1>7 DEF MovedDown
<1> HIDE DEF low, moved, stay, window
<1> QED
  BY <1>1, <1>6, <1>8, <1>9 DEF Trimmed, n, at

\* The slots of a trimmed vector are those of the core and of the L2 of its plan.
LEMMA TrimmedSlots ==
  ASSUME NEW c \in FlpConfigs, NEW g \in 0 .. NCore - 1, NEW t \in Trimmed(c, g)
  PROVE  /\ t[1] \in 0 .. MaxSlot
         /\ t[1] < SlicedUnits - g + L2Slots(c)
<1>1. NCore \in Nat /\ g \in Nat /\ SlicedUnits = 2 * NCore - 1 /\ MaxSlot = 2 * NCore + 1 /\ g <= NCore - 1
  BY CoreUnits DEF MaxSlot, SlicedUnits, L2_ARMS
<1>2. L2Slots(c) = IF c.wrap_l2 THEN 3 ELSE 0
  BY DEF L2Slots, L2_ARMS
<1>3. c.wrap_l2 \in BOOLEAN
  BY ConfigAssumption
<1>4. CASE t \in CorePower
  <2>1. t[1] \in 0 .. NCore - 1
    BY <1>1, <1>4, SrcPowerSlots DEF CorePower
  <2> QED
    BY <1>1, <1>2, <1>3, <2>1
<1>5. CASE t \in MovedDown(L2Power(c), g)
  <2>1. PICK u \in L2Power(c) : t = <<u[1] - g, u[2]>>
    BY <1>5 DEF MovedDown
  <2>2. c.wrap_l2
    BY <1>3, <2>1, SrcPowerSlots
  <2>3. u \in SrcPower(c) /\ u[1] >= SlicedUnits
    BY DEF L2Power
  <2>4. u[1] \in SlicedUnits .. MaxSlot
    BY <1>1, <2>3, SrcPowerSlots
  <2>5. t[1] = u[1] - g
    BY <2>1
  <2> QED
    BY <1>1, <1>2, <2>2, <2>4, <2>5
<1> QED
  BY <1>4, <1>5 DEF Trimmed

(***************************************************************************)
(* The slots of the annealing                                              *)
(***************************************************************************)

\* The slots the slicing tree is given: nothing of a plan left but the core's.
Sliced(c, f) == f = Plan(SlicedUnits, f.units, f.wires) /\ Ready(c, f.wires)

PlanUnits(c, e) == L2N(c, e) + RimN(c, e)

\* f is the plan of e, with the wires of its blocks.
PlanOf(c, e, f) ==
  /\ f = Plan(PlanUnits(c, e), RimUnits(c, e), f.wires)
  /\ HalfReady(c, f.wires)
  /\ InUse(f.wires, PlanUnits(c, e)) = WiresOfSlots(c, SizedN(e, c.compact_ratio))

MadePlan(c, e, plan) ==
  /\ PlanOf(c, e, plan.flp)
  /\ plan.compacted = Gone(e, c.compact_ratio)
  /\ plan.rim_blocks = RimN(c, e)
  /\ plan.power = Trimmed(c, Gone(e, c.compact_ratio))
  /\ plan.flp.n_units \in Nat /\ plan.flp.n_units >= NCore
  /\ SmallSlots(plan.power)

LEMMA PlanMade ==
  ASSUME NEW c \in FlpConfigs, NEW f, Sliced(c, f), NEW m \in Nat, m >= NCore,
         NEW dst, SmallSlots(dst), NEW e, Elements(e, NCore)
  PROVE  MadePlan(c, e, planFor(c, f, m, dst, SrcPower(c), e))
<1> DEFINE g == Gone(e, c.compact_ratio)
           s == SizedN(e, c.compact_ratio)
           n == L2N(c, e)
           r == RimN(c, e)
           w == f.wires
           x == Outside(L2Wiring(c, w, s), n, r)
           new == Plan(n + r, RimUnits(c, e), x)
           p == trim_hotspot_vector(dst, SrcPower(c), nodes(m), s, g)
           plan == [flp |-> new, compacted |-> g, rim_blocks |-> r, power |-> p]
<1>1. f = Plan(SlicedUnits, f.units, w) /\ Ready(c, w)
  BY DEF Sliced
<1>2. /\ n \in Nat /\ r \in Nat
      /\ planFor(c, Plan(SlicedUnits, f.units, w), m, dst, SrcPower(c), e) = plan
  BY PlanParts
<1>3. planFor(c, f, m, dst, SrcPower(c), e) = plan
  <2> HIDE DEF plan, w
  <2> QED
    BY <1>1, <1>2
<1>4. g \in 0 .. NCore - 1 /\ s = SlicedUnits - g /\ s \in NCore .. SlicedUnits
  BY GoneBound
<1>5. n = s + L2Slots(c)
  BY DEF L2N
<1>6. /\ plan.flp = new /\ plan.compacted = g /\ plan.rim_blocks = r /\ plan.power = p
      /\ new.n_units = n + r /\ new.units = RimUnits(c, e) /\ new.wires = x
  BY DEF Plan
<1> HIDE DEF g, s, n, r, w
<1>7. HalfReady(c, x) /\ InUse(x, n + r) = WiresOfSlots(c, s)
  BY <1>1, <1>2, <1>4, <1>5, PlanWires
<1>8. p = Trimmed(c, g)
  BY <1>4, TrimPlan
<1>9. SmallSlots(Trimmed(c, g))
  BY <1>4, TrimmedSlots DEF SmallSlots
<1>10. n + r \in Nat /\ n + r >= NCore
  <2>1. L2Slots(c) \in {0, 3}
    BY DEF L2Slots, L2_ARMS
  <2> QED
    BY <1>2, <1>4, <1>5, <2>1, CoreUnits DEF SlicedUnits
<1> HIDE DEF x
<1>11. PlanOf(c, e, new)
  <2>1. new = Plan(PlanUnits(c, e), RimUnits(c, e), new.wires)
    BY <1>6 DEF PlanUnits, n, r
  <2>2. HalfReady(c, new.wires)
    BY <1>6, <1>7
  <2>3. InUse(new.wires, PlanUnits(c, e)) = WiresOfSlots(c, SizedN(e, c.compact_ratio))
    BY <1>6, <1>7 DEF PlanUnits, n, r, s
  <2> HIDE DEF new
  <2> QED
    BY <2>1, <2>2, <2>3 DEF PlanOf
<1> HIDE DEF new, p, plan
<1> QED
  BY <1>3, <1>6, <1>8, <1>9, <1>10, <1>11 DEF MadePlan, g, r

LEMMA RestoredSliced ==
  ASSUME NEW c \in FlpConfigs, NEW e, Elements(e, NCore), NEW f, PlanOf(c, e, f)
  PROVE  Sliced(c, restore_dead_blocks(c, f, Gone(e, c.compact_ratio), RimN(c, e)))
<1> DEFINE g == Gone(e, c.compact_ratio)
           s == SizedN(e, c.compact_ratio)
           r == RimN(c, e)
           n == f.n_units - (IF c.model_rim THEN r ELSE 0) - (IF c.wrap_l2 THEN L2_ARMS + 1 ELSE 0) + g
           u == [k \in 0 .. n - 1 |-> IF k < NCore THEN f.units[k] ELSE Rect(0, 0, 0, 0)]
           w == DeadCleared(f.wires, n)
<1>1. g \in 0 .. NCore - 1 /\ s = SlicedUnits - g /\ s \in NCore .. SlicedUnits
  BY GoneBound
<1>2. f = Plan(PlanUnits(c, e), RimUnits(c, e), f.wires) /\ HalfReady(c, f.wires)
  BY DEF PlanOf
<1>3. L2N(c, e) = s + L2Slots(c) /\ L2Slots(c) = (IF c.wrap_l2 THEN L2_ARMS + 1 ELSE 0)
  BY DEF L2N, L2Slots
<1>4. f.n_units = s + L2Slots(c) + r
  <2> DEFINE q == Plan(PlanUnits(c, e), RimUnits(c, e), f.wires)
  <2>1. q.n_units = PlanUnits(c, e)
    BY DEF Plan
  <2> HIDE DEF q
  <2> QED
    BY <1>2, <1>3, <2>1 DEF PlanUnits, q
<1>5. L2N(c, e) \in Nat
  BY <1>1, <1>3, CoreUnits DEF SlicedUnits, L2_ARMS
<1>6. r \in Nat
  BY <1>5, RimPlan
<1>7. ~c.model_rim => r = 0
  BY DEF RimN
<1>8. n = SlicedUnits
  <2>1. L2Slots(c) \in {0, 3}
    BY DEF L2Slots, L2_ARMS
  <2>2. c.model_rim \in BOOLEAN
    BY ConfigAssumption
  <2> HIDE DEF g, s, r
  <2> QED
    BY <1>1, <1>3, <1>4, <1>6, <1>7, <2>1, <2>2, CoreUnits DEF SlicedUnits
<1>9. restore_dead_blocks(c, f, g, r) = Plan(n, u, w)
  BY DEF restore_dead_blocks, Plan, DeadCleared, DeadSlots
<1>10. Ready(c, w)
  <2>1. SlicedUnits \in Nat /\ SlicedUnits >= NCore
    BY CoreUnits DEF SlicedUnits
  <2> HIDE DEF n
  <2> QED
    BY <1>2, <1>8, <2>1, RestoredReady
<1> DEFINE q == Plan(n, u, w)
<1>11. q.units = u /\ q.wires = w
  BY DEF Plan
<1>12. Sliced(c, q)
  <2> HIDE DEF n, u, w
  <2>1. q = Plan(SlicedUnits, q.units, q.wires)
    BY <1>8, <1>11
  <2> HIDE DEF q
  <2> QED
    BY <1>10, <1>11, <2>1 DEF Sliced
<1> HIDE DEF n, u, w, g, r
<1> QED
  BY <1>9, <1>12 DEF g, r

\* The wires of the placeholder are those of the core and of the L2.
LEMMA PlaceholderReady ==
  ASSUME NEW c \in FlpConfigs
  PROVE  /\ flp_placeholder(c).n_units = placeholderUnits(c)
         /\ Ready(c, flp_placeholder(c).wires)
<1> DEFINE w == IF c.wrap_l2 THEN copy_l2_info(CoreWires, SlicedUnits) ELSE CoreWires
           u == [k \in 0 .. placeholderUnits(c) - 1 |-> Rect(0, 0, 0, 0)]
<1>1. flp_placeholder(c) = Plan(placeholderUnits(c), u, w)
  BY DEF flp_placeholder, Plan, CoreWires, CoreOf
<1>2. flp_placeholder(c).n_units = placeholderUnits(c) /\ flp_placeholder(c).wires = w
  <2> DEFINE q == Plan(placeholderUnits(c), u, w)
  <2>1. q.n_units = placeholderUnits(c) /\ q.wires = w
    BY DEF Plan
  <2> HIDE DEF q
  <2> QED
    BY <1>1, <2>1 DEF q
<1>3. c.wrap_l2 \in BOOLEAN
  BY ConfigAssumption
<1>4. HalfReady(c, CoreWires)
  BY CoreWiresEnd DEF HalfReady
<1>5. NoDeadWires(CoreWires)
  BY CoreWiresEnd, CoreUnits DEF NoDeadWires, DeadSlots
<1>6. SlicedUnits \in NCore .. SlicedUnits /\ SlicedUnits \in Nat /\ SlicedUnits = 2 * NCore - 1
  BY CoreUnits DEF SlicedUnits
<1>7. CASE c.wrap_l2
  <2> DEFINE x == copy_l2_info(CoreWires, SlicedUnits)
  <2>1. HalfReady(c, x)
    BY <1>4, <1>6, <1>7, CopyReady
  <2>2. NoDeadWires(x)
    <3> SUFFICES ASSUME NEW t \in x
                 PROVE  t[1] \notin DeadSlots /\ t[2] \notin DeadSlots
      BY DEF NoDeadWires
    <3>1. t \in L2Wires(SlicedUnits) \/ t \in CoreWires
      BY CopyParts
    <3>2. CASE t \in L2Wires(SlicedUnits)
      <4>1. \/ t[1] \in SlicedUnits .. SlicedUnits + L2_ARMS /\ t[2] \in 0 .. NCore - 1
            \/ t[2] \in SlicedUnits .. SlicedUnits + L2_ARMS /\ t[1] \in 0 .. NCore - 1
        BY <1>6, <3>2, L2WiresEnd
      <4> QED
        BY <1>6, <4>1, CoreUnits DEF DeadSlots, L2_ARMS
    <3>3. CASE t \in CoreWires
      BY <1>5, <3>3 DEF NoDeadWires
    <3> QED
      BY <3>1, <3>2, <3>3
  <2> HIDE DEF x
  <2>3. Ready(c, x)
    BY <2>1, <2>2 DEF Ready
  <2> QED
    BY <1>2, <1>7, <2>3 DEF x
<1>8. CASE ~c.wrap_l2
  BY <1>2, <1>4, <1>5, <1>8 DEF Ready
<1> QED
  BY <1>2, <1>3, <1>7, <1>8

LEMMA WrappedUnits ==
  ASSUME NEW c \in FlpConfigs
  PROVE  /\ wrappedUnits(c) - (IF c.wrap_l2 THEN L2_ARMS + 1 ELSE 0) = SlicedUnits
         /\ wrappedUnits(c) \in Nat
         /\ placeholderUnits(c) \in Nat /\ placeholderUnits(c) >= NCore
         /\ (IF c.model_rim THEN (placeholderUnits(c) - 2) \div 3 ELSE placeholderUnits(c)) = wrappedUnits(c)
<1>1. c.wrap_l2 \in BOOLEAN /\ c.model_rim \in BOOLEAN
  BY ConfigAssumption
<1>2. SlicedUnits \in Nat /\ SlicedUnits >= NCore
  BY CoreUnits DEF SlicedUnits
<1>3. wrappedUnits(c) = SlicedUnits + (IF c.wrap_l2 THEN 3 ELSE 0)
  BY DEF wrappedUnits, L2_ARMS
<1>4. placeholderUnits(c) = wrappedUnits(c) + (IF c.model_rim THEN 2 * wrappedUnits(c) + 2 ELSE 0)
  BY DEF placeholderUnits
<1>5. wrappedUnits(c) \in Nat /\ wrappedUnits(c) >= NCore
  BY <1>1, <1>2, <1>3, CoreUnits
<1>6. c.model_rim => (placeholderUnits(c) - 2) \div 3 = wrappedUnits(c)
  <2> SUFFICES ASSUME c.model_rim PROVE (placeholderUnits(c) - 2) \div 3 = wrappedUnits(c)
    OBVIOUS
  <2>1. placeholderUnits(c) - 2 = 3 * wrappedUnits(c)
    BY <1>4, <1>5
  <2> QED
    BY <1>5, <2>1
<1>7. wrappedUnits(c) - (IF c.wrap_l2 THEN L2_ARMS + 1 ELSE 0) = SlicedUnits
  BY <1>1, <1>2, <1>3 DEF L2_ARMS
<1>8. placeholderUnits(c) \in Nat /\ placeholderUnits(c) >= NCore
  BY <1>1, <1>4, <1>5, CoreUnits
<1> QED
  BY <1>1, <1>4, <1>5, <1>6, <1>7, <1>8

\* At the start the rim and the L2 are hidden from the slicing tree.
LEMMA HiddenSliced ==
  ASSUME flp_cfg \in FlpConfigs, flp = flp_placeholder(flp_cfg)
  PROVE  Sliced(flp_cfg, hidden)
<1> DEFINE c == flp_cfg
           n == (IF c.model_rim THEN (flp.n_units - 2) \div 3 ELSE flp.n_units)
                  - (IF c.wrap_l2 THEN L2_ARMS + 1 ELSE 0)
           u == [k \in 0 .. n - 1 |-> flp.units[k]]
           w == flp.wires
<1>1. hidden = Plan(n, u, w)
  BY DEF hidden, Plan
<1>2. flp.n_units = placeholderUnits(c) /\ Ready(c, w)
  BY PlaceholderReady
<1>3. n = SlicedUnits
  BY <1>2, WrappedUnits
<1> DEFINE q == Plan(n, u, w)
<1>4. q.units = u /\ q.wires = w
  BY DEF Plan
<1> HIDE DEF n, u, w
<1>5. q = Plan(SlicedUnits, q.units, q.wires)
  BY <1>3, <1>4
<1> HIDE DEF q
<1>6. Sliced(c, q)
  BY <1>2, <1>4, <1>5 DEF Sliced
<1> QED
  BY <1>1, <1>6 DEF q

(***************************************************************************)
(* What the slots of a plan have                                           *)
(***************************************************************************)

L2At(c, g) == IF c.wrap_l2 THEN 2 * NCore - 1 - g .. 2 * NCore + 1 - g ELSE {}
UnitAt(c, g, k) == IF k < NCore THEN k ELSE IF k \in L2At(c, g) THEN NCore ELSE -1
L2PowerAt(c, g) ==
  {t \in L2At(c, g) \X {w[2] : w \in DescPower} : <<t[1] + g, t[2]>> \in DescPower}
WireOf(w, i, j) == {t[3] : t \in {x \in w : x[1] = i /\ x[2] = j}}

LEMMA L2PowerMoves ==
  ASSUME NEW c \in FlpConfigs, NEW g \in 0 .. NCore - 1
  PROVE  MovedDown(L2Power(c), g) = L2PowerAt(c, g)
<1>1. NCore \in Nat /\ g \in Nat /\ SlicedUnits = 2 * NCore - 1 /\ MaxSlot = 2 * NCore + 1 /\ g <= NCore - 1
  BY CoreUnits DEF MaxSlot, SlicedUnits, L2_ARMS
<1>2. c.wrap_l2 \in BOOLEAN
  BY ConfigAssumption
<1>3. ASSUME NEW t \in MovedDown(L2Power(c), g)
      PROVE  t \in L2PowerAt(c, g)
  <2>1. PICK u \in L2Power(c) : t = <<u[1] - g, u[2]>>
    BY <1>3 DEF MovedDown
  <2>2. c.wrap_l2
    BY <1>2, <2>1, SrcPowerSlots
  <2>3. u \in DescPower /\ u \in SrcPower(c) /\ u[1] >= SlicedUnits
    BY DEF L2Power, SrcPower
  <2>4. u[1] \in SlicedUnits .. MaxSlot
    BY <1>1, <2>3, SrcPowerSlots
  <2>5. u = <<u[1], u[2]>>
    BY <2>3, SlotPowerAssumption
  <2>6. t[1] = u[1] - g /\ t[2] = u[2] /\ t = <<t[1], t[2]>>
    BY <2>1
  <2>7. t[1] \in L2At(c, g) /\ t[1] + g = u[1]
    BY <1>1, <2>2, <2>4, <2>6 DEF L2At
  <2>8. <<t[1] + g, t[2]>> \in DescPower
    BY <2>3, <2>5, <2>6, <2>7
  <2>9. t \in L2At(c, g) \X {w[2] : w \in DescPower}
    BY <2>3, <2>6, <2>7
  <2> QED
    BY <2>8, <2>9 DEF L2PowerAt
<1>4. ASSUME NEW t \in L2PowerAt(c, g)
      PROVE  t \in MovedDown(L2Power(c), g)
  <2>1. t \in L2At(c, g) \X {w[2] : w \in DescPower} /\ <<t[1] + g, t[2]>> \in DescPower
    BY DEF L2PowerAt
  <2>2. t = <<t[1], t[2]>> /\ t[1] \in L2At(c, g)
    BY <2>1
  <2>3. c.wrap_l2 /\ t[1] \in 2 * NCore - 1 - g .. 2 * NCore + 1 - g
    BY <1>2, <2>2 DEF L2At
  <2> DEFINE u == <<t[1] + g, t[2]>>
  <2>4. u[1] = t[1] + g /\ u[2] = t[2] /\ u \in DescPower
    BY <2>1
  <2> HIDE DEF u
  <2>5. u[1] >= SlicedUnits /\ u[1] - g = t[1]
    BY <1>1, <2>3, <2>4
  <2>6. u \in L2Power(c)
    BY <2>3, <2>4, <2>5, SrcPowerSlots
  <2> QED
    BY <2>2, <2>4, <2>5, <2>6 DEF MovedDown
<1> QED
  BY <1>3, <1>4

LEMMA PlanPowers ==
  ASSUME NEW c \in FlpConfigs, NEW g \in 0 .. NCore - 1, NEW n \in Nat,
         n >= SlicedUnits - g + L2Slots(c)
  PROVE  {t \in Trimmed(c, g) : t[1] < n} = CorePower \cup L2PowerAt(c, g)
<1>1. ASSUME NEW t \in Trimmed(c, g)
      PROVE  t[1] < n
  <2>1. t[1] \in 0 .. MaxSlot /\ t[1] < SlicedUnits - g + L2Slots(c)
    BY TrimmedSlots
  <2>2. L2Slots(c) \in {0, 3}
    BY DEF L2Slots, L2_ARMS
  <2> QED
    BY <2>1, <2>2, CoreUnits DEF SlicedUnits
<1>2. Trimmed(c, g) = CorePower \cup L2PowerAt(c, g)
  BY L2PowerMoves DEF Trimmed
<1> QED
  BY <1>1, <1>2

\* The wires of the L2 between two slots.
LEMMA L2WireOf ==
  ASSUME NEW s \in NCore .. SlicedUnits, NEW i \in Nat, NEW j \in Nat, NEW d
  PROVE  d \in WireOf(L2Wires(s), i, j) <=>
           \/ i \in s .. s + L2_ARMS /\ j < NCore /\ d \in WireOf(DescWires, NCore, j)
           \/ j \in s .. s + L2_ARMS /\ i < NCore /\ d \in WireOf(DescWires, i, NCore)
<1>0. s \in Nat /\ s >= NCore /\ NCore \in Nat
  BY CoreUnits DEF SlicedUnits
<1> DEFINE from == {w \in DescWires : w[1] = NCore /\ w[2] < NCore}
           to == {w \in DescWires : w[2] = NCore /\ w[1] < NCore}
<1>1. ASSUME d \in WireOf(L2Wires(s), i, j)
      PROVE  \/ i \in s .. s + L2_ARMS /\ j < NCore /\ d \in WireOf(DescWires, NCore, j)
             \/ j \in s .. s + L2_ARMS /\ i < NCore /\ d \in WireOf(DescWires, i, NCore)
  <2>1. PICK t \in L2Wires(s) : t[1] = i /\ t[2] = j /\ d = t[3]
    BY <1>1 DEF WireOf
  <2>2. CASE t \in L2From(s)
    <3>1. PICK k \in 0 .. L2_ARMS, x \in from : t = <<s + k, x[2], x[3]>>
      BY <2>2 DEF L2From
    <3>2. i = s + k /\ j = x[2] /\ d = x[3]
      BY <2>1, <3>1
    <3>3. i \in s .. s + L2_ARMS
      BY <1>0, <3>2 DEF L2_ARMS
    <3>4. j < NCore /\ d \in WireOf(DescWires, NCore, j)
      BY <3>2 DEF WireOf
    <3> QED
      BY <3>3, <3>4
  <2>3. CASE t \in L2To(s)
    <3>1. PICK k \in 0 .. L2_ARMS, x \in to : t = <<x[1], s + k, x[3]>>
      BY <2>3 DEF L2To
    <3>2. j = s + k /\ i = x[1] /\ d = x[3]
      BY <2>1, <3>1
    <3>3. j \in s .. s + L2_ARMS
      BY <1>0, <3>2 DEF L2_ARMS
    <3>4. i < NCore /\ d \in WireOf(DescWires, i, NCore)
      BY <3>2 DEF WireOf
    <3> QED
      BY <3>3, <3>4
  <2> QED
    BY <2>2, <2>3 DEF L2Wires
<1>2. ASSUME i \in s .. s + L2_ARMS, j < NCore, d \in WireOf(DescWires, NCore, j)
      PROVE  d \in WireOf(L2Wires(s), i, j)
  <2>1. PICK x \in DescWires : x[1] = NCore /\ x[2] = j /\ d = x[3]
    BY <1>2 DEF WireOf
  <2>2. x \in from
    BY <1>2, <2>1
  <2> DEFINE k == i - s
             t == <<s + k, x[2], x[3]>>
  <2>3. k \in 0 .. L2_ARMS /\ s + k = i
    BY <1>0, <1>2 DEF L2_ARMS
  <2>4. t[1] = i /\ t[2] = j /\ t[3] = d
    BY <2>1, <2>3
  <2> HIDE DEF k
  <2>5. t \in L2From(s)
    BY <2>2, <2>3 DEF L2From
  <2> HIDE DEF t
  <2> QED
    BY <2>4, <2>5 DEF L2Wires, WireOf
<1>3. ASSUME j \in s .. s + L2_ARMS, i < NCore, d \in WireOf(DescWires, i, NCore)
      PROVE  d \in WireOf(L2Wires(s), i, j)
  <2>1. PICK x \in DescWires : x[2] = NCore /\ x[1] = i /\ d = x[3]
    BY <1>3 DEF WireOf
  <2>2. x \in to
    BY <1>3, <2>1
  <2> DEFINE k == j - s
             t == <<x[1], s + k, x[3]>>
  <2>3. k \in 0 .. L2_ARMS /\ s + k = j
    BY <1>0, <1>3 DEF L2_ARMS
  <2>4. t[1] = i /\ t[2] = j /\ t[3] = d
    BY <2>1, <2>3
  <2> HIDE DEF k
  <2>5. t \in L2To(s)
    BY <2>2, <2>3 DEF L2To
  <2> HIDE DEF t
  <2> QED
    BY <2>4, <2>5 DEF L2Wires, WireOf
<1> QED
  BY <1>1, <1>2, <1>3

LEMMA PlanWiresOf ==
  ASSUME NEW c \in FlpConfigs, NEW g \in 0 .. NCore - 1, NEW i \in Nat, NEW j \in Nat
  PROVE  WireOf(WiresOfSlots(c, SlicedUnits - g), i, j) =
           IF i \in L2At(c, g) /\ j \in L2At(c, g) THEN {}
           ELSE WireOf(DescWires, UnitAt(c, g, i), UnitAt(c, g, j))
<1> DEFINE s == SlicedUnits - g
           ends == WireOf(DescWires, UnitAt(c, g, i), UnitAt(c, g, j))
<1>1. c.wrap_l2 \in BOOLEAN
  BY ConfigAssumption
<1>2. s \in NCore .. SlicedUnits /\ s \in Nat /\ s = 2 * NCore - 1 - g /\ NCore \in Nat /\ s >= NCore
  BY CoreUnits DEF SlicedUnits
<1>3. L2At(c, g) = IF c.wrap_l2 THEN s .. s + L2_ARMS ELSE {}
  BY <1>2 DEF L2At, L2_ARMS
<1>4. ASSUME NEW d
      PROVE  d \in WireOf(WiresOfSlots(c, s), i, j) <=>
               \/ d \in WireOf(CoreWires, i, j)
               \/ c.wrap_l2 /\ d \in WireOf(L2Wires(s), i, j)
  BY DEF WireOf, WiresOfSlots
<1>5. ASSUME NEW d
      PROVE  d \in WireOf(CoreWires, i, j) <=> i < NCore /\ j < NCore /\ d \in WireOf(DescWires, i, j)
  BY DEF WireOf, CoreWires, CoreOf
<1>6. \A k \in Int : k \notin 0 .. NCore => WireOf(DescWires, k, UnitAt(c, g, j)) = {}
  BY WireAssumption DEF WireOf
<1>7. \A k \in Int : k \notin 0 .. NCore => WireOf(DescWires, UnitAt(c, g, i), k) = {}
  BY WireAssumption DEF WireOf
<1> HIDE DEF s
<1>8. -1 \in Int /\ -1 \notin 0 .. NCore
  OBVIOUS
<1>9. CASE i < NCore /\ j < NCore
  <2>1. UnitAt(c, g, i) = i /\ UnitAt(c, g, j) = j
    BY <1>9 DEF UnitAt
  <2>2. i \notin L2At(c, g) /\ j \notin L2At(c, g)
    BY <1>1, <1>2, <1>3, <1>9 DEF L2_ARMS
  <2>3. ASSUME NEW d PROVE ~(c.wrap_l2 /\ d \in WireOf(L2Wires(s), i, j))
    BY <1>2, <1>3, <2>2, L2WireOf
  <2> QED
    BY <1>4, <1>5, <1>9, <2>1, <2>2, <2>3 DEF s
<1>10. CASE i >= NCore /\ j < NCore
  <2>1. UnitAt(c, g, j) = j /\ j \notin L2At(c, g)
    BY <1>1, <1>2, <1>3, <1>10 DEF UnitAt, L2_ARMS
  <2>2. ~(i < NCore)
    BY <1>2, <1>10
  <2>3. CASE i \in L2At(c, g)
    <3>1. UnitAt(c, g, i) = NCore /\ c.wrap_l2 /\ i \in s .. s + L2_ARMS
      BY <1>1, <1>3, <2>2, <2>3 DEF UnitAt
    <3>2. ASSUME NEW d PROVE d \in WireOf(L2Wires(s), i, j) <=> d \in WireOf(DescWires, NCore, j)
      BY <1>2, <1>10, <2>2, <3>1, L2WireOf
    <3> QED
      BY <1>4, <1>5, <2>1, <2>2, <3>1, <3>2 DEF s
  <2>4. CASE i \notin L2At(c, g)
    <3>1. UnitAt(c, g, i) = -1
      BY <2>2, <2>4 DEF UnitAt
    <3>2. WireOf(DescWires, UnitAt(c, g, i), UnitAt(c, g, j)) = {}
      BY <1>6, <1>8, <3>1
    <3>3. ASSUME NEW d PROVE ~(c.wrap_l2 /\ d \in WireOf(L2Wires(s), i, j))
      BY <1>2, <1>3, <2>2, <2>4, L2WireOf
    <3>4. WireOf(WiresOfSlots(c, s), i, j) = {}
      BY <1>4, <1>5, <2>2, <3>3
    <3> QED
      BY <2>4, <3>2, <3>4 DEF s
  <2> QED
    BY <2>3, <2>4
<1>11. CASE i < NCore /\ j >= NCore
  <2>1. UnitAt(c, g, i) = i /\ i \notin L2At(c, g)
    BY <1>1, <1>2, <1>3, <1>11 DEF UnitAt, L2_ARMS
  <2>2. ~(j < NCore)
    BY <1>2, <1>11
  <2>3. CASE j \in L2At(c, g)
    <3>1. UnitAt(c, g, j) = NCore /\ c.wrap_l2 /\ j \in s .. s + L2_ARMS
      BY <1>1, <1>3, <2>2, <2>3 DEF UnitAt
    <3>2. ASSUME NEW d PROVE d \in WireOf(L2Wires(s), i, j) <=> d \in WireOf(DescWires, i, NCore)
      BY <1>2, <1>11, <2>2, <3>1, L2WireOf
    <3> QED
      BY <1>4, <1>5, <2>1, <2>2, <3>1, <3>2 DEF s
  <2>4. CASE j \notin L2At(c, g)
    <3>1. UnitAt(c, g, j) = -1
      BY <2>2, <2>4 DEF UnitAt
    <3>2. WireOf(DescWires, UnitAt(c, g, i), UnitAt(c, g, j)) = {}
      BY <1>7, <1>8, <3>1
    <3>3. ASSUME NEW d PROVE ~(c.wrap_l2 /\ d \in WireOf(L2Wires(s), i, j))
      BY <1>2, <1>3, <2>2, <2>4, L2WireOf
    <3>4. WireOf(WiresOfSlots(c, s), i, j) = {}
      BY <1>4, <1>5, <2>2, <3>3
    <3> QED
      BY <2>4, <3>2, <3>4 DEF s
  <2> QED
    BY <2>3, <2>4
<1>12. CASE i >= NCore /\ j >= NCore
  <2>1. ~(i < NCore) /\ ~(j < NCore)
    BY <1>2, <1>12
  <2>2. ASSUME NEW d PROVE ~(c.wrap_l2 /\ d \in WireOf(L2Wires(s), i, j))
    BY <1>2, <2>1, L2WireOf
  <2>3. WireOf(WiresOfSlots(c, s), i, j) = {}
    BY <1>4, <1>5, <2>1, <2>2
  <2>4. i \notin L2At(c, g) => UnitAt(c, g, i) = -1
    BY <2>1 DEF UnitAt
  <2>5. j \notin L2At(c, g) => UnitAt(c, g, j) = -1
    BY <2>1 DEF UnitAt
  <2>6. ~(i \in L2At(c, g) /\ j \in L2At(c, g)) => ends = {}
    BY <1>6, <1>7, <1>8, <2>4, <2>5
  <2> HIDE DEF ends
  <2> QED
    BY <2>3, <2>6 DEF s, ends
<1> QED
  BY <1>2, <1>9, <1>10, <1>11, <1>12

PlanAtHand(e, p) ==
  /\ PlanOf(flp_cfg, e, flp)
  /\ compacted = Gone(e, flp_cfg.compact_ratio)
  /\ rim_blocks = RimN(flp_cfg, e)
  /\ p = Trimmed(flp_cfg, compacted)

\* The cost of the plan of e alone.
PlanCost(c, e) ==
    lambdaA * get_total_area(RimUnits(c, e))
  + lambdaT * MaxTemp(RimUnits(c, e), Trimmed(c, Gone(e, c.compact_ratio)))
  + lambdaW * wireMetric(RimUnits(c, e), WiresOfSlots(c, SizedN(e, c.compact_ratio)))

\* Between two plans the slots are the slicing tree's; a plan at hand is the one of its
\* expression, with the powers and the wires of its blocks and nothing of another plan.
SlotInv ==
  /\ flp_cfg \in FlpConfigs
  /\ model_n_units \in Nat /\ model_n_units >= NCore
  /\ SmallSlots(tpower)
  /\ phase \notin {"done", "fatal"} => power = SrcPower(flp_cfg)
  /\ phase = "start" => flp = flp_placeholder(flp_cfg)
  /\ phase \in {"anneal", "final"} => Sliced(flp_cfg, flp)
  /\ phase = "initial" => PlanAtHand(expr.elements, tpower)
  /\ phase = "tried" => PlanAtHand(next.elements, tpower)
  /\ phase = "done" => PlanAtHand(best.elements, power)

CostInv ==
  phase \in {"anneal", "tried", "final", "done"} =>
    cost = PlanCost(flp_cfg, expr.elements) /\ best_cost = PlanCost(flp_cfg, best.elements)

LEMMA PolishElements ==
  ASSUME PolishInv
  PROVE  /\ Elements(expr.elements, NCore)
         /\ Elements(next.elements, NCore)
         /\ Elements(best.elements, NCore)
BY DEF PolishInv, Exprs, Polish

LEMMA PlanFields ==
  ASSUME NEW c, NEW e, NEW f, PlanOf(c, e, f)
  PROVE  f.n_units = PlanUnits(c, e) /\ f.units = RimUnits(c, e)
<1> DEFINE q == Plan(PlanUnits(c, e), RimUnits(c, e), f.wires)
<1>1. f = q
  BY DEF PlanOf
<1>2. q.n_units = PlanUnits(c, e) /\ q.units = RimUnits(c, e)
  BY DEF Plan
<1> HIDE DEF q
<1> QED
  BY <1>1, <1>2

LEMMA CostOfPlan ==
  ASSUME NEW c, NEW e, NEW f, PlanOf(c, e, f)
  PROVE  flp_evaluate_metric(f, Trimmed(c, Gone(e, c.compact_ratio))) = PlanCost(c, e)
<1>1. f.n_units = PlanUnits(c, e) /\ f.units = RimUnits(c, e)
  BY PlanFields
<1>2. {t \in f.wires : t[1] < f.n_units /\ t[2] < f.n_units} = WiresOfSlots(c, SizedN(e, c.compact_ratio))
  BY <1>1 DEF PlanOf, InUse
<1>3. get_wire_metric(f) = wireMetric(RimUnits(c, e), WiresOfSlots(c, SizedN(e, c.compact_ratio)))
  BY <1>1, <1>2 DEF get_wire_metric
<1> QED
  BY <1>1, <1>3 DEF flp_evaluate_metric, PlanCost

\* What evaluate does to a plan's slots.
LEMMA EvaluateMakes ==
  ASSUME flp_cfg \in FlpConfigs, NEW f, Sliced(flp_cfg, f),
         model_n_units \in Nat, model_n_units >= NCore, SmallSlots(tpower),
         power = SrcPower(flp_cfg), flp_cfg' = flp_cfg, NEW e, Elements(e.elements, NCore),
         NEW where, evaluate(f, e, where)
  PROVE  /\ phase' \in {"fatal", where}
         /\ model_n_units' \in Nat /\ model_n_units' >= NCore
         /\ SmallSlots(tpower')
         /\ phase' # "fatal" =>
              /\ PlanOf(flp_cfg, e.elements, flp')
              /\ compacted' = Gone(e.elements, flp_cfg.compact_ratio)
              /\ rim_blocks' = RimN(flp_cfg, e.elements)
              /\ tpower' = Trimmed(flp_cfg, compacted')
<1> DEFINE plan == planFor(flp_cfg, f, model_n_units, tpower, power, e.elements)
<1>1. CASE ~Balloted(e.elements)
  <2>1. phase' = "fatal" /\ model_n_units' = model_n_units /\ tpower' = tpower
    BY <1>1 DEF evaluate
  <2> QED
    BY <2>1
<1>2. CASE Balloted(e.elements)
  <2>1. MadePlan(flp_cfg, e.elements, plan)
    BY PlanMade
  <2>2. /\ phase' \in {"fatal", where} /\ flp' = plan.flp /\ model_n_units' = plan.flp.n_units
        /\ tpower' = plan.power /\ compacted' = plan.compacted /\ rim_blocks' = plan.rim_blocks
    BY <1>2 DEF evaluate
  <2> HIDE DEF plan
  <2> QED
    BY <2>1, <2>2 DEF MadePlan
<1> QED
  BY <1>1, <1>2

LEMMA RestoredReadies ==
  ASSUME flp_cfg \in FlpConfigs, NEW e, Elements(e, NCore), NEW p, PlanAtHand(e, p)
  PROVE  Sliced(flp_cfg, restored) /\ flp_evaluate_metric(flp, p) = PlanCost(flp_cfg, e)
<1>1. PlanOf(flp_cfg, e, flp) /\ compacted = Gone(e, flp_cfg.compact_ratio) /\ rim_blocks = RimN(flp_cfg, e)
  BY DEF PlanAtHand
<1>2. p = Trimmed(flp_cfg, Gone(e, flp_cfg.compact_ratio))
  BY DEF PlanAtHand
<1>3. Sliced(flp_cfg, restored)
  BY <1>1, RestoredSliced DEF restored
<1> QED
  BY <1>1, <1>2, <1>3, CostOfPlan

LEMMA SlotsInitially == FlpInit => SlotInv /\ CostInv
<1> SUFFICES ASSUME FlpInit PROVE SlotInv /\ CostInv
  OBVIOUS
<1>1. /\ flp_cfg \in FlpConfigs /\ phase = "start" /\ flp = flp_placeholder(flp_cfg)
      /\ model_n_units = flp.n_units /\ power = SrcPower(flp_cfg) /\ tpower = {}
  BY DEF FlpInit, SrcPower
<1>2. model_n_units \in Nat /\ model_n_units >= NCore
  BY <1>1, PlaceholderReady, WrappedUnits
<1>3. SmallSlots(tpower)
  BY <1>1 DEF SmallSlots
<1> QED
  BY <1>1, <1>2, <1>3 DEF SlotInv, CostInv

LEMMA SlotStep ==
  ASSUME PolishInv, PolishInv', SlotInv, CostInv, [FlpNext]_flp_vars
  PROVE  SlotInv' /\ CostInv'
<1>0. /\ Elements(expr.elements, NCore) /\ Elements(next.elements, NCore)
      /\ Elements(best.elements, NCore)
  BY PolishElements
<1>00. Elements(next'.elements, NCore)
  BY DEF PolishInv, Exprs, Polish
<1>1. /\ flp_cfg \in FlpConfigs
      /\ model_n_units \in Nat /\ model_n_units >= NCore
      /\ SmallSlots(tpower)
  BY DEF SlotInv
<1>2. CASE begin
  <2>1. /\ phase = "start" /\ evaluate(hidden, expr, "initial")
        /\ UNCHANGED <<flp_cfg, power, expr>>
    BY <1>2 DEF begin
  <2>2. power = SrcPower(flp_cfg) /\ flp = flp_placeholder(flp_cfg)
    BY <2>1 DEF SlotInv
  <2>3. Sliced(flp_cfg, hidden)
    BY <1>1, <2>2, HiddenSliced
  <2>4. /\ phase' \in {"fatal", "initial"}
        /\ model_n_units' \in Nat /\ model_n_units' >= NCore
        /\ SmallSlots(tpower')
        /\ phase' # "fatal" =>
             /\ PlanOf(flp_cfg, expr.elements, flp')
             /\ compacted' = Gone(expr.elements, flp_cfg.compact_ratio)
             /\ rim_blocks' = RimN(flp_cfg, expr.elements)
             /\ tpower' = Trimmed(flp_cfg, compacted')
    BY <1>0, <1>1, <2>1, <2>2, <2>3, EvaluateMakes
  <2>5. phase' # "fatal" => PlanAtHand(expr.elements, tpower)'
    BY <2>1, <2>4 DEF PlanAtHand
  <2> QED
    BY <1>1, <2>1, <2>2, <2>4, <2>5 DEF SlotInv, CostInv
<1>3. CASE firstCost
  <2>1. /\ phase = "initial" /\ cost' = flp_evaluate_metric(flp, tpower)
        /\ best_cost' = cost' /\ best' = expr /\ flp' = restored
        /\ phase' \in {"anneal", "final"}
        /\ UNCHANGED <<flp_cfg, model_n_units, power, tpower, expr>>
    BY <1>3 DEF firstCost
  <2>2. PlanAtHand(expr.elements, tpower) /\ power = SrcPower(flp_cfg)
    BY <2>1 DEF SlotInv
  <2>3. Sliced(flp_cfg, restored) /\ cost' = PlanCost(flp_cfg, expr.elements)
    BY <1>0, <1>1, <2>1, <2>2, RestoredReadies
  <2> QED
    BY <1>1, <2>1, <2>2, <2>3 DEF SlotInv, CostInv
<1>4. CASE tryMove
  <2>1. /\ phase = "anneal" /\ evaluate(flp, next', "tried")
        /\ UNCHANGED <<flp_cfg, power, expr, best, cost, best_cost>>
    BY <1>4 DEF tryMove
  <2>2. power = SrcPower(flp_cfg) /\ Sliced(flp_cfg, flp)
    BY <2>1 DEF SlotInv
  <2>3. /\ phase' \in {"fatal", "tried"}
        /\ model_n_units' \in Nat /\ model_n_units' >= NCore
        /\ SmallSlots(tpower')
        /\ phase' # "fatal" =>
             /\ PlanOf(flp_cfg, next'.elements, flp')
             /\ compacted' = Gone(next'.elements, flp_cfg.compact_ratio)
             /\ rim_blocks' = RimN(flp_cfg, next'.elements)
             /\ tpower' = Trimmed(flp_cfg, compacted')
    BY <1>00, <1>1, <2>1, <2>2, EvaluateMakes
  <2>4. phase' # "fatal" => PlanAtHand(next.elements, tpower)'
    BY <2>1, <2>3 DEF PlanAtHand
  <2>5. cost = PlanCost(flp_cfg, expr.elements) /\ best_cost = PlanCost(flp_cfg, best.elements)
    BY <2>1 DEF CostInv
  <2> QED
    BY <1>1, <2>1, <2>2, <2>3, <2>4, <2>5 DEF SlotInv, CostInv
<1>5. CASE giveUp
  <2>1. /\ phase = "anneal" /\ phase' = "gave up"
        /\ UNCHANGED <<flp_cfg, model_n_units, power, tpower>>
    BY <1>5 DEF giveUp
  <2> QED
    BY <1>1, <2>1 DEF SlotInv, CostInv
<1>6. CASE decide
  <2>1. /\ phase = "tried" /\ new_cost' = flp_evaluate_metric(flp, tpower) /\ flp' = restored
        /\ phase' = "anneal"
        /\ accept \/ reject
        /\ UNCHANGED <<flp_cfg, model_n_units, power, tpower>>
    BY <1>6 DEF decide
  <2>2. PlanAtHand(next.elements, tpower) /\ power = SrcPower(flp_cfg)
    BY <2>1 DEF SlotInv
  <2>3. Sliced(flp_cfg, restored) /\ new_cost' = PlanCost(flp_cfg, next.elements)
    BY <1>0, <1>1, <2>1, <2>2, RestoredReadies
  <2>4. cost = PlanCost(flp_cfg, expr.elements) /\ best_cost = PlanCost(flp_cfg, best.elements)
    BY <2>1 DEF CostInv
  <2>5. cost' = PlanCost(flp_cfg, expr'.elements) /\ best_cost' = PlanCost(flp_cfg, best'.elements)
    <3>1. CASE accept
      BY <2>3, <2>4, <3>1 DEF accept
    <3>2. CASE reject
      BY <2>4, <3>2 DEF reject
    <3> QED
      BY <2>1, <3>1, <3>2
  <2> QED
    BY <1>1, <2>1, <2>2, <2>3, <2>5 DEF SlotInv, CostInv
<1>7. CASE cool
  <2>1. /\ phase = "anneal" /\ phase' \in {"anneal", "final"}
        /\ UNCHANGED <<flp_cfg, flp, model_n_units, power, tpower, expr, best, cost, best_cost>>
    BY <1>7 DEF cool
  <2>2. power = SrcPower(flp_cfg) /\ Sliced(flp_cfg, flp)
    BY <2>1 DEF SlotInv
  <2>3. cost = PlanCost(flp_cfg, expr.elements) /\ best_cost = PlanCost(flp_cfg, best.elements)
    BY <2>1 DEF CostInv
  <2> QED
    BY <1>1, <2>1, <2>2, <2>3 DEF SlotInv, CostInv
<1>8. CASE selectBest
  <2> DEFINE plan == planFor(flp_cfg, flp, model_n_units, power, power, best.elements)
  <2>1. /\ phase = "final" /\ phase' \in {"fatal", "done"} /\ flp' = plan.flp
        /\ model_n_units' = plan.flp.n_units /\ power' = plan.power
        /\ compacted' = plan.compacted /\ rim_blocks' = plan.rim_blocks
        /\ UNCHANGED <<flp_cfg, tpower, expr, best, cost, best_cost>>
    BY <1>8 DEF selectBest
  <2>2. power = SrcPower(flp_cfg) /\ Sliced(flp_cfg, flp)
    BY <2>1 DEF SlotInv
  <2>3. SmallSlots(power)
    BY <1>1, <2>2, SrcPowerSlots
  <2>4. MadePlan(flp_cfg, best.elements, plan)
    BY <1>0, <1>1, <2>2, <2>3, PlanMade
  <2> HIDE DEF plan
  <2>5. /\ PlanOf(flp_cfg, best.elements, flp')
        /\ compacted' = Gone(best.elements, flp_cfg.compact_ratio)
        /\ rim_blocks' = RimN(flp_cfg, best.elements)
        /\ power' = Trimmed(flp_cfg, compacted')
        /\ model_n_units' \in Nat /\ model_n_units' >= NCore
    BY <2>1, <2>4 DEF MadePlan
  <2>6. PlanAtHand(best.elements, power)'
    BY <2>1, <2>5 DEF PlanAtHand
  <2>7. cost = PlanCost(flp_cfg, expr.elements) /\ best_cost = PlanCost(flp_cfg, best.elements)
    BY <2>1 DEF CostInv
  <2> QED
    BY <1>1, <2>1, <2>5, <2>6, <2>7 DEF SlotInv, CostInv
<1>9. CASE UNCHANGED flp_vars
  BY <1>9 DEF flp_vars, SlotInv, CostInv, PlanAtHand
<1> QED
  BY <1>2, <1>3, <1>4, <1>5, <1>6, <1>7, <1>8, <1>9 DEF FlpNext

FloorplanInv == PolishInv /\ SlotInv /\ CostInv

LEMMA FloorplanInvariant == FlpSpec => []FloorplanInv
<1>1. FlpInit => FloorplanInv
  BY PolishInitially, SlotsInitially DEF FloorplanInv
<1>2. FloorplanInv /\ [FlpNext]_flp_vars => FloorplanInv'
  BY PolishStep, SlotStep DEF FloorplanInv
<1> QED
  BY <1>1, <1>2, PTL DEF FlpSpec

\* A plan at hand has the powers and wires of its blocks.
LEMMA PlanSlots ==
  ASSUME flp_cfg \in FlpConfigs, NEW e, Elements(e, NCore), NEW p, PlanAtHand(e, p)
  PROVE  /\ {t \in p : t[1] < flp.n_units} = CorePower \cup L2PowerAt(flp_cfg, compacted)
         /\ \A i, j \in 0 .. flp.n_units - 1 :
              WireOf(flp.wires, i, j) =
                IF i \in L2At(flp_cfg, compacted) /\ j \in L2At(flp_cfg, compacted) THEN {}
                ELSE WireOf(DescWires, UnitAt(flp_cfg, compacted, i), UnitAt(flp_cfg, compacted, j))
<1> DEFINE c == flp_cfg
           g == Gone(e, c.compact_ratio)
           s == SizedN(e, c.compact_ratio)
           n == flp.n_units
<1>1. PlanOf(c, e, flp) /\ compacted = g /\ p = Trimmed(c, g)
  BY DEF PlanAtHand
<1>2. g \in 0 .. NCore - 1 /\ s = SlicedUnits - g /\ s \in NCore .. SlicedUnits
  BY GoneBound
<1>3. n = PlanUnits(c, e)
  BY <1>1, PlanFields
<1>4. L2N(c, e) = s + L2Slots(c)
  BY DEF L2N
<1>5. n \in Nat /\ n >= s + L2Slots(c)
  <2>1. L2Slots(c) \in {0, 3}
    BY DEF L2Slots, L2_ARMS
  <2>2. L2N(c, e) \in Nat
    BY <1>2, <1>4, <2>1, CoreUnits DEF SlicedUnits
  <2>3. RimN(c, e) \in Nat
    BY <2>2, RimPlan
  <2> QED
    BY <1>3, <1>4, <2>2, <2>3 DEF PlanUnits
<1>6. InUse(flp.wires, n) = WiresOfSlots(c, s)
  BY <1>1, <1>3 DEF PlanOf
<1> HIDE DEF g, s, n
<1>7. {t \in p : t[1] < n} = CorePower \cup L2PowerAt(c, g)
  BY <1>1, <1>2, <1>5, PlanPowers
<1>8. ASSUME NEW i \in 0 .. n - 1, NEW j \in 0 .. n - 1
      PROVE  WireOf(flp.wires, i, j) =
               IF i \in L2At(c, g) /\ j \in L2At(c, g) THEN {}
               ELSE WireOf(DescWires, UnitAt(c, g, i), UnitAt(c, g, j))
  <2>1. i \in Nat /\ j \in Nat /\ i < n /\ j < n
    BY <1>5
  <2>2. WireOf(flp.wires, i, j) = WireOf(InUse(flp.wires, n), i, j)
    BY <2>1 DEF WireOf, InUse
  <2> QED
    BY <1>2, <1>6, <2>1, <2>2, PlanWiresOf
<1> QED
  BY <1>1, <1>7, <1>8 DEF n

LEMMA PlansFollowBlocks == PolishInv /\ SlotInv => SlotsFollowBlocks
<1> SUFFICES ASSUME PolishInv, SlotInv, planned PROVE SlotsFollowBlocks
  BY DEF SlotsFollowBlocks
<1> DEFINE p == IF phase = "done" THEN power ELSE tpower
           e == shown.elements
<1>1. flp_cfg \in FlpConfigs
  BY DEF SlotInv
<1>2. PlanAtHand(e, p) /\ Elements(e, NCore)
  <2>1. CASE phase = "initial"
    <3>1. shown = expr /\ p = tpower
      BY <2>1 DEF shown
    <3> QED
      BY <2>1, <3>1, PolishElements DEF SlotInv
  <2>2. CASE phase = "tried"
    <3>1. shown = next /\ p = tpower
      BY <2>2 DEF shown
    <3> QED
      BY <2>2, <3>1, PolishElements DEF SlotInv
  <2>3. CASE phase = "done"
    <3>1. shown = best /\ p = power
      BY <2>3 DEF shown
    <3> QED
      BY <2>3, <3>1, PolishElements DEF SlotInv
  <2> QED
    BY <2>1, <2>2, <2>3 DEF planned
<1> HIDE DEF p, e
<1>3. /\ {t \in p : t[1] < flp.n_units} = CorePower \cup L2PowerAt(flp_cfg, compacted)
      /\ \A i, j \in 0 .. flp.n_units - 1 :
           WireOf(flp.wires, i, j) =
             IF i \in L2At(flp_cfg, compacted) /\ j \in L2At(flp_cfg, compacted) THEN {}
             ELSE WireOf(DescWires, UnitAt(flp_cfg, compacted, i), UnitAt(flp_cfg, compacted, j))
  BY <1>1, <1>2, PlanSlots
<1>4. l2Slots = L2At(flp_cfg, compacted)
  BY DEF l2Slots, L2At
<1> QED
  BY <1>3, <1>4 DEF SlotsFollowBlocks, CorePower, L2PowerAt, WireOf, UnitAt, p

\* SlotsFollowBlocks: while dead blocks come and go, the L2 moves from slot to slot and
\* rim blocks are overwritten (tree_to_flp, flp_wrap_l2, flp_wrap_rim, trim_hotspot_vector
\* and restore_dead_blocks of flp.cc), every slot of a plan has the power and the wires of
\* the block in it and no others, whatever plans were tried before: for any number of
\* units, shapes, wires, powers and configurations.
THEOREM PlansHaveTheirBlocks == FlpSpec => []SlotsFollowBlocks
<1>1. FloorplanInv => SlotsFollowBlocks
  BY PlansFollowBlocks DEF FloorplanInv
<1> QED
  BY <1>1, FloorplanInvariant, PTL

\* A plan made from nothing is that of its expression.
LEMMA FreshPlan ==
  ASSUME flp_cfg \in FlpConfigs, NEW e, Elements(e, NCore)
  PROVE  MadePlan(flp_cfg, e, freshPlan(e)) /\ freshCost(e) = PlanCost(flp_cfg, e)
<1> DEFINE c == flp_cfg
           n == wrappedUnits(c) - (IF c.wrap_l2 THEN L2_ARMS + 1 ELSE 0)
           h == flp_placeholder(c)
           f == [h EXCEPT !.n_units = n]
<1>1. n = SlicedUnits /\ placeholderUnits(c) \in Nat /\ placeholderUnits(c) >= NCore
  BY WrappedUnits
<1>2. h = Plan(h.n_units, h.units, h.wires) /\ Ready(c, h.wires)
  <2>1. Ready(c, h.wires)
    BY PlaceholderReady
  <2>2. h = Plan(h.n_units, h.units, h.wires)
    BY DEF flp_placeholder, Plan
  <2> QED
    BY <2>1, <2>2
<1>3. f = Plan(n, h.units, h.wires)
  <2> DEFINE a == h.n_units
             b == h.units
             d == h.wires
  <2>1. h = Plan(a, b, d)
    BY <1>2
  <2> HIDE DEF a, b, d, h, n
  <2>2. [Plan(a, b, d) EXCEPT !.n_units = n] = Plan(n, b, d)
    BY DEF Plan
  <2> QED
    BY <2>1, <2>2 DEF b, d
<1>4. f.units = h.units /\ f.wires = h.wires
  <2> DEFINE q == Plan(n, h.units, h.wires)
  <2>1. q.units = h.units /\ q.wires = h.wires
    BY DEF Plan
  <2> HIDE DEF q, f
  <2> QED
    BY <1>3, <2>1 DEF q
<1> HIDE DEF f, n, h
<1>5. Sliced(c, f)
  BY <1>1, <1>2, <1>3, <1>4 DEF Sliced
<1>6. SmallSlots({})
  BY DEF SmallSlots
<1>7. freshPlan(e) = planFor(c, f, placeholderUnits(c), {}, SrcPower(c), e)
  BY DEF freshPlan, SrcPower, f, n, h
<1>8. MadePlan(c, e, freshPlan(e))
  BY <1>1, <1>5, <1>6, <1>7, PlanMade
<1>9. freshCost(e) = PlanCost(c, e)
  BY <1>8, CostOfPlan DEF MadePlan, freshCost, costOf
<1> QED
  BY <1>8, <1>9

LEMMA CostsOfPlans == FloorplanInv => CostsFresh
<1> SUFFICES ASSUME FloorplanInv PROVE CostsFresh
  OBVIOUS
<1>1. flp_cfg \in FlpConfigs /\ PolishInv /\ SlotInv /\ CostInv
  BY DEF FloorplanInv, SlotInv
<1>2. Elements(expr.elements, NCore) /\ Elements(best.elements, NCore)
  BY <1>1, PolishElements
<1>3. phase \in {"anneal", "tried", "final", "done"} =>
        cost = freshCost(expr.elements) /\ best_cost = freshCost(best.elements)
  BY <1>1, <1>2, FreshPlan DEF CostInv
<1>4. phase \in {"anneal", "final"} => flp.n_units = SlicedUnits
  <2> SUFFICES ASSUME phase \in {"anneal", "final"} PROVE flp.n_units = SlicedUnits
    OBVIOUS
  <2> DEFINE q == Plan(SlicedUnits, flp.units, flp.wires)
  <2>1. flp = q
    BY <1>1 DEF SlotInv, Sliced
  <2>2. q.n_units = SlicedUnits
    BY DEF Plan
  <2> HIDE DEF q
  <2> QED
    BY <2>1, <2>2
<1>5. phase = "done" => flp.units = freshPlan(best.elements).flp.units
  <2> SUFFICES ASSUME phase = "done" PROVE flp.units = freshPlan(best.elements).flp.units
    OBVIOUS
  <2>1. PlanOf(flp_cfg, best.elements, flp)
    BY <1>1 DEF SlotInv, PlanAtHand
  <2>2. PlanOf(flp_cfg, best.elements, freshPlan(best.elements).flp)
    BY <1>1, <1>2, FreshPlan DEF MadePlan
  <2> QED
    BY <2>1, <2>2, PlanFields
<1> QED
  BY <1>3, <1>4, <1>5 DEF CostsFresh

\* CostsFresh: whatever plans were tried, compacted and rejected before, the costs the
\* annealing compares are those of plans of its expressions made from nothing, the slots
\* of the slicing tree are given back after every trial, and the plan returned is that of
\* the best expression (floorplan(), restore_dead_blocks of flp.cc).
THEOREM CostsStayFresh == FlpSpec => []CostsFresh
<1>1. FloorplanInv => CostsFresh
  BY CostsOfPlans
<1> QED
  BY <1>1, FloorplanInvariant, PTL

CostsAreNumbers == cost \in Int /\ new_cost \in Int /\ best_cost \in Int
BestIsLeast == phase \in {"anneal", "tried", "final", "done"} => best_cost <= cost

LEMMA BestStep ==
  ASSUME BestIsLeast, CostsAreNumbers, CostsAreNumbers', [FlpNext]_flp_vars
  PROVE  BestIsLeast'
<1>1. CASE begin
  <2>1. phase' \in {"fatal", "initial"}
    BY <1>1 DEF begin, evaluate
  <2> QED
    BY <2>1 DEF BestIsLeast
<1>2. CASE firstCost
  <2>1. best_cost' = cost'
    BY <1>2 DEF firstCost
  <2> QED
    BY <2>1 DEF BestIsLeast, CostsAreNumbers
<1>3. CASE tryMove \/ cool \/ selectBest \/ UNCHANGED flp_vars
  <2>1. phase' \in {"anneal", "tried", "final", "done"} => phase \in {"anneal", "tried", "final", "done"}
    BY <1>3 DEF tryMove, cool, selectBest, flp_vars
  <2>2. UNCHANGED <<cost, best_cost>>
    BY <1>3 DEF tryMove, cool, selectBest, flp_vars
  <2> QED
    BY <2>1, <2>2 DEF BestIsLeast
<1>4. CASE giveUp
  BY <1>4 DEF giveUp, BestIsLeast
<1>5. CASE decide
  <2>1. phase = "tried" /\ best_cost <= cost
    BY <1>5 DEF decide, BestIsLeast
  <2>2. CASE accept
    BY <2>1, <2>2 DEF accept, BestIsLeast, CostsAreNumbers
  <2>3. CASE reject
    BY <2>1, <2>3 DEF reject, BestIsLeast
  <2> QED
    BY <1>5, <2>2, <2>3 DEF decide
<1> QED
  BY <1>1, <1>2, <1>3, <1>4, <1>5 DEF FlpNext

\* BestKept: where costs are numbers the best cost is never above the current one, however
\* trials are accepted and rejected (floorplan() of flp.cc), and both are the costs of
\* their expressions alone (CostsFresh, for which costs may be anything).
THEOREM BestPlanKept == FlpSpec /\ []CostsAreNumbers => []BestKept
<1>1. FlpInit => BestIsLeast
  BY DEF FlpInit, BestIsLeast
<1>2. BestIsLeast /\ CostsAreNumbers /\ CostsAreNumbers' /\ [FlpNext]_flp_vars => BestIsLeast'
  BY BestStep
<1>3. CostsFresh /\ BestIsLeast => BestKept
  BY DEF BestKept, BestIsLeast
<1> QED
  BY <1>1, <1>2, <1>3, CostsStayFresh, PTL DEF FlpSpec
=============================================================================
