---------------------------- MODULE DramSimProofs ----------------------------
(***************************************************************************)
(* Proofs about the memory front end and the refresh timers, for every     *)
(* number of channels, ranks and banks, every length of the queues and     *)
(* every timing the assumptions of DramSim admit.                          *)
(***************************************************************************)
EXTENDS DramSim, ProofLemmas

(***************************************************************************)
(* A request that waits: the time it waited, and what is in front of it    *)
(***************************************************************************)

Queued(q) == {q[i] : i \in DOMAIN q}
Ahead(q, b) == {x \in Bank : \E i, j \in DOMAIN q : i < j /\ q[i] = x /\ q[j] = b}
AheadInRank(q, b) == {x \in Ahead(q, b) : rank_of(x) = rank_of(b)}

\* Every request in front costs a tick, one of the same rank nRFC ticks.
InFront(q, b) == Cardinality(Ahead(q, b)) + (nRFC - 1) * Cardinality(AheadInRank(q, b))

\* A request is issued before this many ticks have passed.
Deadline == BanksPerRank * nRFC + nRP + NBanks

BusyBound == IF nRFC > nRP THEN nRFC ELSE nRP

Write == {[vec |-> vec_of[set], set |-> set] : set \in Sets}

\* A channel with its timers, without and with what its requests are promised.
ChannelState ==
  [since : [Bank -> Nat], hot : SUBSET Bank, otherq : Seq(Bank),
   busy : [Rank -> 0 .. BusyBound], writeq : Seq(Write)]

OncePerBank(c) == \A i, j \in DOMAIN c.otherq : c.otherq[i] = c.otherq[j] => i = j

\* `busy' at its least 1: the command slot of the request itself.
ServedInTime(c) ==
  \A b \in Queued(c.otherq) :
    c.since[b] + InFront(c.otherq, b)
      + (IF c.busy[rank_of(b)] = 0 THEN 1 ELSE c.busy[rank_of(b)]) <= Deadline

ChannelOK(c) == c \in ChannelState /\ OncePerBank(c) /\ ServedInTime(c)

\* Between the timers and the scheduler of a tick.
Injected(c) ==
  /\ c \in ChannelState
  /\ OncePerBank(c)
  /\ \A b \in Queued(c.otherq) :
       c.since[b] + InFront(c.otherq, b) + c.busy[rank_of(b)] <= Deadline

(***************************************************************************)
(* Constants                                                               *)
(***************************************************************************)

LEMMA Powers ==
  /\ 2^RaBits \in Nat \ {0} /\ BanksPerRank \in Nat \ {0}
  /\ NBanks \in Nat \ {0} /\ NBanks = 2^RaBits * BanksPerRank
  /\ Deadline \in Nat /\ Deadline < nREFI \div 2 /\ NBanks <= OMax
  /\ nRFC \in Nat \ {0} /\ nRP \in Nat /\ nREFI \in Nat \ {0}
<1>1. 2^RaBits \in Nat \ {0} /\ BanksPerRank \in Nat \ {0}
  BY DramSimAssumption, PowerAssumption DEF BanksPerRank
<1>2. NBanks = 2^RaBits * BanksPerRank
  BY DEF NBanks
<1>3. NBanks \in Nat \ {0}
  BY <1>1, <1>2
<1>4. nRFC \in Nat \ {0} /\ nRP \in Nat /\ nREFI \in Nat \ {0}
  BY DramSimAssumption
<1>5. BanksPerRank * nRFC \in Nat
  BY <1>1, <1>4
<1> QED
  BY <1>1, <1>2, <1>3, <1>4, <1>5, DramSimAssumption DEF Deadline

LEMMA RankOfBank ==
  ASSUME NEW b \in Bank
  PROVE  rank_of(b) \in Rank
<1>1. b \in 0 .. 2^RaBits * BanksPerRank - 1
  BY Powers DEF Bank
<1> QED
  BY <1>1, Powers, DivModBound DEF rank_of, Rank

LEMMA BanksFinite ==
  IsFiniteSet(Bank) /\ Cardinality(Bank) = NBanks
<1>1. NBanks \in Nat \ {0}
  BY Powers
<1>2. 0 \in Int /\ NBanks - 1 \in Int /\ ~(0 > NBanks - 1) /\ (NBanks - 1) - 0 + 1 = NBanks
  BY <1>1
<1> QED
  BY <1>2, FS_Interval DEF Bank

\* The banks of a rank are BanksPerRank consecutive numbers.
LEMMA BanksOfRank ==
  ASSUME NEW r \in Rank
  PROVE  LET S == {x \in Bank : rank_of(x) = r}
         IN  IsFiniteSet(S) /\ Cardinality(S) <= BanksPerRank
<1> DEFINE S == {x \in Bank : rank_of(x) = r}
           lo == r * BanksPerRank
           hi == lo + BanksPerRank - 1
<1>1. r \in Nat /\ lo \in Int /\ hi \in Int /\ hi - lo + 1 = BanksPerRank /\ ~(lo > hi)
  BY Powers DEF Rank
<1>2. ASSUME NEW x \in S PROVE x \in lo .. hi
  <2>1. x \in Nat /\ x \in 0 .. 2^RaBits * BanksPerRank - 1 /\ x \div BanksPerRank = r
    BY Powers DEF Bank, rank_of
  <2>2. x = r * BanksPerRank + (x % BanksPerRank) /\ x % BanksPerRank \in 0 .. BanksPerRank - 1
    BY <2>1, Powers, DivModBound
  <2> QED
    BY <1>1, <2>1, <2>2, Powers
<1> HIDE DEF lo, hi
<1>3. IsFiniteSet(lo .. hi) /\ Cardinality(lo .. hi) = BanksPerRank
  BY <1>1, FS_Interval
<1>4. S \in SUBSET (lo .. hi)
  BY <1>2
<1> QED
  BY <1>3, <1>4, FS_Subset

(***************************************************************************)
(* The refreshes that are due                                              *)
(***************************************************************************)

\* tick_ref collects the banks that are due, each once.
LEMMA DueBanks ==
  ASSUME NEW c
  PROVE  /\ due(c) \in Seq(Bank)
         /\ \A i, j \in DOMAIN due(c) : due(c)[i] = due(c)[j] => i = j
         /\ Queued(due(c)) = {b \in Bank : is_due(c, b)}
<1> DEFINE Is(g) == g = [n \in 0 .. NBanks |->
                          IF n = 0 THEN <<>>
                          ELSE IF is_due(c, n - 1) THEN Append(g[n - 1], n - 1) ELSE g[n - 1]]
           d == CHOOSE g : Is(g)
<1> USE Powers
<1> DEFINE step(g, n) == IF n = 0 THEN <<>>
                         ELSE IF is_due(c, n - 1) THEN Append(g[n - 1], n - 1) ELSE g[n - 1]
           E == {m \in Nat : \E g : DOMAIN g = 0 .. m /\ \A n \in 0 .. m : g[n] = step(g, n)}
<1>1. 0 \in E
  <2> DEFINE g == [n \in 0 .. 0 |-> <<>>]
  <2>1. DOMAIN g = 0 .. 0 /\ \A n \in 0 .. 0 : g[n] = step(g, n)
    OBVIOUS
  <2> QED
    BY <2>1
<1>2. ASSUME NEW m \in Nat, m \in E PROVE m + 1 \in E
  <2>1. PICK g : DOMAIN g = 0 .. m /\ \A n \in 0 .. m : g[n] = step(g, n)
    BY <1>2
  <2> DEFINE h == [n \in 0 .. m + 1 |-> step(g, n)]
  <2>2. \A n \in 0 .. m : h[n] = g[n]
    BY <2>1
  <2>3. ASSUME NEW n \in 0 .. m + 1 PROVE h[n] = step(h, n)
    <3>1. h[n] = step(g, n)
      OBVIOUS
    <3>2. n # 0 => n - 1 \in 0 .. m
      OBVIOUS
    <3> HIDE DEF h
    <3> QED
      BY <2>2, <3>1, <3>2
  <2>4. DOMAIN h = 0 .. m + 1
    OBVIOUS
  <2> HIDE DEF h, step
  <2> QED
    BY <2>3, <2>4
<1>3. NBanks \in E
  <2> HIDE DEF E
  <2> QED
    BY <1>1, <1>2, InductionOverNat
<1>4. PICK f : DOMAIN f = 0 .. NBanks /\ \A n \in 0 .. NBanks : f[n] = step(f, n)
  BY <1>3
<1>5. \E g : Is(g)
  <2> DEFINE g == [n \in 0 .. NBanks |-> f[n]]
  <2>1. \A n \in 0 .. NBanks : g[n] = step(f, n) /\ step(f, n) = step(g, n)
    BY <1>4
  <2>2. g = [n \in 0 .. NBanks |-> step(g, n)]
    <3> HIDE DEF step
    <3>1. g = [n \in 0 .. NBanks |-> g[n]]
      OBVIOUS
    <3> QED
      BY <2>1, <3>1
  <2> QED
    BY <2>2
<1>6. d = [n \in 0 .. NBanks |-> step(d, n)]
  <2>1. Is(d)
    BY <1>5
  <2> QED
    BY <2>1
<1>7. due(c) = d[NBanks]
  BY DEF due
<1> DEFINE D == {b \in Bank : is_due(c, b)}
<1>8. d[0] = <<>> /\ \A n \in Bank : d[n + 1] = IF n \in D THEN Append(d[n], n) ELSE d[n]
  <2> HIDE DEF d
  <2>1. \A n \in Bank : n + 1 \in 0 .. NBanks /\ n + 1 # 0 /\ (n + 1) - 1 = n
    BY DEF Bank
  <2>2. d[0] = <<>>
    BY <1>6
  <2>3. ASSUME NEW n \in Bank PROVE d[n + 1] = IF n \in D THEN Append(d[n], n) ELSE d[n]
    <3>1. d[n + 1] = step(d, n + 1)
      <4> HIDE DEF step
      <4> QED
        BY <1>6, <2>1
    <3>2. n \in D <=> is_due(c, n)
      OBVIOUS
    <3> QED
      BY <2>1, <3>1, <3>2, Zenon
  <2> QED
    BY <2>2, <2>3
<1> HIDE DEF d, D
<1> DEFINE P(n) == /\ d[n] \in Seq(0 .. n - 1)
                   /\ \A i, j \in DOMAIN d[n] : d[n][i] = d[n][j] => i = j
                   /\ \A i \in DOMAIN d[n] : d[n][i] \in D
                   /\ \A b \in 0 .. n - 1 : b \in D => \E i \in DOMAIN d[n] : d[n][i] = b
           T == {n \in Nat : P(n)}
<1>9. 0 \in T
  <2>1. d[0] \in Seq(0 .. 0 - 1) /\ DOMAIN d[0] = {} /\ 0 .. 0 - 1 = {}
    BY <1>8
  <2> QED
    BY <2>1
<1>10. ASSUME NEW n \in 0 .. NBanks - 1, n \in T PROVE n + 1 \in T
  <2> DEFINE q == d[n]
             p == d[n + 1]
  <2>1. p = (IF n \in D THEN Append(q, n) ELSE q) /\ n \in Nat /\ (n + 1) - 1 = n
    <3>1. n \in Bank /\ n \in Nat /\ (n + 1) - 1 = n
      BY DEF Bank
    <3> QED
      BY <1>8, <3>1, Zenon
  <2>2. /\ q \in Seq(0 .. n - 1)
        /\ \A i, j \in DOMAIN q : q[i] = q[j] => i = j
        /\ \A i \in DOMAIN q : q[i] \in D
        /\ \A b \in 0 .. n - 1 : b \in D => \E i \in DOMAIN q : q[i] = b
    BY <1>10
  <2> SUFFICES /\ p \in Seq(0 .. n)
               /\ \A i, j \in DOMAIN p : p[i] = p[j] => i = j
               /\ \A i \in DOMAIN p : p[i] \in D
               /\ \A b \in 0 .. n : b \in D => \E i \in DOMAIN p : p[i] = b
    <3>1. n + 1 \in Nat
      BY <2>1
    <3> QED
      BY <2>1, <3>1, Zenon
  <2> HIDE DEF q, p
  <2>3. q \in Seq(0 .. n) /\ DOMAIN q = 1 .. Len(q) /\ Len(q) \in Nat /\ \A i \in DOMAIN q : q[i] # n
    BY <2>1, <2>2
  <2>4. \A b \in 0 .. n : b \in 0 .. n - 1 \/ b = n
    BY <2>1
  <2>5. CASE n \in D
    <3>1. p \in Seq(0 .. n) /\ Len(p) = Len(q) + 1 /\ p[Len(q) + 1] = n
      BY <2>1, <2>3, <2>5
    <3>2. DOMAIN p = 1 .. Len(q) + 1 /\ \A i \in DOMAIN q : p[i] = q[i]
      BY <2>1, <2>3, <2>5
    <3>3. /\ Len(q) + 1 \in DOMAIN p
          /\ \A i \in DOMAIN p : i = Len(q) + 1 \/ i \in DOMAIN q
          /\ \A i \in DOMAIN q : i \in DOMAIN p
      BY <2>3, <3>2
    <3>4. \A i, j \in DOMAIN p : p[i] = p[j] => i = j
      BY <2>2, <2>3, <3>1, <3>2, <3>3
    <3>5. \A i \in DOMAIN p : p[i] \in D
      BY <2>2, <2>5, <3>1, <3>2, <3>3
    <3>6. \A b \in 0 .. n : b \in D => \E i \in DOMAIN p : p[i] = b
      BY <2>2, <2>4, <3>1, <3>2, <3>3
    <3> QED
      BY <3>1, <3>4, <3>5, <3>6
  <2>6. CASE n \notin D
    BY <2>1, <2>2, <2>3, <2>4, <2>6
  <2> QED
    BY <2>5, <2>6
<1> HIDE DEF T
<1>11. NBanks \in T
  BY <1>9, <1>10, InductionUpTo
<1>12. P(NBanks)
  BY <1>11 DEF T
<1>13. Queued(due(c)) = D
  BY <1>7, <1>12 DEF Queued, D, Bank
<1> QED
  BY <1>7, <1>12, <1>13 DEF D, Bank

(***************************************************************************)
(* Queues with one request per bank                                        *)
(***************************************************************************)

Once(q) == \A i, j \in DOMAIN q : q[i] = q[j] => i = j

LEMMA OnceFits ==
  ASSUME NEW q \in Seq(Bank), Once(q)
  PROVE  Len(q) <= NBanks
<1>1. Len(q) \in Nat /\ DOMAIN q = 1 .. Len(q) /\ q \in [1 .. Len(q) -> Bank]
  OBVIOUS
<1>2. q \in Injection(1 .. Len(q), Bank)
  BY <1>1 DEF Once, Injection, IsInjective
<1>3. Cardinality(1 .. Len(q)) <= NBanks
  BY <1>2, BanksFinite, FS_Injection
<1>4. Cardinality(1 .. Len(q)) = Len(q)
  <2>1. 1 \in Int /\ Len(q) \in Int /\ (IF 1 > Len(q) THEN 0 ELSE Len(q) - 1 + 1) = Len(q)
    BY <1>1
  <2> QED
    BY <2>1, FS_Interval
<1> QED
  BY <1>3, <1>4

\* What is in front of a request is bounded by the banks of its rank and of all.
LEMMA InFrontBound ==
  ASSUME NEW q \in Seq(Bank), Once(q), NEW b \in Bank
  PROVE  /\ IsFiniteSet(Ahead(q, b)) /\ IsFiniteSet(AheadInRank(q, b))
         /\ Cardinality(Ahead(q, b)) \in 0 .. NBanks
         /\ Cardinality(AheadInRank(q, b)) \in 0 .. BanksPerRank - 1
         /\ InFront(q, b) \in Nat
         /\ InFront(q, b) + nRFC + nRP <= Deadline
<1> DEFINE S == {x \in Bank : rank_of(x) = rank_of(b)}
<1>1. IsFiniteSet(Ahead(q, b)) /\ Cardinality(Ahead(q, b)) \in 0 .. NBanks
  <2>1. Ahead(q, b) \in SUBSET Bank
    BY DEF Ahead
  <2>2. IsFiniteSet(Ahead(q, b)) /\ Cardinality(Ahead(q, b)) <= NBanks
    BY <2>1, BanksFinite, FS_Subset
  <2>3. Cardinality(Ahead(q, b)) \in Nat
    BY <2>2, FS_CardinalityType
  <2> QED
    BY <2>2, <2>3, Powers
<1>2. IsFiniteSet(S) /\ Cardinality(S) <= BanksPerRank /\ Cardinality(S) \in Nat
  BY RankOfBank, BanksOfRank, FS_CardinalityType
<1>3. AheadInRank(q, b) \in SUBSET (S \ {b})
  <2>1. b \notin Ahead(q, b)
    BY DEF Ahead, Once
  <2> QED
    BY <2>1 DEF AheadInRank, Ahead
<1>4. IsFiniteSet(S \ {b}) /\ Cardinality(S \ {b}) = Cardinality(S) - 1
  <2>1. b \in S
    OBVIOUS
  <2> QED
    BY <1>2, <2>1, FS_RemoveElement
<1>5. IsFiniteSet(AheadInRank(q, b)) /\ Cardinality(AheadInRank(q, b)) <= Cardinality(S) - 1
  BY <1>3, <1>4, FS_Subset
<1>6. Cardinality(AheadInRank(q, b)) \in Nat
  BY <1>5, FS_CardinalityType
<1>7. Cardinality(AheadInRank(q, b)) \in 0 .. BanksPerRank - 1
  BY <1>2, <1>5, <1>6, Powers
<1> DEFINE m == Cardinality(Ahead(q, b))
           n == Cardinality(AheadInRank(q, b))
<1>8. InFront(q, b) = m + (nRFC - 1) * n
  BY DEF InFront
<1>9. m \in 0 .. NBanks /\ n \in 0 .. BanksPerRank - 1
  BY <1>1, <1>7
<1> HIDE DEF m, n
<1> DEFINE u == (nRFC - 1) * n
           w == BanksPerRank * nRFC
<1>10. w \in Nat /\ u \in Nat
  BY <1>9, Powers
<1>11. u <= w - nRFC - BanksPerRank + 1
  <2>1. (nRFC - 1) * n <= (nRFC - 1) * (BanksPerRank - 1)
    BY <1>9, Powers
  <2>2. (nRFC - 1) * (BanksPerRank - 1) = BanksPerRank * nRFC - nRFC - BanksPerRank + 1
    BY Powers
  <2> QED
    BY <2>1, <2>2
<1>12. InFront(q, b) = m + u /\ Deadline = w + nRP + NBanks
  BY <1>8 DEF Deadline
<1> HIDE DEF u, w
<1>13. InFront(q, b) \in Nat /\ InFront(q, b) + nRFC + nRP <= Deadline
  BY <1>9, <1>10, <1>11, <1>12, Powers
<1> QED
  BY <1>1, <1>5, <1>7, <1>13

\* Requests that are appended come after the ones that wait.
LEMMA ConcatOnce ==
  ASSUME NEW q \in Seq(Bank), NEW d \in Seq(Bank), Once(q), Once(d),
         Queued(q) \cap Queued(d) = {}
  PROVE  /\ q \o d \in Seq(Bank) /\ Once(q \o d)
         /\ Len(q \o d) = Len(q) + Len(d)
         /\ Queued(q \o d) = Queued(q) \cup Queued(d)
         /\ \A b \in Queued(q) : Ahead(q \o d, b) = Ahead(q, b)
<1> DEFINE p == q \o d
<1>1. p \in Seq(Bank) /\ Len(p) = Len(q) + Len(d) /\ Len(q) \in Nat /\ Len(d) \in Nat
  OBVIOUS
<1>2. DOMAIN p = 1 .. Len(q) + Len(d) /\ DOMAIN q = 1 .. Len(q) /\ DOMAIN d = 1 .. Len(d)
  BY <1>1
<1>3. /\ \A i \in DOMAIN q : p[i] = q[i] /\ i \in DOMAIN p
      /\ \A i \in DOMAIN d : p[Len(q) + i] = d[i] /\ Len(q) + i \in DOMAIN p
  BY <1>1, <1>2
<1>4. \A i \in DOMAIN p : i \in DOMAIN q \/ (i - Len(q) \in DOMAIN d /\ p[i] = d[i - Len(q)])
  BY <1>1, <1>2
<1> HIDE DEF p
<1>5. \A i \in DOMAIN p : p[i] \in Queued(q) <=> i \in DOMAIN q
  <2>1. \A i \in DOMAIN q : q[i] \in Queued(q)
    BY DEF Queued
  <2>2. \A i \in DOMAIN d : d[i] \notin Queued(q)
    BY DEF Queued
  <2> QED
    BY <1>3, <1>4, <2>1, <2>2
<1>6. Once(p)
  <2> SUFFICES ASSUME NEW i \in DOMAIN p, NEW j \in DOMAIN p, p[i] = p[j] PROVE i = j
    BY DEF Once
  <2>1. CASE i \in DOMAIN q
    BY <1>3, <1>5, <2>1 DEF Once
  <2>2. CASE i \notin DOMAIN q
    <3>1. j \notin DOMAIN q
      BY <1>5, <2>2
    <3>2. i - Len(q) = j - Len(q)
      BY <1>4, <2>2, <3>1 DEF Once
    <3> QED
      BY <1>1, <1>2, <3>2
  <2> QED
    BY <2>1, <2>2
<1>7. Queued(p) = Queued(q) \cup Queued(d)
  <2>1. \A x \in Queued(p) : x \in Queued(q) \cup Queued(d)
    BY <1>3, <1>4 DEF Queued
  <2>2. \A x \in Queued(q) \cup Queued(d) : x \in Queued(p)
    BY <1>3 DEF Queued
  <2> QED
    BY <2>1, <2>2
<1>8. ASSUME NEW b \in Queued(q) PROVE Ahead(p, b) = Ahead(q, b)
  <2>1. ASSUME NEW x \in Bank, NEW i \in DOMAIN p, NEW j \in DOMAIN p, i < j, p[i] = x, p[j] = b
        PROVE  i \in DOMAIN q /\ j \in DOMAIN q /\ q[i] = x /\ q[j] = b
    <3>1. j \in DOMAIN q
      BY <1>5, <1>8, <2>1
    <3>2. i \in DOMAIN q
      BY <1>1, <1>2, <2>1, <3>1
    <3> QED
      BY <1>3, <2>1, <3>1, <3>2
  <2>2. \A x \in Bank : x \in Ahead(p, b) => x \in Ahead(q, b)
    BY <2>1 DEF Ahead
  <2>3. \A x \in Bank : x \in Ahead(q, b) => x \in Ahead(p, b)
    BY <1>3 DEF Ahead
  <2>4. Ahead(p, b) \subseteq Bank /\ Ahead(q, b) \subseteq Bank
    BY DEF Ahead
  <2> QED
    BY <2>2, <2>3, <2>4
<1> QED
  BY <1>1, <1>6, <1>7, <1>8 DEF p

(***************************************************************************)
(* The timers: the clocks advance and the due refreshes are injected       *)
(***************************************************************************)

LEMMA ChannelFields ==
  ASSUME NEW c \in ChannelState
  PROVE  /\ c.since \in [Bank -> Nat] /\ c.hot \in SUBSET Bank /\ c.otherq \in Seq(Bank)
         /\ c.busy \in [Rank -> 0 .. BusyBound] /\ c.writeq \in Seq(Write)
         /\ \A b \in Bank : c.since[b] \in Nat /\ c.busy[rank_of(b)] \in 0 .. BusyBound
         /\ BusyBound \in Nat /\ BusyBound <= nRFC + nRP
<1>1. BusyBound \in Nat /\ BusyBound <= nRFC + nRP
  BY Powers DEF BusyBound
<1> QED
  BY <1>1, RankOfBank DEF ChannelState

\* A request that waits is never due again, however hot its bank gets.
LEMMA WaitingIsNotDue ==
  ASSUME NEW c, ChannelOK(c), NEW b \in Queued(c.otherq)
  PROVE  b \in Bank /\ ~is_due(c, b)
<1>1. c \in ChannelState /\ Once(c.otherq) /\ c.otherq \in Seq(Bank)
  BY ChannelFields DEF ChannelOK, OncePerBank, Once
<1>2. b \in Bank
  BY <1>1 DEF Queued
<1>3. InFront(c.otherq, b) \in Nat
  BY <1>1, <1>2, InFrontBound
<1>4. c.since[b] \in Nat /\ c.busy[rank_of(b)] \in Nat
  BY <1>1, <1>2, ChannelFields
<1>5. c.since[b] + 1 <= Deadline
  BY <1>3, <1>4, Powers DEF ChannelOK, ServedInTime
<1>6. ref_interval(c, b) \in Int /\ ref_interval(c, b) >= nREFI \div 2
  BY Powers DEF ref_interval
<1>7. nREFI \div 2 \in Int
  BY Powers
<1> QED
  BY <1>2, <1>4, <1>5, <1>6, <1>7, Powers DEF is_due

LEMMA InjectFields ==
  ASSUME NEW c \in ChannelState
  PROVE  /\ inject(c).since = [b \in Bank |-> IF is_due(c, b) THEN 0 ELSE c.since[b] + 1]
         /\ inject(c).otherq = c.otherq \o due(c)
         /\ inject(c).busy = [r \in Rank |-> IF c.busy[r] = 0 THEN 0 ELSE c.busy[r] - 1]
         /\ inject(c).hot = c.hot /\ inject(c).writeq = c.writeq
         /\ inject(c) \in ChannelState
<1> DEFINE clk == [b \in Bank |-> IF is_due(c, b) THEN 0 ELSE c.since[b] + 1]
           rest == [r \in Rank |-> IF c.busy[r] = 0 THEN 0 ELSE c.busy[r] - 1]
<1>0. inject(c) = [c EXCEPT !.since = clk, !.otherq = c.otherq \o due(c), !.busy = rest]
  BY DEF inject
<1> HIDE DEF clk, rest
<1>1. /\ inject(c).since = clk /\ inject(c).otherq = c.otherq \o due(c)
      /\ inject(c).busy = rest /\ inject(c).hot = c.hot /\ inject(c).writeq = c.writeq
      /\ inject(c) = [since |-> inject(c).since, hot |-> inject(c).hot,
                      otherq |-> inject(c).otherq, busy |-> inject(c).busy,
                      writeq |-> inject(c).writeq]
  BY <1>0 DEF ChannelState
<1>2. inject(c).otherq \in Seq(Bank)
  BY <1>1, DueBanks, ChannelFields
<1>3. inject(c).since \in [Bank -> Nat]
  <2>1. \A b \in Bank : (IF is_due(c, b) THEN 0 ELSE c.since[b] + 1) \in Nat
    BY ChannelFields
  <2> QED
    BY <1>1, <2>1 DEF clk
<1>4. inject(c).busy \in [Rank -> 0 .. BusyBound]
  BY <1>1, ChannelFields DEF rest
<1>5. inject(c).hot \in SUBSET Bank /\ inject(c).writeq \in Seq(Write)
  BY <1>1, ChannelFields
<1>6. inject(c) \in ChannelState
  BY <1>1, <1>2, <1>3, <1>4, <1>5 DEF ChannelState
<1> QED
  BY <1>1, <1>6 DEF clk, rest

LEMMA InjectOK ==
  ASSUME NEW c, ChannelOK(c)
  PROVE  Injected(inject(c)) /\ ~overflows(c)
<1> DEFINE e == inject(c)
           q == c.otherq
           p == q \o due(c)
<1>1. c \in ChannelState /\ Once(q) /\ q \in Seq(Bank)
  BY ChannelFields DEF ChannelOK, OncePerBank, Once
<1>2. due(c) \in Seq(Bank) /\ Once(due(c)) /\ Queued(due(c)) = {b \in Bank : is_due(c, b)}
  BY DueBanks DEF Once
<1>3. Queued(q) \cap Queued(due(c)) = {}
  BY <1>2, WaitingIsNotDue
<1>4. /\ p \in Seq(Bank) /\ Once(p) /\ Len(p) = Len(q) + Len(due(c))
      /\ Queued(p) = Queued(q) \cup Queued(due(c))
      /\ \A b \in Queued(q) : Ahead(p, b) = Ahead(q, b)
  BY <1>1, <1>2, <1>3, ConcatOnce
<1>5. ~overflows(c)
  <2>1. Len(p) <= NBanks /\ Len(p) \in Nat
    <3> HIDE DEF p
    <3> QED
      BY <1>4, OnceFits
  <2>2. OMax \in Nat
    BY DramSimAssumption
  <2> QED
    BY <1>4, <2>1, <2>2, Powers DEF overflows
<1>6. /\ e.otherq = p /\ e \in ChannelState
      /\ e.since = [b \in Bank |-> IF is_due(c, b) THEN 0 ELSE c.since[b] + 1]
      /\ e.busy = [r \in Rank |-> IF c.busy[r] = 0 THEN 0 ELSE c.busy[r] - 1]
  BY <1>1, InjectFields
<1>7. ASSUME NEW b \in Queued(p)
      PROVE  e.since[b] + InFront(p, b) + e.busy[rank_of(b)] <= Deadline
  <2>0. b \in Bank /\ rank_of(b) \in Rank
    BY <1>4, RankOfBank DEF Queued
  <2>1. InFront(p, b) \in Nat /\ InFront(p, b) + nRFC + nRP <= Deadline
    BY <1>4, <2>0, InFrontBound
  <2>2. c.since[b] \in Nat /\ c.busy[rank_of(b)] \in Nat /\ c.busy[rank_of(b)] <= nRFC + nRP
    BY <1>1, <2>0, ChannelFields, Powers
  <2>3. e.busy[rank_of(b)] = IF c.busy[rank_of(b)] = 0 THEN 0 ELSE c.busy[rank_of(b)] - 1
    BY <1>6, <2>0
  <2>4. CASE b \in Queued(q)
    <3>1. e.since[b] = c.since[b] + 1
      BY <1>6, <2>0, <2>4, WaitingIsNotDue
    <3>2. InFront(p, b) = InFront(q, b)
      BY <1>4, <2>4 DEF InFront, AheadInRank
    <3>3. c.since[b] + InFront(q, b)
            + (IF c.busy[rank_of(b)] = 0 THEN 1 ELSE c.busy[rank_of(b)]) <= Deadline
      BY <2>4 DEF ChannelOK, ServedInTime
    <3> QED
      BY <2>1, <2>2, <2>3, <3>1, <3>2, <3>3, Powers
  <2>5. CASE b \in Queued(due(c))
    <3>1. e.since[b] = 0
      BY <1>2, <1>6, <2>0, <2>5
    <3> QED
      BY <2>1, <2>2, <2>3, <3>1, Powers
  <2> QED
    BY <1>4, <2>4, <2>5
<1>8. Injected(e)
  BY <1>4, <1>6, <1>7 DEF Injected, OncePerBank, Once
<1> QED
  BY <1>5, <1>8

(***************************************************************************)
(* The scheduler: the oldest ready refresh is issued                       *)
(***************************************************************************)

\* Taking request k out of the queue leaves the order of the others.
LEMMA WithoutOnce ==
  ASSUME NEW q \in Seq(Bank), Once(q), NEW k \in DOMAIN q
  PROVE  /\ without(q, k) \in Seq(Bank) /\ Once(without(q, k))
         /\ Queued(without(q, k)) = Queued(q) \ {q[k]}
         /\ \A b \in Queued(without(q, k)) : Ahead(without(q, k), b) = Ahead(q, b) \ {q[k]}
<1> DEFINE p == without(q, k)
           up(i) == IF i < k THEN i ELSE i + 1
<1>1. Len(q) \in Nat /\ DOMAIN q = 1 .. Len(q) /\ k \in 1 .. Len(q)
  OBVIOUS
<1>2. /\ p \in Seq(Bank) /\ Len(p) = Len(q) - 1 /\ DOMAIN p = 1 .. Len(q) - 1
      /\ \A i \in 1 .. Len(q) - 1 : p[i] = IF i < k THEN q[i] ELSE q[i + 1]
  <2>1. p = Removed(q, k)
    BY DEF without, Removed
  <2>2. /\ p \in Seq(Bank) /\ Len(p) = Len(q) - 1
        /\ \A i \in 1 .. Len(q) - 1 : p[i] = IF i < k THEN q[i] ELSE q[i + 1]
    BY <2>1, RemovedProperties
  <2> QED
    BY <2>2
<1> HIDE DEF p
<1>3. \A i \in DOMAIN p : p[i] = q[up(i)]
  BY <1>2
<1>4. \A i \in DOMAIN p : up(i) \in DOMAIN q /\ up(i) # k
  BY <1>1, <1>2
<1>5. \A i \in DOMAIN q : i # k => \E j \in DOMAIN p : up(j) = i
  <2> SUFFICES ASSUME NEW i \in DOMAIN q, i # k PROVE \E j \in DOMAIN p : up(j) = i
    OBVIOUS
  <2>1. CASE i < k
    BY <1>1, <1>2, <2>1
  <2>2. CASE i > k
    <3>1. i - 1 \in DOMAIN p /\ up(i - 1) = i
      BY <1>1, <1>2, <2>2
    <3> QED
      BY <3>1
  <2> QED
    BY <1>1, <2>1, <2>2
<1>6. \A i, j \in DOMAIN p : (up(i) = up(j) => i = j) /\ (i < j <=> up(i) < up(j))
  BY <1>1, <1>2
<1> HIDE DEF p, up
<1>7. Once(p)
  BY <1>3, <1>4, <1>6 DEF Once
<1>8. Queued(p) = Queued(q) \ {q[k]}
  <2>1. \A x \in Queued(p) : x \in Queued(q) /\ x # q[k]
    BY <1>3, <1>4 DEF Queued, Once
  <2>2. \A x \in Queued(q) : x # q[k] => x \in Queued(p)
    BY <1>3, <1>5 DEF Queued
  <2> QED
    BY <2>1, <2>2
<1>9. ASSUME NEW b \in Queued(p) PROVE Ahead(p, b) = Ahead(q, b) \ {q[k]}
  <2>1. ASSUME NEW x \in Ahead(p, b) PROVE x \in Ahead(q, b) /\ x # q[k]
    <3>1. PICK i \in DOMAIN p, j \in DOMAIN p : x \in Bank /\ i < j /\ p[i] = x /\ p[j] = b
      BY <2>1 DEF Ahead
    <3>2. up(i) \in DOMAIN q /\ up(j) \in DOMAIN q /\ up(i) < up(j) /\ q[up(i)] = x /\ q[up(j)] = b
      BY <1>3, <1>4, <1>6, <3>1
    <3>3. x # q[k]
      BY <1>4, <3>1, <3>2 DEF Once
    <3> QED
      BY <3>1, <3>2, <3>3 DEF Ahead
  <2>2. ASSUME NEW x \in Ahead(q, b), x # q[k] PROVE x \in Ahead(p, b)
    <3>1. PICK i \in DOMAIN q, j \in DOMAIN q : x \in Bank /\ i < j /\ q[i] = x /\ q[j] = b
      BY <2>2 DEF Ahead
    <3>2. b # q[k]
      BY <1>8, <1>9
    <3>3. PICK m \in DOMAIN p : up(m) = i
      BY <1>5, <2>2, <3>1
    <3>4. PICK n \in DOMAIN p : up(n) = j
      BY <1>5, <3>1, <3>2
    <3>5. m < n /\ p[m] = x /\ p[n] = b
      BY <1>3, <1>6, <3>1, <3>3, <3>4
    <3> QED
      BY <3>1, <3>5 DEF Ahead
  <2> QED
    BY <2>1, <2>2
<1> QED
  BY <1>2, <1>7, <1>8, <1>9 DEF p

LEMMA RefreshOK ==
  ASSUME NEW c, Injected(c)
  PROVE  ChannelOK(refresh(c)) /\ refresh(c).writeq = c.writeq
<1> DEFINE q == c.otherq
<1>1. c \in ChannelState /\ Once(q) /\ q \in Seq(Bank) /\ DOMAIN q \subseteq Nat
  BY ChannelFields DEF Injected, OncePerBank, Once
<1>2. \A b \in Queued(q) : b \in Bank /\ rank_of(b) \in Rank
  BY <1>1, RankOfBank DEF Queued
<1>3. \A b \in Queued(q) : /\ c.since[b] \in Nat /\ c.busy[rank_of(b)] \in Nat
                           /\ InFront(q, b) \in Nat
  BY <1>1, <1>2, InFrontBound, ChannelFields
<1>4. \A b \in Queued(q) : c.since[b] + InFront(q, b) + c.busy[rank_of(b)] <= Deadline
  BY DEF Injected
<1>5. CASE ready(c) = {}
  <2>1. \A b \in Queued(q) : c.busy[rank_of(b)] # 0
    BY <1>5 DEF ready, Queued
  <2>2. refresh(c) = c
    BY <1>5 DEF refresh
  <2>3. ServedInTime(c)
    BY <1>3, <1>4, <2>1, Powers DEF ServedInTime
  <2> QED
    BY <2>2, <2>3 DEF ChannelOK, Injected
<1>6. CASE ready(c) # {}
  <2> DEFINE k == Min(ready(c))
             x == q[k]
             p == without(q, k)
             e == refresh(c)
  <2>1. k \in ready(c) /\ \A i \in ready(c) : k <= i
    <3>1. ready(c) \subseteq Nat
      BY <1>1 DEF ready
    <3> QED
      BY <1>6, <3>1, MinIsLeast
  <2>2. k \in DOMAIN q /\ c.busy[rank_of(x)] = 0 /\ x \in Queued(q)
    BY <2>1 DEF ready, Queued
  <2>3. e = [c EXCEPT !.otherq = p, !.busy[rank_of(x)] = nRFC]
    BY <1>6 DEF refresh
  <2> HIDE DEF e, k
  <2>4. /\ p \in Seq(Bank) /\ Once(p) /\ Queued(p) = Queued(q) \ {x}
        /\ \A b \in Queued(p) : Ahead(p, b) = Ahead(q, b) \ {x}
    BY <1>1, <2>2, WithoutOnce
  <2> HIDE DEF p
  <2>5. /\ e.otherq = p /\ e.since = c.since /\ e.writeq = c.writeq /\ e.hot = c.hot
        /\ e.busy = [c.busy EXCEPT ![rank_of(x)] = nRFC]
        /\ e = [since |-> e.since, hot |-> e.hot, otherq |-> e.otherq, busy |-> e.busy,
                writeq |-> e.writeq]
    BY <1>1, <2>3 DEF ChannelState
  <2>6. e.busy \in [Rank -> 0 .. BusyBound]
    <3>1. nRFC \in 0 .. BusyBound
      BY Powers DEF BusyBound
    <3> QED
      BY <1>1, <2>5, <3>1, ChannelFields
  <2>7. e \in ChannelState
    BY <1>1, <2>4, <2>5, <2>6, ChannelFields DEF ChannelState
  <2>8. ASSUME NEW b \in Queued(p)
        PROVE  c.since[b] + InFront(p, b)
                 + (IF e.busy[rank_of(b)] = 0 THEN 1 ELSE e.busy[rank_of(b)]) <= Deadline
    <3> DEFINE A == Ahead(q, b)
               R == AheadInRank(q, b)
               r == rank_of(b)
    <3>1. b \in Queued(q) /\ b # x /\ b \in Bank /\ r \in Rank
      BY <1>2, <2>4, <2>8
    <3>2. IsFiniteSet(A) /\ IsFiniteSet(R) /\ Cardinality(A) \in Nat /\ Cardinality(R) \in Nat
      BY <1>1, <3>1, InFrontBound, FS_CardinalityType
    <3>3. Ahead(p, b) = A \ {x} /\ AheadInRank(p, b) = R \ {x}
      BY <2>4 DEF AheadInRank
    <3>4. /\ Cardinality(Ahead(p, b)) = IF x \in A THEN Cardinality(A) - 1 ELSE Cardinality(A)
          /\ Cardinality(AheadInRank(p, b))
               = IF x \in R THEN Cardinality(R) - 1 ELSE Cardinality(R)
      <4> HIDE DEF A, R, x
      <4> QED
        BY <3>2, <3>3, FS_RemoveElement
    <3>5. x \in R <=> x \in A /\ rank_of(x) = r
      BY DEF AheadInRank
    <3> DEFINE a == Cardinality(A)
               n == Cardinality(R)
               s == c.since[b]
               y == c.busy[r]
    <3>6. InFront(q, b) = a + (nRFC - 1) * n
      BY DEF InFront
    <3>7. s + (a + (nRFC - 1) * n) + y <= Deadline /\ s \in Nat /\ y \in Nat /\ a \in Nat /\ n \in Nat
      BY <1>3, <1>4, <3>1, <3>2, <3>6
    <3>8. CASE y # 0
      <4>1. rank_of(x) # r
        BY <2>2, <3>8
      <4>2. e.busy[r] = y
        BY <1>1, <2>5, <3>1, <4>1, ChannelFields
      <4>3. InFront(p, b) = (IF x \in A THEN a - 1 ELSE a) + (nRFC - 1) * n
        BY <3>4, <3>5, <4>1 DEF InFront
      <4> QED
        BY <3>7, <3>8, <4>2, <4>3, Powers
    <3>9. CASE y = 0
      <4>1. x \in A
        <5>1. PICK j \in DOMAIN q : q[j] = b
          BY <3>1 DEF Queued
        <5>2. j \in ready(c)
          BY <3>9, <5>1 DEF ready
        <5>3. k < j
          BY <1>1, <2>1, <2>2, <3>1, <5>1, <5>2
        <5> QED
          BY <1>2, <2>2, <5>1, <5>3 DEF Ahead
      <4>2. CASE rank_of(x) = r
        <5>1. e.busy[r] = nRFC
          BY <1>1, <2>5, <3>1, <4>2, ChannelFields
        <5>2. InFront(p, b) = (a - 1) + (nRFC - 1) * (n - 1)
          BY <3>4, <3>5, <4>1, <4>2 DEF InFront
        <5>3. (nRFC - 1) * (n - 1) = (nRFC - 1) * n - nRFC + 1
          BY <3>7, Powers
        <5> QED
          BY <3>7, <3>9, <5>1, <5>2, <5>3, Powers
      <4>3. CASE rank_of(x) # r
        <5>1. e.busy[r] = 0
          BY <1>1, <2>5, <3>1, <3>9, <4>3, ChannelFields
        <5>2. InFront(p, b) = (a - 1) + (nRFC - 1) * n
          BY <3>4, <3>5, <4>1, <4>3 DEF InFront
        <5> QED
          BY <3>7, <3>9, <5>1, <5>2, Powers
      <4> QED
        BY <4>2, <4>3
    <3> QED
      BY <3>8, <3>9
  <2>9. ChannelOK(e)
    BY <2>4, <2>5, <2>7, <2>8 DEF ChannelOK, OncePerBank, Once, ServedInTime
  <2> QED
    BY <2>5, <2>9 DEF e
<1> QED
  BY <1>5, <1>6

(***************************************************************************)
(* A tick of one channel, and of all                                       *)
(***************************************************************************)

\* The writes of a channel fit into its queue and are addressed to it.
WritesOK(c, ch) ==
  Len(c.writeq) <= WMax /\ \A i \in DOMAIN c.writeq : c.writeq[i].vec.channel = ch

LEMMA IdleQueueOK ==
  ASSUME NEW c \in ChannelState, c.otherq = <<>>
  PROVE  ChannelOK(c)
BY DEF ChannelOK, OncePerBank, ServedInTime, Queued

LEMMA TickOK ==
  ASSUME NEW c, NEW ch, ChannelOK(c), WritesOK(c, ch), NEW e \in tick(inject(c))
  PROVE  ChannelOK(e) /\ WritesOK(e, ch)
<1> DEFINE m == inject(c)
<1>1. Injected(m) /\ m \in ChannelState /\ c \in ChannelState
  BY InjectOK DEF Injected, ChannelOK
<1>2. m.writeq = c.writeq
  BY <1>1, InjectFields
<1> HIDE DEF m
<1>3. m.writeq \in Seq(Write) /\ WritesOK(m, ch) /\ WMax \in Nat
  BY <1>1, <1>2, ChannelFields, DramSimAssumption DEF WritesOK
<1>4. CASE m.otherq # <<>>
  <2>1. e = refresh(m)
    BY <1>4 DEF tick, m
  <2> QED
    BY <1>1, <1>3, <2>1, RefreshOK DEF WritesOK
<1>5. CASE m.otherq = <<>>
  <2>1. \/ e = m
        \/ \E i \in DOMAIN m.writeq : e = [m EXCEPT !.writeq = without(m.writeq, i)]
        \/ \E i \in DOMAIN m.writeq : e = precharge(m, i)
    BY <1>5 DEF tick, m
  <2>2. CASE e = m
    BY <1>1, <1>3, <1>5, <2>2, IdleQueueOK
  <2>3. CASE \E i \in DOMAIN m.writeq : e = [m EXCEPT !.writeq = without(m.writeq, i)]
    <3>1. PICK i \in DOMAIN m.writeq : e = [m EXCEPT !.writeq = without(m.writeq, i)]
      BY <2>3
    <3> DEFINE w == m.writeq
               p == without(w, i)
    <3>2. /\ p \in Seq(Write) /\ Len(p) = Len(w) - 1
          /\ \A k \in 1 .. Len(w) - 1 : p[k] = IF k < i THEN w[k] ELSE w[k + 1]
      <4>1. p = Removed(w, i)
        BY DEF without, Removed
      <4> QED
        BY <1>3, <4>1, RemovedProperties
    <3> HIDE DEF p
    <3>3. e \in ChannelState /\ e.otherq = <<>> /\ e.writeq = p
      BY <1>1, <1>5, <3>1, <3>2 DEF ChannelState, p
    <3>4. Len(w) \in Nat /\ DOMAIN w = 1 .. Len(w) /\ DOMAIN p = 1 .. Len(w) - 1
      BY <1>3, <3>2
    <3>5. ASSUME NEW k \in DOMAIN p PROVE \E j \in DOMAIN w : p[k] = w[j]
      <4>1. k \in DOMAIN w /\ k + 1 \in DOMAIN w /\ p[k] = IF k < i THEN w[k] ELSE w[k + 1]
        BY <3>2, <3>4
      <4> QED
        BY <4>1
    <3>6. WritesOK(e, ch)
      BY <1>3, <3>2, <3>3, <3>4, <3>5 DEF WritesOK
    <3> QED
      BY <3>3, <3>6, IdleQueueOK
  <2>4. CASE \E i \in DOMAIN m.writeq : e = precharge(m, i)
    <3>1. PICK i \in DOMAIN m.writeq : e = precharge(m, i)
      BY <2>4
    <3> DEFINE r == m.writeq[i].vec.rank
               n == IF m.busy[r] > nRP THEN m.busy[r] ELSE nRP
               y == [m.busy EXCEPT ![r] = n]
    <3>2. e = [m EXCEPT !.busy = y]
      BY <1>1, <3>1 DEF precharge, ChannelState
    <3>3. y \in [Rank -> 0 .. BusyBound]
      <4>1. m.busy \in [Rank -> 0 .. BusyBound] /\ BusyBound \in Nat
        BY <1>1, ChannelFields
      <4>2. r \in Rank => n \in 0 .. BusyBound
        BY <4>1, Powers DEF BusyBound
      <4> HIDE DEF n, r
      <4> QED
        BY <4>1, <4>2
    <3> HIDE DEF y
    <3>4. e \in ChannelState /\ e.otherq = <<>> /\ e.writeq = m.writeq
      BY <1>1, <1>5, <3>2, <3>3 DEF ChannelState
    <3> QED
      BY <1>3, <3>4, IdleQueueOK DEF WritesOK
  <2> QED
    BY <2>1, <2>2, <2>3, <2>4
<1> QED
  BY <1>4, <1>5

LEMMA ChannelsFinite == IsFiniteSet(Channel)
<1>1. 2^ChBits \in Int
  BY DramSimAssumption, PowerAssumption
<1> QED
  BY <1>1, FS_Interval DEF Channel

\* RamMemory::tick ticks every channel, each from its own state.
LEMMA EveryChannelTicks ==
  ASSUME NEW X, NEW cs \in [Channel -> X], NEW s \in tickOnce(cs)
  PROVE  /\ s = [ch \in Channel |-> s[ch]]
         /\ \A ch \in Channel : s[ch] \in tick(inject(cs[ch]))
<1> DEFINE nexts(ch) == tick(inject(cs[ch]))
           Y == UNION {nexts(ch) : ch \in Channel}
           U == Y \cup X
           V == SUBSET [Channel -> U]
           op(ch, acc) == {[t EXCEPT ![ch] = n] : n \in nexts(ch), t \in acc}
           F == [x \in Channel \X V |-> op(x[1], x[2])]
           first(S) == CHOOSE x \in S : TRUE
           Is(g) == g = [S \in SUBSET Channel |->
                           IF S = {} THEN {cs} ELSE op(first(S), g[S \ {first(S)}])]
           d == CHOOSE g : Is(g)
<1> HIDE DEF nexts
<1>1. {cs} \in V
  <2>1. \A ch \in Channel : cs[ch] \in U
    <3>1. \A ch \in Channel : cs[ch] \in X
      OBVIOUS
    <3> HIDE DEF Y
    <3> QED
      BY <3>1
  <2> HIDE DEF U
  <2>2. cs \in [Channel -> U]
    BY <2>1
  <2> QED
    BY <2>2
<1>2. ASSUME NEW ch \in Channel, NEW acc \in V PROVE op(ch, acc) \in V
  <2> SUFFICES ASSUME NEW n \in nexts(ch), NEW t \in acc PROVE [t EXCEPT ![ch] = n] \in [Channel -> U]
    OBVIOUS
  <2>1. n \in U /\ t \in [Channel -> U]
    OBVIOUS
  <2> HIDE DEF U
  <2> QED
    BY <2>1
<1>3. F \in [Channel \X V -> V]
  <2> HIDE DEF op, V
  <2> QED
    BY <1>2
<1>4. PICK it \in [SUBSET Channel -> V] : Recursion(it, Channel, {cs}, F)
  <2> HIDE DEF V, F
  <2> QED
    BY <1>1, <1>3, ChannelsFinite, RecursionExists
<1>5. Is(it)
  <2> HIDE DEF V, op
  <2>1. ASSUME NEW S \in SUBSET Channel, S # {}
        PROVE  F[<<first(S), it[S \ {first(S)}]>>] = op(first(S), it[S \ {first(S)}])
    <3>1. first(S) \in Channel /\ it[S \ {first(S)}] \in V
      BY <2>1
    <3> HIDE DEF first
    <3> QED
      BY <3>1
  <2> HIDE DEF F
  <2>2. it = [S \in SUBSET Channel |->
                IF S = {} THEN {cs} ELSE F[<<first(S), it[S \ {first(S)}]>>]]
    BY <1>4 DEF Recursion
  <2> HIDE DEF first
  <2> QED
    BY <2>1, <2>2
<1>6. Is(d)
  <2> HIDE DEF Is
  <2> QED
    BY <1>5, Zenon
<1>7. d = [S \in SUBSET Channel |-> IF S = {} THEN {cs} ELSE op(first(S), d[S \ {first(S)}])]
  <2> HIDE DEF d, op, first
  <2> QED
    BY <1>6
<1>8. tickOnce(cs) = d[Channel]
  BY DEF tickOnce, FoldSet, MapThenFoldSet, nexts
<1> HIDE DEF d
<1> DEFINE Ticked(S, t) == t = [ch \in Channel |-> t[ch]] /\ \A ch \in S : t[ch] \in nexts(ch)
           T == {S \in SUBSET Channel : \A t \in d[S] : Ticked(S, t)}
<1>9. {} \in T
  <2>1. d[{}] = {cs}
    BY <1>7
  <2> QED
    BY <2>1
<1>10. ASSUME NEW S \in SUBSET Channel, S # {}, \A x \in S : S \ {x} \in T PROVE S \in T
  <2> DEFINE x == first(S)
  <2>1. x \in S /\ x \in Channel
    BY <1>10
  <2>2. d[S] = op(x, d[S \ {x}])
    <3> HIDE DEF op, first
    <3> QED
      BY <1>7, <1>10 DEF x
  <2>3. S \ {x} \in T
    BY <1>10, <2>1
  <2> HIDE DEF x
  <2>4. ASSUME NEW t \in d[S] PROVE Ticked(S, t)
    <3>1. PICK n \in nexts(x), u \in d[S \ {x}] : t = [u EXCEPT ![x] = n]
      <4> DEFINE acc == d[S \ {x}]
      <4>1. t \in op(x, acc)
        <5> HIDE DEF op
        <5> QED
          BY <2>2
      <4> HIDE DEF acc
      <4>2. \E n \in nexts(x), u \in acc : t = [u EXCEPT ![x] = n]
        BY <4>1
      <4> QED
        BY <4>2 DEF acc
    <3>2. u = [ch \in Channel |-> u[ch]] /\ \A ch \in S \ {x} : u[ch] \in nexts(ch)
      BY <2>3
    <3>3. t = [ch \in Channel |-> IF ch = x THEN n ELSE u[ch]]
      BY <2>1, <3>1, <3>2
    <3> QED
      BY <2>1, <3>2, <3>3
  <2> QED
    BY <2>4
<1>11. Channel \in T
  <2> HIDE DEF T
  <2> QED
    BY <1>9, <1>10, ChannelsFinite, InductionOverSubsets
<1> QED
  BY <1>8, <1>11 DEF nexts

(***************************************************************************)
(* The numbers of a bank                                                   *)
(***************************************************************************)

\* A number of three digits.
LEMMA MixedRadix ==
  ASSUME NEW a \in Nat \ {0}, NEW b \in Nat \ {0}, NEW c \in Nat, NEW x \in Nat, x < c * (b * a)
  PROVE  /\ x \div (a * b) \in 0 .. c - 1
         /\ (x \div a) % b \in 0 .. b - 1
         /\ x % a \in 0 .. a - 1
         /\ x = ((x \div (a * b)) * b + ((x \div a) % b)) * a + (x % a)
<1> DEFINE y == x \div a
           low == x % a
           top == y \div b
           mid == y % b
<1>1. c * (b * a) = (c * b) * a /\ c * b \in Nat
  OBVIOUS
<1>2. y \in 0 .. c * b - 1 /\ low \in 0 .. a - 1 /\ x = y * a + low
  <2>1. x \in 0 .. (c * b) * a - 1
    BY <1>1
  <2> QED
    BY <1>1, <2>1, DivModBound
<1> HIDE DEF y, low
<1>3. top \in 0 .. c - 1 /\ mid \in 0 .. b - 1 /\ y = top * b + mid
  BY <1>2, DivModBound
<1> HIDE DEF top, mid
<1>4. x \div (a * b) = top
  <2>1. x = top * (a * b) + (mid * a + low)
    <3>1. y * a = (top * b) * a + mid * a
      BY <1>3
    <3>2. (top * b) * a = top * (a * b)
      BY <1>3
    <3>3. top * (a * b) \in Int /\ mid * a \in Int /\ low \in Int
      BY <1>2, <1>3
    <3> QED
      BY <1>2, <3>1, <3>2, <3>3
  <2>2. mid * a <= (b - 1) * a /\ (b - 1) * a = a * b - a /\ mid * a \in Nat
    BY <1>3
  <2>3. a * b \in Nat \ {0} /\ top \in Nat
    BY <1>3
  <2>4. mid * a + low \in 0 .. a * b - 1
    BY <1>2, <2>2, <2>3
  <2> QED
    BY <2>1, <2>3, <2>4, DivMod
<1> QED
  BY <1>2, <1>3, <1>4 DEF y, low, top, mid

C == 2^ChBits
K == 2^BankBits
W == 2^RowBits
R == 2^RaBits
B == 2^BaBits
P == 2^RoBits
L == 2^CoBits

LEMMA Radices ==
  /\ C \in Nat \ {0} /\ K \in Nat \ {0} /\ W \in Nat \ {0} /\ R \in Nat \ {0}
  /\ B \in Nat \ {0} /\ P \in Nat \ {0} /\ L \in Nat \ {0}
  /\ B = 2 /\ W <= P /\ K = R * B /\ BanksPerRank = B
  /\ Channel = 0 .. C - 1
  /\ 2^(RowBits + BankBits) = W * K /\ 2^(RowBits + ChBits) = W * C
  /\ 2^(ChBits + BankBits) = C * K /\ 2^(CoBits + ChBits) = L * C
  /\ 2^(ChBits + RaBits + BaBits + RowBits) = C * (K * W)
<1> USE DramSimAssumption, GeometryAssumption, PowerAssumption
<1> DEFINE N == ChBits + RaBits + BaBits + RoBits + CoBits + RowBits
<1>0. /\ ChBits \in 0 .. N /\ RaBits \in 0 .. N /\ BaBits \in 0 .. N /\ RoBits \in 0 .. N
      /\ CoBits \in 0 .. N /\ RowBits \in 0 .. N /\ BankBits \in 0 .. N
      /\ BankBits + RowBits \in 0 .. N /\ RoBits - RowBits \in 0 .. N /\ 1 \in 0 .. N
  BY DEF BankBits
<1>1. \A i, j \in 0 .. N : 2^i \in Nat \ {0} /\ 2^(i + j) = 2^i * 2^j /\ 2^1 = 2
  OBVIOUS
<1> HIDE DEF N
<1>2. /\ C \in Nat \ {0} /\ K \in Nat \ {0} /\ W \in Nat \ {0} /\ R \in Nat \ {0}
      /\ B \in Nat \ {0} /\ P \in Nat \ {0} /\ L \in Nat \ {0}
  BY <1>0, <1>1 DEF C, K, W, R, B, P, L
<1>3. B = 2 /\ BanksPerRank = B
  BY <1>0, <1>1 DEF B, BanksPerRank
<1>4. W <= P
  <2>1. P = W * 2^(RoBits - RowBits)
    <3>1. RowBits + (RoBits - RowBits) = RoBits
      OBVIOUS
    <3> QED
      BY <1>0, <1>1, <3>1 DEF P, W
  <2>2. 2^(RoBits - RowBits) \in Nat \ {0}
    BY <1>0, <1>1
  <2>3. ASSUME NEW m \in Nat \ {0}, NEW n \in Nat \ {0} PROVE m <= m * n
    OBVIOUS
  <2> QED
    BY <1>2, <2>1, <2>2, <2>3, Zenon
<1>5. K = R * B
  BY <1>0, <1>1 DEF K, R, B, BankBits
<1>6. /\ 2^(RowBits + BankBits) = W * K /\ 2^(RowBits + ChBits) = W * C
      /\ 2^(ChBits + BankBits) = C * K /\ 2^(CoBits + ChBits) = L * C
  BY <1>0, <1>1 DEF W, K, C, L
<1>7. 2^(ChBits + RaBits + BaBits + RowBits) = C * (K * W)
  <2>1. ChBits + RaBits + BaBits + RowBits = ChBits + (BankBits + RowBits)
    BY DEF BankBits
  <2>2. 2^(BankBits + RowBits) = K * W
    BY <1>0, <1>1 DEF K, W
  <2>3. 2^(ChBits + (BankBits + RowBits)) = C * 2^(BankBits + RowBits)
    BY <1>0, <1>1 DEF C
  <2> QED
    BY <2>1, <2>2, <2>3
<1> QED
  BY <1>2, <1>3, <1>4, <1>5, <1>6, <1>7 DEF Channel, C

Index == [vault : 0 .. C - 1, bank : 0 .. K - 1, row : 0 .. W - 1]

\* The three address maps take a set number apart without loss.
LEMMA SetNumber ==
  ASSUME NEW set \in Sets
  PROVE  splitSetNum(set) \in Index /\ getSetNum(splitSetNum(set)) = set
<1>t. C \in Nat \ {0} /\ K \in Nat \ {0} /\ W \in Nat \ {0} /\ C \in Nat /\ K \in Nat /\ W \in Nat
  BY Radices
<1>p. /\ 2^(RowBits + BankBits) = W * K /\ 2^(RowBits + ChBits) = W * C
      /\ 2^(ChBits + BankBits) = C * K
  BY Radices
<1>0. set \in Nat /\ set < C * (K * W)
  <2> DEFINE N == C * (K * W)
  <2>1. N \in Nat
    BY <1>t
  <2>2. set \in 0 .. N - 1
    BY Radices, DramSimAssumption, Zenon
  <2> HIDE DEF N
  <2>3. set \in Nat /\ set < N
    BY <2>1, <2>2
  <2> QED
    BY <2>3 DEF N
<1>1. CASE AddrMap = 1
  <2>1. splitSetNum(set) = [vault |-> set \div (W * K), bank |-> (set \div W) % K, row |-> set % W]
    BY <1>1, <1>p DEF splitSetNum, low_bits, W, K
  <2>2. /\ set \div (W * K) \in 0 .. C - 1 /\ (set \div W) % K \in 0 .. K - 1
        /\ set % W \in 0 .. W - 1
        /\ set = ((set \div (W * K)) * K + ((set \div W) % K)) * W + (set % W)
    BY <1>0, <1>t, MixedRadix, Zenon
  <2>3. getSetNum(splitSetNum(set))
          = ((set \div (W * K)) * K + ((set \div W) % K)) * W + (set % W)
    BY <1>1, <2>1 DEF getSetNum, W, K
  <2> QED
    BY <2>1, <2>2, <2>3 DEF Index
<1>2. CASE AddrMap = 2
  <2>1. splitSetNum(set) = [vault |-> (set \div W) % C, bank |-> set \div (W * C), row |-> set % W]
    BY <1>2, <1>p DEF splitSetNum, low_bits, W, C
  <2>0. set < K * (C * W)
    <3>1. C * (K * W) = K * (C * W)
      BY <1>t
    <3> QED
      BY <1>0, <3>1
  <2>2. /\ set \div (W * C) \in 0 .. K - 1 /\ (set \div W) % C \in 0 .. C - 1
        /\ set % W \in 0 .. W - 1
        /\ set = ((set \div (W * C)) * C + ((set \div W) % C)) * W + (set % W)
    BY <1>0, <1>t, <2>0, MixedRadix, Zenon
  <2>3. getSetNum(splitSetNum(set))
          = ((set \div (W * C)) * C + ((set \div W) % C)) * W + (set % W)
    BY <1>2, <2>1 DEF getSetNum, W, C
  <2> QED
    BY <2>1, <2>2, <2>3 DEF Index
<1>3. CASE AddrMap = 3
  <2>1. splitSetNum(set) = [vault |-> set % C, bank |-> (set \div C) % K, row |-> set \div (C * K)]
    BY <1>3, <1>p DEF splitSetNum, low_bits, K, C
  <2>0. set < W * (K * C)
    <3>1. C * (K * W) = W * (K * C)
      BY <1>t
    <3> QED
      BY <1>0, <3>1
  <2>2. /\ set \div (C * K) \in 0 .. W - 1 /\ (set \div C) % K \in 0 .. K - 1
        /\ set % C \in 0 .. C - 1
        /\ set = ((set \div (C * K)) * K + ((set \div C) % K)) * C + (set % C)
    BY <1>0, <1>t, <2>0, MixedRadix, Zenon
  <2>3. getSetNum(splitSetNum(set))
          = ((set \div (C * K)) * K + ((set \div C) % K)) * C + (set % C)
    BY <1>3, <2>1 DEF getSetNum, K, C
  <2> QED
    BY <2>1, <2>2, <2>3 DEF Index
<1> QED
  BY <1>1, <1>2, <1>3, DramSimAssumption

LEMMA TargetType ==
  ASSUME NEW set \in Sets
  PROVE  target(set) \in Index
<1>t. C \in Nat \ {0} /\ K \in Nat \ {0} /\ W \in Nat \ {0} /\ C \in Nat /\ K \in Nat /\ W \in Nat
  BY Radices
<1>p. 2^(RowBits + BankBits) = W * K
  BY Radices
<1> DEFINE i == splitSetNum(set)
           x == i.vault * K + i.bank
<1>1. i.vault \in 0 .. C - 1 /\ i.bank \in 0 .. K - 1
  BY SetNumber DEF Index
<1>2. target(set) = [vault |-> x \div (W * K), bank |-> (x \div W) % K, row |-> x % W]
  BY <1>p DEF target, getPhysicalIndex, splitId, low_bits, W, K
<1> HIDE DEF i
<1>3. x \in Nat /\ x < C * (K * W)
  <2>1. ASSUME NEW v \in 0 .. C - 1, NEW k \in 0 .. K - 1
        PROVE  v * K + k \in Nat /\ v * K + k < C * K
    BY <1>t
  <2>2. ASSUME NEW m \in Nat, NEW n \in Nat \ {0} PROVE m <= m * n
    OBVIOUS
  <2>3. x \in Nat /\ x < C * K
    BY <1>1, <2>1
  <2>4. C * K \in Nat /\ (C * K) * W = C * (K * W) /\ C * (K * W) \in Nat
    BY <1>t
  <2>5. C * K <= (C * K) * W
    BY <1>t, <2>2, <2>4, Zenon
  <2> HIDE DEF x
  <2> DEFINE m == C * K
             n == C * (K * W)
  <2>6. x \in Nat /\ x < m /\ m <= n /\ m \in Nat /\ n \in Nat
    BY <2>3, <2>4, <2>5
  <2> HIDE DEF m, n
  <2>7. x < n
    BY <2>6
  <2> QED
    BY <2>6, <2>7 DEF n
<1> HIDE DEF x
<1>4. /\ x \div (W * K) \in 0 .. C - 1 /\ (x \div W) % K \in 0 .. K - 1 /\ x % W \in 0 .. W - 1
  BY <1>3, <1>t, MixedRadix, Zenon
<1> QED
  BY <1>2, <1>4 DEF Index

LEMMA SmallMod ==
  ASSUME NEW n \in Nat \ {0}, NEW x \in 0 .. n - 1
  PROVE  x % n = x
<1>1. 0 * n + x = x
  OBVIOUS
<1> QED
  BY <1>1, DivMod

\* What writeRow encodes is what send decodes.
LEMMA CodecInverse ==
  ASSUME NEW t \in Index
  PROVE  LET a == addr_vec(encode(t))
         IN  /\ a.channel = t.vault /\ a.col = 0 /\ a.row = t.row
             /\ a.rank = rank_of(t.bank) /\ a.bank = t.bank % BanksPerRank
             /\ a.rank * 2 + a.bank = t.bank
<1> DEFINE ra == t.bank \div B
           ba == t.bank % B
           row == t.row
           v == t.vault
           m3 == row * B + ba
           m2 == m3 * R + ra
           m1 == m2 * L
           addr == m1 * C + v
<1>t. /\ C \in Nat \ {0} /\ K \in Nat \ {0} /\ W \in Nat \ {0} /\ R \in Nat \ {0}
      /\ B \in Nat \ {0} /\ P \in Nat \ {0} /\ L \in Nat \ {0}
      /\ B = 2 /\ W <= P /\ K = R * B /\ BanksPerRank = B
  BY Radices
<1>0. v \in 0 .. C - 1 /\ t.bank \in 0 .. R * B - 1 /\ row \in 0 .. P - 1 /\ row \in Nat
  BY <1>t DEF Index
<1>1. ra \in 0 .. R - 1 /\ ba \in 0 .. B - 1 /\ t.bank = ra * B + ba
  BY <1>t, <1>0, DivModBound
<1>2. low_bits(ra, RaBits) = ra /\ low_bits(row, RoBits) = row /\ low_bits(v, ChBits) = v
  BY <1>t, <1>0, <1>1, SmallMod DEF low_bits, R, P, C
<1>3. encode(t) = m2 * (L * C) + v
  BY <1>2, <1>t, Radices DEF encode, low_bits, B, R
<1> HIDE DEF ra, ba, row, v
<1>4. m3 \in Nat /\ m2 \in Nat /\ m1 \in Nat
  <2>1. m3 \in Nat
    BY <1>t, <1>0, <1>1
  <2> HIDE DEF m3
  <2>2. m2 \in Nat
    BY <1>t, <1>1, <2>1
  <2> HIDE DEF m2
  <2>3. m1 \in Nat
    BY <1>t, <2>2
  <2> QED
    BY <2>1, <2>2, <2>3
<1>5. encode(t) = addr
  <2> HIDE DEF m2
  <2>1. m2 * (L * C) = (m2 * L) * C
    BY <1>t, <1>4
  <2> QED
    BY <1>3, <2>1
<1>6. addr \div C = m1 /\ addr % C = v
  <2> HIDE DEF m1
  <2> QED
    BY <1>t, <1>0, <1>4, DivMod
<1>7. m1 \div L = m2 /\ m1 % L = 0
  <2> HIDE DEF m2
  <2>1. m1 = m2 * L + 0 /\ 0 \in 0 .. L - 1
    BY <1>t, <1>4
  <2> QED
    BY <1>t, <1>4, <2>1, DivMod
<1>8. m2 \div R = m3 /\ m2 % R = ra
  <2> HIDE DEF m3
  <2> QED
    BY <1>t, <1>1, <1>4, DivMod
<1>9. m3 \div B = row /\ m3 % B = ba
  BY <1>t, <1>0, <1>1, DivMod
<1> HIDE DEF m1, m2, m3, addr
<1>10. addr_vec(encode(t)) = [channel |-> v, col |-> 0, rank |-> ra, bank |-> ba, row |-> row]
  <2>1. /\ encode(t) \div 2^ChBits = m1 /\ m1 \div 2^CoBits = m2
        /\ m2 \div 2^RaBits = m3 /\ m3 \div 2^BaBits = row
    BY <1>5, <1>6, <1>7, <1>8, <1>9 DEF C, L, R, B
  <2>2. /\ low_bits(encode(t), ChBits) = v /\ low_bits(m1, CoBits) = 0
        /\ low_bits(m2, RaBits) = ra /\ low_bits(m3, BaBits) = ba /\ low_bits(row, RoBits) = row
    BY <1>2, <1>5, <1>6, <1>7, <1>8, <1>9 DEF C, L, R, B, low_bits
  <2> QED
    BY <2>1, <2>2 DEF addr_vec
<1>11. ra = rank_of(t.bank) /\ ba = t.bank % BanksPerRank /\ ra * 2 + ba = t.bank
  BY <1>t, <1>1 DEF ra, ba, rank_of
<1> QED
  BY <1>10, <1>11 DEF v, row

\* What a write of a set carries.
LEMMA VecOfSet ==
  ASSUME NEW set \in Sets
  PROVE  LET a == vec_of[set]
             t == target(set)
         IN  /\ a.channel = t.vault /\ a.channel \in Channel /\ a.row = t.row /\ a.col = 0
             /\ a.rank * 2 + a.bank = t.bank
             /\ a.rank = rank_of(t.bank) /\ a.bank = t.bank % BanksPerRank
<1>1. vec_of[set] = addr_vec(encode(target(set)))
  BY DEF vec_of
<1>2. target(set) \in Index
  BY TargetType
<1>3. target(set).vault \in Channel
  BY <1>2, Radices DEF Index
<1> QED
  BY <1>1, <1>2, <1>3, CodecInverse

(***************************************************************************)
(* The latencies                                                           *)
(***************************************************************************)

\* A packet joins the queue only if it is at most Window younger than the last
\* update: one that is older wraps to a difference beyond the window.
LEMMA InWindow ==
  ASSUME NEW d \in Offsets, ~late(d)
  PROVE  d \in 0 .. Window
<1>1. /\ d \in Int /\ TimeWrap \in Nat \ {0} /\ Window \in Nat
      /\ -d < TimeWrap - Window /\ d < TimeWrap
  BY DramSimAssumption
<1>2. CASE d >= 0
  <2>1. d \in 0 .. TimeWrap - 1
    BY <1>1, <1>2
  <2>2. d % TimeWrap = d
    BY <1>1, <2>1, SmallMod
  <2> QED
    BY <1>1, <1>2, <2>2 DEF late
<1>3. CASE d < 0
  <2>1. d + TimeWrap \in 0 .. TimeWrap - 1 /\ d + TimeWrap > Window
    BY <1>1, <1>3
  <2>2. d % TimeWrap = d + TimeWrap
    BY <1>1, <1>3, <2>1
  <2> QED
    BY <1>1, <2>1, <2>2 DEF late
<1> QED
  BY <1>1, <1>2, <1>3

Request == [set : Sets, at : 0 .. Window]

LEMMA ChannelOfRequest ==
  ASSUME NEW r \in [set : Sets, at : Int]
  PROVE  /\ r.set \in Sets /\ channel_of(r) \in Channel
         /\ channel_of(r) = vec_of[r.set].channel
<1>1. r.set \in Sets
  OBVIOUS
<1>2. vec_of[r.set].channel \in Channel
  BY <1>1, VecOfSet
<1> QED
  BY <1>1, <1>2 DEF channel_of

\* The calls of writeRow in updateLatency are at most WMax + 1 for every request.
LEMMA LatencyBound ==
  ASSUME NEW cs, \A ch \in Channel : Len(cs[ch].writeq) \in 0 .. WMax,
         NEW q \in Seq([set : Sets, at : Int])
  PROVE  write_latency(cs, q) \in ReadLatency .. ReadLatency + WMax + 1
<1> DEFINE S == requested(q)
           n == Len(q)
           v == SumFunctionOnSet(free(cs), S)
<1>0. WMax \in Nat /\ ReadLatency \in Nat /\ n \in Nat /\ DOMAIN q = 1 .. n
  BY DramSimAssumption
<1>1. CASE q = <<>>
  BY <1>0, <1>1 DEF write_latency
<1>2. CASE q # <<>>
  <2>1. n \in Nat \ {0}
    BY <1>2
  <2>2. \A i \in DOMAIN q : channel_of(q[i]) \in Channel
    <3>1. ASSUME NEW i \in DOMAIN q PROVE channel_of(q[i]) \in Channel
      <4>1. q[i] \in [set : Sets, at : Int]
        BY SeqElement
      <4> QED
        BY <4>1, ChannelOfRequest
    <3> QED
      BY <3>1
  <2>3. \A ch \in S : free(cs)[ch] \in 0 .. WMax
    BY <1>0, <2>2 DEF free, requested
  <2>4. IsFiniteSet(S) /\ Cardinality(S) <= n /\ Cardinality(S) \in Nat
    <3> DEFINE f == [i \in 1 .. n |-> channel_of(q[i])]
    <3>1. f \in Surjection(1 .. n, S)
      BY <1>0 DEF Surjection, requested
    <3>2. IsFiniteSet(1 .. n) /\ Cardinality(1 .. n) = n
      <4>1. 1 \in Int /\ n \in Int /\ ~(1 > n) /\ n - 1 + 1 = n
        BY <2>1
      <4> HIDE DEF n
      <4> QED
        BY <4>1, FS_Interval
    <3> HIDE DEF f, S, n
    <3>3. IsFiniteSet(S) /\ Cardinality(S) <= Cardinality(1 .. n)
      BY <3>1, <3>2, FS_Surjection
    <3> QED
      BY <3>2, <3>3, FS_CardinalityType
  <2> HIDE DEF S, n
  <2>5. v \in 0 .. WMax * Cardinality(S)
    BY <1>0, <2>3, <2>4, SumBound
  <2> HIDE DEF v
  <2>6. v \in Nat /\ v <= WMax * n
    <3>1. ASSUME NEW k \in Nat, k <= n PROVE WMax * k <= WMax * n /\ WMax * k \in Nat /\ WMax * n \in Nat
      BY <1>0, <3>1
    <3>2. /\ WMax * Cardinality(S) <= WMax * n /\ WMax * Cardinality(S) \in Nat
          /\ WMax * n \in Nat
      BY <2>4, <3>1
    <3> QED
      BY <2>5, <3>2
  <2>7. (n + v) \div n \in 0 .. WMax + 1
    <3>1. n + v \in Nat /\ n + v <= (WMax + 1) * n
      BY <1>0, <2>1, <2>6
    <3>2. ASSUME NEW x \in Nat, x <= (WMax + 1) * n PROVE x \div n \in 0 .. WMax + 1
      <4> DEFINE y == x \div n
      <4>1. y \in Nat /\ y * n <= x
        BY <2>1
      <4> HIDE DEF y
      <4>2. y * n <= (WMax + 1) * n
        BY <1>0, <2>1, <3>2, <4>1
      <4>3. y <= WMax + 1
        BY <1>0, <2>1, <4>1, <4>2
      <4> QED
        BY <1>0, <4>1, <4>3 DEF y
    <3> QED
      BY <3>1, <3>2
  <2>8. write_latency(cs, q) = ReadLatency + ((n + v) \div n)
    BY <1>2 DEF write_latency, n, v, S
  <2> QED
    BY <1>0, <2>7, <2>8
<1> QED
  BY <1>1, <1>2

(***************************************************************************)
(* updateLatency fills the write queues                                    *)
(***************************************************************************)

LEMMA FilledOK ==
  ASSUME NEW cs \in [Channel -> ChannelState],
         \A ch \in Channel : ChannelOK(cs[ch]) /\ WritesOK(cs[ch], ch),
         NEW q \in Seq([set : Sets, at : Int])
  PROVE  /\ filled(cs, q) \in [Channel -> ChannelState]
         /\ \A ch \in Channel : ChannelOK(filled(cs, q)[ch]) /\ WritesOK(filled(cs, q)[ch], ch)
<1> SUFFICES ASSUME NEW ch \in Channel
             PROVE  LET e == filled(cs, q)[ch]
                    IN  e \in ChannelState /\ ChannelOK(e) /\ WritesOK(e, ch)
  BY DEF filled
<1> DEFINE e == filled(cs, q)[ch]
           c == cs[ch]
<1>1. c \in ChannelState /\ ChannelOK(c) /\ WritesOK(c, ch) /\ WMax \in Nat
  BY DramSimAssumption
<1>2. CASE ch \notin requested(q)
  BY <1>1, <1>2 DEF filled
<1>3. CASE ch \in requested(q)
  <2> DEFINE set == first_for(q, ch).set
             w == c.writeq
             n == free(cs)[ch]
             x == [vec |-> vec_of[set], set |-> set]
             a == [i \in 1 .. n |-> x]
             I == {i \in DOMAIN q : channel_of(q[i]) = ch}
  <2>1. e = [c EXCEPT !.writeq = w \o a]
    BY <1>3 DEF filled
  <2>2. w \in Seq(Write) /\ Len(w) \in Nat /\ Len(w) <= WMax
    BY <1>1, ChannelFields DEF WritesOK
  <2>3. n \in Nat /\ n = WMax - Len(w)
    BY <1>1, <2>2 DEF free
  <2>4. Min(I) \in I
    <3>1. I \subseteq Nat /\ I # {}
      BY <1>3 DEF requested
    <3> HIDE DEF I
    <3> QED
      BY <3>1, MinIsLeast
  <2>5. set \in Sets /\ vec_of[set].channel = ch
    <3> DEFINE k == Min(I)
    <3> HIDE DEF I
    <3>1. k \in DOMAIN q /\ channel_of(q[k]) = ch
      BY <2>4 DEF I
    <3>2. q[k] \in [set : Sets, at : Int]
      BY <3>1, SeqElement
    <3>3. first_for(q, ch) = q[k]
      BY DEF first_for, I
    <3> HIDE DEF k
    <3> QED
      BY <3>1, <3>2, <3>3, ChannelOfRequest
  <2> HIDE DEF set, n
  <2>6. x \in Write /\ x.vec.channel = ch
    BY <2>5 DEF Write
  <2> HIDE DEF x
  <2>7. a \in Seq(Write) /\ Len(a) = n
    BY <2>3, <2>6
  <2>8. w \o a \in Seq(Write) /\ Len(w \o a) = WMax
    <3> HIDE DEF w, a
    <3>1. w \o a \in Seq(Write) /\ Len(w \o a) = Len(w) + Len(a)
      BY <2>2, <2>7, Concatenated
    <3> QED
      BY <1>1, <2>2, <2>3, <2>7, <3>1
  <2>9. ASSUME NEW i \in DOMAIN (w \o a) PROVE (w \o a)[i].vec.channel = ch
    <3>1. CASE i \in DOMAIN w
      BY <1>1, <2>2, <2>7, <3>1 DEF WritesOK
    <3>2. CASE i \notin DOMAIN w
      <4>1. i - Len(w) \in 1 .. n /\ (w \o a)[i] = a[i - Len(w)]
        BY <2>2, <2>3, <2>7, <2>8, <3>2
      <4> QED
        BY <2>6, <4>1
    <3> QED
      BY <3>1, <3>2
  <2> DEFINE p == w \o a
  <2> HIDE DEF p, w, a
  <2>10. /\ e = [c EXCEPT !.writeq = p] /\ p \in Seq(Write) /\ Len(p) = WMax
         /\ \A i \in DOMAIN p : p[i].vec.channel = ch
    BY <2>1, <2>8, <2>9 DEF p
  <2> HIDE DEF e, c
  <2>11. /\ e \in ChannelState /\ e.otherq = c.otherq /\ e.since = c.since
         /\ e.busy = c.busy /\ e.writeq = p
    BY <1>1, <2>10 DEF ChannelState
  <2>12. ChannelOK(e)
    BY <1>1, <2>11 DEF ChannelOK, OncePerBank, ServedInTime
  <2> QED
    BY <1>1, <2>10, <2>11, <2>12 DEF WritesOK, e
<1> QED
  BY <1>2, <1>3

(***************************************************************************)
(* The invariant of the front end                                          *)
(***************************************************************************)

ChannelsOK(cs) ==
  cs \in [Channel -> ChannelState] /\ \A ch \in Channel : ChannelOK(cs[ch]) /\ WritesOK(cs[ch], ch)

FrontInv ==
  /\ ChannelsOK(chan)
  /\ req_queue \in Seq(Request)
  /\ WriteLatencyBounded

LEMMA TickOnceOK ==
  ASSUME NEW cs, ChannelsOK(cs), NEW s \in tickOnce(cs)
  PROVE  ChannelsOK(s)
<1>1. /\ s = [ch \in Channel |-> s[ch]]
      /\ \A ch \in Channel : s[ch] \in tick(inject(cs[ch]))
  BY EveryChannelTicks DEF ChannelsOK
<1>2. ASSUME NEW ch \in Channel PROVE ChannelOK(s[ch]) /\ WritesOK(s[ch], ch)
  BY <1>1, TickOK DEF ChannelsOK
<1>3. \A ch \in Channel : s[ch] \in ChannelState
  BY <1>2 DEF ChannelOK
<1>4. s \in [Channel -> ChannelState]
  BY <1>1, <1>3
<1> QED
  BY <1>2, <1>4 DEF ChannelsOK

\* The end of an access, with or without its own write in the queue.
LEMMA LatencyOK ==
  ASSUME NEW cs, ChannelsOK(cs), NEW q \in Seq([set : Sets, at : Int]), NEW d,
         ~late(d) => q \in Seq(Request), WriteLatencyBounded, latencyAt(cs, q, d)
  PROVE  FrontInv'
<1>1. CASE late(d)
  <2>1. /\ chan' = filled(cs, q) /\ recent_write_latency' = write_latency(cs, q)
        /\ req_queue' = <<>>
    BY <1>1 DEF latencyAt, updateLatency
  <2>2. ChannelsOK(filled(cs, q))
    BY FilledOK DEF ChannelsOK
  <2>3. \A ch \in Channel : Len(cs[ch].writeq) \in 0 .. WMax
    <3>1. ASSUME NEW ch \in Channel PROVE Len(cs[ch].writeq) \in 0 .. WMax
      <4>1. cs[ch].writeq \in Seq(Write) /\ Len(cs[ch].writeq) <= WMax /\ WMax \in Nat
        BY ChannelFields, DramSimAssumption DEF ChannelsOK, WritesOK
      <4> QED
        BY <4>1
    <3> QED
      BY <3>1
  <2>4. write_latency(cs, q) \in ReadLatency .. ReadLatency + WMax + 1
    BY <2>3, LatencyBound
  <2>5. ChannelsOK(chan)'
    BY <2>1, <2>2 DEF ChannelsOK
  <2> QED
    BY <2>1, <2>4, <2>5 DEF FrontInv, WriteLatencyBounded
<1>2. CASE ~late(d)
  <2>1. chan' = cs /\ req_queue' = q /\ recent_write_latency' = recent_write_latency
    BY <1>2 DEF latencyAt
  <2>2. ChannelsOK(chan)'
    BY <2>1 DEF ChannelsOK
  <2> QED
    BY <1>2, <2>1, <2>2 DEF FrontInv, WriteLatencyBounded
<1> QED
  BY <1>1, <1>2

\* A bank that turns hot or cool changes only its interval.
LEMMA HotOK ==
  ASSUME NEW k \in HotBanks, NEW hot \in BOOLEAN, FrontInv, setBankRef(k[1], k[2], hot)
  PROVE  FrontInv'
<1> DEFINE v == k[1]
           b == k[2]
           h == IF hot THEN chan[v].hot \cup {b} ELSE chan[v].hot \ {b}
           e == [chan[v] EXCEPT !.hot = h]
<1>1. v \in Channel /\ b \in Bank
  BY DramSimAssumption
<1>2. chan \in [Channel -> ChannelState] /\ chan[v] \in ChannelState
  BY <1>1 DEF FrontInv, ChannelsOK
<1>3. chan' = [chan EXCEPT ![v] = e] /\ req_queue' = req_queue
      /\ recent_write_latency' = recent_write_latency
  BY DEF setBankRef
<1> HIDE DEF v, b
<1>4. h \in SUBSET Bank
  BY <1>1, <1>2, ChannelFields
<1> HIDE DEF h
<1>5. /\ e \in ChannelState /\ e.otherq = chan[v].otherq /\ e.since = chan[v].since
      /\ e.busy = chan[v].busy /\ e.writeq = chan[v].writeq
  BY <1>2, <1>4 DEF ChannelState
<1> HIDE DEF e
<1>6. ChannelOK(e) /\ WritesOK(e, v)
  BY <1>1, <1>5 DEF FrontInv, ChannelsOK, ChannelOK, OncePerBank, ServedInTime, WritesOK
<1>7. ChannelsOK(chan)'
  BY <1>1, <1>2, <1>3, <1>5, <1>6 DEF FrontInv, ChannelsOK
<1> QED
  BY <1>3, <1>7 DEF FrontInv, WriteLatencyBounded

LEMMA FrontInit == Init => FrontInv
<1> SUFFICES ASSUME Init PROVE FrontInv
  OBVIOUS
<1>1. Idle \in ChannelState
  <2>1. BusyBound \in Nat
    BY Powers DEF BusyBound
  <2> QED
    BY <2>1 DEF Idle, ChannelState
<1>2. Idle.otherq = <<>> /\ Idle.writeq = <<>>
  BY DEF Idle
<1>3. ChannelOK(Idle) /\ \A ch \in Channel : WritesOK(Idle, ch)
  BY <1>1, <1>2, IdleQueueOK, DramSimAssumption DEF WritesOK
<1>4. chan = [ch \in Channel |-> Idle] /\ req_queue = <<>> /\ recent_write_latency = ReadLatency
  BY DEF Init
<1>5. ChannelsOK(chan)
  BY <1>1, <1>3, <1>4 DEF ChannelsOK
<1> QED
  BY <1>4, <1>5, DramSimAssumption DEF FrontInv, WriteLatencyBounded

LEMMA FrontStep == FrontInv /\ [Next]_vars => FrontInv'
<1> SUFFICES ASSUME FrontInv, [Next]_vars PROVE FrontInv'
  OBVIOUS
<1>t. /\ ChannelsOK(chan) /\ req_queue \in Seq(Request) /\ WriteLatencyBounded
      /\ Request \subseteq [set : Sets, at : Int]
      /\ Window \in Nat
  BY DramSimAssumption DEF FrontInv, Request
<1>s. req_queue \in Seq([set : Sets, at : Int])
  BY <1>t, SeqSubset
<1>1. CASE read
  <2>1. PICK cs \in tickOnce(chan), d \in Offsets : latencyAt(cs, req_queue, d)
    BY <1>1 DEF read
  <2>2. ChannelsOK(cs)
    BY <1>t, TickOnceOK
  <2> QED
    BY <1>t, <1>s, <2>1, <2>2, LatencyOK
<1>2. ASSUME NEW set \in Sets, write(set) PROVE FrontInv'
  <2>1. PICK cs \in tickOnce(chan), d \in Offsets :
             latencyAt(cs, Append(req_queue, [set |-> set, at |-> d]), d)
    BY <1>2 DEF write
  <2> DEFINE r == [set |-> set, at |-> d]
             q == Append(req_queue, r)
  <2>2. ChannelsOK(cs)
    BY <1>t, TickOnceOK
  <2>3. r \in [set : Sets, at : Int] /\ (~late(d) => r \in Request)
    BY DramSimAssumption, InWindow DEF Request
  <2> HIDE DEF r
  <2>4. q \in Seq([set : Sets, at : Int]) /\ (~late(d) => q \in Seq(Request))
    BY <1>t, <1>s, <2>3
  <2>5. latencyAt(cs, q, d)
    BY <2>1 DEF r
  <2> HIDE DEF q
  <2> QED
    BY <1>t, <2>2, <2>4, <2>5, LatencyOK
<1>3. CASE transfer
  <2>1. PICK cs \in tickOnce(chan) : chan' \in tickOnce(cs)
    BY <1>3 DEF transfer
  <2>2. ChannelsOK(cs)
    BY <1>t, TickOnceOK
  <2>3. ChannelsOK(chan')
    BY <2>1, <2>2, TickOnceOK
  <2>4. ChannelsOK(chan)'
    BY <2>3 DEF ChannelsOK
  <2> QED
    BY <1>t, <1>3, <2>4 DEF FrontInv, transfer, WriteLatencyBounded
<1>4. ASSUME NEW k \in HotBanks, NEW hot \in BOOLEAN, setBankRef(k[1], k[2], hot)
      PROVE  FrontInv'
  BY <1>4, HotOK
<1>5. CASE UNCHANGED vars
  BY <1>5 DEF vars, FrontInv, ChannelsOK, WriteLatencyBounded
<1> QED
  BY <1>1, <1>2, <1>3, <1>4, <1>5 DEF Next

\* Every reachable state of the front end satisfies the invariant: in each
\* channel a queued refresh is issued before its deadline, the write queue holds
\* at most WMax writes of that channel, and the requests lie in the window.
THEOREM FrontInvariant == Spec => []FrontInv
BY FrontInit, FrontStep, PTL DEF Spec

\* No refresh is ever refused (assert(res) in RamRefresh.cc), and a bank has at
\* most one refresh waiting, however the temperatures change its interval.
THEOREM RefreshTheorem == Spec => []RefreshesFit
<1>1. FrontInv => RefreshesFit
  BY InjectOK DEF FrontInv, ChannelsOK, ChannelOK, OncePerBank, RefreshesFit
<1> QED
  BY <1>1, FrontInvariant, PTL

\* The codec and the three numberings of a bank agree for every queued write,
\* with every address map and every geometry with two banks per rank.
THEOREM BankNumbersTheorem == Spec => []BankNumbersAgree
<1>1. FrontInv => BankNumbersAgree
  <2> SUFFICES ASSUME FrontInv, NEW ch \in Channel, NEW i \in DOMAIN chan[ch].writeq
               PROVE  LET a == chan[ch].writeq[i].vec
                          set == chan[ch].writeq[i].set
                          t == target(set)
                      IN  /\ a.channel = ch /\ t.vault = ch
                          /\ a.row = t.row /\ a.col = 0
                          /\ a.rank * 2 + a.bank = t.bank
                          /\ a.rank = rank_of(t.bank) /\ a.bank = t.bank % BanksPerRank
                          /\ getSetNum(splitSetNum(set)) = set
    BY DEF BankNumbersAgree
  <2> DEFINE x == chan[ch].writeq[i]
  <2>1. chan[ch].writeq \in Seq(Write) /\ x.vec.channel = ch
    BY ChannelFields DEF FrontInv, ChannelsOK, WritesOK
  <2>2. x \in Write
    BY <2>1
  <2> HIDE DEF x
  <2>3. PICK set \in Sets : x = [vec |-> vec_of[set], set |-> set]
    BY <2>2 DEF Write
  <2>4. x.set = set /\ x.vec = vec_of[set] /\ vec_of[set].channel = ch
    BY <2>1, <2>3
  <2>5. getSetNum(splitSetNum(set)) = set
    BY SetNumber
  <2> QED
    BY <2>4, <2>5, VecOfSet DEF x
<1> QED
  BY <1>1, FrontInvariant, PTL

\* req_queue never holds a packet older than the last update or younger than the
\* window, whatever the packet times and however their difference wraps.
THEOREM WindowTheorem == Spec => []QueuedInWindow
<1>1. FrontInv => QueuedInWindow
  <2> SUFFICES ASSUME FrontInv, NEW i \in DOMAIN req_queue
               PROVE  req_queue[i].at \in 0 .. Window
    BY DEF QueuedInWindow
  <2>1. req_queue[i] \in Request
    BY SeqElement DEF FrontInv
  <2> QED
    BY <2>1 DEF Request
<1> QED
  BY <1>1, FrontInvariant, PTL

\* The write latency stays within one full write queue of the read latency.
THEOREM WriteLatencyTheorem == Spec => []WriteLatencyBounded
<1>1. FrontInv => WriteLatencyBounded
  BY DEF FrontInv
<1> QED
  BY <1>1, FrontInvariant, PTL
==============================================================================
