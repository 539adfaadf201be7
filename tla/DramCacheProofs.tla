--------------------------- MODULE DramCacheProofs ---------------------------
(***************************************************************************)
(* Proofs about the remapping manager, for every number of vaults and      *)
(* banks, every set of temperatures and thresholds, and every policy, and  *)
(* about the cache controller composed with it, for every number of banks, *)
(* pages, blocks and ways.                                                 *)
(***************************************************************************)
EXTENDS DramCache, ProofLemmas

(***************************************************************************)
(* The remapping manager                                                   *)
(***************************************************************************)

LEMMA TotBanksNat == TotBanks \in Nat /\ TotBanks > 0
  BY SizeAssumption DEF TotBanks

LEMMA BankIsInt == \A b \in Bank : b \in Int /\ 0 <= b /\ b < TotBanks
  BY TotBanksNat DEF Bank

\* The loop body of runMechanism, as one disjunction.
Body(b) ==
  \/ NRemap # 2 /\ Recover(b)
  \/ Combine(b)
  \/ DisableSingle(b)
  \/ DisablePair(b)
  \/ Keep(b)

(***************************************************************************)
(* Type correctness                                                        *)
(***************************************************************************)

LEMMA BodyTypeOK ==
  ASSUME TypeOK, NEW b \in Bank, Body(b)
  PROVE  /\ logical' \in [Bank -> Bank]
         /\ remap' \in [Bank -> Bank]
         /\ valid' \in [Bank -> BOOLEAN]
         /\ disabled' \in [Bank -> BOOLEAN]
         /\ combined' \in [Bank -> BOOLEAN]
         /\ events' \in Int
<1>1. CASE NRemap # 2 /\ Recover(b)
  <2>1. logical[b] \in Bank /\ remap[b] \in Bank
    BY DEF TypeOK
  <2>2. /\ valid' = valid
        /\ disabled' \in [Bank -> BOOLEAN]
        /\ combined' \in [Bank -> BOOLEAN]
        /\ logical' \in [Bank -> Bank]
        /\ remap' \in [Bank -> Bank]
    <3>1. CASE NRemap # 1
      BY <1>1, <3>1 DEF TypeOK, Recover, resetBank
    <3>2. CASE NRemap = 1 /\ logical[b] # b
      <4>1. /\ logical' = [logical EXCEPT ![b] = b]
            /\ disabled' = [disabled EXCEPT ![b] = FALSE]
            /\ combined' = [combined EXCEPT ![b] = FALSE, ![logical[b]] = FALSE]
            /\ remap' = [remap EXCEPT ![logical[b]] = logical[b]]
            /\ valid' = valid
        BY <1>1, <3>2 DEF Recover, resetBank
      <4>2. QED
        BY <2>1, <4>1 DEF TypeOK
    <3>3. CASE NRemap = 1 /\ logical[b] = b
      BY <1>1, <2>1, <3>3 DEF TypeOK, Recover, resetBank
    <3>4. QED
      BY <3>1, <3>2, <3>3
  <2>3. events' \in Int
    BY <1>1 DEF TypeOK, Recover
  <2>4. QED
    BY <2>2, <2>3 DEF TypeOK
<1>2. CASE Combine(b)
  <2>1. PICK t \in Bank : combineWith(b, t)
    BY <1>2 DEF Combine
  <2>2. logical' \in [Bank -> Bank] /\ remap' \in [Bank -> Bank]
    BY <2>1 DEF TypeOK, combineWith
  <2>3. /\ valid' \in [Bank -> BOOLEAN]
        /\ disabled' \in [Bank -> BOOLEAN]
        /\ combined' \in [Bank -> BOOLEAN]
    BY <2>1 DEF TypeOK, combineWith
  <2>4. events' \in Int
    BY <1>2 DEF TypeOK, Combine
  <2>5. QED
    BY <2>2, <2>3, <2>4
<1>3. CASE DisableSingle(b)
  <2>1. logical' = logical /\ remap' = remap /\ combined' = combined
    BY <1>3 DEF DisableSingle
  <2>2. valid' \in [Bank -> BOOLEAN] /\ disabled' \in [Bank -> BOOLEAN]
    BY <1>3 DEF TypeOK, DisableSingle
  <2>3. events' \in Int
    BY <1>3 DEF TypeOK, DisableSingle
  <2>4. QED
    BY <2>1, <2>2, <2>3 DEF TypeOK
<1>4. CASE DisablePair(b)
  <2>1. logical' = logical /\ remap' = remap /\ combined' = combined
    BY <1>4 DEF DisablePair
  <2>2. valid' \in [Bank -> BOOLEAN] /\ disabled' \in [Bank -> BOOLEAN]
    BY <1>4 DEF TypeOK, DisablePair
  <2>3. events' \in Int
    BY <1>4 DEF TypeOK, DisablePair
  <2>4. QED
    BY <2>1, <2>2, <2>3 DEF TypeOK
<1>5. CASE Keep(b)
  BY <1>5 DEF TypeOK, Keep, tables
<1>6. QED
  BY <1>1, <1>2, <1>3, <1>4, <1>5 DEF Body

LEMMA InitTypeOK == Init => TypeOK
<1> SUFFICES ASSUME Init PROVE TypeOK
  OBVIOUS
<1>1. /\ logical \in [Bank -> Bank] /\ remap \in [Bank -> Bank]
      /\ temp \in [Bank -> Temps] /\ events \in Int /\ config \in Configs
  BY TempAssumption DEF Init
<1>2. /\ valid \in [Bank -> BOOLEAN] /\ disabled \in [Bank -> BOOLEAN]
      /\ combined \in [Bank -> BOOLEAN] /\ remapped \in BOOLEAN
  BY DEF Init
<1>3. cursor \in 0 .. TotBanks
  BY TotBanksNat DEF Init
<1>4. QED
  BY <1>1, <1>2, <1>3 DEF TypeOK

\* Every reachable state of the manager has well-typed tables: what resetBank and
\* combineWith store in _logical_id and _remap_id are always bank ids.
THEOREM TypeCorrect == Spec => []TypeOK
<1>1. Init => TypeOK
  BY InitTypeOK
<1>2. TypeOK /\ [Next]_vars => TypeOK'
  <2> SUFFICES ASSUME TypeOK, [Next]_vars
               PROVE  TypeOK'
    OBVIOUS
  <2>1. CASE runMechanism
    <3>1. PICK b \in Bank : /\ cursor' = b + 1 /\ Body(b)
                            /\ UNCHANGED <<config, temp, remapped>>
      BY <2>1 DEF runMechanism, Body
    <3>2. cursor' \in 0 .. TotBanks
      BY <3>1, TotBanksNat DEF Bank
    <3>3. QED
      BY <3>1, <3>2, BodyTypeOK DEF TypeOK
  <2>2. CASE callHotSpot
    BY <2>2, TotBanksNat DEF callHotSpot, updateTemperature, tryRemapping, TypeOK, tables
  <2>3. CASE clearRemappingStat
    BY <2>3 DEF clearRemappingStat, resetStats, TypeOK
  <2>4. CASE UNCHANGED vars
    BY <2>4 DEF vars, tables, TypeOK
  <2>5. QED
    BY <2>1, <2>2, <2>3, <2>4 DEF Next
<1>3. QED
  BY <1>1, <1>2, PTL DEF Spec

(***************************************************************************)
(* Combination is a matching                                               *)
(***************************************************************************)

\* Only policy 1 ever forms a pair.
NoPairs ==
  NRemap # 1 => \A b \in Bank : logical[b] = b /\ remap[b] = b /\ ~combined[b]

PairInv == TypeOK /\ NoPairs /\ PairedBanks

\* A cool candidate is not the hot bank itself, and is in no pair.
LEMMA CandidateFacts ==
  ASSUME PairInv, NEW b \in Bank, NEW t \in Bank, Hot(b), Candidate(b, t)
  PROVE  t # b /\ logical[t] = t /\ remap[t] = t /\ ~combined[t] /\ ~disabled[t]
<1>1. temp[b] \in Int /\ temp[t] \in Int
  BY TempAssumption DEF PairInv, TypeOK
<1>2. t # b
  BY <1>1, TempAssumption DEF Hot, Candidate, Cool
<1>3. QED
  BY <1>2 DEF Candidate, PairInv, PairedBanks, TypeOK

LEMMA BodyPaired ==
  ASSUME PairInv, NEW b \in Bank, Body(b), config' = config
  PROVE  NoPairs' /\ PairedBanks'
<1> USE DEF PairInv
<1>0. NRemap' = NRemap
  BY DEF NRemap
<1>1. CASE NRemap = 1 /\ Recover(b) /\ logical[b] # b
  <2> DEFINE t == logical[b]
  <2>1. /\ logical' = [logical EXCEPT ![b] = b]
        /\ disabled' = [disabled EXCEPT ![b] = FALSE]
        /\ combined' = [combined EXCEPT ![b] = FALSE, ![t] = FALSE]
        /\ remap' = [remap EXCEPT ![t] = t]
    BY <1>1 DEF Recover, resetBank
  <2>2. t \in Bank /\ t # b /\ remap[t] = b /\ logical[t] = t /\ remap[b] = b
    BY <1>1 DEF TypeOK, PairedBanks
  <2>3. QED
    BY <1>0, <1>1, <2>1, <2>2 DEF TypeOK, PairedBanks, NoPairs
<1>2. CASE NRemap = 1 /\ Recover(b) /\ logical[b] = b
  <2>1. /\ disabled' = [disabled EXCEPT ![b] = FALSE, ![remap[b]] = FALSE]
        /\ logical' = logical /\ remap' = remap /\ combined' = combined
    BY <1>2 DEF Recover, resetBank
  <2>2. QED
    BY <1>0, <1>2, <2>1 DEF TypeOK, PairedBanks, NoPairs
<1>3. CASE NRemap # 1 /\ Recover(b)
  <2>1. logical' = logical /\ remap' = remap /\ combined' = combined
    BY <1>3 DEF Recover, resetBank
  <2>2. QED
    BY <1>0, <1>3, <2>1 DEF TypeOK, PairedBanks, NoPairs
<1>4. CASE Combine(b)
  <2>1. PICK t \in Bank : Target(b, t) /\ combineWith(b, t)
    BY <1>4 DEF Combine
  <2>2. Hot(b) /\ Candidate(b, t) /\ NRemap = 1 /\ ~combined[b] /\ ~disabled[b]
    BY <1>4, <2>1 DEF Combine, Target
  <2>3. t # b /\ logical[t] = t /\ remap[t] = t /\ ~combined[t] /\ ~disabled[t]
    BY <2>2, CandidateFacts
  <2>4. logical[b] = b /\ remap[b] = b
    BY <2>2 DEF PairedBanks
  <2>5. /\ logical' = [logical EXCEPT ![b] = t]
        /\ disabled' = [disabled EXCEPT ![b] = FALSE]
        /\ combined' = [combined EXCEPT ![b] = TRUE, ![t] = TRUE]
        /\ remap' = [remap EXCEPT ![t] = b]
    BY <2>1, <2>3 DEF combineWith
  <2>6. QED
    BY <1>0, <2>2, <2>3, <2>4, <2>5 DEF TypeOK, PairedBanks, NoPairs
<1>5. CASE DisableSingle(b)
  <2>1. /\ disabled' = [disabled EXCEPT ![b] = TRUE] /\ ~combined[b]
        /\ logical' = logical /\ remap' = remap /\ combined' = combined
    BY <1>5 DEF DisableSingle, NoPairs
  <2>2. logical[b] = b /\ remap[b] = b
    BY <2>1 DEF PairedBanks
  <2>3. QED
    BY <1>0, <2>1, <2>2 DEF TypeOK, PairedBanks, NoPairs
<1>6. CASE DisablePair(b)
  <2>1. /\ disabled' = [disabled EXCEPT ![remap[b]] = TRUE, ![b] = TRUE]
        /\ logical' = logical /\ remap' = remap /\ combined' = combined
        /\ combined[b] /\ logical[b] = b
    BY <1>6 DEF DisablePair
  <2>2. remap[b] # b /\ logical[remap[b]] = b /\ remap[b] \in Bank
    BY <2>1 DEF PairedBanks, TypeOK
  <2>3. QED
    BY <1>0, <2>1, <2>2 DEF TypeOK, PairedBanks, NoPairs
<1>7. CASE Keep(b)
  BY <1>0, <1>7 DEF Keep, tables, PairedBanks, NoPairs
<1>8. QED
  BY <1>1, <1>2, <1>3, <1>4, <1>5, <1>6, <1>7 DEF Body

LEMMA PairInvariant == Spec => []PairInv
<1>1. Init => PairInv
  BY InitTypeOK DEF Init, PairInv, NoPairs, PairedBanks
<1>2. PairInv /\ TypeOK' /\ [Next]_vars => PairInv'
  <2> SUFFICES ASSUME PairInv, TypeOK', [Next]_vars
               PROVE  NoPairs' /\ PairedBanks'
    BY DEF PairInv
  <2>1. CASE runMechanism
    <3>1. PICK b \in Bank : Body(b) /\ config' = config
      BY <2>1 DEF runMechanism, Body
    <3>2. QED
      BY <3>1, BodyPaired
  <2>2. CASE callHotSpot
    BY <2>2 DEF callHotSpot, updateTemperature, tryRemapping, tables,
                PairInv, NoPairs, PairedBanks, NRemap
  <2>3. CASE clearRemappingStat
    BY <2>3 DEF clearRemappingStat, resetStats, PairInv, NoPairs, PairedBanks, NRemap
  <2>4. CASE UNCHANGED vars
    BY <2>4 DEF vars, tables, PairInv, NoPairs, PairedBanks, NRemap
  <2>5. QED
    BY <2>1, <2>2, <2>3, <2>4 DEF Next
<1>3. QED
  BY <1>1, <1>2, TypeCorrect, PTL DEF Spec

\* The banks combined by policy 1 form a matching whose members are disabled
\* together; none of the inconsistencies that combineWith and resetBank print as
\* "[Error]" can occur.
THEOREM PairingHolds == Spec => []PairedBanks
<1>1. PairInv => PairedBanks
  BY DEF PairInv
<1>2. QED
  BY <1>1, PairInvariant, PTL

(***************************************************************************)
(* No service by hot banks                                                 *)
(***************************************************************************)

\* NoHotService while the loop is under way: it already holds of every bank served
\* by a bank the loop has passed.
Passed ==
  (EnableRemap /\ NRemap # 2) =>
    \A b \in Bank : ~disabled[b] /\ logical[b] < cursor => temp[logical[b]] < HighThres

HotInv == PairInv /\ Passed

LEMMA BodyPassed ==
  ASSUME HotInv, NEW b \in Bank, cursor = b, Body(b),
         cursor' = b + 1, config' = config, temp' = temp
  PROVE  Passed'
<1> USE DEF HotInv, PairInv
<1>0. /\ NRemap' = NRemap /\ EnableRemap' = EnableRemap
      /\ \A x \in Bank : x \in Int /\ temp[x] \in Int
      /\ HighThres \in Int /\ RemapThres \in Int /\ RemapThres <= HighThres
  <2>1. \A x \in Bank : temp[x] \in Int
    BY TempAssumption DEF TypeOK
  <2>2. QED
    BY <2>1, BankIsInt, TempAssumption DEF NRemap, EnableRemap
<1> SUFFICES ASSUME EnableRemap, NRemap # 2, NEW c \in Bank,
                    ~disabled'[c], logical'[c] < b + 1
             PROVE  temp[logical'[c]] < HighThres
  BY <1>0 DEF Passed
<1>a. \A x \in Bank : ~disabled[x] /\ logical[x] < b => temp[logical[x]] < HighThres
  BY DEF Passed
<1>b. \A x \in Bank : logical[x] \in Bank /\ remap[x] \in Bank
  BY DEF TypeOK
<1>1. CASE NRemap = 1 /\ Recover(b) /\ logical[b] # b
  <2>1. /\ logical' = [logical EXCEPT ![b] = b]
        /\ disabled' = [disabled EXCEPT ![b] = FALSE]
        /\ temp[b] < RemapThres
    BY <1>1 DEF Recover, resetBank, Recoverable, Cool
  <2>2. CASE c = b
    BY <1>0, <2>1, <2>2 DEF TypeOK
  <2>3. CASE c # b
    <3>1. logical'[c] = logical[c] /\ ~disabled[c]
      BY <2>1, <2>3 DEF TypeOK
    <3>2. logical[c] # b
      BY <1>1, <2>3 DEF PairedBanks
    <3>3. logical[c] < b
      BY <1>0, <1>b, <3>1, <3>2
    <3>4. QED
      BY <1>a, <3>1, <3>3
  <2>4. QED
    BY <2>2, <2>3
<1>2. CASE Recover(b) /\ logical[b] = b
  <2>1. /\ logical' = logical /\ temp[b] < RemapThres
        /\ \A x \in Bank : ~disabled'[x] => ~disabled[x] \/ x = b \/ x = remap[b]
    BY <1>2, <1>b DEF Recover, resetBank, Recoverable, Cool, TypeOK
  <2>2. temp[b] < HighThres
    BY <1>0, <2>1
  <2>3. CASE logical[c] = b
    BY <2>1, <2>2, <2>3
  <2>4. CASE logical[c] # b
    <3>1. c # b /\ c # remap[b]
      BY <1>2, <2>4 DEF PairedBanks
    <3>2. ~disabled[c] /\ logical[c] < b
      BY <1>0, <1>b, <2>1, <2>4, <3>1
    <3>3. QED
      BY <1>a, <2>1, <3>2
  <2>5. QED
    BY <2>3, <2>4
<1>3. CASE NRemap # 1 /\ Recover(b)
  BY <1>2, <1>3 DEF NoPairs
<1>4. CASE Combine(b)
  <2>1. PICK t \in Bank : Target(b, t) /\ combineWith(b, t)
    BY <1>4 DEF Combine
  <2>2. Hot(b) /\ Candidate(b, t) /\ ~combined[b] /\ ~disabled[b]
    BY <1>4, <2>1 DEF Combine, Target
  <2>3. t # b /\ logical[t] = t /\ temp[t] < HighThres
    BY <1>0, <2>2, CandidateFacts DEF Candidate, Cool
  <2>4. /\ logical' = [logical EXCEPT ![b] = t]
        /\ disabled' = [disabled EXCEPT ![b] = FALSE]
    BY <2>1, <2>3 DEF combineWith
  <2>5. CASE c = b
    BY <2>3, <2>4, <2>5 DEF TypeOK
  <2>6. CASE c # b
    <3>1. logical'[c] = logical[c] /\ ~disabled[c]
      BY <2>4, <2>6 DEF TypeOK
    <3>2. logical[c] # b
      BY <2>2, <2>6 DEF PairedBanks
    <3>3. logical[c] < b
      BY <1>0, <1>b, <3>1, <3>2
    <3>4. QED
      BY <1>a, <3>1, <3>3
  <2>7. QED
    BY <2>5, <2>6
<1>5. CASE DisableSingle(b)
  <2>1. /\ disabled' = [disabled EXCEPT ![b] = TRUE] /\ ~combined[b]
        /\ logical' = logical
    BY <1>5 DEF DisableSingle, NoPairs
  <2>2. c # b /\ ~disabled[c]
    BY <2>1 DEF TypeOK
  <2>3. logical[c] # b
    BY <2>1, <2>2 DEF PairedBanks
  <2>4. QED
    BY <1>0, <1>a, <1>b, <2>1, <2>2, <2>3
<1>6. CASE DisablePair(b)
  <2>1. /\ disabled' = [disabled EXCEPT ![remap[b]] = TRUE, ![b] = TRUE]
        /\ logical' = logical
    BY <1>6 DEF DisablePair
  <2>2. c # b /\ c # remap[b] /\ ~disabled[c]
    BY <1>b, <2>1 DEF TypeOK
  <2>3. logical[c] # b
    BY <2>2 DEF PairedBanks
  <2>4. QED
    BY <1>0, <1>a, <1>b, <2>1, <2>2, <2>3
<1>7. CASE Keep(b)
  <2>1. logical' = logical /\ disabled' = disabled
    BY <1>7 DEF Keep, tables
  <2>2. CASE logical[c] # b
    BY <1>0, <1>a, <1>b, <2>1, <2>2
  <2>3. CASE logical[c] = b
    <3>1. logical[b] = b
      BY <2>3 DEF PairedBanks
    <3>2. ~disabled[b]
      BY <2>1, <2>3 DEF PairedBanks
    <3>3. ~Hot(b)
      BY <1>7, <3>1, <3>2 DEF Keep
    <3>4. QED
      BY <1>0, <2>1, <2>3, <3>3 DEF Hot
  <2>4. QED
    BY <2>2, <2>3
<1>8. QED
  BY <1>1, <1>2, <1>3, <1>4, <1>5, <1>6, <1>7 DEF Body

LEMMA HotInvariant == Spec => []HotInv
<1>1. Init => Passed
  BY TotBanksNat, TempAssumption DEF Init, Passed, Bank
<1>2. HotInv /\ [Next]_vars => Passed'
  <2> SUFFICES ASSUME HotInv, [Next]_vars
               PROVE  Passed'
    OBVIOUS
  <2>1. CASE runMechanism
    <3>1. PICK b \in Bank : /\ cursor = b /\ cursor' = b + 1 /\ Body(b)
                            /\ config' = config /\ temp' = temp
      BY <2>1 DEF runMechanism, Body
    <3>2. QED
      BY <3>1, BodyPassed
  <2>2. CASE callHotSpot
    <3>1. logical' = logical /\ (EnableRemap => cursor' = 0) /\ config' = config
      BY <2>2 DEF callHotSpot, updateTemperature, tryRemapping, tables
    <3>2. \A b \in Bank : logical[b] \in Bank /\ ~(logical[b] < 0)
      BY BankIsInt DEF HotInv, PairInv, TypeOK
    <3>3. QED
      BY <3>1, <3>2 DEF Passed, EnableRemap, NRemap
  <2>3. CASE clearRemappingStat
    BY <2>3 DEF clearRemappingStat, resetStats, HotInv, Passed, EnableRemap, NRemap
  <2>4. CASE UNCHANGED vars
    BY <2>4 DEF vars, tables, HotInv, Passed, EnableRemap, NRemap
  <2>5. QED
    BY <2>1, <2>2, <2>3, <2>4 DEF Next
<1>3. QED
  BY <1>1, <1>2, PairInvariant, PTL DEF Spec, HotInv

\* After the mechanism has run, and until the next thermal tick, every bank that is
\* not disabled is served by a bank below the high threshold.
THEOREM NoHotServiceHolds == Spec => []NoHotService
<1>1. HotInv => NoHotService
  <2> SUFFICES ASSUME HotInv, EnableRemap, NRemap # 2, Idle, NEW b \in Bank, ~disabled[b]
               PROVE  temp[logical[b]] < HighThres
    BY DEF NoHotService
  <2>1. logical[b] < cursor
    BY BankIsInt DEF HotInv, PairInv, TypeOK, Idle
  <2>2. QED
    BY <2>1 DEF HotInv, Passed
<1>2. QED
  BY <1>1, HotInvariant, PTL

(***************************************************************************)
(* Hysteresis                                                              *)
(***************************************************************************)

\* No step of the manager enables a bank unless the bank that will serve it is
\* below the safe threshold.
THEOREM EnabledOnlyWhenCoolHolds == Spec => EnabledOnlyWhenCool
<1>1. PairInv /\ [Next]_vars =>
        [\A b \in Bank : disabled[b] /\ ~disabled'[b] =>
           temp[logical'[b]] < RemapThres]_vars
  <2> SUFFICES ASSUME PairInv, Next, NEW c \in Bank, disabled[c], ~disabled'[c]
               PROVE  temp[logical'[c]] < RemapThres
    OBVIOUS
  <2> USE DEF PairInv
  <2>1. CASE runMechanism
    <3>1. PICK b \in Bank : Body(b)
      BY <2>1 DEF runMechanism, Body
    <3>2. CASE Recover(b) /\ (NRemap = 1 => logical[b] = b)
      <4>1. /\ logical' = logical /\ temp[b] < RemapThres
            /\ c = b \/ (NRemap = 1 /\ c = remap[b])
        BY <3>2 DEF Recover, resetBank, Recoverable, Cool, TypeOK
      <4>2. logical[c] = b
        BY <3>2, <4>1 DEF PairedBanks, NoPairs
      <4>3. QED
        BY <4>1, <4>2
    <3>3. CASE Recover(b) /\ NRemap = 1 /\ logical[b] # b
      BY <3>3 DEF Recover, resetBank, Recoverable, Cool, TypeOK
    <3>4. CASE Combine(b)
      <4>1. disabled' = [disabled EXCEPT ![b] = FALSE] /\ ~disabled[b]
        BY <3>4 DEF Combine, combineWith
      <4>2. QED
        BY <4>1 DEF TypeOK
    <3>5. CASE DisableSingle(b)
      BY <3>5 DEF DisableSingle, TypeOK
    <3>6. CASE DisablePair(b)
      BY <3>6 DEF DisablePair, TypeOK
    <3>7. CASE Keep(b)
      BY <3>7 DEF Keep, tables
    <3>8. QED
      BY <3>1, <3>2, <3>3, <3>4, <3>5, <3>6, <3>7 DEF Body
  <2>2. CASE callHotSpot
    BY <2>2 DEF callHotSpot, updateTemperature, tryRemapping, tables
  <2>3. CASE clearRemappingStat
    BY <2>3 DEF clearRemappingStat, resetStats
  <2>4. QED
    BY <2>1, <2>2, <2>3 DEF Next
<1>2. QED
  BY <1>1, PairInvariant, PTL DEF Spec, EnabledOnlyWhenCool

(***************************************************************************)
(* The printed counters balance                                            *)
(***************************************************************************)

BalanceInv == PairInv /\ EventsBalance

LEMMA OutOfServiceFinite == IsFiniteSet(OutOfService)
<1>1. IsFiniteSet(Bank)
  BY TotBanksNat, FS_Interval DEF Bank
<1>2. QED
  BY <1>1, FS_Subset DEF OutOfService

\* One iteration takes at most the bank it looks at out of service, or puts it back.
LEMMA BodyBalance ==
  ASSUME BalanceInv, NEW b \in Bank, Body(b)
  PROVE  EventsBalance'
<1> USE DEF BalanceInv, PairInv
<1>0. Cardinality(OutOfService) \in Int
  BY OutOfServiceFinite, FS_CardinalityType
<1>a. ASSUME b \in OutOfService, OutOfService' = OutOfService \ {b}, events' = events - 1
      PROVE  EventsBalance'
  BY <1>a, OutOfServiceFinite, FS_RemoveElement DEF EventsBalance
<1>b. ASSUME b \notin OutOfService, OutOfService' = OutOfService \cup {b},
             events' = events + 1
      PROVE  EventsBalance'
  BY <1>b, OutOfServiceFinite, FS_AddElement DEF EventsBalance
<1>1. CASE NRemap = 1 /\ Recover(b) /\ logical[b] # b
  <2>1. /\ logical' = [logical EXCEPT ![b] = b]
        /\ disabled' = [disabled EXCEPT ![b] = FALSE]
        /\ events' = events - 1
    BY <1>1 DEF Recover, resetBank
  <2>2. b \in OutOfService /\ OutOfService' = OutOfService \ {b}
    BY <1>1, <2>1 DEF TypeOK, OutOfService
  <2>3. QED
    BY <1>a, <2>1, <2>2
<1>2. CASE Recover(b) /\ (NRemap = 1 => logical[b] = b)
  <2>1. /\ logical' = logical /\ disabled[b] /\ ~disabled'[b]
        /\ \A x \in Bank : x = b \/ (NRemap = 1 /\ x = remap[b]) \/ disabled'[x] = disabled[x]
        /\ events' = events - 1
    BY <1>2 DEF Recover, resetBank, Recoverable, TypeOK
  <2>2. logical[b] = b
    BY <1>2 DEF NoPairs
  <2>3. \A x \in Bank : x # b /\ x = remap[b] => logical[x] # x
    BY DEF PairedBanks
  <2>4. b \in OutOfService /\ OutOfService' = OutOfService \ {b}
    BY <2>1, <2>2, <2>3 DEF OutOfService
  <2>5. QED
    BY <1>a, <2>1, <2>4
<1>3. CASE Combine(b)
  <2>1. PICK t \in Bank : Target(b, t) /\ combineWith(b, t)
    BY <1>3 DEF Combine
  <2>2. Hot(b) /\ Candidate(b, t) /\ ~combined[b] /\ ~disabled[b] /\ events' = events + 1
    BY <1>3, <2>1 DEF Combine, Target
  <2>3. t # b /\ logical[t] = t /\ logical[b] = b
    BY <2>2, CandidateFacts DEF PairedBanks
  <2>4. /\ logical' = [logical EXCEPT ![b] = t]
        /\ disabled' = [disabled EXCEPT ![b] = FALSE]
    BY <2>1, <2>3 DEF combineWith
  <2>5. b \notin OutOfService /\ OutOfService' = OutOfService \cup {b}
    BY <2>2, <2>3, <2>4 DEF TypeOK, OutOfService
  <2>6. QED
    BY <1>b, <2>2, <2>5
<1>4. CASE DisableSingle(b)
  <2>1. /\ disabled' = [disabled EXCEPT ![b] = TRUE] /\ ~combined[b] /\ ~disabled[b]
        /\ logical' = logical /\ events' = events + 1
    BY <1>4 DEF DisableSingle, NoPairs
  <2>2. logical[b] = b
    BY <2>1 DEF PairedBanks
  <2>3. b \notin OutOfService /\ OutOfService' = OutOfService \cup {b}
    BY <2>1, <2>2 DEF TypeOK, OutOfService
  <2>4. QED
    BY <1>b, <2>1, <2>3
<1>5. CASE DisablePair(b)
  <2>1. /\ disabled' = [disabled EXCEPT ![remap[b]] = TRUE, ![b] = TRUE]
        /\ logical' = logical /\ logical[b] = b /\ ~disabled[b] /\ combined[b]
        /\ events' = events + 1
    BY <1>5 DEF DisablePair
  <2>2. remap[b] \in Bank /\ logical[remap[b]] = b /\ remap[b] # b
    BY <2>1 DEF PairedBanks, TypeOK
  <2>3. b \notin OutOfService /\ OutOfService' = OutOfService \cup {b}
    BY <2>1, <2>2 DEF TypeOK, OutOfService
  <2>4. QED
    BY <1>b, <2>1, <2>3
<1>6. CASE Keep(b)
  BY <1>6 DEF Keep, tables, EventsBalance, OutOfService
<1>7. QED
  BY <1>1, <1>2, <1>3, <1>4, <1>5, <1>6 DEF Body

\* The counters printed at the end of a run balance: disables, double disables and
\* remaps, less recoveries, are exactly the banks still out of service.
THEOREM EventsBalanceHolds == Spec => []EventsBalance
<1>1. Init => EventsBalance
  <2>1. Init => OutOfService = {}
    BY DEF Init, OutOfService
  <2>2. QED
    BY <2>1, FS_EmptySet DEF Init, EventsBalance
<1>2. BalanceInv /\ [Next]_vars => EventsBalance'
  <2> SUFFICES ASSUME BalanceInv, [Next]_vars
               PROVE  EventsBalance'
    OBVIOUS
  <2>1. CASE runMechanism
    <3>1. PICK b \in Bank : Body(b)
      BY <2>1 DEF runMechanism, Body
    <3>2. QED
      BY <3>1, BodyBalance
  <2>2. CASE callHotSpot
    BY <2>2 DEF callHotSpot, updateTemperature, tryRemapping, tables,
                BalanceInv, EventsBalance, OutOfService
  <2>3. CASE clearRemappingStat
    BY <2>3 DEF clearRemappingStat, resetStats, BalanceInv, EventsBalance, OutOfService
  <2>4. CASE UNCHANGED vars
    BY <2>4 DEF vars, tables, BalanceInv, EventsBalance, OutOfService
  <2>5. QED
    BY <2>1, <2>2, <2>3, <2>4 DEF Next
<1>3. QED
  BY <1>1, <1>2, PairInvariant, PTL DEF Spec, BalanceInv

(***************************************************************************)
(* The cache controller                                                    *)
(***************************************************************************)

LEMMA HomeIsBank == \A p \in Page : Home(p) \in Bank
  BY TotBanksNat, CacheAssumption DEF Home, Bank

\* The controller uses the manager only through its operations: what is proved of
\* the manager holds in the composed system.
THEOREM ControllerImplementsManager == CacheSpec => Spec
<1>1. CacheInit => Init
  BY DEF CacheInit
<1>2. [CacheNext]_allVars => [Next]_vars
  <2> SUFFICES ASSUME [CacheNext]_allVars
               PROVE  [Next]_vars
    OBVIOUS
  <2>1. CASE ProcessRequest
    <3>1. clearRemappingStat \/ UNCHANGED vars
      BY <2>1 DEF ProcessRequest, checkRemapping
    <3>2. QED
      BY <3>1 DEF Next
  <2>2. CASE runMechanism
    BY <2>2 DEF Next
  <2>3. CASE callHotSpot
    BY <2>3 DEF Next
  <2>4. CASE UNCHANGED allVars
    BY <2>4 DEF allVars
  <2>5. QED
    BY <2>1, <2>2, <2>3, <2>4 DEF CacheNext
<1>3. QED
  BY <1>1, <1>2, PTL DEF CacheSpec, Spec

(***************************************************************************)
(* No request is served by a hot bank                                      *)
(***************************************************************************)

\* With remapping enabled (policy 0 or 1) accessRow never counts a _hot_access: the
\* mechanism runs before the controller sees the new temperatures as handled.
THEOREM NoHotAccessHolds == CacheSpec => []NoHotAccess
<1>1. CacheInit => NoHotAccess
  BY DEF CacheInit, NoHotAccess
<1>2. HotInv /\ NoHotAccess /\ [CacheNext]_allVars => NoHotAccess'
  <2> SUFFICES ASSUME HotInv, NoHotAccess, [CacheNext]_allVars,
                      EnableRemap', NRemap' # 2
               PROVE  ~outcome'.hot
    BY DEF NoHotAccess
  <2>1. CASE ProcessRequest
    <3>1. PICK p \in Page, write \in BOOLEAN, k \in Block :
             /\ Idle /\ checkRemapping
             /\ Bypass(p, k) \/ AccessPage(p, write, k) \/ PageMiss(p, k)
      BY <2>1 DEF ProcessRequest
    <3>2. EnableRemap /\ NRemap # 2
      BY <3>1 DEF checkRemapping, clearRemappingStat, resetStats, vars, EnableRemap, NRemap
    <3>3. ASSUME ~disabled[Home(p)] PROVE ~Hot(getRemapSet(p))
      <4>1. Home(p) \in Bank /\ logical[Home(p)] \in Bank
        BY HomeIsBank DEF HotInv, PairInv, TypeOK
      <4>2. logical[Home(p)] < cursor
        BY <3>1, <4>1, BankIsInt DEF Idle
      <4>3. temp[logical[Home(p)]] < HighThres /\ temp[logical[Home(p)]] \in Int
        BY <3>2, <3>3, <4>1, <4>2, TempAssumption DEF HotInv, Passed, PairInv, TypeOK
      <4>4. QED
        BY <4>3, TempAssumption DEF Hot, getRemapSet
    <3>4. CASE Bypass(p, k)
      BY <3>4 DEF Bypass
    <3>5. CASE AccessPage(p, write, k)
      BY <3>3, <3>5 DEF AccessPage, Bypassed
    <3>6. CASE PageMiss(p, k)
      BY <3>3, <3>6 DEF PageMiss, Bypassed
    <3>7. QED
      BY <3>1, <3>4, <3>5, <3>6
  <2>2. CASE UNCHANGED cacheVars /\ config' = config
    BY <2>2 DEF cacheVars, NoHotAccess, EnableRemap, NRemap
  <2>3. QED
    BY <2>1, <2>2
    DEF CacheNext, runMechanism, callHotSpot, updateTemperature, tryRemapping,
        allVars, vars, cacheVars
<1>3. QED
  BY <1>1, <1>2, ControllerImplementsManager, HotInvariant, PTL DEF CacheSpec

(***************************************************************************)
(* Banks out of service hold no pages                                      *)
(***************************************************************************)

\* An invalidation is pending only while the controller has been told to look.
PendingFlag == (~Idle \/ \E b \in Bank : ~valid[b]) => remapped

EmptyInv == PairInv /\ PendingFlag /\ OutOfServiceIsEmpty

\* A request changes, beyond the flush, at most the set of a bank in service.
LEMMA RequestChanges ==
  ASSUME PairInv, NEW p \in Page, NEW write \in BOOLEAN, NEW k \in Block,
         Bypass(p, k) \/ AccessPage(p, write, k) \/ PageMiss(p, k)
  PROVE  \A b \in Bank : (disabled[b] \/ logical[b] # b) => sets'[b] = SetsNow[b]
<1> DEFINE s == getRemapSet(p)
<1>1. Home(p) \in Bank /\ s \in Bank
  BY HomeIsBank DEF PairInv, TypeOK, getRemapSet
<1>2. CASE Bypass(p, k)
  BY <1>2 DEF Bypass
<1>3. ASSUME ~disabled[Home(p)] PROVE ~disabled[s] /\ logical[s] = s
  BY <1>1, <1>3 DEF PairInv, PairedBanks, getRemapSet
<1>4. CASE AccessPage(p, write, k)
  <2>1. \A b \in Bank : b # s => sets'[b] = SetsNow[b]
    BY <1>1, <1>4 DEF AccessPage, SetsNow
  <2>2. QED
    BY <1>3, <1>4, <2>1 DEF AccessPage, Bypassed
<1>5. CASE PageMiss(p, k)
  <2>1. \A b \in Bank : b # s => sets'[b] = SetsNow[b]
    BY <1>1, <1>5 DEF PageMiss, SetsNow
  <2>2. QED
    BY <1>3, <1>5, <2>1 DEF PageMiss, Bypassed
<1>6. QED
  BY <1>2, <1>4, <1>5

LEMMA RequestKeepsEmpty ==
  ASSUME EmptyInv, ProcessRequest
  PROVE  PendingFlag' /\ OutOfServiceIsEmpty'
<1> USE DEF EmptyInv
<1>1. PICK p \in Page, write \in BOOLEAN, k \in Block :
         /\ Idle /\ checkRemapping
         /\ Bypass(p, k) \/ AccessPage(p, write, k) \/ PageMiss(p, k)
  BY DEF ProcessRequest
<1>2. /\ logical' = logical /\ disabled' = disabled /\ cursor' = cursor
      /\ \A b \in Bank : valid'[b]
  <2>1. CASE clearRemappingStat
    BY <2>1 DEF clearRemappingStat, resetStats
  <2>2. CASE ~remapped /\ UNCHANGED vars
    BY <2>2 DEF PendingFlag, vars, tables
  <2>3. QED
    BY <1>1, <2>1, <2>2 DEF checkRemapping
<1>3. PendingFlag'
  BY <1>1, <1>2 DEF PendingFlag, Idle
<1>4. \A b \in Bank : (disabled[b] \/ logical[b] # b) => SetsNow[b] = EmptySet
  BY DEF PendingFlag, OutOfServiceIsEmpty, SetsNow, Flushed
<1>5. OutOfServiceIsEmpty'
  BY <1>1, <1>2, <1>4, RequestChanges DEF OutOfServiceIsEmpty
<1>6. QED
  BY <1>3, <1>5

LEMMA MechanismKeepsEmpty ==
  ASSUME EmptyInv, runMechanism, UNCHANGED cacheVars
  PROVE  PendingFlag' /\ OutOfServiceIsEmpty'
<1> USE DEF EmptyInv
<1>1. PICK b \in Bank : cursor = b /\ Body(b) /\ remapped' = remapped
  BY DEF runMechanism, Body
<1>2. PendingFlag'
  BY <1>1, BankIsInt DEF PendingFlag, Idle
<1>3. sets' = sets
  BY DEF cacheVars
<1>4. ASSUME NEW c \in Bank, disabled'[c] \/ logical'[c] # c, valid'[c]
      PROVE  (disabled[c] \/ logical[c] # c) /\ valid[c]
  <2> USE DEF PairInv
  <2>1. CASE Recover(b) /\ NRemap = 1 /\ logical[b] # b
    BY <1>4, <2>1 DEF Recover, resetBank, TypeOK
  <2>2. CASE Recover(b) /\ (NRemap = 1 => logical[b] = b)
    BY <1>4, <2>2 DEF Recover, resetBank, TypeOK
  <2>3. CASE Combine(b)
    <3>1. PICK t \in Bank : combineWith(b, t)
      BY <2>3 DEF Combine
    <3>2. QED
      BY <1>4, <3>1 DEF combineWith, TypeOK
  <2>4. CASE DisableSingle(b)
    BY <1>4, <2>4 DEF DisableSingle, TypeOK
  <2>5. CASE DisablePair(b)
    <3>1. remap[b] # b /\ logical[remap[b]] = b /\ remap[b] \in Bank
      BY <2>5 DEF DisablePair, PairedBanks, TypeOK
    <3>2. QED
      BY <1>4, <2>5, <3>1 DEF DisablePair, TypeOK
  <2>6. CASE Keep(b)
    BY <1>4, <2>6 DEF Keep, tables
  <2>7. QED
    BY <1>1, <2>1, <2>2, <2>3, <2>4, <2>5, <2>6 DEF Body
<1>5. QED
  BY <1>2, <1>3, <1>4 DEF OutOfServiceIsEmpty

\* A bank that is disabled or combined into another holds no page once the
\* controller has handled the tick that took it out of service: nothing dirty is
\* ever left in a bank that is not served.
THEOREM OutOfServiceIsEmptyHolds == CacheSpec => []OutOfServiceIsEmpty
<1>1. CacheInit => PendingFlag /\ OutOfServiceIsEmpty
  BY DEF CacheInit, Init, PendingFlag, OutOfServiceIsEmpty, Idle
<1>2. EmptyInv /\ [CacheNext]_allVars => PendingFlag' /\ OutOfServiceIsEmpty'
  <2> SUFFICES ASSUME EmptyInv, [CacheNext]_allVars
               PROVE  PendingFlag' /\ OutOfServiceIsEmpty'
    OBVIOUS
  <2>1. CASE ProcessRequest
    BY <2>1, RequestKeepsEmpty
  <2>2. CASE runMechanism /\ UNCHANGED cacheVars
    BY <2>2, MechanismKeepsEmpty
  <2>3. CASE callHotSpot /\ UNCHANGED cacheVars
    BY <2>3 DEF callHotSpot, updateTemperature, tryRemapping, cacheVars, tables,
                EmptyInv, PendingFlag, OutOfServiceIsEmpty
  <2>4. CASE UNCHANGED allVars
    BY <2>4 DEF allVars, vars, cacheVars, tables, EmptyInv, PendingFlag,
                OutOfServiceIsEmpty, Idle
  <2>5. QED
    BY <2>1, <2>2, <2>3, <2>4 DEF CacheNext
<1>3. QED
  BY <1>1, <1>2, ControllerImplementsManager, PairInvariant, PTL DEF CacheSpec, EmptyInv

(***************************************************************************)
(* The choice of a way                                                     *)
(***************************************************************************)

\* Sets and lines of the right type.
Content == [Way -> Line]

LEMMA WaysAre ==
  /\ Assoc \in Nat \ {0} /\ NBlocks \in Nat \ {0} /\ Way \subseteq Nat /\ 0 \in Way
  /\ Way = 0 .. Assoc - 1
BY CacheAssumption DEF Way

\* A page that is there is found.
LEMMA WayOfIsThere ==
  ASSUME NEW set, NEW p, Holds(set, p)
  PROVE  WayOf(set, p) \in Way /\ set[WayOf(set, p)].tag = p
<1> DEFINE S == {w \in Way : set[w].tag = p}
<1>1. S \subseteq Nat /\ S # {}
  BY WaysAre DEF Holds
<1> HIDE DEF S
<1>2. PICK w \in S : \A x \in S : w <= x
  BY <1>1, LeastElement
<1>3. \E v \in Way : set[v].tag = p /\ \A x \in Way : set[x].tag = p => v <= x
  BY <1>2 DEF S
<1> QED
  BY <1>3 DEF WayOf

\* getReplacementIndex always finds a way: one of the first of the largest usage.
LEMMA ReplacementIsWay ==
  ASSUME NEW set \in Content
  PROVE  getReplacementIndex(set) \in Way
<1> DEFINE best(w, x) == set[x].used < set[w].used \/ (set[x].used = set[w].used /\ w <= x)
           N == Assoc - 1
           T == {n \in 0 .. N : \E w \in 0 .. n : \A x \in 0 .. n : best(w, x)}
<1>1. N \in Nat /\ Way = 0 .. N
  BY WaysAre
<1>2. \A w \in Way : set[w].used \in Nat
  BY DEF Content, Line
<1>3. 0 \in T
  <2>1. 0 \in 0 .. 0 /\ 0 \in 0 .. N
    BY <1>1
  <2>2. \A x \in 0 .. 0 : best(0, x)
    BY <1>1, <1>2
  <2> QED
    BY <2>1, <2>2
<1>4. ASSUME NEW n \in 0 .. N - 1, n \in T PROVE n + 1 \in T
  <2>1. PICK w \in 0 .. n : \A x \in 0 .. n : best(w, x)
    BY <1>4
  <2>2. /\ n \in Int /\ n + 1 \in 0 .. N /\ 0 .. n + 1 = (0 .. n) \cup {n + 1}
        /\ w \in Way /\ n + 1 \in Way /\ 0 .. n \subseteq Way /\ n + 1 \in 0 .. n + 1
        /\ w \in 0 .. n + 1 /\ w <= n + 1 /\ w \in Int
    BY <1>1
  <2>3. CASE set[n + 1].used > set[w].used
    <3>1. \A x \in 0 .. n : best(n + 1, x)
      <4> TAKE x \in 0 .. n
      <4>1. best(w, x) /\ x \in Way
        BY <2>1, <2>2
      <4>2. set[x].used \in Nat /\ set[w].used \in Nat /\ set[n + 1].used \in Nat
        BY <1>2, <2>2, <4>1
      <4> QED
        BY <2>3, <4>1, <4>2
    <3>2. best(n + 1, n + 1)
      BY <1>2, <2>2
    <3> HIDE DEF best
    <3>3. \A x \in 0 .. n + 1 : best(n + 1, x)
      BY <2>2, <3>1, <3>2
    <3> QED
      BY <2>2, <3>3
  <2>4. CASE ~(set[n + 1].used > set[w].used)
    <3>1. best(w, n + 1)
      BY <1>2, <2>2, <2>4
    <3> HIDE DEF best
    <3>2. \A x \in 0 .. n + 1 : best(w, x)
      BY <2>1, <2>2, <3>1
    <3> QED
      BY <2>2, <3>2
  <2> QED
    BY <2>3, <2>4
<1> HIDE DEF T, N
<1>5. 0 .. N \subseteq T
  BY <1>1, <1>3, <1>4, InductionUpTo
<1>6. N \in T
  BY <1>1, <1>5
<1>7. \E w \in Way : \A x \in Way : best(w, x)
  BY <1>1, <1>6 DEF T
<1> QED
  BY <1>7 DEF getReplacementIndex

\* updateUsedInfo changes nothing but the usages.
LEMMA UsedInfo ==
  ASSUME NEW set \in Content, NEW w \in Way
  PROVE  LET u == updateUsedInfo(set, w)
         IN  /\ u \in Content
             /\ \A x \in Way : /\ u[x].tag = set[x].tag /\ u[x].vbits = set[x].vbits
                               /\ u[x].dbits = set[x].dbits /\ u[x].footprint = set[x].footprint
<1> DEFINE aged(x) == [set[x] EXCEPT !.used = IF x = w THEN 0 ELSE @ + 1]
<1>1. ASSUME NEW x \in Way
      PROVE  /\ aged(x) \in Line
             /\ aged(x).tag = set[x].tag /\ aged(x).vbits = set[x].vbits
             /\ aged(x).dbits = set[x].dbits /\ aged(x).footprint = set[x].footprint
  <2>1. set[x] \in Line
    BY DEF Content
  <2> QED
    BY <2>1 DEF Line
<1>2. updateUsedInfo(set, w) = IF set[w].used = 0 THEN set ELSE [x \in Way |-> aged(x)]
  BY DEF updateUsedInfo
<1> HIDE DEF aged
<1> QED
  BY <1>1, <1>2 DEF Content

\* A new page comes in clean, and the other ways keep what they have.
LEMMA ReplaceLines ==
  ASSUME NEW set \in Content, NEW w \in Way, NEW p \in Page, NEW fp \in SUBSET Block
  PROVE  LET r == replace(set, w, p, fp)
         IN  /\ r \in Content
             /\ r[w].tag = p /\ r[w].vbits = fp /\ r[w].dbits = {} /\ r[w].footprint = {}
             /\ \A x \in Way : x # w =>
                  /\ r[x].tag = set[x].tag /\ r[x].vbits = set[x].vbits
                  /\ r[x].dbits = set[x].dbits /\ r[x].footprint = set[x].footprint
<1> DEFINE line == [EmptyLine EXCEPT !.tag = p, !.vbits = fp]
           t == [set EXCEPT ![w] = line]
<1>1. line \in Line /\ line.tag = p /\ line.vbits = fp /\ line.dbits = {} /\ line.footprint = {}
  BY DEF EmptyLine, Line
<1> HIDE DEF line
<1>2. t \in Content /\ t[w] = line /\ \A x \in Way : x # w => t[x] = set[x]
  BY <1>1 DEF Content
<1>3. replace(set, w, p, fp) = updateUsedInfo(t, w)
  BY DEF replace, line
<1> HIDE DEF t
<1> QED
  BY <1>1, <1>2, <1>3, UsedInfo

(***************************************************************************)
(* What a request does to the contents                                     *)
(***************************************************************************)

LinesTypeOK ==
  sets \in [Bank -> Content] /\ fht \in [Block -> SUBSET Block] /\ unwritten \in Int

LEMMA SetsNowType ==
  ASSUME LinesTypeOK
  PROVE  /\ SetsNow \in [Bank -> Content]
         /\ \A b \in Bank : SetsNow[b] = IF b \in Flushed THEN EmptySet ELSE sets[b]
         /\ EmptySet \in Content
<1>1. EmptySet \in Content
  BY DEF EmptySet, EmptyLine, Content, Line
<1> QED
  BY <1>1 DEF SetsNow, LinesTypeOK

\* The line a hit leaves.
LEMMA AccessLine ==
  ASSUME NEW line \in Line, NEW write \in BOOLEAN, NEW k \in Block
  PROVE  LET e == accessBlock(line, write, k)
         IN  /\ e \in Line /\ e.tag = line.tag /\ e.vbits = line.vbits \cup {k}
             /\ (write => e.dbits = line.dbits \cup {k}) /\ (~write => e.dbits = line.dbits)
             /\ e.footprint = line.footprint \cup {k}
BY DEF accessBlock, Line

\* A request leaves every bank but one as the flush left it, and in that one
\* changes one way, or replaces it.
LEMMA RequestEffect ==
  ASSUME LinesTypeOK, PairInv, NEW p \in Page, NEW write \in BOOLEAN, NEW k \in Block,
         AccessPage(p, write, k) \/ PageMiss(p, k)
  PROVE  LET s == getRemapSet(p)
             set == SetsNow[s]
         IN  /\ s \in Bank /\ set \in Content
             /\ \/ LET w == WayOf(set, p)
                       e == accessBlock(set[w], write, k)
                   IN  /\ AccessPage(p, write, k) /\ w \in Way /\ set[w] \in Line
                       /\ set[w].tag = p
                       /\ sets' = [SetsNow EXCEPT ![s] = [set EXCEPT ![w] = e]]
                \/ LET w == getReplacementIndex(set)
                   IN  /\ PageMiss(p, k) /\ ~Holds(set, p) /\ w \in Way
                       /\ fht[k] \in SUBSET Block /\ set[w] \in Line
                       /\ sets' = [SetsNow EXCEPT ![s] = replace(set, w, p, fht[k])]
<1> DEFINE s == getRemapSet(p)
           set == SetsNow[s]
<1>1. s \in Bank /\ set \in Content
  BY HomeIsBank, SetsNowType DEF PairInv, TypeOK, getRemapSet
<1>2. CASE AccessPage(p, write, k)
  <2> DEFINE w == WayOf(set, p)
             e == accessBlock(set[w], write, k)
  <2>1. Holds(set, p) /\ sets' = [SetsNow EXCEPT ![s][w] = e]
    BY <1>2 DEF AccessPage
  <2>2. w \in Way /\ set[w].tag = p
    BY <2>1, WayOfIsThere
  <2>3. set[w] \in Line
    BY <1>1, <2>2 DEF Content
  <2>4. sets' = [SetsNow EXCEPT ![s] = [set EXCEPT ![w] = e]]
    BY <2>1
  <2> QED
    BY <1>1, <1>2, <2>2, <2>3, <2>4
<1>3. CASE PageMiss(p, k)
  <2> DEFINE w == getReplacementIndex(set)
  <2>1. w \in Way
    BY <1>1, ReplacementIsWay
  <2>2. set[w] \in Line
    BY <1>1, <2>1 DEF Content
  <2> QED
    BY <1>1, <1>3, <2>1, <2>2 DEF PageMiss, LinesTypeOK
<1> QED
  BY <1>2, <1>3

(***************************************************************************)
(* Finiteness                                                              *)
(***************************************************************************)

LEMMA BlocksFinite == IsFiniteSet(Block) /\ IsFiniteSet(Way) /\ IsFiniteSet(Bank)
<1>1. NBlocks - 1 \in Int /\ Assoc - 1 \in Int /\ TotBanks - 1 \in Int
  BY WaysAre, TotBanksNat
<1> QED
  BY <1>1, FS_Interval DEF Block, Way, Bank

LEMMA LineFinite ==
  ASSUME NEW line \in Line
  PROVE  IsFiniteSet(line.dbits) /\ Cardinality(line.dbits) \in Nat
<1>1. line.dbits \in SUBSET Block
  BY DEF Line
<1>2. IsFiniteSet(line.dbits)
  BY <1>1, BlocksFinite, FS_Subset
<1> QED
  BY <1>2, FS_CardinalityType

LEMMA TriplesFinite == IsFiniteSet(Bank \X Way \X Block)
<1> DEFINE T == Bank \X Way \X Block
           P == (Bank \X Way) \X Block
           f == [x \in T |-> <<<<x[1], x[2]>>, x[3]>>]
<1>1. IsFiniteSet(Bank \X Way)
  BY BlocksFinite, FS_Product
<1>2. IsFiniteSet(P)
  BY <1>1, BlocksFinite, FS_Product
<1>3. \A x \in T : f[x] \in P
  OBVIOUS
<1>4. ASSUME NEW x \in T, NEW y \in T, f[x] = f[y] PROVE x = y
  <2>1. x = <<x[1], x[2], x[3]>> /\ y = <<y[1], y[2], y[3]>>
    OBVIOUS
  <2>2. x[1] = y[1] /\ x[2] = y[2] /\ x[3] = y[3]
    BY <1>4
  <2> QED
    BY <2>1, <2>2, Zenon
<1>5. f \in Injection(T, P)
  BY <1>3, <1>4 DEF Injection, IsInjective
<1> HIDE DEF f, T, P
<1>6. IsFiniteSet(T)
  BY <1>2, <1>5, FS_Injection
<1> QED
  BY <1>6 DEF T

LEMMA DirtyFinite ==
  ASSUME NEW content, NEW banks \in SUBSET Bank
  PROVE  LET S == {x \in banks \X Way \X Block : x[3] \in content[x[1]][x[2]].dbits}
         IN  IsFiniteSet(S) /\ Cardinality(S) \in Nat /\ DirtyBlocks(content, banks) \in Nat
<1> DEFINE S == {x \in banks \X Way \X Block : x[3] \in content[x[1]][x[2]].dbits}
<1>1. S \in SUBSET (Bank \X Way \X Block)
  OBVIOUS
<1> HIDE DEF S
<1>2. IsFiniteSet(S)
  BY <1>1, TriplesFinite, FS_Subset
<1>3. Cardinality(S) \in Nat
  BY <1>2, FS_CardinalityType
<1> QED
  BY <1>2, <1>3 DEF S, DirtyBlocks

(***************************************************************************)
(* Types                                                                   *)
(***************************************************************************)

LEMMA DirtyInt ==
  ASSUME LinesTypeOK, NEW banks \in SUBSET Bank
  PROVE  DirtyBlocks(sets, banks) \in Nat
BY DirtyFinite DEF LinesTypeOK

LEMMA LinesTypeStep ==
  ASSUME LinesTypeOK, PairInv, [CacheNext]_allVars
  PROVE  LinesTypeOK'
<1>1. CASE UNCHANGED cacheVars
  BY <1>1 DEF cacheVars, LinesTypeOK
<1>2. CASE ProcessRequest
  <2>1. PICK p \in Page, write \in BOOLEAN, k \in Block :
           Bypass(p, k) \/ AccessPage(p, write, k) \/ PageMiss(p, k)
    BY <1>2 DEF ProcessRequest
  <2>2. DirtyBlocks(sets, Flushed) \in Nat
    BY DirtyInt DEF Flushed
  <2>3. SetsNow \in [Bank -> Content]
    BY SetsNowType
  <2>4. CASE Bypass(p, k)
    BY <2>2, <2>3, <2>4 DEF Bypass, LinesTypeOK
  <2>5. CASE AccessPage(p, write, k) \/ PageMiss(p, k)
    <3> DEFINE s == getRemapSet(p)
               set == SetsNow[s]
    <3>1. CASE LET w == WayOf(set, p)
                   e == accessBlock(set[w], write, k)
               IN  /\ AccessPage(p, write, k) /\ w \in Way /\ set[w] \in Line
                   /\ set[w].tag = p
                   /\ sets' = [SetsNow EXCEPT ![s] = [set EXCEPT ![w] = e]]
      <4> DEFINE w == WayOf(set, p)
                 e == accessBlock(set[w], write, k)
      <4>1. e \in Line
        BY <3>1, AccessLine
      <4> HIDE DEF e, w
      <4>2. [set EXCEPT ![w] = e] \in Content
        BY <2>5, <4>1, RequestEffect DEF Content
      <4>3. sets' = [SetsNow EXCEPT ![s] = [set EXCEPT ![w] = e]]
        BY <3>1 DEF e, w
      <4>4. sets' \in [Bank -> Content]
        BY <2>3, <4>2, <4>3
      <4>5. fht' = fht /\ unwritten' \in Int
        BY <2>2, <3>1 DEF AccessPage, LinesTypeOK
      <4> QED
        BY <4>4, <4>5 DEF LinesTypeOK
    <3>2. CASE LET w == getReplacementIndex(set)
               IN  /\ PageMiss(p, k) /\ ~Holds(set, p) /\ w \in Way
                   /\ fht[k] \in SUBSET Block /\ set[w] \in Line
                   /\ sets' = [SetsNow EXCEPT ![s] = replace(set, w, p, fht[k])]
      <4> DEFINE w == getReplacementIndex(set)
      <4>1. replace(set, w, p, fht[k]) \in Content
        BY <2>5, <3>2, RequestEffect, ReplaceLines
      <4>2. sets' \in [Bank -> Content]
        BY <2>3, <3>2, <4>1
      <4>3. set[w] \in Line
        BY <3>2
      <4>4. set[w].footprint \in SUBSET Block /\ Cardinality(set[w].dbits) \in Nat
        BY <4>3, LineFinite DEF Line
      <4>5. /\ fht' = [fht EXCEPT ![k] = set[w].footprint]
            /\ unwritten' = unwritten - DirtyBlocks(sets, Flushed) - Cardinality(set[w].dbits)
        BY <3>2 DEF PageMiss
      <4> QED
        BY <2>2, <4>2, <4>4, <4>5 DEF LinesTypeOK
    <3> QED
      BY <2>5, <3>1, <3>2, RequestEffect
  <2> QED
    BY <2>1, <2>4, <2>5
<1> QED
  BY <1>1, <1>2 DEF CacheNext, allVars

LEMMA LinesTypeInit == CacheInit => LinesTypeOK
BY SetsNowType, WaysAre DEF CacheInit, LinesTypeOK, EmptySet, EmptyLine, Content, Line

LEMMA LinesTypeCorrect == CacheSpec => []LinesTypeOK
BY LinesTypeInit, LinesTypeStep, ControllerImplementsManager, PairInvariant, PTL DEF CacheSpec

OutcomeTypeOK == outcome \in Outcome

\* The manager's tables, the lines, the history table, the counter and the outcomes
\* keep their types: in particular getReplacementIndex finds a way of every set that
\* is ever reached.
THEOREM CacheTypeCorrect == CacheSpec => []CacheTypeOK
<1>1. CacheInit => OutcomeTypeOK
  BY WaysAre DEF CacheInit, OutcomeTypeOK, Outcome, Block
<1>2. OutcomeTypeOK /\ [CacheNext]_allVars => OutcomeTypeOK'
  <2> SUFFICES ASSUME OutcomeTypeOK, [CacheNext]_allVars PROVE outcome' \in Outcome
    BY DEF OutcomeTypeOK
  <2>1. CASE UNCHANGED cacheVars
    BY <2>1 DEF cacheVars, OutcomeTypeOK
  <2>2. CASE ProcessRequest
    <3>1. PICK p \in Page, write \in BOOLEAN, k \in Block :
             Bypass(p, k) \/ AccessPage(p, write, k) \/ PageMiss(p, k)
      BY <2>2 DEF ProcessRequest
    <3>3. CASE Bypass(p, k)
      BY <3>3 DEF Bypass, Outcome
    <3>4. CASE PageMiss(p, k)
      BY <3>4 DEF PageMiss, Outcome, Hot
    <3>5. CASE AccessPage(p, write, k)
      <4>1. PICK v, line, s : outcome' = [result |-> IF v THEN "hit" ELSE "block_miss",
                                          block |-> k, present |-> k \in line.vbits, hot |-> Hot(s)]
        BY <3>5 DEF AccessPage
      <4> DEFINE r == IF v THEN "hit" ELSE "block_miss"
                 a == k \in line.vbits
                 h == Hot(s)
      <4>2. r \in {"none", "disabled", "page_miss", "block_miss", "hit"} /\ a \in BOOLEAN
            /\ h \in BOOLEAN
        BY DEF Hot
      <4>3. outcome' = [result |-> r, block |-> k, present |-> a, hot |-> h]
        BY <4>1
      <4> HIDE DEF r, a, h
      <4> QED
        BY <4>2, <4>3 DEF Outcome
    <3> QED
      BY <3>1, <3>3, <3>4, <3>5
  <2> QED
    BY <2>1, <2>2 DEF CacheNext, allVars
<1>3. TypeOK /\ LinesTypeOK /\ OutcomeTypeOK => CacheTypeOK
  BY DEF CacheTypeOK, LinesTypeOK, Content, OutcomeTypeOK
<1> QED
  BY <1>1, <1>2, <1>3, LinesTypeCorrect, ControllerImplementsManager, TypeCorrect, PTL
  DEF CacheSpec

(***************************************************************************)
(* A page at most once, its dirty blocks touched and valid                 *)
(***************************************************************************)

SetConsistent(set) ==
  \A w \in Way : set[w].tag # NoPage =>
    /\ \A x \in Way : set[x].tag = set[w].tag => x = w
    /\ set[w].dbits \subseteq set[w].footprint
    /\ set[w].footprint \subseteq set[w].vbits

LEMMA AccessConsistent ==
  ASSUME NEW set \in Content, SetConsistent(set), NEW w \in Way, NEW write \in BOOLEAN,
         NEW k \in Block, set[w].tag \in Page
  PROVE  SetConsistent([set EXCEPT ![w] = accessBlock(set[w], write, k)])
<1> DEFINE e == accessBlock(set[w], write, k)
           r == [set EXCEPT ![w] = e]
<1>1. /\ e.tag = set[w].tag /\ e.vbits = set[w].vbits \cup {k}
      /\ (write => e.dbits = set[w].dbits \cup {k}) /\ (~write => e.dbits = set[w].dbits)
      /\ e.footprint = set[w].footprint \cup {k}
  <2>1. set[w] \in Line
    BY DEF Content
  <2> QED
    BY <2>1, AccessLine
<1> HIDE DEF e
<1>2. r[w] = e /\ \A x \in Way : x # w => r[x] = set[x]
  BY DEF Content
<1>3. \A x \in Way : r[x].tag = set[x].tag
  BY <1>1, <1>2
<1>4. set[w].dbits \subseteq set[w].footprint /\ set[w].footprint \subseteq set[w].vbits
  BY CacheAssumption DEF SetConsistent
<1>5. e.dbits \subseteq e.footprint /\ e.footprint \subseteq e.vbits
  BY <1>1, <1>4
<1> HIDE DEF r
<1>6. SetConsistent(r)
  BY <1>2, <1>3, <1>5 DEF SetConsistent
<1> QED
  BY <1>6 DEF r, e

LEMMA ReplaceConsistent ==
  ASSUME NEW set \in Content, SetConsistent(set), NEW w \in Way, NEW p \in Page,
         NEW fp \in SUBSET Block, ~Holds(set, p)
  PROVE  SetConsistent(replace(set, w, p, fp))
<1> DEFINE r == replace(set, w, p, fp)
<1>1. /\ r[w].tag = p /\ r[w].vbits = fp /\ r[w].dbits = {} /\ r[w].footprint = {}
      /\ \A x \in Way : x # w =>
           /\ r[x].tag = set[x].tag /\ r[x].vbits = set[x].vbits
           /\ r[x].dbits = set[x].dbits /\ r[x].footprint = set[x].footprint
  BY ReplaceLines
<1> HIDE DEF r
<1>2. \A x \in Way : set[x].tag # p
  BY DEF Holds
<1>3. SetConsistent(r)
  BY <1>1, <1>2 DEF SetConsistent
<1> QED
  BY <1>3 DEF r

\* No set ever holds a page twice, and what is dirty in it has been touched and is
\* valid, across hits, replacements, remappings and flushes.
THEOREM SetsConsistentHolds == CacheSpec => []SetsConsistent
<1>1. CacheInit => SetsConsistent
  BY DEF CacheInit, SetsConsistent, EmptySet, EmptyLine
<1>2. LinesTypeOK /\ PairInv /\ SetsConsistent /\ [CacheNext]_allVars => SetsConsistent'
  <2> SUFFICES ASSUME LinesTypeOK, PairInv, SetsConsistent, [CacheNext]_allVars
               PROVE  SetsConsistent'
    OBVIOUS
  <2>1. CASE UNCHANGED cacheVars
    BY <2>1 DEF cacheVars, SetsConsistent
  <2>2. CASE ProcessRequest
    <3>1. PICK p \in Page, write \in BOOLEAN, k \in Block :
             Bypass(p, k) \/ AccessPage(p, write, k) \/ PageMiss(p, k)
      BY <2>2 DEF ProcessRequest
    <3>2. \A b \in Bank : SetConsistent(sets[b])
      BY DEF SetsConsistent, SetConsistent
    <3>3. SetConsistent(EmptySet)
      BY DEF SetConsistent, EmptySet, EmptyLine
    <3>4. \A b \in Bank : SetConsistent(SetsNow[b])
      BY <3>2, <3>3, SetsNowType
    <3>5. SetsNow \in [Bank -> Content]
      BY SetsNowType
    <3>6. SUFFICES \A b \in Bank : SetConsistent(sets'[b])
      BY <3>6 DEF SetsConsistent, SetConsistent
    <3>7. CASE Bypass(p, k)
      BY <3>4, <3>7 DEF Bypass
    <3>8. CASE AccessPage(p, write, k) \/ PageMiss(p, k)
      <4> DEFINE s == getRemapSet(p)
                 set == SetsNow[s]
      <4>1. s \in Bank /\ set \in Content /\ SetConsistent(set)
        BY <3>4, <3>8, RequestEffect
      <4>2. CASE LET w == WayOf(set, p)
                     e == accessBlock(set[w], write, k)
                 IN  /\ AccessPage(p, write, k) /\ w \in Way /\ set[w] \in Line
                     /\ set[w].tag = p
                     /\ sets' = [SetsNow EXCEPT ![s] = [set EXCEPT ![w] = e]]
        <5> DEFINE w == WayOf(set, p)
                   t == [set EXCEPT ![w] = accessBlock(set[w], write, k)]
        <5>1. SetConsistent(t)
          BY <4>1, <4>2, AccessConsistent
        <5> HIDE DEF t
        <5>2. sets' = [SetsNow EXCEPT ![s] = t]
          BY <4>2 DEF t
        <5> QED
          BY <3>4, <3>5, <5>1, <5>2
      <4>3. CASE LET w == getReplacementIndex(set)
                 IN  /\ PageMiss(p, k) /\ ~Holds(set, p) /\ w \in Way
                     /\ fht[k] \in SUBSET Block /\ set[w] \in Line
                     /\ sets' = [SetsNow EXCEPT ![s] = replace(set, w, p, fht[k])]
        <5> DEFINE w == getReplacementIndex(set)
                   t == replace(set, w, p, fht[k])
        <5>1. SetConsistent(t)
          BY <4>1, <4>3, ReplaceConsistent
        <5> HIDE DEF t
        <5>2. sets' = [SetsNow EXCEPT ![s] = t]
          BY <4>3 DEF t
        <5> QED
          BY <3>4, <3>5, <5>1, <5>2
      <4> QED
        BY <3>8, <4>2, <4>3, RequestEffect
    <3> QED
      BY <3>1, <3>7, <3>8
  <2> QED
    BY <2>1, <2>2 DEF CacheNext, allVars
<1> QED
  BY <1>1, <1>2, LinesTypeCorrect, ControllerImplementsManager, PairInvariant, PTL DEF CacheSpec

(***************************************************************************)
(* Every dirty block is written back once                                  *)
(***************************************************************************)

\* The dirty blocks of some banks.
Dirty(content, banks) == {x \in banks \X Way \X Block : x[3] \in content[x[1]][x[2]].dbits}

\* The dirty blocks of a way, in place.
LEMMA DirtyOfWay ==
  ASSUME NEW content, NEW s \in Bank, NEW w \in Way, content[s][w].dbits \subseteq Block
  PROVE  Cardinality({x \in Dirty(content, Bank) : x[1] = s /\ x[2] = w})
           = Cardinality(content[s][w].dbits)
<1> DEFINE D == content[s][w].dbits
           S == {x \in Dirty(content, Bank) : x[1] = s /\ x[2] = w}
           f == [k \in D |-> <<s, w, k>>]
<1>1. \A k \in D : f[k] \in S
  BY DEF Dirty
<1>2. \A x \in S : x[3] \in D /\ f[x[3]] = x
  BY DEF Dirty
<1>3. \A j, k \in D : f[j] = f[k] => j = k
  OBVIOUS
<1>4. f \in Bijection(D, S)
  BY <1>1, <1>2, <1>3 DEF Bijection, Injection, Surjection, IsInjective
<1>5. IsFiniteSet(D)
  BY BlocksFinite, FS_Subset
<1> HIDE DEF f, D, S
<1>6. Cardinality(S) = Cardinality(D)
  BY <1>4, <1>5, FS_Bijection DEF ExistsBijection
<1> QED
  BY <1>6 DEF S, D

\* A flush counts what it drops.
LEMMA FlushBalance ==
  ASSUME LinesTypeOK
  PROVE  /\ DirtyBlocks(SetsNow, Bank) = DirtyBlocks(sets, Bank) - DirtyBlocks(sets, Flushed)
         /\ DirtyBlocks(sets, Bank) \in Nat /\ DirtyBlocks(sets, Flushed) \in Nat
<1> DEFINE A == Dirty(sets, Bank)
           F == Dirty(sets, Flushed)
<1>1. Flushed \subseteq Bank /\ sets \in [Bank -> Content]
  BY DEF Flushed, LinesTypeOK
<1>2. \A w \in Way : EmptySet[w].dbits = {}
  BY DEF EmptySet, EmptyLine
<1>3. Dirty(SetsNow, Bank) = A \ F
  <2>1. \A x \in Bank \X Way \X Block :
           /\ x[1] \in Flushed => SetsNow[x[1]][x[2]].dbits = {}
           /\ x[1] \notin Flushed => SetsNow[x[1]] = sets[x[1]]
    BY <1>2, SetsNowType
  <2> QED
    BY <1>1, <2>1 DEF Dirty
<1>4. A \cap F = F
  BY <1>1 DEF Dirty
<1>5. IsFiniteSet(A) /\ Cardinality(A) \in Nat /\ Cardinality(F) \in Nat
  BY <1>1, DirtyFinite DEF Dirty, DirtyBlocks
<1> HIDE DEF A, F
<1>6. Cardinality(A \ F) = Cardinality(A) - Cardinality(F)
  BY <1>4, <1>5, FS_Difference
<1> QED
  BY <1>3, <1>5, <1>6 DEF A, F, Dirty, DirtyBlocks

\* The line e in way w of set s, and one more block.
Put(content, s, w, e) == [content EXCEPT ![s] = [content[s] EXCEPT ![w] = e]]
Dirtied(before, after, k) == k \notin before /\ after = before \cup {k}

\* A line that changes in place dirties one block or none.
LEMMA HitBalance ==
  ASSUME NEW content \in [Bank -> Content], NEW s \in Bank, NEW w \in Way, NEW k \in Block,
         NEW e \in Line
  PROVE  /\ Dirtied(content[s][w].dbits, e.dbits, k)
              => DirtyBlocks(Put(content, s, w, e), Bank) = DirtyBlocks(content, Bank) + 1
         /\ e.dbits = content[s][w].dbits
              => DirtyBlocks(Put(content, s, w, e), Bank) = DirtyBlocks(content, Bank)
<1> DEFINE line == content[s][w]
           after == Put(content, s, w, e)
           A == Dirty(content, Bank)
<1>1. line \in Line /\ content[s] \in Content
  BY DEF Content
<1>3. /\ after[s][w].dbits = e.dbits
      /\ \A x \in Bank \X Way \X Block :
           ~(x[1] = s /\ x[2] = w) => after[x[1]][x[2]] = content[x[1]][x[2]]
  BY <1>1 DEF Content, Put
<1> HIDE DEF after
<1>4. IsFiniteSet(A) /\ Cardinality(A) \in Nat
  BY DirtyFinite DEF Dirty, DirtyBlocks
<1>5. ASSUME e.dbits = line.dbits \cup {k}, k \notin line.dbits
      PROVE  DirtyBlocks(after, Bank) = DirtyBlocks(content, Bank) + 1
  <2> DEFINE x0 == <<s, w, k>>
  <2>1. x0 \in Bank \X Way \X Block /\ x0[1] = s /\ x0[2] = w /\ x0[3] = k
    OBVIOUS
  <2>2. x0 \notin A
    BY <1>5, <2>1 DEF Dirty
  <2>3. \A x \in Bank \X Way \X Block : x[1] = s /\ x[2] = w /\ x[3] = k => x = x0
    OBVIOUS
  <2> HIDE DEF x0
  <2>4. Dirty(after, Bank) = A \cup {x0}
    <3>1. ASSUME NEW x \in Bank \X Way \X Block
          PROVE  x[3] \in after[x[1]][x[2]].dbits
                   <=> x[3] \in content[x[1]][x[2]].dbits \/ x = x0
      <4>1. CASE x[1] = s /\ x[2] = w
        BY <1>3, <1>5, <2>1, <2>3, <4>1
      <4>2. CASE ~(x[1] = s /\ x[2] = w)
        BY <1>3, <2>1, <4>2
      <4> QED
        BY <4>1, <4>2
    <3> QED
      BY <2>1, <3>1 DEF Dirty
  <2> HIDE DEF A
  <2>5. Cardinality(Dirty(after, Bank)) = Cardinality(A) + 1
    BY <1>4, <2>2, <2>4, FS_AddElement
  <2> QED
    BY <2>5 DEF A, Dirty, DirtyBlocks
<1>6. ASSUME e.dbits = line.dbits
      PROVE  DirtyBlocks(after, Bank) = DirtyBlocks(content, Bank)
  <2>1. ASSUME NEW x \in Bank \X Way \X Block
        PROVE  after[x[1]][x[2]].dbits = content[x[1]][x[2]].dbits
    <3>1. CASE x[1] = s /\ x[2] = w
      BY <1>3, <1>6, <3>1
    <3>2. CASE ~(x[1] = s /\ x[2] = w)
      BY <1>3, <3>2
    <3> QED
      BY <3>1, <3>2
  <2>2. Dirty(after, Bank) = A
    BY <2>1 DEF Dirty
  <2> QED
    BY <2>2 DEF Dirty, DirtyBlocks
<1> QED
  BY <1>5, <1>6 DEF after, Dirtied

LEMMA MissBalance ==
  ASSUME NEW content \in [Bank -> Content], NEW s \in Bank, NEW w \in Way,
         NEW p \in Page, NEW fp \in SUBSET Block
  PROVE  DirtyBlocks([content EXCEPT ![s] = replace(content[s], w, p, fp)], Bank)
           = DirtyBlocks(content, Bank) - Cardinality(content[s][w].dbits)
<1> DEFINE t == replace(content[s], w, p, fp)
           after == [content EXCEPT ![s] = t]
           A == Dirty(content, Bank)
           V == {x \in A : x[1] = s /\ x[2] = w}
<1>1. content[s] \in Content /\ content[s][w] \in Line
  BY DEF Content
<1>2. t[w].dbits = {} /\ \A x \in Way : x # w => t[x].dbits = content[s][x].dbits
  BY <1>1, ReplaceLines
<1> HIDE DEF t
<1>3. after[s] = t /\ \A b \in Bank : b # s => after[b] = content[b]
  OBVIOUS
<1> HIDE DEF after
<1>4. Dirty(after, Bank) = A \ V
  <2>1. ASSUME NEW x \in Bank \X Way \X Block
        PROVE  x[3] \in after[x[1]][x[2]].dbits
                 <=> x[3] \in content[x[1]][x[2]].dbits /\ ~(x[1] = s /\ x[2] = w)
    <3>1. x[1] \in Bank /\ x[2] \in Way
      OBVIOUS
    <3>2. CASE x[1] = s /\ x[2] = w
      BY <1>2, <1>3, <3>2
    <3>3. CASE x[1] = s /\ x[2] # w
      BY <1>2, <1>3, <3>1, <3>3
    <3>4. CASE x[1] # s
      BY <1>3, <3>1, <3>4
    <3> QED
      BY <3>2, <3>3, <3>4
  <2> QED
    BY <2>1 DEF Dirty
<1>5. IsFiniteSet(A) /\ Cardinality(A) \in Nat /\ A \cap V = V
  BY DirtyFinite DEF Dirty, DirtyBlocks
<1>6. Cardinality(V) = Cardinality(content[s][w].dbits)
  BY <1>1, DirtyOfWay DEF Line
<1> HIDE DEF A, V
<1>7. Cardinality(A \ V) = Cardinality(A) - Cardinality(V)
  BY <1>5, FS_Difference
<1> QED
  BY <1>4, <1>6, <1>7 DEF A, Dirty, DirtyBlocks, after, t

\* The blocks dirtied by writes and not yet counted as written back are exactly the
\* dirty blocks of the cache: no flush and no eviction loses one or counts it twice.
THEOREM WritebackBalanceHolds == CacheSpec => []WritebackBalance
<1>1. CacheInit => WritebackBalance
  <2> SUFFICES ASSUME CacheInit PROVE WritebackBalance
    OBVIOUS
  <2>1. Dirty(sets, Bank) = {}
    BY DEF CacheInit, Dirty, EmptySet, EmptyLine
  <2>2. Cardinality(Dirty(sets, Bank)) = 0
    BY <2>1, FS_EmptySet
  <2> QED
    BY <2>2 DEF CacheInit, WritebackBalance, Dirty, DirtyBlocks
<1>2. LinesTypeOK /\ PairInv /\ WritebackBalance /\ [CacheNext]_allVars => WritebackBalance'
  <2> SUFFICES ASSUME LinesTypeOK, PairInv, WritebackBalance, [CacheNext]_allVars
               PROVE  unwritten' = DirtyBlocks(sets', Bank)
    BY DEF WritebackBalance, DirtyBlocks
  <2>1. CASE UNCHANGED cacheVars
    BY <2>1 DEF cacheVars, WritebackBalance
  <2>2. CASE ProcessRequest
    <3>1. PICK p \in Page, write \in BOOLEAN, k \in Block :
             Bypass(p, k) \/ AccessPage(p, write, k) \/ PageMiss(p, k)
      BY <2>2 DEF ProcessRequest
    <3>2. unwritten - DirtyBlocks(sets, Flushed) = DirtyBlocks(SetsNow, Bank)
      BY FlushBalance DEF WritebackBalance
    <3>3. SetsNow \in [Bank -> Content]
      BY SetsNowType
    <3>4. CASE Bypass(p, k)
      BY <3>2, <3>4 DEF Bypass
    <3>5. CASE AccessPage(p, write, k) \/ PageMiss(p, k)
      <4> DEFINE s == getRemapSet(p)
                 set == SetsNow[s]
      <4>1. s \in Bank /\ set \in Content
        BY <3>5, RequestEffect
      <4>2. CASE LET w == WayOf(set, p)
                     e == accessBlock(set[w], write, k)
                 IN  /\ AccessPage(p, write, k) /\ w \in Way /\ set[w] \in Line
                     /\ set[w].tag = p
                     /\ sets' = [SetsNow EXCEPT ![s] = [set EXCEPT ![w] = e]]
        <5> DEFINE w == WayOf(set, p)
                   n == DirtyBlocks(sets', Bank)
                   u == unwritten - DirtyBlocks(sets, Flushed)
        <5>1. /\ write /\ k \notin set[w].dbits => n = DirtyBlocks(SetsNow, Bank) + 1
              /\ ~(write /\ k \notin set[w].dbits) => n = DirtyBlocks(SetsNow, Bank)
          <6> DEFINE e == accessBlock(set[w], write, k)
          <6>1. /\ sets' = [SetsNow EXCEPT ![s] = [SetsNow[s] EXCEPT ![w] = e]]
                /\ w \in Way /\ set[w] \in Line
            BY <4>2
          <6>2. /\ e \in Line
                /\ (write => e.dbits = set[w].dbits \cup {k}) /\ (~write => e.dbits = set[w].dbits)
            BY <6>1, AccessLine
          <6> HIDE DEF e, w, s
          <6>3. /\ Dirtied(set[w].dbits, e.dbits, k) => n = DirtyBlocks(SetsNow, Bank) + 1
                /\ e.dbits = set[w].dbits => n = DirtyBlocks(SetsNow, Bank)
            <7>1. sets' = Put(SetsNow, s, w, e)
              BY <6>1 DEF Put
            <7>2. s \in Bank /\ w \in Way /\ e \in Line /\ SetsNow \in [Bank -> Content]
              BY <3>3, <4>1, <6>1, <6>2
            <7> QED
              BY <7>1, <7>2, HitBalance
          <6>4. /\ write /\ k \in set[w].dbits => e.dbits = set[w].dbits
                /\ write /\ k \notin set[w].dbits => Dirtied(set[w].dbits, e.dbits, k)
            BY <6>2 DEF Dirtied
          <6> QED
            BY <6>2, <6>3, <6>4
        <5>2. /\ write /\ k \notin set[w].dbits => unwritten' = u + 1
              /\ ~(write /\ k \notin set[w].dbits) => unwritten' = u + 0
          BY <4>2 DEF AccessPage
        <5>3. u + 0 = u
          BY FlushBalance DEF LinesTypeOK
        <5> QED
          BY <3>2, <5>1, <5>2, <5>3
      <4>3. CASE LET w == getReplacementIndex(set)
                 IN  /\ PageMiss(p, k) /\ ~Holds(set, p) /\ w \in Way
                     /\ fht[k] \in SUBSET Block /\ set[w] \in Line
                     /\ sets' = [SetsNow EXCEPT ![s] = replace(set, w, p, fht[k])]
        <5> DEFINE w == getReplacementIndex(set)
        <5>1. DirtyBlocks(sets', Bank) = DirtyBlocks(SetsNow, Bank) - Cardinality(set[w].dbits)
          BY <3>3, <4>1, <4>3, MissBalance
        <5>2. unwritten' = unwritten - DirtyBlocks(sets, Flushed) - Cardinality(set[w].dbits)
          BY <4>3 DEF PageMiss
        <5> QED
          BY <3>2, <5>1, <5>2
      <4> QED
        BY <3>5, <4>2, <4>3, RequestEffect
    <3> QED
      BY <3>1, <3>4, <3>5
  <2> QED
    BY <2>1, <2>2 DEF CacheNext, allVars
<1> QED
  BY <1>1, <1>2, LinesTypeCorrect, ControllerImplementsManager, PairInvariant, PTL DEF CacheSpec
==============================================================================
