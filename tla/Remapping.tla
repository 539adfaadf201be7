------------------------------ MODULE Remapping ------------------------------
(***************************************************************************)
(* The thermal remapping manager of the stacked DRAM cache: the bank table *)
(* (class BankStat), the physical bank table and RemappingManager, with    *)
(* the two places that drive it: the thermal tick (StatsManager::          *)
(* callHotSpot -> updateTemperature -> tryRemapping -> runMechanism) and   *)
(* the cache controller that consumes its result (checkRemapping ->        *)
(* clearRemappingStat -> resetStats(false)).                               *)
(*                                                                         *)
(* _physical_id is not a variable: it is initialised to the bank's own id, *)
(* setId is only called as setId(bank_id, bank_id), and remapTo has no     *)
(* caller.  The same holds of PhyBank::_logical_bank.  PhyBank::_valid is  *)
(* left out: it is assigned in several places and never read.              *)
(*                                                                         *)
(* runMechanism is one loop over the banks.  Here it is one step per bank, *)
(* counted by `cursor'; every other action waits for the loop to end, so   *)
(* the handler is still atomic to the rest of the system (the simulator    *)
(* calls it while all simulated threads wait at the barrier).              *)
(***************************************************************************)
EXTENDS Integers, FiniteSets

CONSTANTS
  NVaults,      \* _n_vaults
  NBanks,       \* _n_banks: banks of one vault
  Temps,        \* the temperatures the thermal model may report
  HighThres,    \* _high_thres: from here on a bank is hot
  RemapThres,   \* _remap_thres: below it a bank is cool again
  Configs       \* the settings of the configuration file to consider

ASSUME SizeAssumption == NVaults \in Nat \ {0} /\ NBanks \in Nat \ {0}

\* The shipped configuration has remap_temp_thres 83 and high_temp_thres 85.
ASSUME TempAssumption ==
  /\ Temps \subseteq Int
  /\ 0 \in Temps
  /\ HighThres \in Nat \ {0}
  /\ RemapThres \in Nat
  /\ RemapThres <= HighThres

\* n_remap: 0 disables a hot bank, 1 combines it with a cool one, 2 (swap) is
\* not implemented by the mechanism; inter_vault: a target may be in another
\* vault; remap: StackedDramPerfUnison::enable_remap; off: perf_model/stacked_dram/
\* disabled, which only the cache controller reads.
ASSUME ConfigAssumption ==
  Configs \subseteq [n_remap : 0..2, inter_vault : BOOLEAN, remap : BOOLEAN,
                     off : BOOLEAN]

TotBanks == NVaults * NBanks

Bank == 0 .. TotBanks - 1

VARIABLES
  config,     \* the settings of the configuration file, see ConfigAssumption
  logical,    \* BankStat::_logical_id: the bank whose sets serve this bank
  remap,      \* BankStat::_remap_id: the bank combined into this one
  valid,      \* BankStat::_valid: FALSE until the controller has invalidated
  disabled,   \* BankStat::_disabled
  combined,   \* BankStat::_combined: member of a pair, on either side
  temp,       \* PhyBank::_temperature
  remapped,   \* StackedDramPerfUnison::remapped
  cursor,     \* bank_id of the loop in runMechanism; TotBanks outside it
  events      \* disable_times + double_disable_times + remap_times
              \* - recovery_times, the balance of the four printed counters

tables == <<logical, remap, valid, disabled, combined>>
vars == <<config, tables, temp, remapped, cursor, events>>

Idle == cursor = TotBanks

NRemap == config.n_remap
InterVault == config.inter_vault
EnableRemap == config.remap

\* The constructors of BankStat and RemappingManager, and setRemapConfig.
Init ==
  /\ config \in Configs
  /\ logical = [b \in Bank |-> b]
  /\ remap = [b \in Bank |-> b]
  /\ valid = [b \in Bank |-> TRUE]
  /\ disabled = [b \in Bank |-> FALSE]
  /\ combined = [b \in Bank |-> FALSE]
  /\ temp = [b \in Bank |-> 0]
  /\ remapped = FALSE
  /\ cursor = TotBanks
  /\ events = 0

Hot(b) == temp[b] >= HighThres
Cool(b) == temp[b] < RemapThres

(***************************************************************************)
(* Choosing a target for a hot bank                                        *)
(***************************************************************************)

\* begin_i .. end_i - 1.  Without inter_vault the loop starts at vault_id,
\* not at the first bank of the vault.
SearchRange(b) ==
  IF InterVault
    THEN Bank
    ELSE LET v == b \div NBanks IN v .. v + NBanks - 1

\* min_temp starts at 1000.0 and the comparison is strict.
MinTempInit == 1000

Candidate(b, t) ==
  /\ t \in SearchRange(b)
  /\ ~combined[t]
  /\ ~disabled[t]
  /\ Cool(t)
  /\ temp[t] < MinTempInit

\* The loop keeps the first coolest candidate.
Target(b, t) ==
  /\ Candidate(b, t)
  /\ \A j \in Bank : Candidate(b, j) =>
       temp[t] < temp[j] \/ (temp[t] = temp[j] /\ t <= j)

NoTarget(b) == \A t \in Bank : ~Candidate(b, t)

(***************************************************************************)
(* The changes runMechanism makes to the tables                            *)
(***************************************************************************)

\* Mutant of resetBank: the bank that served b keeps its mark and its partner.
resetBankOneSide(b) ==
  /\ logical' = [logical EXCEPT ![b] = b]
  /\ disabled' = [disabled EXCEPT ![b] = FALSE, ![remap[b]] = FALSE]
  /\ combined' = [combined EXCEPT ![b] = FALSE]
  /\ UNCHANGED <<remap, valid>>

\* resetBank, called when a bank has become cool again.  With policy 1 a bank
\* that was combined into another leaves the pair, and a bank that was disabled
\* with its partner also enables the partner.
resetBank(b) ==
  /\ \/ /\ NRemap # 1
        /\ disabled' = [disabled EXCEPT ![b] = FALSE]
        /\ UNCHANGED <<logical, remap, combined>>
     \/ /\ NRemap = 1
        /\ logical[b] # b
        /\ logical' = [logical EXCEPT ![b] = b]
        /\ disabled' = [disabled EXCEPT ![b] = FALSE]
        /\ combined' = [combined EXCEPT ![b] = FALSE, ![logical[b]] = FALSE]
        /\ remap' = [remap EXCEPT ![logical[b]] = logical[b]]
     \/ /\ NRemap = 1
        /\ logical[b] = b
        /\ disabled' = [disabled EXCEPT ![b] = FALSE, ![remap[b]] = FALSE]
        /\ UNCHANGED <<logical, remap, combined>>
  /\ UNCHANGED valid

\* Mutants of Recoverable: the hot threshold instead of the safe one, and a
\* disabled bank that is not considered.
RecoverableBelowHot(b) == ~Hot(b) /\ (disabled[b] \/ (NRemap = 1 /\ logical[b] # b))
RecoverableIfRemapped(b) == Cool(b) /\ NRemap = 1 /\ logical[b] # b

\* A cool bank that is disabled, or (policy 1) combined into another one.
Recoverable(b) ==
  /\ Cool(b)
  /\ disabled[b] \/ (NRemap = 1 /\ logical[b] # b)

Recover(b) ==
  /\ Recoverable(b)
  /\ resetBank(b)
  /\ events' = events - 1

\* BankStat::combineWith and the assignments around its call.
combineWith(b, t) ==
  /\ logical' = [logical EXCEPT ![b] = logical[t]]
  /\ valid' = [valid EXCEPT ![b] = FALSE]
  /\ disabled' = [disabled EXCEPT ![b] = FALSE]
  /\ combined' = [combined EXCEPT ![b] = TRUE, ![t] = TRUE]
  /\ remap' = [remap EXCEPT ![t] = b]

Combine(b) ==
  /\ NRemap = 1
  /\ Hot(b)
  /\ ~combined[b]
  /\ ~disabled[b]
  /\ \E t \in Bank : Target(b, t) /\ combineWith(b, t)
  /\ events' = events + 1

\* Policy 0, or policy 1 when no target was found.
DisableSingle(b) ==
  /\ Hot(b)
  /\ ~disabled[b]
  /\ \/ NRemap = 0
     \/ NRemap = 1 /\ ~combined[b] /\ NoTarget(b)
  /\ disabled' = [disabled EXCEPT ![b] = TRUE]
  /\ valid' = [valid EXCEPT ![b] = FALSE]
  /\ events' = events + 1
  /\ UNCHANGED <<logical, remap, combined>>

\* Mutants of DisablePair: the partner is forgotten; both banks are counted.
DisableFirst(b) ==
  /\ NRemap = 1 /\ Hot(b) /\ ~disabled[b] /\ combined[b] /\ logical[b] = b
  /\ disabled' = [disabled EXCEPT ![b] = TRUE]
  /\ valid' = [valid EXCEPT ![b] = FALSE]
  /\ events' = events + 1
  /\ UNCHANGED <<logical, remap, combined>>

DisablePairCountedTwice(b) ==
  /\ NRemap = 1 /\ Hot(b) /\ ~disabled[b] /\ combined[b] /\ logical[b] = b
  /\ disabled' = [disabled EXCEPT ![remap[b]] = TRUE, ![b] = TRUE]
  /\ valid' = [valid EXCEPT ![b] = FALSE]
  /\ events' = events + 2
  /\ UNCHANGED <<logical, remap, combined>>

\* A hot bank with another bank combined into it: both are disabled.
DisablePair(b) ==
  /\ NRemap = 1
  /\ Hot(b)
  /\ ~disabled[b]
  /\ combined[b]
  /\ logical[b] = b
  /\ disabled' = [disabled EXCEPT ![remap[b]] = TRUE, ![b] = TRUE]
  /\ valid' = [valid EXCEPT ![b] = FALSE]
  /\ events' = events + 1
  /\ UNCHANGED <<logical, remap, combined>>

\* No branch of the loop body applies: policy 2, a bank that is neither hot nor
\* waiting to recover, a hot bank already disabled, or one already combined into
\* another ("hope that bank is cool...").
Keep(b) ==
  /\ \/ NRemap = 2
     \/ /\ ~Recoverable(b)
        /\ \/ ~Hot(b)
           \/ disabled[b]
           \/ NRemap = 1 /\ combined[b] /\ logical[b] # b
  /\ UNCHANGED <<tables, events>>

(***************************************************************************)
(* The actions                                                             *)
(***************************************************************************)

\* One iteration of runMechanism.  Since RemapThres <= HighThres, at most one of
\* the loop body's branches is taken for a bank.
runMechanism ==
  \E b \in Bank :
    /\ cursor = b
    /\ cursor' = b + 1
    /\ \/ NRemap # 2 /\ Recover(b)
       \/ Combine(b)
       \/ DisableSingle(b)
       \/ DisablePair(b)
       \/ Keep(b)
    /\ UNCHANGED <<config, temp, remapped>>

\* updateTemperature for every bank: the new temperatures, and the flag that makes
\* the controller look at the tables before the next request.
updateTemperature ==
  /\ temp' \in [Bank -> Temps]
  /\ remapped' = TRUE

\* The mechanism is entered if remapping is enabled.
tryRemapping == cursor' = IF remapped' /\ EnableRemap THEN 0 ELSE TotBanks

\* The thermal tick.
callHotSpot ==
  /\ Idle
  /\ updateTemperature
  /\ tryRemapping
  /\ UNCHANGED <<config, tables, events>>

\* resetStats(false), the only way it is called: no bank is reset.
resetStats ==
  /\ valid' = [b \in Bank |-> TRUE]
  /\ UNCHANGED <<logical, remap, disabled, combined>>

\* The controller has handled the result of the mechanism.
clearRemappingStat ==
  /\ Idle
  /\ remapped
  /\ resetStats
  /\ remapped' = FALSE
  /\ UNCHANGED <<config, temp, cursor, events>>

Next == runMechanism \/ callHotSpot \/ clearRemappingStat

Spec == Init /\ [][Next]_vars

\* The thermal tick is periodic and the loop runs to its end.
FairSpec == Spec /\ WF_vars(runMechanism) /\ WF_vars(callHotSpot)

(***************************************************************************)
(* Properties                                                              *)
(***************************************************************************)

\* Every table entry stays in its range: bank ids are bank ids.
TypeOK ==
  /\ config \in Configs
  /\ logical \in [Bank -> Bank]
  /\ remap \in [Bank -> Bank]
  /\ valid \in [Bank -> BOOLEAN]
  /\ disabled \in [Bank -> BOOLEAN]
  /\ combined \in [Bank -> BOOLEAN]
  /\ temp \in [Bank -> Temps]
  /\ remapped \in BOOLEAN
  /\ cursor \in 0 .. TotBanks
  /\ events \in Int

\* Combination is a matching.  A bank served by another (logical_id) is the one
\* its partner names (remap_id), the partner serves itself, exactly the members of
\* pairs are marked combined, and both members are enabled or disabled together.
\* It makes the three "[Error]" prints of combineWith and resetBank unreachable.
PairedBanks ==
  /\ \A b \in Bank : logical[b] # b =>
       /\ remap[logical[b]] = b
       /\ logical[logical[b]] = logical[b]
       /\ combined[b]
       /\ disabled[b] <=> disabled[logical[b]]
  /\ \A b \in Bank : remap[b] # b => logical[remap[b]] = b /\ combined[b]
  /\ \A b \in Bank : combined[b] => (logical[b] # b <=> remap[b] = b)

\* When the mechanism is done, no enabled bank is served by a hot bank, although
\* temperatures, pairs and disabled banks of earlier ticks are all still around.
NoHotService ==
  (EnableRemap /\ NRemap # 2 /\ Idle) =>
    \A b \in Bank : ~disabled[b] => temp[logical[b]] < HighThres

\* The printed statistics balance. Each disable, double disable and remap that
\* no recovery has answered is a bank still combined into another, or disabled
\* on its own account.
OutOfService == {b \in Bank : logical[b] # b \/ disabled[b]}

EventsBalance == events = Cardinality(OutOfService)

\* A bank is enabled again only when the bank that will serve it is below the
\* safe threshold, not merely below the hot one (hysteresis).
EnabledOnlyWhenCool ==
  [][\A b \in Bank : disabled[b] /\ ~disabled'[b] =>
       temp[logical'[b]] < RemapThres]_vars

\* A bank that stays cool from some point on is eventually back in service for
\* good, serving itself.
CoolBankRecovers ==
  \A b \in Bank :
    <>[](temp[b] < RemapThres) => <>[](logical[b] = b /\ ~disabled[b])

\* runMechanism, at the target search: "check if we want a global remapping".
\* Without inter_vault a bank is only combined with a bank of its own vault.
IntraVaultTargets ==
  ~InterVault => \A b \in Bank : logical[b] \div NBanks = b \div NBanks

==============================================================================
