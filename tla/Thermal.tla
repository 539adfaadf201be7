------------------------------- MODULE Thermal -------------------------------
(***************************************************************************)
(* The thermal loop of the simulator: StatsManager::recordStats collects   *)
(* the counters of the DRAM and the power of the cores, writes the power   *)
(* trace HotSpot reads (dumpHotspotInput), calls HotSpot, hands the bank   *)
(* temperatures to the stacked DRAM (refresh rate, remapping manager) and  *)
(* steps the frequency of the cores up or down (checkDTM, DvfsManager).    *)
(*                                                                         *)
(* A unit of the floor plans is a tuple.  Everything that is matched by    *)
(* name in the files is matched by unit here, everything that is matched   *)
(* by column number is matched by position: the header and rows of the     *)
(* trace are sequences, and HotSpot's answer is a sequence.                *)
(*                                                                         *)
(* A power is represented by what it is computed from: of a bank, the      *)
(* accesses of the interval and whether its refresh rate is doubled; of a  *)
(* controller, its share of the accesses.  The numbers of the data sheet,  *)
(* the length of the interval and power_scale only scale them.             *)
(***************************************************************************)
EXTENDS Integers, Sequences, FiniteSets, FiniteSetsExt, SequencesExt

CONSTANTS
  NCores, NVaults, NBanks,  \* 4 cores, 32 vaults of 8 banks
  CoreUnits,                \* the units of a core, in the order of the header
  BanksPerLayer,            \* banks of a vault on one DRAM layer
  ThermalMaps,              \* what the solver may answer: temperatures by unit
  PowerMaps,                \* what the power tool may report: power by core unit
  NFreq,                    \* freq_num: length of the frequency table
  CpuThres, DramThres,      \* cpu_temp_thres, dram_temp_thres
  HighThres,                \* high_temp_thres: refresh rate is doubled
  Configs,                  \* [reverse, dtm_method, temperature_type, socket]
  MaxAccess                 \* bound: DRAM accesses in a behaviour

Core == 0 .. NCores - 1
Vault == 0 .. NVaults - 1
Bank == 0 .. NBanks - 1
Banks == Vault \X Bank

CoreUnit == {<<"core", c, k>> : c \in Core, k \in Range(CoreUnits)}
Cntlr == {<<"ctlr", v>> : v \in Vault}
BankUnit == {<<"bank", v, b>> : v \in Vault, b \in Bank}
Unit == CoreUnit \cup Cntlr \cup BankUnit

ASSUME ThermalAssumption ==
  /\ NCores \in Nat \ {0} /\ NVaults \in Nat \ {0} /\ NBanks \in Nat \ {0}
  /\ CoreUnits \in Seq(STRING) /\ {"inssch", "l1i"} \subseteq Range(CoreUnits)
  /\ ThermalMaps \subseteq [Unit -> Nat]
  /\ PowerMaps \subseteq [CoreUnit -> Nat]
  \* freq_num = 1 divides by zero in init
  /\ NFreq \in Nat /\ NFreq > 1
  \* a bank that was never reported to be hot is not
  /\ HighThres \in Nat \ {0}
  /\ Configs \subseteq [reverse : BOOLEAN, dtm_method : 0..3,
                        temperature_type : 0..1, socket : Nat \ {0}]

VARIABLES
  config,      \* the settings of the configuration file
  freq_lev,    \* index into freq_table, 0 .. NFreq - 1
  domain,      \* app_proc_domains: the frequency of each domain
  charged,     \* cores with a DelayInstruction queued by the last tick
  m_prefixnum, \* the number of the record, modulo 2
  start_hotspot,
  power,       \* power_ialu ... of the cores, after updatePower
  reads,       \* accesses of each bank as Ramulator counts them
  bank_stats,  \* the same at the last tick, and the bank's hot flag
  hot,         \* BankPerfModel::stats.hot, the flag and the refresh rate
  die,         \* HotSpot's temperatures, by unit
  prev_bank_temp,  \* what the DRAM was told, by bank
  inROI,       \* MagicServer::inROI
  enter_roi,
  hot_access, err_access, cool_access,
  madeHot      \* history: accesses made to a bank reported above 85 degrees

dvfs == <<freq_lev, domain, charged>>
counts == <<hot_access, err_access, cool_access>>
vars == <<config, dvfs, m_prefixnum, start_hotspot, power, reads, bank_stats, hot,
          die, prev_bank_temp, inROI, enter_roi, counts, madeHot>>

------------------------------------------------------------------------------
(* The DVFS manager.                                                       *)

max_lev == NFreq - 1
\* The table has NFreq equal steps from a fifth of the maximum; the level
\* stands for its frequency.
freq_table(lev) == lev

getCoreDomainId(c) == c \div config.socket
Domains(cfg) == 0 .. (NCores - 1) \div cfg.socket

\* Mutant: the new period is compared with nothing, every core pays.
setCoreDomainAll(c, f, d) ==
  [dom |-> [d.dom EXCEPT ![getCoreDomainId(c)] = f], paid |-> d.paid \cup {c}]

\* The core pays for the transition if the domain's period is not the new
\* one yet: the first core of a domain has already changed it for the others.
setCoreDomain(c, f, d) ==
  [dom |-> [d.dom EXCEPT ![getCoreDomainId(c)] = f],
   paid |-> IF d.dom[getCoreDomainId(c)] # f THEN d.paid \cup {c} ELSE d.paid]

setGlobalFrequency(f) ==
  LET d[c \in 0 .. NCores] ==
        IF c = 0 THEN [dom |-> domain, paid |-> {}] ELSE setCoreDomain(c - 1, f, d[c - 1])
  IN  d[NCores]

------------------------------------------------------------------------------
(* The power trace.                                                        *)

CoreColumns ==
  [i \in 1 .. NCores * Len(CoreUnits) |->
     <<"core", (i - 1) \div Len(CoreUnits), CoreUnits[((i - 1) % Len(CoreUnits)) + 1]>>]
CntlrColumns == [i \in 1 .. NVaults |-> <<"ctlr", i - 1>>]
\* The banks of one index in all vaults stand together.
BankColumns ==
  [i \in 1 .. NVaults * NBanks |-> <<"bank", (i - 1) % NVaults, (i - 1) \div NVaults>>]

Header(reverse) ==
  IF reverse THEN BankColumns \o CntlrColumns \o CoreColumns
  ELSE CoreColumns \o CntlrColumns \o BankColumns

Accesses(v, acc) == MapThenSumSet(LAMBDA b : acc[<<v, b>>], Bank)

\* computeBankPower and computeDramCntlrPower, by what they depend on.  The
\* hot flag is the one of the snapshot taken a tick ago.
bank_power(v, b, acc, stats) == <<acc[<<v, b>>], stats[<<v, b>>].hot>>
vault_power(v, acc) ==
  <<Accesses(v, acc), MapThenSumSet(LAMBDA w : Accesses(w, acc), Vault)>>

\* updatePower: the accesses of the interval, and the power of every unit.
updatePower(cores, acc, stats) ==
  [u \in Unit |-> CASE u \in CoreUnit -> cores[u]
                    [] u \in Cntlr -> vault_power(u[2], acc)
                    [] OTHER -> bank_power(u[2], u[3], acc, stats)]

\* The row of dumpHotspotInput.  p_ratio is 1, so a column of a core is the
\* new power, except l1i: its old power and the change of inssch's.
forwardRow(old, new) ==
  LET column(u) == IF u \in CoreUnit /\ u[3] = "l1i"
                     THEN old[u] + new[<<"core", u[2], "inssch">>]
                                 - old[<<"core", u[2], "inssch">>]
                     ELSE new[u]
      units == CoreColumns \o CntlrColumns \o BankColumns
  IN  [i \in DOMAIN units |-> column(units[i])]

\* The rows of dumpHotspotInputReverse: the old powers with the controllers
\* before the banks, then the new ones in the order of the header.
reverseRows(old, new) ==
  LET first == CntlrColumns \o BankColumns \o CoreColumns
      second == BankColumns \o CntlrColumns \o CoreColumns
  IN  <<[i \in DOMAIN first |-> old[first[i]]], [i \in DOMAIN second |-> new[second[i]]]>>

\* Rows that are equal (pt_num + 1 of them forward) are written once here.
dumpHotspotInput(old, new) ==
  IF config.reverse THEN reverseRows(old, new) ELSE <<forwardRow(old, new)>>

------------------------------------------------------------------------------
(* HotSpot: the columns of a row are given to the units of its layers.     *)

\* The layers with power of test_3D.lcf and reverse_3D.lcf.
Layers(reverse) ==
  LET n == NBanks \div BanksPerLayer
      dram == [k \in 1 .. n |->
                 {<<"bank", v, b>> : v \in Vault,
                                     b \in (k - 1) * BanksPerLayer .. k * BanksPerLayer - 1}]
  IN  IF reverse THEN dram \o <<Cntlr, CoreUnit>> ELSE <<CoreUnit, Cntlr>> \o dram

\* calculateTemperature reads the columns layer by layer; a name that is not
\* in the layer is fatal (get_blk_index).
TraceFits ==
  [reverse \in BOOLEAN |->
     LET header == Header(reverse)
         layers == Layers(reverse)
     IN  /\ Len(header) = Cardinality(Unit)
         /\ \A l \in DOMAIN layers :
              LET before == MapThenSumSet(LAMBDA k : Cardinality(layers[k]), 1 .. l - 1)
              IN  {header[before + i] : i \in 1 .. Cardinality(layers[l])} = layers[l]]

\* The file is read to its end: the names fit the layers, and every row has a
\* value for every name.
HotSpotReads(rows) ==
  /\ TraceFits[config.reverse]
  /\ \A r \in DOMAIN rows : Len(rows[r]) = Cardinality(Unit)

\* The answer is permuted back to the columns of the trace.
Headers == [reverse \in BOOLEAN |-> Header(reverse)]
unit_temp(temps) == [i \in DOMAIN Headers[config.reverse] |-> temps[Headers[config.reverse][i]]]

------------------------------------------------------------------------------
(* callHotSpot reads the answer by column: cores, controllers, banks.      *)

CoreColumn(c) == {c * Len(CoreUnits) + k : k \in 1 .. Len(CoreUnits)}
\* Mutant: vault and bank exchanged.
BankColumnSwapped(v, b) == NCores * Len(CoreUnits) + NVaults + v * NBanks + b + 1

BankColumn(v, b) == NCores * Len(CoreUnits) + NVaults + b * NVaults + v + 1

\* max_temp > cpu_temp_thres in checkDTM, for the averages or the maxima.
CpuTooHot(ut) ==
  \E c \in Core :
    IF config.temperature_type = 0
      THEN MapThenSumSet(LAMBDA i : ut[i], CoreColumn(c)) > CpuThres * Len(CoreUnits)
      ELSE \E i \in CoreColumn(c) : ut[i] > CpuThres
DramTooHot(ut) == \E v \in Vault, b \in Bank : ut[BankColumn(v, b)] > DramThres

TooHot(ut) ==
  CASE config.dtm_method = 1 -> CpuTooHot(ut)
    [] config.dtm_method = 2 -> CpuTooHot(ut) \/ DramTooHot(ut)
    [] OTHER -> FALSE

SetLevel(lev) ==
  LET d == setGlobalFrequency(freq_table(lev))
  IN  /\ freq_lev' = lev
      /\ domain' = d.dom
      /\ charged' = d.paid

KeepLevel == charged' = {} /\ UNCHANGED <<freq_lev, domain>>

checkDTM(ut) ==
  IF config.dtm_method \notin {1, 2} THEN KeepLevel
  ELSE IF TooHot(ut)
    THEN IF freq_lev > 0 THEN SetLevel(freq_lev - 1) ELSE KeepLevel
    ELSE IF freq_lev < max_lev THEN SetLevel(freq_lev + 1) ELSE KeepLevel

\* Mutant: charged to the temperature just computed.
chargeAccessesNew(acc) ==
  LET add(f, b, cond) == IF cond THEN f[b] + acc[b] ELSE f[b]
  IN  /\ hot_access' = [b \in Banks |-> add(hot_access, b, prev_bank_temp'[b] > 85)]
      /\ err_access' = [b \in Banks |-> add(err_access, b, prev_bank_temp'[b] > 95)]
      /\ cool_access' = [b \in Banks |->
                           add(cool_access, b, prev_bank_temp'[b] <= 85 /\ enter_roi')]

\* The accesses of the interval are charged to the temperature the bank had.
chargeAccesses(acc) ==
  LET add(f, b, cond) == IF cond THEN f[b] + acc[b] ELSE f[b]
  IN  /\ hot_access' = [b \in Banks |-> add(hot_access, b, prev_bank_temp[b] > 85)]
      /\ err_access' = [b \in Banks |-> add(err_access, b, prev_bank_temp[b] > 95)]
      /\ cool_access' = [b \in Banks |->
                           add(cool_access, b, prev_bank_temp[b] <= 85 /\ enter_roi')]

\* StackedDramPerfUnison::updateTemperature for every bank.  What it tells the
\* remapping manager is module Remapping's updateTemperature.
updateTemperature(ut) ==
  /\ enter_roi' = (enter_roi \/ inROI)
  /\ prev_bank_temp' = [b \in Banks |-> ut[BankColumn(b[1], b[2])]]
  /\ hot' = [b \in Banks |-> ut[BankColumn(b[1], b[2])] >= HighThres]

callHotSpot(acc) ==
  \E temps \in ThermalMaps :
    LET ut == unit_temp(temps)
    IN  /\ die' = temps
        /\ updateTemperature(ut)
        /\ chargeAccesses(acc)
        /\ checkDTM(ut)

\* The processor's power is below the threshold: no temperatures this time.
skipHotSpot ==
  /\ KeepLevel
  /\ UNCHANGED <<die, prev_bank_temp, hot, enter_roi, counts>>

dyn_power_proc(cores) == MapThenSumSet(LAMBDA u : cores[u], CoreUnit)

\* Mutant: without the latch.
HotSpotRunsNow(cores) == dyn_power_proc(cores) > 0

HotSpotRuns(cores) == dyn_power_proc(cores) > 0 \/ start_hotspot

updateBankStat == bank_stats' = [b \in Banks |-> [acc |-> reads[b], hot |-> hot[b]]]

\* The periodic record.  The trace carries the interval's counters.
recordStats ==
  \E cores \in PowerMaps :
    LET acc == [b \in Banks |-> reads[b] - bank_stats[b].acc]
        new == updatePower(cores, acc, bank_stats)
    IN  /\ m_prefixnum' = 1 - m_prefixnum
        /\ power' = new
        /\ HotSpotReads(dumpHotspotInput(power, new))
        /\ updateBankStat
        /\ IF HotSpotRuns(cores) THEN callHotSpot(acc) /\ start_hotspot' = TRUE
           ELSE skipHotSpot /\ UNCHANGED start_hotspot
        /\ UNCHANGED <<config, reads, inROI, madeHot>>

\* The DRAM serves a request between two records.
access(b) ==
  /\ MapThenSumSet(LAMBDA x : reads[x], Banks) < MaxAccess
  /\ reads' = [reads EXCEPT ![b] = @ + 1]
  /\ madeHot' = IF prev_bank_temp[b] > 85 THEN [madeHot EXCEPT ![b] = @ + 1] ELSE madeHot
  /\ UNCHANGED <<config, dvfs, m_prefixnum, start_hotspot, power, bank_stats, hot, die,
                 prev_bank_temp, inROI, enter_roi, counts>>

\* The program enters or leaves its region of interest.
magic ==
  /\ inROI' = ~inROI
  /\ UNCHANGED <<config, dvfs, m_prefixnum, start_hotspot, power, reads, bank_stats, hot,
                 die, prev_bank_temp, enter_roi, counts, madeHot>>

NoAccess == [b \in Banks |-> 0]
NoPower == updatePower([u \in CoreUnit |-> 0], NoAccess, [b \in Banks |-> [hot |-> FALSE]])

Init ==
  /\ config \in Configs
  /\ freq_lev = max_lev
  /\ domain = [d \in Domains(config) |-> freq_table(max_lev)]
  /\ charged = {}
  /\ m_prefixnum = 0
  /\ start_hotspot = FALSE
  /\ power = NoPower
  /\ reads = NoAccess
  \* the flag of the first snapshot is not initialized
  /\ \E h \in BOOLEAN : bank_stats = [b \in Banks |-> [acc |-> 0, hot |-> h]]
  /\ hot = [b \in Banks |-> FALSE]
  /\ die = [u \in Unit |-> 0]
  /\ prev_bank_temp = [b \in Banks |-> 0]
  /\ inROI = FALSE /\ enter_roi = FALSE
  /\ hot_access = NoAccess /\ err_access = NoAccess /\ cool_access = NoAccess
  /\ madeHot = NoAccess

Next == recordStats \/ magic \/ \E b \in Banks : access(b)

Spec == Init /\ [][Next]_vars

\* recordStats is called at every sampling interval of the simulated time.
FairSpec == Spec /\ []<><<TRUE>>_m_prefixnum

------------------------------------------------------------------------------
(* Properties.                                                             *)

ThermalTypeOK ==
  /\ config \in Configs
  /\ freq_lev \in 0 .. max_lev
  /\ domain \in [Domains(config) -> 0 .. max_lev]
  /\ charged \subseteq Core
  /\ DOMAIN power = Unit
  /\ \A u \in CoreUnit : power[u] \in Nat
  /\ \A u \in Cntlr : power[u] \in Nat \X Nat
  /\ \A u \in BankUnit : power[u] \in Nat \X BOOLEAN
  /\ \A f \in {reads, hot_access, err_access, cool_access, madeHot} :
       f \in [Banks -> 0 .. MaxAccess]
  /\ bank_stats \in [Banks -> [acc : 0 .. MaxAccess, hot : BOOLEAN]]
  /\ hot \in [Banks -> BOOLEAN]
  /\ prev_bank_temp \in [Banks -> Nat]
  /\ m_prefixnum \in 0 .. 1
  /\ start_hotspot \in BOOLEAN /\ inROI \in BOOLEAN /\ enter_roi \in BOOLEAN

\* The unit whose column callHotSpot takes for that of a bank.  It counts as if
\* the cores came first; where the banks do, it is as many columns too far as
\* the cores and the controllers have.
ReadUnit(v, b) ==
  LET n == NCores * Len(CoreUnits) + NVaults + b * NVaults + v
      cntlr == n - NVaults * NBanks
      core == cntlr - NVaults
  IN  IF ~config.reverse THEN <<"bank", v, b>>
      ELSE IF n < NVaults * NBanks THEN <<"bank", n % NVaults, n \div NVaults>>
      ELSE IF cntlr < NVaults THEN <<"ctlr", cntlr>>
      ELSE <<"core", core \div Len(CoreUnits), CoreUnits[(core % Len(CoreUnits)) + 1]>>

\* Across the order of the trace, the layers HotSpot permutes it into and the
\* columns callHotSpot counts, the refresh rate and the remapping manager go by
\* the temperature on the die of exactly one unit for each bank: with the cores
\* below the DRAM the bank itself, in the reverse layout the unit ReadUnit names,
\* which is never that bank.
TemperaturesByColumn ==
  \A v \in Vault, b \in Bank :
    /\ prev_bank_temp[<<v, b>>] = die[ReadUnit(v, b)]
    /\ hot[<<v, b>>] <=> die[ReadUnit(v, b)] >= HighThres

\* An access to a bank reported above 85 degrees is counted in hot_access exactly
\* once, at the next record, whatever the bank's temperature is by then; the
\* accesses above 95 are among them, and no access is counted twice.
HotAccessesExact ==
  \A b \in Banks :
    /\ madeHot[b] = hot_access[b]
         + IF prev_bank_temp[b] > 85 THEN reads[b] - bank_stats[b].acc ELSE 0
    /\ err_access[b] <= hot_access[b]
    /\ hot_access[b] + cool_access[b] <= bank_stats[b].acc

\* A change of frequency is paid for once by every domain that changed, and by
\* nobody else (setCoreDomain queues the delay of the transition).
TransitionPaidOnce ==
  [][\A d \in DOMAIN domain :
       Cardinality({c \in charged' : getCoreDomainId(c) = d})
         = IF domain'[d] # domain[d] THEN 1 ELSE 0]_dvfs

\* Temperatures that stay too high from some point on drive every domain down to
\* the lowest frequency, temperatures that stay low bring them back to the
\* highest; the gate on the processor's power cannot stop that once it opened.
Answer == unit_temp(die)
HeatThrottles ==
  config.dtm_method \in {1, 2} =>
    /\ <>[](start_hotspot /\ TooHot(Answer)) => <>[](\A d \in DOMAIN domain : domain[d] = 0)
    /\ <>[](start_hotspot /\ ~TooHot(Answer))
         => <>[](\A d \in DOMAIN domain : domain[d] = max_lev)
==============================================================================
