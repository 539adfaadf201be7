---------------------------- MODULE ThermalProofs ----------------------------
(***************************************************************************)
(* Proofs about the thermal loop, for every number of cores, vaults, banks *)
(* and frequency levels, every unit of a core, every set of temperatures   *)
(* the solver may answer and every set of powers it is given.              *)
(***************************************************************************)
EXTENDS Thermal, ProofLemmas

(***************************************************************************)
(* The columns of the trace                                                *)
(***************************************************************************)

\* Position i of a block of n columns that repeats m times: which repetition it is
\* in, and where in it.
LEMMA DivBound ==
  ASSUME NEW n \in Nat \ {0}, NEW m \in Nat, NEW i \in 1 .. m * n
  PROVE  (i - 1) \div n \in 0 .. m - 1 /\ (i - 1) % n \in 0 .. n - 1
<1>1. m * n \in Nat /\ i - 1 \in 0 .. m * n - 1
  OBVIOUS
<1> QED
  BY <1>1, DivModBound

NColumns == NCores * Len(CoreUnits) + NVaults + NVaults * NBanks

LEMMA ColumnTypes ==
  /\ Len(CoreUnits) \in Nat \ {0}
  /\ CoreColumns \in Seq(Unit) /\ Len(CoreColumns) = NCores * Len(CoreUnits)
  /\ CntlrColumns \in Seq(Unit) /\ Len(CntlrColumns) = NVaults
  /\ BankColumns \in Seq(Unit) /\ Len(BankColumns) = NVaults * NBanks
<1> USE ThermalAssumption
<1>0. Len(CoreUnits) \in Nat \ {0} /\ DOMAIN CoreUnits = 1 .. Len(CoreUnits)
  BY DEF Range
<1>1. NCores * Len(CoreUnits) \in Nat /\ NVaults * NBanks \in Nat
  BY <1>0
<1>2. ASSUME NEW i \in 1 .. NCores * Len(CoreUnits) PROVE CoreColumns[i] \in Unit
  <2>1. /\ (i - 1) \div Len(CoreUnits) \in Core
        /\ (i - 1) % Len(CoreUnits) \in 0 .. Len(CoreUnits) - 1
    BY <1>0, DivBound DEF Core
  <2>2. CoreUnits[((i - 1) % Len(CoreUnits)) + 1] \in Range(CoreUnits)
    BY <1>0, <2>1 DEF Range
  <2> QED
    BY <2>1, <2>2 DEF CoreColumns, Unit, CoreUnit
<1>3. ASSUME NEW i \in 1 .. NVaults * NBanks PROVE BankColumns[i] \in Unit
  <2>1. i \in 1 .. NBanks * NVaults
    OBVIOUS
  <2>2. (i - 1) \div NVaults \in Bank /\ (i - 1) % NVaults \in Vault
    BY <2>1, DivBound DEF Bank, Vault
  <2> QED
    BY <2>2 DEF BankColumns, Unit, BankUnit
<1>4. ASSUME NEW i \in 1 .. NVaults PROVE CntlrColumns[i] \in Unit
  BY DEF CntlrColumns, Unit, Cntlr, Vault
<1>5. CoreColumns \in Seq(Unit) /\ Len(CoreColumns) = NCores * Len(CoreUnits)
  BY <1>1, <1>2 DEF CoreColumns
<1>6. CntlrColumns \in Seq(Unit) /\ Len(CntlrColumns) = NVaults
  BY <1>4 DEF CntlrColumns
<1>7. BankColumns \in Seq(Unit) /\ Len(BankColumns) = NVaults * NBanks
  <2> DEFINE n == NVaults * NBanks
  <2>1. n \in Nat
    BY <1>1
  <2>2. DOMAIN BankColumns = 1 .. n /\ BankColumns = [i \in 1 .. n |-> BankColumns[i]]
    BY DEF BankColumns
  <2>3. \A i \in 1 .. n : BankColumns[i] \in Unit
    BY <1>3
  <2> HIDE DEF n
  <2>4. BankColumns \in Seq(Unit) /\ Len(BankColumns) = n
    BY <2>1, <2>2, <2>3
  <2> QED
    BY <2>4 DEF n
<1> QED
  BY <1>0, <1>5, <1>6, <1>7

\* Either header names a unit in every column callHotSpot reads.
LEMMA HeaderType ==
  ASSUME NEW r \in BOOLEAN
  PROVE  Header(r) \in Seq(Unit) /\ Len(Header(r)) = NColumns
<1>1. ASSUME NEW f \in Seq(Unit), NEW g \in Seq(Unit), NEW h \in Seq(Unit)
      PROVE  f \o g \o h \in Seq(Unit) /\ Len(f \o g \o h) = Len(f) + Len(g) + Len(h)
  BY <1>1
<1> DEFINE cores == NCores * Len(CoreUnits)
           banks == NVaults * NBanks
<1>2. cores \in Nat /\ banks \in Nat /\ NVaults \in Nat
  BY ColumnTypes, ThermalAssumption
<1>3. /\ CoreColumns \in Seq(Unit) /\ Len(CoreColumns) = cores
      /\ CntlrColumns \in Seq(Unit) /\ Len(CntlrColumns) = NVaults
      /\ BankColumns \in Seq(Unit) /\ Len(BankColumns) = banks
  BY ColumnTypes
<1>4. NColumns = cores + NVaults + banks
  BY DEF NColumns
<1> HIDE DEF cores, banks
<1>5. CASE r
  <2>1. Header(r) = BankColumns \o CntlrColumns \o CoreColumns
    BY <1>5 DEF Header
  <2>2. /\ Header(r) \in Seq(Unit)
        /\ Len(Header(r)) = Len(BankColumns) + Len(CntlrColumns) + Len(CoreColumns)
    <3>1. /\ BankColumns \o CntlrColumns \o CoreColumns \in Seq(Unit)
          /\ Len(BankColumns \o CntlrColumns \o CoreColumns)
               = Len(BankColumns) + Len(CntlrColumns) + Len(CoreColumns)
      BY <1>1, <1>3, Zenon
    <3> QED
      BY <2>1, <3>1, Zenon
  <2> QED
    BY <1>2, <1>3, <1>4, <2>2
<1>6. CASE ~r
  <2>1. Header(r) = CoreColumns \o CntlrColumns \o BankColumns
    BY <1>6 DEF Header
  <2>2. /\ Header(r) \in Seq(Unit)
        /\ Len(Header(r)) = Len(CoreColumns) + Len(CntlrColumns) + Len(BankColumns)
    <3>1. /\ CoreColumns \o CntlrColumns \o BankColumns \in Seq(Unit)
          /\ Len(CoreColumns \o CntlrColumns \o BankColumns)
               = Len(CoreColumns) + Len(CntlrColumns) + Len(BankColumns)
      BY <1>1, <1>3, Zenon
    <3> QED
      BY <2>1, <3>1, Zenon
  <2> QED
    BY <1>2, <1>3, <1>4, <2>2
<1> QED
  BY <1>5, <1>6

LEMMA BankColumnRange ==
  ASSUME NEW v \in Vault, NEW b \in Bank
  PROVE  /\ BankColumn(v, b) \in 1 .. NColumns
         /\ b * NVaults + v + 1 \in 1 .. NVaults * NBanks
<1> USE ThermalAssumption
<1>1. b * NVaults \in Nat /\ (b + 1) * NVaults = b * NVaults + NVaults
  BY DEF Bank
<1>2. (b + 1) * NVaults <= NBanks * NVaults
  BY DEF Bank
<1>3. b * NVaults + v + 1 \in 1 .. NVaults * NBanks
  BY <1>1, <1>2 DEF Vault
<1> DEFINE cores == NCores * Len(CoreUnits)
           banks == NVaults * NBanks
           row == b * NVaults
<1>4. cores \in Nat /\ banks \in Nat /\ row \in Nat /\ NVaults \in Nat /\ v \in Nat
  BY <1>1, ColumnTypes DEF Vault
<1>5. BankColumn(v, b) = cores + NVaults + row + v + 1 /\ NColumns = cores + NVaults + banks
  BY DEF BankColumn, NColumns
<1>6. row + v + 1 \in 1 .. banks
  BY <1>3
<1> HIDE DEF cores, banks, row
<1>7. BankColumn(v, b) \in 1 .. NColumns
  BY <1>4, <1>5, <1>6
<1> QED
  BY <1>3, <1>7

\* With the cores at the bottom, the column callHotSpot reads for a bank is the
\* one the header gives it.
LEMMA BankColumnUnit ==
  ASSUME NEW v \in Vault, NEW b \in Bank
  PROVE  Header(FALSE)[BankColumn(v, b)] = <<"bank", v, b>>
<1> USE ThermalAssumption
<1> DEFINE i == b * NVaults + v + 1
           front == CoreColumns \o CntlrColumns
<1>1. i \in 1 .. NVaults * NBanks
  BY BankColumnRange
<1>2. BankColumns[i] = <<"bank", v, b>>
  <2>1. (i - 1) \div NVaults = b /\ (i - 1) % NVaults = v
    BY DivMod DEF Vault, Bank
  <2> QED
    BY <1>1, <2>1 DEF BankColumns
<1>3. front \in Seq(Unit) /\ Len(front) = NCores * Len(CoreUnits) + NVaults
  <2>1. ASSUME NEW f, NEW g, f \in Seq(Unit), g \in Seq(Unit)
        PROVE  f \o g \in Seq(Unit) /\ Len(f \o g) = Len(f) + Len(g)
    BY <2>1
  <2> QED
    BY <2>1, ColumnTypes
<1>4. BankColumn(v, b) = Len(front) + i
  BY <1>3, ColumnTypes DEF BankColumn, Vault, Bank
<1>5. Header(FALSE) = front \o BankColumns
  BY DEF Header
<1> HIDE DEF front, i
<1>6. (front \o BankColumns)[Len(front) + i] = BankColumns[i]
  BY <1>1, <1>3, ColumnTypes
<1> QED
  BY <1>2, <1>4, <1>5, <1>6

\* Where the DRAM is below the cores, the same column belongs to another bank, to a
\* controller or to a unit of a core.
LEMMA ReverseColumnUnit ==
  ASSUME config.reverse, NEW v \in Vault, NEW b \in Bank
  PROVE  /\ Header(TRUE)[BankColumn(v, b)] = ReadUnit(v, b)
         /\ ReadUnit(v, b) # <<"bank", v, b>>
<1> USE ThermalAssumption
<1> DEFINE head == Header(TRUE)
           front == NCores * Len(CoreUnits)
           banks == NVaults * NBanks
           row == b * NVaults
           n == front + NVaults + row + v
           cntlr == n - banks
           core == cntlr - NVaults
<1>1. /\ front \in Nat \ {0} /\ banks \in Nat /\ row \in Nat /\ v \in Nat /\ b \in Nat
      /\ NVaults \in Nat \ {0}
  BY ColumnTypes DEF Vault, Bank
<1>2. /\ BankColumn(v, b) = n + 1 /\ BankColumn(v, b) \in 1 .. front + NVaults + banks
      /\ n = front + NVaults + row + v /\ cntlr = n - banks /\ core = cntlr - NVaults
      /\ row = b * NVaults
  BY BankColumnRange DEF BankColumn, NColumns
<1>3. ReadUnit(v, b) =
        IF n < banks THEN <<"bank", n % NVaults, n \div NVaults>>
        ELSE IF cntlr < NVaults THEN <<"ctlr", cntlr>>
        ELSE <<"core", core \div Len(CoreUnits), CoreUnits[(core % Len(CoreUnits)) + 1]>>
  BY DEF ReadUnit
<1>4. /\ BankColumns \in Seq(Unit) /\ Len(BankColumns) = banks
      /\ CntlrColumns \in Seq(Unit) /\ Len(CntlrColumns) = NVaults
      /\ CoreColumns \in Seq(Unit) /\ Len(CoreColumns) = front
  BY ColumnTypes
<1>5. /\ \A i \in 1 .. banks : BankColumns[i] = <<"bank", (i - 1) % NVaults, (i - 1) \div NVaults>>
      /\ \A i \in 1 .. NVaults : CntlrColumns[i] = <<"ctlr", i - 1>>
      /\ \A i \in 1 .. front : CoreColumns[i] =
           <<"core", (i - 1) \div Len(CoreUnits), CoreUnits[((i - 1) % Len(CoreUnits)) + 1]>>
  BY DEF BankColumns, CntlrColumns, CoreColumns
<1>0. head = BankColumns \o CntlrColumns \o CoreColumns
  BY DEF Header
<1> HIDE DEF head, front, banks, row, n, cntlr, core
<1> SUFFICES head[BankColumn(v, b)] = ReadUnit(v, b) /\ ReadUnit(v, b) # <<"bank", v, b>>
  BY DEF head
<1>6. n \in Nat /\ n > row + v /\ n + 1 \in 1 .. front + NVaults + banks
  BY <1>1, <1>2
<1> DEFINE column(i) == IF i <= banks THEN BankColumns[i]
                        ELSE IF i <= banks + NVaults THEN CntlrColumns[i - banks]
                        ELSE CoreColumns[i - banks - NVaults]
<1>7. \A i \in 1 .. front + NVaults + banks : head[i] = column(i)
  <2> SUFFICES ASSUME NEW i \in 1 .. front + NVaults + banks
               PROVE  head[i] = column(i)
    OBVIOUS
  <2>1. ASSUME NEW f \in Seq(Unit), NEW g \in Seq(Unit), NEW h \in Seq(Unit),
               NEW j \in 1 .. Len(f) + Len(g) + Len(h)
        PROVE  (f \o g \o h)[j] = IF j <= Len(f) THEN f[j]
                                  ELSE IF j <= Len(f) + Len(g) THEN g[j - Len(f)]
                                  ELSE h[j - Len(f) - Len(g)]
    BY <2>1
  <2>2. i \in 1 .. Len(BankColumns) + Len(CntlrColumns) + Len(CoreColumns)
    BY <1>1, <1>4
  <2>3. (BankColumns \o CntlrColumns \o CoreColumns)[i] =
          IF i <= Len(BankColumns) THEN BankColumns[i]
          ELSE IF i <= Len(BankColumns) + Len(CntlrColumns)
            THEN CntlrColumns[i - Len(BankColumns)]
          ELSE CoreColumns[i - Len(BankColumns) - Len(CntlrColumns)]
    BY <1>4, <2>1, <2>2, Zenon
  <2> QED
    BY <1>0, <1>4, <2>3
<1> HIDE DEF column
<1>8. head[n + 1] = column(n + 1)
  BY <1>6, <1>7
<1>9. CASE n < banks
  <2>1. n + 1 \in 1 .. banks /\ (n + 1) - 1 = n /\ n + 1 <= banks
    BY <1>1, <1>6, <1>9
  <2>2. BankColumns[n + 1] = <<"bank", n % NVaults, n \div NVaults>>
    BY <1>5, <2>1
  <2>3. head[n + 1] = BankColumns[n + 1]
    BY <1>8, <2>1, Zenon DEF column
  <2>4. ~(n % NVaults = v /\ n \div NVaults = b)
    <3>1. n = (n \div NVaults) * NVaults + (n % NVaults)
      BY <1>1, <1>6
    <3> QED
      BY <1>2, <1>6, <3>1
  <2> QED
    BY <1>2, <1>3, <1>9, <2>2, <2>3, <2>4
<1>10. CASE ~(n < banks) /\ cntlr < NVaults
  <2>1. cntlr + 1 \in 1 .. NVaults /\ (cntlr + 1) - 1 = cntlr /\ n + 1 - banks = cntlr + 1
        /\ ~(n + 1 <= banks) /\ n + 1 <= banks + NVaults
    BY <1>1, <1>2, <1>6, <1>10
  <2>2. CntlrColumns[n + 1 - banks] = <<"ctlr", cntlr>>
    BY <1>5, <2>1
  <2>3. head[n + 1] = CntlrColumns[n + 1 - banks]
    <3>1. column(n + 1) = CntlrColumns[n + 1 - banks]
      BY <1>1, <1>6, <2>1 DEF column
    <3> QED
      BY <1>8, <3>1
  <2>4. ReadUnit(v, b) = <<"ctlr", cntlr>>
    BY <1>3, <1>10, Zenon
  <2> QED
    BY <1>2, <2>2, <2>3, <2>4
<1>11. CASE ~(n < banks) /\ ~(cntlr < NVaults)
  <2>1. core + 1 \in 1 .. front /\ (core + 1) - 1 = core /\ n + 1 - banks - NVaults = core + 1
        /\ ~(n + 1 <= banks) /\ ~(n + 1 <= banks + NVaults)
    BY <1>1, <1>2, <1>6, <1>11
  <2> DEFINE unit == <<"core", core \div Len(CoreUnits), CoreUnits[(core % Len(CoreUnits)) + 1]>>
  <2>2. CoreColumns[n + 1 - banks - NVaults] = unit
    BY <1>5, <2>1
  <2>3. ReadUnit(v, b) = unit
    BY <1>3, <1>11
  <2> HIDE DEF unit
  <2>4. head[n + 1] = unit
    <3>1. column(n + 1) = CoreColumns[n + 1 - banks - NVaults]
      BY <1>1, <1>6, <2>1 DEF column
    <3> QED
      BY <1>8, <2>2, <3>1
  <2> QED
    BY <1>2, <2>3, <2>4 DEF unit
<1> QED
  BY <1>9, <1>10, <1>11

\* What callHotSpot reads for a bank is a temperature of the solver's answer, that of
\* the unit ReadUnit names.
LEMMA ReadsTemperature ==
  ASSUME config \in Configs, NEW temps \in ThermalMaps, NEW v \in Vault, NEW b \in Bank
  PROVE  /\ unit_temp(temps)[BankColumn(v, b)] \in Nat
         /\ unit_temp(temps)[BankColumn(v, b)] = temps[ReadUnit(v, b)]
<1> USE ThermalAssumption
<1>1. config.reverse \in BOOLEAN
  OBVIOUS
<1>2. Headers[config.reverse] = Header(config.reverse)
  BY <1>1 DEF Headers
<1>3. BankColumn(v, b) \in DOMAIN Header(config.reverse)
  BY <1>1, HeaderType, BankColumnRange
<1>4. Header(config.reverse)[BankColumn(v, b)] \in Unit
  BY <1>1, <1>3, HeaderType
<1>5. unit_temp(temps)[BankColumn(v, b)] = temps[Header(config.reverse)[BankColumn(v, b)]]
  BY <1>2, <1>3 DEF unit_temp
<1>6. temps \in [Unit -> Nat]
  OBVIOUS
<1>7. Header(config.reverse)[BankColumn(v, b)] = ReadUnit(v, b)
  <2>1. CASE config.reverse
    <3>1. config.reverse = TRUE
      BY <1>1, <2>1
    <3> QED
      BY <2>1, <3>1, ReverseColumnUnit
  <2>2. CASE ~config.reverse
    <3>1. config.reverse = FALSE
      BY <1>1, <2>2
    <3> QED
      BY <2>2, <3>1, BankColumnUnit DEF ReadUnit
  <2> QED
    BY <2>1, <2>2
<1> QED
  BY <1>4, <1>5, <1>6, <1>7

\* Before the first answer every unit counts as cold; the unit read for a bank exists.
LEMMA ReadUnitType ==
  ASSUME config \in Configs, NEW v \in Vault, NEW b \in Bank
  PROVE  ReadUnit(v, b) \in Unit
<1>1. config.reverse \in BOOLEAN
  BY ThermalAssumption
<1>2. CASE config.reverse
  <2> DEFINE head == Header(TRUE)
  <2>1. head \in Seq(Unit) /\ Len(head) = NColumns
    BY HeaderType
  <2>2. head[BankColumn(v, b)] = ReadUnit(v, b)
    BY <1>2, ReverseColumnUnit
  <2> HIDE DEF head
  <2> QED
    BY <2>1, <2>2, BankColumnRange
<1>3. CASE ~config.reverse
  BY <1>3 DEF ReadUnit, Unit, BankUnit
<1> QED
  BY <1>1, <1>2, <1>3

(***************************************************************************)
(* Temperatures and the accesses charged to them                           *)
(***************************************************************************)

\* The counters are natural numbers, a snapshot is never ahead of its bank.
CountersOK ==
  /\ reads \in [Banks -> Nat] /\ madeHot \in [Banks -> Nat]
  /\ hot_access \in [Banks -> Nat] /\ err_access \in [Banks -> Nat]
  /\ cool_access \in [Banks -> Nat]
  /\ \A b \in Banks : bank_stats[b].acc \in Nat /\ bank_stats[b].acc <= reads[b]

\* No temperature was reported before HotSpot ran for the first time: the records
\* that skip it, and charge nothing, meet only banks that are not hot.
ColdUntilHotSpot ==
  /\ prev_bank_temp \in [Banks -> Nat]
  /\ ~start_hotspot => \A b \in Banks : prev_bank_temp[b] = 0

ThermalInv ==
  /\ config \in Configs
  /\ CountersOK
  /\ ColdUntilHotSpot
  /\ HotAccessesExact
  /\ TemperaturesByColumn

LEMMA ThermalInit == Init => ThermalInv
<1> SUFFICES ASSUME Init PROVE ThermalInv
  OBVIOUS
<1>1. config \in Configs
  BY DEF Init
<1>2. CountersOK
  BY DEF Init, CountersOK, NoAccess
<1>3. ColdUntilHotSpot
  BY DEF Init, ColdUntilHotSpot
<1>4. HotAccessesExact
  BY DEF Init, HotAccessesExact, NoAccess
<1>5. TemperaturesByColumn
  <2> SUFFICES ASSUME NEW v \in Vault, NEW b \in Bank
               PROVE  /\ prev_bank_temp[<<v, b>>] = die[ReadUnit(v, b)]
                      /\ hot[<<v, b>>] <=> die[ReadUnit(v, b)] >= HighThres
    BY DEF TemperaturesByColumn
  <2>1. ReadUnit(v, b) \in Unit /\ <<v, b>> \in Banks
    BY <1>1, ReadUnitType DEF Banks
  <2>2. die[ReadUnit(v, b)] = 0 /\ prev_bank_temp[<<v, b>>] = 0 /\ hot[<<v, b>>] = FALSE
    BY <2>1 DEF Init
  <2> QED
    BY <2>2, ThermalAssumption
<1> QED
  BY <1>1, <1>2, <1>3, <1>4, <1>5 DEF ThermalInv

LEMMA AccessKeeps ==
  ASSUME ThermalInv, NEW b \in Banks, access(b)
  PROVE  ThermalInv'
<1> USE DEF ThermalInv
<1>1. /\ reads' = [reads EXCEPT ![b] = @ + 1]
      /\ madeHot' = IF prev_bank_temp[b] > 85 THEN [madeHot EXCEPT ![b] = @ + 1] ELSE madeHot
      /\ UNCHANGED <<config, start_hotspot, bank_stats, hot, die, prev_bank_temp, counts>>
  BY DEF access
<1>2. CountersOK'
  BY <1>1 DEF CountersOK, counts
<1>3. HotAccessesExact'
  <2> SUFFICES ASSUME NEW x \in Banks
               PROVE  /\ madeHot'[x] = hot_access[x] + IF prev_bank_temp[x] > 85
                                        THEN reads'[x] - bank_stats[x].acc ELSE 0
                      /\ err_access[x] <= hot_access[x]
                      /\ hot_access[x] + cool_access[x] <= bank_stats[x].acc
    BY <1>1 DEF HotAccessesExact, counts
  <2>1. CASE x = b
    <3>1. /\ reads'[x] = reads[x] + 1
          /\ prev_bank_temp[x] > 85 => madeHot'[x] = madeHot[x] + 1
          /\ ~(prev_bank_temp[x] > 85) => madeHot'[x] = madeHot[x]
      BY <1>1, <2>1 DEF CountersOK
    <3>2. /\ madeHot[x] \in Nat /\ hot_access[x] \in Nat /\ reads[x] \in Nat
          /\ bank_stats[x].acc \in Nat
      BY DEF CountersOK
    <3>3. CASE prev_bank_temp[x] > 85
      BY <3>1, <3>2, <3>3 DEF HotAccessesExact
    <3>4. CASE ~(prev_bank_temp[x] > 85)
      BY <3>1, <3>2, <3>4 DEF HotAccessesExact
    <3> QED
      BY <3>3, <3>4
  <2>2. CASE x # b
    BY <1>1, <2>2 DEF HotAccessesExact, CountersOK
  <2> QED
    BY <2>1, <2>2
<1>4. ColdUntilHotSpot' /\ TemperaturesByColumn' /\ (config \in Configs)'
  BY <1>1 DEF ColdUntilHotSpot, TemperaturesByColumn, ReadUnit
<1> QED
  BY <1>2, <1>3, <1>4

LEMMA RecordKeeps ==
  ASSUME ThermalInv, recordStats
  PROVE  ThermalInv'
<1> USE DEF ThermalInv
<1> DEFINE acc == [b \in Banks |-> reads[b] - bank_stats[b].acc]
<1>1. PICK cores \in PowerMaps :
        /\ updateBankStat
        /\ IF HotSpotRuns(cores) THEN callHotSpot(acc) /\ start_hotspot' = TRUE
           ELSE skipHotSpot /\ UNCHANGED start_hotspot
        /\ UNCHANGED <<config, reads, inROI, madeHot>>
  BY DEF recordStats
<1>2. \A b \in Banks : acc[b] \in Nat /\ acc[b] = reads[b] - bank_stats[b].acc
  BY DEF CountersOK
<1>3. \A b \in Banks : bank_stats'[b].acc = reads[b]
  BY <1>1 DEF updateBankStat
<1> HIDE DEF acc
<1>4. CASE HotSpotRuns(cores)
  <2>1. PICK temps \in ThermalMaps :
          die' = temps /\ updateTemperature(unit_temp(temps)) /\ chargeAccesses(acc)
    BY <1>1, <1>4 DEF callHotSpot
  <2>2. \A b \in Banks :
          /\ hot_access'[b] = IF prev_bank_temp[b] > 85 THEN hot_access[b] + acc[b]
                              ELSE hot_access[b]
          /\ err_access'[b] = IF prev_bank_temp[b] > 95 THEN err_access[b] + acc[b]
                              ELSE err_access[b]
          /\ cool_access'[b] = IF prev_bank_temp[b] <= 85 /\ enter_roi'
                                 THEN cool_access[b] + acc[b] ELSE cool_access[b]
    BY <2>1 DEF chargeAccesses
  <2>3. /\ DOMAIN hot_access' = Banks /\ hot_access' = [b \in Banks |-> hot_access'[b]]
        /\ DOMAIN err_access' = Banks /\ err_access' = [b \in Banks |-> err_access'[b]]
        /\ DOMAIN cool_access' = Banks /\ cool_access' = [b \in Banks |-> cool_access'[b]]
    BY <2>1 DEF chargeAccesses
  <2>4. CountersOK'
    BY <1>1, <1>2, <1>3, <2>2, <2>3 DEF CountersOK
  <2>5. HotAccessesExact'
    <3> SUFFICES ASSUME NEW b \in Banks
                 PROVE  /\ madeHot[b] = hot_access'[b]
                        /\ err_access'[b] <= hot_access'[b]
                        /\ hot_access'[b] + cool_access'[b] <= reads[b]
      BY <1>1, <1>3, <2>4 DEF HotAccessesExact, CountersOK
    <3> QED
      BY <1>2, <2>2 DEF HotAccessesExact, CountersOK, ColdUntilHotSpot
  <2>6. \A b \in Banks : prev_bank_temp'[b] = unit_temp(temps)[BankColumn(b[1], b[2])]
    BY <2>1 DEF updateTemperature
  <2>7. ColdUntilHotSpot'
    <3>1. \A b \in Banks : unit_temp(temps)[BankColumn(b[1], b[2])] \in Nat
      BY ReadsTemperature DEF Banks
    <3> QED
      BY <1>1, <1>4, <2>1, <3>1 DEF ColdUntilHotSpot, updateTemperature
  <2>8. TemperaturesByColumn'
    <3> SUFFICES ASSUME NEW v \in Vault, NEW b \in Bank
                 PROVE  /\ prev_bank_temp'[<<v, b>>] = temps[ReadUnit(v, b)]
                        /\ hot'[<<v, b>>] <=> temps[ReadUnit(v, b)] >= HighThres
      BY <1>1, <2>1 DEF TemperaturesByColumn, ReadUnit
    <3>1. <<v, b>> \in Banks /\ <<v, b>>[1] = v /\ <<v, b>>[2] = b
      BY DEF Banks
    <3>2. unit_temp(temps)[BankColumn(v, b)] = temps[ReadUnit(v, b)]
      BY ReadsTemperature
    <3> QED
      BY <2>1, <3>1, <3>2 DEF updateTemperature
  <2> QED
    BY <1>1, <2>4, <2>5, <2>7, <2>8
<1>5. CASE ~HotSpotRuns(cores)
  <2>1. UNCHANGED <<start_hotspot, die, prev_bank_temp, hot, counts>> /\ ~start_hotspot
    BY <1>1, <1>5 DEF skipHotSpot, HotSpotRuns
  <2>2. CountersOK'
    BY <1>1, <1>3, <2>1 DEF CountersOK, counts
  <2>3. HotAccessesExact'
    BY <1>1, <1>3, <2>1 DEF HotAccessesExact, CountersOK, ColdUntilHotSpot, counts
  <2> QED
    BY <1>1, <2>1, <2>2, <2>3 DEF ColdUntilHotSpot, TemperaturesByColumn, ReadUnit
<1> QED
  BY <1>4, <1>5

LEMMA ThermalStep == ThermalInv /\ [Next]_vars => ThermalInv'
<1> SUFFICES ASSUME ThermalInv, [Next]_vars PROVE ThermalInv'
  OBVIOUS
<1>1. CASE recordStats
  BY <1>1, RecordKeeps
<1>2. CASE \E b \in Banks : access(b)
  BY <1>2, AccessKeeps
<1>3. CASE magic
  BY <1>3 DEF magic, ThermalInv, CountersOK, ColdUntilHotSpot, HotAccessesExact,
              TemperaturesByColumn, ReadUnit, counts
<1>4. CASE UNCHANGED vars
  BY <1>4 DEF vars, ThermalInv, CountersOK, ColdUntilHotSpot, HotAccessesExact,
              TemperaturesByColumn, ReadUnit, counts
<1> QED
  BY <1>1, <1>2, <1>3, <1>4 DEF Next

THEOREM ThermalInvariant == Spec => []ThermalInv
BY ThermalInit, ThermalStep, PTL DEF Spec

\* The accesses made while a bank was reported above 85 degrees are the ones its
\* hot_access counts at the next record (chargeAccesses), for every floor plan.
THEOREM HotAccessesTheorem == Spec => []HotAccessesExact
<1>1. ThermalInv => HotAccessesExact
  BY DEF ThermalInv
<1> QED
  BY <1>1, ThermalInvariant, PTL

\* In either layout callHotSpot tells every bank the temperature the solver gave
\* the unit ReadUnit names.
THEOREM TemperaturesTheorem == Spec => []TemperaturesByColumn
<1>1. ThermalInv => TemperaturesByColumn
  BY DEF ThermalInv
<1> QED
  BY <1>1, ThermalInvariant, PTL

\* With the cores below the DRAM every bank is told its own temperature; in the
\* reverse layout every bank is told the temperature of another unit.
THEOREM LayoutTheorem ==
  Spec => [](\A v \in Vault, b \in Bank :
               IF config.reverse
                 THEN \E u \in Unit \ {<<"bank", v, b>>} : prev_bank_temp[<<v, b>>] = die[u]
                 ELSE prev_bank_temp[<<v, b>>] = die[<<"bank", v, b>>])
<1>1. ThermalInv => \A v \in Vault, b \in Bank :
        IF config.reverse
          THEN \E u \in Unit \ {<<"bank", v, b>>} : prev_bank_temp[<<v, b>>] = die[u]
          ELSE prev_bank_temp[<<v, b>>] = die[<<"bank", v, b>>]
  <2> SUFFICES ASSUME ThermalInv, NEW v \in Vault, NEW b \in Bank
               PROVE  IF config.reverse
                        THEN \E u \in Unit \ {<<"bank", v, b>>} : prev_bank_temp[<<v, b>>] = die[u]
                        ELSE prev_bank_temp[<<v, b>>] = die[<<"bank", v, b>>]
    OBVIOUS
  <2>1. prev_bank_temp[<<v, b>>] = die[ReadUnit(v, b)] /\ config \in Configs
    BY DEF ThermalInv, TemperaturesByColumn
  <2>2. CASE config.reverse
    <3>1. ReadUnit(v, b) \in Unit \ {<<"bank", v, b>>}
      BY <2>1, <2>2, ReadUnitType, ReverseColumnUnit
    <3> QED
      BY <2>1, <2>2, <3>1
  <2>3. CASE ~config.reverse
    BY <2>1, <2>3 DEF ReadUnit
  <2> QED
    BY <2>2, <2>3
<1> QED
  BY <1>1, ThermalInvariant, PTL

(***************************************************************************)
(* The frequency of the domains                                            *)
(***************************************************************************)

\* Every domain runs at the frequency of the level, whatever the last record did.
DomainsFollowLevel ==
  /\ config \in Configs
  /\ freq_lev \in 0 .. max_lev
  /\ domain = [k \in Domains(config) |-> freq_lev]

\* The cores below c that are the first of their domain.
Firsts(c) == {x \in 0 .. c - 1 : \A y \in 0 .. x - 1 : getCoreDomainId(y) # getCoreDomainId(x)}

\* setCoreDomain for the cores below c: their domains have the new frequency, the
\* first core of each has paid.
AfterCores(f, c) ==
  [dom |-> [k \in Domains(config) |->
              IF \E x \in 0 .. c - 1 : getCoreDomainId(x) = k THEN f ELSE freq_lev],
   paid |-> Firsts(c)]

LEMMA CoreHasDomain ==
  ASSUME config \in Configs, NEW c \in Core
  PROVE  getCoreDomainId(c) \in Domains(config)
<1>1. NCores \in Nat \ {0} /\ config.socket \in Nat \ {0}
  BY ThermalAssumption
<1> QED
  BY <1>1 DEF getCoreDomainId, Domains, Core

LEMMA AfterOneMore ==
  ASSUME DomainsFollowLevel, NEW f \in 0 .. max_lev, f # freq_lev, NEW c \in Core
  PROVE  setCoreDomain(c, f, AfterCores(f, c)) = AfterCores(f, c + 1)
<1> DEFINE k == getCoreDomainId(c)
           before == \E x \in 0 .. c - 1 : getCoreDomainId(x) = k
<1>0. c \in Nat /\ 0 .. (c + 1) - 1 = (0 .. c - 1) \cup {c} /\ c \notin 0 .. c - 1
  BY ThermalAssumption DEF Core
<1>1. k \in Domains(config)
  BY CoreHasDomain DEF DomainsFollowLevel
<1>2. (AfterCores(f, c).dom[k] # f) <=> ~before
  BY <1>1 DEF AfterCores
<1>3. Firsts(c + 1) = IF before THEN Firsts(c) ELSE Firsts(c) \cup {c}
  BY <1>0 DEF Firsts
<1>4. [AfterCores(f, c).dom EXCEPT ![k] = f] = AfterCores(f, c + 1).dom
  <2> HIDE DEF k
  <2>1. AfterCores(f, c + 1).dom
          = [j \in Domains(config) |->
               IF (\E x \in 0 .. c - 1 : getCoreDomainId(x) = j) \/ j = k THEN f ELSE freq_lev]
    BY <1>0 DEF AfterCores, k
  <2> QED
    BY <2>1, <1>1 DEF AfterCores
<1> QED
  BY <1>2, <1>3, <1>4 DEF setCoreDomain, AfterCores

LEMMA GlobalFrequency ==
  ASSUME DomainsFollowLevel, NEW f \in 0 .. max_lev, f # freq_lev
  PROVE  setGlobalFrequency(f) = AfterCores(f, NCores)
<1> DEFINE Is(g) == g = [c \in 0 .. NCores |->
                          IF c = 0 THEN [dom |-> domain, paid |-> {}]
                          ELSE setCoreDomain(c - 1, f, g[c - 1])]
           closed == [c \in 0 .. NCores |-> AfterCores(f, c)]
           d == CHOOSE g : Is(g)
<1>0. NCores \in Nat \ {0}
  BY ThermalAssumption
<1>1. AfterCores(f, 0) = [dom |-> domain, paid |-> {}]
  <2>1. 0 .. 0 - 1 = {}
    OBVIOUS
  <2> QED
    BY <2>1 DEF AfterCores, Firsts, DomainsFollowLevel
<1>2. ASSUME NEW c \in 1 .. NCores
      PROVE  setCoreDomain(c - 1, f, AfterCores(f, c - 1)) = AfterCores(f, c)
  BY <1>0, AfterOneMore DEF Core
<1>3. Is(closed)
  BY <1>0, <1>1, <1>2
<1>4. d = [c \in 0 .. NCores |-> IF c = 0 THEN [dom |-> domain, paid |-> {}]
                               ELSE setCoreDomain(c - 1, f, d[c - 1])]
  <2>1. Is(d)
    BY <1>3
  <2> QED
    BY <2>1
<1> DEFINE T == {n \in Nat : n <= NCores => d[n] = AfterCores(f, n)}
<1>5. 0 \in T
  <2> HIDE DEF d
  <2>1. d[0] = [dom |-> domain, paid |-> {}]
    BY <1>0, <1>4
  <2> QED
    BY <2>1, <1>1
<1>6. ASSUME NEW n \in Nat, n \in T PROVE n + 1 \in T
  <2> SUFFICES ASSUME n + 1 <= NCores PROVE d[n + 1] = AfterCores(f, n + 1)
    OBVIOUS
  <2>1. d[n + 1] = setCoreDomain(n, f, d[n])
    <3> HIDE DEF d
    <3>1. n + 1 \in 0 .. NCores /\ n + 1 # 0 /\ (n + 1) - 1 = n
      BY <1>0
    <3> QED
      BY <1>4, <3>1
  <2>2. d[n] = AfterCores(f, n)
    BY <1>0, <1>6
  <2> QED
    BY <1>0, <2>1, <2>2, AfterOneMore DEF Core
<1>7. Nat \subseteq T
  BY <1>5, <1>6, InductionOverNat
<1>8. d[NCores] = AfterCores(f, NCores)
  BY <1>0, <1>7
<1> QED
  BY <1>8 DEF setGlobalFrequency

\* The first core of a domain, and the only one of the firsts that is in it.
LEMMA FirstOfDomain ==
  ASSUME config \in Configs, NEW k \in Domains(config)
  PROVE  /\ \E x \in Core : getCoreDomainId(x) = k
         /\ \E x : {c \in Firsts(NCores) : getCoreDomainId(c) = k} = {x}
<1> DEFINE s == config.socket
           x == k * s
<1>1. NCores \in Nat \ {0} /\ s \in Nat \ {0} /\ k \in Nat
  BY ThermalAssumption DEF Domains
<1>2. k <= (NCores - 1) \div s
  BY DEF Domains
<1> HIDE DEF s
<1>3. x \in Nat /\ x \div s = k
  <2>1. 0 \in 0 .. s - 1 /\ x = x + 0
    BY <1>1
  <2> QED
    BY <1>1, <2>1, DivMod
<1>4. x <= NCores - 1
  <2> DEFINE q == (NCores - 1) \div s
  <2>1. q \in Int /\ q * s <= NCores - 1
    BY <1>1
  <2> HIDE DEF q
  <2>2. k * s <= q * s
    BY <1>1, <1>2, <2>1 DEF q
  <2>3. q * s \in Int
    BY <1>1, <2>1
  <2> QED
    BY <1>1, <1>3, <2>1, <2>2, <2>3
<1>5. \A y \in Nat : y \div s = k => y >= x
  <2> SUFFICES ASSUME NEW y \in Nat, y \div s = k PROVE y >= k * s
    OBVIOUS
  <2> QED
    BY <1>1
<1>6. x \in Core /\ getCoreDomainId(x) = k
  BY <1>1, <1>3, <1>4 DEF Core, getCoreDomainId, s
<1> HIDE DEF x
<1>7. \A y \in Nat : getCoreDomainId(y) = k => y >= x
  BY <1>5 DEF getCoreDomainId, s
<1>8. x \in Firsts(NCores)
  BY <1>1, <1>3, <1>6, <1>7 DEF Firsts, Core
<1>9. ASSUME NEW c \in Firsts(NCores), getCoreDomainId(c) = k PROVE c = x
  <2>1. c \in Nat /\ x \in Nat /\ c >= x
    BY <1>1, <1>3, <1>7, <1>9 DEF Firsts
  <2>2. x \notin 0 .. c - 1
    BY <1>6, <1>9 DEF Firsts
  <2> QED
    BY <2>1, <2>2
<1> QED
  BY <1>6, <1>8, <1>9

\* A record keeps the level, or moves it by one: a different level of the table.
LEMMA LevelSteps ==
  ASSUME DomainsFollowLevel, [Next]_vars
  PROVE  /\ UNCHANGED config
         /\ \/ UNCHANGED <<freq_lev, domain>> /\ (UNCHANGED charged \/ charged' = {})
            \/ \E lev \in 0 .. max_lev : lev # freq_lev /\ SetLevel(lev)
<1> USE DEF KeepLevel
<1>1. CASE recordStats
  <2>1. UNCHANGED config /\ (\/ \E acc : callHotSpot(acc)
                             \/ skipHotSpot)
    BY <1>1 DEF recordStats
  <2>2. ASSUME NEW ut, checkDTM(ut)
        PROVE  KeepLevel \/ \E lev \in 0 .. max_lev : lev # freq_lev /\ SetLevel(lev)
    <3>0. freq_lev \in 0 .. max_lev /\ max_lev \in Nat
      BY ThermalAssumption DEF DomainsFollowLevel, max_lev
    <3>1. CASE SetLevel(freq_lev - 1) /\ freq_lev > 0
      BY <3>0, <3>1
    <3>2. CASE SetLevel(freq_lev + 1) /\ freq_lev < max_lev
      BY <3>0, <3>2
    <3> QED
      BY <2>2, <3>1, <3>2 DEF checkDTM
  <2>3. CASE \E acc : callHotSpot(acc)
    BY <2>1, <2>2, <2>3 DEF callHotSpot
  <2>4. CASE skipHotSpot
    BY <2>1, <2>4 DEF skipHotSpot
  <2> QED
    BY <2>1, <2>3, <2>4
<1>2. CASE \E b \in Banks : access(b)
  BY <1>2 DEF access, dvfs
<1>3. CASE magic
  BY <1>3 DEF magic, dvfs
<1>4. CASE UNCHANGED vars
  BY <1>4 DEF vars, dvfs
<1> QED
  BY <1>1, <1>2, <1>3, <1>4 DEF Next

\* What a change of level does to the domains and who pays for it.
LEMMA LevelChange ==
  ASSUME DomainsFollowLevel, NEW lev \in 0 .. max_lev, lev # freq_lev, SetLevel(lev)
  PROVE  /\ domain' = [k \in Domains(config) |-> lev]
         /\ freq_lev' = lev
         /\ charged' = Firsts(NCores)
<1>1. setGlobalFrequency(lev) = AfterCores(lev, NCores)
  BY GlobalFrequency
<1>2. /\ domain' = AfterCores(lev, NCores).dom
      /\ charged' = AfterCores(lev, NCores).paid
      /\ freq_lev' = lev
  BY <1>1 DEF SetLevel, freq_table
<1>3. \A k \in Domains(config) : \E x \in 0 .. NCores - 1 : getCoreDomainId(x) = k
  BY FirstOfDomain DEF DomainsFollowLevel, Core
<1> QED
  BY <1>2, <1>3 DEF AfterCores

LEMMA DomainsStep == DomainsFollowLevel /\ [Next]_vars => DomainsFollowLevel'
<1> SUFFICES ASSUME DomainsFollowLevel, [Next]_vars PROVE DomainsFollowLevel'
  OBVIOUS
<1>1. CASE UNCHANGED <<config, freq_lev, domain>>
  BY <1>1 DEF DomainsFollowLevel
<1>2. CASE UNCHANGED config /\ \E lev \in 0 .. max_lev : lev # freq_lev /\ SetLevel(lev)
  <2>1. PICK lev \in 0 .. max_lev : domain' = [k \in Domains(config) |-> lev] /\ freq_lev' = lev
    BY <1>2, LevelChange
  <2> QED
    BY <1>2, <2>1 DEF DomainsFollowLevel
<1> QED
  BY <1>1, <1>2, LevelSteps

\* The level of the manager is the frequency of every domain, at every moment.
THEOREM DomainsTheorem == Spec => []DomainsFollowLevel
<1>1. Init => DomainsFollowLevel
  BY ThermalAssumption DEF Init, DomainsFollowLevel, freq_table, max_lev
<1> QED
  BY <1>1, DomainsStep, PTL DEF Spec

\* setCoreDomain is called for every core with the same frequency; exactly the
\* first core of each domain finds its domain changed and queues the delay, for
\* every number of cores and every number of cores to a domain.
THEOREM TransitionTheorem == Spec => TransitionPaidOnce
<1> DEFINE Paid == \A d \in DOMAIN domain :
                     Cardinality({c \in charged' : getCoreDomainId(c) = d})
                       = IF domain'[d] # domain[d] THEN 1 ELSE 0
<1>1. ASSUME DomainsFollowLevel, [Next]_vars PROVE [Paid]_dvfs
  <2> SUFFICES ASSUME ~UNCHANGED dvfs, NEW d \in DOMAIN domain
               PROVE  Cardinality({c \in charged' : getCoreDomainId(c) = d})
                        = IF domain'[d] # domain[d] THEN 1 ELSE 0
    OBVIOUS
  <2>1. CASE UNCHANGED <<freq_lev, domain>>
    <3>1. charged' = {}
      BY <1>1, <2>1, LevelSteps, LevelChange DEF dvfs
    <3>2. {c \in charged' : getCoreDomainId(c) = d} = {}
      BY <3>1
    <3> QED
      BY <2>1, <3>2, FS_EmptySet
  <2>2. CASE \E lev \in 0 .. max_lev : lev # freq_lev /\ SetLevel(lev)
    <3>1. PICK lev \in 0 .. max_lev : lev # freq_lev /\ SetLevel(lev)
      BY <2>2
    <3>2. d \in Domains(config) /\ domain[d] = freq_lev /\ domain'[d] = lev
      BY <1>1, <3>1, LevelChange DEF DomainsFollowLevel
    <3>3. PICK x : {c \in charged' : getCoreDomainId(c) = d} = {x}
      BY <1>1, <3>1, <3>2, LevelChange, FirstOfDomain DEF DomainsFollowLevel
    <3> QED
      BY <3>1, <3>2, <3>3, FS_Singleton
  <2> QED
    BY <1>1, <2>1, <2>2, LevelSteps
<1>2. DomainsFollowLevel /\ [Next]_vars => [Paid]_dvfs
  BY <1>1
<1> QED
  BY <1>2, DomainsTheorem, PTL DEF Spec, TransitionPaidOnce
==============================================================================
