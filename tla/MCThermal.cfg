SPECIFICATION FairSpec
CONSTANTS
  NCores = 2
  NVaults = 2
  NBanks = 2
  CoreUnits <- TwoUnits
  BanksPerLayer = 1
  ThermalMaps <- SomeTemps
  PowerMaps <- SomePowers
  NFreq = 3
  CpuThres = 100
  DramThres = 80
  HighThres = 85
  Configs <- SomeConfigs
  MaxAccess = 1
INVARIANTS TemperaturesByColumn HotAccessesExact
PROPERTIES TransitionPaidOnce HeatThrottles
