SPECIFICATION Spec
CONSTANTS
  Configs <- SomeConfigs
  Traces <- SomeTraces
  MIN_STEP = 2
  sampling_intvl = 3
  MaxCalls = 2
  MaxLines = 2
INVARIANTS NetworkConsistent PowerConserved SteadySolvesModel StartsFromTheFile
PROPERTIES TemperatureContinuity
