SPECIFICATION CacheSpec
CONSTANTS
  NVaults = 2
  NBanks = 1
  Temps = {0, 84, 86}
  HighThres = 85
  RemapThres = 83
  Configs <- ActingConfigs
  Page = {0, 1, 2}
  NBlocks = 1
  Assoc = 2
  NoPage = NoPage
INVARIANT ValidContent
