SPECIFICATION FairSpec
CONSTANTS
  NVaults = 2
  NBanks = 2
  Temps = {0, 84, 86}
  HighThres = 85
  RemapThres = 83
  Configs <- AllConfigs
INVARIANTS PairedBanks NoHotService EventsBalance
PROPERTIES EnabledOnlyWhenCool CoolBankRecovers
