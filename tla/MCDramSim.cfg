SPECIFICATION Spec
CONSTANTS
  ChBits = 1
  RaBits = 1
  BaBits = 1
  RoBits = 1
  CoBits = 1
  AddrMap = 3
  RowBits = 1
  WMax = 2
  OMax = 4
  nREFI = 20
  nRFC = 2
  nRP = 1
  ReadLatency = 5
  Window = 2
  TimeWrap = 64
  Offsets <- SomeOffsets
  Sets = {3, 12}
  HotBanks <- OneHotBank
  RMax = 2
INVARIANTS RefreshesFit BankNumbersAgree QueuedInWindow WriteLatencyBounded
