SPECIFICATION FairSpec
CONSTANTS
  NBanks = 2
  Row = {1, 2}
  Col = {1, 2}
  Addr <- SomeAddr
  QMax = 3
  ReadLatency = 2
  NReq = 3
INVARIANTS RowTableExact ServingBalance CoherentReads ActivatedForARequest
PROPERTIES RowHitsProtected EventuallyDrained
