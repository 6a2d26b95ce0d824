SPECIFICATION FairSpec
CONSTANTS
  m1 = m1
  m2 = m2
  m3 = m3
  v1 = v1
  v2 = v2
  None = None
  Torn = Torn
  Members = {m1, m2, m3}
  SubIds = {s1}
  Jobs = {j1}
  Vars = {v1, v2}
  Leavers = {}
  VarsOf <- OtherVars
  HasParams = TRUE
  Cursor = TRUE
  ProdSec = FALSE
  Faults = TRUE
  SlowReaders = FALSE
  MaxPerWorker = 2
  UpdtCap = 5
  ResCap = 1
  Histories <- Changes
  Late = {m3}
  MaxVersion = 2
INVARIANTS
  OwnResults
  NothingLost
PROPERTIES
  ShowsOwnDataInOrder
  SubscribeReturns
  EventuallyCurrent
  NoGaps
CHECK_DEADLOCK FALSE
