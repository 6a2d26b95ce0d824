SPECIFICATION FairSpec
CONSTANTS
  m1 = m1
  m2 = m2
  m3 = m3
  v1 = v1
  v2 = v2
  None = None
  Torn = Torn
  Members = {m1, m2}
  SubIds = {s1, s2}
  Jobs = {j1}
  Vars = {v1}
  Leavers = {m1, m2}
  VarsOf <- SameVars
  HasParams = TRUE
  Cursor = TRUE
  ProdSec = FALSE
  Faults = TRUE
  SlowReaders = TRUE
  MaxPerWorker = 2
  UpdtCap = 1
  ResCap = 1
  Histories <- Changes
  Late = {}
  MaxVersion = 1
INVARIANTS
  SingleController
  JoinedIsServed
PROPERTIES
  UnsubscribeReturns
CHECK_DEADLOCK FALSE
