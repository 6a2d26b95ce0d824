SPECIFICATION Spec
CONSTANTS
  m1 = m1
  m2 = m2
  m3 = m3
  v1 = v1
  v2 = v2
  None = None
  Torn = Torn
  Members = {m1, m2}
  SubIds = {s1}
  Jobs = {j1}
  Vars = {v1, v2}
  Leavers = {m1}
  VarsOf <- OtherVars
  HasParams = TRUE
  Cursor = FALSE
  ProdSec = FALSE
  Faults = FALSE
  SlowReaders = FALSE
  MaxPerWorker = 2
  UpdtCap = 2
  ResCap = 2
  Histories <- Changes
  Late = {}
  MaxVersion = 1
INVARIANTS
  OwnResults
CHECK_DEADLOCK FALSE
