SPECIFICATION Spec
CONSTANTS
  Queries = {bad, nul, q}
  Subs = {s}
  ByName = {}
  Invalid = {bad}
  Panicking = {nul}
  Tries = 2
  MaxMsgs = 3
  ResCap = 1
  MaxFaults = 2
  UserThrows = TRUE
  None = None
INVARIANTS
  OwnAnswer
  HandlersReturn
  SleepersAreWoken
PROPERTIES
  EverySettles
  EveryDelivered
CHECK_DEADLOCK FALSE
