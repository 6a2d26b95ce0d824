SPECIFICATION Spec
CONSTANTS
  Queries = {named}
  Subs = {}
  ByName = {named}
  Invalid = {}
  Panicking = {}
  Tries = 3
  MaxMsgs = 1
  ResCap = 1
  MaxFaults = 1
  UserThrows = FALSE
  None = None
INVARIANT NamedQueryFound
CHECK_DEADLOCK FALSE
