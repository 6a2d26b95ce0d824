SPECIFICATION Spec
CONSTANTS
  Ids = {a, b}
  Body = a
  Limit = 3
  WireCap = 1
  MaxResults = 2
  Free = TRUE
  Handler = Handler
  None = None
PROPERTIES
  NothingAfterStop
  InOrder
  StopReturns
  OneSessionEnds
  EveryResultArrives
CHECK_DEADLOCK FALSE
