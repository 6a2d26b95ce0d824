SPECIFICATION FairSpec
CONSTANTS
  a = a
  b = b
  c = c
  v1 = v1
  v2 = v2
  v3 = v3
  Files = Files
  None = None
  Servers = {s1, s2}
  Prod = {s1}
  Names = {a, b, c}
  Bundles = {v1, v2, v3}
  Broken = {v3}
  Plans <- AllPlans
  Faults = TRUE
  MaxCalls = 4
INVARIANTS
  SingleActive
  LabelIsContent
PROPERTIES
  RollsBack
  Settles
CHECK_DEADLOCK FALSE
