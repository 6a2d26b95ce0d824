SPECIFICATION Spec
CONSTANTS
  Procs = {p1, p2}
  MaxRuns = 3
  Irreversible = {1}
  FixedUsers = 2
  user_count = 2
  customer_count = 4
  product_count = 2
  purchase_count = 1
  notifications_count = 1
  comments_count = 2
  None = None
INVARIANTS
  VersionIsApplied
  ConnectsFind
  SeededOnce
SYMMETRY Symmetry
CHECK_DEADLOCK FALSE
