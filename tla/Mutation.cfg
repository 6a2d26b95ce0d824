SPECIFICATION Spec
CONSTANTS
  a = a
  b = b
  MaxObjects = 5
  MapSlots = 3
  Docs <- MCDocs
INVARIANTS
  Ordered
  WrittenOnce
  TreeKept
PROPERTIES
  CreatesInOrder
CHECK_DEADLOCK FALSE
