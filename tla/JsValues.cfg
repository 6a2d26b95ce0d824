SPECIFICATION Spec
CONSTANTS
  Heap = {client, rows, callback}
  Numbers = {number}
  Handles = {h1, h2, h3}
  MaxDepth = 2
  MaxMoves = 1
  Undefined = Undefined
  NaN = NaN
  Zero = Zero
  Null = Null
  True = True
  False = False
  Global = Global
  GoObj = GoObj
  Infinity = Infinity
  Nowhere = Nowhere
INVARIANTS
  RefsDenote
  TableIsHeld
SYMMETRY Symmetry
