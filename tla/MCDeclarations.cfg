SPECIFICATION Spec
CONSTANTS
  w = w
  x = x
  y = y
  z = z
  Null = Null
  Names = {w, x, y, z}
  Hash <- MCHash
  NumBuckets = 3
  Vals = {0}
  MaxLexi = 2
  MaxSets = 3
  MaxSymbols = 4
INVARIANTS TypeOK RingIntact StoredOnce DeclaredKept CodeSetsMatch ResolvesWhenCurrent
SYMMETRY Collide
CHECK_DEADLOCK FALSE
