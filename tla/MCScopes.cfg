SPECIFICATION Spec
CONSTANTS
  w = w
  x = x
  y = y
  z = z
  Null = Null
  Names = {x, y}
  Hash <- ApartHash
  NumBuckets = 5
  Vals = {0, 1}
  MaxLexi = 2
  MaxSets = 3
  MaxSymbols = 4
INVARIANT ResolvesInnermost
CHECK_DEADLOCK FALSE
