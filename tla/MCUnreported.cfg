SPECIFICATION DriverSpec
CONSTANTS
  c = c
  x = x
  y = y
  p = p
  sub = sub
  u = u
  v = v
  Null = Null
  NoFile = NoFile
  Names = {c, x, y, p, sub, u, v, "ifodd", "whileodd"}
  Hash <- MCHash
  NumBuckets = 9
  Vals = {0, 5}
  MAX_NUMBER = 9
  MaxLexi = 5
  MaxSets = 4
  MaxSymbols = 8
  TokenFiles = {}
  Programs <- MCPrograms
  Damaged <- MCDamaged
  Inputs = {1, 3}
  MaxInt = 200
  NumRegs = 16
  MaxStack = 40
  MaxCode = 80
INVARIANT MistakesDetected
CHECK_DEADLOCK FALSE
