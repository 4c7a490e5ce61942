SPECIFICATION Spec
CONSTANTS
  c = c
  x = x
  p = p
  u = u
  Null = Null
  Names = {c, x, p, u}
  Hash <- MCHash
  NumBuckets = 4
  Vals = {0, 1}
  MAX_NUMBER = 2
  MaxLexi = 1
  MaxSets = 3
  MaxSymbols = 8
  TokenFiles <- MCTokenFiles
  StatementPlaces = 4
  ThenPlaces = 2
  ExpressionPlaces = 4
  ConditionPlaces = 5
  DeclarationPlaces = 5
INVARIANTS TypeOK RegistersBalanced CrashesReported TreeYields
PROPERTIES RecoveryRespectsCallers ParseEnds
CHECK_DEADLOCK FALSE
