SPECIFICATION Spec
CONSTANTS
  MaxSets = 4
  MaxProcs = 2
  MaxStatements = 5
  MaxNesting = 5
INVARIANTS TypeOK RegistersHeld JumpsLand CallsReachBody NothingLost
CHECK_DEADLOCK FALSE
