SPECIFICATION Spec
CONSTANTS
  MaxSets = 4
  MaxProcs = 2
  MaxStatements = 4
  MaxNesting = 4
INVARIANT LoopsRepeat
CHECK_DEADLOCK FALSE
