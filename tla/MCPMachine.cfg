SPECIFICATION DisciplinedSpec
CONSTANTS
  NoFile = NoFile
  Files <- MCFiles
  Inputs <- MCInputs
  MaxInt = 20
  NumRegs = 3
  MaxStack = 20
  MaxCode = 16
  MaxLexi = 2
  MaxRuns = 1
  MaxTail = 3
INVARIANTS TypeOK LinksIntact SeparatorsExact
PROPERTIES RestoresCaller Halts
CHECK_DEADLOCK FALSE
