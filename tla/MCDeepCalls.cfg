SPECIFICATION Spec
CONSTANTS
  NoFile = NoFile
  Files <- DeepFiles
  Inputs <- DeepInputs
  MaxInt = 100
  NumRegs = 16
  MaxStack = 60
  MaxCode = 16
  MaxLexi = 5
  MaxRuns = 1
  MaxTail = 0
INVARIANT DeepCallsReturn
CHECK_DEADLOCK FALSE
