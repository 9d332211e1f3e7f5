CONSTANTS
  NumMV = 1
  Values = {0, 1, 2}
  BaseLimits <- Base
  LimitPairs <- Narrowed
  MonitorAfter = 2
  IdleAfter = 3
  BeatMod = 1
  SolverResults = {"Solved", "Failed", "InitFailed"}
  Faults = {"read", "write", "inputs", "crash"}
SPECIFICATION Spec
INVARIANT TypeOK
PROPERTY WriteIsPredicted
PROPERTY GateSpec
PROPERTY LimitSpec
