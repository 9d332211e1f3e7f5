CONSTANTS
  NumMV = 1
  Values = {0, 1}
  BaseLimits <- Point
  LimitPairs <- NoLimitPairs
  MonitorAfter = 2
  IdleAfter = 3
  BeatMod = 1
  SolverResults = {"Solved", "InitFailed"}
  Faults = {}
SPECIFICATION Spec
INVARIANT FailureColdStarts
