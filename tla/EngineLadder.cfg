CONSTANTS
  NumMV = 1
  Values = {0, 1}
  BaseLimits <- Point
  LimitPairs <- NoLimitPairs
  MonitorAfter = 2
  IdleAfter = 4
  BeatMod = 2
  SolverResults = {"Failed", "InitFailed"}
  Faults = {"write"}
SPECIFICATION FairSpec
PROPERTY FailureDisengages
PROPERTY HeartbeatResumes
