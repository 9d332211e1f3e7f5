CONSTANTS
  Slots = {c1}
  Handlers = {h1, h2}
  MaxPid = 3
  Settings = {s1, s2}
  Keep = Keep
  Faults = {"spawn", "persist", "kill", "restart"}
SPECIFICATION FairSpec
INVARIANT TypeOK
INVARIANT RunningIsWatched
PROPERTY WatcherSpares
PROPERTY DeadIsReported
