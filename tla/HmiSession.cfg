CONSTANTS
  a = a  b = b
  Controllers = {a, b}
  None = None
  FirstRoles = {"operator"}
  FirstModes <- MCFirstModes
  MaxMsgs = 1
  MaxCalls = 2
  MaxOps = 3
  MaxOthers = 1
  MaxFaults = 1
SPECIFICATION FairSpec
INVARIANT SessionInv
PROPERTY OnlyTogglesDiffer
PROPERTY SessionConverges
PROPERTY SwitchesConverge
CHECK_DEADLOCK FALSE
