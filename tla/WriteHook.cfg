CONSTANTS
  Nodes = {n1, n2}
  Values = {0}
  Unset = Unset
  MaxWrites = 3
SPECIFICATION FairSpec
INVARIANT HookInv
PROPERTY ErrorMeansNoUpdate
PROPERTY PendingEnds
