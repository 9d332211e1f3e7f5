CONSTANTS
  Slots = {c1}
  Handlers = {h1, h2}
  MaxPid = 2
  Settings = {s1}
  Keep = Keep
  Faults = {}
SPECIFICATION Spec
INVARIANT OneServing
