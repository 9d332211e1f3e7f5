CONSTANTS
  Slots = {c1, c2}
  Handlers = {h1}
  MaxPid = 3
  Settings = {s1, s2}
  Keep = Keep
  Faults = {"spawn", "persist"}
SPECIFICATION Spec
INVARIANT OneServing
INVARIANT ServingIsManaged
PROPERTY SlotSpec
