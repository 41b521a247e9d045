SPECIFICATION Spec
CONSTANTS
  v1 = v1
  v2 = v2
  Values <- TwoValues
  Defaults = v1
  Size = 2
  Faults = 2
  Outages = 3
INVARIANTS
  SavedIsKept
  OneConfiguration
PROPERTIES
  RestartRestores
