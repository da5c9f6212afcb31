SPECIFICATION Spec
CONSTANTS
  Values = {v1, v2}
  Faults = {"damage"}
INVARIANTS StaysAvailable
