SPECIFICATION Spec
CONSTANTS
  LastDay = 3
  LastSlot = 3
  Window = 1
  Round = 2
  Faults <- AllFaults
INVARIANTS OncePerProcess MarkerHonest
PROPERTIES NotAfterWritten DayServed
