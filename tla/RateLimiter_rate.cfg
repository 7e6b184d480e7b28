SPECIFICATION Spec
CONSTANTS
  a1 = a1  a2 = a2
  Addresses <- MCAddresses2
  PerMinute = 2
  Burst = 0
  Minute = 3
  MaxTime = 7
  MaxHits = 5
SYMMETRY Symmetric
INVARIANTS TypeOK WithinRate
PROPERTIES RefusedForCause
CHECK_DEADLOCK FALSE
