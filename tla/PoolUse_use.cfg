SPECIFICATION Spec
CONSTANTS
  o1 = o1  o2 = o2  o3 = o3
  Objects <- MCObjects
  Names <- MCNames
  Models <- MCModels
  MaxErrors = 1
  Window = 2
  DequeMax = 3
  Setups <- MCSetups
  Spare <- MCSpare
  MaxLimited = 1
SYMMETRY Symmetric
INVARIANTS TypeOK RateLimit NoDoubleTurn
CHECK_DEADLOCK FALSE
