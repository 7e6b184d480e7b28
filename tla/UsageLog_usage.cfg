SPECIFICATION Spec
CONSTANTS
  Names <- MCNames
  Minute = 2
  LogSize = 3
  Spans <- Hours
  Start = 10
  MaxTime = 8
  MaxUses = 4
  MaxBack = 1
INVARIANTS TypeOK WholeMinutesShown NothingInvented
CHECK_DEADLOCK FALSE
