SPECIFICATION Spec
CONSTANTS
  Window = 3
  Cycles = 2
  Fixes = 2
  EndPoint = 3
  MaxPoint = 9
INVARIANTS NewestOrFlagged StartsAfterFixes StopIsFinal Overrun
PROPERTIES StopsAtEnd
CHECK_DEADLOCK FALSE
