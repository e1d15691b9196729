SPECIFICATION Spec
CONSTANTS
  Slots = 2
  SameMin = 0
  Positions <- OnePlace
  Burst = 2
  Window = 2
  Cycles = 1
  Fixes = 2
  EndPoint = 1
  MaxPoint = 2
PROPERTIES LossIsNoticed
CHECK_DEADLOCK FALSE
