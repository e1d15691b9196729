SPECIFICATION Spec
CONSTANTS
  QueueLength = 2
  MaxTouches = 3
INVARIANTS StateOK WalksInside AsTouched NothingLeft SizeFits
CHECK_DEADLOCK FALSE
