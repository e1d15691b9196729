SPECIFICATION Spec
CONSTANTS
  Slots = 4
  SameMin = 2
  Positions <- Corner
  Burst = 2
INVARIANTS TypeOK OneLatePacket WeighedTwice
PROPERTIES StandsStill SeenInTheEnd
CHECK_DEADLOCK FALSE
