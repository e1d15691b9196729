SPECIFICATION Spec
CONSTANTS
  Xor <- MCXor
  Bodies <- TwoBodies
  Longest = 13
  BufferSize = 26
  Block = 5
  MaxFrames = 3
  Losable <- AllButStars
  MaxLost = 1
  MaxMissed = 1
INVARIANTS TypeOK CounterInv StaysInside Resynchronised
PROPERTY Promise
CHECK_DEADLOCK FALSE
