SPECIFICATION Spec
CONSTANTS
  Width = 2
  Crc8 <- TinyCrc8
  Payloads <- TailPayloads
  BufferSize = 21
  ColdWords <- TinyCold
  MaxFrames = 3
  MaxGap = 0
  MaxCold = 0
  Apart = TRUE
INVARIANTS RestoresOriginal
CHECK_DEADLOCK FALSE
