SPECIFICATION Spec
CONSTANTS
  Width = 2
  Crc8 <- TinyCrc8
  Payloads <- CleanPayloads
  BufferSize = 31
  ColdWords <- TinyCold
  MaxFrames = 3
  MaxGap = 7
  MaxCold = 3
  Apart = TRUE
INVARIANTS CounterInv Resynchronised
PROPERTY Promise
CHECK_DEADLOCK FALSE
