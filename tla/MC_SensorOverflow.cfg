SPECIFICATION Spec
CONSTANTS
  ShortMax = 7
  Burst = 1
  MaxPackets = 8
INVARIANT NumIsReceived
