SPECIFICATION MCSpec
CONSTANTS
  ShortMax = 12
  Burst = 2
  MaxPackets = 8
  Sizes <- MCSizes
  MaxWords = 11
  MaxSwitches = 2
  Fixed = 3
  Variable = 4
  Room = 6
  Wrap = 8
  Values <- MCValues
  Checks <- MCChecks
  Pads <- MCPads
  ReadPackets = 4
  MaxDropped = 2
  MaxChanges = 2
  SdtpBytes <- MCBytes
  MaxSpeeds = 2
  MaxGone = 2
  MaxSaves = 3
  MaxResets = 3
  CountValues = 4
  RetryValues = 5
  MaxCount = 6
  SERVO_MID_POINT = 160
  MAX_DECLINATION_ANGLE = 20
  DELTA_ANGLE = 1
  P1 = 100
  P2 = 300
  P3 = 440
  P4 = 620
  TRANSITION_SECTION = 30
  CurvesRate = 200
  StraightRate = 140
  Asked <- MCAsked
  Longest_array = 6
  Elements = {1, 2, 3}
  TOUCH_READ_TIMES = 4
  TOUCH_ERR_RANGE = 20
  TOUCH_MIN = 100
  TOUCH_MAX = 4000
  At = 130
  Noise = 1
  Wild = {0, 160, 4095}
  Registered = 2
  FrameBuffers = 8
  VarValues = {0, 1}
  MaxScans = 3
INVARIANTS
  TypesOK
  MeanOfCounted
  OneWrongBlock FixedResynchronised
  SdtpRight
  StoreRight CardRight
  ServoRight
  ArraySorted TakenIsNear
  TableRight
PROPERTIES
  Ordered
  NeverOlder
CHECK_DEADLOCK FALSE
