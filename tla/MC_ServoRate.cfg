SPECIFICATION SteerSpec
CONSTANTS
  SERVO_MID_POINT = 160
  MAX_DECLINATION_ANGLE = 20
  DELTA_ANGLE = 1
  P1 = 100
  P2 = 300
  P3 = 440
  P4 = 620
  TRANSITION_SECTION = 30
  CurvesRate = 200
  StraightRate = 140
  Asked = {100, 150, 160, 170, 220}
PROPERTY AcceleratesSlowly
CHECK_DEADLOCK FALSE
