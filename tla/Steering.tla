------------------------------ MODULE Steering ------------------------------
(***************************************************************************)
(* What lqr_control makes of the feedback of the LQR: the divisor by which *)
(* arranging_transition_process weakens it along the track, and the limits *)
(* of the servo.  The feedback itself is floating point; here it is any    *)
(* angle the servo is asked for.                                           *)
(*                                                                         *)
(* Divisors are in hundredths, and the one step of the transition, which   *)
(* the code computes as (2 - 1.4) / 30, is the Slope of them.              *)
(***************************************************************************)
EXTENDS Integers

CONSTANTS
  SERVO_MID_POINT,          (* 160                                         *)
  MAX_DECLINATION_ANGLE,    (* 20                                          *)
  DELTA_ANGLE,              (* 1                                           *)
  P1, P2, P3, P4,           (* DIVIDING_POINT_1 to 4.                      *)
  TRANSITION_SECTION,       (* 30                                          *)
  CurvesRate, StraightRate, (* CURVES_ATTENUATION_RATE: 200, STRAIGHT_: 140 *)
  Asked                     (* Angles that may be asked for.               *)

ASSUME SteeringAssumption ==
  /\ SERVO_MID_POINT \in Nat /\ MAX_DECLINATION_ANGLE \in Nat
  /\ Asked \subseteq Int
  /\ TRANSITION_SECTION \in 1 .. 65535
  /\ P1 \in Nat /\ P2 \in Nat /\ P3 \in Nat /\ P4 \in Nat
  /\ TRANSITION_SECTION < P1 /\ P1 < P2 /\ P2 + 2 * TRANSITION_SECTION < P3 /\ P3 < P4

ASSUME SlopeAssumption ==
  /\ CurvesRate \in Nat /\ StraightRate \in Nat /\ CurvesRate >= StraightRate
  /\ (CurvesRate - StraightRate) % TRANSITION_SECTION = 0

VARIABLES
  steer_index,  \* index, the point of the track
  asked,        \* the angle asked for
  angle,        \* what lqr_control returned
  last_angle

steer_vars == <<steer_index, asked, angle, last_angle>>

TrackEnd  == P4 + 2 * TRANSITION_SECTION
Slope == (CurvesRate - StraightRate) \div TRANSITION_SECTION

(* arranging_transition_process: the divisor, in its five branches.  The   *)
(* last is also taken at the first three dividing points themselves, where *)
(* the difference wraps.                                                   *)
Curve(index)    == index \in P1 + 1 .. P2 - 1 \/ index \in P3 + 1 .. P4 - 1
Straight(index) == index \in P2 + 1 .. P3 - 1

OnStraight(index) ==
  IF index < P2 + TRANSITION_SECTION THEN CurvesRate - (index - P2) * Slope
  ELSE IF index > P3 - TRANSITION_SECTION
    THEN StraightRate + (index - (P3 - TRANSITION_SECTION)) * Slope
  ELSE StraightRate

BeforeFirst(index) ==
  IF index > P1 - TRANSITION_SECTION
    THEN StraightRate + (index - (P1 - TRANSITION_SECTION)) * Slope
    ELSE StraightRate

(* Mutant of AfterLast: the decay starts from the end of its belt.         *)
AfterLastBelt(index) ==
  IF index < P4 + TRANSITION_SECTION
    THEN CurvesRate - ((index - (P4 + TRANSITION_SECTION)) % 65536) * Slope
    ELSE StraightRate

AfterLast(index) ==
  IF index < P4 + TRANSITION_SECTION
    THEN CurvesRate - ((index - P4) % 65536) * Slope
    ELSE StraightRate

Divisor(index) ==
  CASE Curve(index)    -> CurvesRate
    [] index < P1      -> BeforeFirst(index)
    [] Straight(index) -> OnStraight(index)
    [] OTHER           -> AfterLast(index)

(* The limit of the angle, which is cut to eight bits before.  Mutant: one *)
(* side only.                                                              *)
LimitedAbove(servo) ==
  IF servo > SERVO_MID_POINT + MAX_DECLINATION_ANGLE
    THEN SERVO_MID_POINT + MAX_DECLINATION_ANGLE ELSE servo

Limited(servo) ==
  CASE servo > SERVO_MID_POINT + MAX_DECLINATION_ANGLE -> SERVO_MID_POINT + MAX_DECLINATION_ANGLE
    [] servo < SERVO_MID_POINT - MAX_DECLINATION_ANGLE -> SERVO_MID_POINT - MAX_DECLINATION_ANGLE
    [] OTHER                                           -> servo

(* "Servo angular acceleration limit"                                      *)
Smaller(a, b) == IF a < b THEN a ELSE b
Larger(a, b)  == IF a > b THEN a ELSE b

Accelerated(servo) ==
  CASE last_angle > SERVO_MID_POINT /\ servo > last_angle ->
         Smaller(servo, last_angle + DELTA_ANGLE)
    [] last_angle > SERVO_MID_POINT /\ servo < SERVO_MID_POINT -> SERVO_MID_POINT
    [] last_angle < SERVO_MID_POINT /\ servo < last_angle ->
         Larger(servo, last_angle - DELTA_ANGLE)
    [] last_angle < SERVO_MID_POINT /\ servo > SERVO_MID_POINT -> SERVO_MID_POINT
    [] OTHER -> servo

-----------------------------------------------------------------------------
SteerInit ==
  /\ steer_index = 0
  /\ asked = SERVO_MID_POINT /\ angle = SERVO_MID_POINT /\ last_angle = SERVO_MID_POINT

(* last_angle is nowhere assigned.                                         *)
lqr_control ==
  /\ asked' \in Asked
  /\ angle' = Accelerated(Limited(asked' % 256))
  /\ steer_index < TrackEnd /\ steer_index' = steer_index + 1
  /\ UNCHANGED last_angle

SteerSpec == SteerInit /\ [][lqr_control]_steer_vars

-----------------------------------------------------------------------------
Distance(a, b) == Larger(a, b) - Smaller(a, b)

(* The servo stays between its stops, and where the angle asked for is one *)
(* that eight bits hold, it is on the side and as far as it was asked for, *)
(* up to the stop.  Beyond, it may be at the other stop.                   *)
SteersRight ==
  /\ Distance(angle, SERVO_MID_POINT) <= MAX_DECLINATION_ANGLE
  /\ asked \in 0 .. 255 =>
       angle = Smaller(Larger(asked, SERVO_MID_POINT - MAX_DECLINATION_ANGLE),
                       SERVO_MID_POINT + MAX_DECLINATION_ANGLE)

(* "the control volume changes slowly": from a point to the next the       *)
(* divisor changes by a step of the transition and no more, but for the    *)
(* three dividing points where it is negative and huge.                    *)
ChangesSlowly ==
  LET next == steer_index + 1
  IN  {steer_index, next} \cap {P1, P2, P3} = {} =>
        Distance(Divisor(steer_index), Divisor(next)) <= Slope

(* "Servo angular acceleration limit": what the two branches of the code   *)
(* do, with the angle last returned for last_angle.  From one side of the  *)
(* middle the servo goes further by DELTA_ANGLE at most, and back no       *)
(* further than the middle.  At the middle nothing is limited.             *)
AcceleratesSlowly ==
  [][/\ angle > SERVO_MID_POINT =>
          angle' \in SERVO_MID_POINT .. angle + DELTA_ANGLE
     /\ angle < SERVO_MID_POINT =>
          angle' \in angle - DELTA_ANGLE .. SERVO_MID_POINT]_steer_vars

(* The servo goes where it is asked to, and is asked for no more than one   *)
(* step of the transition more or less from a point to the next.           *)
ServoRight == SteersRight /\ ChangesSlowly
=============================================================================
