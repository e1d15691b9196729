--------------------------- MODULE CtrlDriveProofs ---------------------------
(***************************************************************************)
(* Theorems about the control loop of ctrl_mcu, for every window, number   *)
(* of cycles and of fixes and every path.                                  *)
(***************************************************************************)
EXTENDS CtrlDrive, TLAPS

LEMMA InitInv == Init => DriveInv
<1> SUFFICES ASSUME Init PROVE DriveInv
  OBVIOUS
<1> USE DriveAssumption DEF Init
<1>1. fix \in BOOLEAN /\ stopped \in BOOLEAN /\ ~stopped
  OBVIOUS
<1>2. pc \in Departing /\ pc = "depart" /\ speed = 0
  BY DEF Departing
<1>3. TypeOK
  BY <1>1, <1>2 DEF TypeOK
<1>4. NewestOrFlagged /\ StartsAfterFixes /\ DepartInv
  BY <1>2 DEF NewestOrFlagged, StartsAfterFixes, DepartInv
<1>5. CycleInv
  BY <1>2 DEF CycleInv, Departing, Cycle
<1> QED BY <1>1, <1>2, <1>3, <1>4, <1>5 DEF DriveInv

(* One more call of find_index, and no call less.                          *)
LEMMA LooksStep ==
  ASSUME NEW n \in Nat
  PROVE  /\ n * (Window - 1) \in Nat
         /\ (n + 1) * (Window - 1) = n * (Window - 1) + (Window - 1)
  BY DriveAssumption

LEMMA FindFacts ==
  ASSUME NEW ind \in 0 .. MaxPoint, NEW n \in find_index(ind)
  PROVE  n \in 0 .. MaxPoint /\ n >= ind /\ n <= ind + (Window - 1)
  BY DriveAssumption DEF find_index, Moved

LEMMA UnpackInv ==
  ASSUME DriveInv, NEW valid \in BOOLEAN, Unpack(valid)
  PROVE  DriveInv'
<1>1. TypeOK'
  BY DEF DriveInv, TypeOK, Unpack, loops
<1>2. /\ pc' = pc /\ find_counter' = find_counter /\ i' = i
      /\ playground_ind' = playground_ind
      /\ speed' = speed /\ taken' = taken /\ stopped' = stopped /\ lqr_flag' = 1
  BY DEF Unpack, loops
<1> QED BY <1>1, <1>2 DEF DriveInv, NewestOrFlagged, StartsAfterFixes, DepartInv,
           CycleInv, Looks

LEMMA DepartureInv ==
  ASSUME DriveInv, Departure
  PROVE  DriveInv'
<1> USE DriveAssumption DEF At, flags, loops, history
<1>0. /\ TypeOK /\ NewestOrFlagged /\ DepartInv /\ pc \in Departing
      /\ stopped => speed = 0 /\ playground_ind > EndPoint
  BY DEF DriveInv, Departure, TestPosition, TestFlag, DepartTake, Take, DepartLook,
     DepartFind, Departing
<1>1. CASE TestPosition \/ TestFlag \/ DepartTake \/ DepartLook
  <2>1. TypeOK'
    BY <1>0, <1>1 DEF TypeOK, TestPosition, TestFlag, DepartTake, Take, DepartLook,
       Reading, Departing
  <2>2. NewestOrFlagged'
    BY <1>0, <1>1 DEF NewestOrFlagged, TestPosition, TestFlag, DepartTake, Take,
       DepartLook, Reading
  <2>3. pc' \in Departing /\ speed' = speed /\ stopped' = stopped /\ playground_ind' = playground_ind
    BY <1>1 DEF TestPosition, TestFlag, DepartTake, Take, DepartLook, Departing
  <2>4. DepartInv'
    BY <1>0, <1>1 DEF DepartInv, TypeOK, TestPosition, TestFlag, DepartTake, Take,
       DepartLook, Departing
  <2>5. speed' = 0
    BY <1>0, <2>3 DEF DepartInv
  <2>6. CycleInv'
    BY <2>3 DEF CycleInv, Departing, Cycle
  <2> QED BY <1>0, <2>1, <2>2, <2>3, <2>4, <2>5, <2>6 DEF DriveInv, StartsAfterFixes
<1>2. CASE DepartFind
  <2>1. /\ playground_ind' \in find_index(playground_ind) /\ pc = "departFind"
        /\ speed' = speed /\ speed = 0 /\ taken' = taken /\ stopped' = stopped
        /\ lqr_flag' = lqr_flag /\ find_counter' = find_counter + 1 /\ i' = i
        /\ taken >= find_counter + 1 /\ find_counter < Fixes
        /\ pc' = IF find_counter + 1 >= Fixes THEN "position" ELSE "depart"
    BY <1>0, <1>2 DEF DepartFind, DepartInv
  <2>2. playground_ind' \in 0 .. MaxPoint /\ playground_ind' >= playground_ind
    BY <1>0, <2>1, FindFacts DEF TypeOK
  <2>3. TypeOK'
    BY <1>0, <1>2, <2>1, <2>2 DEF TypeOK, DepartFind, Reading, Departing
  <2>4. NewestOrFlagged'
    BY <1>0, <1>2 DEF NewestOrFlagged, DepartFind, Reading
  <2>5. DepartInv' /\ CycleInv'
    BY <1>0, <2>1 DEF DepartInv, CycleInv, Departing, Cycle, TypeOK
  <2>6. (stopped => speed = 0 /\ playground_ind > EndPoint)'
    BY <1>0, <2>1, <2>2 DEF TypeOK
  <2> QED BY <2>1, <2>3, <2>4, <2>5, <2>6 DEF DriveInv, StartsAfterFixes
<1> QED BY <1>1, <1>2 DEF Departure

LEMMA ControlInv ==
  ASSUME DriveInv, Control
  PROVE  DriveInv'
<1> USE DriveAssumption DEF At, flags, loops, history
<1>0. /\ TypeOK /\ NewestOrFlagged /\ StartsAfterFixes /\ CycleInv
      /\ stopped => speed = 0 /\ playground_ind > EndPoint
      /\ speed # 0 => playground_ind <= EndPoint + Looks * (Window - 1)
      /\ pc \notin Departing /\ taken >= Fixes
  BY DEF DriveInv, CycleInv, Control, TestFix, Poll, TakePacket, Take, ReadNorth,
     ReadEast, ReadAngle, Look, Read, Find, Steer, SetSpeed, Departing
<1>1. CASE TestFix \/ Poll \/ TakePacket
  <2>1. TypeOK'
    BY <1>0, <1>1 DEF TypeOK, TestFix, Poll, TakePacket, Take, Cycle
  <2>2. NewestOrFlagged'
    BY <1>0, <1>1 DEF NewestOrFlagged, TestFix, Poll, TakePacket, Take
  <2>3. CycleInv' /\ Looks' = Looks
    <3>1. CASE TestFix
      BY <1>0, <3>1 DEF CycleInv, TestFix, Departing, Cycle, TypeOK, Looks
    <3>2. CASE Poll
      BY <1>0, <3>2 DEF CycleInv, Poll, Departing, Cycle, TypeOK, Looks
    <3>3. CASE TakePacket
      BY <1>0, <3>3 DEF CycleInv, TakePacket, Take, Departing, Cycle, TypeOK, Looks
    <3> QED BY <1>1, <3>1, <3>2, <3>3
  <2>4. /\ speed' = speed /\ stopped' = stopped /\ playground_ind' = playground_ind
        /\ pc' \notin Departing /\ taken' >= taken
    BY <1>0, <1>1 DEF TestFix, Poll, TakePacket, Take, Departing, TypeOK
  <2>5. StartsAfterFixes'
    BY <1>0, <2>1, <2>4 DEF StartsAfterFixes, TypeOK
  <2> QED BY <1>0, <2>1, <2>2, <2>3, <2>4, <2>5 DEF DriveInv, DepartInv
<1>2. CASE ReadNorth \/ ReadEast \/ ReadAngle \/ Look
  <2>1. TypeOK'
    BY <1>0, <1>2 DEF TypeOK, ReadNorth, ReadEast, ReadAngle, Look, Read, Reading, Cycle
  <2>2. NewestOrFlagged'
    BY <1>0, <1>2 DEF NewestOrFlagged, ReadNorth, ReadEast, ReadAngle, Look, Read, Reading
  <2>3. /\ speed' = speed /\ stopped' = stopped /\ playground_ind' = playground_ind
        /\ i' = i /\ taken' = taken
        /\ pc \in Cycle \ {"take", "steer"} /\ pc' \in Cycle \ {"take", "steer"}
    BY <1>2 DEF ReadNorth, ReadEast, ReadAngle, Look, Read, Cycle
  <2>4. CycleInv' /\ Looks' = Looks
    BY <1>0, <2>3 DEF CycleInv, Departing, Cycle, Looks
  <2> QED BY <1>0, <2>1, <2>2, <2>3, <2>4 DEF DriveInv, DepartInv, Departing, Cycle,
             StartsAfterFixes
<1>3. CASE Find
  <2>1. /\ playground_ind' \in find_index(playground_ind) /\ pc = "find" /\ pc' = "steer"
        /\ speed' = speed /\ taken' = taken /\ stopped' = stopped /\ i' = i
    BY <1>3 DEF Find
  <2>2. /\ playground_ind' \in 0 .. MaxPoint /\ playground_ind' >= playground_ind
        /\ playground_ind' <= playground_ind + (Window - 1)
    BY <1>0, <2>1, FindFacts DEF TypeOK
  <2>3. TypeOK'
    BY <1>0, <1>3, <2>2 DEF TypeOK, Find, Reading, Cycle
  <2>4. NewestOrFlagged'
    BY <1>0, <1>3 DEF NewestOrFlagged, Find, Reading
  <2>5. CycleInv'
    BY <1>0, <2>1 DEF CycleInv, Departing, Cycle
  <2>6. speed' # 0 => playground_ind' <= EndPoint + Looks' * (Window - 1)
    <3>1. Looks = i /\ Looks' = i + 1 /\ i \in Nat
      BY <1>0, <2>1 DEF Looks, TypeOK
    <3>2. /\ i * (Window - 1) \in Nat
          /\ (i + 1) * (Window - 1) = i * (Window - 1) + (Window - 1)
      BY <3>1, LooksStep
    <3>3. playground_ind \in Nat
      BY <1>0 DEF TypeOK
    <3>4. Looks * (Window - 1) = i * (Window - 1) /\ Looks' * (Window - 1) = i * (Window - 1) + (Window - 1)
      BY <3>1, <3>2
    <3> QED BY <1>0, <2>1, <2>2, <3>2, <3>3, <3>4
  <2>7. stopped' => speed' = 0 /\ playground_ind' > EndPoint
    BY <1>0, <2>1, <2>2 DEF TypeOK
  <2> QED BY <1>0, <2>1, <2>3, <2>4, <2>5, <2>6, <2>7 DEF DriveInv, DepartInv, Departing,
             StartsAfterFixes
<1>4. CASE Steer
  <2>1. /\ playground_ind' = playground_ind /\ pc = "steer" /\ i' = i + 1 /\ i < Cycles
        /\ speed' = speed /\ taken' = taken /\ stopped' = stopped
        /\ pc' = IF i + 1 = Cycles THEN "speed" ELSE "wait"
    BY <1>0, <1>4 DEF Steer, CycleInv, Cycle
  <2>2. TypeOK'
    BY <1>0, <1>4, <2>1 DEF TypeOK, Steer
  <2>3. NewestOrFlagged'
    BY <1>0, <1>4 DEF NewestOrFlagged, Steer
  <2>4. CycleInv' /\ Looks' = Looks
    BY <1>0, <2>1 DEF CycleInv, Departing, Cycle, Looks, TypeOK
  <2> QED BY <1>0, <2>1, <2>2, <2>3, <2>4 DEF DriveInv, DepartInv, Departing, StartsAfterFixes
<1>5. CASE SetSpeed
  <2>1. /\ pc = "speed" /\ pc' = "position" /\ taken' = taken /\ i' = i
        /\ playground_ind' = playground_ind
        /\ speed' = IF playground_ind > EndPoint THEN 0 ELSE 23000
        /\ stopped' = (stopped \/ (speed # 0 /\ speed' = 0))
    BY <1>5 DEF SetSpeed
  <2>2. TypeOK'
    <3>1. stopped' \in BOOLEAN
      BY <2>1
    <3> QED BY <1>0, <1>5, <2>1, <3>1 DEF TypeOK, SetSpeed
  <2>3. NewestOrFlagged'
    BY <1>0, <1>5 DEF NewestOrFlagged, SetSpeed
  <2>4. CycleInv' /\ StartsAfterFixes'
    BY <1>0, <2>1 DEF CycleInv, Departing, Cycle, StartsAfterFixes, TypeOK
  <2>5. Looks' = 0 /\ 0 * (Window - 1) = 0
    BY <2>1 DEF Looks
  <2>6. speed' # 0 => playground_ind' <= EndPoint + Looks' * (Window - 1)
    BY <1>0, <2>1, <2>5 DEF TypeOK
  <2>7. stopped' => speed' = 0 /\ playground_ind' > EndPoint
    <3>1. CASE playground_ind > EndPoint
      BY <2>1, <3>1
    <3>2. CASE ~(playground_ind > EndPoint)
      <4>1. ~stopped /\ speed' # 0
        BY <1>0, <2>1, <3>2
      <4>2. stopped' = (stopped \/ (speed # 0 /\ speed' = 0))
        BY <2>1
      <4>3. ~stopped'
        BY <4>1, <4>2, Zenon
      <4> QED BY <4>3
    <3> QED BY <3>1, <3>2
  <2> QED BY <2>1, <2>2, <2>3, <2>4, <2>6, <2>7 DEF DriveInv, DepartInv, Departing
<1> QED BY <1>1, <1>2, <1>3, <1>4, <1>5 DEF Control

LEMMA StepInv == DriveInv /\ [Next]_vars => DriveInv'
<1> SUFFICES ASSUME DriveInv, [Next]_vars PROVE DriveInv'
  OBVIOUS
<1>1. CASE UNCHANGED vars
  BY <1>1 DEF vars, flags, loops, history, DriveInv, TypeOK, NewestOrFlagged,
     StartsAfterFixes, DepartInv, CycleInv, Looks
<1> QED BY <1>1, UnpackInv, DepartureInv, ControlInv DEF Next, main

(* What the control loop guarantees whatever packets come and whenever:    *)
(* no packet is overlooked, and a control value computed from parts of two *)
(* packets is always computed again.                                       *)
THEOREM NewestUsed == Spec => []NewestOrFlagged
<1>1. DriveInv => NewestOrFlagged
  BY DEF DriveInv
<1> QED BY <1>1, InitInv, StepInv, PTL DEF Spec

(* The motor is started after Fixes + Cycles packets, never before.        *)
THEOREM StartIsLate == Spec => []StartsAfterFixes
<1>1. DriveInv => StartsAfterFixes
  BY DEF DriveInv
<1> QED BY <1>1, InitInv, StepInv, PTL DEF Spec

(* The end of the path stops the car for good.                             *)
THEOREM StopHolds == Spec => []StopIsFinal
<1>1. DriveInv => StopIsFinal
  BY DEF DriveInv, StopIsFinal
<1> QED BY <1>1, InitInv, StepInv, PTL DEF Spec

(* How far past the end the nearest point can be while the motor turns.    *)
THEOREM OverrunBounded == Spec => []Overrun
<1>1. DriveInv => Overrun
  <2> SUFFICES ASSUME DriveInv, speed # 0
               PROVE  playground_ind <= EndPoint + Cycles * (Window - 1)
    BY DEF Overrun
  <2>1. /\ playground_ind \in Nat /\ Looks \in 0 .. Cycles
        /\ playground_ind <= EndPoint + Looks * (Window - 1)
    BY DriveAssumption DEF DriveInv, TypeOK, Looks, CycleInv, Cycle
  <2>2. /\ Looks * (Window - 1) \in Nat /\ Cycles * (Window - 1) \in Nat
        /\ Looks * (Window - 1) <= Cycles * (Window - 1)
    BY <2>1, DriveAssumption
  <2> QED BY <2>1, <2>2, DriveAssumption
<1> QED BY <1>1, InitInv, StepInv, PTL DEF Spec

(* The inductive invariant of the control loop, for every window, path and *)
(* number of cycles.                                                       *)
THEOREM DriveKept == Spec => []DriveInv
BY InitInv, StepInv, PTL DEF Spec
=============================================================================
