------------------------------ MODULE CtrlDrive ------------------------------
(***************************************************************************)
(* The control loop of ctrl_mcu: main() after its initialisation, and the  *)
(* interrupt that gives it packets.  unpacking_proc_to_control, called     *)
(* from the DMA interrupt, writes proc_data and sets lqr_flag; main()      *)
(* polls the flag, clears it and reads proc_data field by field, so that a *)
(* packet may come between any two of its statements.                      *)
(*                                                                         *)
(* The values of a packet are abstracted to whether it holds a position    *)
(* (distance_east # 0) and to the age of what main() has read of it; the   *)
(* car's movement to the reference point that find_index takes.            *)
(***************************************************************************)
EXTENDS Integers

CONSTANTS
  Window,       (* Points find_index looks at, from the last one on: 10.   *)
  Cycles,       (* Control cycles for one check of the speed: 10.          *)
  Fixes,        (* Packets of the departure loop: find_counter > 3.        *)
  EndPoint,     (* INDEX_NUM - 10 = 690.                                   *)
  MaxPoint      (* Bound: the reference points of a behaviour.             *)

ASSUME DriveAssumption ==
  /\ Window \in Nat \ {0}
  /\ Cycles \in Nat \ {0}
  /\ Fixes \in Nat \ {0}
  /\ EndPoint \in Nat
  /\ MaxPoint \in Nat /\ MaxPoint > EndPoint

VARIABLES
  \* written by the interrupt: lqr_flag, and whether distance_east # 0
  lqr_flag, fix,
  \* main(): the statement it is at, find_counter, the loop variable i,
  \* playground_ind, and the speed last sent to the driver of the motor
  pc, find_counter, i, playground_ind, speed,
  \* history: what the control values in hand were computed from: nothing
  \* yet, the newest packet alone, or also an older one
  seen,
  \* history: packets taken, up to the first that may move the car, and
  \* whether the motor was stopped after it had been started
  taken, stopped

flags   == <<lqr_flag, fix>>
loops   == <<find_counter, i>>
history == <<seen, taken, stopped>>
vars    == <<flags, pc, loops, playground_ind, speed, history>>

Init ==
  /\ lqr_flag = 0
  /\ fix = FALSE
  /\ pc = "depart"
  /\ find_counter = 0
  /\ i = 0
  /\ playground_ind = 0
  /\ speed = 0
  /\ seen = "nothing"
  /\ taken = 0
  /\ stopped = FALSE

-----------------------------------------------------------------------------
(* unpacking_proc_to_control with a checksum that matches.  What main()    *)
(* has in hand is no longer the newest.                                    *)
Unpack(valid) ==
  /\ lqr_flag' = 1
  /\ fix' = valid
  /\ seen' = IF seen = "nothing" THEN "nothing" ELSE "older"
  /\ UNCHANGED <<pc, loops, playground_ind, speed, taken, stopped>>

-----------------------------------------------------------------------------
At(here, next) == pc = here /\ pc' = next

(* A statement of main() that reads proc_data.                             *)
Reading == seen' = IF seen = "nothing" THEN "newest" ELSE seen

Moved(ind) == {n \in ind .. ind + Window - 1 : n <= MaxPoint}

(* Mutant: a window around the last point.                                 *)
MovedBack(ind) == {n \in ind - 1 .. ind + Window - 1 : n \in 0 .. MaxPoint}

(* The points find_index can return.                                       *)
find_index(ind) == Moved(ind)

(* Departure: the test of distance_east, and then of lqr_flag.             *)
TestPosition ==
  /\ At("depart", IF fix THEN "departFlag" ELSE "depart")
  /\ UNCHANGED <<flags, loops, playground_ind, speed, history>>

TestFlag ==
  /\ At("departFlag", IF lqr_flag = 1 THEN "departTake" ELSE "depart")
  /\ UNCHANGED <<flags, loops, playground_ind, speed, history>>

Take(here, next) ==
  /\ At(here, next)
  /\ lqr_flag' = 0
  /\ seen' = "nothing"
  /\ taken' = IF taken < Fixes + Cycles THEN taken + 1 ELSE taken
  /\ UNCHANGED <<fix, loops, playground_ind, speed, stopped>>

DepartTake == Take("departTake", "departLook")

(* find_index computes a distance from proc_data for every point, so a     *)
(* packet may come while it does: it begins here and ends below.           *)
DepartLook ==
  /\ At("departLook", "departFind")
  /\ Reading
  /\ UNCHANGED <<flags, loops, playground_ind, speed, taken, stopped>>

(* Mutant: the first packet is enough.                                     *)
DepartFindOnce ==
  /\ At("departFind", "position")
  /\ playground_ind' \in find_index(playground_ind)
  /\ Reading
  /\ find_counter' = find_counter + 1
  /\ UNCHANGED <<flags, i, speed, taken, stopped>>

DepartFind ==
  /\ At("departFind", IF find_counter + 1 >= Fixes THEN "position" ELSE "depart")
  /\ playground_ind' \in find_index(playground_ind)
  /\ Reading
  /\ find_counter' = find_counter + 1
  /\ UNCHANGED <<flags, i, speed, taken, stopped>>

-----------------------------------------------------------------------------
(* The control loop: distance_east is tested before ten control cycles.    *)
(* Mutant: the loop variable is not reset.                                 *)
TestFixNoReset ==
  /\ fix
  /\ At("position", "wait")
  /\ UNCHANGED <<flags, loops, playground_ind, speed, history>>

TestFix ==
  /\ fix
  /\ At("position", "wait")
  /\ i' = 0
  /\ UNCHANGED <<flags, find_counter, playground_ind, speed, history>>

Poll ==
  /\ lqr_flag = 1
  /\ At("wait", "take")
  /\ UNCHANGED <<flags, loops, playground_ind, speed, history>>

TakePacket == Take("take", "north")

Read(here, next) ==
  /\ At(here, next)
  /\ Reading
  /\ UNCHANGED <<flags, loops, playground_ind, speed, taken, stopped>>

ReadNorth == Read("north", "east")
ReadEast  == Read("east", "angle")
ReadAngle == Read("angle", "look")
Look      == Read("look", "find")

Find ==
  /\ At("find", "steer")
  /\ playground_ind' \in find_index(playground_ind)
  /\ Reading
  /\ UNCHANGED <<flags, loops, speed, taken, stopped>>

(* Mutant: the flag is cleared when the packet has been dealt with.        *)
SteerThenClear ==
  /\ At("steer", IF i + 1 = Cycles THEN "speed" ELSE "wait")
  /\ i' = i + 1
  /\ lqr_flag' = 0
  /\ UNCHANGED <<fix, find_counter, playground_ind, speed, history>>

(* lqr_control and the write of its angle to TIM3->CCR1.                   *)
Steer ==
  /\ At("steer", IF i + 1 = Cycles THEN "speed" ELSE "wait")
  /\ i' = i + 1
  /\ UNCHANGED <<flags, find_counter, playground_ind, speed, history>>

(* Mutant: the end is the one point, which find_index may jump over.       *)
SetSpeedAtPoint ==
  /\ At("speed", "position")
  /\ speed' = IF playground_ind = EndPoint + 1 THEN 0 ELSE 23000
  /\ stopped' = (stopped \/ (speed # 0 /\ speed' = 0))
  /\ UNCHANGED <<flags, loops, playground_ind, seen, taken>>

SetSpeed ==
  /\ At("speed", "position")
  /\ speed' = IF playground_ind > EndPoint THEN 0 ELSE 23000
  /\ stopped' = (stopped \/ (speed # 0 /\ speed' = 0))
  /\ UNCHANGED <<flags, loops, playground_ind, seen, taken>>

Departure == TestPosition \/ TestFlag \/ DepartTake \/ DepartLook \/ DepartFind

Control ==
  \/ TestFix \/ Poll \/ TakePacket
  \/ ReadNorth \/ ReadEast \/ ReadAngle \/ Look \/ Find
  \/ Steer \/ SetSpeed

main == Departure \/ Control

Next == main \/ \E valid \in BOOLEAN : Unpack(valid)

(* main() never waits for anything but the flag and a position, and the    *)
(* loop that tests distance_east runs many times between two packets: if   *)
(* positions keep coming it sees one.                                      *)
Fairness ==
  /\ WF_vars(main)
  /\ SF_vars(TestFix)
  /\ WF_vars(Unpack(TRUE))

Spec == Init /\ [][Next]_vars /\ Fairness

-----------------------------------------------------------------------------
Departing == {"depart", "departFlag", "departTake", "departLook", "departFind"}
Cycle     == {"take", "north", "east", "angle", "look", "find", "steer"}

(* The variables have their types; the counters stay within their loops.   *)
TypeOK ==
  /\ lqr_flag \in {0, 1}
  /\ fix \in BOOLEAN
  /\ pc \in Departing \cup {"position", "wait", "speed"} \cup Cycle
  /\ find_counter \in 0 .. Fixes
  /\ i \in 0 .. Cycles
  /\ playground_ind \in 0 .. MaxPoint
  /\ speed \in {0, 23000}
  /\ seen \in {"nothing", "newest", "older"}
  /\ taken \in 0 .. Fixes + Cycles
  /\ stopped \in BOOLEAN

(* No packet is overlooked and no mixture of two is left standing: while   *)
(* lqr_flag is clear, everything main() has in hand comes from the newest  *)
(* packet alone.  A cycle that reads parts of two packets therefore runs   *)
(* with the flag set, and is followed by one that does not.                *)
NewestOrFlagged == lqr_flag = 0 => seen # "older"

(* The motor is started no earlier than Fixes packets of the departure and *)
(* Cycles control cycles, each with a packet of its own.                   *)
StartsAfterFixes == speed # 0 => taken >= Fixes + Cycles

(* Once the car was stopped at the end of the path it stays stopped: the   *)
(* nearest point never moves back.                                         *)
StopIsFinal == stopped => speed = 0

(* How far the nearest point can lie behind the end while the motor turns: *)
(* the end is only looked for once in Cycles cycles.  For ten cycles of    *)
(* ten points each this is point 780 of a path of 701.                     *)
Overrun ==
  speed # 0 => playground_ind <= EndPoint + Cycles * (Window - 1)

(* The inductive invariant behind the four.  Looks: how often find_index   *)
(* was called since the speed was set.                                     *)
Looks == IF pc = "position" THEN 0 ELSE IF pc = "steer" THEN i + 1 ELSE i

DepartInv ==
  pc \in Departing =>
    /\ find_counter < Fixes
    /\ speed = 0
    /\ taken >= find_counter + (IF pc \in {"departLook", "departFind"} THEN 1 ELSE 0)

CycleInv ==
  /\ pc \notin Departing => taken >= Fixes
  /\ pc \in {"wait", "take"} => i < Cycles /\ taken >= Fixes + i
  /\ pc \in Cycle \ {"take"} => i < Cycles /\ taken >= Fixes + i + 1
  /\ pc = "speed" => i = Cycles /\ taken >= Fixes + Cycles

DriveInv ==
  /\ TypeOK
  /\ NewestOrFlagged
  /\ StartsAfterFixes
  /\ DepartInv
  /\ CycleInv
  /\ stopped => speed = 0 /\ playground_ind > EndPoint
  /\ speed # 0 => playground_ind <= EndPoint + Looks * (Window - 1)

(* A car that has reached the end is stopped, if positions keep coming.    *)
StopsAtEnd ==
  pc \notin Departing /\ playground_ind > EndPoint ~> speed = 0
=============================================================================
