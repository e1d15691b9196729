----------------------------- MODULE CarControl -----------------------------
(***************************************************************************)
(* The two processors together: fusion_task of proc_mcu, the line from its *)
(* UART4 to UART6 of ctrl_mcu, and the control loop of ctrl_mcu.           *)
(*                                                                         *)
(* The line keeps a packet back: it is handed to unpacking_proc_to_control *)
(* when the first word of the next one has come (see ProcCtrlLink), which  *)
(* is before that one is complete.                                         *)
(***************************************************************************)
EXTENDS Integers, Sequences

CONSTANTS
  Slots, SameMin, Positions, Burst,             (* Of FusionTask.          *)
  Window, Cycles, Fixes, EndPoint, MaxPoint     (* Of CtrlDrive.           *)

VARIABLES
  \* proc_mcu
  status, last, temp_stable, sum_counter, gps_valid_flag, task, stable_flag,
  row, j, same_counter, kept, axis, sentences, late, newer, weighed,
  \* UART4 to UART6: whether the packets on it hold a position
  wire,
  \* ctrl_mcu
  lqr_flag, fix, loop, find_counter, i, playground_ind, speed, seen, taken, stopped

Proc == INSTANCE FusionTask WITH pc <- task, i <- row
Ctrl == INSTANCE CtrlDrive WITH pc <- loop

proc == <<status, last, temp_stable, sum_counter, gps_valid_flag, task, stable_flag,
          row, j, same_counter, kept, axis, sentences, late, newer, weighed>>
ctrl == <<lqr_flag, fix, loop, find_counter, i, playground_ind, speed, seen, taken, stopped>>
vars == <<proc, wire, ctrl>>

Init == Proc!Init /\ Ctrl!Init /\ wire = <<>>

-----------------------------------------------------------------------------
Gps ==
  /\ Proc!Lost \/ \E position \in Positions : Proc!Fix(position)
  /\ UNCHANGED <<wire, ctrl>>

uart4_sendbyte(packet) ==
  /\ Len(wire) < 2
  /\ wire' = Append(wire, packet)

(* The zero packet goes out on UART3, to the GPS.                          *)
SendZero ==
  /\ Proc!SendZero
  /\ UNCHANGED <<wire, ctrl>>

(* Mutant: the packet is prepared and not sent.                            *)
SendNothing ==
  /\ Proc!SendPosition
  /\ UNCHANGED <<wire, ctrl>>

SendPosition ==
  /\ Proc!SendPosition
  /\ uart4_sendbyte(TRUE)
  /\ UNCHANGED ctrl

Fuse ==
  /\ \/ Proc!StatusV
     \/ Proc!Compare \/ Proc!Found \/ Proc!NextRow \/ Proc!Rest
     \/ Proc!CheckStatus \/ Proc!Pass \/ Proc!ReadFlag \/ Proc!ResetFlag
     \/ Proc!Delay
  /\ UNCHANGED <<wire, ctrl>>

fusion_task == SendZero \/ SendPosition \/ Fuse

Deliver ==
  /\ Len(wire) = 2
  /\ Ctrl!Unpack(Head(wire))
  /\ wire' = Tail(wire)
  /\ UNCHANGED proc

main ==
  /\ Ctrl!main
  /\ UNCHANGED <<proc, wire>>

Next == Gps \/ fusion_task \/ Deliver \/ main

Fairness ==
  /\ WF_vars(status = "A" /\ Gps)
  /\ WF_vars(fusion_task)
  /\ WF_vars(Deliver)
  /\ WF_vars(main)

Spec == Init /\ [][Next]_vars /\ Fairness

-----------------------------------------------------------------------------
(* If the car is put down where the GPS sees it, it starts: a position     *)
(* that stands still reaches the control loop often enough to get the      *)
(* motor started, or the car is at the end of its path.                    *)
StartsInTheEnd ==
  \A p \in Positions :
    <>[](last = p /\ status = "A") => <>(speed # 0 \/ playground_ind > EndPoint)

(* "Ensure that the current positioning information is valid": when the    *)
(* GPS has lost the position for good, the control loop gets to know.      *)
LossIsNoticed == <>[](status = "V") => <>[](~fix)
=============================================================================
