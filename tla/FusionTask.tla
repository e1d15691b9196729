----------------------------- MODULE FusionTask -----------------------------
(***************************************************************************)
(* fusion_task of proc_mcu with the interrupt that gives it positions.     *)
(* nmea_gnrmc_analysis, called from the interrupt of the GPS's DMA, writes *)
(* gps_rmc.status, the ring temp_stable of the last positions and the flag *)
(* gps_valid_flag of the two filters; the task waits for a position that   *)
(* stands still and then sends one packet to ctrl_mcu for every 39 ms.     *)
(*                                                                         *)
(* The task has the highest priority, so between two of its delays only    *)
(* interrupts stop it, and it computes for less than the 100 ms from one   *)
(* sentence of the GPS to the next.  But the sentences come in blocks of   *)
(* the DMA: at most Burst of those with a position, which are about as     *)
(* long as a block, are analysed in that time.                             *)
(*                                                                         *)
(* The arithmetic of the filters is left out: what is kept of it is which  *)
(* position a filter is given and how far it trusts it (r_pos).            *)
(***************************************************************************)
EXTENDS Integers, FiniteSets

CONSTANTS
  Slots,        (* STABLE_NUM = 30.                                        *)
  SameMin,      (* same_counter > 20.                                      *)
  Positions,    (* Pairs <<latitude, longitude>>, none with longitude 0.   *)
  Burst         (* Positions of the GPS between two delays of the task.     *)

NoPosition == <<0, 0>>

ASSUME FusionAssumption ==
  /\ Slots \in Nat \ {0}
  /\ SameMin \in Nat
  /\ Positions \subseteq Nat \X (Nat \ {0})
  /\ Burst \in Nat

Slot == 0 .. Slots - 1
Axis == {"north", "east"}

VARIABLES
  \* written by the interrupt: gps_rmc.status, the last position (last_lat,
  \* last_lon, neu), temp_stable, sum_counter, and gps_valid_flag
  status, last, temp_stable, sum_counter, gps_valid_flag,
  \* fusion_task: where it is, and the variables of its scan; kept is
  \* temp_stable[i] where the compiler keeps it in a register
  pc, stable_flag, i, j, same_counter, kept,
  \* kalman_update: whose turn it is
  axis,
  \* history: positions since the last delay; packets sent to ctrl_mcu since
  \* the position was lost; whether a newer position came since one was passed
  \* to the filter, and how often this was told to trust the one passed
  sentences, late, newer, weighed

gps     == <<status, last, temp_stable, sum_counter>>
scan    == <<stable_flag, i, j, same_counter, kept>>
filter  == <<axis, weighed>>
vars    == <<gps, gps_valid_flag, pc, scan, filter, newer, sentences, late>>

Init ==
  /\ status = "none" /\ last = NoPosition
  /\ temp_stable = [k \in Slot |-> NoPosition] /\ sum_counter = 0
  /\ gps_valid_flag = [a \in Axis |-> 0]
  /\ pc = "status"
  /\ stable_flag = FALSE /\ i = 0 /\ j = 1 /\ same_counter = 0 /\ kept = NoPosition
  /\ axis = "north"
  /\ sentences = 0 /\ late = 0
  /\ newer = [a \in Axis |-> FALSE]
  /\ weighed = [a \in Axis |-> 0]

-----------------------------------------------------------------------------
Waiting == pc \in {"delayV", "rest", "delay"}

Counted ==
  /\ Waiting \/ sentences < Burst
  /\ sentences' = IF Waiting THEN 0 ELSE sentences + 1

(* A sentence without a position: status = 'V', and nothing else.          *)
Lost ==
  /\ status' = "V"
  /\ UNCHANGED <<last, temp_stable, sum_counter, gps_valid_flag, pc, scan, filter, newer,
                 sentences, late>>

Coordinate(position, a) == IF a = "north" THEN position[1] ELSE position[2]

(* Mutants of Fix: the ring is not advanced; it has no end.                *)
FixNoAdvance(position) ==
  /\ Counted
  /\ status' = "A"
  /\ last' = position
  /\ gps_valid_flag' =
       [a \in Axis |-> IF Coordinate(position, a) # Coordinate(last, a) THEN 1 ELSE 2]
  /\ temp_stable' = [temp_stable EXCEPT ![sum_counter] = position]
  /\ newer' = [a \in Axis |-> TRUE]
  /\ late' = 0
  /\ UNCHANGED <<sum_counter, pc, scan, filter>>

FixNoWrap(position) ==
  /\ Counted
  /\ status' = "A"
  /\ last' = position
  /\ gps_valid_flag' =
       [a \in Axis |-> IF Coordinate(position, a) # Coordinate(last, a) THEN 1 ELSE 2]
  /\ temp_stable' = [temp_stable EXCEPT ![sum_counter] = position]
  /\ sum_counter' = sum_counter + 1
  /\ newer' = [a \in Axis |-> TRUE]
  /\ late' = 0
  /\ UNCHANGED <<pc, scan, filter>>

(* A sentence with a position.  A coordinate that has not changed is       *)
(* marked 2, and trusted less.                                             *)
Fix(position) ==
  /\ Counted
  /\ status' = "A"
  /\ last' = position
  /\ gps_valid_flag' =
       [a \in Axis |-> IF Coordinate(position, a) # Coordinate(last, a) THEN 1 ELSE 2]
  /\ temp_stable' = [temp_stable EXCEPT ![sum_counter] = position]
  /\ sum_counter' = (sum_counter + 1) % Slots
  /\ newer' = [a \in Axis |-> TRUE]
  /\ late' = 0
  /\ UNCHANGED <<pc, scan, filter>>

-----------------------------------------------------------------------------
At(here, next) == pc = here /\ pc' = next

Row(row) ==
  /\ i' = row
  /\ j' = row + 1
  /\ same_counter' = 0
  /\ kept' = IF row \in Slot THEN temp_stable[row] ELSE NoPosition

(* The loop at status_V: a zero packet for every 20 ms without a position. *)
StatusV ==
  /\ \/ status = "V" /\ At("status", "delayV") /\ UNCHANGED scan
     \/ status # "V" /\ At("status", "scan") /\ stable_flag' = FALSE /\ Row(0)
  /\ UNCHANGED <<gps, gps_valid_flag, filter, newer, sentences, late>>

(* The packet is sent with uart3_sendbyte, which is the line to the GPS:   *)
(* ctrl_mcu, on UART4, gets nothing.                                       *)
SendZero ==
  /\ At("delayV", "status")
  /\ sentences' = 0
  /\ UNCHANGED <<gps, gps_valid_flag, scan, filter, newer, late>>

(* One comparison of the scan.  temp_stable is not volatile: its element i *)
(* may be the one read when the row began.                                 *)
Compare ==
  /\ pc = "scan" /\ j < Slots /\ temp_stable[j][2] # 0
  /\ j' = j + 1
  /\ \E mine \in {kept, temp_stable[i]} :
       same_counter' = IF mine = temp_stable[j] THEN same_counter + 1 ELSE same_counter
  /\ UNCHANGED <<gps, gps_valid_flag, pc, stable_flag, i, kept, filter, newer, sentences, late>>

EndOfRow == pc = "scan" /\ (j < Slots => temp_stable[j][2] = 0)

Found ==
  /\ EndOfRow
  /\ same_counter > SameMin
  /\ pc' = "rest"
  /\ stable_flag' = TRUE
  /\ UNCHANGED <<gps, gps_valid_flag, i, j, same_counter, kept, filter, newer, sentences, late>>

(* Mutant: the counter goes on from row to row.                            *)
NextRowNoReset ==
  /\ EndOfRow
  /\ same_counter <= SameMin
  /\ pc' = IF i + 1 < Slots THEN "scan" ELSE "rest"
  /\ i' = i + 1 /\ j' = i + 2
  /\ kept' = IF i + 1 \in Slot THEN temp_stable[i + 1] ELSE NoPosition
  /\ UNCHANGED <<gps, gps_valid_flag, stable_flag, same_counter, filter, newer, sentences, late>>

NextRow ==
  /\ EndOfRow
  /\ same_counter <= SameMin
  /\ pc' = IF i + 1 < Slots THEN "scan" ELSE "rest"
  /\ Row(i + 1)
  /\ UNCHANGED <<gps, gps_valid_flag, stable_flag, filter, newer, sentences, late>>

(* delayms(200), which the scan that found the position ends with too; then *)
(* kalman_config_distance, or the next scan.                               *)
Rest ==
  /\ \/ stable_flag /\ At("rest", "check") /\ UNCHANGED scan
     \/ ~stable_flag /\ At("rest", "scan") /\ Row(0) /\ UNCHANGED stable_flag
  /\ sentences' = 0
  /\ UNCHANGED <<gps, gps_valid_flag, filter, newer, late>>

-----------------------------------------------------------------------------
(* The main loop.  Mutant: the status is not looked at again.              *)
CheckNothing ==
  /\ At("check", "pass")
  /\ axis' = "north"
  /\ UNCHANGED <<gps, gps_valid_flag, scan, weighed, newer, sentences, late>>

CheckStatus ==
  /\ At("check", IF status = "V" THEN "status" ELSE "pass")
  /\ axis' = "north"
  /\ UNCHANGED <<gps, gps_valid_flag, scan, weighed, newer, sentences, late>>

(* kalman_update(&kalman_distance_north, neu.north_distance, ...), and     *)
(* then the same for east: the position is passed by value, ...            *)
Pass ==
  /\ At("pass", "flag")
  /\ newer' = [newer EXCEPT ![axis] = FALSE]
  /\ weighed' = [weighed EXCEPT ![axis] = IF newer[axis] THEN 0 ELSE @]
  /\ UNCHANGED <<gps, gps_valid_flag, scan, axis, sentences, late>>

(* ... the flag is read, ...                                               *)
ReadFlag ==
  /\ At("flag", "reset")
  /\ weighed' = [weighed EXCEPT ![axis] = IF gps_valid_flag[axis] = 1 THEN @ + 1 ELSE @]
  /\ UNCHANGED <<gps, gps_valid_flag, scan, axis, newer, sentences, late>>

AfterUpdate ==
  /\ pc' = IF axis = "north" THEN "pass" ELSE "send"
  /\ axis' = "east"
  /\ UNCHANGED <<gps, scan, weighed, newer, sentences, late>>

(* Mutant: the flag is left as it is.                                      *)
ResetNothing ==
  /\ pc = "reset"
  /\ UNCHANGED gps_valid_flag
  /\ AfterUpdate

(* ... and reset.                                                          *)
ResetFlag ==
  /\ pc = "reset"
  /\ gps_valid_flag' = [gps_valid_flag EXCEPT ![axis] = 0]
  /\ AfterUpdate

(* The packet, sent with uart4_sendbyte to ctrl_mcu.                       *)
SendPosition ==
  /\ At("send", "delay")
  /\ late' = IF status = "V" THEN late + 1 ELSE 0
  /\ UNCHANGED <<gps, gps_valid_flag, scan, filter, newer, sentences>>

Delay ==
  /\ At("delay", "check")
  /\ sentences' = 0
  /\ UNCHANGED <<gps, gps_valid_flag, scan, filter, newer, late>>

-----------------------------------------------------------------------------
fusion_task ==
  \/ StatusV \/ SendZero
  \/ Compare \/ Found \/ NextRow \/ Rest
  \/ CheckStatus \/ Pass \/ ReadFlag \/ ResetFlag
  \/ SendPosition \/ Delay

Next == fusion_task \/ Lost \/ \E position \in Positions : Fix(position)

(* The scheduler runs the task of the highest priority when its delay is   *)
(* over; the GPS goes on sending the position while it has one.  (Without  *)
(* one it goes on too, but nothing changes.)                               *)
Fairness ==
  /\ WF_vars(fusion_task)
  /\ WF_vars(status = "A" /\ \E position \in Positions : Fix(position))

Spec == Init /\ [][Next]_vars /\ Fairness

-----------------------------------------------------------------------------
(* The variables have their types; the scan stays within the ring.         *)
TypeOK ==
  /\ status \in {"none", "V", "A"}
  /\ last \in Positions \cup {NoPosition}
  /\ temp_stable \in [Slot -> Positions \cup {NoPosition}]
  /\ sum_counter \in Slot
  /\ gps_valid_flag \in [Axis -> 0 .. 2]
  /\ pc \in {"status", "delayV", "scan", "rest", "check", "pass", "flag", "reset", "send", "delay"}
  /\ stable_flag \in BOOLEAN
  /\ i \in 0 .. Slots /\ j \in 1 .. Slots + 1 /\ same_counter \in 0 .. Slots - 1
  /\ pc = "scan" => i \in Slot /\ j <= Slots /\ same_counter < j - i
  /\ kept \in Positions \cup {NoPosition}
  /\ axis \in Axis
  /\ newer \in [Axis -> BOOLEAN]
  /\ weighed \in [Axis -> Nat]
  /\ sentences \in 0 .. Burst
  /\ late \in Nat

(* The slots of the ring with a position.                                  *)
Holding(position) == {k \in Slot : temp_stable[k] = position}

(* The scan takes the car for standing still only if SameMin + 2 of the    *)
(* last positions are one and the same.  If the interrupt put positions    *)
(* into the ring since the last delay, it makes do with half as many, less *)
(* half of one for every further position.                                 *)
Enough ==
  IF sentences = 0 THEN SameMin + 2 ELSE (SameMin + 4 - sentences) \div 2

StandsStill ==
  [][Found => \E p \in Positions : Cardinality(Holding(p)) >= Enough]_vars

(* After the GPS has lost the position no more than the one packet that    *)
(* was being prepared is sent.                                             *)
OneLatePacket == status = "V" => late <= 1

(* A filter is never told more than twice to trust the same position: once *)
(* with its own flag, and once with that of the next one, when that comes  *)
(* between the passing of the position and the reading of the flag.        *)
WeighedTwice == \A a \in Axis : weighed[a] <= 2

(* Why OneLatePacket holds: a packet that is late is the last of its cycle, *)
(* and the next look at the status finds it out.                           *)
LateInv ==
  /\ status # "V" => late = 0
  /\ late > 0 => late = 1 /\ pc \in {"delay", "check", "status", "delayV"}

(* Why WeighedTwice holds: with no newer position the flag of a filter is   *)
(* that of the position it was passed, and is 1 for one update only.       *)
Updating(a) == axis = a /\ pc \in {"flag", "reset"}

WeighedInv == \A a \in Axis :
  /\ ~Updating(a) =>
       IF newer[a] THEN weighed[a] <= 2 ELSE gps_valid_flag[a] # 1 /\ weighed[a] <= 1
  /\ Updating(a) /\ pc = "flag" =>
       weighed[a] <= 1 /\ (~newer[a] /\ gps_valid_flag[a] = 1 => weighed[a] = 0)
  /\ Updating(a) /\ pc = "reset" => weighed[a] <= IF newer[a] THEN 2 ELSE 1

(* Why StandsStill holds: what same_counter has counted is still in the    *)
(* ring, but for the slots that the interrupt has overwritten since.  If   *)
(* the row's own is one of them, the slots counted are equal to what it    *)
(* held or to what it holds now.  Age(k): positions since slot k's.        *)
Seen(position) == {k \in i + 1 .. j - 1 : temp_stable[k] = position}

Age(k) == IF k < sum_counter THEN sum_counter - 1 - k ELSE sum_counter - 1 - k + Slots

ScanInv == pc = "scan" =>
  /\ \A k \in i + 1 .. j - 1 : temp_stable[k] \in Positions
  /\ same_counter > 0 => kept \in Positions \/ temp_stable[i] \in Positions
  /\ kept = temp_stable[i] => same_counter <= Cardinality(Seen(kept)) + sentences
  /\ kept # temp_stable[i] =>
       /\ Age(i) < sentences
       /\ same_counter + 1 <=
            Cardinality(Seen(kept)) + Cardinality(Seen(temp_stable[i])) + sentences

(* If the car stands still and the GPS sees it, ctrl_mcu gets packets.     *)
SeenInTheEnd ==
  \A p \in Positions : <>[](last = p /\ status = "A") => []<>(pc = "send")
=============================================================================
