---------------------------- MODULE SensorAverage ----------------------------
(***************************************************************************)
(* small_packets_sum.  The interrupt of read_mcu's line adds the forward   *)
(* acceleration of every packet to it and counts the packet;               *)
(* sensor_unit_conversion, which fusion_task calls in every cycle of its   *)
(* main loop and never while it waits for a position, takes the mean and   *)
(* clears both.                                                            *)
(*                                                                         *)
(* A sample is abstracted to 1, so ay is the number of samples in the sum. *)
(* The program is built with -O2 and nothing here is volatile: the         *)
(* quotient never gets to memory, where it would be overwritten with 0     *)
(* before it is read, and the two 0 may be stored in either order.         *)
(***************************************************************************)
EXTENDS Integers

CONSTANTS
  ShortMax,     (* Largest short: 32767.                                   *)
  Burst,        (* Packets that come during a call of the function.        *)
  MaxPackets    (* Bound: packets between two calls.                       *)

ASSUME SensorAssumption ==
  /\ ShortMax \in Nat /\ Burst \in Nat /\ MaxPackets \in Nat

VARIABLES
  \* small_packets_sum
  ay, num,
  \* sensor_unit_conversion: where it is, the divisor and the dividend it
  \* has read, and which of ay and num are still to be cleared
  pc, divisor, dividend, pending,
  \* history: packets since num was cleared, and during the present call
  received, burst

vars == <<ay, num, pc, divisor, dividend, pending, received, burst>>

Init ==
  /\ ay = 0 /\ num = 0
  /\ pc = "away" /\ divisor = 0 /\ dividend = 0 /\ pending = {}
  /\ received = 0 /\ burst = 0

Incremented(short) == IF short = ShortMax THEN -ShortMax - 1 ELSE short + 1

(* The end of unpacking_fixed_length_data.                                 *)
Add ==
  /\ IF pc = "away" THEN received < MaxPackets ELSE burst < Burst
  /\ ay' = ay + 1
  /\ num' = Incremented(num)
  /\ received' = received + 1
  /\ burst' = IF pc = "away" THEN 0 ELSE burst + 1
  /\ UNCHANGED <<pc, divisor, dividend, pending>>

(* if (small_packets_sum.num == 0): the mean is then 0, whatever ay is.    *)
Test ==
  /\ pc = "away"
  /\ divisor' = num
  /\ dividend' = 0
  /\ pc' = IF num = 0 THEN "clear" ELSE "divide"
  /\ pending' = {"ay", "num"}
  /\ UNCHANGED <<ay, num, received, burst>>

Divide ==
  /\ pc = "divide"
  /\ dividend' = ay
  /\ pc' = "clear"
  /\ UNCHANGED <<ay, num, divisor, pending, received, burst>>

(* Mutant: only the sum is cleared.                                        *)
ClearSumOnly ==
  /\ pc = "clear"
  /\ ay' = 0
  /\ pending' = {}
  /\ UNCHANGED <<num, pc, divisor, dividend, received, burst>>

Clear ==
  /\ pc = "clear"
  /\ \/ "num" \in pending /\ num' = 0 /\ received' = 0 /\ pending' = pending \ {"num"} /\ UNCHANGED ay
     \/ "ay" \in pending /\ ay' = 0 /\ pending' = pending \ {"ay"} /\ UNCHANGED <<num, received>>
  /\ UNCHANGED <<pc, divisor, dividend, burst>>

Return ==
  /\ pc = "clear" /\ pending = {}
  /\ pc' = "away"
  /\ burst' = 0
  /\ UNCHANGED <<ay, num, divisor, dividend, pending, received>>

sensor_unit_conversion == Test \/ Divide \/ Clear \/ Return

Next == Add \/ sensor_unit_conversion

Spec == Init /\ [][Next]_vars

-----------------------------------------------------------------------------
(* A mean is taken over the samples that were counted, but for those that  *)
(* come during this call and the one before: no cycle adds to the error.   *)
MeanOfCounted ==
  pc = "clear" /\ divisor # 0 =>
    dividend - divisor \in -Burst .. 2 * Burst

(* num is what its declaration says: the number of packets received.       *)
NumIsReceived == num = received

(* Why, while num does not overflow: sum and count differ by no more than  *)
(* the packets of one call, those that came between the two 0.             *)
BalanceInv ==
  /\ ay \in Nat /\ num \in Nat /\ burst \in 0 .. Burst
  /\ NumIsReceived /\ received <= MaxPackets + Burst + burst
  /\ pc = "away" => ay - num \in -Burst .. Burst /\ pending = {} /\ burst = 0
  /\ pc = "divide" =>
       /\ pending = {"ay", "num"} /\ divisor = num - burst
       /\ ay - num \in -Burst .. Burst
  /\ pc = "clear" =>
       /\ pending \subseteq {"ay", "num"}
       /\ "ay" \notin pending => ay <= burst
       /\ "num" \notin pending => num <= burst
=============================================================================
