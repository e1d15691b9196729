--------------------------- MODULE ProcCtrlCodec ----------------------------
(***************************************************************************)
(* The packet proc_mcu sends to ctrl_mcu: four floats in two groups of     *)
(* Width bytes, each group with an adjustment byte, then a crc and flags   *)
(* at both ends.  The adjustment bytes and the crc are not escaped.        *)
(***************************************************************************)
EXTENDS ByteBits

CONSTANT Crc8(_)    \* the crc of the words 0 .. 2 * Width + 1

(* distance_north, distance_east; north_angle and v.                       *)
Payload == [0 .. 2 * Width - 1 -> Byte]

(* PROC_MCU_SEND_AMOUNT words, 0 .. Last; Inner of them between the flags. *)
Last  == 2 * Width + 4
Inner == 2 * Width + 3

(* Bit 0x80 >> i of an adjustment byte stands for byte i of its group.     *)
TopBit(i) == Width - 1 - i

Adjust(data, first) == {TopBit(i) : i \in {j \in Bit : data[first + j] = Flag}}

Covered(data) ==
  [k \in 0 .. 2 * Width + 1 |->
     IF k = 2 * Width THEN Adjust(data, 0)
     ELSE IF k = 2 * Width + 1 THEN Adjust(data, Width)
     ELSE IF data[k] = Flag THEN Zero ELSE data[k]]

precossing_proc_to_control(data) ==
  [k \in 0 .. Last |->
     IF k \in {0, Last} THEN Flag
     ELSE IF k = Inner THEN Crc8(Covered(data))
     ELSE Covered(data)[k - 1]]

Checks(packets) ==
  Crc8([k \in 0 .. 2 * Width + 1 |-> packets[k]]) = packets[Inner - 1]

(* Mutant: no byte is restored.                                            *)
UnpackedNoRestore(packets) == [i \in 0 .. 2 * Width - 1 |-> packets[i]]

(* The second loop of the code runs i from Width on and still shifts by i, *)
(* so the bit it tests is never one of the byte.                           *)
Unpacked(packets) ==
  [i \in 0 .. 2 * Width - 1 |->
     IF TopBit(i) \in packets[2 * Width + (i \div Width)] THEN Flag ELSE packets[i]]

(* A frame the receiver can tell from its neighbours: no word between its  *)
(* flags is one.                                                           *)
Clean(data) ==
  /\ Adjust(data, 0) # Flag
  /\ Adjust(data, Width) # Flag
  /\ Crc8(Covered(data)) \in Byte \ {Flag}

(* A payload the receiver restores: 0xff only in the first group.          *)
Restorable(data) == Adjust(data, Width) = {}
=============================================================================
