------------------------------ MODULE ByteBits ------------------------------
(***************************************************************************)
(* The words of every serial protocol of the car are bytes carried in DMA  *)
(* words.  A byte is the set of its one-bits, bit 0 being the least        *)
(* significant: 0xff is the full set, 0x00 the empty one, "|" is union and *)
(* "^" symmetric difference.  The firmware has Width = 8; the width is a   *)
(* parameter because an adjustment byte has one bit per byte of a group,   *)
(* so that the same number bounds both.                                    *)
(***************************************************************************)
EXTENDS Integers

CONSTANT Width

ASSUME WidthAssumption == Width \in Nat \ {0, 1}

Bit  == 0 .. Width - 1
Byte == SUBSET Bit

Flag == Bit       \* 0xff, the frame delimiter
Zero == {}        \* 0x00, what an escaped 0xff is sent as

(* A group is the payload one adjustment byte covers: Width bytes.         *)
Group == [Bit -> Byte]

(* The adjustment byte of a group has the bit of every byte that is 0xff.  *)
AdjustByte(group) == {i \in Bit : group[i] = Flag}

Escaped(group) == [i \in Bit |-> IF group[i] = Flag THEN Zero ELSE group[i]]

Restored(words, adjust) == [i \in Bit |-> IF i \in adjust THEN Flag ELSE words[i]]
=============================================================================
