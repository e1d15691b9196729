---------------------------- MODULE Verification ----------------------------
(***************************************************************************)
(* The check of verification.c over words whose low byte counts, a byte    *)
(* being the set of its one-bits: crc8 (CRC-8/MAXIM, polynomial 0x8C,      *)
(* least significant bit first).                                           *)
(***************************************************************************)
EXTENDS ByteBits, Sequences

CONSTANT Poly       \* 0x8C

Xor(a, b) == (a \ b) \cup (b \ a)

Shifted(byte) == {i \in Bit : i + 1 \in byte}

(* One turn of the inner loop: a bit leaves at the low end.                *)
CrcShift(crc) == IF 0 \in crc THEN Xor(Shifted(crc), Poly) ELSE Shifted(crc)

(* One turn of the outer loop: a byte enters, Width bits leave.            *)
CrcByte(crc, byte) ==
  LET after[i \in 0 .. Width] == IF i = 0 THEN Xor(crc, byte) ELSE CrcShift(after[i - 1])
  IN  after[Width]

verification_crc8(words) ==
  LET crc[len \in 0 .. Len(words)] == IF len = 0 THEN Zero ELSE CrcByte(crc[len - 1], words[len])
  IN  crc[Len(words)]
=============================================================================
