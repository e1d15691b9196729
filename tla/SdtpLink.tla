------------------------------ MODULE SdtpLink ------------------------------
(***************************************************************************)
(* The packets of three bytes between ctrl_mcu and the board of the motor  *)
(* (sdtp_pack.c and sdtp_unpack.c): two of data and their crc8, in four    *)
(* words with the number of the word in their two highest bits.  The       *)
(* receiver puts what each word brings where it belongs and looks at the   *)
(* crc after the last; it has no other state.                              *)
(***************************************************************************)
EXTENDS Integers, Sequences, FiniteSets

CONSTANTS
  SdtpBytes,    (* Bytes of data: sets of bits of 0 .. 7.                  *)
  MaxSpeeds,    (* Bound: packets sent.                                    *)
  MaxGone       (* Bound: words of a packet that are lost.                 *)

ASSUME SdtpAssumption ==
  /\ SdtpBytes \subseteq SUBSET (0 .. 7) /\ SdtpBytes # {}
  /\ MaxSpeeds \in Nat /\ MaxGone \in Nat

VARIABLES
  \* the sender: the bytes of the packet, words of it that are out, packets
  speed, words_out, speeds,
  \* the receiver: receive_buffer, and the data of the last packet taken
  receive_buffer, bldc,
  \* history: words of this packet that were lost; bldc when it began
  gone, bldc_before

sdtp_vars == <<speed, words_out, speeds, receive_buffer, bldc, gone, bldc_before>>

Crc == INSTANCE Verification WITH Width <- 8, Poly <- {2, 3, 7}

SdtpByte == SUBSET (0 .. 7)

Up(byte, n)   == {i + n : i \in byte}
Down(byte, n) == {i - n : i \in {j \in byte : j >= n}}

SdtpInit ==
  /\ speed = <<{}, {}, {}>> /\ words_out = 4 /\ speeds = 0
  /\ receive_buffer = <<{}, {}, {}>> /\ bldc = <<{}, {}>>
  /\ gone = {} /\ bldc_before = <<{}, {}>>

(* sdtp_data_transmit_speed                                                *)
SendSpeed ==
  /\ words_out = 4 /\ speeds < MaxSpeeds
  /\ \E high, low \in SdtpBytes :
       speed' = <<high, low, Crc!verification_crc8(<<high, low>>)>>
  /\ words_out' = 0 /\ speeds' = speeds + 1
  /\ gone' = {} /\ bldc_before' = bldc
  /\ UNCHANGED <<receive_buffer, bldc>>

(* The n-th word, without its two highest bits.                            *)
SdtpWord(n) ==
  CASE n = 0 -> Down(speed[1], 2)
    [] n = 1 -> Up(speed[1] \cap 0 .. 1, 4) \cup Down(speed[2], 4)
    [] n = 2 -> Up(speed[2] \cap 0 .. 3, 2) \cup Down(speed[3], 6)
    [] n = 3 -> speed[3] \cap 0 .. 5

(* Mutants of Merged: the second word does not set the byte it begins; it  *)
(* is not cut to what belongs there.                                       *)
MergedOnto(n, bits, buffer) ==
  CASE n = 0 -> [buffer EXCEPT ![1] = Up(bits, 2)]
    [] n = 1 -> [buffer EXCEPT ![1] = @ \cup Down(bits, 4), ![2] = @ \cup Up(bits \cap 0 .. 3, 4)]
    [] n = 2 -> [buffer EXCEPT ![2] = @ \cup Down(bits, 2), ![3] = Up(bits \cap 0 .. 1, 6)]
    [] n = 3 -> [buffer EXCEPT ![3] = @ \cup bits]

MergedUncut(n, bits, buffer) ==
  CASE n = 0 -> [buffer EXCEPT ![1] = Up(bits, 2)]
    [] n = 1 -> [buffer EXCEPT ![1] = @ \cup Down(bits, 4), ![2] = Up(bits, 4)]
    [] n = 2 -> [buffer EXCEPT ![2] = @ \cup Down(bits, 2), ![3] = Up(bits \cap 0 .. 1, 6)]
    [] n = 3 -> [buffer EXCEPT ![3] = @ \cup bits]

(* The switch of sdtp_receive_handler.                                     *)
Merged(n, bits, buffer) ==
  CASE n = 0 -> [buffer EXCEPT ![1] = Up(bits, 2)]
    [] n = 1 -> [buffer EXCEPT ![1] = @ \cup Down(bits, 4), ![2] = Up(bits \cap 0 .. 3, 4)]
    [] n = 2 -> [buffer EXCEPT ![2] = @ \cup Down(bits, 2), ![3] = Up(bits \cap 0 .. 1, 6)]
    [] n = 3 -> [buffer EXCEPT ![3] = @ \cup bits]

(* sdtp_callback_handler.  Mutant: the crc is not compared.                *)
callback_anyway(buffer) == bldc' = SubSeq(buffer, 1, 2)

sdtp_callback_handler(buffer) ==
  bldc' = IF Crc!verification_crc8(SubSeq(buffer, 1, 2)) = buffer[3]
          THEN SubSeq(buffer, 1, 2) ELSE bldc

ReceiveWord ==
  /\ words_out < 4
  /\ receive_buffer' = Merged(words_out, SdtpWord(words_out), receive_buffer)
  /\ IF words_out = 3 THEN sdtp_callback_handler(receive_buffer') ELSE UNCHANGED bldc
  /\ words_out' = words_out + 1
  /\ UNCHANGED <<speed, speeds, gone, bldc_before>>

LoseWord ==
  /\ words_out < 4
  /\ Cardinality(gone) < MaxGone
  /\ gone' = gone \cup {words_out}
  /\ words_out' = words_out + 1
  /\ UNCHANGED <<speed, speeds, receive_buffer, bldc, bldc_before>>

SdtpNext == SendSpeed \/ ReceiveWord \/ LoseWord

SdtpSpec == SdtpInit /\ [][SdtpNext]_sdtp_vars

-----------------------------------------------------------------------------
(* The types.                                                              *)
SdtpTypeOK ==
  /\ words_out \in 0 .. 4 /\ speeds \in 0 .. MaxSpeeds
  /\ receive_buffer \in Seq(SUBSET (0 .. 7)) /\ Len(receive_buffer) = 3

(* A packet that arrives whole is taken, whatever is left in the buffer of *)
(* those before it.                                                        *)
WholeIsTaken == words_out = 4 /\ gone = {} => bldc = SubSeq(speed, 1, 2)

(* A packet of which the first or the last word is lost is never taken for *)
(* another: the crc tells what is left of an older packet in the first     *)
(* byte.  It does not tell everything the second or third word may leave.  *)
EndsAreTold ==
  words_out = 4 /\ gone \subseteq {0, 3} => bldc \in {bldc_before, SubSeq(speed, 1, 2)}

(* The motor gets the speeds sent, all those that arrive and no others.    *)
SdtpRight == WholeIsTaken /\ EndsAreTold
=============================================================================
