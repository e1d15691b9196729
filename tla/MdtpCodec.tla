----------------------------- MODULE MdtpCodec ------------------------------
(***************************************************************************)
(* Framing of the medium capacity transport protocol (mdtp) between the    *)
(* boards and the PC tool: a flag, a self-checking packet id, Width data   *)
(* bytes of which every 0xff is sent as 0x00, an adjustment byte that      *)
(* names those, and a closing flag.  A payload of 0xff only would make the *)
(* adjustment byte a flag, so it is sent as the mark 0xa5 in two places.   *)
(***************************************************************************)
EXTENDS ByteBits

CONSTANT Mark       \* 0xa5

(* What the code relies on: the mark is not the flag, and its bit 0 is set *)
(* so that no escaped payload looks like the marked one.                   *)
ASSUME MarkAssumption == Mark \in Byte \ {Flag} /\ 0 \in Mark

(* Packet ids are a nibble; Half is 4 for the firmware's bytes.            *)
Half == Width \div 2
Pid  == SUBSET (0 .. Half - 1)

Message == [pid : Pid, data : Group]

(* The id in the high nibble, its complement in the low nibble.            *)
PidByte(pid) ==
  {Half + i : i \in pid} \cup ((0 .. Half - 1) \ pid)

High(byte) == {i \in 0 .. Half - 1 : Half + i \in byte}
Low(byte)  == {i \in 0 .. Half - 1 : i \in byte}

(* Words of a frame, at the indices of the DMA buffer: 0 .. 11 for bytes.  *)
Last == Width + 3

AllFlags(data) == AdjustByte(data) = Flag

mdtp_data_transmit(pid, data) ==
  [k \in 0 .. Last |->
     IF k \in {0, Last} THEN Flag
     ELSE IF k = 1 THEN PidByte(pid)
     ELSE IF AllFlags(data) /\ k \in {2, Last - 1} THEN Mark
     ELSE IF k = Last - 1 THEN AdjustByte(data)
     ELSE Escaped(data)[k - 2]]

Frame(m) == mdtp_data_transmit(m.pid, m.data)

(* The receive buffer holds the words between the flags.                   *)
Slot   == 0 .. Width + 1
Buffer == [Slot -> Byte]

PidChecks(buffer) == High(buffer[0]) = (0 .. Half - 1) \ Low(buffer[0])

Unpacked(buffer) ==
  [pid  |-> High(buffer[0]),
   data |-> IF buffer[1] = Mark /\ buffer[Width + 1] = Mark
            THEN [i \in Bit |-> Flag]
            ELSE Restored([i \in Bit |-> buffer[i + 1]], buffer[Width + 1])]
=============================================================================
