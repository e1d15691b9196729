---------------------------- MODULE ReadMcuLink ----------------------------
(***************************************************************************)
(* The packets of read_mcu to proc_mcu (deal_dma_read_mcu).  The fixed     *)
(* one, ff data crc ff, brings the sensors; the variable one, a5 5a length *)
(* data, the calibration of the magnetometer.  A form of the GUI changes   *)
(* between them: it tells read_mcu and sets uart2_dma_buffer_size.         *)
(*                                                                         *)
(* A word of data is the number of its packet, its place in it and what    *)
(* the receiver looks at, its value.  The checksums of both are taken to   *)
(* find every packet that is not one that was sent.                        *)
(***************************************************************************)
EXTENDS Integers

CONSTANTS
  Fixed,        (* Words of a fixed packet between its flags: 10.          *)
  Variable,     (* Words of a variable packet after its length: 66.        *)
  Room,         (* package_buffer: 80.                                     *)
  Wrap,         (* Values of an unsigned char: 256.                        *)
  Values,       (* What a word of data may be,                             *)
  Checks,       (* and what a crc, which is not escaped.                   *)
  Pads,         (* Words that may follow a packet: 16 - 12 of them if      *)
                (* read_mcu fills the block, none if it does not.          *)
  ReadPackets,  (* Bound: packets sent,                                    *)
  MaxDropped,   (* Bound: words of them that are lost,                     *)
  MaxChanges    (* Bound: changes between the two.                         *)

A5 == 165
S5 == 90
FF == 255

ASSUME ReadMcuAssumption ==
  /\ Fixed \in Nat \ {0} /\ Variable \in Nat \ {0} /\ Room \in Nat \ {0}
  /\ Fixed < Room /\ Variable <= Room
  /\ Wrap \in Nat /\ Variable + 3 < Wrap /\ Room < Wrap
  /\ FF \notin Values /\ Pads \subseteq Nat \ {Fixed}
  /\ ReadPackets \in Nat /\ MaxDropped \in Nat /\ MaxChanges \in Nat

VARIABLES
  \* read_mcu: the kind of the packet, how many words follow it, its number
  \* and how many words of it are out
  kind, fill, number, out,
  \* deal_dma_read_mcu
  status, package_buffer, package_counter, debug_buffer_counter,
  \* uart2_dma_buffer_size: "fixed" for 16, "variable" for 96
  buffer_size,
  \* small_packets or debug_data: the number of the packet it comes from
  taken,
  \* history: words lost; changes; whether this packet was received in full
  \* as it should; how many were in a row, how many of them had a fill;
  \* words received since the last change, up to Longest_stray; whether the
  \* length was taken from a word that is none
  dropped, changes, whole, row, filled_row, since, astray

read_sender   == <<kind, fill, number, out>>
read_buffer   == <<package_buffer, package_counter>>
read_receiver == <<status, read_buffer, debug_buffer_counter, taken, astray>>
read_line     == <<dropped, changes, whole, row, filled_row, since>>
read_vars     == <<read_sender, read_receiver, buffer_size, read_line>>

Kinds   == {"fixed", "variable"}
Nothing == <<0, 0>>

(* What a variable packet that was begun may take of those that follow: as *)
(* many words as package_buffer holds, the two before them, and the two    *)
(* that end the copying and trigger the unpacking.                         *)
Longest_stray == Room + 4

ReadInit ==
  /\ kind = "fixed" /\ fill = 0 /\ number = 0 /\ out = Fixed + 2
  /\ status = 0 /\ package_buffer = [k \in 0 .. Room - 1 |-> Nothing] /\ package_counter = 0
  /\ debug_buffer_counter = 0
  /\ buffer_size = "fixed" /\ taken = 0
  /\ dropped = 0 /\ changes = 0
  /\ whole = FALSE /\ row = 0 /\ filled_row = 0 /\ since = 0 /\ astray = FALSE

-----------------------------------------------------------------------------
(* read_mcu, as the receiver expects it.                                   *)
Before == IF kind = "fixed" THEN 1 ELSE 3
Data   == IF kind = "fixed" THEN Fixed ELSE Variable
Framed == IF kind = "fixed" THEN Fixed + 2 ELSE Variable + 3
Words  == Framed + fill

(* The values the next word may have; what it is of.                       *)
NextValues ==
  CASE kind = "fixed" /\ out \in {0, Fixed + 1}      -> {FF}
    [] kind = "fixed" /\ out = Fixed                 -> Checks
    [] kind = "variable" /\ out < 3                  -> {<<A5, S5, Variable + 3>>[out + 1]}
    [] out >= Framed                                 -> {0}
    [] OTHER                                         -> Values

NextTag == IF out \in Before .. Before + Data - 1 THEN <<number, out - Before + 1>> ELSE Nothing

IsLength == kind = "variable" /\ out = 2

(* It goes over to the other kind some time after it is told.  A fixed     *)
(* packet is not received as it should while the receiver still waits for  *)
(* the rest of a variable one.                                             *)
BeginPacket ==
  /\ out = Words /\ number < ReadPackets
  /\ kind' \in {kind, buffer_size} /\ fill' \in Pads
  /\ number' = number + 1 /\ out' = 0
  /\ whole' = (kind' = buffer_size /\ (kind' = "fixed" => status \in 0 .. 2))
  /\ row' = IF whole THEN row + 1 ELSE 0
  /\ filled_row' = IF whole /\ fill > 0 THEN filled_row + 1 ELSE 0
  /\ UNCHANGED <<read_receiver, buffer_size, dropped, changes, since>>

-----------------------------------------------------------------------------
(* deal_dma_read_mcu: one case of its switch per operator, for a word w.   *)
Goto(next) == status' = next
NoLength   == UNCHANGED <<debug_buffer_counter, astray>>

(* At Room the word is written behind package_buffer (ReadOverrun).        *)
Store(tag) ==
  /\ package_buffer' = [package_buffer EXCEPT ![package_counter] = tag]
  /\ package_counter' = package_counter + 1

(* Mutant of Idle0: the counter is not reset.                              *)
Idle0NoReset(w) ==
  /\ status = 0
  /\ Goto(IF w = FF /\ buffer_size = "fixed" THEN 1
          ELSE IF w = A5 /\ buffer_size = "variable" THEN 3 ELSE 0)
  /\ UNCHANGED <<read_buffer, taken>> /\ NoLength

Idle0(w) ==
  /\ status = 0
  /\ Goto(IF w = FF /\ buffer_size = "fixed" THEN 1
          ELSE IF w = A5 /\ buffer_size = "variable" THEN 3 ELSE 0)
  /\ package_counter' = 0
  /\ UNCHANGED <<package_buffer, taken>> /\ NoLength

(* Mutant of Copy1: a flag after fewer words is no beginning.              *)
Copy1Ignores(w, tag) ==
  /\ status = 1
  /\ \/ w = FF /\ package_counter # Fixed /\ Goto(0) /\ package_counter' = 0 /\ UNCHANGED package_buffer
     \/ w = FF /\ package_counter = Fixed /\ Goto(2) /\ UNCHANGED read_buffer
     \/ w # FF /\ package_counter > Fixed /\ Goto(0) /\ UNCHANGED read_buffer
     \/ w # FF /\ package_counter <= Fixed /\ Goto(1) /\ Store(tag)
  /\ UNCHANGED taken /\ NoLength

Copy1(w, tag) ==
  /\ status = 1
  /\ \/ w = FF /\ package_counter # Fixed /\ Goto(1) /\ package_counter' = 0 /\ UNCHANGED package_buffer
     \/ w = FF /\ package_counter = Fixed /\ Goto(2) /\ UNCHANGED read_buffer
     \/ w # FF /\ package_counter > Fixed /\ Goto(0) /\ UNCHANGED read_buffer
     \/ w # FF /\ package_counter <= Fixed /\ Goto(1) /\ Store(tag)
  /\ UNCHANGED taken /\ NoLength

(* The checksum over the first words of the buffer, whenever they were put *)
(* there.  Mutant: it is not compared.                                     *)
FitsAnyway(words) == TRUE

ChecksumFits(words) ==
  package_buffer[0] # Nothing
    /\ \A k \in 0 .. words - 1 : package_buffer[k] = <<package_buffer[0][1], k + 1>>

(* case 2 unpacks the fixed packet, case 6 the variable one; the word that *)
(* makes them is not looked at.                                            *)
Unpack(at, words) ==
  /\ status = at
  /\ taken' = IF ChecksumFits(words) THEN package_buffer[0][1] ELSE taken
  /\ package_counter' = 0
  /\ Goto(0)
  /\ UNCHANGED package_buffer /\ NoLength

Second3(w) ==
  /\ status = 3
  /\ Goto(IF w = S5 THEN 4 ELSE 0)
  /\ UNCHANGED <<read_buffer, taken>> /\ NoLength

Length4(w) ==
  /\ status = 4
  /\ debug_buffer_counter' = w % Wrap
  /\ astray' = ~IsLength
  /\ Goto(5)
  /\ UNCHANGED <<read_buffer, taken>>

(* Mutant of Copy5: a counter that does not wrap.                          *)
Copy5Wide(w, tag) ==
  /\ status = 5
  /\ IF debug_buffer_counter = 3
       THEN Goto(6) /\ UNCHANGED <<read_buffer, debug_buffer_counter>>
       ELSE /\ Store(tag) /\ Goto(5)
            /\ debug_buffer_counter' = debug_buffer_counter - 1
  /\ UNCHANGED <<taken, astray>>

(* case 5: it counts down to 3, and from a smaller number once around.     *)
Copy5(w, tag) ==
  /\ status = 5
  /\ IF debug_buffer_counter = 3
       THEN Goto(6) /\ UNCHANGED <<read_buffer, debug_buffer_counter>>
       ELSE /\ Store(tag) /\ Goto(5)
            /\ debug_buffer_counter' = (debug_buffer_counter - 1) % Wrap
  /\ UNCHANGED <<taken, astray>>

deal_dma_read_mcu(w, tag) ==
  \/ Idle0(w) \/ Copy1(w, tag) \/ Second3(w) \/ Length4(w) \/ Copy5(w, tag)
  \/ Unpack(2, Fixed) \/ Unpack(6, Variable)

(* A flag in the place of the crc makes it a packet of another length.     *)
ReadReceive ==
  /\ out < Words
  /\ \E w \in NextValues :
       /\ deal_dma_read_mcu(w, NextTag)
       /\ whole' = (whole /\ ~(w = FF /\ NextTag # Nothing))
  /\ out' = out + 1
  /\ since' = IF since < Longest_stray THEN since + 1 ELSE since
  /\ UNCHANGED <<kind, fill, number, buffer_size, dropped, changes, row, filled_row>>

(* A word is lost in the UART while its DMA is stopped.                    *)
ReadLose ==
  /\ out < Words /\ dropped < MaxDropped
  /\ out' = out + 1 /\ dropped' = dropped + 1 /\ whole' = FALSE
  /\ UNCHANGED <<kind, fill, number, read_receiver, buffer_size, changes, row, filled_row, since>>

(* The callbacks of the forms, between two interrupts.                     *)
ChangeKind ==
  /\ changes < MaxChanges
  /\ buffer_size' \in Kinds \ {buffer_size}
  /\ changes' = changes + 1 /\ whole' = FALSE /\ since' = 0
  /\ UNCHANGED <<read_sender, read_receiver, dropped, row, filled_row>>

(* package_counter is an unsigned char and so counts past Room before it   *)
(* wraps.  What lies behind the buffer the model does not know, and stops. *)
ReadOverrun == package_counter > Room

ReadNext == ~ReadOverrun /\ (BeginPacket \/ ReadReceive \/ ReadLose \/ ChangeKind)

ReadSpec == ReadInit /\ [][ReadNext]_read_vars

-----------------------------------------------------------------------------
(* The types.                                                              *)
ReadTypeOK ==
  /\ kind \in Kinds /\ buffer_size \in Kinds /\ fill \in Pads \cup {0}
  /\ number \in 0 .. ReadPackets /\ out \in 0 .. Words /\ taken \in 0 .. number
  /\ status \in 0 .. 6 /\ debug_buffer_counter \in 0 .. Wrap - 1
  /\ package_counter \in 0 .. Room + 1 /\ since \in 0 .. Longest_stray

(* What is taken is never older than what was taken before: a packet put   *)
(* together of two is refused, and an old one does not come back.          *)
NeverOlder == [][taken' >= taken]_read_vars

(* A fixed packet that arrives whole after one that did is taken when a    *)
(* word follows it.  If none does, its trigger is the header of the next,  *)
(* which is not taken then, but of three one of the first two is.          *)
FoundInRow ==
  out = Words /\ whole /\ kind = "fixed" =>
    /\ filled_row >= 1 /\ fill > 0 => taken = number
    /\ row >= 2 => taken >= number - 2

(* After the change to fixed packets the receiver may still wait for the   *)
(* rest of a variable one, but not for longer than it fills the buffer.    *)
LeavesVariable ==
  buffer_size = "fixed" /\ since = Longest_stray => status \in 0 .. 2

FixedResynchronised == FoundInRow /\ LeavesVariable

(* No packet runs past the buffer, unless a word that is not the length of *)
(* a variable packet was taken for it.                                     *)
WithinBuffer == ~ReadOverrun \/ astray
=============================================================================
