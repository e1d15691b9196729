---------------------------- MODULE ProcCtrlLink ----------------------------
(***************************************************************************)
(* The link from proc_mcu to ctrl_mcu.  fusion_task packs a payload and    *)
(* sends it over UART4; ctrl_mcu receives it with UART6 and DMA, and       *)
(* deal_uart6_dma_proc takes the words one by one (one action for one turn *)
(* of its loop; PingPong shows that the blocks of the DMA hand it every    *)
(* word received, once and in order).  A word is lost when the DMA is      *)
(* started again too late.                                                 *)
(*                                                                         *)
(* A button sends a command for the GPS over the same line.  Its task has  *)
(* a lower priority than fusion_task, which sends a frame without waiting: *)
(* the words of the command come between frames, in any portions.          *)
(***************************************************************************)
EXTENDS ProcCtrlCodec, Sequences

CONSTANTS
  Payloads,     (* Payloads fusion_task may send.                          *)
  BufferSize,   (* Length of package_buffer: 80.                           *)
  ColdWords,    (* Words of the cold start command; none is a flag.        *)
  MaxFrames,    (* Bound: frames sent in a behaviour.                      *)
  MaxGap,       (* Bound: words lost between two flags that are received.  *)
  MaxCold,      (* Bound: words of the command between two such flags.     *)
  Apart         (* Bound: no two such flags have both between them.        *)

ASSUME LinkAssumption ==
  /\ Payloads \subseteq Payload
  /\ \A data \in Payloads : Crc8(Covered(data)) \in Byte
  /\ BufferSize \in Inner .. 255
  /\ ColdWords \subseteq Byte \ {Flag}
  /\ MaxFrames \in Nat
  /\ MaxGap \in Nat
  /\ MaxCold \in Nat
  /\ Apart \in BOOLEAN

VARIABLES
  \* fusion_task: the payload packed and the word it is at, Last + 1 if none
  payload, pos,
  \* deal_uart6_dma_proc: status, package_counter and package_buffer
  status, counter, buffer,
  \* history: payloads sent, values given to proc_data, and the number of
  \* the last sent payload that was one of them (see LossyChannel)
  sent, delivered, last,
  \* history: number of the frame whose closing flag put status at 2
  held,
  \* history: words lost since the last flag received, and words of the
  \* command received since then; frames received without a loss, up to
  \* two, and whether the present one lost a word
  gap, cold, intact, hurt

sender   == <<payload, pos, sent>>
receiver == <<status, counter, buffer, delivered, last, held>>
line     == <<gap, cold, intact, hurt>>
vars     == <<sender, receiver, line>>

Slot == 0 .. BufferSize - 1

Init ==
  /\ payload \in Payloads
  /\ pos = Last + 1
  /\ status = 0
  /\ counter = 0
  /\ buffer = [i \in Slot |-> Zero]
  /\ sent = <<>>
  /\ delivered = <<>>
  /\ last = 0
  /\ held = 0
  /\ gap = 0
  /\ cold = 0
  /\ intact = 1
  /\ hurt = FALSE

-----------------------------------------------------------------------------
Pack(data) ==
  /\ pos = Last + 1
  /\ Len(sent) < MaxFrames
  /\ payload' = data
  /\ pos' = 0
  /\ sent' = Append(sent, data)
  /\ hurt' = FALSE
  /\ UNCHANGED <<receiver, gap, cold, intact>>

-----------------------------------------------------------------------------
AwaitHeader(word) ==
  /\ status = 0
  /\ status' = IF word = Flag THEN 1 ELSE 0
  /\ counter' = 0
  /\ UNCHANGED <<buffer, delivered, last, held>>

(* The frame whose closing flag a flag received now is taken for.          *)
Closing == IF pos = 0 THEN Len(sent) - 1 ELSE Len(sent)

(* Mutants of Collect: a flag that comes early is skipped; it sends the    *)
(* receiver back to wait for a header.                                     *)
CollectSkipsFlag(word) ==
  /\ status = 1
  /\ IF word = Flag
     THEN /\ status' = IF counter = Inner THEN 2 ELSE 1
          /\ held' = IF counter = Inner THEN Closing ELSE held
          /\ UNCHANGED <<counter, buffer>>
     ELSE /\ buffer' = [buffer EXCEPT ![counter] = word]
          /\ counter' = counter + 1
          /\ UNCHANGED <<status, held>>
  /\ UNCHANGED <<delivered, last>>

CollectEndsOnFlag(word) ==
  /\ status = 1
  /\ IF word = Flag
     THEN /\ status' = IF counter = Inner THEN 2 ELSE 0
          /\ held' = IF counter = Inner THEN Closing ELSE held
          /\ UNCHANGED <<counter, buffer>>
     ELSE /\ buffer' = [buffer EXCEPT ![counter] = word]
          /\ counter' = counter + 1
          /\ UNCHANGED <<status, held>>
  /\ UNCHANGED <<delivered, last>>

(* Nothing bounds the counter while no flag comes: at BufferSize the word  *)
(* is written behind package_buffer (Overrun).                             *)
Collect(word) ==
  /\ status = 1
  /\ \/ /\ word = Flag /\ counter # Inner
        /\ counter' = 0
        /\ UNCHANGED <<status, buffer, held>>
     \/ /\ word = Flag /\ counter = Inner
        /\ status' = 2
        /\ held' = Closing
        /\ UNCHANGED <<counter, buffer>>
     \/ /\ word # Flag
        /\ buffer' = [buffer EXCEPT ![counter] = word]
        /\ counter' = counter + 1
        /\ UNCHANGED <<status, held>>
  /\ UNCHANGED <<delivered, last>>

(* unpacking_proc_to_control, called when the word after the closing flag  *)
(* is there; that word itself is dropped.                                  *)
Unpack(word) ==
  /\ status = 2
  /\ IF Checks(buffer)
     THEN /\ delivered' = Append(delivered, Unpacked(buffer))
          /\ last' = held
     ELSE UNCHANGED <<delivered, last>>
  /\ counter' = 0
  /\ status' = 1
  /\ UNCHANGED <<buffer, held>>

deal_uart6_dma_proc(word) ==
  AwaitHeader(word) \/ Collect(word) \/ Unpack(word)

-----------------------------------------------------------------------------
Word == precossing_proc_to_control(payload)[pos]

Receive ==
  /\ pos <= Last
  /\ deal_uart6_dma_proc(Word)
  /\ pos' = pos + 1
  /\ gap' = IF Word = Flag THEN 0 ELSE gap
  /\ cold' = IF Word = Flag THEN 0 ELSE cold
  /\ intact' = IF pos = Last /\ ~hurt /\ intact < 2 THEN intact + 1 ELSE intact
  /\ UNCHANGED <<payload, sent, hurt>>

Lose ==
  /\ pos <= Last
  /\ gap < MaxGap /\ (Apart => cold = 0)
  /\ gap' = gap + 1
  /\ pos' = pos + 1
  /\ hurt' = TRUE
  /\ intact' = 0
  /\ UNCHANGED <<payload, sent, receiver, cold>>

(* A word of the command.  One that is lost is one that did not come.      *)
calibrate_cold_start_btn_callback(word) ==
  /\ pos = Last + 1
  /\ cold < MaxCold /\ (Apart => gap = 0)
  /\ deal_uart6_dma_proc(word)
  /\ cold' = cold + 1
  /\ UNCHANGED <<sender, gap, intact, hurt>>

(* The counter is an unsigned char and so counts past BufferSize before it *)
(* wraps.  What lies behind the buffer the model does not know, and stops. *)
Overrun == counter > BufferSize

Next ==
  /\ ~Overrun
  /\ \/ \E data \in Payloads : Pack(data)
     \/ Receive
     \/ Lose
     \/ \E word \in ColdWords : calibrate_cold_start_btn_callback(word)

Spec == Init /\ [][Next]_vars

-----------------------------------------------------------------------------
(* The variables have their types.                                         *)
TypeOK ==
  /\ payload \in Payloads
  /\ pos \in 0 .. Last + 1
  /\ status \in 0 .. 2
  /\ counter \in 0 .. BufferSize + 1
  /\ buffer \in [Slot -> Byte]
  /\ sent \in Seq(Payloads)
  /\ delivered \in Seq(Payload)
  /\ last \in 0 .. Len(sent)
  /\ held \in 0 .. Len(sent)
  /\ gap \in 0 .. MaxGap
  /\ cold \in 0 .. MaxCold
  /\ intact \in 0 .. 2
  /\ hurt \in BOOLEAN

(* package_buffer has no bound check.  It is never overrun while few words *)
(* are lost, and few of the command come, between two flags (Roomy): with  *)
(* its 80 words, five lost and two commands of nine words, for instance.   *)
InBuffer == ~Overrun

Roomy == Inner * (1 + MaxGap \div 2) + MaxCold <= BufferSize

(* Words between two received flags: the frames in between were merged by  *)
(* losing both flags of each boundary.                                     *)
CounterInv ==
  /\ status = 0 => counter = 0
  /\ status = 2 => counter = Inner
  /\ status = 1 /\ pos \in 1 .. Last => counter <= pos - 1 + Inner * (gap \div 2) + cold
  /\ status = 1 /\ pos \notin 1 .. Last => counter <= Inner * ((gap + 1) \div 2) + cold
  /\ Roomy => InBuffer

-----------------------------------------------------------------------------
Holds(data) ==
  \A i \in 0 .. Inner - 1 :
     i < counter => buffer[i] = precossing_proc_to_control(data)[i + 1]

(* How the words collected since the last flag fared, as in MdtpLink.  One *)
(* word may be missing without being lost: the one Unpack dropped.         *)
Following ==
  /\ pos \in 1 .. Last
  /\ counter = pos - 1
  /\ Holds(payload)

Unclosed ==
  /\ counter = Inner
  /\ gap >= 1
  /\ \/ pos = Last + 1 /\ Holds(payload) /\ last < Len(sent)
     \/ pos = 0 /\ last < Len(sent) - 1 /\ Holds(sent[Len(sent) - 1])

Empty ==
  /\ counter = 0
  /\ pos \in 1 .. Last => gap >= pos - 2

Short ==
  /\ counter < Inner
  /\ \/ pos \in 1 .. Last + 1 /\ counter < pos - 1 /\ gap >= pos - 2 - counter
     \/ pos = 0 /\ gap >= Inner - counter

Mixed ==
  /\ counter <= Inner
  /\ pos >= 1
  /\ gap >= Inner + pos - counter

Over == counter > Inner /\ gap >= 1

(* Words of the command, behind a frame that was received to its end.      *)
Foreign ==
  /\ cold > 0
  /\ counter <= cold

(* A whole frame that waits for a word to come.                            *)
Held ==
  /\ held \in last + 1 .. Len(sent)
  /\ Holds(sent[held])
  /\ pos \in 1 .. Last => gap >= pos - 1

(* The inductive invariant behind Promise.                                 *)
LinkInv ==
  /\ TypeOK
  /\ status = 0 => counter = 0
  /\ status = 2 => counter = Inner /\ Held
  /\ pos <= Last => last < Len(sent)
  /\ pos <= Last => held < Len(sent)
  /\ sent # <<>> => payload = sent[Len(sent)]
  /\ sent = <<>> => pos = Last + 1 /\ status = 0
  /\ cold > 0 => gap = 0 /\ pos \in {0, Last + 1}
  /\ status = 1 => Following \/ Unclosed \/ Empty \/ Short \/ Mixed \/ Over \/ Foreign

(* Every value proc_data takes was sent by fusion_task, once and in order, *)
(* as long as few words are lost, no word inside a frame is 0xff and no    *)
(* byte of the second group is.                                            *)
Channel == INSTANCE LossyChannel WITH Messages <- Payloads
Promise == Channel!Spec

(* What the comments of the codec say of the adjustment bytes: the data    *)
(* unpacked are the original data.                                         *)
RestoresOriginal == delivered # <<>> => delivered[Len(delivered)] = sent[last]

(* Of two frames that lose nothing the second is kept, but proc_data has   *)
(* its values only when the next frame begins, or a word of the command    *)
(* comes: the controller is one frame behind.                              *)
Resynchronised ==
  pos = Last + 1 /\ intact = 2 /\ Len(sent) > 1 =>
    IF cold = 0 THEN status = 2 /\ held = Len(sent) /\ last < Len(sent)
                ELSE last = Len(sent)
=============================================================================
