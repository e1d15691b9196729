------------------------------ MODULE MdtpLink ------------------------------
(***************************************************************************)
(* A sender that frames messages with mdtp_data_transmit and puts them on  *)
(* the line word by word, and mdtp_receive_handler, called by the receive  *)
(* interrupt for every word that arrives.  A word the interrupt is too     *)
(* late for is overwritten in the UART and never seen.                     *)
(***************************************************************************)
EXTENDS MdtpCodec, Sequences

CONSTANTS
  Messages,     (* Messages the sender may choose from.                    *)
  MaxFrames,    (* Bound: frames sent in a behaviour.                      *)
  MaxGap        (* Bound: words lost between two flags that are received.  *)

ASSUME LinkAssumption ==
  /\ Messages \subseteq Message
  /\ MaxFrames \in Nat
  /\ MaxGap \in Nat

VARIABLES
  \* the sender: the DMA buffer and the word it is at, Last + 1 when idle
  msg, pos,
  \* the receiver: mdtp_receive_status, _number_counter and _data_buffer
  status, counter, buffer,
  \* history: see LossyChannel
  sent, delivered, last,
  \* history: words lost since the last flag received; frames received
  \* without a loss, up to two, and whether the present one lost a word
  gap, intact, hurt

sender   == <<msg, pos, sent>>
receiver == <<status, counter, buffer, delivered, last>>
line     == <<gap, intact, hurt>>
vars     == <<sender, receiver, line>>

Cleared == [i \in Slot |-> Zero]

Init ==
  /\ msg \in Messages
  /\ pos = Last + 1
  /\ status = 0
  /\ counter = 0
  /\ buffer = Cleared
  /\ sent = <<>>
  /\ delivered = <<>>
  /\ last = 0
  /\ gap = 0
  /\ intact = 1
  /\ hurt = FALSE

-----------------------------------------------------------------------------
(* The sender packs a message into its DMA buffer once the last is out.    *)
Begin(m) ==
  /\ pos = Last + 1
  /\ Len(sent) < MaxFrames
  /\ msg' = m
  /\ pos' = 0
  /\ sent' = Append(sent, m)
  /\ hurt' = FALSE
  /\ UNCHANGED <<receiver, gap, intact>>

-----------------------------------------------------------------------------
(* The receiver.  Clear is the reset of counter and buffer.                *)
Clear ==
  /\ counter' = 0
  /\ buffer' = Cleared

AwaitHeader(word) ==
  /\ status = 0
  /\ IF word = Flag
     THEN status' = 1 /\ Clear
     ELSE UNCHANGED <<status, counter, buffer>>
  /\ UNCHANGED <<delivered, last>>

(* Mutants of Collect: the frame is never found full; a flag among the     *)
(* data is skipped; the flag after the header is read as a closing one.    *)
CollectNeverFull(word) ==
  /\ status = 1
  /\ word # Flag
  /\ buffer' = [buffer EXCEPT ![counter % (Width + 2)] = word]
  /\ counter' = counter + 1
  /\ UNCHANGED <<status, delivered, last>>

CollectSkipsFlag(word) ==
  /\ status = 1
  /\ IF word = Flag
     THEN UNCHANGED <<status, counter, buffer>>
     ELSE /\ buffer' = [buffer EXCEPT ![counter] = word]
          /\ counter' = counter + 1
          /\ status' = IF counter' = Width + 2 THEN 2 ELSE 1
  /\ UNCHANGED <<delivered, last>>

CollectEndsOnFlag(word) ==
  /\ status = 1
  /\ IF word = Flag
     THEN status' = 0 /\ Clear
     ELSE /\ buffer' = [buffer EXCEPT ![counter] = word]
          /\ counter' = counter + 1
          /\ status' = IF counter' = Width + 2 THEN 2 ELSE 1
  /\ UNCHANGED <<delivered, last>>

(* A flag before the frame is full is the end of one whose header was      *)
(* missed; a flag right after the header is read as the header.  The code's *)
(* test that counter is not 10 yet holds whenever status is 1 (TypeOK).    *)
Collect(word) ==
  /\ status = 1
  /\ \/ /\ word = Flag /\ counter # 0
        /\ status' = 0
        /\ Clear
     \/ /\ word = Flag /\ counter = 0
        /\ UNCHANGED <<status, counter, buffer>>
     \/ /\ word # Flag
        /\ buffer' = [buffer EXCEPT ![counter] = word]
        /\ counter' = counter + 1
        /\ status' = IF counter' = Width + 2 THEN 2 ELSE 1
  /\ UNCHANGED <<delivered, last>>

(* The number, in sent, of the frame whose closing flag the receiver takes *)
(* the present word for: the header of a frame may close the one before.   *)
Closing == IF pos = 0 THEN Len(sent) - 1 ELSE Len(sent)

Finish(word) ==
  /\ status = 2
  /\ status' = 0
  /\ IF word = Flag
     THEN /\ IF PidChecks(buffer)
             THEN /\ delivered' = Append(delivered, Unpacked(buffer))
                  /\ last' = Closing
             ELSE UNCHANGED <<delivered, last>>
          /\ UNCHANGED <<counter, buffer>>
     ELSE Clear /\ UNCHANGED <<delivered, last>>

mdtp_receive_handler(word) ==
  AwaitHeader(word) \/ Collect(word) \/ Finish(word)

-----------------------------------------------------------------------------
Word == Frame(msg)[pos]

Receive ==
  /\ pos <= Last
  /\ mdtp_receive_handler(Word)
  /\ pos' = pos + 1
  /\ gap' = IF Word = Flag THEN 0 ELSE gap
  /\ intact' = IF pos = Last /\ ~hurt /\ intact < 2 THEN intact + 1 ELSE intact
  /\ UNCHANGED <<msg, sent, hurt>>

Lose ==
  /\ pos <= Last
  /\ gap < MaxGap
  /\ gap' = gap + 1
  /\ pos' = pos + 1
  /\ hurt' = TRUE
  /\ intact' = 0
  /\ UNCHANGED <<msg, sent, receiver>>

Next == (\E m \in Messages : Begin(m)) \/ Receive \/ Lose

Spec == Init /\ [][Next]_vars

-----------------------------------------------------------------------------
(* The variables have their types, and the state of mdtp_receive_handler   *)
(* agrees with its counter: while it collects there is room in the ten     *)
(* bytes of mdtp_receive_data_buffer, and it awaits the closing flag       *)
(* exactly when they are full.                                             *)
TypeOK ==
  /\ msg \in Messages
  /\ pos \in 0 .. Last + 1
  /\ status \in 0 .. 2
  /\ counter \in 0 .. Width + 2
  /\ buffer \in Buffer
  /\ sent \in Seq(Messages)
  /\ delivered \in Seq(Message)
  /\ last \in 0 .. Len(sent)
  /\ gap \in 0 .. MaxGap
  /\ intact \in 0 .. 2
  /\ hurt \in BOOLEAN
  /\ status = 1 => counter <= Width + 1
  /\ status = 2 => counter = Width + 2

(* What the ten bytes hold, by how the frame in them fared.  Holds(m): the *)
(* first counter words between the flags of m.                             *)
Holds(m) == \A i \in Slot : i < counter => buffer[i] = Frame(m)[i + 1]

(* The frame on the line, every word of it so far.                         *)
Following ==
  /\ pos \in 1 .. Last
  /\ counter = pos - 1
  /\ Holds(msg)

(* A whole frame whose closing flag was lost, the sender being idle or     *)
(* about to send the header of the next.                                   *)
Unclosed ==
  /\ counter = Width + 2
  /\ gap >= 1
  /\ \/ pos = Last + 1 /\ Holds(msg) /\ last < Len(sent)
     \/ pos = 0 /\ last < Len(sent) - 1 /\ Holds(sent[Len(sent) - 1])

(* Nothing yet of the frame on the line.                                   *)
Empty ==
  /\ counter = 0
  /\ pos \in 1 .. Last => gap >= pos - 1

(* A frame that has lost words: too short when its closing flag is due.    *)
Short ==
  /\ counter < Width + 2
  /\ \/ pos \in 1 .. Last + 1 /\ counter < pos - 1 /\ gap >= pos - 1 - counter
     \/ pos = 0 /\ gap >= Width + 3 - counter

(* Words of two frames: both flags between them were lost, and as many     *)
(* words as make up for the excess.                                        *)
Mixed ==
  /\ pos >= 1
  /\ gap >= Width + 3 + pos - counter

(* The inductive invariant behind Promise.                                 *)
LinkInv ==
  /\ TypeOK
  /\ pos <= Last => last < Len(sent)
  /\ sent # <<>> => msg = sent[Len(sent)]
  /\ sent = <<>> => pos = Last + 1 /\ status = 0
  /\ status # 0 => Following \/ Unclosed \/ Empty \/ Short \/ Mixed

(* mdtp keeps the promise of a link as long as the receive interrupt       *)
(* misses at most Width + 3 words (11 bytes) between two flags it sees:    *)
(* without any checksum, no message is ever put together from the words    *)
(* of two frames, handed over twice or out of order.                       *)
Channel == INSTANCE LossyChannel
Promise == Channel!Spec

(* A receiver that lost its place finds it again: of two frames in a row   *)
(* that lose nothing, the second is always handed over.                    *)
Resynchronised == pos = Last + 1 /\ intact = 2 => last = Len(sent)
=============================================================================
