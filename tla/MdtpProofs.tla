----------------------------- MODULE MdtpProofs -----------------------------
(***************************************************************************)
(* Theorems about mdtp, for every byte width, mark and set of messages:    *)
(* the framing loses nothing and no word inside a frame looks like a flag; *)
(* the receiver stays within its buffer; and the link keeps the promise of *)
(* LossyChannel while the interrupt misses few enough words.               *)
(***************************************************************************)
EXTENDS MdtpLink, TLAPS

LEMMA HalfFacts == Half \in Nat /\ Half >= 1 /\ 2 * Half <= Width
  BY WidthAssumption DEF Half

(* The packet id byte is a byte, never the flag, and checks.               *)
LEMMA PidRoundTrip ==
  ASSUME NEW pid \in Pid
  PROVE  /\ PidByte(pid) \in Byte
         /\ PidByte(pid) # Flag
         /\ High(PidByte(pid)) = pid
         /\ Low(PidByte(pid)) = (0 .. Half - 1) \ pid
<1> USE HalfFacts, WidthAssumption
<1>1. PidByte(pid) \in Byte
  BY DEF PidByte, Pid, Byte, Bit
<1>2. High(PidByte(pid)) = pid
  <2>1. pid \subseteq 0 .. Half - 1
    BY DEF Pid
  <2>2. ASSUME NEW i \in 0 .. Half - 1
        PROVE  Half + i \in PidByte(pid) <=> i \in pid
    <3>1. Half + i \notin 0 .. Half - 1
      OBVIOUS
    <3>2. \A j \in pid : Half + j = Half + i => j = i
      BY <2>1
    <3> QED BY <3>1, <3>2 DEF PidByte
  <2> QED BY <2>1, <2>2 DEF High
<1>3. Low(PidByte(pid)) = (0 .. Half - 1) \ pid
  BY DEF PidByte, Pid, Low
<1>4. PidByte(pid) # Flag
  <2>1. 0 \in Flag /\ Half \in Flag
    BY DEF Flag, Bit
  <2>2. 0 \in PidByte(pid) => Half \notin PidByte(pid)
    BY DEF PidByte, Pid
  <2> QED BY <2>1, <2>2
<1> QED BY <1>1, <1>2, <1>3, <1>4

LEMMA EscapeTyped ==
  ASSUME NEW group \in Group
  PROVE  /\ AdjustByte(group) \in Byte
         /\ Escaped(group) \in Group
         /\ \A i \in Bit : Escaped(group)[i] # Flag
         /\ Restored(Escaped(group), AdjustByte(group)) = group
<1> USE WidthAssumption DEF Group
<1>1. AdjustByte(group) \in Byte
  BY DEF AdjustByte, Byte
<1>2. Zero \in Byte /\ Flag \in Byte /\ Zero # Flag
  <2>1. 0 \in Flag  BY DEF Flag, Bit
  <2> QED BY <2>1 DEF Zero, Flag, Byte
<1>3. Escaped(group) \in Group /\ \A i \in Bit : Escaped(group)[i] # Flag
  BY <1>2 DEF Escaped
<1>4. Restored(Escaped(group), AdjustByte(group)) = group
  BY DEF Restored, Escaped, AdjustByte
<1> QED BY <1>1, <1>3, <1>4

(* The words of a frame: flags at both ends and nowhere else.  The mark is *)
(* what keeps the adjustment byte of an all-0xff payload from being one.   *)
THEOREM FrameTransparent ==
  ASSUME NEW m \in Message
  PROVE  /\ Frame(m) \in [0 .. Last -> Byte]
         /\ \A k \in 0 .. Last : Frame(m)[k] = Flag <=> k \in {0, Last}
<1> USE WidthAssumption, MarkAssumption DEF Message, Last
<1>1. PidByte(m.pid) \in Byte /\ PidByte(m.pid) # Flag
  BY PidRoundTrip
<1>2. /\ AdjustByte(m.data) \in Byte
      /\ Escaped(m.data) \in Group
      /\ \A i \in Bit : Escaped(m.data)[i] # Flag
  BY EscapeTyped
<1>3. Flag \in Byte
  BY DEF Flag, Byte
<1>4. ASSUME NEW k \in 0 .. Last
      PROVE  /\ Frame(m)[k] \in Byte
             /\ Frame(m)[k] = Flag <=> k \in {0, Last}
  <2>1. CASE k \in {0, Last}
    BY <2>1, <1>3 DEF Frame, mdtp_data_transmit
  <2>2. CASE k = 1
    BY <2>2, <1>1 DEF Frame, mdtp_data_transmit
  <2>3. CASE k = Last - 1
    BY <2>3, <1>2 DEF Frame, mdtp_data_transmit, AllFlags
  <2>4. CASE k \in 2 .. Last - 2
    <3>1. k - 2 \in Bit
      BY <2>4 DEF Bit
    <3>2. Escaped(m.data)[k - 2] \in Byte /\ Escaped(m.data)[k - 2] # Flag
      BY <3>1, <1>2 DEF Group
    <3> QED BY <2>4, <3>2 DEF Frame, mdtp_data_transmit
  <2> QED BY <2>1, <2>2, <2>3, <2>4
<1>5. Frame(m) = [k \in 0 .. Last |-> Frame(m)[k]]
  BY DEF Frame, mdtp_data_transmit
<1> QED BY <1>4, <1>5

(* The words between the flags, at their places in the DMA buffer.         *)
LEMMA FrameWords ==
  ASSUME NEW m \in Message
  PROVE  /\ Frame(m)[1] = PidByte(m.pid)
         /\ \A i \in Bit : Frame(m)[i + 2] =
              IF AllFlags(m.data) /\ i = 0 THEN Mark ELSE Escaped(m.data)[i]
         /\ Frame(m)[Width + 2] =
              IF AllFlags(m.data) THEN Mark ELSE AdjustByte(m.data)
<1> USE WidthAssumption DEF Last
<1>1. ASSUME NEW k \in 0 .. Last
      PROVE  Frame(m)[k] =
               IF k \in {0, Last} THEN Flag
               ELSE IF k = 1 THEN PidByte(m.pid)
               ELSE IF AllFlags(m.data) /\ k \in {2, Last - 1} THEN Mark
               ELSE IF k = Last - 1 THEN AdjustByte(m.data)
               ELSE Escaped(m.data)[k - 2]
  BY DEF Frame, mdtp_data_transmit
<1>2. Frame(m)[1] = PidByte(m.pid)
  <2>1. 1 \in 0 .. Last /\ 1 \notin {0, Last}
    OBVIOUS
  <2> QED BY <2>1, <1>1
<1>3. ASSUME NEW i \in Bit
      PROVE  Frame(m)[i + 2] =
               IF AllFlags(m.data) /\ i = 0 THEN Mark ELSE Escaped(m.data)[i]
  <2>1. /\ i + 2 \in 0 .. Last
        /\ i + 2 \notin {0, Last}
        /\ i + 2 # 1
        /\ i + 2 \in {2, Last - 1} <=> i = 0
        /\ i + 2 # Last - 1
        /\ (i + 2) - 2 = i
    BY DEF Bit
  <2> QED BY <2>1, <1>1
<1>4. Frame(m)[Width + 2] = IF AllFlags(m.data) THEN Mark ELSE AdjustByte(m.data)
  <2>1. /\ Width + 2 \in 0 .. Last
        /\ Width + 2 \notin {0, Last}
        /\ Width + 2 # 1
        /\ Width + 2 = Last - 1
    OBVIOUS
  <2> QED BY <2>1, <1>1
<1> QED BY <1>2, <1>3, <1>4

(* Unpacking a whole frame gives back its message.                         *)
THEOREM RoundTrip ==
  ASSUME NEW m \in Message, NEW b \in Buffer,
         \A i \in Slot : b[i] = Frame(m)[i + 1]
  PROVE  PidChecks(b) /\ Unpacked(b) = m
<1> USE WidthAssumption, MarkAssumption DEF Message, Last
<1>1. b[0] = PidByte(m.pid)
  <2>1. 0 \in Slot /\ 0 + 1 = 1
    BY DEF Slot
  <2> QED BY <2>1, FrameWords
<1>2. PidChecks(b) /\ High(b[0]) = m.pid
  <2>1. High(b[0]) = m.pid /\ Low(b[0]) = (0 .. Half - 1) \ m.pid
    BY <1>1, PidRoundTrip
  <2>2. m.pid \subseteq 0 .. Half - 1
    BY DEF Pid
  <2> QED BY <2>1, <2>2 DEF PidChecks
<1>3. ASSUME NEW i \in Bit
      PROVE  b[i + 1] =
               IF AllFlags(m.data) /\ i = 0 THEN Mark ELSE Escaped(m.data)[i]
  <2>1. i + 1 \in Slot /\ (i + 1) + 1 = i + 2
    BY DEF Slot, Bit
  <2>2. b[i + 1] = Frame(m)[i + 2]
    BY <2>1
  <2> QED BY <2>2, FrameWords
<1>4. b[Width + 1] = IF AllFlags(m.data) THEN Mark ELSE AdjustByte(m.data)
  <2>1. Width + 1 \in Slot /\ (Width + 1) + 1 = Width + 2
    BY DEF Slot
  <2> QED BY <2>1, FrameWords
<1>0. 0 \in Bit /\ 0 + 1 = 1
  BY DEF Bit
<1>5. Unpacked(b).data = m.data
  <2>1. CASE AllFlags(m.data)
    <3>1. b[1] = Mark /\ b[Width + 1] = Mark
      BY <2>1, <1>0, <1>3, <1>4
    <3>2. \A i \in Bit : m.data[i] = Flag
      BY <2>1 DEF AllFlags, AdjustByte, Flag
    <3> QED BY <3>1, <3>2 DEF Unpacked, Group
  <2>2. CASE ~AllFlags(m.data)
    <3>1. ~(b[1] = Mark /\ b[Width + 1] = Mark)
      <4>1. b[1] = Escaped(m.data)[0]
        BY <2>2, <1>0, <1>3
      <4>2. ASSUME b[Width + 1] = Mark PROVE b[1] = Zero
        BY <1>0, <4>1, <4>2, <2>2, <1>4 DEF AdjustByte, Escaped
      <4> QED BY <4>2 DEF Zero
    <3>2. [i \in Bit |-> b[i + 1]] = Escaped(m.data)
      BY <2>2, <1>3 DEF Escaped
    <3> QED BY <3>1, <3>2, <2>2, <1>4, EscapeTyped DEF Unpacked
  <2> QED BY <2>1, <2>2
<1>6. Unpacked(b).pid = m.pid
  BY <1>2 DEF Unpacked
<1> QED BY <1>2, <1>5, <1>6 DEF Unpacked
-----------------------------------------------------------------------------
LEMMA LastFacts == Last \in Nat /\ Last = Width + 3 /\ Width >= 2 /\ Width \in Nat
  BY WidthAssumption DEF Last

LEMMA ClearedTyped == Cleared \in Buffer
  BY DEF Cleared, Buffer, Zero, Byte

(* The word on the line is a byte, and a flag exactly at the ends.         *)
LEMMA WordTyped ==
  ASSUME msg \in Messages, pos \in 0 .. Last
  PROVE  Word \in Byte /\ (Word = Flag <=> pos \in {0, Last})
  BY LinkAssumption, FrameTransparent DEF Word

(* A buffer whose id byte checks unpacks to a message.                     *)
LEMMA UnpackedTyped ==
  ASSUME NEW b \in Buffer
  PROVE  Unpacked(b) \in Message
<1> USE WidthAssumption
<1>1. High(b[0]) \in Pid
  BY DEF High, Pid
<1>2. Flag \in Byte
  BY DEF Flag, Byte
<1>3. [i \in Bit |-> b[i + 1]] \in Group
  BY DEF Buffer, Slot, Bit, Group
<1>4. Unpacked(b).data \in Group
  BY <1>2, <1>3 DEF Unpacked, Restored, Group
<1> QED BY <1>1, <1>4 DEF Unpacked, Message

LEMMA TypeInit == Init => TypeOK
<1> SUFFICES ASSUME Init PROVE TypeOK
  OBVIOUS
<1>1. sent \in Seq(Messages) /\ delivered \in Seq(Message) /\ Len(sent) = 0
  BY DEF Init
<1>2. last \in 0 .. Len(sent) /\ gap \in 0 .. MaxGap
  BY <1>1, LinkAssumption DEF Init
<1>3. pos \in 0 .. Last + 1 /\ status \in 0 .. 2 /\ counter \in 0 .. Width + 2
  BY LastFacts DEF Init
<1>4. buffer \in Buffer
  BY ClearedTyped DEF Init
<1>5. msg \in Messages /\ intact \in 0 .. 2
  BY DEF Init
<1>7. hurt \in BOOLEAN
  BY DEF Init
<1>6. status # 1 /\ status # 2
  BY DEF Init
<1> QED BY <1>1, <1>2, <1>3, <1>4, <1>5, <1>6, <1>7 DEF TypeOK

LEMMA TypeBegin ==
  ASSUME TypeOK, NEW m \in Messages, Begin(m)
  PROVE  TypeOK'
<1> USE DEF TypeOK, Begin, receiver
<1>1. sent' \in Seq(Messages) /\ Len(sent') = Len(sent) + 1 /\ Len(sent) \in Nat
  OBVIOUS
<1>2. last' \in 0 .. Len(sent')
  BY <1>1
<1>3. pos' \in 0 .. Last + 1
  BY LastFacts
<1> QED BY <1>1, <1>2, <1>3

LEMMA TypeReceive ==
  ASSUME TypeOK, sent = <<>> => pos = Last + 1, Receive
  PROVE  TypeOK'
<1> USE LastFacts, ClearedTyped DEF TypeOK
<1>1. Word \in Byte /\ pos \in 0 .. Last
  BY WordTyped DEF Receive
<1>2. /\ msg' \in Messages
      /\ pos' \in 0 .. Last + 1
      /\ sent' = sent
      /\ gap' \in 0 .. MaxGap
      /\ intact' \in 0 .. 2
      /\ hurt' \in BOOLEAN
  BY LinkAssumption DEF Receive
<1>3. CASE AwaitHeader(Word)
  BY <1>2, <1>3 DEF AwaitHeader, Clear
<1>4. CASE Collect(Word)
  <2>1. CASE Word = Flag
    BY <1>2, <1>4, <2>1 DEF Collect, Clear
  <2>2. CASE Word # Flag
    <3>1. counter \in Slot /\ status = 1
      BY <1>4 DEF Collect, Slot
    <3>2. buffer' = [buffer EXCEPT ![counter] = Word] /\ counter' = counter + 1
      BY <1>4, <2>2 DEF Collect
    <3>3. buffer' \in Buffer
      BY <3>1, <3>2, <1>1 DEF Buffer
    <3>4. status' = IF counter' = Width + 2 THEN 2 ELSE 1
      BY <1>4, <2>2 DEF Collect
    <3>5. delivered' = delivered /\ last' = last
      BY <1>4 DEF Collect
    <3> QED BY <1>2, <3>1, <3>2, <3>3, <3>4, <3>5
  <2> QED BY <2>1, <2>2
<1>5. CASE Finish(Word)
  <2>1. Unpacked(buffer) \in Message
    BY UnpackedTyped
  <2>2. delivered' \in Seq(Message)
    BY <1>5, <2>1 DEF Finish
  <2>3. last' \in 0 .. Len(sent)
    <3>1. Len(sent) \in Nat
      OBVIOUS
    <3>2. pos = 0 => Len(sent) >= 1
      BY <1>1
    <3> QED BY <1>5, <3>1, <3>2 DEF Finish, Closing
  <2> QED BY <1>2, <1>5, <2>2, <2>3 DEF Finish, Clear
<1> QED BY <1>3, <1>4, <1>5 DEF Receive, mdtp_receive_handler

LEMMA TypeLose ==
  ASSUME TypeOK, Lose
  PROVE  TypeOK'
  BY LastFacts, LinkAssumption DEF TypeOK, Lose, receiver

(* TypeOK is inductive with the fact that an idle sender is where the      *)
(* numbering starts: the receiver never runs over its ten bytes, however   *)
(* many words are lost.                                                    *)
TypeInv == TypeOK /\ (sent = <<>> => pos = Last + 1)

LEMMA TypeInvStep == TypeInv /\ [Next]_vars => TypeInv'
<1> SUFFICES ASSUME TypeInv, [Next]_vars PROVE TypeInv'
  OBVIOUS
<1>1. ASSUME NEW m \in Messages, Begin(m) PROVE TypeInv'
  <2>1. TypeOK'
    BY <1>1, TypeBegin DEF TypeInv
  <2>2. sent' # <<>>
    BY <1>1 DEF TypeInv, TypeOK, Begin
  <2> QED BY <2>1, <2>2 DEF TypeInv
<1>2. CASE Receive
  <2>1. sent # <<>> /\ sent' = sent
    BY <1>2, LastFacts DEF TypeInv, TypeOK, Receive
  <2> QED BY <1>2, <2>1, TypeReceive DEF TypeInv
<1>3. CASE Lose
  <2>1. sent # <<>> /\ sent' = sent
    BY <1>3, LastFacts DEF TypeInv, TypeOK, Lose
  <2> QED BY <1>3, <2>1, TypeLose DEF TypeInv
<1>4. CASE UNCHANGED vars
  BY <1>4 DEF vars, sender, receiver, line, TypeInv, TypeOK
<1> QED BY <1>1, <1>2, <1>3, <1>4 DEF Next

(* The status, the counter and the buffer of mdtp_receive_handler agree in *)
(* every behaviour, so no word is ever stored past the buffer.             *)
THEOREM TypeCorrect == Spec => []TypeOK
<1>1. Init => TypeInv
  BY TypeInit DEF Init, TypeInv
<1>2. TypeInv => TypeOK
  BY DEF TypeInv
<1> QED BY <1>1, <1>2, TypeInvStep, PTL DEF Spec

-----------------------------------------------------------------------------
(* Promise: LinkInv is inductive while fewer than Width + 4 words are lost *)
(* between two flags.                                                      *)
LEMMA InvInit == Init => LinkInv
  BY TypeInit, LastFacts DEF Init, LinkInv

LEMMA InvBegin ==
  ASSUME LinkInv, MaxGap <= Width + 3, NEW m \in Messages, Begin(m)
  PROVE  LinkInv'
<1> USE LastFacts, LinkAssumption
<1>1. TypeOK' /\ TypeOK
  BY TypeBegin DEF LinkInv
<1>2. /\ sent' = Append(sent, m) /\ msg' = m /\ pos = Last + 1 /\ pos' = 0
      /\ status' = status /\ counter' = counter /\ buffer' = buffer
      /\ last' = last /\ gap' = gap
  BY DEF Begin, receiver
<1>3. /\ Len(sent) \in Nat /\ Len(sent') = Len(sent) + 1
      /\ sent'[Len(sent')] = m /\ sent' # <<>>
      /\ sent # <<>> => sent'[Len(sent)] = sent[Len(sent)]
  BY <1>1, <1>2 DEF TypeOK
<1>4. last' < Len(sent')
  BY <1>1, <1>2, <1>3 DEF TypeOK
<1>5. ASSUME status # 0
      PROVE  Following' \/ Unclosed' \/ Empty' \/ Short' \/ Mixed'
  <2>1. sent # <<>> /\ msg = sent[Len(sent)]
    BY <1>5 DEF LinkInv
  <2>2. CASE Following
    BY <2>2, <1>2 DEF Following
  <2>3. CASE Unclosed
    <3>1. counter = Width + 2 /\ gap >= 1 /\ Holds(msg) /\ last < Len(sent)
      BY <2>3, <1>2 DEF Unclosed
    <3>2. sent'[Len(sent') - 1] = msg
      BY <2>1, <1>3
    <3>3. Holds(sent[Len(sent) - 1])'
      BY <3>1, <3>2, <1>2 DEF Holds
    <3>4. last' < Len(sent') - 1
      BY <3>1, <1>1, <1>2, <1>3 DEF TypeOK
    <3>5. Unclosed'
      BY <3>1, <3>3, <3>4, <1>2 DEF Unclosed
    <3> QED BY <3>5
  <2>4. CASE Empty
    BY <2>4, <1>2 DEF Empty
  <2>5. CASE Short
    BY <2>5, <1>1, <1>2 DEF Short, TypeOK
  <2>6. CASE Mixed
    BY <2>6, <1>1, <1>2 DEF Mixed, TypeOK
  <2> QED BY <1>5, <2>2, <2>3, <2>4, <2>5, <2>6 DEF LinkInv
<1> QED BY <1>1, <1>2, <1>3, <1>4, <1>5 DEF LinkInv

LEMMA InvReceive ==
  ASSUME LinkInv, Receive
  PROVE  LinkInv'
<1> USE LastFacts, LinkAssumption
<1>1. TypeOK /\ sent # <<>> /\ pos \in 0 .. Last
  BY DEF LinkInv, TypeOK, Receive
<1>2. TypeOK'
  BY <1>1, TypeReceive
<1>3. Word \in Byte /\ (Word = Flag <=> pos \in {0, Last})
  BY <1>1, WordTyped DEF TypeOK
<1>4. msg' = msg /\ sent' = sent /\ pos' = pos + 1 /\ gap' = IF Word = Flag THEN 0 ELSE gap
  BY DEF Receive
<1>5. Len(sent) \in Nat
  BY <1>1 DEF TypeOK
<1>6. pos' <= Last => last' < Len(sent')
  <2>1. CASE last' = last
    BY <2>1, <1>1, <1>4 DEF LinkInv
  <2>2. CASE last' # last
    <3>1. status = 2 /\ Word = Flag /\ last' = Closing
      BY <2>2 DEF Receive, mdtp_receive_handler, AwaitHeader, Collect, Finish
    <3> QED BY <3>1, <1>1, <1>3, <1>4, <1>5 DEF Closing
  <2> QED BY <2>1, <2>2
<1>7. status' # 0 => Following' \/ Unclosed' \/ Empty' \/ Short' \/ Mixed'
  <2>1. CASE AwaitHeader(Word)
    BY <2>1, <1>1, <1>3, <1>4 DEF AwaitHeader, Clear, Empty
  <2>2. CASE Collect(Word) /\ Word = Flag
    BY <2>2, <1>1, <1>3, <1>4 DEF Collect, Clear, Empty
  <2>3. CASE Collect(Word) /\ Word # Flag
    <3>1. /\ pos \in 1 .. Last - 1
          /\ counter \in 0 .. Width + 1 /\ counter' = counter + 1
          /\ buffer' = [buffer EXCEPT ![counter] = Word]
          /\ gap' = gap /\ gap \in Nat
      BY <2>3, <1>1, <1>3, <1>4 DEF Collect, TypeOK
    <3>2. ASSUME counter = pos - 1, Holds(msg)
          PROVE  Following'
      <4>1. ASSUME NEW i \in Slot, i < counter'
            PROVE  buffer'[i] = Frame(msg)[i + 1]
        <5>1. buffer \in [Slot -> Byte]
          BY <1>1 DEF TypeOK, Buffer
        <5>2. CASE i = counter
          BY <3>1, <3>2, <4>1, <5>1, <5>2 DEF Word
        <5>3. CASE i < counter
          BY <3>1, <3>2, <4>1, <5>1, <5>3 DEF Holds
        <5> QED BY <5>2, <5>3, <4>1, <3>1 DEF Slot
      <4>2. Holds(msg)'
        BY <4>1, <1>4 DEF Holds
      <4> QED BY <4>2, <3>1, <3>2, <1>4 DEF Following
    <3>3. CASE Following
      BY <3>2, <3>3 DEF Following
    <3>4. CASE Unclosed
      BY <3>1, <3>4 DEF Unclosed
    <3>5. CASE Empty
      <4>1. CASE pos = 1
        BY <4>1, <3>2, <3>5, <3>1 DEF Empty, Holds, Slot
      <4>2. CASE pos # 1
        BY <4>2, <3>5, <3>1, <1>4 DEF Empty, Short
      <4> QED BY <4>1, <4>2
    <3>6. CASE Short
      BY <3>6, <3>1, <1>4 DEF Short
    <3>7. CASE Mixed
      BY <3>7, <3>1, <1>4 DEF Mixed
    <3>8. status # 0
      BY <2>3 DEF Collect
    <3> QED BY <3>3, <3>4, <3>5, <3>6, <3>7, <3>8 DEF LinkInv
  <2>4. CASE Finish(Word)
    BY <2>4 DEF Finish
  <2> QED BY <2>1, <2>2, <2>3, <2>4 DEF Receive, mdtp_receive_handler
<1> QED BY <1>1, <1>2, <1>4, <1>6, <1>7 DEF LinkInv

LEMMA InvLose ==
  ASSUME LinkInv, Lose
  PROVE  LinkInv'
<1> USE LastFacts, LinkAssumption
<1>1. TypeOK /\ sent # <<>> /\ pos \in 0 .. Last
  BY DEF LinkInv, TypeOK, Lose
<1>2. TypeOK'
  BY <1>1, TypeLose
<1>3. /\ msg' = msg /\ sent' = sent /\ pos' = pos + 1 /\ gap' = gap + 1
      /\ status' = status /\ counter' = counter /\ buffer' = buffer
      /\ delivered' = delivered /\ last' = last
  BY DEF Lose, receiver
<1>4. gap \in Nat /\ counter \in 0 .. Width + 2 /\ last < Len(sent) /\ Len(sent) \in Nat
  BY <1>1 DEF TypeOK, LinkInv
<1>5. ASSUME status # 0
      PROVE  Following' \/ Unclosed' \/ Empty' \/ Short' \/ Mixed'
  <2>1. CASE Following
    <3>1. CASE pos < Last
      BY <2>1, <3>1, <1>1, <1>3, <1>4 DEF Following, Short
    <3>2. CASE pos = Last
      <4>1. Holds(msg)'
        BY <2>1, <1>3 DEF Following, Holds
      <4> QED BY <2>1, <3>2, <4>1, <1>3, <1>4 DEF Following, Unclosed
    <3> QED BY <3>1, <3>2, <1>1
  <2>2. CASE Unclosed
    BY <2>2, <1>1, <1>3, <1>4 DEF Unclosed, Mixed
  <2>3. CASE Empty
    BY <2>3, <1>1, <1>3, <1>4 DEF Empty
  <2>4. CASE Short
    BY <2>4, <1>1, <1>3, <1>4 DEF Short, Mixed
  <2>5. CASE Mixed
    BY <2>5, <1>1, <1>3, <1>4 DEF Mixed
  <2> QED BY <1>5, <2>1, <2>2, <2>3, <2>4, <2>5 DEF LinkInv
<1> QED BY <1>1, <1>2, <1>3, <1>4, <1>5 DEF LinkInv

LEMMA InvStep ==
  ASSUME MaxGap <= Width + 3
  PROVE  LinkInv /\ [Next]_vars => LinkInv'
<1> SUFFICES ASSUME LinkInv, [Next]_vars PROVE LinkInv'
  OBVIOUS
<1>1. ASSUME NEW m \in Messages, Begin(m) PROVE LinkInv'
  BY <1>1, InvBegin
<1>2. CASE Receive
  BY <1>2, InvReceive
<1>3. CASE Lose
  BY <1>3, InvLose
<1>4. CASE UNCHANGED vars
  BY <1>4 DEF vars, sender, receiver, line, LinkInv, TypeOK, Following, Unclosed,
              Empty, Short, Mixed, Holds
<1> QED BY <1>1, <1>2, <1>3, <1>4 DEF Next

(* What a closing flag hands over is the frame it closes.                  *)
LEMMA FinishDelivers ==
  ASSUME LinkInv, MaxGap <= Width + 3, pos \in 0 .. Last, Finish(Word), Word = Flag
  PROVE  /\ Closing \in 1 .. Len(sent)
         /\ Closing > last
         /\ PidChecks(buffer)
         /\ Unpacked(buffer) = sent[Closing]
<1> USE LastFacts, LinkAssumption
<1>1. TypeOK /\ status = 2 /\ counter = Width + 2 /\ pos \in {0, Last} /\ sent # <<>>
  BY WordTyped DEF LinkInv, TypeOK, Finish
<1>2. Following \/ Unclosed \/ Empty \/ Short \/ Mixed
  BY <1>1 DEF LinkInv
<1>3. ~Empty /\ ~Short
  BY <1>1 DEF Empty, Short
<1>4. ~Mixed
  BY <1>1 DEF Mixed, TypeOK
<1>5. Len(sent) \in Nat /\ last \in Nat /\ Len(sent) >= 1 /\ last < Len(sent)
  BY <1>1 DEF TypeOK, LinkInv
<1>6. ASSUME NEW m \in Messages, Holds(m)
      PROVE  PidChecks(buffer) /\ Unpacked(buffer) = m
  <2>1. \A i \in Slot : buffer[i] = Frame(m)[i + 1]
    BY <1>1, <1>6 DEF Holds, Slot
  <2> QED BY <2>1, <1>1, RoundTrip DEF TypeOK
<1>7. CASE Following
  <2>1. pos = Last /\ Closing = Len(sent) /\ Holds(msg) /\ msg = sent[Len(sent)]
    BY <1>1, <1>7 DEF Following, Closing, LinkInv
  <2> QED BY <2>1, <1>1, <1>5, <1>6 DEF TypeOK
<1>8. CASE Unclosed
  <2>1. /\ pos = 0 /\ Closing = Len(sent) - 1 /\ last < Len(sent) - 1
        /\ Holds(sent[Len(sent) - 1])
    BY <1>1, <1>8 DEF Unclosed, Closing
  <2>2. Closing \in 1 .. Len(sent) /\ sent[Closing] \in Messages
    BY <2>1, <1>1, <1>5 DEF TypeOK
  <2> QED BY <2>1, <2>2, <1>6
<1> QED BY <1>2, <1>3, <1>4, <1>7, <1>8

LEMMA StepRefines ==
  ASSUME LinkInv, MaxGap <= Width + 3, [Next]_vars
  PROVE  [Channel!Next]_Channel!vars
<1> USE LastFacts, LinkAssumption DEF Channel!vars
<1>1. ASSUME NEW m \in Messages, Begin(m) PROVE Channel!Send(m)
  BY <1>1 DEF Begin, receiver, Channel!Send
<1>2. CASE Receive
  <2>1. pos \in 0 .. Last /\ sent' = sent
    BY <1>2 DEF LinkInv, TypeOK, Receive
  <2>2. CASE Finish(Word) /\ Word = Flag
    <3>1. /\ Closing \in 1 .. Len(sent) /\ Closing > last
          /\ PidChecks(buffer) /\ Unpacked(buffer) = sent[Closing]
      BY <2>1, <2>2, FinishDelivers
    <3>2. delivered' = Append(delivered, sent[Closing]) /\ last' = Closing
      BY <2>2, <3>1 DEF Finish
    <3>3. Channel!Deliver(Closing)
      BY <2>1, <3>1, <3>2 DEF Channel!Deliver
    <3> QED BY <3>1, <3>3 DEF Channel!Next
  <2>3. CASE ~(Finish(Word) /\ Word = Flag)
    <3>1. delivered' = delivered /\ last' = last
      BY <1>2, <2>3 DEF Receive, mdtp_receive_handler, AwaitHeader, Collect, Finish
    <3> QED BY <2>1, <3>1
  <2> QED BY <2>2, <2>3
<1>3. CASE Lose
  BY <1>3 DEF Lose, receiver
<1>4. CASE UNCHANGED vars
  BY <1>4 DEF vars, sender, receiver
<1> QED BY <1>1, <1>2, <1>3, <1>4 DEF Next, Channel!Next

(* The receiver implements the abstract channel: as long as the receive    *)
(* interrupt misses at most Width + 3 words between two flags, every       *)
(* message handed to mdtp_callback_handler was sent, once, in order.       *)
THEOREM PromiseKept ==
  ASSUME MaxGap <= Width + 3
  PROVE  Spec => Promise
<1>1. Init => LinkInv /\ Channel!Init
  BY InvInit DEF Init, Channel!Init
<1>2. LinkInv /\ [Next]_vars => LinkInv'
  BY InvStep
<1>3. LinkInv /\ [Next]_vars => [Channel!Next]_Channel!vars
  BY StepRefines
<1> QED BY <1>1, <1>2, <1>3, PTL DEF Spec, Promise, Channel!Spec

(* The inductive invariant behind Promise, for the widths and payloads no  *)
(* run tries.                                                              *)
THEOREM FramesKeptApart ==
  ASSUME MaxGap <= Width + 3
  PROVE  Spec => []LinkInv
<1>1. LinkInv /\ [Next]_vars => LinkInv'
  BY InvStep
<1> QED BY <1>1, InvInit, PTL DEF Spec

-----------------------------------------------------------------------------
(* Resynchronised: after one frame received whole the receiver awaits a    *)
(* header, in state 0 or in state 1 with nothing collected, and the next   *)
(* is followed from its first word.                                        *)
Ready == status = 0 \/ (status = 1 /\ counter = 0)

ResyncInv ==
  /\ TypeInv
  /\ hurt => intact = 0
  /\ intact >= 1 /\ pos \notin 1 .. Last => Ready
  /\ intact >= 1 /\ pos \in 1 .. Last => status # 0 /\ Following
  /\ Resynchronised

LEMMA ResyncBegin ==
  ASSUME ResyncInv, NEW m \in Messages, Begin(m)
  PROVE  ResyncInv'
<1>1. TypeInv'
  <2>1. TypeOK'
    BY TypeBegin DEF ResyncInv, TypeInv
  <2>2. sent' # <<>>
    BY DEF ResyncInv, TypeInv, TypeOK, Begin
  <2> QED BY <2>1, <2>2 DEF TypeInv
<1>2. pos = Last + 1 /\ pos' = 0 /\ ~hurt' /\ intact' = intact /\ (Ready' <=> Ready)
  BY DEF Begin, Ready, receiver
<1> QED BY <1>1, <1>2, LastFacts DEF ResyncInv, Resynchronised

(* The closing flag of a frame followed so far hands it over.              *)
LEMMA ClosedDelivers ==
  ASSUME TypeOK, Following, status # 0, pos = Last, mdtp_receive_handler(Flag)
  PROVE  last' = Len(sent) /\ status' = 0
<1> USE LastFacts, LinkAssumption
<1>1. counter = Width + 2 /\ status = 2 /\ Finish(Flag)
  BY DEF Following, TypeOK, mdtp_receive_handler, AwaitHeader, Collect, Finish
<1>2. \A i \in Slot : buffer[i] = Frame(msg)[i + 1]
  BY <1>1 DEF Following, Holds, Slot
<1>3. PidChecks(buffer)
  BY <1>2, RoundTrip DEF TypeOK
<1>4. Closing = Len(sent)
  BY DEF Closing
<1> QED BY <1>1, <1>3, <1>4 DEF Finish

LEMMA ResyncReceive ==
  ASSUME ResyncInv, Receive
  PROVE  ResyncInv'
<1> USE LastFacts, LinkAssumption
<1>1. TypeOK /\ sent # <<>> /\ pos \in 0 .. Last
  BY DEF ResyncInv, TypeInv, TypeOK, Receive
<1>2. TypeOK' /\ TypeInv'
  BY <1>1, TypeReceive DEF Receive, TypeInv
<1>3. Word \in Byte /\ (Word = Flag <=> pos \in {0, Last})
  BY <1>1, WordTyped DEF TypeOK
<1>4. /\ msg' = msg /\ sent' = sent /\ pos' = pos + 1 /\ hurt' = hurt
      /\ intact \in 0 .. 2
      /\ intact' = IF pos = Last /\ ~hurt /\ intact < 2 THEN intact + 1 ELSE intact
      /\ mdtp_receive_handler(Word)
  BY <1>1 DEF Receive, TypeOK
<1>5. Word = Flag => Ready'
  BY <1>1 DEF Receive, mdtp_receive_handler, AwaitHeader, Collect, Finish, Clear, Ready, TypeOK
<1>6. CASE pos = 0
  <2>1. pos' = 1 /\ intact' = intact /\ Word = Flag
    BY <1>3, <1>4, <1>6
  <2>2. ASSUME Ready PROVE status' = 1 /\ counter' = 0
    BY <1>4, <2>1, <2>2 DEF Ready, mdtp_receive_handler, AwaitHeader, Collect, Finish, Clear
  <2>3. intact >= 1 => Ready
    BY <1>6 DEF ResyncInv
  <2>4. counter' = 0 => Following'
    BY <2>1, <1>2 DEF Following, Holds, Slot
  <2> QED BY <1>2, <1>4, <2>1, <2>2, <2>3, <2>4 DEF ResyncInv, Resynchronised
<1>7. CASE pos \in 1 .. Last - 1
  <2>1. pos' \in 2 .. Last /\ intact' = intact /\ Word # Flag
    BY <1>3, <1>4, <1>7
  <2>2. ASSUME status # 0, Following
        PROVE  status' # 0 /\ Following'
    <3>1. counter = pos - 1 /\ Holds(msg) /\ status = 1
      BY <1>1, <1>7, <2>2 DEF Following, TypeOK
    <3>2. Collect(Word) /\ counter' = counter + 1 /\ status' # 0
          /\ buffer' = [buffer EXCEPT ![counter] = Word]
      BY <1>4, <2>1, <3>1 DEF mdtp_receive_handler, AwaitHeader, Collect, Finish
    <3>3. ASSUME NEW i \in Slot, i < counter'
          PROVE  buffer'[i] = Frame(msg)[i + 1]
      <4>1. buffer \in [Slot -> Byte]
        BY <1>1 DEF TypeOK, Buffer
      <4>2. CASE i = counter
        BY <3>1, <3>2, <4>1, <4>2, <1>7 DEF Word
      <4>3. CASE i < counter
        BY <3>1, <3>2, <4>1, <4>3, <1>7 DEF Holds
      <4> QED BY <4>2, <4>3, <3>1, <3>2, <3>3, <1>7 DEF Slot
    <3>4. Holds(msg)'
      BY <3>3, <1>4 DEF Holds
    <3> QED BY <3>1, <3>2, <3>4, <1>4, <1>7, <2>1 DEF Following
  <2>3. intact >= 1 => status # 0 /\ Following
    BY <1>7 DEF ResyncInv
  <2> QED BY <1>2, <1>4, <2>1, <2>2, <2>3 DEF ResyncInv, Resynchronised
<1>8. CASE pos = Last
  <2>1. pos' = Last + 1 /\ Word = Flag
    BY <1>3, <1>4, <1>8
  <2>2. hurt' => intact' = 0
    BY <1>4 DEF ResyncInv
  <2>3. ASSUME intact' = 2 PROVE last' = Len(sent')
    <3>1. intact >= 1
      BY <1>4, <2>3
    <3>2. status # 0 /\ Following
      BY <3>1, <1>8 DEF ResyncInv
    <3> QED BY <3>2, <1>1, <1>4, <1>8, <2>1, ClosedDelivers
  <2> QED BY <1>2, <1>5, <2>1, <2>2, <2>3 DEF ResyncInv, Resynchronised
<1> QED BY <1>1, <1>6, <1>7, <1>8

LEMMA ResyncLose ==
  ASSUME ResyncInv, Lose
  PROVE  ResyncInv'
<1>1. TypeInv'
  BY TypeLose, LastFacts DEF ResyncInv, TypeInv, TypeOK, Lose
<1> QED BY <1>1 DEF ResyncInv, Resynchronised, Lose

(* Whatever was lost before, however much: of two frames in a row that     *)
(* lose nothing the second is handed over.                                 *)
THEOREM FoundAgain == Spec => []Resynchronised
<1>1. Init => ResyncInv
  <2> SUFFICES ASSUME Init PROVE ResyncInv
    OBVIOUS
  <2>1. TypeInv
    BY TypeInit DEF Init, TypeInv
  <2> QED BY <2>1, LastFacts DEF Init, ResyncInv, Resynchronised, Ready
<1>2. ResyncInv /\ [Next]_vars => ResyncInv'
  <2> SUFFICES ASSUME ResyncInv, [Next]_vars PROVE ResyncInv'
    OBVIOUS
  <2>1. CASE UNCHANGED vars
    BY <2>1 DEF vars, sender, receiver, line, ResyncInv, TypeInv, TypeOK, Ready, Following,
                Holds, Resynchronised
  <2> QED BY <2>1, ResyncBegin, ResyncReceive, ResyncLose DEF Next
<1>3. ResyncInv => Resynchronised
  BY DEF ResyncInv
<1> QED BY <1>1, <1>2, <1>3, PTL DEF Spec
=============================================================================
