--------------------------- MODULE ProcCtrlProofs ---------------------------
(***************************************************************************)
(* Theorems about the link from proc_mcu to ctrl_mcu, for every byte       *)
(* width, crc and set of payloads: how far package_counter can run, and    *)
(* under which conditions proc_data only takes values that were sent.      *)
(***************************************************************************)
EXTENDS ProcCtrlLink, TLAPS

LEMMA LastFacts ==
  /\ Last \in Nat /\ Inner \in Nat /\ Last = Inner + 1
  /\ Inner = 2 * Width + 3 /\ Width \in Nat /\ Width >= 2
  BY WidthAssumption DEF Last, Inner

LEMMA ByteFacts == Flag \in Byte /\ Zero \in Byte /\ Zero # Flag
<1>1. 0 \in Flag
  BY WidthAssumption DEF Flag, Bit
<1> QED BY <1>1 DEF Flag, Zero, Byte

LEMMA AdjustTyped ==
  ASSUME NEW data \in Payload, NEW first \in {0, Width}
  PROVE  Adjust(data, first) \in Byte
  BY WidthAssumption DEF Adjust, TopBit, Byte, Bit

LEMMA CoveredTyped ==
  ASSUME NEW data \in Payload
  PROVE  Covered(data) \in [0 .. 2 * Width + 1 -> Byte]
<1> USE WidthAssumption
<1>1. Adjust(data, 0) \in Byte /\ Adjust(data, Width) \in Byte
  BY AdjustTyped
<1> QED BY <1>1, ByteFacts DEF Covered, Payload

(* The words of a frame.                                                   *)
LEMMA FrameWords ==
  ASSUME NEW data \in Payloads
  PROVE  /\ precossing_proc_to_control(data) \in [0 .. Last -> Byte]
         /\ precossing_proc_to_control(data)[0] = Flag
         /\ precossing_proc_to_control(data)[Last] = Flag
         /\ precossing_proc_to_control(data)[Inner] = Crc8(Covered(data))
         /\ \A k \in 1 .. Inner - 1 :
              precossing_proc_to_control(data)[k] = Covered(data)[k - 1]
<1> USE LastFacts, LinkAssumption
<1>1. Covered(data) \in [0 .. 2 * Width + 1 -> Byte] /\ Crc8(Covered(data)) \in Byte
  BY CoveredTyped
<1>2. ASSUME NEW k \in 0 .. Last
      PROVE  precossing_proc_to_control(data)[k] =
               IF k \in {0, Last} THEN Flag
               ELSE IF k = Inner THEN Crc8(Covered(data))
               ELSE Covered(data)[k - 1]
  BY DEF precossing_proc_to_control
<1>3. ASSUME NEW k \in 0 .. Last
      PROVE  precossing_proc_to_control(data)[k] \in Byte
  <2>1. CASE k \in {0, Last}
    BY <2>1, <1>2, ByteFacts
  <2>2. CASE k = Inner
    BY <2>2, <1>1, <1>2
  <2>3. CASE k \in 1 .. Inner - 1
    <3>1. k - 1 \in 0 .. 2 * Width + 1
      BY <2>3
    <3> QED BY <2>3, <3>1, <1>1, <1>2
  <2> QED BY <2>1, <2>2, <2>3
<1>4. precossing_proc_to_control(data) \in [0 .. Last -> Byte]
  BY <1>3 DEF precossing_proc_to_control
<1>5. \A k \in 1 .. Inner - 1 :
        precossing_proc_to_control(data)[k] = Covered(data)[k - 1]
  BY <1>2
<1> QED BY <1>2, <1>4, <1>5

LEMMA WordTyped ==
  ASSUME TypeOK, pos <= Last
  PROVE  /\ pos \in 0 .. Last /\ Word \in Byte
         /\ pos \in {0, Last} => Word = Flag
<1>1. payload \in Payloads /\ pos \in 0 .. Last
  BY LastFacts DEF TypeOK
<1>2. precossing_proc_to_control(payload)[pos] \in Byte
  BY <1>1, FrameWords
<1>3. pos \in {0, Last} => precossing_proc_to_control(payload)[pos] = Flag
  BY <1>1, FrameWords
<1> QED BY <1>1, <1>2, <1>3 DEF Word

LEMMA UnpackedTyped ==
  ASSUME NEW b \in [Slot -> Byte]
  PROVE  Unpacked(b) \in Payload
  BY LastFacts, LinkAssumption, ByteFacts DEF Unpacked, Payload, Slot

-----------------------------------------------------------------------------
TypeInv == TypeOK /\ (sent = <<>> => pos = Last + 1)

LEMMA TypeInit == Init => TypeInv
<1> SUFFICES ASSUME Init PROVE TypeInv
  OBVIOUS
<1>1. sent \in Seq(Payloads) /\ delivered \in Seq(Payload) /\ Len(sent) = 0
  BY DEF Init
<1>2. /\ last \in 0 .. Len(sent) /\ held \in 0 .. Len(sent)
      /\ gap \in 0 .. MaxGap /\ cold \in 0 .. MaxCold
  BY <1>1, LinkAssumption DEF Init
<1>3. /\ pos \in 0 .. Last + 1 /\ status \in 0 .. 2
      /\ counter \in 0 .. BufferSize + 1
      /\ payload \in Payloads /\ intact \in 0 .. 2
  BY LastFacts, LinkAssumption DEF Init
<1>4. buffer \in [Slot -> Byte]
  BY ByteFacts DEF Init
<1>5. hurt \in BOOLEAN
  BY DEF Init
<1>6. pos = Last + 1
  BY DEF Init
<1> QED BY <1>1, <1>2, <1>3, <1>4, <1>5, <1>6 DEF TypeInv, TypeOK

LEMMA TypePack ==
  ASSUME TypeInv, NEW data \in Payloads, Pack(data)
  PROVE  TypeInv'
<1> USE DEF TypeInv, TypeOK, Pack, receiver
<1>1. sent' \in Seq(Payloads) /\ Len(sent') = Len(sent) + 1 /\ Len(sent) \in Nat /\ sent' # <<>>
  OBVIOUS
<1>2. last' \in 0 .. Len(sent') /\ held' \in 0 .. Len(sent')
  BY <1>1
<1>3. pos' \in 0 .. Last + 1
  BY LastFacts
<1> QED BY <1>1, <1>2, <1>3

(* What a turn of the loop leaves, whatever word it takes.                 *)
LEMMA ProcTyped ==
  ASSUME TypeInv, ~Overrun, NEW word \in Byte, deal_uart6_dma_proc(word)
  PROVE  /\ status' \in 0 .. 2
         /\ counter' \in 0 .. BufferSize + 1
         /\ buffer' \in [Slot -> Byte]
         /\ delivered' \in Seq(Payload)
         /\ last' \in 0 .. Len(sent)
         /\ held' \in 0 .. Len(sent)
<1> USE LastFacts, LinkAssumption DEF TypeInv, TypeOK
<1>1. Closing \in 0 .. Len(sent)
  <2>1. Len(sent) \in Nat /\ (pos = 0 => Len(sent) >= 1)
    OBVIOUS
  <2> QED BY <2>1 DEF Closing
<1>2. CASE AwaitHeader(word)
  BY <1>2 DEF AwaitHeader
<1>3. CASE Collect(word)
  <2>1. status' \in 0 .. 2 /\ counter' \in 0 .. BufferSize + 1
    BY <1>3 DEF Collect, Overrun
  <2>2. buffer' \in [Slot -> Byte]
    BY <1>3 DEF Collect
  <2>3. held' \in 0 .. Len(sent) /\ delivered' = delivered /\ last' = last
    BY <1>1, <1>3 DEF Collect
  <2> QED BY <2>1, <2>2, <2>3
<1>4. CASE Unpack(word)
  <2>1. Unpacked(buffer) \in Payload
    BY UnpackedTyped
  <2>2. status' \in 0 .. 2 /\ counter' \in 0 .. BufferSize + 1
    BY <1>4 DEF Unpack
  <2>3. delivered' \in Seq(Payload)
    <3>1. Append(delivered, Unpacked(buffer)) \in Seq(Payload) /\ delivered \in Seq(Payload)
      BY <2>1
    <3> QED BY <1>4, <3>1 DEF Unpack
  <2>4. buffer' = buffer /\ held' = held
    BY <1>4 DEF Unpack
  <2>5. last' \in 0 .. Len(sent)
    <3>1. last' \in {last, held}
      BY <1>4 DEF Unpack
    <3> QED BY <3>1
  <2> QED BY <2>2, <2>3, <2>4, <2>5
<1> QED BY <1>2, <1>3, <1>4 DEF deal_uart6_dma_proc

LEMMA TypeReceive ==
  ASSUME TypeInv, ~Overrun, Receive
  PROVE  TypeInv'
<1>1. Word \in Byte /\ pos \in 0 .. Last /\ sent # <<>>
  BY WordTyped, LastFacts DEF Receive, TypeInv, TypeOK
<1>2. /\ payload' \in Payloads
      /\ pos' \in 0 .. Last + 1
      /\ sent' = sent /\ sent \in Seq(Payloads)
      /\ gap' \in 0 .. MaxGap
      /\ cold' \in 0 .. MaxCold
      /\ intact' \in 0 .. 2
      /\ hurt' \in BOOLEAN
  BY <1>1, LinkAssumption, LastFacts DEF Receive, TypeInv, TypeOK
<1>3. deal_uart6_dma_proc(Word)
  BY DEF Receive
<1> QED BY <1>1, <1>2, <1>3, ProcTyped DEF TypeInv, TypeOK

LEMMA TypeCold ==
  ASSUME TypeInv, ~Overrun, NEW word \in ColdWords,
         calibrate_cold_start_btn_callback(word)
  PROVE  TypeInv'
<1>1. /\ deal_uart6_dma_proc(word) /\ word \in Byte
      /\ payload' = payload /\ pos' = pos /\ sent' = sent
      /\ gap' = gap /\ intact' = intact /\ hurt' = hurt
      /\ cold' = cold + 1 /\ cold < MaxCold
  BY LinkAssumption DEF calibrate_cold_start_btn_callback, sender
<1>2. cold' \in 0 .. MaxCold
  BY <1>1, LinkAssumption DEF TypeInv, TypeOK
<1> QED BY <1>1, <1>2, ProcTyped DEF TypeInv, TypeOK

LEMMA TypeLose ==
  ASSUME TypeInv, Lose
  PROVE  TypeInv'
  BY LastFacts, LinkAssumption DEF TypeInv, TypeOK, Lose, receiver

-----------------------------------------------------------------------------
(* How far package_counter runs.                                           *)
LEMMA HalfStep ==
  ASSUME NEW g \in Nat
  PROVE  /\ g \div 2 \in Nat /\ (g + 1) \div 2 \in Nat
         /\ g \div 2 <= (g + 1) \div 2
         /\ (g + 2) \div 2 = (g \div 2) + 1
  OBVIOUS

LEMMA InnerTimes ==
  ASSUME NEW a \in Nat, NEW b \in Nat, a <= b
  PROVE  /\ Inner * a \in Nat /\ Inner * b \in Nat /\ Inner * a <= Inner * b
         /\ Inner * (a + 1) = Inner * a + Inner
  BY LastFacts

LEMMA RoomFor ==
  ASSUME Roomy, NEW g \in 0 .. MaxGap
  PROVE  /\ Inner + Inner * (g \div 2) + MaxCold <= BufferSize
         /\ Inner * ((g + 1) \div 2) + MaxCold <= BufferSize
<1>1. /\ MaxGap \in Nat /\ g \in Nat /\ MaxGap \div 2 \in Nat /\ g \div 2 \in Nat
      /\ (g + 1) \div 2 \in Nat
      /\ g \div 2 <= MaxGap \div 2 /\ (g + 1) \div 2 <= (MaxGap \div 2) + 1
  BY LinkAssumption
<1>2. /\ Inner * (g \div 2) \in Nat /\ Inner * (MaxGap \div 2) \in Nat
      /\ Inner * (g \div 2) <= Inner * (MaxGap \div 2)
      /\ Inner * ((MaxGap \div 2) + 1) = Inner * (MaxGap \div 2) + Inner
      /\ Inner * ((g + 1) \div 2) \in Nat
      /\ Inner * ((g + 1) \div 2) <= Inner * ((MaxGap \div 2) + 1)
  BY <1>1, InnerTimes
<1>3. 1 + (MaxGap \div 2) = (MaxGap \div 2) + 1
  BY <1>1
<1>4. Inner * ((MaxGap \div 2) + 1) + MaxCold <= BufferSize
  BY <1>3 DEF Roomy
<1> QED BY <1>2, <1>4, LastFacts, LinkAssumption

LEMMA StoreFits ==
  ASSUME NEW n \in Nat, NEW p \in 1 .. Last, NEW m \in Nat, NEW c \in 0 .. MaxCold,
         n <= p - 1 + m + c, Inner + m + MaxCold <= BufferSize
  PROVE  n <= BufferSize
<1>1. /\ Last = Inner + 1 /\ Inner \in Nat /\ MaxCold \in Nat /\ BufferSize \in Nat
  BY LastFacts, LinkAssumption
<1>2. p - 1 <= Inner /\ c <= MaxCold /\ p \in Nat /\ c \in Nat
  BY <1>1
<1> QED BY <1>1, <1>2

CounterTypeInv == TypeInv /\ CounterInv

LEMMA CounterInit == Init => CounterTypeInv
<1> SUFFICES ASSUME Init PROVE CounterTypeInv
  OBVIOUS
<1>1. CounterInv
  BY LastFacts, LinkAssumption DEF Init, CounterInv, InBuffer, Overrun
<1> QED BY <1>1, TypeInit DEF CounterTypeInv

LEMMA CounterStep == CounterTypeInv /\ [Next]_vars => CounterTypeInv'
<1> SUFFICES ASSUME CounterTypeInv, [Next]_vars PROVE CounterTypeInv'
  OBVIOUS
<1> USE LastFacts
<1>1. /\ gap \in 0 .. MaxGap /\ gap \in Nat /\ counter \in Nat /\ pos \in 0 .. Last + 1
      /\ status \in 0 .. 2 /\ cold \in 0 .. MaxCold /\ cold \in Nat
      /\ CounterInv /\ TypeInv /\ BufferSize >= Inner /\ BufferSize \in Nat
      /\ MaxCold \in Nat
  BY LinkAssumption DEF CounterTypeInv, TypeInv, TypeOK
<1>2. ASSUME NEW data \in Payloads, Pack(data) PROVE CounterTypeInv'
  <2>1. TypeInv'
    BY <1>1, <1>2, TypePack
  <2>2. CounterInv'
    BY <1>1, <1>2 DEF CounterInv, Pack, receiver, InBuffer, Overrun
  <2> QED BY <2>1, <2>2 DEF CounterTypeInv
<1>3. CASE Receive /\ ~Overrun
  <2>1. TypeInv'
    BY <1>1, <1>3, TypeReceive
  <2>2. /\ pos \in 0 .. Last /\ pos' = pos + 1
        /\ pos \in {0, Last} => Word = Flag
        /\ gap' = IF Word = Flag THEN 0 ELSE gap
        /\ cold' = IF Word = Flag THEN 0 ELSE cold
    BY <1>1, <1>3, WordTyped DEF Receive, TypeInv
  <2>3. Inner * (gap' \div 2) \in Nat /\ Inner * ((gap' + 1) \div 2) \in Nat
    BY <1>1, <2>2, HalfStep, InnerTimes
  <2>4. ASSUME counter' = 0, status' \in {0, 1} PROVE CounterTypeInv'
    <3>1. CounterInv'
      BY <2>2, <2>3, <2>4, <1>1 DEF CounterInv, InBuffer, Overrun
    <3> QED BY <3>1, <2>1 DEF CounterTypeInv
  <2>5. CASE AwaitHeader(Word)
    BY <2>4, <2>5 DEF AwaitHeader
  <2>6. CASE Collect(Word) /\ Word = Flag
    <3>1. CASE counter # Inner
      BY <2>4, <2>6, <3>1 DEF Collect
    <3>2. CASE counter = Inner
      <4>1. CounterInv'
        BY <2>6, <3>2, <1>1 DEF Collect, CounterInv, InBuffer, Overrun
      <4> QED BY <4>1, <2>1 DEF CounterTypeInv
    <3> QED BY <3>1, <3>2
  <2>7. CASE Collect(Word) /\ Word # Flag
    <3>1. /\ pos \in 1 .. Last - 1 /\ pos' \in 1 .. Last /\ gap' = gap /\ cold' = cold
          /\ status = 1 /\ status' = 1 /\ counter' = counter + 1
      BY <2>2, <2>7 DEF Collect
    <3>2. counter <= pos - 1 + Inner * (gap \div 2) + cold
      BY <1>1, <3>1 DEF CounterInv
    <3>3. counter' <= pos' - 1 + Inner * (gap' \div 2) + cold'
      BY <1>1, <2>2, <2>3, <3>1, <3>2
    <3>4. ASSUME Roomy PROVE counter' <= BufferSize
      <4>1. PICK merged \in Nat : merged = Inner * (gap \div 2)
        BY <2>3, <3>1
      <4>2. Inner + merged + MaxCold <= BufferSize
        BY <1>1, <3>4, <4>1, RoomFor
      <4>3. counter' <= pos' - 1 + merged + cold'
        BY <3>1, <3>3, <4>1
      <4>4. pos' \in 1 .. Last
        BY <3>1
      <4>5. cold' \in 0 .. MaxCold /\ counter' \in Nat /\ merged \in Nat
        BY <1>1, <3>1, <4>1
      <4> QED BY <4>2, <4>3, <4>4, <4>5, StoreFits
    <3>5. Roomy' <=> Roomy
      BY DEF Roomy
    <3>6. (Roomy => InBuffer)'
      BY <1>1, <3>1, <3>4, <3>5 DEF InBuffer, Overrun
    <3>7. CounterInv'
      BY <3>1, <3>3, <3>6 DEF CounterInv
    <3> QED BY <3>7, <2>1 DEF CounterTypeInv
  <2>8. CASE Unpack(Word)
    BY <2>4, <2>8 DEF Unpack
  <2> QED BY <1>3, <2>5, <2>6, <2>7, <2>8 DEF Receive, deal_uart6_dma_proc
<1>4. CASE Lose
  <2>1. TypeInv'
    BY <1>1, <1>4, TypeLose
  <2>2. /\ pos \in 0 .. Last /\ pos' = pos + 1 /\ gap' = gap + 1
        /\ status' = status /\ counter' = counter /\ cold' = cold
    BY <1>1, <1>4 DEF Lose, receiver
  <2>3. /\ Inner * (gap \div 2) \in Nat
        /\ Inner * (gap \div 2) <= Inner * (gap' \div 2)
        /\ Inner * (gap' \div 2) \in Nat
    BY <1>1, <2>2, HalfStep, InnerTimes
  <2>4. Inner * ((gap' + 1) \div 2) = Inner * (gap \div 2) + Inner
    <3>1. (gap' + 1) \div 2 = (gap \div 2) + 1
      BY <1>1, <2>2, HalfStep
    <3> QED BY <3>1, <1>1, HalfStep, InnerTimes
  <2>5. ASSUME status' = 1, pos' \in 1 .. Last
        PROVE  counter' <= pos' - 1 + Inner * (gap' \div 2) + cold'
    <3>1. CASE pos = 0
      <4>1. counter <= Inner * ((gap + 1) \div 2) + cold
        BY <1>1, <2>2, <2>5, <3>1 DEF CounterInv
      <4> QED BY <4>1, <1>1, <2>2, <2>3, <3>1
    <3>2. CASE pos \in 1 .. Last
      <4>1. counter <= pos - 1 + Inner * (gap \div 2) + cold
        BY <1>1, <2>2, <2>5, <3>2 DEF CounterInv
      <4> QED BY <4>1, <1>1, <2>2, <2>3
    <3> QED BY <3>1, <3>2, <2>2
  <2>6. ASSUME status' = 1, pos' \notin 1 .. Last
        PROVE  counter' <= Inner * ((gap' + 1) \div 2) + cold'
    <3>1. pos = Last
      BY <2>2, <2>6
    <3>2. counter <= Last - 1 + Inner * (gap \div 2) + cold
      BY <1>1, <2>2, <2>6, <3>1 DEF CounterInv
    <3> QED BY <3>2, <1>1, <2>2, <2>3, <2>4
  <2>7. CounterInv'
    BY <1>1, <2>2, <2>5, <2>6 DEF CounterInv, InBuffer, Overrun
  <2> QED BY <2>1, <2>7 DEF CounterTypeInv
<1>5. ASSUME ~Overrun, NEW word \in ColdWords, calibrate_cold_start_btn_callback(word)
      PROVE  CounterTypeInv'
  <2>1. TypeInv'
    BY <1>1, <1>5, TypeCold
  <2>2. /\ pos = Last + 1 /\ pos' = pos /\ gap' = gap /\ cold' = cold + 1
        /\ cold' \in 1 .. MaxCold /\ word # Flag /\ deal_uart6_dma_proc(word)
    BY <1>1, <1>5, LinkAssumption DEF calibrate_cold_start_btn_callback, sender
  <2>3. Inner * ((gap + 1) \div 2) \in Nat
    BY <1>1, HalfStep, InnerTimes
  <2>4. ASSUME counter' = 0, status' \in {0, 1} PROVE CounterTypeInv'
    <3>1. CounterInv'
      BY <2>2, <2>3, <2>4, <1>1 DEF CounterInv, InBuffer, Overrun
    <3> QED BY <3>1, <2>1 DEF CounterTypeInv
  <2>5. CASE AwaitHeader(word)
    BY <2>4, <2>5 DEF AwaitHeader
  <2>6. CASE Collect(word)
    <3>1. status = 1 /\ status' = 1 /\ counter' = counter + 1
      BY <2>2, <2>6 DEF Collect
    <3>2. counter' <= Inner * ((gap' + 1) \div 2) + cold'
      BY <1>1, <2>2, <2>3, <3>1 DEF CounterInv
    <3>3. Roomy => counter' <= BufferSize
      BY <1>1, <2>2, <2>3, <3>1, <3>2, RoomFor
    <3>4. Roomy' <=> Roomy
      BY DEF Roomy
    <3>5. (Roomy => InBuffer)'
      BY <1>1, <3>1, <3>3, <3>4 DEF InBuffer, Overrun
    <3>6. CounterInv'
      BY <2>2, <3>1, <3>2, <3>5 DEF CounterInv
    <3> QED BY <3>6, <2>1 DEF CounterTypeInv
  <2>7. CASE Unpack(word)
    BY <2>4, <2>7 DEF Unpack
  <2> QED BY <2>2, <2>5, <2>6, <2>7 DEF deal_uart6_dma_proc
<1>6. CASE UNCHANGED vars
  BY <1>1, <1>6 DEF vars, sender, receiver, line, CounterTypeInv, CounterInv, TypeInv, TypeOK,
                    InBuffer, Overrun
<1> QED BY <1>2, <1>3, <1>4, <1>5, <1>6 DEF Next

(* The counter of deal_uart6_dma_proc grows by at most one frame for every *)
(* two words lost since the last flag, and by one for each word of the     *)
(* cold start command, whatever the payloads are.                          *)
THEOREM CounterBounded == Spec => []CounterInv
<1>1. CounterTypeInv => CounterInv
  BY DEF CounterTypeInv
<1> QED BY <1>1, CounterInit, CounterStep, PTL DEF Spec

(* package_buffer is never overrun while few words are lost, and few of    *)
(* the command come, between two flags.  The other theorems are of lines   *)
(* for which this holds.                                                   *)
THEOREM NoOverrun ==
  ASSUME Roomy
  PROVE  Spec => []InBuffer
<1>1. CounterTypeInv => InBuffer
  BY DEF CounterTypeInv, CounterInv
<1> QED BY <1>1, CounterInit, CounterStep, PTL DEF Spec

-----------------------------------------------------------------------------
(* Promise: what a frame of a clean payload looks like and unpacks to.     *)
LEMMA FrameTransparent ==
  ASSUME NEW data \in Payloads, Clean(data), NEW k \in 0 .. Last
  PROVE  precossing_proc_to_control(data)[k] = Flag <=> k \in {0, Last}
<1> USE LastFacts, LinkAssumption
<1>1. CASE k \in {0, Last}
  BY <1>1, FrameWords
<1>2. CASE k = Inner
  BY <1>2, FrameWords DEF Clean
<1>3. CASE k \in 1 .. Inner - 1
  <2>1. k - 1 \in 0 .. 2 * Width + 1 /\ k \notin {0, Last}
    BY <1>3
  <2>2. Covered(data)[k - 1] # Flag
    BY <2>1, ByteFacts DEF Covered, Clean
  <2> QED BY <1>3, <2>1, <2>2, FrameWords
<1> QED BY <1>1, <1>2, <1>3

LEMMA RoundTrip ==
  ASSUME NEW data \in Payloads, Restorable(data), NEW b \in [Slot -> Byte],
         \A i \in 0 .. Inner - 1 : b[i] = precossing_proc_to_control(data)[i + 1]
  PROVE  Unpacked(b) = data
<1> USE LastFacts, LinkAssumption
<1>1. ASSUME NEW i \in 0 .. 2 * Width + 1
      PROVE  b[i] = Covered(data)[i]
  <2>1. i \in 0 .. Inner - 1 /\ i + 1 \in 1 .. Inner - 1 /\ (i + 1) - 1 = i
    OBVIOUS
  <2>2. precossing_proc_to_control(data)[i + 1] = Covered(data)[(i + 1) - 1]
    BY <2>1, FrameWords
  <2> QED BY <2>1, <2>2
<1>2. b[2 * Width] = Adjust(data, 0) /\ b[2 * Width + 1] = Adjust(data, Width)
  <2>1. 2 * Width \in 0 .. 2 * Width + 1 /\ 2 * Width + 1 \in 0 .. 2 * Width + 1
    OBVIOUS
  <2>2. Covered(data)[2 * Width] = Adjust(data, 0)
    BY <2>1 DEF Covered
  <2>3. Covered(data)[2 * Width + 1] = Adjust(data, Width)
    <3>1. 2 * Width + 1 # 2 * Width
      OBVIOUS
    <3> QED BY <2>1, <3>1 DEF Covered
  <2> QED BY <1>1, <2>1, <2>2, <2>3
<1>3. ASSUME NEW i \in 0 .. 2 * Width - 1
      PROVE  (IF TopBit(i) \in b[2 * Width + (i \div Width)] THEN Flag ELSE b[i]) = data[i]
  <2>1. b[i] = IF data[i] = Flag THEN Zero ELSE data[i]
    <3>1. i \in 0 .. 2 * Width + 1 /\ i # 2 * Width /\ i # 2 * Width + 1
      OBVIOUS
    <3>2. Covered(data)[i] = IF data[i] = Flag THEN Zero ELSE data[i]
      BY <3>1 DEF Covered
    <3> QED BY <1>1, <3>1, <3>2
  <2>2. CASE i < Width
    <3>1. i \div Width = 0 /\ 2 * Width + 0 = 2 * Width
      BY <2>2
    <3>2. TopBit(i) \in Adjust(data, 0) <=> data[i] = Flag
      <4>1. i \in Bit /\ 0 + i = i
        BY <2>2 DEF Bit
      <4>2. \A j \in Bit : TopBit(i) = TopBit(j) => j = i
        BY DEF TopBit, Bit
      <4>3. \A j \in Bit : 0 + j = j
        BY DEF Bit
      <4> QED BY <4>1, <4>2, <4>3 DEF Adjust
    <3> QED BY <3>1, <3>2, <2>1, <1>2
  <2>3. CASE i >= Width
    <3>1. i \div Width = 1
      BY <2>3
    <3>2. Adjust(data, Width) = {}
      BY DEF Restorable
    <3>3. data[i] # Flag
      <4>1. i - Width \in Bit /\ Width + (i - Width) = i
        BY <2>3 DEF Bit
      <4>2. data[i] = Flag => TopBit(i - Width) \in Adjust(data, Width)
        BY <4>1 DEF Adjust
      <4> QED BY <4>2, <3>2
    <3> QED BY <3>1, <3>2, <3>3, <2>1, <1>2
  <2> QED BY <2>2, <2>3
<1>4. Unpacked(b) = [i \in 0 .. 2 * Width - 1 |-> data[i]]
  BY <1>3 DEF Unpacked
<1> QED BY <1>4 DEF Payload

Transparent == \A data \in Payloads : Clean(data) /\ Restorable(data)

LEMMA WordFlag ==
  ASSUME Transparent, TypeOK, pos \in 0 .. Last
  PROVE  Word \in Byte /\ (Word = Flag <=> pos \in {0, Last})
<1>1. payload \in Payloads /\ Clean(payload)
  BY DEF Transparent, TypeOK
<1> QED BY <1>1, FrameTransparent, WordTyped, LastFacts DEF Word

(* Few words are lost, few of the cold start command come, and not both,   *)
(* between two flags that are received.                                    *)
Sparse == MaxGap <= Inner /\ MaxCold < Inner /\ Apart

Progress == Following \/ Unclosed \/ Empty \/ Short \/ Mixed \/ Over \/ Foreign

LEMMA InvTyped == LinkInv => TypeInv
  BY DEF LinkInv, TypeInv

LEMMA InvInit == Init => LinkInv
  BY TypeInit, LastFacts DEF Init, LinkInv, TypeInv

LEMMA InvPack ==
  ASSUME LinkInv, MaxGap <= Inner, NEW data \in Payloads, Pack(data)
  PROVE  LinkInv'
<1> USE LastFacts, LinkAssumption
<1>1. TypeOK' /\ TypeOK
  BY InvTyped, TypePack DEF TypeInv
<1>2. /\ sent' = Append(sent, data) /\ payload' = data /\ pos = Last + 1 /\ pos' = 0
      /\ status' = status /\ counter' = counter /\ buffer' = buffer
      /\ last' = last /\ held' = held /\ gap' = gap /\ cold' = cold
  BY DEF Pack, receiver
<1>3. /\ Len(sent) \in Nat /\ Len(sent') = Len(sent) + 1
      /\ sent'[Len(sent')] = data /\ sent' # <<>>
      /\ \A n \in 1 .. Len(sent) : sent'[n] = sent[n]
  <2>1. sent \in Seq(Payloads)
    BY <1>1 DEF TypeOK
  <2> QED BY <2>1, <1>2
<1>4. last' < Len(sent') /\ held' < Len(sent') /\ counter \in Nat /\ gap \in 0 .. MaxGap
  BY <1>1, <1>2, <1>3 DEF TypeOK
<1>5. ASSUME status = 1 PROVE Progress'
  <2>1. sent # <<>> /\ payload = sent[Len(sent)] /\ Len(sent) \in 1 .. Len(sent)
    BY <1>1, <1>3, <1>5 DEF LinkInv, TypeOK
  <2>2. CASE Following
    BY <2>2, <1>2 DEF Following
  <2>3. CASE Unclosed
    <3>1. counter = Inner /\ gap >= 1 /\ Holds(payload) /\ last < Len(sent)
      BY <2>3, <1>2 DEF Unclosed
    <3>2. sent'[Len(sent') - 1] = payload
      BY <2>1, <1>3
    <3>3. Holds(sent[Len(sent) - 1])'
      BY <3>1, <3>2, <1>2 DEF Holds
    <3>4. last' < Len(sent') - 1
      BY <3>1, <1>1, <1>2, <1>3 DEF TypeOK
    <3>5. Unclosed'
      BY <3>1, <3>3, <3>4, <1>2 DEF Unclosed
    <3> QED BY <3>5 DEF Progress
  <2>4. CASE Empty
    BY <2>4, <1>2 DEF Empty, Progress
  <2>5. CASE Short
    BY <2>5, <1>2, <1>4 DEF Short, Progress
  <2>6. CASE Mixed
    BY <2>6, <1>2, <1>4 DEF Mixed
  <2>7. CASE Over
    BY <2>7, <1>2 DEF Over, Progress
  <2>8. CASE Foreign
    BY <2>8, <1>2 DEF Foreign, Progress
  <2> QED BY <1>5, <2>2, <2>3, <2>4, <2>5, <2>6, <2>7, <2>8 DEF LinkInv
<1>6. ASSUME status = 2 PROVE counter' = Inner /\ Held'
  <2>1. held \in last + 1 .. Len(sent) /\ Holds(sent[held]) /\ counter = Inner
    BY <1>6 DEF LinkInv, Held
  <2>2. held \in 1 .. Len(sent)
    BY <2>1, <1>1 DEF TypeOK
  <2>3. held' \in last' + 1 .. Len(sent')
    BY <2>1, <1>1, <1>2, <1>3 DEF TypeOK
  <2>4. Holds(sent[held])'
    BY <2>1, <2>2, <1>2, <1>3 DEF Holds
  <2> QED BY <2>1, <2>3, <2>4, <1>2 DEF Held
<1> QED BY <1>1, <1>2, <1>3, <1>4, <1>5, <1>6 DEF LinkInv, Progress

(* A word stored in its place leaves the frame so far in the buffer.       *)
LEMMA HoldsMore ==
  ASSUME TypeOK, pos \in 1 .. Inner, counter = pos - 1, Holds(payload),
         Collect(Word), Word # Flag, payload' = payload
  PROVE  Holds(payload)'
<1> USE LastFacts, LinkAssumption
<1>1. /\ counter' = counter + 1 /\ counter \in Nat
      /\ buffer' = [buffer EXCEPT ![counter] = Word]
  BY DEF Collect, TypeOK
<1>2. ASSUME NEW i \in 0 .. Inner - 1, i < counter'
      PROVE  buffer'[i] = precossing_proc_to_control(payload)[i + 1]
  <2>1. buffer \in [Slot -> Byte] /\ counter \in Slot /\ i \in Slot
    BY DEF TypeOK, Slot
  <2>2. CASE i = counter
    <3>1. buffer'[i] = Word /\ i + 1 = pos
      BY <1>1, <2>1, <2>2
    <3> QED BY <3>1 DEF Word
  <2>3. CASE i < counter
    BY <1>1, <2>1, <2>3 DEF Holds
  <2> QED BY <2>2, <2>3, <1>2, <1>1
<1> QED BY <1>2 DEF Holds

LEMMA InvReceive ==
  ASSUME LinkInv, Transparent, MaxGap <= Inner, MaxCold < Inner, ~Overrun, Receive
  PROVE  LinkInv'
<1> USE LastFacts, LinkAssumption
<1>1. TypeOK /\ sent # <<>> /\ pos \in 0 .. Last
  BY DEF LinkInv, TypeOK, Receive
<1>2. TypeOK'
  BY InvTyped, TypeReceive DEF TypeInv
<1>3. Word \in Byte /\ (Word = Flag <=> pos \in {0, Last})
  BY <1>1, WordFlag
<1>4. /\ payload' = payload /\ sent' = sent /\ pos' = pos + 1
      /\ gap' = IF Word = Flag THEN 0 ELSE gap
  BY DEF Receive
<1>5. /\ Len(sent) \in Nat /\ gap \in 0 .. MaxGap /\ counter \in Nat
      /\ last < Len(sent) /\ held < Len(sent) /\ last \in Nat
  BY <1>1 DEF TypeOK, LinkInv
<1>0. cold' = 0 /\ (cold > 0 => pos = 0)
  <2>1. cold \in Nat /\ (cold > 0 => pos \in {0, Last + 1})
    BY <1>1 DEF LinkInv, TypeOK
  <2> QED BY <2>1, <1>1, <1>3 DEF Receive
<1>6. CASE AwaitHeader(Word)
  <2>1. /\ counter' = 0 /\ status' \in {0, 1} /\ last' = last /\ held' = held
        /\ status' = 1 => Word = Flag
    BY <1>6 DEF AwaitHeader
  <2>2. status' = 1 => Empty'
    BY <2>1, <1>1, <1>3, <1>4 DEF Empty
  <2> QED BY <2>1, <2>2, <1>1, <1>2, <1>4, <1>5, <1>0 DEF LinkInv
<1>7. CASE Collect(Word) /\ Word = Flag
  <2>1. pos \in {0, Last} /\ last' = last /\ buffer' = buffer /\ status = 1 /\ gap' = 0
    BY <1>3, <1>4, <1>7 DEF Collect
  <2>2. CASE counter # Inner
    <3>1. counter' = 0 /\ status' = 1 /\ held' = held
      BY <1>7, <2>2 DEF Collect
    <3>2. Empty'
      BY <3>1, <2>1, <1>4 DEF Empty
    <3> QED BY <3>1, <3>2, <2>1, <1>1, <1>2, <1>4, <1>5, <1>0 DEF LinkInv
  <2>3. CASE counter = Inner
    <3>1. counter' = Inner /\ status' = 2 /\ held' = Closing
      BY <1>7, <2>3 DEF Collect
    <3>2. ~Empty /\ ~Short /\ ~Over /\ ~Foreign
      <4>1. cold \in 0 .. MaxCold
        BY <1>1 DEF TypeOK
      <4> QED BY <4>1, <2>1, <2>3, <1>5 DEF Empty, Short, Over, Foreign
    <3>3. ~Mixed
      BY <2>1, <2>3, <1>5 DEF Mixed
    <3>4. Following \/ Unclosed
      BY <3>2, <3>3, <2>1 DEF LinkInv
    <3>5. Closing \in last + 1 .. Len(sent) /\ Holds(sent[Closing])
      <4>1. CASE Following
        <5>1. pos = Last /\ Holds(payload) /\ payload = sent[Len(sent)]
          BY <4>1, <1>1, <2>1 DEF Following, LinkInv
        <5> QED BY <5>1, <1>5 DEF Closing
      <4>2. CASE Unclosed
        <5>1. pos = 0 /\ last < Len(sent) - 1 /\ Holds(sent[Len(sent) - 1])
          BY <4>2, <2>1 DEF Unclosed
        <5> QED BY <5>1, <1>5 DEF Closing
      <4> QED BY <3>4, <4>1, <4>2
    <3>6. Held'
      <4>1. Holds(sent[held])'
        BY <3>1, <3>5, <2>1, <2>3, <1>4 DEF Holds
      <4>2. pos' \in 1 .. Last => gap' >= pos' - 1
        BY <2>1, <1>4
      <4> QED BY <4>1, <4>2, <3>1, <3>5, <2>1, <1>4 DEF Held
    <3>7. pos' <= Last => held' < Len(sent')
      BY <3>1, <2>1, <1>4, <1>5 DEF Closing
    <3> QED BY <3>1, <3>6, <3>7, <2>1, <1>1, <1>2, <1>4, <1>5, <1>0 DEF LinkInv
  <2> QED BY <2>2, <2>3
<1>8. CASE Collect(Word) /\ Word # Flag
  <2>1. /\ pos \in 1 .. Last - 1
        /\ counter' = counter + 1 /\ status = 1 /\ status' = 1
        /\ buffer' = [buffer EXCEPT ![counter] = Word]
        /\ gap' = gap /\ last' = last /\ held' = held
    BY <1>8, <1>1, <1>3, <1>4 DEF Collect
  <2>2. ASSUME counter = pos - 1, Holds(payload)
        PROVE  Following'
    <3>1. pos \in 1 .. Inner
      BY <2>1
    <3>2. Holds(payload)'
      BY <1>1, <1>3, <1>4, <1>8, <2>1, <2>2, <3>1, HoldsMore
    <3> QED BY <3>2, <2>1, <2>2, <1>4 DEF Following
  <2>3. Progress'
    <3>1. CASE Following
      BY <2>2, <3>1 DEF Following, Progress
    <3>2. CASE Unclosed
      BY <2>1, <3>2 DEF Unclosed
    <3>3. CASE Empty
      <4>1. CASE pos = 1
        BY <4>1, <2>2, <3>3, <2>1 DEF Empty, Holds, Progress
      <4>2. CASE pos # 1
        BY <4>2, <3>3, <2>1, <1>4, <1>5 DEF Empty, Short, Progress
      <4> QED BY <4>1, <4>2
    <3>4. CASE Short
      BY <3>4, <2>1, <1>4, <1>5 DEF Short, Progress
    <3>5. CASE Mixed
      BY <3>5, <2>1, <1>4, <1>5 DEF Mixed, Over, Progress
    <3>6. CASE Over
      BY <3>6, <2>1, <1>5 DEF Over, Progress
    <3>7. ~Foreign
      BY <1>0, <1>1, <2>1 DEF Foreign
    <3> QED BY <2>1, <3>1, <3>2, <3>3, <3>4, <3>5, <3>6, <3>7 DEF LinkInv
  <2> QED BY <2>1, <2>3, <1>1, <1>2, <1>4, <1>5, <1>0 DEF LinkInv, Progress
<1>9. CASE Unpack(Word)
  <2>1. counter' = 0 /\ status' = 1 /\ held' = held /\ last' \in {last, held} /\ status = 2
    BY <1>9 DEF Unpack
  <2>2. last' < Len(sent')
    BY <2>1, <1>4, <1>5
  <2>3. pos \in 1 .. Last => gap >= pos - 1
    BY <2>1 DEF LinkInv, Held
  <2>4. Empty'
    BY <2>1, <2>3, <1>1, <1>3, <1>4, <1>5 DEF Empty
  <2> QED BY <2>1, <2>2, <2>4, <1>1, <1>2, <1>4, <1>5, <1>0 DEF LinkInv
<1> QED BY <1>6, <1>7, <1>8, <1>9 DEF Receive, deal_uart6_dma_proc

LEMMA InvLose ==
  ASSUME LinkInv, Apart, Lose
  PROVE  LinkInv'
<1> USE LastFacts, LinkAssumption
<1>1. TypeOK /\ sent # <<>> /\ pos \in 0 .. Last
  BY DEF LinkInv, TypeOK, Lose
<1>2. TypeOK'
  BY InvTyped, TypeLose DEF TypeInv
<1>3. /\ payload' = payload /\ sent' = sent /\ pos' = pos + 1 /\ gap' = gap + 1
      /\ status' = status /\ counter' = counter /\ buffer' = buffer
      /\ delivered' = delivered /\ last' = last /\ held' = held
      /\ cold = 0 /\ cold' = 0
  BY DEF Lose, receiver
<1>4. /\ gap \in Nat /\ counter \in Nat /\ last < Len(sent) /\ held < Len(sent)
      /\ Len(sent) \in Nat
  BY <1>1 DEF TypeOK, LinkInv
<1>5. ASSUME status = 1 PROVE Progress'
  <2>1. CASE Following
    <3>1. CASE pos < Last
      BY <2>1, <3>1, <1>1, <1>3, <1>4 DEF Following, Short, Progress
    <3>2. CASE pos = Last
      <4>1. Holds(payload)'
        BY <2>1, <1>3 DEF Following, Holds
      <4> QED BY <2>1, <3>2, <4>1, <1>3, <1>4 DEF Following, Unclosed, Progress
    <3> QED BY <3>1, <3>2, <1>1
  <2>2. CASE Unclosed
    BY <2>2, <1>1, <1>3, <1>4 DEF Unclosed, Mixed, Progress
  <2>3. CASE Empty
    BY <2>3, <1>1, <1>3, <1>4 DEF Empty, Progress
  <2>4. CASE Short
    BY <2>4, <1>1, <1>3, <1>4 DEF Short, Mixed, Progress
  <2>5. CASE Mixed
    BY <2>5, <1>1, <1>3, <1>4 DEF Mixed, Progress
  <2>6. CASE Over
    BY <2>6, <1>3, <1>4 DEF Over, Progress
  <2>7. ~Foreign
    BY <1>3 DEF Foreign
  <2> QED BY <1>5, <2>1, <2>2, <2>3, <2>4, <2>5, <2>6, <2>7 DEF LinkInv
<1>6. ASSUME status = 2 PROVE counter' = Inner /\ Held'
  <2>1. Holds(sent[held])'
    BY <1>6, <1>3 DEF LinkInv, Held, Holds
  <2> QED BY <2>1, <1>6, <1>1, <1>3, <1>4 DEF LinkInv, Held
<1> QED BY <1>1, <1>2, <1>3, <1>4, <1>5, <1>6 DEF LinkInv, Progress

LEMMA InvCold ==
  ASSUME LinkInv, Apart, ~Overrun, NEW word \in ColdWords,
         calibrate_cold_start_btn_callback(word)
  PROVE  LinkInv'
<1> USE LastFacts, LinkAssumption
<1>1. TypeOK /\ TypeOK'
  BY InvTyped, TypeCold DEF TypeInv, LinkInv
<1>2. /\ payload' = payload /\ sent' = sent /\ pos = Last + 1 /\ pos' = pos
      /\ gap = 0 /\ gap' = 0 /\ cold' = cold + 1
      /\ word # Flag /\ deal_uart6_dma_proc(word)
  BY DEF calibrate_cold_start_btn_callback, sender
<1>3. cold \in Nat /\ counter \in Nat /\ cold' > 0
  BY <1>1, <1>2 DEF TypeOK
<1>4. CASE AwaitHeader(word)
  BY <1>1, <1>2, <1>3, <1>4 DEF AwaitHeader, LinkInv
<1>5. CASE Collect(word)
  <2>1. status = 1 /\ status' = 1 /\ counter' = counter + 1
    BY <1>2, <1>5 DEF Collect
  <2>2. counter <= cold
    <3>1. ~Following /\ ~Unclosed /\ ~Over
      BY <1>2 DEF Following, Unclosed, Over
    <3>2. ~Short /\ ~Mixed
      BY <1>2, <1>3 DEF Short, Mixed
    <3>3. Empty \/ Foreign
      BY <2>1, <3>1, <3>2 DEF LinkInv
    <3> QED BY <3>3, <1>3 DEF Empty, Foreign
  <2>3. Foreign'
    BY <2>1, <2>2, <1>2, <1>3 DEF Foreign
  <2> QED BY <2>1, <2>3, <1>1, <1>2 DEF LinkInv
<1>6. CASE Unpack(word)
  <2>1. status = 2 /\ status' = 1 /\ counter' = 0
    BY <1>6 DEF Unpack
  <2>2. Foreign'
    BY <2>1, <1>2, <1>3 DEF Foreign
  <2>3. sent' # <<>> /\ payload' = sent'[Len(sent')] /\ ~(pos' <= Last)
    BY <2>1, <1>2 DEF LinkInv
  <2> QED BY <2>1, <2>2, <2>3, <1>1, <1>2 DEF LinkInv
<1> QED BY <1>2, <1>4, <1>5, <1>6 DEF deal_uart6_dma_proc

(* LinkInv is inductive: no excess of one frame makes up for the words     *)
(* missing in another.                                                     *)
LEMMA InvStep ==
  ASSUME Sparse, Transparent
  PROVE  LinkInv /\ [Next]_vars => LinkInv'
<1> SUFFICES ASSUME LinkInv, [Next]_vars PROVE LinkInv'
  OBVIOUS
<1>0. MaxGap <= Inner /\ MaxCold < Inner /\ Apart
  BY DEF Sparse
<1>1. ASSUME NEW data \in Payloads, Pack(data) PROVE LinkInv'
  BY <1>0, <1>1, InvPack
<1>2. CASE Receive /\ ~Overrun
  BY <1>0, <1>2, InvReceive
<1>3. CASE Lose
  BY <1>0, <1>3, InvLose
<1>5. ASSUME ~Overrun, NEW word \in ColdWords, calibrate_cold_start_btn_callback(word)
      PROVE  LinkInv'
  BY <1>0, <1>5, InvCold
<1>4. CASE UNCHANGED vars
  BY <1>4 DEF vars, sender, receiver, line, LinkInv, TypeOK, Following, Unclosed,
              Empty, Short, Mixed, Over, Foreign, Held, Holds
<1> QED BY <1>1, <1>2, <1>3, <1>4, <1>5 DEF Next

LEMMA ProcRefines ==
  ASSUME LinkInv, Transparent, NEW word, deal_uart6_dma_proc(word), sent' = sent
  PROVE  [Channel!Next]_Channel!vars
<1> USE LastFacts, LinkAssumption DEF Channel!vars
<1>1. CASE Unpack(word) /\ Checks(buffer)
  <2>1. status = 2 /\ counter = Inner /\ held \in last + 1 .. Len(sent) /\ Holds(sent[held])
    BY <1>1 DEF Unpack, LinkInv, Held
  <2>2. held \in 1 .. Len(sent) /\ held > last /\ sent \in Seq(Payloads)
    BY <2>1 DEF LinkInv, TypeOK
  <2>3. sent[held] \in Payloads /\ Restorable(sent[held])
    BY <2>2 DEF Transparent
  <2>4. \A i \in 0 .. Inner - 1 :
          buffer[i] = precossing_proc_to_control(sent[held])[i + 1]
    BY <2>1 DEF Holds
  <2>5. Unpacked(buffer) = sent[held]
    BY <2>3, <2>4, RoundTrip DEF LinkInv, TypeOK
  <2>6. Channel!Deliver(held)
    BY <1>1, <2>2, <2>5 DEF Unpack, Channel!Deliver
  <2> QED BY <2>2, <2>6 DEF Channel!Next
<1>2. CASE ~(Unpack(word) /\ Checks(buffer))
  <2>1. delivered' = delivered /\ last' = last
    BY <1>2 DEF deal_uart6_dma_proc, AwaitHeader, Collect, Unpack
  <2> QED BY <2>1
<1> QED BY <1>1, <1>2

LEMMA StepRefines ==
  ASSUME LinkInv, Transparent, [Next]_vars
  PROVE  [Channel!Next]_Channel!vars
<1>1. ASSUME NEW data \in Payloads, Pack(data) PROVE [Channel!Next]_Channel!vars
  BY <1>1 DEF Pack, receiver, Channel!Send, Channel!Next
<1>2. CASE Receive
  BY <1>2, ProcRefines DEF Receive
<1>3. CASE Lose
  BY <1>3 DEF Lose, receiver, Channel!vars
<1>4. ASSUME NEW word \in ColdWords, calibrate_cold_start_btn_callback(word)
      PROVE  [Channel!Next]_Channel!vars
  BY <1>4, ProcRefines DEF calibrate_cold_start_btn_callback, sender
<1>5. CASE UNCHANGED vars
  BY <1>5 DEF vars, sender, receiver, Channel!vars
<1> QED BY <1>1, <1>2, <1>3, <1>4, <1>5 DEF Next

(* The receiver of ctrl_mcu implements the abstract channel as long as no  *)
(* payload puts a flag inside its frame or has 0xff in its second group,   *)
(* the line is Sparse and package_buffer is Roomy: what proc_data takes    *)
(* was sent by fusion_task, once and in order, and nothing is written      *)
(* behind the buffer.  The crc is not used: it need not reject anything.   *)
THEOREM PromiseKept ==
  ASSUME Sparse, Roomy,
         \A data \in Payloads : Clean(data) /\ Restorable(data)
  PROVE  Spec => []InBuffer /\ Promise
<1>1. Init => LinkInv /\ Channel!Init
  BY InvInit DEF Init, Channel!Init
<1>0. Transparent
  BY DEF Transparent
<1>2. LinkInv /\ [Next]_vars => LinkInv'
  BY <1>0, InvStep
<1>3. LinkInv /\ [Next]_vars => [Channel!Next]_Channel!vars
  BY <1>0, StepRefines
<1>4. Spec => []InBuffer
  BY NoOverrun
<1> QED BY <1>1, <1>2, <1>3, <1>4, PTL DEF Spec, Promise, Channel!Spec

(* The inductive invariant behind Promise, for every width, payload and    *)
(* number of frames.                                                       *)
THEOREM FramesKeptApart ==
  ASSUME Sparse, Roomy,
         \A data \in Payloads : Clean(data) /\ Restorable(data)
  PROVE  Spec => [](InBuffer /\ LinkInv)
<1>0. Transparent
  BY DEF Transparent
<1>1. LinkInv /\ [Next]_vars => LinkInv'
  BY <1>0, InvStep
<1>2. Spec => []InBuffer
  BY NoOverrun
<1> QED BY <1>1, <1>2, InvInit, PTL DEF Spec

-----------------------------------------------------------------------------
(* Resynchronised: after one frame received whole the receiver either has  *)
(* it or has nothing collected, and it counts the words of the next.       *)
Ready == counter <= cold \/ status = 2

(* The frame received last is unpacked, or will be with the next word.     *)
Kept ==
  /\ held = Len(sent)
  /\ IF cold = 0 THEN status = 2 /\ Checks(buffer) ELSE last = Len(sent)

ResyncInv ==
  /\ TypeInv
  /\ status = 0 => counter = 0
  /\ hurt => intact = 0
  /\ intact >= 1 /\ pos \notin 1 .. Last => Ready
  /\ intact >= 1 /\ pos \in 1 .. Last => status = 1 /\ counter = pos - 1 /\ Holds(payload)
  /\ intact = 2 /\ pos = Last + 1 => Kept
  /\ pos <= Last => held < Len(sent)
  /\ sent # <<>> /\ (pos <= Last \/ cold = 0) => last < Len(sent)

(* A frame passes its own crc.                                             *)
LEMMA FrameChecks ==
  ASSUME TypeOK, counter = Inner, Holds(payload)
  PROVE  Checks(buffer)
<1> USE LastFacts
<1>1. payload \in Payloads /\ payload \in Payload
  BY LinkAssumption DEF TypeOK
<1>2. ASSUME NEW k \in 0 .. 2 * Width + 1
      PROVE  buffer[k] = Covered(payload)[k]
  <2>1. k \in 0 .. Inner - 1 /\ k < counter /\ k + 1 \in 1 .. Inner - 1 /\ (k + 1) - 1 = k
    OBVIOUS
  <2>2. buffer[k] = precossing_proc_to_control(payload)[k + 1]
    BY <2>1 DEF Holds
  <2> QED BY <2>1, <2>2, <1>1, FrameWords
<1>3. [k \in 0 .. 2 * Width + 1 |-> buffer[k]] = Covered(payload)
  BY <1>1, <1>2, CoveredTyped
<1>4. buffer[Inner - 1] = Crc8(Covered(payload))
  <2>1. Inner - 1 \in 0 .. Inner - 1 /\ Inner - 1 < counter /\ (Inner - 1) + 1 = Inner
    OBVIOUS
  <2>2. buffer[Inner - 1] = precossing_proc_to_control(payload)[Inner]
    BY <2>1 DEF Holds
  <2> QED BY <2>2, <1>1, FrameWords
<1> QED BY <1>3, <1>4 DEF Checks

LEMMA ResyncPack ==
  ASSUME ResyncInv, NEW data \in Payloads, Pack(data)
  PROVE  ResyncInv'
<1>1. TypeInv'
  BY TypePack DEF ResyncInv
<1>2. /\ pos = Last + 1 /\ pos' = 0 /\ ~hurt'
      /\ status' = status /\ counter' = counter /\ held' = held /\ last' = last
      /\ intact' = intact /\ cold' = cold
  BY DEF Pack, receiver
<1>3. Len(sent') = Len(sent) + 1 /\ Len(sent) \in Nat /\ held \in 0 .. Len(sent)
      /\ last \in 0 .. Len(sent)
  BY DEF ResyncInv, TypeInv, TypeOK, Pack
<1>4. Ready' <=> Ready
  BY <1>2 DEF Ready
<1> QED BY <1>1, <1>2, <1>3, <1>4, LastFacts DEF ResyncInv

LEMMA ResyncReceive ==
  ASSUME ResyncInv, Transparent, MaxCold < Inner, ~Overrun, Receive
  PROVE  ResyncInv'
<1> USE LastFacts
<1>1. TypeInv /\ TypeOK /\ sent # <<>> /\ pos \in 0 .. Last
  BY DEF ResyncInv, TypeInv, TypeOK, Receive
<1>2. TypeInv'
  BY TypeReceive DEF ResyncInv
<1>3. Word = Flag <=> pos \in {0, Last}
  BY <1>1, WordFlag
<1>4. /\ sent' = sent /\ payload' = payload /\ pos' = pos + 1 /\ hurt' = hurt
      /\ intact' = IF pos = Last /\ ~hurt /\ intact < 2 THEN intact + 1 ELSE intact
      /\ cold' = IF Word = Flag THEN 0 ELSE cold
      /\ deal_uart6_dma_proc(Word)
  BY DEF Receive
<1>5. /\ intact \in 0 .. 2 /\ status \in 0 .. 2 /\ counter \in Nat
      /\ Len(sent) \in Nat /\ held \in 0 .. Len(sent)
      /\ cold \in Nat /\ cold < Inner
  BY <1>1, LinkAssumption DEF TypeOK
<1>6. last' \in {last, held} /\ last' < Len(sent)
  BY <1>1, <1>4, <1>5 DEF ResyncInv, TypeOK, deal_uart6_dma_proc, AwaitHeader, Collect, Unpack
<1>7. held < Len(sent) /\ last < Len(sent)
  BY <1>1 DEF ResyncInv
<1>8. status' = 0 => counter' = 0
  BY <1>4 DEF ResyncInv, deal_uart6_dma_proc, AwaitHeader, Collect, Unpack
<1>9. CASE pos = 0
  <2>1. pos' = 1 /\ intact' = intact /\ Word = Flag
    BY <1>3, <1>4, <1>9
  <2>2. held' < Len(sent')
    BY <1>4, <1>5, <1>7, <1>9 DEF deal_uart6_dma_proc, AwaitHeader, Collect, Unpack, Closing
  <2>3. ASSUME intact >= 1 PROVE status' = 1 /\ counter' = 0
    <3>1. Ready /\ (status = 0 => counter = 0)
      BY <2>3, <1>9 DEF ResyncInv
    <3> QED BY <3>1, <1>4, <1>5, <2>1 DEF Ready, deal_uart6_dma_proc, AwaitHeader, Collect, Unpack
  <2>4. counter' = 0 => Holds(payload)'
    BY DEF Holds
  <2> QED BY <1>2, <1>4, <1>6, <1>8, <2>1, <2>2, <2>3, <2>4 DEF ResyncInv
<1>10. CASE pos \in 1 .. Last - 1
  <2>1. pos' \in 2 .. Last /\ intact' = intact /\ Word # Flag /\ held' = held
    BY <1>3, <1>4, <1>10 DEF deal_uart6_dma_proc, AwaitHeader, Collect, Unpack
  <2>2. ASSUME intact >= 1 PROVE status' = 1 /\ counter' = pos /\ Holds(payload)'
    <3>1. status = 1 /\ counter = pos - 1 /\ Holds(payload)
      BY <2>2, <1>10 DEF ResyncInv
    <3>2. Collect(Word) /\ status' = 1 /\ counter' = pos
      BY <3>1, <1>4, <1>10, <2>1 DEF deal_uart6_dma_proc, AwaitHeader, Collect, Unpack
    <3>3. pos \in 1 .. Inner
      BY <1>10
    <3> QED BY <3>1, <3>2, <3>3, <1>1, <1>4, <2>1, HoldsMore
  <2> QED BY <1>2, <1>4, <1>6, <1>7, <1>8, <1>10, <2>1, <2>2 DEF ResyncInv
<1>11. CASE pos = Last
  <2>1. pos' = Last + 1 /\ Word = Flag /\ cold' = 0
    BY <1>3, <1>4, <1>11
  <2>2. hurt' => intact' = 0
    BY <1>4 DEF ResyncInv
  <2>3. ASSUME intact' = 2 PROVE Kept'
    <3>1. status = 1 /\ counter = Inner /\ Holds(payload)
      BY <1>4, <1>5, <1>11, <2>3 DEF ResyncInv
    <3>2. status' = 2 /\ held' = Len(sent) /\ buffer' = buffer
      BY <3>1, <1>4, <1>11, <2>1 DEF deal_uart6_dma_proc, AwaitHeader, Collect, Unpack, Closing
    <3>3. Checks(buffer')
      BY <3>1, <3>2, <1>1, FrameChecks
    <3> QED BY <3>2, <3>3, <1>4, <2>1 DEF Kept
  <2>4. Ready'
    BY <1>4, <1>5, <2>1 DEF Ready, deal_uart6_dma_proc, AwaitHeader, Collect, Unpack
  <2> QED BY <1>2, <1>4, <1>6, <1>8, <2>1, <2>2, <2>3, <2>4 DEF ResyncInv
<1> QED BY <1>1, <1>9, <1>10, <1>11

LEMMA ResyncLose ==
  ASSUME ResyncInv, Lose
  PROVE  ResyncInv'
<1>1. TypeInv'
  BY TypeLose DEF ResyncInv
<1> QED BY <1>1 DEF ResyncInv, Lose, receiver

LEMMA ResyncCold ==
  ASSUME ResyncInv, ~Overrun, NEW word \in ColdWords,
         calibrate_cold_start_btn_callback(word)
  PROVE  ResyncInv'
<1> USE LastFacts
<1>1. TypeInv' /\ TypeOK
  BY TypeCold DEF ResyncInv, TypeInv
<1>2. /\ sent' = sent /\ pos = Last + 1 /\ pos' = pos /\ hurt' = hurt
      /\ intact' = intact /\ cold' = cold + 1
      /\ word # Flag /\ deal_uart6_dma_proc(word)
  BY LinkAssumption DEF calibrate_cold_start_btn_callback, sender
<1>3. cold \in Nat /\ counter \in Nat
  BY <1>1 DEF TypeOK
<1>4. held' = held /\ (status' = 0 => counter' = 0)
  BY <1>2 DEF ResyncInv, deal_uart6_dma_proc, AwaitHeader, Collect, Unpack
<1>5. ASSUME intact >= 1 PROVE Ready'
  <2>1. Ready
    BY <1>2, <1>5 DEF ResyncInv
  <2> QED BY <2>1, <1>2, <1>3 DEF Ready, deal_uart6_dma_proc, AwaitHeader, Collect, Unpack
<1>6. ASSUME intact = 2 PROVE Kept'
  <2>1. Kept
    BY <1>2, <1>6 DEF ResyncInv
  <2>2. last' = Len(sent)
    <3>1. CASE cold = 0
      <4>1. status = 2 /\ Checks(buffer) /\ held = Len(sent)
        BY <2>1, <3>1 DEF Kept
      <4> QED BY <4>1, <1>2 DEF deal_uart6_dma_proc, AwaitHeader, Collect, Unpack
    <3>2. CASE cold # 0
      <4>1. last = Len(sent) /\ held = Len(sent)
        BY <2>1, <3>2 DEF Kept
      <4> QED BY <4>1, <1>2 DEF deal_uart6_dma_proc, AwaitHeader, Collect, Unpack
    <3> QED BY <3>1, <3>2
  <2> QED BY <2>1, <2>2, <1>2, <1>3, <1>4 DEF Kept
<1> QED BY <1>1, <1>2, <1>3, <1>4, <1>5, <1>6 DEF ResyncInv

(* However the frames before fared, on a line that never overruns          *)
(* package_buffer: of two frames in a row that lose nothing the second is  *)
(* kept, to be unpacked with the next word.                                *)
THEOREM FoundAgain ==
  ASSUME Roomy, MaxCold < Inner,
         \A data \in Payloads : Clean(data) /\ Restorable(data)
  PROVE  Spec => [](InBuffer /\ Resynchronised)
<1>0. Transparent
  BY DEF Transparent
<1>1. Init => ResyncInv
  <2> SUFFICES ASSUME Init PROVE ResyncInv
    OBVIOUS
  <2>1. TypeInv
    BY TypeInit
  <2> QED BY <2>1, LastFacts DEF Init, ResyncInv, Ready
<1>2. ResyncInv /\ [Next]_vars => ResyncInv'
  <2> SUFFICES ASSUME ResyncInv, [Next]_vars PROVE ResyncInv'
    OBVIOUS
  <2>1. CASE UNCHANGED vars
    BY <2>1 DEF vars, sender, receiver, line, ResyncInv, TypeInv, TypeOK, Ready, Kept, Holds
  <2> QED BY <2>1, <1>0, ResyncPack, ResyncReceive, ResyncLose, ResyncCold DEF Next
<1>3. ResyncInv => Resynchronised
  <2> SUFFICES ASSUME ResyncInv, pos = Last + 1, intact = 2, Len(sent) > 1
               PROVE  IF cold = 0 THEN status = 2 /\ held = Len(sent) /\ last < Len(sent)
                                  ELSE last = Len(sent)
    BY DEF Resynchronised
  <2>1. sent # <<>>
    BY DEF ResyncInv, TypeInv, TypeOK
  <2>2. Kept
    BY DEF ResyncInv
  <2> QED BY <2>1, <2>2 DEF ResyncInv, Kept
<1>4. Spec => []InBuffer
  BY NoOverrun
<1> QED BY <1>1, <1>2, <1>3, <1>4, PTL DEF Spec
=============================================================================
