-------------------------- MODULE ReceptionProofs --------------------------
(***************************************************************************)
(* Theorems about what takes words from a line: the two buffers of         *)
(* PingPong, which implement WordQueue, and the packets of read_mcu, for   *)
(* blocks, packets and buffers of any size.                                *)
(***************************************************************************)
EXTENDS PingPong, ReadMcuLink, SequenceTheorems, TLAPS

(* A size is a positive number, and Max and Min are what they say.         *)
LEMMA SizesBounded ==
  /\ Min(Sizes) \in Sizes
  /\ Max(Sizes) \in Nat
  /\ \A n \in Sizes : n \in Nat /\ n >= 1 /\ n <= Max(Sizes)
<1>1. PICK small \in Sizes, large \in Sizes :
        \A other \in Sizes : small <= other /\ other <= large
  BY PingPongAssumption
<1>2. Min(Sizes) \in Sizes
  BY <1>1 DEF Min
<1>3. Max(Sizes) \in Sizes /\ \A n \in Sizes : n <= Max(Sizes)
  BY <1>1 DEF Max
<1>4. \A n \in Sizes : n \in Nat /\ n >= 1
  BY PingPongAssumption
<1>5. QED
  BY <1>2, <1>3, <1>4

(* BuffersOK in two: all but the flag of the interrupt, and the flag.      *)
BufferTypes ==
  /\ rdr \in 0 .. MaxWords
  /\ target \in 1 .. 2 /\ armed \in Sizes /\ filled \in 0 .. armed
  /\ memory \in [1 .. 2 -> [Index -> 0 .. MaxWords]]
  /\ reading \in {0, 3 - target} /\ length \in Sizes /\ counter \in 0 .. Max(Sizes)
  /\ free_buffer = target
  /\ size \in Sizes
  /\ arrived \in 0 .. MaxWords

FlagOK == tc \in BOOLEAN /\ (tc <=> filled = armed)

LEMMA BuffersInTwo == BuffersOK <=> BufferTypes /\ FlagOK
BY Zenon DEF BuffersOK, BufferTypes, FlagOK

LEMMA BuffersInit == DmaInit => BuffersOK
<1> SUFFICES ASSUME DmaInit PROVE BuffersOK
  OBVIOUS
<1> USE SizesBounded, PingPongAssumption DEF DmaInit
<1>1. memory \in [1 .. 2 -> [Index -> 0 .. MaxWords]]
  OBVIOUS
<1>2. armed \in Sizes /\ length \in Sizes /\ size \in Sizes /\ filled \in 0 .. armed
  <2>1. size \in Sizes /\ armed = size /\ length = size /\ filled = 0
    OBVIOUS
  <2>2. armed \in Nat
    BY <2>1
  <2>3. QED
    BY <2>1, <2>2
<1>3. BufferTypes
  BY <1>1, <1>2 DEF BufferTypes
<1>4. FlagOK
  <2>1. filled # armed
    OBVIOUS
  <2>2. QED
    BY <2>1, Zenon DEF FlagOK
<1>5. QED
  BY <1>3, <1>4, BuffersInTwo

LEMMA TypesStep ==
  ASSUME BufferTypes, FlagOK, [DmaNext]_dma_vars PROVE BufferTypes'
<1> USE SizesBounded, PingPongAssumption DEF BufferTypes
<1>1. CASE Arrive
  <2>1. rdr' \in {rdr, arrived'} /\ arrived' = arrived + 1 /\ arrived < MaxWords
    BY <1>1 DEF Arrive
  <2>2. QED
    BY <1>1, <2>1 DEF Arrive, dma, handler
<1>2. CASE Transfer
  <2>1. filled + 1 \in Index /\ rdr \in 0 .. MaxWords
    BY <1>2 DEF Transfer, Index
  <2>2. memory' \in [1 .. 2 -> [Index -> 0 .. MaxWords]]
    BY <1>2, <2>1 DEF Transfer
  <2>3. filled' \in 0 .. armed
    BY <1>2 DEF Transfer
  <2>4. QED
    BY <1>2, <2>2, <2>3 DEF Transfer, handler
<1>3. CASE Enter
  BY <1>3 DEF Enter, set_transmit_buffer, Busy, counts
<1>4. CASE Take
  BY <1>4 DEF Take, dma
<1>5. CASE Leave
  BY <1>5 DEF Leave, dma, counts
<1>6. CASE Switch
  BY <1>6 DEF Switch, dma, handler
<1>7. CASE UNCHANGED dma_vars
  BY <1>7 DEF dma_vars, dma, handler, counts
<1>8. QED
  BY <1>1, <1>2, <1>3, <1>4, <1>5, <1>6, <1>7 DEF DmaNext

LEMMA FlagStep ==
  ASSUME BufferTypes, FlagOK, [DmaNext]_dma_vars PROVE FlagOK'
<1>1. CASE Transfer
  BY <1>1, Zenon DEF FlagOK, Transfer
<1>2. CASE Enter
  <2>1. filled' # armed'
    BY <1>2, SizesBounded DEF Enter, set_transmit_buffer, BufferTypes
  <2>2. QED
    BY <1>2, <2>1, Zenon DEF Enter, FlagOK
<1>3. CASE Arrive \/ Take \/ Leave \/ Switch \/ UNCHANGED dma_vars
  <2>1. UNCHANGED <<tc, filled, armed>>
    BY <1>3 DEF Arrive, Take, Leave, Switch, dma_vars, dma
  <2>2. QED
    BY <2>1 DEF FlagOK
<1>4. QED
  BY <1>1, <1>2, <1>3 DEF DmaNext

LEMMA BuffersStep == BuffersOK /\ [DmaNext]_dma_vars => BuffersOK'
<1>1. BuffersOK' <=> BufferTypes' /\ FlagOK'
  BY Zenon DEF BuffersOK, BufferTypes, FlagOK
<1>2. QED
  BY <1>1, BuffersInTwo, TypesStep, FlagStep

(* For all sizes of the blocks the handler never hands over the buffer     *)
(* that the DMA fills, however late it is.                                 *)
THEOREM BuffersApart == DmaSpec => []BuffersOK
<1>1. QED
  BY BuffersInit, BuffersStep, PTL DEF DmaSpec

-----------------------------------------------------------------------------
(* A block of a wrong length is handed over only when the DMA was armed    *)
(* before the last change, and it has been armed since when one was.       *)
LengthInv ==
  /\ reading # 0 => armed = size /\ counter <= size
  /\ wrong \in 0 .. 1
  /\ wrong = 1 => armed = size
  /\ wrong = 1 /\ reading # 0 => length = size

LEMMA LengthInit == DmaInit => LengthInv
BY DEF DmaInit, LengthInv

LEMMA LengthStep ==
  ASSUME BufferTypes, LengthInv, [DmaNext]_dma_vars PROVE LengthInv'
<1> USE SizesBounded DEF BufferTypes, LengthInv, Busy
<1>1. CASE Arrive
  BY <1>1 DEF Arrive, dma, handler
<1>2. CASE Transfer
  BY <1>2 DEF Transfer, handler
<1>3. CASE Enter
  BY <1>3 DEF Enter, set_transmit_buffer, counts
<1>4. CASE Take
  BY <1>4 DEF Take, dma
<1>5. CASE Leave
  BY <1>5 DEF Leave, dma, counts
<1>6. CASE Switch
  BY <1>6 DEF Switch, dma, handler
<1>7. CASE UNCHANGED dma_vars
  BY <1>7 DEF dma_vars, dma, handler, counts
<1>8. QED
  BY <1>1, <1>2, <1>3, <1>4, <1>5, <1>6, <1>7 DEF DmaNext

(* Whenever the size of the blocks is changed, and to whatever, one block  *)
(* at most is handed over with a length that is not its own.               *)
THEOREM OneIsSpoilt == DmaSpec => []OneWrongBlock
<1>1. LengthInv => OneWrongBlock
  BY DEF LengthInv, OneWrongBlock
<1>2. BuffersOK /\ LengthInv /\ [DmaNext]_dma_vars => LengthInv'
  BY BuffersInTwo, LengthStep
<1>3. QED
  BY <1>1, <1>2, LengthInit, BuffersInit, BuffersStep, PTL DEF DmaSpec

-----------------------------------------------------------------------------
(* Until the first change all lengths are the size, and the words are      *)
(* numbered in the order they come.                                        *)
QueueInv ==
  switches = 0 =>
    /\ armed = size /\ length = size
    /\ reading # 0 => counter <= size
    /\ newest \in 0 .. arrived
    /\ rdr # 0 => rdr \in newest + 1 .. arrived

LEMMA QueueInit == DmaInit => QueueInv
BY DEF DmaInit, QueueInv

LEMMA QueueStep ==
  ASSUME BufferTypes, switches \in Nat, QueueInv, [DmaNext]_dma_vars
  PROVE  QueueInv' /\ switches' \in Nat
<1> USE SizesBounded, PingPongAssumption DEF BufferTypes, QueueInv, Busy
<1>1. CASE Arrive
  <2>1. rdr' \in {rdr, arrived'} /\ arrived' = arrived + 1
    BY <1>1 DEF Arrive
  <2>2. QED
    BY <1>1, <2>1 DEF Arrive, dma, handler
<1>2. CASE Transfer
  BY <1>2 DEF Transfer, handler
<1>3. CASE Enter
  BY <1>3 DEF Enter, set_transmit_buffer, counts
<1>4. CASE Take
  BY <1>4 DEF Take, dma
<1>5. CASE Leave
  BY <1>5 DEF Leave, dma, counts
<1>6. CASE Switch
  BY <1>6 DEF Switch, dma, handler
<1>7. CASE UNCHANGED dma_vars
  BY <1>7 DEF dma_vars, dma, handler, counts
<1>8. QED
  BY <1>1, <1>2, <1>3, <1>4, <1>5, <1>6, <1>7 DEF DmaNext

(* Pieces of sequences.                                                    *)
LEMMA Prolonged ==
  ASSUME NEW S, NEW a \in Seq(S), NEW b \in Seq(S), NEW x \in S
  PROVE  a \o Append(b, x) = Append(a \o b, x)
<1>1. Append(b, x) = b \o <<x>> /\ <<x>> \in Seq(S)
  BY AppendIsConcat
<1>2. a \o b \in Seq(S)
  BY ConcatProperties
<1>3. Append(a \o b, x) = (a \o b) \o <<x>>
  BY <1>2, AppendIsConcat
<1>4. (a \o b) \o <<x>> = a \o (b \o <<x>>)
  BY <1>1, ConcatAssociative
<1>5. QED
  BY <1>1, <1>3, <1>4

LEMMA HeadOfConcat ==
  ASSUME NEW S, NEW a \in Seq(S), NEW b \in Seq(S), a # <<>>
  PROVE  a \o b # <<>> /\ Head(a \o b) = Head(a) /\ Tail(a \o b) = Tail(a) \o b
<1>1. a \o b \in Seq(S) /\ Len(a \o b) = Len(a) + Len(b) /\ Len(a) \in Nat \ {0} /\ Len(b) \in Nat
  BY ConcatProperties, EmptySeq, LenProperties
<1>2. a \o b # <<>>
  BY <1>1, EmptySeq
<1>3. Head(a) = a[1] /\ Head(a \o b) = (a \o b)[1] /\ (a \o b)[1] = a[1]
  BY <1>1, <1>2, ConcatProperties
<1>4. /\ Tail(a) \in Seq(S) /\ Len(Tail(a)) = Len(a) - 1
      /\ \A i \in 1 .. Len(Tail(a)) : Tail(a)[i] = a[i + 1]
  BY HeadTailProperties
<1>5. /\ Tail(a \o b) \in Seq(S) /\ Len(Tail(a \o b)) = Len(a \o b) - 1
      /\ \A i \in 1 .. Len(Tail(a \o b)) : Tail(a \o b)[i] = (a \o b)[i + 1]
  BY <1>1, <1>2, HeadTailProperties
<1> DEFINE t == Tail(a) \o b
<1>6. /\ t \in Seq(S) /\ Len(t) = Len(Tail(a)) + Len(b)
      /\ \A i \in 1 .. Len(Tail(a)) + Len(b) :
           t[i] = IF i <= Len(Tail(a)) THEN Tail(a)[i] ELSE b[i - Len(Tail(a))]
  BY <1>4, ConcatProperties
<1>7. ASSUME NEW i \in 1 .. Len(t) PROVE t[i] = Tail(a \o b)[i]
  <2>1. (a \o b)[i + 1] = IF i + 1 <= Len(a) THEN a[i + 1] ELSE b[i + 1 - Len(a)]
    BY <1>1, <1>4, <1>6, ConcatProperties
  <2>2. Tail(a \o b)[i] = (a \o b)[i + 1]
    BY <1>1, <1>4, <1>5, <1>6
  <2>3. t[i] = IF i <= Len(a) - 1 THEN a[i + 1] ELSE b[i - (Len(a) - 1)]
    BY <1>1, <1>4, <1>6
  <2> HIDE DEF t
  <2>4. Len(a) \in Int /\ i \in Int
    BY <1>1, <1>6
  <2>5. /\ i + 1 <= Len(a) <=> i <= Len(a) - 1
        /\ i + 1 - Len(a) = i - (Len(a) - 1)
    BY <2>4
  <2>6. (a \o b)[i + 1] = IF i <= Len(a) - 1 THEN a[i + 1] ELSE b[i - (Len(a) - 1)]
    BY <2>1, <2>5, Zenon
  <2>7. QED
    BY <2>2, <2>3, <2>6, Zenon
<1>8. t = Tail(a \o b)
  <2> HIDE DEF t
  <2>1. Len(t) = Len(Tail(a \o b))
    BY <1>1, <1>4, <1>5, <1>6
  <2>2. QED
    BY <1>5, <1>6, <1>7, <2>1, SeqEqual
<1>9. QED
  BY <1>2, <1>3, <1>8

(* The two pieces of Queue, as sequences.                                  *)
LEMMA Pieces ==
  ASSUME NEW f \in [Index -> 0 .. MaxWords], NEW m \in 1 .. Max(Sizes) + 1,
         NEW n \in 0 .. Max(Sizes)
  PROVE  /\ SubSeq(f, m, n) \in Seq(0 .. MaxWords)
         /\ n < m => SubSeq(f, m, n) = <<>>
         /\ m <= n => /\ SubSeq(f, m, n) # <<>>
                      /\ Head(SubSeq(f, m, n)) = f[m]
                      /\ Tail(SubSeq(f, m, n)) = SubSeq(f, m + 1, n)
<1>1. Max(Sizes) \in Nat /\ f \in Seq(0 .. MaxWords) /\ Len(f) = Max(Sizes)
  <2>1. PICK top \in Nat : top = Max(Sizes)
    BY SizesBounded
  <2>2. f \in [1 .. top -> 0 .. MaxWords]
    BY <2>1 DEF Index
  <2>3. f \in Seq(0 .. MaxWords)
    BY <2>2, SeqDef
  <2>4. 1 .. top = 1 .. Len(f) /\ Len(f) \in Nat
    BY <2>2, <2>3, LenProperties
  <2>5. QED
    BY <2>1, <2>3, <2>4
<1>2. \A i \in m .. n : f[i] \in 0 .. MaxWords
  BY <1>1 DEF Index
<1>3. /\ SubSeq(f, m, n) \in Seq(0 .. MaxWords)
      /\ Len(SubSeq(f, m, n)) = IF m <= n THEN n - m + 1 ELSE 0
  BY <1>1, <1>2, SubSeqProperties
<1>4. n < m => SubSeq(f, m, n) = <<>>
  BY <1>1, SubSeqEmpty
<1>5. m <= n => SubSeq(f, m, n) # <<>>
  BY <1>1, <1>3, EmptySeq
<1>6. m <= n => Head(SubSeq(f, m, n)) = f[m] /\ Tail(SubSeq(f, m, n)) = SubSeq(f, m + 1, n)
  BY <1>1, HeadTailOfSubSeq
<1>7. QED
  BY <1>3, <1>4, <1>5, <1>6

LEMMA OneMore ==
  ASSUME NEW f \in [Index -> 0 .. MaxWords], NEW g \in [Index -> 0 .. MaxWords],
         NEW n \in Nat, n + 1 \in Index, \A i \in 1 .. n : g[i] = f[i]
  PROVE  SubSeq(g, 1, n + 1) = Append(SubSeq(f, 1, n), g[n + 1])
<1> DEFINE s == SubSeq(f, 1, n)
           t == SubSeq(g, 1, n + 1)
           e == g[n + 1]
<1>1. \A i \in 1 .. n + 1 : f[i] \in 0 .. MaxWords /\ g[i] \in 0 .. MaxWords
  BY SizesBounded DEF Index
<1>2. /\ s \in Seq(0 .. MaxWords) /\ Len(s) = n
      /\ \A i \in 1 .. n : s[i] = f[i]
  <2>1. \A i \in 1 .. n : f[i] \in 0 .. MaxWords
    BY <1>1
  <2>2. /\ s \in Seq(0 .. MaxWords) /\ Len(s) = IF 1 <= n THEN n - 1 + 1 ELSE 0
        /\ \A i \in 1 .. n - 1 + 1 : s[i] = f[1 + i - 1]
    BY <2>1, SubSeqProperties
  <2>3. QED
    BY <2>2
<1>3. /\ t \in Seq(0 .. MaxWords) /\ Len(t) = n + 1
      /\ \A i \in 1 .. n + 1 : t[i] = g[i]
  <2>1. /\ t \in Seq(0 .. MaxWords) /\ Len(t) = IF 1 <= n + 1 THEN n + 1 - 1 + 1 ELSE 0
        /\ \A i \in 1 .. n + 1 - 1 + 1 : t[i] = g[1 + i - 1]
    BY <1>1, SubSeqProperties
  <2>2. QED
    BY <2>1
<1>4. e \in 0 .. MaxWords
  BY <1>1
<1> HIDE DEF s, t, e
<1>5. /\ Append(s, e) \in Seq(0 .. MaxWords) /\ Len(Append(s, e)) = n + 1
      /\ \A i \in 1 .. n : Append(s, e)[i] = s[i]
      /\ Append(s, e)[n + 1] = e
  BY <1>2, <1>4, AppendProperties
<1>6. ASSUME NEW i \in 1 .. n + 1 PROVE t[i] = Append(s, e)[i]
  <2>1. CASE i \in 1 .. n
    BY <2>1, <1>2, <1>3, <1>5
  <2>2. CASE i = n + 1
    <3>1. n + 1 \in 1 .. n + 1 /\ e = g[n + 1]
      BY DEF e
    <3>2. QED
      BY <2>2, <3>1, <1>3, <1>5
  <2>3. i \in 1 .. n \/ i = n + 1
    <3> HIDE <1>1
    <3>1. n \in Nat /\ i \in 1 .. n + 1
      OBVIOUS
    <3>2. QED
      BY <3>1
  <2>4. QED
    BY <2>1, <2>2, <2>3
<1>7. t = Append(s, e)
  BY <1>3, <1>5, <1>6, SeqEqual
<1>8. QED
  BY <1>7 DEF s, t, e

First == IF Busy THEN SubSeq(memory[reading], counter + 1, length) ELSE <<>>
Last  == SubSeq(memory[target], 1, filled)

LEMMA QueueTypes ==
  ASSUME BufferTypes
  PROVE  /\ Queue = First \o Last
         /\ First \in Seq(0 .. MaxWords) /\ Last \in Seq(0 .. MaxWords)
<1>1. Last \in Seq(0 .. MaxWords)
  <2>1. memory[target] \in [Index -> 0 .. MaxWords] /\ filled \in 0 .. Max(Sizes)
    BY SizesBounded DEF BufferTypes
  <2>2. 1 \in 1 .. Max(Sizes) + 1
    BY SizesBounded
  <2>3. QED
    BY <2>1, <2>2, Pieces DEF Last
<1>2. First \in Seq(0 .. MaxWords)
  <2>1. CASE Busy
    <3>1. memory[reading] \in [Index -> 0 .. MaxWords] /\ length \in 0 .. Max(Sizes)
          /\ counter + 1 \in 1 .. Max(Sizes) + 1
      BY <2>1, SizesBounded DEF BufferTypes, Busy
    <3>2. QED
      BY <2>1, <3>1, Pieces DEF First
  <2>2. CASE ~Busy
    BY <2>2, EmptySeq DEF First
  <2>3. QED
    BY <2>1, <2>2
<1>3. QED
  BY <1>1, <1>2 DEF Queue, First, Last

LEMMA OrderStep ==
  ASSUME BufferTypes, FlagOK, QueueInv, [DmaNext]_dma_vars, switches = 0
  PROVE  [WordQueue!Next]_<<Queue, newest, handed>>
<1>1. CASE Transfer
  <2>1. /\ filled + 1 \in Index /\ rdr \in 1 .. MaxWords /\ rdr > newest
        /\ rdr \in 0 .. MaxWords /\ filled < armed
    BY <1>1, SizesBounded, PingPongAssumption DEF Transfer, BufferTypes, QueueInv, Index
  <2>2. First' = First
    <3>1. Busy => memory'[reading] = memory[reading]
      BY <1>1, <2>1 DEF Transfer, BufferTypes, Busy
    <3>2. QED
      BY <1>1, <3>1 DEF Transfer, First, Busy, handler
  <2>3. Last' = Append(Last, rdr)
    <3> DEFINE old == memory[target]
               new == memory'[target]
    <3>1. /\ new = [old EXCEPT ![filled + 1] = rdr]
          /\ old \in [Index -> 0 .. MaxWords] /\ filled' = filled + 1 /\ target' = target
      BY <1>1, <2>1 DEF Transfer, BufferTypes
    <3>2. Last = SubSeq(old, 1, filled) /\ Last' = SubSeq(new, 1, filled + 1)
      BY <3>1 DEF Last
    <3> HIDE DEF old, new
    <3>3. filled \in Nat /\ new \in [Index -> 0 .. MaxWords] /\ new[filled + 1] = rdr
          /\ \A i \in 1 .. filled : new[i] = old[i]
      <4>1. filled \in Nat /\ filled + 1 \in Index
        BY <2>1, SizesBounded DEF BufferTypes
      <4>2. \A i \in 1 .. filled : i \in Index /\ i # filled + 1
        BY <4>1, SizesBounded DEF Index
      <4>3. QED
        BY <2>1, <3>1, <4>1, <4>2
    <3>4. QED
      BY <2>1, <3>1, <3>2, <3>3, OneMore
  <2>4. Queue' = Append(Queue, rdr)
    <3>1. Queue' = First' \o Last'
      BY Zenon DEF Queue, First, Last
    <3>2. QED
      BY <2>1, <2>2, <2>3, <3>1, QueueTypes, Prolonged
  <2>5. WordQueue!Put(rdr)
    BY <1>1, <2>1, <2>4 DEF Transfer, WordQueue!Put
  <2>6. QED
    BY <2>1, <2>5 DEF WordQueue!Next
<1>2. CASE Enter
  <2>1. Queue' = Queue
    <3>1. First = <<>> /\ First' = Last
      BY <1>2, SizesBounded DEF Enter, Busy, First, Last, BufferTypes, FlagOK
    <3>2. Last' = <<>>
      BY <1>2, SizesBounded, SubSeqEmpty DEF Enter, set_transmit_buffer, Last
    <3>3. Queue' = First' \o Last'
      BY Zenon DEF Queue, First, Last
    <3>4. QED
      BY <3>1, <3>2, <3>3, QueueTypes, ConcatEmptySeq
  <2>2. QED
    BY <1>2, <2>1 DEF Enter, counts
<1>3. CASE Take
  <2>1. /\ counter + 1 \in 1 .. Max(Sizes) + 1 /\ length \in 0 .. Max(Sizes)
        /\ counter + 1 <= length /\ memory[reading] \in [Index -> 0 .. MaxWords]
    BY <1>3, SizesBounded DEF Take, Busy, BufferTypes, QueueInv
  <2>2. First = SubSeq(memory[reading], counter + 1, length) /\ Last' = Last
        /\ First' = SubSeq(memory[reading], counter + 1 + 1, length)
    BY <1>3 DEF Take, First, Last, Busy, dma
  <2>3. First # <<>> /\ Head(First) = handed' /\ Tail(First) = First'
    <3>1. handed' = memory[reading][counter + 1]
      BY <1>3 DEF Take
    <3>2. QED
      BY <2>1, <2>2, <3>1, Pieces
  <2>4. Queue # <<>> /\ Head(Queue) = Head(First) /\ Tail(Queue) = Tail(First) \o Last
    BY <2>3, QueueTypes, HeadOfConcat
  <2>5. Queue' = First' \o Last'
    BY Zenon DEF Queue, First, Last
  <2>6. WordQueue!Get
    BY <1>3, <2>2, <2>3, <2>4, <2>5 DEF Take, WordQueue!Get
  <2>7. QED
    BY <2>6 DEF WordQueue!Next
<1>4. CASE Leave
  <2>1. First = <<>> /\ First' = <<>> /\ Last' = Last
    <3>1. length < counter + 1 /\ length \in Int /\ counter + 1 \in Int
      BY <1>4, SizesBounded DEF Leave, Busy, BufferTypes, QueueInv
    <3>2. QED
      BY <1>4, <3>1, SubSeqEmpty DEF Leave, First, Last, Busy, dma
  <2>2. Queue' = First' \o Last'
    BY Zenon DEF Queue, First, Last
  <2>3. QED
    BY <1>4, <2>1, <2>2, QueueTypes DEF Leave, counts
<1>5. CASE Arrive \/ Switch \/ UNCHANGED dma_vars
  BY <1>5 DEF Arrive, Switch, dma_vars, dma, handler, counts, Queue, Busy
<1>6. QED
  BY <1>1, <1>2, <1>3, <1>4, <1>5 DEF DmaNext

(* While the size is not changed the two buffers implement WordQueue: for  *)
(* every size and any delay of the handler, words are handed over once and *)
(* in the order in which the DMA stored them.                              *)
THEOREM InOrder == DmaSpec => Ordered
<1>1. DmaInit => WordQueue!Init
  <2> SUFFICES ASSUME DmaInit PROVE WordQueue!Init
    OBVIOUS
  <2>1. Queue = <<>> \o <<>>
    BY SubSeqEmpty DEF DmaInit, Queue, Busy
  <2>2. <<>> \o <<>> = <<>>
    BY EmptySeq, ConcatEmptySeq
  <2>3. QED
    BY <2>1, <2>2 DEF DmaInit, WordQueue!Init
<1> DEFINE Inv == BuffersOK /\ switches \in Nat /\ QueueInv
<1>2. DmaInit => Inv
  BY BuffersInit, QueueInit DEF DmaInit
<1>3. Inv /\ [DmaNext]_dma_vars => Inv'
  BY BuffersInTwo, BuffersStep, QueueStep
<1>4. Inv /\ [DmaNext]_dma_vars
        => [switches = 0 => WordQueue!Next]_<<Queue, newest, handed>>
  BY BuffersInTwo, OrderStep
<1>5. QED
  BY <1>1, <1>2, <1>3, <1>4, PTL DEF DmaSpec, Ordered

-----------------------------------------------------------------------------
(* The packets of read_mcu.  What package_buffer holds is of a packet sent *)
(* so far, and its first word of none older than the one taken last.       *)
SenderTypes ==
  /\ kind \in Kinds /\ buffer_size \in Kinds /\ fill \in Pads \cup {0}
  /\ number \in 0 .. ReadPackets /\ out \in 0 .. Words

ReceiverTypes ==
  /\ status \in 0 .. 6 /\ debug_buffer_counter \in 0 .. Wrap - 1
  /\ package_counter \in 0 .. Room + 1 /\ astray \in BOOLEAN

TakenInv ==
  /\ taken \in 0 .. number
  /\ package_buffer \in [0 .. Room - 1 -> (0 .. number) \X Nat]
  /\ package_buffer[0] # Nothing => package_buffer[0][1] >= taken

(* Where package_counter stands in each state, and how far it will go.     *)
CounterFits ==
  /\ status \in {3, 4} => package_counter = 0
  /\ status = 1 => package_counter <= Fixed + 1
  /\ status = 2 => package_counter = Fixed
  /\ status = 5 => \/ astray
                   \/ /\ debug_buffer_counter >= 3
                      /\ package_counter <= Variable + 3 - debug_buffer_counter
  /\ package_counter <= Room \/ astray

LEMMA SenderStep ==
  ASSUME SenderTypes, [ReadNext]_read_vars PROVE SenderTypes'
<1> USE ReadMcuAssumption DEF SenderTypes
<1>1. CASE BeginPacket
  <2>1. kind' \in Kinds /\ fill' \in Pads /\ fill' \in Nat /\ buffer_size' \in Kinds
    BY <1>1 DEF BeginPacket, Kinds
  <2>2. Words' \in Nat
    <3>1. PICK framed \in Nat : framed = Framed'
      BY DEF Framed
    <3>2. PICK more \in Nat : more = fill'
      BY <2>1
    <3>3. Words' = framed + more
      BY <3>1, <3>2 DEF Words
    <3>4. QED
      BY <3>3
  <2>3. number' \in 0 .. ReadPackets /\ out' = 0
    BY <1>1 DEF BeginPacket
  <2>4. QED
    BY <2>1, <2>2, <2>3
<1>2. CASE ReadReceive
  BY <1>2 DEF ReadReceive, Words, Framed, Before, Data
<1>3. CASE ReadLose
  BY <1>3 DEF ReadLose, Words, Framed, Before, Data
<1>4. CASE ChangeKind
  BY <1>4 DEF ChangeKind, read_sender, Words, Framed, Before, Data
<1>5. CASE UNCHANGED read_vars
  BY <1>5 DEF read_vars, read_sender, Words, Framed, Before, Data
<1>6. QED
  BY <1>1, <1>2, <1>3, <1>4, <1>5 DEF ReadNext

(* A word of data belongs to the packet that is being sent.                *)
LEMMA TagOfPacket ==
  ASSUME SenderTypes
  PROVE  NextTag \in (0 .. number) \X Nat /\ (NextTag # Nothing => NextTag[1] = number)
BY ReadMcuAssumption DEF SenderTypes, NextTag, Nothing, Words, Framed, Before, Data

LEMMA ValuesAreWords ==
  ASSUME SenderTypes, out < Words, NEW w \in NextValues, IsLength
  PROVE  w = Variable + 3
BY ReadMcuAssumption DEF SenderTypes, NextValues, IsLength, Words, Framed, Before, Data, Kinds

LEMMA StoreKeeps ==
  ASSUME NEW n \in Nat, NEW b \in [0 .. Room - 1 -> (0 .. n) \X Nat], NEW old \in 0 .. n,
         b[0] # Nothing => b[0][1] >= old,
         NEW tag \in (0 .. n) \X Nat, tag # Nothing => tag[1] = n, NEW k \in Nat
  PROVE  LET c == [b EXCEPT ![k] = tag]
         IN  /\ c \in [0 .. Room - 1 -> (0 .. n) \X Nat]
             /\ c[0] # Nothing => c[0][1] >= old
<1> DEFINE c == [b EXCEPT ![k] = tag]
<1>1. c \in [0 .. Room - 1 -> (0 .. n) \X Nat]
  OBVIOUS
<1>2. c[0] = b[0] \/ c[0] = tag
  BY ReadMcuAssumption
<1>3. QED
  BY <1>1, <1>2

LEMMA TakenStep ==
  ASSUME SenderTypes, package_counter \in Nat, TakenInv, [ReadNext]_read_vars
  PROVE  TakenInv' /\ taken' >= taken
<1> USE ReadMcuAssumption DEF TakenInv
<1>1. CASE BeginPacket
  <2>1. number' = number + 1 /\ UNCHANGED <<taken, package_buffer>>
    BY <1>1 DEF BeginPacket, read_receiver, read_buffer
  <2>2. number \in Nat
    BY DEF SenderTypes
  <2>3. package_buffer' \in [0 .. Room - 1 -> (0 .. number') \X Nat]
    BY <2>1, <2>2
  <2>4. QED
    BY <2>1, <2>2, <2>3
<1>2. CASE ReadReceive
  <2>1. number' = number /\ number \in Nat
    BY <1>2 DEF ReadReceive, SenderTypes
  <2>2. CASE UNCHANGED <<package_buffer, taken>>
    BY <2>1, <2>2
  <2>3. ASSUME Store(NextTag), taken' = taken PROVE TakenInv' /\ taken' >= taken
    <3>1. PICK tag \in (0 .. number) \X Nat : tag = NextTag /\ (tag # Nothing => tag[1] = number)
      BY TagOfPacket
    <3>2. /\ package_buffer' \in [0 .. Room - 1 -> (0 .. number) \X Nat]
          /\ package_buffer'[0] # Nothing => package_buffer'[0][1] >= taken
      BY <2>1, <2>3, <3>1, StoreKeeps DEF Store
    <3>3. taken' \in 0 .. number' /\ taken' >= taken
      BY <2>1, <2>3
    <3>4. package_buffer' \in [0 .. Room - 1 -> (0 .. number') \X Nat]
      BY <2>1, <3>2
    <3>5. package_buffer'[0] # Nothing => package_buffer'[0][1] >= taken'
      BY <2>3, <3>2
    <3>6. QED
      BY <3>3, <3>4, <3>5, Zenon
  <2>4. ASSUME NEW at, NEW words, Unpack(at, words) PROVE TakenInv' /\ taken' >= taken
    <3>1. UNCHANGED package_buffer /\ (taken' = taken \/ (package_buffer[0] # Nothing
            /\ taken' = package_buffer[0][1]))
      BY <2>4 DEF Unpack, ChecksumFits
    <3>2. PICK tag \in (0 .. number) \X Nat : tag = package_buffer[0]
      OBVIOUS
    <3>3. tag[1] \in 0 .. number
      OBVIOUS
    <3>4. taken' \in 0 .. number /\ taken' >= taken
          /\ (package_buffer[0] # Nothing => package_buffer[0][1] >= taken')
      BY <2>1, <3>1, <3>2, <3>3
    <3>5. QED
      BY <2>1, <3>1, <3>4
  <2>5. PICK w \in NextValues : deal_dma_read_mcu(w, NextTag)
    BY <1>2 DEF ReadReceive
  <2>6. CASE Idle0(w) \/ Second3(w) \/ Length4(w)
    BY <2>2, <2>6 DEF Idle0, Second3, Length4, read_buffer
  <2>7. CASE Copy1(w, NextTag) \/ Copy5(w, NextTag)
    <3>1. taken' = taken
      BY <2>7 DEF Copy1, Copy5
    <3>2. CASE Copy1(w, NextTag)
      <4>1. UNCHANGED package_buffer \/ Store(NextTag)
        BY <3>2 DEF Copy1, read_buffer
      <4>2. QED
        BY <2>2, <2>3, <3>1, <4>1
    <3>3. CASE Copy5(w, NextTag)
      <4>1. UNCHANGED package_buffer \/ Store(NextTag)
        BY <3>3 DEF Copy5, read_buffer
      <4>2. QED
        BY <2>2, <2>3, <3>1, <4>1
    <3>4. QED
      BY <2>7, <3>2, <3>3
  <2>8. QED
    BY <2>4, <2>5, <2>6, <2>7 DEF deal_dma_read_mcu
<1>3. CASE ReadLose \/ ChangeKind \/ UNCHANGED read_vars
  <2>1. UNCHANGED <<number, taken, package_buffer>>
    BY <1>3 DEF ReadLose, ChangeKind, read_vars, read_receiver, read_buffer, read_sender
  <2>2. taken' >= taken /\ number \in Nat
    BY <2>1 DEF SenderTypes
  <2>3. TakenInv'
    BY <2>1, <2>2
  <2>4. QED
    BY <2>2, <2>3
<1>4. QED
  BY <1>1, <1>2, <1>3 DEF ReadNext

LEMMA Wrapped ==
  ASSUME NEW n \in Nat \ {0}
  PROVE  /\ \A x \in 0 .. n - 1 : x % n = x
         /\ \A x \in Int : x % n \in 0 .. n - 1
OBVIOUS

LEMMA OneLess ==
  ASSUME NEW n \in Nat \ {0}, NEW x \in 0 .. n - 1
  PROVE  (x - 1) % n = IF x = 0 THEN n - 1 ELSE x - 1
<1>1. (0 - 1) % n = n - 1
  OBVIOUS
<1>2. CASE x = 0
  BY <1>1, <1>2
<1>3. CASE x # 0
  <2>1. PICK y \in 0 .. n - 1 : y = x - 1
    BY <1>3
  <2>2. y % n = y
    BY Wrapped
  <2>3. QED
    BY <1>3, <2>1, <2>2
<1>4. QED
  BY <1>2, <1>3

LEMMA ReceiverStep ==
  ASSUME SenderTypes, ReceiverTypes, [ReadNext]_read_vars,
         \A w \in NextValues : w \in Int
  PROVE  ReceiverTypes'
<1> USE ReadMcuAssumption DEF ReceiverTypes
<1>1. ASSUME ReadReceive, ~ReadOverrun PROVE ReceiverTypes'
  <2>1. PICK w \in NextValues : deal_dma_read_mcu(w, NextTag)
    BY <1>1 DEF ReadReceive
  <2>2. Wrap \in Nat \ {0} /\ w \in Int
    OBVIOUS
  <2>3. w % Wrap \in 0 .. Wrap - 1 /\ (debug_buffer_counter - 1) % Wrap \in 0 .. Wrap - 1
    <3>1. \A x \in Int : x % Wrap \in 0 .. Wrap - 1
      BY <2>2, Wrapped
    <3>2. debug_buffer_counter - 1 \in Int
      OBVIOUS
    <3>3. QED
      BY <2>2, <3>1, <3>2
  <2>4. CASE Length4(w)
    <3>1. (~IsLength) \in BOOLEAN
      OBVIOUS
    <3>2. astray' \in BOOLEAN
      BY <2>4, <3>1, Zenon DEF Length4
    <3>3. QED
      BY <2>3, <2>4, <3>2 DEF Length4, Goto, read_buffer
  <2>11. package_counter <= Room
    BY <1>1 DEF ReadOverrun
  <2>5. CASE Copy5(w, NextTag)
    BY <2>3, <2>5, <2>11 DEF Copy5, Goto, Store, read_buffer
  <2>6. CASE Idle0(w)
    BY <2>6 DEF Idle0, Goto, NoLength
  <2>7. CASE Copy1(w, NextTag)
    BY <2>7, <2>11 DEF Copy1, Goto, Store, read_buffer, NoLength
  <2>8. CASE Second3(w)
    BY <2>8 DEF Second3, Goto, read_buffer, NoLength
  <2>9. CASE Unpack(2, Fixed) \/ Unpack(6, Variable)
    BY <2>9 DEF Unpack, Goto, NoLength
  <2>10. QED
    BY <2>1, <2>4, <2>5, <2>6, <2>7, <2>8, <2>9 DEF deal_dma_read_mcu
<1>2. CASE BeginPacket \/ ReadLose \/ ChangeKind \/ UNCHANGED read_vars
  BY <1>2 DEF BeginPacket, ReadLose, ChangeKind, read_vars, read_receiver, read_buffer
<1>3. QED
  BY <1>1, <1>2 DEF ReadNext

LEMMA CounterStep ==
  ASSUME SenderTypes, ReceiverTypes, CounterFits, [ReadNext]_read_vars
  PROVE  CounterFits'
<1> USE ReadMcuAssumption DEF ReceiverTypes, CounterFits
<1>1. CASE ReadReceive
  <2>1. PICK w \in NextValues : deal_dma_read_mcu(w, NextTag)
    BY <1>1 DEF ReadReceive
  <2>2. CASE Length4(w)
    <3>1. CASE IsLength
      <4>1. w = Variable + 3
        BY <1>1, <3>1, ValuesAreWords DEF ReadReceive
      <4>2. Wrap \in Nat \ {0} /\ Variable + 3 \in 0 .. Wrap - 1
        OBVIOUS
      <4>3. debug_buffer_counter' = Variable + 3
        BY <2>2, <4>1, <4>2, Wrapped DEF Length4
      <4>4. package_counter' = 0 /\ status' = 5
        BY <2>2 DEF Length4, Goto, read_buffer
      <4>5. QED
        BY <4>3, <4>4
    <3>2. CASE ~IsLength
      <4>1. astray'
        BY <2>2, <3>2, Zenon DEF Length4
      <4>2. status' = 5
        BY <2>2 DEF Length4, Goto
      <4>3. QED
        BY <4>1, <4>2
    <3>3. QED
      BY <3>1, <3>2
  <2>3. CASE Copy5(w, NextTag)
    <3>1. CASE debug_buffer_counter = 3
      BY <2>3, <3>1 DEF Copy5, Goto, read_buffer
    <3>2. CASE debug_buffer_counter # 3
      <4>1. package_counter' = package_counter + 1 /\ astray' = astray /\ status' = 5
        BY <2>3, <3>2 DEF Copy5, Goto, Store
      <4>2. CASE astray
        BY <4>1, <4>2
      <4>3. CASE ~astray
        <5>1. debug_buffer_counter >= 4
              /\ package_counter <= Variable + 3 - debug_buffer_counter
          BY <2>3, <3>2, <4>3 DEF Copy5
        <5>2. debug_buffer_counter' = debug_buffer_counter - 1
          <6>1. debug_buffer_counter - 1 \in 0 .. Wrap - 1 /\ Wrap \in Nat \ {0}
            BY <5>1
          <6>2. (debug_buffer_counter - 1) % Wrap = debug_buffer_counter - 1
            BY <6>1, Wrapped
          <6>3. debug_buffer_counter' = (debug_buffer_counter - 1) % Wrap
            BY <2>3, <3>2 DEF Copy5
          <6>4. QED
            BY <6>2, <6>3
        <5>3. QED
          BY <4>1, <5>1, <5>2
      <4>4. QED
        BY <4>2, <4>3
    <3>3. QED
      BY <3>1, <3>2
  <2>4. CASE Idle0(w)
    BY <2>4 DEF Idle0, Goto, NoLength
  <2>5. CASE Copy1(w, NextTag)
    BY <2>5 DEF Copy1, Goto, Store, read_buffer, NoLength
  <2>6. CASE Second3(w)
    BY <2>6 DEF Second3, Goto, read_buffer, NoLength
  <2>7. CASE Unpack(2, Fixed) \/ Unpack(6, Variable)
    BY <2>7 DEF Unpack, Goto, NoLength
  <2>8. QED
    BY <2>1, <2>2, <2>3, <2>4, <2>5, <2>6, <2>7 DEF deal_dma_read_mcu
<1>2. CASE BeginPacket \/ ReadLose \/ ChangeKind \/ UNCHANGED read_vars
  BY <1>2 DEF BeginPacket, ReadLose, ChangeKind, read_vars, read_receiver, read_buffer
<1>3. QED
  BY <1>1, <1>2 DEF ReadNext

LEMMA ValuesAreInts ==
  ASSUME SenderTypes, Values \subseteq Int, Checks \subseteq Int
  PROVE  \A w \in NextValues : w \in Int
BY ReadMcuAssumption DEF SenderTypes, NextValues, A5, S5, FF

ReadInv ==
  /\ SenderTypes /\ ReceiverTypes /\ TakenInv /\ CounterFits

LEMMA ReadInvInit == ReadInit => ReadInv
<1> SUFFICES ASSUME ReadInit PROVE ReadInv
  OBVIOUS
<1> USE ReadMcuAssumption DEF ReadInit
<1>1. SenderTypes
  BY DEF SenderTypes, Kinds, Words, Framed
<1>2. ReceiverTypes
  <2>1. astray \in BOOLEAN
    BY Zenon
  <2>2. QED
    BY <2>1 DEF ReceiverTypes
<1>3. TakenInv
  BY DEF TakenInv, Nothing
<1>4. CounterFits
  BY DEF CounterFits
<1>5. QED
  BY <1>1, <1>2, <1>3, <1>4 DEF ReadInv

LEMMA ReadInvStep ==
  ASSUME Values \subseteq Int, Checks \subseteq Int
  PROVE  ReadInv /\ [ReadNext]_read_vars => ReadInv'
BY SenderStep, ReceiverStep, TakenStep, CounterStep, ValuesAreInts DEF ReadInv, ReceiverTypes

LEMMA ReadWithin == ReadInv => WithinBuffer
<1> SUFFICES ASSUME ReadInv PROVE WithinBuffer
  OBVIOUS
<1>1. package_counter <= Room <=> ~ReadOverrun
  BY ReadMcuAssumption DEF ReadInv, ReceiverTypes, ReadOverrun
<1>2. package_counter <= Room \/ astray
  BY DEF ReadInv, CounterFits
<1>3. QED
  BY <1>1, <1>2, Zenon DEF WithinBuffer

SinceInv == since \in 0 .. Longest_stray

LEMMA SinceInit == ReadInit => SinceInv
BY ReadMcuAssumption DEF ReadInit, SinceInv, Longest_stray

LEMMA SinceStep == SinceInv /\ [ReadNext]_read_vars => SinceInv'
<1> SUFFICES ASSUME SinceInv, [ReadNext]_read_vars PROVE SinceInv'
  OBVIOUS
<1>1. PICK l \in Nat : l = Longest_stray
  BY ReadMcuAssumption DEF Longest_stray
<1>2. since' = since \/ since' = 0 \/ (since < l /\ since' = since + 1)
  BY <1>1 DEF ReadNext, BeginPacket, ReadReceive, ReadLose, ChangeKind, read_vars, read_line
<1>3. QED
  BY <1>1, <1>2 DEF SinceInv, Longest_stray

(* For packets of any size: the receiver keeps to its types,               *)
THEOREM ReadTypes ==
  ASSUME Values \subseteq Int, Checks \subseteq Int PROVE ReadSpec => []ReadTypeOK
<1>1. ReadInv /\ SinceInv => ReadTypeOK
  BY DEF ReadInv, ReadTypeOK, SenderTypes, ReceiverTypes, TakenInv, SinceInv
<1>2. QED
  BY <1>1, ReadInvInit, ReadInvStep, SinceInit, SinceStep, PTL DEF ReadSpec

(* its buffer is not overrun however many words are lost, unless one that  *)
(* is no length was taken for one,                                         *)
THEOREM ReadWithinBuffer ==
  ASSUME Values \subseteq Int, Checks \subseteq Int PROVE ReadSpec => []WithinBuffer
<1>1. QED
  BY ReadWithin, ReadInvInit, ReadInvStep, PTL DEF ReadSpec

(* and what package_buffer still holds of older packets is never taken     *)
(* after a newer one.                                                      *)
THEOREM ReadNeverOlder ==
  ASSUME Values \subseteq Int, Checks \subseteq Int PROVE ReadSpec => NeverOlder
<1>1. ReadInv /\ [ReadNext]_read_vars => [taken' >= taken]_read_vars
  BY TakenStep DEF ReadInv, ReceiverTypes
<1>2. QED
  BY <1>1, ReadInvInit, ReadInvStep, PTL DEF ReadSpec, NeverOlder
-----------------------------------------------------------------------------
(* Words until a receiver amid a variable packet is done with it, or has   *)
(* overrun the buffer.                                                     *)
Rest ==
  CASE status \in 0 .. 2 -> 0
    [] status = 3 -> Room + 4
    [] status = 4 -> Room + 3
    [] status = 5 -> Room + 2 - package_counter
    [] status = 6 -> 1

RestInv ==
  /\ since \in 0 .. Longest_stray
  /\ buffer_size = "fixed" => Rest + since <= Longest_stray

LEMMA RestBounded == ReceiverTypes => Rest \in 0 .. Longest_stray
BY ReadMcuAssumption DEF ReceiverTypes, Rest, Longest_stray

LEMMA RestShrinks ==
  ASSUME ReceiverTypes, CounterFits, ~ReadOverrun, buffer_size = "fixed", NEW w, NEW tag,
         deal_dma_read_mcu(w, tag)
  PROVE  IF status \in 0 .. 2 THEN status' \in 0 .. 2 ELSE Rest' <= Rest - 1
<1> USE ReadMcuAssumption DEF ReceiverTypes
<1>1. CASE Idle0(w)
  BY <1>1 DEF Idle0, Goto
<1>2. CASE Copy1(w, tag)
  BY <1>2 DEF Copy1, Goto
<1>3. CASE Second3(w)
  BY <1>3 DEF Second3, Goto, Rest
<1>4. CASE Length4(w)
  <2>1. status = 4 /\ status' = 5 /\ package_counter' = 0
    BY <1>4 DEF Length4, Goto, read_buffer, CounterFits
  <2>2. QED
    BY <2>1 DEF Rest
<1>5. CASE Copy5(w, tag)
  <2>1. status = 5 /\ package_counter <= Room
    BY <1>5 DEF Copy5, ReadOverrun
  <2>2. CASE debug_buffer_counter = 3
    <3>1. status' = 6
      BY <1>5, <2>2 DEF Copy5, Goto
    <3>2. QED
      BY <2>1, <3>1 DEF Rest
  <2>3. CASE debug_buffer_counter # 3
    <3>1. status' = 5 /\ package_counter' = package_counter + 1
      BY <1>5, <2>3 DEF Copy5, Goto, Store
    <3>2. QED
      BY <2>1, <3>1 DEF Rest
  <2>4. QED
    BY <2>2, <2>3
<1>6. CASE Unpack(2, Fixed) \/ Unpack(6, Variable)
  BY <1>6 DEF Unpack, Goto, Rest
<1>7. QED
  BY <1>1, <1>2, <1>3, <1>4, <1>5, <1>6 DEF deal_dma_read_mcu

LEMMA OneWordLess ==
  ASSUME NEW l \in Nat, NEW r \in Nat, NEW s \in Nat, NEW q \in Nat, NEW z \in Nat,
         r + q <= l, s = 0 \/ s <= r - 1, z <= q + 1, z <= l
  PROVE  s + z <= l
OBVIOUS

LEMMA RestStep ==
  ASSUME ReceiverTypes, ReceiverTypes', CounterFits, RestInv, [ReadNext]_read_vars
  PROVE  RestInv'
<1>1. PICK l \in Nat : l = Longest_stray
  BY ReadMcuAssumption DEF Longest_stray
<1>2. Rest \in 0 .. l /\ Rest' \in 0 .. l
  <2>1. Rest' \in 0 .. Longest_stray
    BY ReadMcuAssumption DEF ReceiverTypes, Rest, Longest_stray
  <2>2. QED
    BY <1>1, <2>1, RestBounded
<1>3. since \in 0 .. l
  BY <1>1 DEF RestInv
<1>4. ASSUME ReadReceive, ~ReadOverrun PROVE RestInv'
  <2>1. PICK w \in NextValues : deal_dma_read_mcu(w, NextTag)
    BY <1>4 DEF ReadReceive
  <2>2. buffer_size' = buffer_size /\ since' = (IF since < l THEN since + 1 ELSE since)
    BY <1>1, <1>4 DEF ReadReceive
  <2>3. ASSUME buffer_size = "fixed"
        PROVE  IF status \in 0 .. 2 THEN status' \in 0 .. 2 ELSE Rest' <= Rest - 1
    BY <1>4, <2>1, <2>3, RestShrinks
  <2>4. status' \in 0 .. 2 => Rest' = 0
    BY DEF Rest
  <2>5. PICK r \in Nat, s \in Nat, q \in Nat : r = Rest /\ s = Rest' /\ q = since
    BY <1>2, <1>3
  <2>6. since' \in 0 .. l
    BY <1>3, <2>2
  <2>7. ASSUME buffer_size = "fixed" PROVE Rest' + since' <= l
    <3>1. r + q <= l
      BY <1>1, <2>5, <2>7 DEF RestInv
    <3>2. s = 0 \/ s <= r - 1
      BY <2>3, <2>4, <2>5, <2>7
    <3>3. PICK z \in Nat : z = since' /\ z <= q + 1 /\ z <= l
      BY <1>3, <2>2, <2>5, <2>6
    <3>4. s + z <= l
      BY <3>1, <3>2, <3>3, OneWordLess
    <3>5. QED
      BY <2>5, <3>3, <3>4
  <2>8. QED
    BY <1>1, <2>2, <2>6, <2>7 DEF RestInv, Longest_stray
<1>5. CASE BeginPacket \/ ReadLose \/ UNCHANGED read_vars
  <2>1. UNCHANGED <<status, package_counter, buffer_size, since>>
    BY <1>5 DEF BeginPacket, ReadLose, read_vars, read_receiver, read_buffer, read_line
  <2>2. QED
    BY <2>1 DEF RestInv, Rest, Longest_stray
<1>6. CASE ChangeKind
  <2>1. since' = 0
    BY <1>6 DEF ChangeKind
  <2>2. QED
    BY <1>1, <1>2, <2>1 DEF RestInv, Longest_stray
<1>7. QED
  BY <1>4, <1>5, <1>6 DEF ReadNext

(* What has become of a fixed packet that arrives whole: it is being       *)
(* stored, waits to be unpacked, or is taken; or the receiver was at the   *)
(* word that triggers the unpacking of the one before, and takes its last  *)
(* flag for the first of a packet.                                         *)
Holds(n, words) == \A k \in 0 .. words - 1 : package_buffer[k] = <<n, k + 1>>

Gathering == out \in 1 .. Fixed + 1 /\ status = 1 /\ package_counter = out - 1 /\ Holds(number, out - 1)
Gathered  == out = Fixed + 2 /\ status = 2 /\ Holds(number, Fixed)
Unpacked  == out > Fixed + 2 /\ status = 0 /\ taken = number

Passing ==
  \/ out \in 1 .. Fixed + 1 /\ (status = 0 \/ (status = 2 /\ out = 1))
  \/ out \in Fixed + 2 .. 2 * Fixed + 3 /\ status = 1 /\ package_counter = out - (Fixed + 2)
  \/ out > 2 * Fixed + 3 /\ status = 0

(* Before its first word: the packet before waits to be unpacked, or does  *)
(* not, and then neither is there anything else to be.                     *)
Waiting ==
  /\ out = 0
  /\ row >= 1 => \/ status = 2 /\ Holds(number - 1, Fixed) /\ filled_row = 0
                 \/ /\ status = 0 \/ (status = 1 /\ package_counter # Fixed)
                    /\ row >= 2 => taken >= number - 2

FixedInv ==
  /\ row \in Nat /\ filled_row \in 0 .. row
  /\ whole => kind = buffer_size
  /\ whole /\ kind = "fixed" =>
       /\ status \in 0 .. 2
       /\ \/ Waiting
          \/ (Gathering \/ Gathered \/ Unpacked) /\ (row >= 2 => taken >= number - 2)
          \/ Passing /\ filled_row = 0 /\ (row >= 1 => taken >= number - 1)

(* The word that comes is of the packet that is being sent.                *)
LEMMA FixedWords ==
  ASSUME SenderTypes, kind = "fixed", out < Words, NEW w \in NextValues
  PROVE  /\ out = 0 => w = FF
         /\ out \in 1 .. Fixed => NextTag = <<number, out>> /\ NextTag # Nothing
         /\ out = Fixed + 1 => w = FF /\ NextTag = Nothing
         /\ out > Fixed + 1 => w # FF
<1> USE ReadMcuAssumption DEF SenderTypes
<1>1. PICK o \in Nat : o = out
  BY DEF Words
<1>2. CASE o = 0 \/ o = Fixed + 1
  <2>1. w = FF
    BY <1>1, <1>2 DEF NextValues, Framed
  <2>2. o = Fixed + 1 => NextTag = Nothing
    BY <1>1 DEF NextTag, Before, Data
  <2>3. QED
    BY <1>1, <1>2, <2>1, <2>2
<1>3. CASE o \in 1 .. Fixed
  <2>1. NextTag = <<number, o>>
    BY <1>1, <1>3 DEF NextTag, Before, Data
  <2>2. QED
    BY <1>1, <1>3, <2>1 DEF Nothing
<1>4. CASE o > Fixed + 1
  <2>1. w = 0
    BY <1>1, <1>4 DEF NextValues, Framed
  <2>2. QED
    BY <1>1, <1>4, <2>1 DEF FF
<1>5. QED
  BY <1>1, <1>2, <1>3, <1>4

(* In the states of fixed packets the receiver stays in them.              *)
LEMMA FixedReceiver ==
  ASSUME ReceiverTypes, buffer_size = "fixed", status \in 0 .. 2,
         NEW w, NEW tag, deal_dma_read_mcu(w, tag)
  PROVE  /\ status = 0 => /\ status' = (IF w = FF THEN 1 ELSE 0)
                          /\ package_counter' = 0 /\ UNCHANGED <<package_buffer, taken>>
         /\ status = 1 /\ w = FF /\ package_counter # Fixed =>
              status' = 1 /\ package_counter' = 0 /\ UNCHANGED <<package_buffer, taken>>
         /\ status = 1 /\ w = FF /\ package_counter = Fixed =>
              status' = 2 /\ UNCHANGED <<package_counter, package_buffer, taken>>
         /\ status = 1 /\ w # FF /\ package_counter > Fixed =>
              status' = 0 /\ UNCHANGED <<package_counter, package_buffer, taken>>
         /\ status = 1 /\ w # FF /\ package_counter <= Fixed =>
              /\ status' = 1 /\ package_counter' = package_counter + 1 /\ taken' = taken
              /\ package_buffer' = [package_buffer EXCEPT ![package_counter] = tag]
         /\ status = 2 => /\ status' = 0 /\ package_counter' = 0 /\ UNCHANGED package_buffer
                          /\ taken' = IF ChecksumFits(Fixed) THEN package_buffer[0][1] ELSE taken
<1>1. Idle0(w) \/ Copy1(w, tag) \/ Unpack(2, Fixed)
  BY DEF deal_dma_read_mcu, Second3, Length4, Copy5, Unpack
<1>2. CASE Idle0(w)
  BY <1>2 DEF Idle0, Goto
<1>3. CASE Copy1(w, tag)
  <2>1. Fixed \in Nat /\ package_counter \in Nat /\ status = 1
    BY <1>3, ReadMcuAssumption DEF ReceiverTypes, Copy1
  <2>2. QED
    BY <1>3, <2>1 DEF Copy1, Goto, Store, read_buffer
<1>4. CASE Unpack(2, Fixed)
  BY <1>4 DEF Unpack, Goto
<1>5. QED
  BY <1>1, <1>2, <1>3, <1>4

LEMMA HeldIsTaken ==
  ASSUME NEW n, Holds(n, Fixed), status = 2,
         taken' = IF ChecksumFits(Fixed) THEN package_buffer[0][1] ELSE taken
  PROVE  taken' = n
<1>1. package_buffer[0] = <<n, 1>>
  BY ReadMcuAssumption DEF Holds
<1>2. package_buffer[0][1] = n /\ package_buffer[0] # Nothing
  BY <1>1 DEF Nothing
<1>3. ChecksumFits(Fixed)
  BY <1>2 DEF Holds, ChecksumFits
<1>4. QED
  BY <1>2, <1>3

LEMMA FixedReceive ==
  ASSUME SenderTypes, ReceiverTypes, TakenInv, TakenInv', taken' >= taken, FixedInv, ReadReceive
  PROVE  FixedInv'
<1>1. PICK w \in NextValues :
        deal_dma_read_mcu(w, NextTag) /\ whole' = (whole /\ ~(w = FF /\ NextTag # Nothing))
  BY DEF ReadReceive
<1>2. /\ UNCHANGED <<kind, buffer_size, number, row, filled_row>>
      /\ out < Words /\ out' = out + 1
  BY DEF ReadReceive
<1>3. row \in Nat /\ filled_row \in 0 .. row
  BY DEF FixedInv
<1>4. SUFFICES ASSUME whole', kind' = "fixed"
               PROVE  /\ status' \in 0 .. 2
                      /\ \/ Waiting'
                         \/ (Gathering \/ Gathered \/ Unpacked)' /\ (row >= 2 => taken' >= number - 2)
                         \/ Passing' /\ filled_row = 0 /\ (row >= 1 => taken' >= number - 1)
  <2>1. whole' => kind' = buffer_size'
    BY <1>1, <1>2 DEF FixedInv
  <2>2. QED
    BY <1>2, <1>3, <1>4, <2>1 DEF FixedInv
<1>5. whole /\ kind = "fixed" /\ buffer_size = "fixed" /\ ~(w = FF /\ NextTag # Nothing)
  BY <1>1, <1>2, <1>4, Zenon DEF FixedInv
<1>6. PICK o \in Nat, n \in Nat, t \in Nat, u \in Nat :
        o = out /\ n = number /\ t = taken /\ u = taken' /\ u >= t /\ n >= u
  BY <1>2, ReadMcuAssumption DEF SenderTypes, Words, TakenInv
<1>7. Fixed \in Nat \ {0} /\ Fixed < Room /\ Room \in Nat /\ package_counter \in Nat
  BY ReadMcuAssumption DEF ReceiverTypes
<1>8. /\ o = 0 => w = FF
      /\ o \in 1 .. Fixed => NextTag = <<n, o>> /\ w # FF
      /\ o = Fixed + 1 => w = FF
      /\ o > Fixed + 1 => w # FF
  BY <1>2, <1>5, <1>6, FixedWords
<1>9. /\ status \in 0 .. 2
      /\ \/ Waiting
         \/ (Gathering \/ Gathered \/ Unpacked) /\ (row >= 2 => t >= n - 2)
         \/ Passing /\ filled_row = 0 /\ (row >= 1 => t >= n - 1)
  BY <1>5, <1>6 DEF FixedInv
<1>10. /\ status = 0 => /\ status' = (IF w = FF THEN 1 ELSE 0)
                        /\ package_counter' = 0 /\ UNCHANGED <<package_buffer, taken>>
       /\ status = 1 /\ w = FF /\ package_counter # Fixed =>
            status' = 1 /\ package_counter' = 0 /\ UNCHANGED <<package_buffer, taken>>
       /\ status = 1 /\ w = FF /\ package_counter = Fixed =>
            status' = 2 /\ UNCHANGED <<package_counter, package_buffer, taken>>
       /\ status = 1 /\ w # FF /\ package_counter > Fixed =>
            status' = 0 /\ UNCHANGED <<package_counter, package_buffer, taken>>
       /\ status = 1 /\ w # FF /\ package_counter <= Fixed =>
            /\ status' = 1 /\ package_counter' = package_counter + 1 /\ taken' = taken
            /\ package_buffer' = [package_buffer EXCEPT ![package_counter] = NextTag]
       /\ status = 2 => /\ status' = 0 /\ package_counter' = 0 /\ UNCHANGED package_buffer
                        /\ taken' = IF ChecksumFits(Fixed) THEN package_buffer[0][1] ELSE taken
  BY <1>1, <1>5, <1>9, FixedReceiver
<1>11. ASSUME o = 0, status = 0 \/ (status = 1 /\ package_counter # Fixed)
       PROVE  status' = 1 /\ Gathering'
  <2>1. status' = 1 /\ package_counter' = 0
    BY <1>8, <1>10, <1>11
  <2>2. QED
    BY <1>2, <1>6, <1>7, <1>11, <2>1 DEF Gathering, Holds
<1>12. ASSUME o = 0, status = 2 \/ (status = 1 /\ package_counter = Fixed)
       PROVE  status' \in 0 .. 2 /\ Passing'
  <2>1. status' = 0 \/ status' = 2
    BY <1>8, <1>10, <1>12
  <2>2. out' = 1
    BY <1>2, <1>6, <1>12
  <2>3. QED
    BY <1>7, <2>1, <2>2 DEF Passing
<1>13. CASE Waiting
  <2>1. o = 0
    BY <1>6, <1>13 DEF Waiting
  <2>2. CASE row = 0
    <3>1. filled_row = 0 /\ ~(row >= 2) /\ ~(row >= 1)
      BY <1>3, <2>2
    <3>2. QED
      BY <1>9, <1>11, <1>12, <2>1, <3>1
  <2>3. CASE row >= 1 /\ status = 2 /\ Holds(number - 1, Fixed) /\ filled_row = 0
    <3>1. taken' = number - 1
      BY <1>10, <2>3, HeldIsTaken
    <3>2. taken' >= number - 1
      BY <1>6, <3>1
    <3>3. QED
      BY <1>12, <2>1, <2>3, <3>2
  <2>4. CASE /\ status = 0 \/ (status = 1 /\ package_counter # Fixed)
             /\ row >= 2 => taken >= number - 2
    <3>1. taken' = taken
      BY <1>8, <1>10, <2>1, <2>4
    <3>2. QED
      BY <1>11, <2>1, <2>4, <3>1
  <2>5. row = 0 \/ row >= 1
    BY <1>3
  <2>6. QED
    BY <1>13, <2>2, <2>3, <2>4, <2>5 DEF Waiting
<1>14. CASE Gathering /\ (row >= 2 => t >= n - 2)
  <2>1. o \in 1 .. Fixed + 1 /\ status = 1 /\ package_counter = o - 1 /\ Holds(n, o - 1)
    BY <1>6, <1>14 DEF Gathering
  <2>2. CASE o = Fixed + 1
    <3>1. status' = 2 /\ UNCHANGED <<package_buffer, taken>>
      BY <1>7, <1>8, <1>10, <2>1, <2>2
    <3>2. Gathered'
      <4>1. Holds(n, Fixed)
        BY <1>7, <2>1, <2>2
      <4>2. Holds(number, Fixed)'
        BY <1>2, <1>6, <3>1, <4>1 DEF Holds
      <4>3. out' = Fixed + 2
        BY <1>2, <1>6, <1>7, <2>2
      <4>4. QED
        BY <3>1, <4>2, <4>3 DEF Gathered
    <3>3. QED
      BY <1>6, <1>14, <3>1, <3>2
  <2>3. CASE o \in 1 .. Fixed
    <3>1. w # FF /\ package_counter <= Fixed /\ package_counter < Room
      BY <1>7, <1>8, <2>1, <2>3
    <3>2. /\ status' = 1 /\ package_counter' = o /\ taken' = taken
          /\ package_buffer' = [package_buffer EXCEPT ![o - 1] = <<n, o>>]
      BY <1>6, <1>8, <1>10, <2>1, <2>3, <3>1
    <3>3. ASSUME NEW k \in 0 .. o - 1 PROVE package_buffer'[k] = <<n, k + 1>>
      <4>1. package_buffer \in [0 .. Room - 1 -> (0 .. number) \X Nat] /\ o - 1 \in 0 .. Room - 1
        BY <1>7, <2>3, SMTT(30) DEF TakenInv
      <4>2. CASE k = o - 1
        <5>1. k + 1 = o
          BY <4>2
        <5>2. QED
          BY <3>2, <4>1, <4>2, <5>1
      <4>3. CASE k # o - 1
        <5>1. k \in 0 .. (o - 1) - 1
          BY <4>3
        <5>2. package_buffer[k] = <<n, k + 1>>
          BY <2>1, <5>1 DEF Holds
        <5>3. k \in 0 .. Room - 1
          BY <1>7, <2>3
        <5>4. QED
          BY <3>2, <4>1, <4>3, <5>2, <5>3
      <4>4. QED
        BY <4>2, <4>3
    <3>4. Gathering'
      <4>1. out' = o + 1 /\ out' \in 1 .. Fixed + 1 /\ package_counter' = out' - 1 /\ out' - 1 = o
        BY <1>2, <1>6, <1>7, <2>3, <3>2
      <4>2. number' = n
        BY <1>2, <1>6
      <4>3. QED
        BY <3>2, <3>3, <4>1, <4>2 DEF Gathering, Holds
    <3>5. QED
      BY <1>6, <1>14, <3>2, <3>4
  <2>4. QED
    BY <1>7, <2>1, <2>2, <2>3
<1>15. CASE Gathered /\ (row >= 2 => t >= n - 2)
  <2>1. taken' = number /\ status' = 0
    BY <1>10, <1>15, HeldIsTaken DEF Gathered
  <2>2. out' > Fixed + 2
    BY <1>2, <1>7, <1>15 DEF Gathered
  <2>3. Unpacked'
    BY <1>2, <2>1, <2>2 DEF Unpacked
  <2>4. taken' >= number - 2
    BY <1>6, <2>1
  <2>5. QED
    BY <2>1, <2>3, <2>4
<1>16. CASE Unpacked /\ (row >= 2 => t >= n - 2)
  <2>1. o > Fixed + 2 /\ status = 0 /\ taken = number
    BY <1>6, <1>16 DEF Unpacked
  <2>2. status' = 0 /\ taken' = number
    BY <1>7, <1>8, <1>10, <2>1
  <2>3. out' > Fixed + 2
    BY <1>2, <1>6, <1>7, <2>1
  <2>4. QED
    BY <1>2, <1>6, <1>16, <2>2, <2>3 DEF Unpacked
<1>17. CASE Passing /\ filled_row = 0 /\ (row >= 1 => t >= n - 1)
  <2>1. row >= 1 => taken' >= number - 1
    BY <1>6, <1>17
  <2>2. status' \in 0 .. 2 /\ Passing'
    <3>1. CASE o \in 1 .. Fixed + 1 /\ (status = 0 \/ (status = 2 /\ o = 1))
      <4>1. CASE o = Fixed + 1
        <5>1. status' = 1 /\ package_counter' = 0
          BY <1>7, <1>8, <1>10, <3>1, <4>1
        <5>2. out' = Fixed + 2
          BY <1>2, <1>6, <1>7, <4>1
        <5>3. QED
          BY <1>7, <5>1, <5>2 DEF Passing
      <4>2. CASE o \in 1 .. Fixed
        <5>1. status' = 0
          BY <1>8, <1>10, <3>1, <4>2
        <5>2. out' \in 1 .. Fixed + 1
          BY <1>2, <1>6, <1>7, <4>2
        <5>3. QED
          BY <5>1, <5>2 DEF Passing
      <4>3. QED
        BY <1>7, <3>1, <4>1, <4>2
    <3>2. CASE o \in Fixed + 2 .. 2 * Fixed + 3 /\ status = 1 /\ package_counter = o - (Fixed + 2)
      <4>1. w # FF /\ out' = o + 1
        BY <1>2, <1>6, <1>7, <1>8, <3>2
      <4>2. CASE o = 2 * Fixed + 3
        <5>1. package_counter > Fixed
          BY <1>7, <3>2, <4>2
        <5>2. status' = 0
          BY <1>10, <3>2, <4>1, <5>1
        <5>3. QED
          BY <1>7, <4>1, <4>2, <5>2 DEF Passing
      <4>3. CASE o \in Fixed + 2 .. 2 * Fixed + 2
        <5>1. package_counter <= Fixed
          BY <1>7, <3>2, <4>3
        <5>2. status' = 1 /\ package_counter' = package_counter + 1
          BY <1>10, <3>2, <4>1, <5>1
        <5>3. package_counter' = out' - (Fixed + 2) /\ out' \in Fixed + 2 .. 2 * Fixed + 3
          BY <1>7, <3>2, <4>1, <4>3, <5>2
        <5>4. QED
          BY <5>2, <5>3 DEF Passing
      <4>4. QED
        BY <1>7, <3>2, <4>2, <4>3
    <3>3. CASE o > 2 * Fixed + 3 /\ status = 0
      <4>1. status' = 0 /\ out' = o + 1
        BY <1>2, <1>6, <1>7, <1>8, <1>10, <3>3
      <4>2. QED
        BY <1>7, <3>3, <4>1 DEF Passing
    <3>4. QED
      BY <1>6, <1>17, <3>1, <3>2, <3>3 DEF Passing
  <2>3. QED
    BY <1>17, <2>1, <2>2
<1>18. QED
  <2>1. Gathering' => status' = 1
    BY DEF Gathering
  <2>2. QED
    BY <1>9, <1>13, <1>14, <1>15, <1>16, <1>17

LEMMA FixedBegin ==
  ASSUME SenderTypes, TakenInv, FixedInv, BeginPacket PROVE FixedInv'
<1>1. /\ kind' \in {kind, buffer_size} /\ buffer_size' = buffer_size /\ out = Words
      /\ number' = number + 1 /\ out' = 0
      /\ whole' = (kind' = buffer_size /\ (kind' = "fixed" => status \in 0 .. 2))
      /\ row' = IF whole THEN row + 1 ELSE 0
      /\ filled_row' = IF whole /\ fill > 0 THEN filled_row + 1 ELSE 0
      /\ UNCHANGED <<status, package_buffer, package_counter, taken>>
  BY DEF BeginPacket, read_receiver, read_buffer
<1>2. PICK r \in Nat, f \in Nat : r = row /\ f = filled_row /\ f <= r
  BY DEF FixedInv
<1>3. row' \in Nat /\ filled_row' \in 0 .. row'
  BY <1>1, <1>2
<1>4. whole' => kind' = buffer_size'
  BY <1>1
<1>5. ASSUME whole', kind' = "fixed" PROVE status' \in 0 .. 2 /\ Waiting'
  <2>1. status \in 0 .. 2
    BY <1>1, <1>5
  <2>2. CASE ~whole
    BY <1>1, <2>1, <2>2 DEF Waiting
  <2>3. CASE whole
    <3>1. kind = "fixed"
      BY <1>1, <1>4, <1>5, <2>3 DEF FixedInv
    <3>2. PICK p \in Nat : p = fill /\ p # Fixed
      BY ReadMcuAssumption DEF SenderTypes
    <3>3. PICK n \in Nat, t \in Nat : n = number /\ t = taken /\ t <= n
      BY ReadMcuAssumption DEF SenderTypes, TakenInv
    <3>4. out = Fixed + 2 + p /\ Fixed \in Nat \ {0}
      BY <1>1, <3>1, <3>2, ReadMcuAssumption DEF Words, Framed
    <3>5. row' = r + 1 /\ number' = n + 1 /\ number' - 1 = n
      BY <1>1, <1>2, <2>3, <3>3
    <3>6. CASE Gathered
      <4>1. filled_row' = 0
        BY <1>1, <3>2, <3>4, <3>6 DEF Gathered
      <4>2. Holds(number - 1, Fixed)'
        BY <1>1, <3>3, <3>5, <3>6 DEF Gathered, Holds
      <4>3. QED
        BY <1>1, <2>1, <3>6, <4>1, <4>2 DEF Gathered, Waiting
    <3>7. CASE Unpacked
      <4>1. status' = 0 /\ taken' >= number' - 2
        BY <1>1, <3>3, <3>5, <3>7 DEF Unpacked
      <4>2. QED
        BY <1>1, <4>1 DEF Waiting
    <3>8. CASE Passing /\ (row >= 1 => taken >= number - 1)
      <4>1. row' >= 2 => taken' >= number' - 2
        BY <1>1, <1>2, <3>3, <3>5, <3>8
      <4>2. status' = 0 \/ (status' = 1 /\ package_counter' # Fixed)
        <5>1. out \in Fixed + 2 .. 2 * Fixed + 3 /\ package_counter = out - (Fixed + 2)
                => package_counter # Fixed
          BY <3>2, <3>4
        <5>2. ~(out \in 1 .. Fixed + 1)
          BY <3>2, <3>4
        <5>3. QED
          BY <1>1, <3>8, <5>1, <5>2 DEF Passing
      <4>3. QED
        BY <1>1, <2>1, <4>1, <4>2 DEF Waiting
    <3>9. ~Waiting /\ ~Gathering
      BY <3>2, <3>4 DEF Waiting, Gathering
    <3>10. QED
      BY <2>3, <3>1, <3>6, <3>7, <3>8, <3>9 DEF FixedInv
  <2>4. QED
    BY <2>2, <2>3
<1>6. QED
  BY <1>3, <1>4, <1>5 DEF FixedInv

LEMMA FixedStep ==
  ASSUME SenderTypes, ReceiverTypes, TakenInv, TakenInv', taken' >= taken, FixedInv,
         [ReadNext]_read_vars
  PROVE  FixedInv'
<1>1. CASE ReadLose \/ ChangeKind
  <2>1. ~whole' /\ UNCHANGED <<row, filled_row>>
    BY <1>1 DEF ReadLose, ChangeKind
  <2>2. QED
    BY <2>1 DEF FixedInv
<1>2. CASE UNCHANGED read_vars
  BY <1>2 DEF read_vars, read_sender, read_receiver, read_buffer, read_line, FixedInv, Waiting,
              Gathering, Gathered, Unpacked, Passing, Holds
<1>3. QED
  BY <1>1, <1>2, FixedBegin, FixedReceive DEF ReadNext

LEMMA FixedRight ==
  ASSUME SenderTypes, ReceiverTypes, TakenInv, FixedInv, RestInv PROVE FixedResynchronised
<1>1. PICK n \in Nat, t \in Nat : n = number /\ t = taken /\ t <= n
  BY ReadMcuAssumption DEF SenderTypes, TakenInv
<1>2. FoundInRow
  <2> SUFFICES ASSUME out = Words, whole, kind = "fixed"
               PROVE  /\ filled_row >= 1 /\ fill > 0 => taken = number
                      /\ row >= 2 => taken >= number - 2
    BY DEF FoundInRow
  <2>1. PICK p \in Nat : p = fill
    BY ReadMcuAssumption DEF SenderTypes
  <2>2. out = Fixed + 2 + p /\ Fixed \in Nat \ {0}
    BY <2>1, ReadMcuAssumption DEF Words, Framed
  <2>3. ~Waiting /\ ~Gathering
    BY <2>1, <2>2 DEF Waiting, Gathering
  <2>4. Gathered => ~(fill > 0)
    BY <2>1, <2>2 DEF Gathered
  <2>5. row >= 1 /\ taken >= number - 1 => taken >= number - 2
    BY <1>1
  <2>6. filled_row = 0 => ~(filled_row >= 1)
    OBVIOUS
  <2>7. row >= 2 => row >= 1
    BY DEF FixedInv
  <2>8. QED
    BY <2>3, <2>4, <2>5, <2>6, <2>7 DEF FixedInv, Unpacked
<1>3. LeavesVariable
  <2>1. PICK l \in Nat : l = Longest_stray /\ l >= 4
    BY ReadMcuAssumption DEF Longest_stray
  <2>2. PICK r \in 0 .. l : r = Rest
    BY <2>1, RestBounded
  <2>3. buffer_size = "fixed" /\ since = l => r = 0
    BY <2>1, <2>2 DEF RestInv
  <2>4. r = 0 => status \in 0 .. 2
    BY <2>1, <2>2, ReadMcuAssumption DEF ReceiverTypes, Rest
  <2>5. QED
    BY <2>1, <2>3, <2>4 DEF LeavesVariable
<1>4. QED
  BY <1>2, <1>3 DEF FixedResynchronised

(* However many words are lost and whenever a button changes the kind of   *)
(* packets: of fixed packets that arrive whole, one of two is taken, every *)
(* one if read_mcu fills its blocks, and the receiver is back at them when *)
(* it has taken as many words as fill its buffer, as long as no word that  *)
(* is no length leads it past the end.                                     *)
THEOREM FixedFoundAgain ==
  ASSUME Values \subseteq Int, Checks \subseteq Int PROVE ReadSpec => [](WithinBuffer /\ FixedResynchronised)
<1> DEFINE Inv == ReadInv /\ RestInv /\ FixedInv
<1>1. ReadInit => Inv
  <2> SUFFICES ASSUME ReadInit PROVE Inv
    OBVIOUS
  <2>1. ReadInv
    BY ReadInvInit
  <2>2. RestInv
    BY ReadMcuAssumption DEF ReadInit, RestInv, Rest, Longest_stray
  <2>3. FixedInv
    BY DEF ReadInit, FixedInv
  <2>4. QED
    BY <2>1, <2>2, <2>3
<1>2. Inv /\ [ReadNext]_read_vars => Inv'
  <2> SUFFICES ASSUME Inv, [ReadNext]_read_vars PROVE Inv'
    OBVIOUS
  <2>1. ReadInv'
    BY ReadInvStep
  <2>2. RestInv'
    BY <2>1, RestStep DEF ReadInv
  <2>3. taken' >= taken
    BY TakenStep DEF ReadInv, ReceiverTypes
  <2>4. FixedInv'
    BY <2>1, <2>3, FixedStep DEF ReadInv
  <2>5. QED
    BY <2>1, <2>2, <2>4
<1>3. Inv => WithinBuffer /\ FixedResynchronised
  BY FixedRight, ReadWithin DEF ReadInv
<1>4. QED
  BY <1>1, <1>2, <1>3, PTL DEF ReadSpec
=============================================================================
