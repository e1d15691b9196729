------------------------------ MODULE GpsProofs ------------------------------
(***************************************************************************)
(* Theorems about GpsLink: its types, and how far package_counter can run  *)
(* for the CRs that are lost.                                              *)
(***************************************************************************)
EXTENDS GpsLink, SequenceTheorems, WellFoundedInduction, TLAPS

LEMMA Products ==
  ASSUME NEW m \in Nat, NEW n \in Nat, NEW l \in Nat
  PROVE  /\ m * l \in Nat
         /\ (m + 1) * l = m * l + l
         /\ m <= n => m * l <= n * l
<1>1. m * l \in Nat /\ (m + 1) * l = m * l + l
  OBVIOUS
<1>2. ASSUME m <= n PROVE m * l <= n * l
  BY <1>2
<1>3. QED
  BY <1>1, <1>2

(* Two sequences joined, with their lengths as numbers.                    *)
LEMMA Joined ==
  ASSUME NEW a \in Seq(Nat), NEW b \in Seq(Nat), NEW m \in Nat, m = Len(a), NEW n \in Nat, n = Len(b)
  PROVE  /\ a \o b \in Seq(Nat) /\ Len(a \o b) = m + n
         /\ \A k \in 1 .. m + n : (a \o b)[k] = IF k <= m THEN a[k] ELSE b[k - m]
BY ConcatProperties

(* The words of a sentence, one by one.                                    *)
LEMMA SentenceParts ==
  ASSUME NEW words \in Bodies
  PROVE  LET f == Sentence[words]
             n == Len(words)
             c == Checksum(words) IN
         /\ n \in Nat /\ c \in Byte
         /\ Len(f) = n + 6 /\ Len(f) <= Longest
         /\ f[1] = 36 /\ f[n + 2] = 42 /\ f[n + 5] = 13 /\ f[n + 6] = 10
         /\ f[n + 3] = HexDigit(c \div 16) /\ f[n + 4] = HexDigit(c % 16)
         /\ f[n + 3] \in 48 .. 70 /\ f[n + 4] \in 48 .. 70
         /\ \A k \in 1 .. n : f[k + 1] = words[k]
         /\ \A k \in 1 .. n : words[k] \in Nat /\ words[k] # 36 /\ words[k] # 42 /\ words[k] # 13
<1> DEFINE c == Checksum(words)
           hi == HexDigit(c \div 16)
           lo == HexDigit(c % 16)
           head == <<Dollar>> \o words
           front == head \o <<Star, hi, lo>>
           f == front \o <<Return, Newline>>
           n == Len(words)
<1>1. c \in Byte /\ words \in Seq(Byte \ Special) /\ Sentence[words] = f
      /\ Len(Sentence[words]) <= Longest
  BY GpsAssumption DEF Sentence
<1>2. hi \in 48 .. 70 /\ lo \in 48 .. 70
  <2> HIDE DEF c
  <2>1. c \div 16 \in 0 .. 15 /\ c % 16 \in 0 .. 15
    BY <1>1 DEF Byte
  <2> DEFINE d == c \div 16
             e == c % 16
  <2> HIDE DEF d, e
  <2>2. d \in 0 .. 15 /\ e \in 0 .. 15
    BY <2>1 DEF d, e
  <2>3. HexDigit(d) \in 48 .. 70 /\ HexDigit(e) \in 48 .. 70
    BY <2>2 DEF HexDigit
  <2>4. QED
    BY <2>3 DEF d, e
<1>3. n \in Nat /\ words \in Seq(Nat)
  <2>1. Byte \ Special \subseteq Nat
    BY DEF Byte
  <2>2. QED
    BY <1>1, <2>1, SeqMonotonic, LenProperties
<1>4. ASSUME NEW k \in 1 .. n PROVE words[k] \in Nat /\ words[k] # 36 /\ words[k] # 42 /\ words[k] # 13
  <2>1. words[k] \in Byte \ Special
    BY <1>1, ElementOfSeq
  <2>2. \A w \in Byte \ Special : w \in Nat /\ w # 36 /\ w # 42 /\ w # 13
    BY DEF Byte, Special, Dollar, Star, Return, Newline
  <2>3. QED
    BY <2>1, <2>2
<1> HIDE DEF hi, lo, n
<1>5. <<Dollar>> \in Seq(Nat) /\ <<Star, hi, lo>> \in Seq(Nat) /\ <<Return, Newline>> \in Seq(Nat)
  BY <1>2 DEF Dollar, Star, Return, Newline
<1>6. head \in Seq(Nat) /\ Len(head) = n + 1
      /\ \A k \in 1 .. n + 1 : head[k] = IF k <= 1 THEN <<Dollar>>[k] ELSE words[k - 1]
  <2> DEFINE t == <<Dollar>>
  <2>1. PICK l \in Nat : l = 1
    OBVIOUS
  <2>2. t \in Seq(Nat) /\ l = Len(t)
    BY <1>5, <2>1
  <2>3. words \in Seq(Nat) /\ n \in Nat /\ n = Len(words)
    BY <1>3 DEF n
  <2> HIDE DEF t
  <2>4. /\ t \o words \in Seq(Nat) /\ Len(t \o words) = l + n
        /\ \A k \in 1 .. l + n : (t \o words)[k] = IF k <= l THEN t[k] ELSE words[k - l]
    BY <2>2, <2>3, Joined
  <2>5. l + n = n + 1
    BY <1>3, <2>1
  <2>6. QED
    BY <2>1, <2>4, <2>5 DEF t, head
<1> HIDE DEF head
<1>7. front \in Seq(Nat) /\ Len(front) = n + 4
      /\ \A k \in 1 .. n + 4 :
           front[k] = IF k <= n + 1 THEN head[k] ELSE <<Star, hi, lo>>[k - (n + 1)]
  <2> DEFINE t == <<Star, hi, lo>>
  <2>1. PICK l \in Nat, m \in Nat : l = 3 /\ m = n + 1
    BY <1>3
  <2>2. t \in Seq(Nat) /\ l = Len(t)
    BY <1>5, <2>1
  <2>3. head \in Seq(Nat) /\ m = Len(head)
    BY <2>1, <1>6
  <2> HIDE DEF t
  <2>4. /\ head \o t \in Seq(Nat) /\ Len(head \o t) = m + l
        /\ \A k \in 1 .. m + l : (head \o t)[k] = IF k <= m THEN head[k] ELSE t[k - m]
    BY <2>2, <2>3, Joined
  <2>5. m + l = n + 4
    BY <1>3, <2>1
  <2>6. QED
    BY <2>1, <2>4, <2>5 DEF t, front
<1> HIDE DEF front
<1>8. Len(f) = n + 6
      /\ \A k \in 1 .. n + 6 :
           f[k] = IF k <= n + 4 THEN front[k] ELSE <<Return, Newline>>[k - (n + 4)]
  <2> DEFINE t == <<Return, Newline>>
  <2>1. PICK l \in Nat, m \in Nat : l = 2 /\ m = n + 4
    BY <1>3
  <2>2. t \in Seq(Nat) /\ l = Len(t)
    BY <1>5, <2>1
  <2>3. front \in Seq(Nat) /\ m = Len(front)
    BY <2>1, <1>7
  <2> HIDE DEF t
  <2>4. /\ front \o t \in Seq(Nat) /\ Len(front \o t) = m + l
        /\ \A k \in 1 .. m + l : (front \o t)[k] = IF k <= m THEN front[k] ELSE t[k - m]
    BY <2>2, <2>3, Joined
  <2>5. m + l = n + 6
    BY <1>3, <2>1
  <2>6. QED
    BY <2>1, <2>4, <2>5 DEF t, f
<1> HIDE DEF f
<1>9. f[1] = 36
  <2>1. 1 \in 1 .. n + 6 /\ 1 <= n + 4 /\ 1 \in 1 .. n + 4 /\ 1 <= n + 1 /\ 1 \in 1 .. n + 1
    BY <1>3
  <2>2. QED
    BY <2>1, <1>6, <1>7, <1>8 DEF Dollar
<1>10. f[n + 2] = 42 /\ f[n + 3] = hi /\ f[n + 4] = lo
  <2> DEFINE t == <<Star, hi, lo>>
  <2> HIDE DEF t
  <2>0. \A k \in 1 .. n + 4 : front[k] = IF k <= n + 1 THEN head[k] ELSE t[k - (n + 1)]
    BY <1>7 DEF t
  <2>1. ASSUME NEW k \in 1 .. 3 PROVE f[n + 1 + k] = t[k]
    <3>1. PICK i \in 1 .. n + 4 : i = n + 1 + k /\ ~(i <= n + 1) /\ i - (n + 1) = k /\ i \in 1 .. n + 6
      BY <1>3
    <3>2. f[i] = front[i]
      BY <3>1, <1>8
    <3>3. front[i] = t[i - (n + 1)]
      BY <2>0, <3>1
    <3>4. QED
      BY <3>1, <3>2, <3>3
  <2>2. n + 1 + 1 = n + 2 /\ n + 1 + 2 = n + 3 /\ n + 1 + 3 = n + 4
    BY <1>3
  <2>3. f[n + 1 + 1] = 42 /\ f[n + 1 + 2] = hi /\ f[n + 1 + 3] = lo
    BY <2>1 DEF Star, t
  <2>4. QED
    BY <2>2, <2>3
<1>11. f[n + 5] = 13 /\ f[n + 6] = 10
  <2>1. /\ n + 5 \in 1 .. n + 6 /\ n + 6 \in 1 .. n + 6 /\ ~(n + 5 <= n + 4)
        /\ ~(n + 6 <= n + 4) /\ n + 5 - (n + 4) = 1 /\ n + 6 - (n + 4) = 2
    BY <1>3
  <2> DEFINE t == <<Return, Newline>>
  <2> HIDE DEF t
  <2>2. \A k \in 1 .. n + 6 : f[k] = IF k <= n + 4 THEN front[k] ELSE t[k - (n + 4)]
    BY <1>8 DEF t
  <2>3. f[n + 5] = t[1] /\ f[n + 6] = t[2]
    BY <2>1, <2>2, <1>3
  <2>4. QED
    BY <2>3 DEF t, Return, Newline
<1>12. ASSUME NEW k \in 1 .. n PROVE f[k + 1] = words[k]
  <2>1. /\ k + 1 \in 1 .. n + 6 /\ k + 1 <= n + 4 /\ k + 1 \in 1 .. n + 4
        /\ k + 1 <= n + 1 /\ k + 1 \in 1 .. n + 1 /\ ~(k + 1 <= 1) /\ k + 1 - 1 = k
    BY <1>3
  <2>2. f[k + 1] = front[k + 1] /\ front[k + 1] = head[k + 1] /\ head[k + 1] = words[k + 1 - 1]
    BY <2>1, <1>6, <1>7, <1>8, SMTT(30)
  <2>3. QED
    BY <2>1, <2>2
<1>13. QED
  BY <1>1, <1>2, <1>3, <1>4, <1>8, <1>9, <1>10, <1>11, <1>12 DEF hi, lo, n

(* A sentence has its '$' first, its CR last but one, its star before the  *)
(* two digits of the checksum, and no other of them.                       *)
LEMMA SentenceShape ==
  ASSUME NEW words \in Bodies
  PROVE  LET f == Sentence[words] IN
         /\ Len(f) \in Nat /\ Len(f) >= 6 /\ Len(f) <= Longest
         /\ \A k \in 1 .. Len(f) : f[k] = Dollar <=> k = 1
         /\ \A k \in 1 .. Len(f) : f[k] = Return <=> k = Len(f) - 1
         /\ \A k \in 1 .. Len(f) : f[k] = Star <=> k = Len(f) - 4
<1> DEFINE f == Sentence[words]
           n == Len(words)
<1>1. /\ n \in Nat /\ Len(f) = n + 6 /\ Len(f) <= Longest
      /\ f[1] = 36 /\ f[n + 2] = 42 /\ f[n + 5] = 13 /\ f[n + 6] = 10
      /\ f[n + 3] \in 48 .. 70 /\ f[n + 4] \in 48 .. 70
      /\ \A k \in 1 .. n : f[k + 1] = words[k]
      /\ \A k \in 1 .. n : words[k] \in Nat /\ words[k] # 36 /\ words[k] # 42 /\ words[k] # 13
  BY SentenceParts
<1> HIDE DEF f, n
<1>0. /\ n \in Nat /\ f[1] = 36 /\ f[n + 2] = 42 /\ f[n + 5] = 13 /\ f[n + 6] = 10
      /\ f[n + 3] # 36 /\ f[n + 3] # 42 /\ f[n + 3] # 13
      /\ f[n + 4] # 36 /\ f[n + 4] # 42 /\ f[n + 4] # 13
  <2>1. \A d \in 48 .. 70 : d # 36 /\ d # 42 /\ d # 13
    OBVIOUS
  <2>2. f[n + 3] \in 48 .. 70 /\ f[n + 4] \in 48 .. 70
    BY <1>1
  <2>3. QED
    BY <1>1, <2>1, <2>2
<1>2. ASSUME NEW k \in 1 .. n + 6
      PROVE  (f[k] = 36 <=> k = 1) /\ (f[k] = 13 <=> k = n + 5) /\ (f[k] = 42 <=> k = n + 2)
  <2>0. n \in Nat
    BY <1>0
  <2>1. CASE k = 1
    <3>1. k # n + 5 /\ k # n + 2
      BY <2>0, <2>1
    <3>2. QED
      BY <1>0, <2>1, <3>1
  <2>2. CASE k > 1 /\ k <= n + 1
    <3>1. PICK i \in 1 .. n : k = i + 1
      BY <2>0, <2>2
    <3>2. f[k] # 36 /\ f[k] # 42 /\ f[k] # 13
      <4>1. f[i + 1] = words[i] /\ words[i] # 36 /\ words[i] # 42 /\ words[i] # 13
        BY <1>1
      <4>2. QED
        BY <3>1, <4>1
    <3>3. k # 1 /\ k # n + 5 /\ k # n + 2
      BY <2>0, <2>2
    <3>4. QED
      BY <3>2, <3>3
  <2>3. CASE k \in n + 2 .. n + 6
    <3>1. PICK i \in 2 .. 6 : i = k - n
      BY <2>0, <2>3
    <3>2. k = n + i /\ k # 1 /\ (k = n + 5 <=> i = 5) /\ (k = n + 2 <=> i = 2)
      BY <2>0, <3>1
    <3>3. i = 2 \/ i = 3 \/ i = 4 \/ i = 5 \/ i = 6
      OBVIOUS
    <3>4. QED
      BY <1>0, <3>2, <3>3
  <2>4. k = 1 \/ (k > 1 /\ k <= n + 1) \/ k \in n + 2 .. n + 6
    BY <2>0
  <2>5. QED
    BY <2>1, <2>2, <2>3, <2>4
<1>3. Len(f) - 1 = n + 5 /\ Len(f) - 4 = n + 2 /\ Len(f) \in Nat /\ Len(f) >= 6
  BY <1>1
<1>4. /\ \A k \in 1 .. Len(f) : f[k] = 36 <=> k = 1
      /\ \A k \in 1 .. Len(f) : f[k] = 13 <=> k = Len(f) - 1
      /\ \A k \in 1 .. Len(f) : f[k] = 42 <=> k = Len(f) - 4
  BY <1>1, <1>2, <1>3
<1>5. QED
  BY <1>1, <1>3, <1>4 DEF f, Dollar, Return, Star

-----------------------------------------------------------------------------
(* The shape of the sentence on the line, in the terms the steps use.      *)
LEMMA OnTheLine ==
  ASSUME TypeOK
  PROVE  /\ Len(Frame) \in Nat /\ Len(Frame) >= 6 /\ Len(Frame) <= Longest
         /\ pos \in Nat /\ pos <= Len(Frame)
         /\ pos < Len(Frame) => /\ Word = Dollar <=> pos = 0
                                /\ Word = Return <=> pos = Len(Frame) - 2
<1>1. body \in Bodies /\ pos \in 0 .. Len(Frame)
  BY DEF TypeOK
<1>2. /\ Len(Frame) \in Nat /\ Len(Frame) >= 6 /\ Len(Frame) <= Longest
      /\ \A k \in 1 .. Len(Frame) : Frame[k] = Dollar <=> k = 1
      /\ \A k \in 1 .. Len(Frame) : Frame[k] = Return <=> k = Len(Frame) - 1
  BY <1>1, SentenceShape DEF Frame
<1>3. pos < Len(Frame) => pos + 1 \in 1 .. Len(Frame)
  BY <1>1, <1>2
<1>4. QED
  BY <1>1, <1>2, <1>3 DEF Word

LEMMA TypeInit == Init => TypeOK
<1> SUFFICES ASSUME Init PROVE TypeOK
  OBVIOUS
<1>1. body \in Bodies /\ pos = Len(Frame) /\ Len(Frame) \in Nat /\ Len(Frame) >= 6
  BY SentenceShape DEF Init, Frame
<1>2. QED
  BY <1>1, GpsAssumption DEF Init, TypeOK

LEMMA TypeStep == TypeOK /\ [Next]_vars => TypeOK'
<1> SUFFICES ASSUME TypeOK, [Next]_vars PROVE TypeOK'
  OBVIOUS
<1> USE GpsAssumption
<1>0. /\ Len(Frame) \in Nat /\ pos \in Nat /\ Len(sent) \in Nat /\ Len(Frame) >= 6
      /\ pos < Len(Frame) => (Word = Dollar <=> pos = 0)
  BY OnTheLine, LenProperties DEF TypeOK
<1>1. ASSUME NEW next \in Bodies, Begin(next) PROVE TypeOK'
  <2>1. Len(Frame') \in Nat /\ Len(Frame') >= 6 /\ body' \in Bodies
    BY <1>1, SentenceShape DEF Begin, Frame
  <2>2. sent' \in Seq({Said[b] : b \in Bodies}) /\ Len(sent') = Len(sent) + 1
    BY <1>1 DEF Begin, TypeOK
  <2>3. QED
    BY <1>0, <1>1, <2>1, <2>2 DEF Begin, TypeOK, receiver
<1>2. ASSUME Receive, ~Overrun PROVE TypeOK'
  <2>1. /\ pos' \in 0 .. Len(Frame') /\ pos' # 0 /\ missed' \in 0 .. MaxMissed
        /\ body' \in Bodies /\ sent' = sent
    BY <1>0, <1>2 DEF Receive, TypeOK, Frame
  <2>2. counter' \in 0 .. Block - 1
    BY <1>2 DEF Receive, deal_dma_gnrmc, TypeOK
  <2>3. CASE AwaitDollar(Word)
    BY <1>0, <1>2, <2>1, <2>2, <2>3 DEF AwaitDollar, Receive, TypeOK
  <2>4. CASE Copy(Word)
    <3>1. /\ status # 0 /\ status' \in {1, 2, 3, 5}
          /\ package_counter' \in 0 .. BufferSize + 1
          /\ origin' = origin /\ last' = last
      <4>1. package_counter <= BufferSize
        BY <1>2 DEF TypeOK, Overrun
      <4>2. package_counter' \in {package_counter, package_counter + 1}
        BY <2>4 DEF Copy
      <4>3. package_counter' \in 0 .. BufferSize + 1
        BY <4>1, <4>2 DEF TypeOK
      <4>4. QED
        BY <2>4, <4>3 DEF Copy, Copying, TypeOK
    <3>2. QED
      BY <1>0, <2>1, <2>2, <3>1, SMTT(30) DEF TypeOK
  <2>5. CASE Analyse(Word)
    <3>1. last' \in {last, origin} /\ origin' = origin
      BY <2>5 DEF Analyse, nmea_gnrmc_analysis, Accept, Reject
    <3>2. status' = 0 /\ package_counter' = 0 /\ last < origin
      BY <2>5 DEF Analyse, TypeOK
    <3>3. last' \in 0 .. origin'
      BY <1>0, <3>1, <3>2 DEF TypeOK
    <3>4. QED
      BY <1>0, <2>1, <2>2, <3>1, <3>2, <3>3 DEF TypeOK
  <2>6. QED
    BY <1>2, <2>3, <2>4, <2>5 DEF Receive, deal_dma_gnrmc
<1>3. CASE Lose
  BY <1>0, <1>3 DEF Lose, TypeOK, Frame, receiver
<1>4. CASE UNCHANGED vars
  BY <1>4 DEF TypeOK, vars, sender, receiver, line, Frame
<1>5. QED
  BY <1>1, <1>2, <1>3, <1>4 DEF Next

(* The types of GpsLink, for all sentences and sizes; the sentence in the  *)
(* buffer is never one that was handed over before.                        *)
THEOREM TypeCorrect == Spec => []TypeOK
<1>1. QED
  BY TypeInit, TypeStep, PTL DEF Spec

-----------------------------------------------------------------------------
Bounded == package_counter <= (MaxMissed + 1) * Longest

LEMMA BoundInit == Init => CounterInv /\ Bounded
<1> SUFFICES ASSUME Init PROVE CounterInv /\ Bounded
  OBVIOUS
<1>1. (MaxMissed + 1) * Longest \in Nat
  <2>1. MaxMissed + 1 \in Nat /\ Longest \in Nat
    BY GpsAssumption
  <2>2. QED
    BY <2>1, Products
<1>2. InBuffer
  BY GpsAssumption DEF Init, InBuffer, Overrun
<1>3. QED
  BY <1>1, <1>2 DEF Init, CounterInv, Bounded, Copying

LEMMA BoundStep ==
  ASSUME TypeOK, TypeOK', CounterInv, Bounded, [Next]_vars
  PROVE  CounterInv' /\ Bounded'
<1> DEFINE most == (MaxMissed + 1) * Longest
           here == missed * Longest
           frame == Len(Frame)
<1>1. /\ Longest \in Nat /\ MaxMissed \in Nat /\ missed \in Nat /\ missed <= MaxMissed
      /\ package_counter \in Nat
  BY GpsAssumption DEF TypeOK
<1>2. /\ most \in Nat /\ here \in Nat
      /\ here + Longest <= most
      /\ (missed + 1) * Longest = here + Longest
  <2>1. missed + 1 \in Nat /\ MaxMissed + 1 \in Nat /\ missed + 1 <= MaxMissed + 1
    BY <1>1
  <2>2. (missed + 1) * Longest <= (MaxMissed + 1) * Longest
    BY <1>1, <2>1, Products
  <2>3. QED
    BY <1>1, <2>1, <2>2, Products
<1> HIDE DEF most, here
<1>3. /\ frame \in Nat /\ frame >= 6 /\ frame <= Longest
      /\ pos \in Nat /\ pos <= frame
      /\ pos < frame => (Word = Dollar <=> pos = 0) /\ (Word = Return <=> pos = frame - 2)
  BY OnTheLine
<1>4. /\ Copying /\ pos < frame - 1 => package_counter <= here + pos
      /\ Copying /\ pos >= frame - 1 => package_counter + frame <= here + pos
      /\ package_counter <= most
  BY DEF CounterInv, Bounded, here, most
<1>5. /\ Longest' = Longest /\ most' = most
      /\ missed' = missed => here' = here
      /\ missed' = missed + 1 => here' = here + Longest
  BY <1>2 DEF here, most
<1>6. SUFFICES
        /\ Copying' /\ pos' < frame' - 1 => package_counter' <= here' + pos'
        /\ Copying' /\ pos' >= frame' - 1 => package_counter' + frame' <= here' + pos'
        /\ package_counter' <= most
  <2>1. Bounded'
    BY <1>5 DEF Bounded, most
  <2>2. Roomy' => InBuffer'
    <3>1. Roomy' => most <= BufferSize
      BY DEF Roomy, most
    <3>2. package_counter' \in Nat /\ BufferSize \in Nat
      BY GpsAssumption DEF TypeOK
    <3>3. QED
      BY <1>2, <3>1, <3>2 DEF InBuffer, Overrun
  <2>3. QED
    BY <1>5, <2>1, <2>2 DEF CounterInv, here
<1>7. ASSUME NEW next \in Bodies, Begin(next)
      PROVE  /\ Copying' /\ pos' < frame' - 1 => package_counter' <= here' + pos'
             /\ Copying' /\ pos' >= frame' - 1 => package_counter' + frame' <= here' + pos'
             /\ package_counter' <= most
  <2>1. frame' \in Nat /\ frame' >= 6
    BY <1>7, SentenceShape DEF Begin, Frame
  <2>2. /\ pos = frame /\ pos' = 0 /\ missed' = missed
        /\ package_counter' = package_counter /\ (Copying' <=> Copying)
    BY <1>7 DEF Begin, receiver, Copying
  <2>3. pos' < frame' - 1 /\ ~(pos' >= frame' - 1)
    BY <2>1, <2>2
  <2> HIDE DEF frame
  <2>4. Copying => package_counter <= here
    BY <1>1, <1>2, <1>3, <1>4, <2>2
  <2>5. here' + pos' = here
    BY <1>2, <1>5, <2>2
  <2>6. Copying' => package_counter' <= here' + pos'
    BY <2>2, <2>4, <2>5
  <2>7. QED
    BY <1>4, <2>2, <2>3, <2>6
<1>8. CASE Receive
  <2>1. /\ frame' = frame /\ pos < frame /\ pos' = pos + 1
        /\ missed' = IF Word = Return THEN 0 ELSE missed
    BY <1>8 DEF Receive, Frame
  <2>2. CASE AwaitDollar(Word)
    <3>1. /\ package_counter = 0 /\ package_counter' = 0
          /\ Copying' => Word = Dollar /\ Word # Return
      BY <2>2 DEF AwaitDollar, TypeOK, Copying, Dollar, Return
    <3>2. Copying' => pos' = 1 /\ missed' = missed
      BY <1>3, <2>1, <3>1
    <3>3. frame' >= 6 /\ frame' \in Nat
      BY <1>3, <2>1
    <3>4. Copying' => pos' < frame' - 1 /\ ~(pos' >= frame' - 1)
      BY <3>2, <3>3
    <3> HIDE DEF frame
    <3>5. Copying' => here' + pos' = here + 1
      BY <1>5, <3>2
    <3>6. Copying' => 0 <= here' + pos'
      BY <1>2, <3>5
    <3>7. QED
      BY <1>2, <3>1, <3>4, <3>6
  <2>3. CASE Copy(Word)
    <3>1. /\ Copying
          /\ \/ Word = Return /\ ~Copying' /\ package_counter' = package_counter
             \/ Word # Return /\ package_counter' = package_counter + 1
      BY <2>3 DEF Copy, Copying
    <3> HIDE DEF frame
    <3>2. QED
      BY <1>1, <1>2, <1>3, <1>4, <1>5, <2>1, <3>1
  <2>4. CASE Analyse(Word)
    BY <1>2, <2>4 DEF Analyse, Copying
  <2>5. QED
    BY <1>8, <2>2, <2>3, <2>4 DEF Receive, deal_dma_gnrmc
<1>9. CASE Lose
  <2>1. /\ frame' = frame /\ pos < frame /\ pos' = pos + 1
        /\ missed' = IF Word = Return THEN missed + 1 ELSE missed
        /\ package_counter' = package_counter /\ (Copying' <=> Copying)
    BY <1>9 DEF Lose, Frame, receiver, Copying
  <2> HIDE DEF frame
  <2>2. QED
    BY <1>1, <1>2, <1>3, <1>4, <1>5, <2>1
<1>10. CASE UNCHANGED vars
  <2>1. /\ frame' = frame /\ pos' = pos /\ missed' = missed
        /\ package_counter' = package_counter /\ (Copying' <=> Copying)
    BY <1>10 DEF vars, sender, receiver, line, Frame, Copying
  <2> HIDE DEF frame
  <2>2. QED
    BY <1>4, <1>5, <2>1
<1>11. QED
  BY <1>7, <1>8, <1>9, <1>10 DEF Next

(* How far package_counter can be, for the CRs that were lost.             *)
THEOREM CounterBounded == Spec => []CounterInv
<1>1. QED
  BY TypeInit, TypeStep, BoundInit, BoundStep, PTL DEF Spec

(* package_buffer is not overrun as long as it has room for the sentences  *)
(* whose CR is lost, and one more: with the 80 words of the code and the   *)
(* 74 of a sentence with a position, only while no CR of one is lost.      *)
THEOREM NoOverrun ==
  ASSUME Roomy
  PROVE  Spec => []InBuffer
<1>1. CounterInv => InBuffer
  BY DEF CounterInv
<1>2. QED
  BY <1>1, CounterBounded, PTL

-----------------------------------------------------------------------------
Offsets == 0 .. BufferSize - 1

BufferType == package_buffer \in [Offsets -> Nat]

(* There is a star in the buffer, with two places behind it, before the    *)
(* next word to be copied.                                                 *)
StarBehind == \E k \in Offsets : k + 2 \in Offsets /\ k < package_counter /\ package_buffer[k] = Star

(* The star of the sentence on the line is out.                            *)
StarOut == pos >= Len(Frame) - 4

StarInv ==
  /\ BufferType
  /\ Copying /\ (origin < Len(sent) \/ StarOut) => StarBehind
  /\ status = 2 => StarBehind

LEMMA WordIs ==
  ASSUME TypeOK, pos < Len(Frame)
  PROVE  Word \in Nat /\ (Word = Star <=> pos = Len(Frame) - 5)
<1> DEFINE n == Len(body)
           f == Sentence[body]
<1>0. body \in Bodies /\ pos \in 0 .. Len(f) /\ pos < Len(f)
  BY DEF TypeOK, Frame
<1>1. /\ n \in Nat /\ Len(f) = n + 6
      /\ f[1] = 36 /\ f[n + 2] = 42 /\ f[n + 5] = 13 /\ f[n + 6] = 10
      /\ f[n + 3] \in 48 .. 70 /\ f[n + 4] \in 48 .. 70
      /\ \A k \in 1 .. n : f[k + 1] = body[k]
      /\ \A k \in 1 .. n : body[k] \in Nat
  BY <1>0, SentenceParts
<1>2. \A k \in 1 .. Len(f) : f[k] = Star <=> k = Len(f) - 4
  BY <1>0, SentenceShape
<1> HIDE DEF n, f
<1>3. pos + 1 \in 1 .. Len(f) /\ (pos + 1 = Len(f) - 4 <=> pos = Len(f) - 5)
  BY <1>0, <1>1
<1> DEFINE Digit == 48 .. 70
<1>4. Digit \subseteq Nat
  OBVIOUS
<1> HIDE DEF Digit
<1>5. ASSUME NEW k \in 1 .. n + 6 PROVE f[k] \in Nat
  <2>1. CASE k = 1
    BY <1>1, <2>1
  <2>2. CASE k > 1 /\ k <= n + 1
    <3>1. k - 1 \in 1 .. n /\ k - 1 + 1 = k
      BY <1>1, <2>2
    <3>2. QED
      BY <1>1, <3>1, ZenonT(60)
  <2>3. CASE k = n + 2
    BY <1>1, <2>3
  <2>4. CASE k = n + 3
    <3>1. f[k] \in Digit
      BY <1>1, <2>4 DEF Digit
    <3>2. QED
      BY <3>1, <1>4
  <2>5. CASE k = n + 4
    <3>1. f[k] \in Digit
      BY <1>1, <2>5 DEF Digit
    <3>2. QED
      BY <3>1, <1>4
  <2>6. CASE k = n + 5
    BY <1>1, <2>6
  <2>7. CASE k = n + 6
    BY <1>1, <2>7
  <2>8. QED
    BY <1>1, <2>1, <2>2, <2>3, <2>4, <2>5, <2>6, <2>7
<1>6. QED
  BY <1>1, <1>2, <1>3, <1>5 DEF Word, Frame, f

LEMMA StarInit == Init => StarInv
BY GpsAssumption DEF Init, StarInv, BufferType, Offsets, Blank, Copying

LEMMA StarStep ==
  ASSUME TypeOK, CounterInv, StarInv, [Next]_vars,
         Star \notin Losable, Roomy
  PROVE  StarInv'
<1>1. /\ Len(Frame) \in Nat /\ Len(Frame) >= 6 /\ Len(Frame) <= Longest
      /\ pos \in Nat /\ pos <= Len(Frame)
      /\ pos < Len(Frame) => (Word = Dollar <=> pos = 0) /\ (Word = Return <=> pos = Len(Frame) - 2)
  BY OnTheLine
<1>2. package_counter \in Nat /\ BufferSize \in Nat /\ Len(sent) \in Nat /\ origin \in 0 .. Len(sent)
  BY GpsAssumption, LenProperties DEF TypeOK
<1>3. ASSUME NEW next \in Bodies, Begin(next) PROVE StarInv'
  <2>1. /\ pos = Len(Frame) /\ status' = status /\ package_buffer' = package_buffer
        /\ package_counter' = package_counter
    BY <1>3 DEF Begin, receiver
  <2>2. StarOut
    BY <1>1, <2>1 DEF StarOut
  <2>3. QED
    BY <2>1, <2>2 DEF StarInv, BufferType, StarBehind, Copying, Offsets
<1>4. CASE Receive
  <2>1. /\ pos < Len(Frame) /\ pos' = pos + 1 /\ Frame' = Frame /\ sent' = sent
    BY <1>4 DEF Receive, Frame
  <2>2. CASE AwaitDollar(Word)
    <3>1. /\ package_buffer' = package_buffer /\ status' \in {0, 1}
          /\ status' = 1 => Word = Dollar /\ origin' = Len(sent)
      BY <2>2 DEF AwaitDollar
    <3>2. status' = 1 => ~StarOut' /\ ~(origin' < Len(sent'))
      BY <1>1, <1>2, <2>1, <3>1 DEF StarOut
    <3>3. Copying' => status' = 1
      BY <3>1 DEF Copying
    <3>4. status' # 2 /\ BufferType'
      BY <3>1 DEF StarInv, BufferType, Offsets
    <3>5. QED
      BY <3>2, <3>3, <3>4 DEF StarInv
  <2>3. CASE Copy(Word)
    <3>1. Copying /\ origin' = origin
      BY <2>3 DEF Copy
    <3>2. CASE Word = Return
      <4>1. /\ status' = 2 /\ ~Copying' /\ package_buffer' = package_buffer
            /\ package_counter' = package_counter
        BY <2>3, <3>2 DEF Copy, Copying
      <4>2. StarOut
        BY <1>1, <2>1, <3>2 DEF StarOut
      <4>3. StarBehind /\ BufferType
        BY <3>1, <4>2 DEF StarInv
      <4>4. QED
        BY <4>1, <4>3 DEF StarInv, StarBehind, BufferType, Offsets
    <3>3. CASE Word # Return
      <4>1. /\ package_buffer' = [package_buffer EXCEPT ![package_counter] = Word]
            /\ package_counter' = package_counter + 1 /\ status' # 2
        BY <2>3, <3>3 DEF Copy, Copying
      <4>2. Word \in Nat /\ (Word = Star <=> pos = Len(Frame) - 5)
        BY <2>1, WordIs
      <4>3. BufferType' /\ Offsets' = Offsets
        BY <4>1, <4>2 DEF StarInv, BufferType, Offsets
      <4>4. ASSUME StarBehind PROVE StarBehind'
        <5>1. PICK k \in Offsets : k + 2 \in Offsets /\ k < package_counter /\ package_buffer[k] = Star
          BY <4>4 DEF StarBehind
        <5>2. k < package_counter' /\ k # package_counter
          BY <1>2, <4>1, <5>1 DEF Offsets
        <5>3. package_buffer'[k] = Star
          BY <4>1, <5>1, <5>2 DEF StarInv, BufferType
        <5>4. QED
          BY <4>3, <5>1, <5>2, <5>3 DEF StarBehind
      <4>5. ASSUME ~StarOut, StarOut' PROVE StarBehind'
        <5>1. pos = Len(Frame) - 5
          BY <1>1, <2>1, <4>5 DEF StarOut
        <5>2. package_counter + 2 < BufferSize
          <6> DEFINE here == missed * Longest
                     most == (MaxMissed + 1) * Longest
          <6>1. missed \in Nat /\ missed + 1 <= MaxMissed + 1 /\ MaxMissed + 1 \in Nat /\ Longest \in Nat
            BY GpsAssumption DEF TypeOK
          <6>2. here \in Nat /\ here + Longest <= most /\ most \in Nat
            <7>1. (missed + 1) * Longest <= (MaxMissed + 1) * Longest
              BY <6>1, Products
            <7>2. QED
              BY <6>1, <7>1, Products
          <6>3. pos < Len(Frame) - 1
            BY <1>1, <5>1
          <6>4. package_counter <= here + pos
            BY <3>1, <6>3 DEF CounterInv
          <6> HIDE DEF here
          <6>5. most <= BufferSize
            BY DEF Roomy
          <6> HIDE DEF most
          <6>6. QED
            BY <1>1, <1>2, <5>1, <6>1, <6>2, <6>4, <6>5
        <5>3. package_counter \in Offsets /\ package_counter + 2 \in Offsets
              /\ package_counter < package_counter'
          BY <1>2, <4>1, <5>2 DEF Offsets
        <5>4. package_buffer'[package_counter] = Star
          BY <4>1, <4>2, <5>1, <5>3 DEF StarInv, BufferType
        <5>5. QED
          BY <4>3, <5>3, <5>4 DEF StarBehind
      <4>6. origin' < Len(sent') \/ StarOut' => StarBehind'
        BY <2>1, <3>1, <4>4, <4>5 DEF StarInv
      <4>7. QED
        BY <4>1, <4>3, <4>6 DEF StarInv
    <3>4. QED
      BY <3>2, <3>3
  <2>4. CASE Analyse(Word)
    BY <2>4 DEF Analyse, StarInv, BufferType, Offsets, Copying
  <2>5. QED
    BY <1>4, <2>2, <2>3, <2>4 DEF Receive, deal_dma_gnrmc
<1>5. CASE Lose
  <2>1. /\ pos < Len(Frame) /\ pos' = pos + 1 /\ Frame' = Frame /\ sent' = sent
        /\ status' = status /\ package_buffer' = package_buffer /\ origin' = origin
        /\ package_counter' = package_counter /\ Word # Star
    BY <1>5 DEF Lose, Frame, receiver
  <2>2. pos # Len(Frame) - 5
    BY <2>1, WordIs
  <2>3. StarOut' => StarOut
    BY <1>1, <2>1, <2>2 DEF StarOut
  <2>4. (StarBehind' <=> StarBehind) /\ (BufferType' <=> BufferType) /\ (Copying' <=> Copying)
    BY <2>1 DEF StarBehind, BufferType, Offsets, Copying
  <2>5. QED
    BY <2>1, <2>3, <2>4 DEF StarInv
<1>6. CASE UNCHANGED vars
  <2>1. /\ pos' = pos /\ Frame' = Frame /\ sent' = sent
        /\ status' = status /\ package_buffer' = package_buffer /\ origin' = origin
        /\ package_counter' = package_counter
    BY <1>6 DEF vars, sender, receiver, Frame
  <2>2. (StarBehind' <=> StarBehind) /\ (BufferType' <=> BufferType) /\ (Copying' <=> Copying)
        /\ (StarOut' <=> StarOut)
    BY <2>1 DEF StarBehind, BufferType, Offsets, Copying, StarOut
  <2>3. QED
    BY <2>1, <2>2 DEF StarInv
<1>7. QED
  BY <1>3, <1>4, <1>5, <1>6 DEF Next

(* The searches for the star end in package_buffer, and all that is copied *)
(* is in it, whatever other words are lost, as long as the sentences whose *)
(* CR is lost fit.                                                         *)
THEOREM StarIsFound ==
  ASSUME Star \notin Losable, Roomy
  PROVE  Spec => [](InBuffer /\ StaysInside)
<1>1. StarInv => StaysInside
  BY DEF StarInv, BufferType, StarBehind, StaysInside, Stray, Stars
<1>2. CounterInv => InBuffer
  BY DEF CounterInv
<1>3. QED
  BY <1>1, <1>2, TypeInit, TypeStep, BoundInit, BoundStep, StarInit, StarStep, PTL DEF Spec
-----------------------------------------------------------------------------
(* Every set of naturals that is not empty has a least element.            *)
LEMMA Least ==
  ASSUME NEW S \in SUBSET Nat, S # {}
  PROVE  \E m \in S : \A k \in S : m <= k
<1>1. PICK m \in S : \A k \in S : ~(<<k, m>> \in OpToRel(<, Nat))
  BY WFMin, NatLessThanWellFounded
<1>2. ASSUME NEW k \in S PROVE m <= k
  <2>1. ~(k < m)
    BY <1>1 DEF OpToRel
  <2>2. QED
    BY <2>1
<1>3. QED
  BY <1>2

LEMMA MinIs ==
  ASSUME NEW S \in SUBSET Nat, NEW m \in S, \A k \in S : m <= k
  PROVE  Min(S) = m
<1>1. \A x \in S : (\A k \in S : x <= k) => x = m
  OBVIOUS
<1>2. QED
  BY <1>1 DEF Min
(* What nmea_gnrmc_analysis finds in a buffer depends on what it holds up  *)
(* to the first star only.                                                 *)
SameUpTo(p, q, n) ==
  /\ 0 .. n \subseteq DOMAIN p /\ DOMAIN p \subseteq Nat
  /\ 0 .. n \subseteq DOMAIN q /\ DOMAIN q \subseteq Nat
  /\ \A k \in 0 .. n : p[k] = q[k]
  /\ p[n] = Star

LEMMA SameCommas ==
  ASSUME NEW p, NEW q, NEW n \in Nat, SameUpTo(p, q, n), NEW m
  PROVE  comma_position(p, m) = comma_position(q, m)
<1> DEFINE CommasP(k) == {i \in 0 .. k : p[i] = Comma}
           CommasQ(k) == {i \in 0 .. k : q[i] = Comma}
           FoundP == {k \in DOMAIN p : /\ p[k] = Comma
                                       /\ Cardinality(CommasP(k)) = m
                                       /\ \A i \in 0 .. k : ~Stops(p[i])}
           FoundQ == {k \in DOMAIN q : /\ q[k] = Comma
                                       /\ Cardinality(CommasQ(k)) = m
                                       /\ \A i \in 0 .. k : ~Stops(q[i])}
<1>1. Stops(p[n]) /\ Stops(q[n])
  BY DEF SameUpTo, Stops
<1>2. ASSUME NEW k \in 0 .. n
      PROVE  /\ k \in DOMAIN p /\ k \in DOMAIN q /\ p[k] = q[k]
             /\ CommasP(k) = CommasQ(k)
             /\ (\A i \in 0 .. k : ~Stops(p[i])) <=> (\A i \in 0 .. k : ~Stops(q[i]))
  <2>1. \A i \in 0 .. k : p[i] = q[i]
    BY DEF SameUpTo
  <2>2. k \in DOMAIN p /\ k \in DOMAIN q /\ p[k] = q[k]
    BY DEF SameUpTo
  <2>3. CommasP(k) = CommasQ(k)
    BY <2>1
  <2>4. QED
    BY <2>1, <2>2, <2>3
<1>3. ASSUME NEW k \in Nat, ~(k \in 0 .. n) PROVE n \in 0 .. k
  BY <1>3
<1>4. DOMAIN p \subseteq Nat /\ DOMAIN q \subseteq Nat
  BY DEF SameUpTo
<1>5. \A k \in FoundP : k \in 0 .. n
  BY <1>1, <1>3, <1>4
<1>6. \A k \in FoundQ : k \in 0 .. n
  BY <1>1, <1>3, <1>4
<1>7. FoundP = FoundQ
  <2> HIDE DEF CommasP, CommasQ
  <2>1. ASSUME NEW k \in 0 .. n PROVE k \in FoundP <=> k \in FoundQ
    BY <1>2
  <2> HIDE DEF FoundP, FoundQ
  <2>2. QED
    BY <1>5, <1>6, <2>1
<1>8. comma_position(p, m) = IF FoundP = {} THEN 0 ELSE Max(FoundP)
  BY DEF comma_position
<1>9. comma_position(q, m) = IF FoundQ = {} THEN 0 ELSE Max(FoundQ)
  BY DEF comma_position
<1> HIDE DEF FoundP, FoundQ
<1>10. QED
  BY <1>7, <1>8, <1>9

LEMMA SameNumber ==
  ASSUME NEW p, NEW q, NEW n \in Nat, SameUpTo(p, q, n), NEW from \in 0 .. n
  PROVE  nmea_str2num(p, from) = nmea_str2num(q, from)
<1> DEFINE EndsP == {k \in DOMAIN p : k >= from /\ p[k] \notin Digits}
           EndsQ == {k \in DOMAIN q : k >= from /\ q[k] \notin Digits}
<1>1. DOMAIN p \subseteq Nat /\ DOMAIN q \subseteq Nat
      /\ (\A k \in 0 .. n : k \in DOMAIN p /\ k \in DOMAIN q /\ p[k] = q[k])
  BY DEF SameUpTo
<1>2. n \in EndsP /\ n \in EndsQ
  <2>1. p[n] = 42 /\ q[n] = 42 /\ n >= from /\ n \in DOMAIN p /\ n \in DOMAIN q
    BY DEF SameUpTo, Star
  <2>2. QED
    BY <2>1 DEF Digits
<1>3. EndsP \in SUBSET Nat /\ EndsQ \in SUBSET Nat
  BY <1>1
<1>4. ASSUME NEW k \in 0 .. n PROVE k \in EndsP <=> k \in EndsQ
  BY <1>1
<1>5. PICK e \in EndsP : \A k \in EndsP : e <= k
  <2> HIDE DEF EndsP
  <2>1. QED
    BY <1>2, <1>3, Least
<1>6. e \in Nat /\ e <= n /\ e >= from
  BY <1>2, <1>3, <1>5
<1>7. e \in EndsQ /\ \A k \in EndsQ : e <= k
  <2>1. e \in 0 .. n
    BY <1>6
  <2>2. ASSUME NEW k \in EndsQ PROVE e <= k
    <3>1. k \in Nat
      BY <1>3
    <3>2. CASE k <= n
      <4>1. k \in 0 .. n
        BY <3>1, <3>2
      <4>2. k \in EndsP
        BY <1>4, <2>2, <4>1
      <4>3. QED
        BY <1>5, <4>2
    <3>3. CASE k > n
      BY <1>6, <3>1, <3>3
    <3>4. QED
      BY <3>1, <3>2, <3>3
  <2>3. e \in EndsQ
    BY <1>4, <1>5, <2>1
  <2>4. QED
    BY <2>2, <2>3
<1> DEFINE Number(f) == IF f[e] \in {Comma, Star} THEN [k \in 1 .. e - from |-> f[from + k - 1]] ELSE <<>>
<1>8. nmea_str2num(p, from) = Number(p)
  <2>1. Min(EndsP) = e /\ EndsP # {}
    <3> HIDE DEF EndsP
    <3>1. QED
      BY <1>3, <1>5, MinIs
  <2>2. nmea_str2num(p, from) =
          IF EndsP # {} /\ p[Min(EndsP)] \in {Comma, Star}
          THEN [k \in 1 .. Min(EndsP) - from |-> p[from + k - 1]] ELSE <<>>
    BY DEF nmea_str2num
  <2> HIDE DEF EndsP
  <2>3. QED
    BY <2>1, <2>2
<1>9. nmea_str2num(q, from) = Number(q)
  <2>1. Min(EndsQ) = e /\ EndsQ # {}
    <3> HIDE DEF EndsQ
    <3>1. QED
      BY <1>3, <1>7, MinIs
  <2>2. nmea_str2num(q, from) =
          IF EndsQ # {} /\ q[Min(EndsQ)] \in {Comma, Star}
          THEN [k \in 1 .. Min(EndsQ) - from |-> q[from + k - 1]] ELSE <<>>
    BY DEF nmea_str2num
  <2> HIDE DEF EndsQ
  <2>3. QED
    BY <2>1, <2>2
<1>10. Number(p) = Number(q)
  <2>1. p[e] = q[e]
    BY <1>1, <1>6
  <2>2. ASSUME NEW k \in 1 .. e - from PROVE p[from + k - 1] = q[from + k - 1]
    <3>1. from + k - 1 \in 0 .. n
      BY <1>6
    <3>2. QED
      BY <1>1, <3>1
  <2>3. [k \in 1 .. e - from |-> p[from + k - 1]] = [k \in 1 .. e - from |-> q[from + k - 1]]
    BY <2>2
  <2>4. QED
    BY <2>1, <2>3
<1> HIDE DEF Number
<1>11. QED
  BY <1>8, <1>9, <1>10
(* A sentence has its second and third comma, as all of this kind do.      *)
Fielded(words) == \A m \in {2, 3} : comma_position(Content(words), m) \in 1 .. Len(words) - 1

(* A buffer that begins with a whole sentence, from '$' to CR, is accepted *)
(* and understood as it was said, whatever lies behind it.                 *)
Holds(p, words) == \A k \in 0 .. Len(words) + 2 : p[k] = Sentence[words][k + 2]

LEMMA Nibbles ==
  ASSUME NEW c \in Byte
  PROVE  (Nibble(HexDigit(c \div 16)) * 16 + Nibble(HexDigit(c % 16))) % 256 = c
<1>1. ASSUME NEW d \in 0 .. 15 PROVE Nibble(HexDigit(d)) = d
  BY DEF Nibble, HexDigit
<1>2. c \in 0 .. 255
  BY DEF Byte
<1>3. c \div 16 \in 0 .. 15 /\ c % 16 \in 0 .. 15 /\ (c \div 16) * 16 + (c % 16) = c
  BY <1>2
<1>4. c % 256 = c
  BY <1>2
<1> DEFINE d == c \div 16
           e == c % 16
<1> HIDE DEF d, e
<1>5. Nibble(HexDigit(d)) = d /\ Nibble(HexDigit(e)) = e
  BY <1>1, <1>3 DEF d, e
<1>6. QED
  BY <1>3, <1>4, <1>5 DEF d, e

LEMMA Understood ==
  ASSUME NEW words \in Bodies, NEW p \in [Offsets -> Nat], Longest <= BufferSize,
         Fielded(words), Holds(p, words)
  PROVE  /\ comma_position(p, 2) # 0
         /\ Stars(p) # {}
         /\ Summed(p, Min(Stars(p))) = nmea_get_checksum(p)
         /\ \A old : Fields(p, old) = Said[words]
<1> DEFINE n == Len(words)
           c == Checksum(words)
           f == Sentence[words]
           q == Content(words)
<1>1. /\ n \in Nat /\ c \in Byte /\ Len(f) = n + 6 /\ Len(f) <= Longest
      /\ f[n + 2] = 42 /\ f[n + 3] = HexDigit(c \div 16) /\ f[n + 4] = HexDigit(c % 16)
      /\ \A k \in 1 .. n : f[k + 1] = words[k]
      /\ \A k \in 1 .. n : words[k] \in Nat /\ words[k] # 42
  BY SentenceParts, ZenonT(60)
<1>2. \A k \in 0 .. n + 2 : p[k] = f[k + 2]
  BY DEF Holds
<1>3. n + 2 < BufferSize /\ BufferSize \in Nat
  <2>1. Longest \in Nat /\ BufferSize \in Nat
    BY GpsAssumption
  <2> HIDE DEF n, f
  <2>2. QED
    BY <1>1, <2>1
<1>4. q = [k \in 0 .. n |-> IF k < n THEN words[k + 1] ELSE 42]
  BY DEF Content, Star
<1> HIDE DEF n, c, f, q
<1>5. ASSUME NEW k \in 0 .. n - 1 PROVE p[k] = words[k + 1] /\ p[k] # 42
  <2>1. k \in 0 .. n + 2 /\ k + 1 \in 1 .. n /\ k + 1 + 1 = k + 2
    BY <1>1
  <2>2. f[k + 1 + 1] = words[k + 1] /\ words[k + 1] # 42
    BY <1>1, <2>1
  <2>3. QED
    BY <1>2, <2>1, <2>2
<1>6. p[n] = 42 /\ p[n + 1] = HexDigit(c \div 16) /\ p[n + 2] = HexDigit(c % 16)
  <2>1. /\ n \in 0 .. n + 2 /\ n + 1 \in 0 .. n + 2 /\ n + 2 \in 0 .. n + 2
        /\ n + 1 + 2 = n + 3 /\ n + 2 + 2 = n + 4
    BY <1>1
  <2>2. QED
    BY <1>1, <1>2, <2>1
<1>7. Stars(p) # {} /\ Min(Stars(p)) = n
  <2>1. n \in Offsets /\ n + 2 \in Offsets /\ DOMAIN p = Offsets /\ Offsets \subseteq Nat
    BY <1>1, <1>3 DEF Offsets
  <2>2. n \in Stars(p) /\ Stars(p) \in SUBSET Nat
    BY <1>6, <2>1 DEF Stars, Star
  <2>3. ASSUME NEW k \in Stars(p) PROVE n <= k
    <3>1. k \in Nat /\ p[k] = 42
      BY <2>2 DEF Stars, Star
    <3>2. CASE k < n
      <4>1. k \in 0 .. n - 1
        BY <1>1, <3>1, <3>2
      <4>2. QED
        BY <1>5, <3>1, <4>1
    <3>3. QED
      BY <1>1, <3>1, <3>2
  <2>4. Min(Stars(p)) = n
    BY <2>2, <2>3, MinIs
  <2>5. QED
    BY <2>2, <2>4
<1>8. Summed(p, n) = c
  <2>1. [i \in 0 .. n - 1 |-> p[i]] = [i \in 0 .. n - 1 |-> words[i + 1]]
    BY <1>5
  <2>2. [i \in 0 .. n - 1 |-> [k \in 0 .. n - 1 |-> words[k + 1]][i]] = [i \in 0 .. n - 1 |-> words[i + 1]]
    OBVIOUS
  <2>3. c = XorAll([i \in 0 .. n - 1 |-> [k \in 0 .. n - 1 |-> words[k + 1]][i]])
    BY DEF c, n, Checksum, Summed
  <2>4. Summed(p, n) = XorAll([i \in 0 .. n - 1 |-> p[i]])
    BY DEF Summed
  <2>5. QED
    BY <2>1, <2>2, <2>3, <2>4
<1>9. nmea_get_checksum(p) = c
  <2>1. nmea_get_checksum(p) = (Nibble(p[n + 1]) * 16 + Nibble(p[n + 2])) % 256
    BY <1>7 DEF nmea_get_checksum
  <2>2. QED
    BY <1>1, <1>6, <2>1, Nibbles
<1>10. SameUpTo(p, q, n)
  <2>1. DOMAIN p = Offsets /\ 0 .. n \subseteq Offsets /\ Offsets \subseteq Nat
    BY <1>1, <1>3 DEF Offsets
  <2>2. DOMAIN q = 0 .. n /\ 0 .. n \subseteq Nat
    BY <1>1, <1>4
  <2>3. ASSUME NEW k \in 0 .. n PROVE p[k] = q[k]
    <3>1. CASE k = n
      BY <1>1, <1>4, <1>6, <3>1
    <3>2. CASE k \in 0 .. n - 1
      BY <1>1, <1>4, <1>5, <3>2
    <3>3. QED
      BY <1>1, <3>1, <3>2
  <2>4. QED
    BY <1>6, <2>1, <2>2, <2>3 DEF SameUpTo, Star
<1> DEFINE c2 == comma_position(q, 2)
           c3 == comma_position(q, 3)
<1>11. c2 \in 1 .. n - 1 /\ c3 \in 1 .. n - 1
  BY DEF Fielded, q, n
<1>12. comma_position(p, 2) = c2 /\ comma_position(p, 3) = c3
  BY <1>1, <1>10, SameCommas
<1> HIDE DEF c2, c3
<1>13. c2 # 0 /\ c3 # 0 /\ c2 + 1 \in 0 .. n /\ c3 + 1 \in 0 .. n
  BY <1>1, <1>11
<1>14. p[c2 + 1] = q[c2 + 1]
  BY <1>10, <1>13 DEF SameUpTo
<1>15. nmea_str2num(p, c3 + 1) = nmea_str2num(q, c3 + 1)
  BY <1>1, <1>10, <1>13, SameNumber
<1>16. ASSUME NEW old PROVE Fields(p, old) = Said[words]
  <2>1. Fields(p, old) = [status |-> p[c2 + 1], latitude |-> nmea_str2num(p, c3 + 1)]
    BY <1>12, <1>13 DEF Fields
  <2>2. Fields(q, NoFields) = [status |-> q[c2 + 1], latitude |-> nmea_str2num(q, c3 + 1)]
    BY <1>13 DEF Fields, c2, c3
  <2>3. Said[words] = Fields(q, NoFields)
    BY DEF Said, q
  <2>4. QED
    BY <1>14, <1>15, <2>1, <2>2, <2>3
<1>17. QED
  BY <1>7, <1>8, <1>9, <1>12, <1>13, <1>16
-----------------------------------------------------------------------------
(* Where the receiver is at each place of a sentence that has lost nothing *)
(* so far, if the one before lost neither CR nor LF.                       *)
InStep ==
  clear /\ lost = {} /\ sent # <<>> =>
    /\ pos = 0 => status = 0
    /\ 0 < pos /\ pos < Len(Frame) - 1 =>
         /\ Copying /\ package_counter = pos - 1 /\ origin = Len(sent)
         /\ \A k \in 0 .. pos - 2 : package_buffer[k] = Frame[k + 2]
    /\ pos = Len(Frame) - 1 => status = 2 /\ origin = Len(sent) /\ Holds(package_buffer, body)
    /\ pos = Len(Frame) => last = Len(sent) /\ gps_rmc = Said[body]

(* After a CR and an LF the receiver waits for a '$', whatever it did      *)
(* before.                                                                 *)
AtRest ==
  /\ lost \subseteq 1 .. pos
  /\ pos = Len(Frame) - 1 /\ pos \notin lost => status \in {0, 2}
  /\ pos = Len(Frame) /\ lost \cap {pos - 1, pos} = {} => status = 0

ResyncInv ==
  /\ BufferType /\ InStep /\ AtRest
  /\ sent # <<>> => sent[Len(sent)] = Said[body]

LEMMA ResyncInit == Init => ResyncInv
<1> SUFFICES ASSUME Init PROVE ResyncInv
  OBVIOUS
<1>1. BufferType
  BY StarInit DEF StarInv
<1>2. QED
  BY <1>1 DEF Init, ResyncInv, InStep, AtRest, Frame

LEMMA ResyncBegin ==
  ASSUME TypeOK, ResyncInv, NEW next \in Bodies, Begin(next)
  PROVE  ResyncInv'
<1>1. /\ pos = Len(Frame) /\ pos' = 0 /\ body' = next /\ lost' = {}
      /\ clear' = (lost \cap {pos - 1, pos} = {})
      /\ sent' = Append(sent, Said[next]) /\ status' = status
      /\ package_buffer' = package_buffer
  BY DEF Begin, receiver
<1>2. ~(0 < pos') /\ pos' # Len(Frame') - 1 /\ pos' # Len(Frame')
  <2>1. PICK n \in Nat : Len(Frame') = n /\ n >= 6
    BY <1>1, SentenceShape DEF Frame
  <2>2. ~(0 < 0) /\ 0 # n - 1 /\ 0 # n
    BY <2>1
  <2>3. QED
    BY <1>1, <2>1, <2>2
<1>3. clear' => status' = 0
  BY <1>1 DEF ResyncInv, AtRest
<1>4. InStep'
  BY <1>2, <1>3 DEF InStep
<1>5. AtRest'
  <2>1. lost' \subseteq 1 .. pos'
    BY <1>1
  <2>2. QED
    BY <1>2, <2>1 DEF AtRest
<1>6. sent'[Len(sent')] = Said[body']
  <2>1. sent \in Seq({Said[b] : b \in Bodies})
    BY DEF TypeOK
  <2>2. QED
    BY <1>1, <2>1
<1>7. BufferType'
  BY <1>1 DEF ResyncInv, BufferType, Offsets
<1>8. QED
  BY <1>4, <1>5, <1>6, <1>7 DEF ResyncInv

LEMMA ResyncLose ==
  ASSUME TypeOK, ResyncInv, Lose
  PROVE  ResyncInv'
<1>1. /\ pos \in Nat /\ pos < Len(Frame) /\ pos' = pos + 1 /\ lost' = lost \cup {pos'}
      /\ Frame' = Frame /\ sent' = sent /\ body' = body /\ Len(Frame) \in Nat
      /\ status' = status /\ package_buffer' = package_buffer
  BY OnTheLine DEF Lose, receiver, Frame
<1>2. lost' # {} /\ pos' \in lost'
  BY <1>1
<1>3. InStep'
  BY <1>2 DEF InStep
<1>4. AtRest'
  <2>1. lost' \subseteq 1 .. pos'
    BY <1>1 DEF ResyncInv, AtRest
  <2>2. QED
    BY <1>2, <2>1 DEF AtRest
<1>5. BufferType'
  BY <1>1 DEF ResyncInv, BufferType, Offsets
<1>6. QED
  BY <1>1, <1>3, <1>4, <1>5 DEF ResyncInv

(* What the receiver does with the word at each place.                     *)
LEMMA RestReceive ==
  ASSUME TypeOK, AtRest, Receive
  PROVE  AtRest'
<1>1. /\ pos \in Nat /\ pos < Len(Frame) /\ pos' = pos + 1 /\ lost' = lost
      /\ Frame' = Frame /\ Len(Frame) \in Nat /\ Len(Frame) >= 6
      /\ Word = Dollar <=> pos = 0
      /\ Word = Return <=> pos = Len(Frame) - 2
  BY OnTheLine DEF Receive, Frame
<1>2. /\ lost \subseteq 1 .. pos
      /\ pos = Len(Frame) - 1 /\ pos \notin lost => status \in {0, 2}
  BY DEF AtRest
<1>3. AwaitDollar(Word) \/ Copy(Word) \/ Analyse(Word)
  BY DEF Receive, deal_dma_gnrmc
<1>4. lost' \subseteq 1 .. pos'
  BY <1>1, <1>2
<1>5. ASSUME pos' = Len(Frame') - 1 PROVE status' \in {0, 2}
  <2>1. Word = Return /\ Word # Dollar
    BY <1>1, <1>5 DEF Dollar, Return
  <2>2. QED
    BY <1>3, <2>1 DEF AwaitDollar, Copy, Analyse
<1>6. ASSUME pos' = Len(Frame'), lost' \cap {pos' - 1, pos'} = {} PROVE status' = 0
  <2>1. pos = Len(Frame) - 1 /\ Word # Dollar
    BY <1>1, <1>6
  <2>2. pos \notin lost
    BY <1>1, <1>6
  <2>3. status \in {0, 2}
    BY <1>2, <2>1, <2>2
  <2>4. QED
    BY <1>3, <2>1, <2>3 DEF AwaitDollar, Copy, Copying, Analyse
<1>7. QED
  BY <1>4, <1>5, <1>6 DEF AtRest

LEMMA StepReceive ==
  ASSUME TypeOK, BufferType, InStep, Receive, Longest <= BufferSize,
         \A words \in Bodies : Fielded(words)
  PROVE  InStep'
<1> SUFFICES ASSUME clear', lost' = {}, sent' # <<>>
             PROVE  /\ pos' = 0 => status' = 0
                    /\ 0 < pos' /\ pos' < Len(Frame') - 1 =>
                         /\ Copying' /\ package_counter' = pos' - 1 /\ origin' = Len(sent')
                         /\ \A k \in 0 .. pos' - 2 : package_buffer'[k] = Frame'[k + 2]
                    /\ pos' = Len(Frame') - 1 =>
                         status' = 2 /\ origin' = Len(sent') /\ Holds(package_buffer', body')
                    /\ pos' = Len(Frame') => last' = Len(sent') /\ gps_rmc' = Said[body']
  BY DEF InStep
<1>1. /\ pos \in Nat /\ pos < Len(Frame) /\ pos' = pos + 1 /\ Len(Frame) \in Nat /\ Len(Frame) >= 6
      /\ Len(Frame) <= Longest
      /\ Word = Dollar <=> pos = 0
      /\ Word = Return <=> pos = Len(Frame) - 2
  BY OnTheLine DEF Receive
<1>2. /\ lost' = lost /\ clear' = clear /\ sent' = sent /\ body' = body /\ Frame' = Frame
  BY DEF Receive, Frame
<1>3. AwaitDollar(Word) \/ Copy(Word) \/ Analyse(Word)
  BY DEF Receive, deal_dma_gnrmc
<1>4. /\ pos = 0 => status = 0
      /\ 0 < pos /\ pos < Len(Frame) - 1 =>
           /\ Copying /\ package_counter = pos - 1 /\ origin = Len(sent)
           /\ \A k \in 0 .. pos - 2 : package_buffer[k] = Frame[k + 2]
      /\ pos = Len(Frame) - 1 => status = 2 /\ origin = Len(sent) /\ Holds(package_buffer, body)
  BY <1>2 DEF InStep
<1>5. body \in Bodies /\ Len(Frame) = Len(body) + 6 /\ Len(body) \in Nat
      /\ BufferSize \in Nat /\ Longest \in Nat
  BY GpsAssumption, SentenceParts DEF TypeOK, Frame
<1>6. CASE pos = 0
  <2>1. AwaitDollar(Word) /\ Word = Dollar
    BY <1>1, <1>3, <1>4, <1>6 DEF Copy, Copying, Analyse
  <2>2. status' = 1 /\ origin' = Len(sent) /\ package_counter' = package_counter /\ package_counter = 0
    BY <2>1, <1>4, <1>6 DEF AwaitDollar, TypeOK
  <2>3. pos' = 1 /\ pos' < Len(Frame') - 1
    BY <1>1, <1>2, <1>6
  <2>4. QED
    BY <1>1, <1>2, <2>2, <2>3 DEF Copying
<1>7. CASE 0 < pos /\ pos < Len(Frame) - 2
  <2>1. Copy(Word) /\ Word # Return
    BY <1>1, <1>3, <1>4, <1>7 DEF AwaitDollar, Copying, Analyse
  <2>2. /\ Copying' /\ origin' = origin
        /\ package_buffer' = [package_buffer EXCEPT ![package_counter] = Word]
        /\ package_counter' = package_counter + 1
    BY <2>1 DEF Copy, Copying
  <2>3. /\ package_counter = pos - 1 /\ origin = Len(sent)
        /\ \A k \in 0 .. pos - 2 : package_buffer[k] = Frame[k + 2]
    BY <1>1, <1>4, <1>7
  <2>4. pos' < Len(Frame') - 1 /\ 0 < pos' /\ pos' # 0 /\ pos' # Len(Frame') - 1 /\ pos' # Len(Frame')
    BY <1>1, <1>2, <1>7
  <2>5. pos - 1 \in Offsets /\ 0 .. pos - 2 \subseteq Offsets
    BY <1>1, <1>5, <1>7 DEF Offsets
  <2>6. Word = Frame[pos + 1]
    BY DEF Word
  <2>7. ASSUME NEW k \in 0 .. pos' - 2 PROVE package_buffer'[k] = Frame'[k + 2]
    <3>1. CASE k = pos - 1
      <4>1. package_buffer'[k] = Word
        BY <2>2, <2>3, <2>5, <3>1 DEF BufferType
      <4>2. k + 2 = pos + 1
        BY <1>1, <3>1
      <4>3. QED
        BY <1>2, <2>6, <4>1, <4>2
    <3>2. CASE k \in 0 .. pos - 2
      <4>1. package_buffer'[k] = package_buffer[k]
        BY <1>1, <2>2, <2>3, <2>5, <3>2 DEF BufferType
      <4>2. QED
        BY <1>2, <2>3, <3>2, <4>1
    <3>3. QED
      BY <1>1, <3>1, <3>2
  <2>8. package_counter' = pos' - 1 /\ origin' = Len(sent')
    BY <1>1, <1>2, <2>2, <2>3
  <2>9. QED
    BY <2>2, <2>4, <2>7, <2>8
<1>8. CASE pos = Len(Frame) - 2
  <2>1. Copy(Word) /\ Word = Return
    BY <1>1, <1>3, <1>4, <1>8 DEF AwaitDollar, Copying, Analyse
  <2>2. status' = 2 /\ origin' = origin /\ package_buffer' = package_buffer
    BY <2>1 DEF Copy
  <2>3. /\ origin = Len(sent) /\ \A k \in 0 .. pos - 2 : package_buffer[k] = Frame[k + 2]
    BY <1>1, <1>4, <1>8
  <2>4. pos - 2 = Len(body) + 2
    BY <1>5, <1>8
  <2>5. Holds(package_buffer', body')
    BY <1>2, <2>2, <2>3, <2>4 DEF Holds, Frame
  <2>6. pos' = Len(Frame') - 1
    BY <1>1, <1>2, <1>8
  <2>7. QED
    BY <1>1, <1>2, <2>2, <2>3, <2>5, <2>6
<1>9. CASE pos = Len(Frame) - 1
  <2>1. Analyse(Word) /\ nmea_gnrmc_analysis
    BY <1>3, <1>4, <1>9 DEF AwaitDollar, Copy, Copying, Analyse
  <2>2. /\ comma_position(package_buffer, 2) # 0
        /\ Stars(package_buffer) # {}
        /\ Summed(package_buffer, Min(Stars(package_buffer))) = nmea_get_checksum(package_buffer)
        /\ \A old : Fields(package_buffer, old) = Said[body]
    BY <1>4, <1>5, <1>9, Understood DEF BufferType
  <2>3. Complete /\ ~Stray /\ Fits
    BY <2>2 DEF Complete, Stray, Fits
  <2>4. Accept
    BY <2>1, <2>3 DEF nmea_gnrmc_analysis
  <2>5. last' = Len(sent') /\ gps_rmc' = Said[body']
    BY <1>2, <1>4, <1>9, <2>2, <2>4 DEF Accept
  <2>6. pos' = Len(Frame')
    BY <1>1, <1>2, <1>9
  <2>7. QED
    BY <1>1, <1>2, <2>5, <2>6
<1>10. QED
  BY <1>1, <1>6, <1>7, <1>8, <1>9

LEMMA BufferReceive ==
  ASSUME TypeOK, BufferType, Receive
  PROVE  BufferType'
<1>1. Word \in Nat
  BY WordIs DEF Receive
<1>2. QED
  BY <1>1 DEF Receive, deal_dma_gnrmc, AwaitDollar, Copy, Analyse, BufferType, Offsets

LEMMA ResyncStep ==
  ASSUME TypeOK, ResyncInv, [Next]_vars, Longest <= BufferSize,
         \A words \in Bodies : Fielded(words)
  PROVE  ResyncInv'
<1>1. CASE \E next \in Bodies : Begin(next)
  BY <1>1, ResyncBegin
<1>2. CASE Receive
  <2>1. BufferType' /\ InStep' /\ AtRest'
    BY <1>2, RestReceive, StepReceive, BufferReceive DEF ResyncInv
  <2>2. QED
    BY <1>2, <2>1 DEF ResyncInv, Receive
<1>3. CASE Lose
  BY <1>3, ResyncLose
<1>4. CASE UNCHANGED vars
  <2>1. /\ Frame' = Frame /\ UNCHANGED <<body, pos, sent, status, package_buffer, package_counter>>
        /\ UNCHANGED <<origin, last, gps_rmc, lost, clear>>
    BY <1>4 DEF vars, sender, receiver, line, Frame
  <2>2. BufferType' /\ InStep' /\ AtRest'
    BY <2>1 DEF ResyncInv, BufferType, Offsets, InStep, AtRest, Copying, Holds
  <2>3. QED
    BY <2>1, <2>2 DEF ResyncInv
<1>5. QED
  BY <1>1, <1>2, <1>3, <1>4 DEF Next

(* A sentence that arrives whole is understood as it was said, whatever    *)
(* was lost before and wherever the blocks of the DMA end, unless the one  *)
(* before it lost its CR or LF: for every exclusive or and all sentences   *)
(* that have their commas.  So many CRs may be lost that the sentences     *)
(* joined fit package_buffer, which then is never overrun; with more, the  *)
(* code writes behind it, and nothing is claimed.                          *)
THEOREM FoundAgain ==
  ASSUME Roomy, \A words \in Bodies : Fielded(words)
  PROVE  Spec => [](InBuffer /\ Resynchronised)
<1>1. ResyncInv => Resynchronised
  BY DEF ResyncInv, InStep, Resynchronised
<1>2. CounterInv => InBuffer
  BY DEF CounterInv
<1>3. Longest <= BufferSize
  <2>1. Longest \in Nat /\ MaxMissed \in Nat /\ BufferSize \in Nat
    BY GpsAssumption
  <2>2. MaxMissed * Longest \in Nat /\ (MaxMissed + 1) * Longest = MaxMissed * Longest + Longest
    BY <2>1, Products
  <2>3. PICK more \in Nat : more = MaxMissed * Longest
    BY <2>2
  <2>4. more + Longest <= BufferSize
    BY <2>2, <2>3 DEF Roomy
  <2>5. QED
    BY <2>1, <2>3, <2>4
<1>4. TypeOK /\ ResyncInv /\ [Next]_vars => ResyncInv'
  BY <1>3, ResyncStep
<1>5. QED
  BY <1>1, <1>2, <1>4, CounterBounded, TypeInit, TypeStep, ResyncInit, PTL DEF Spec
=============================================================================
