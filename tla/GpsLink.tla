------------------------------- MODULE GpsLink -------------------------------
(***************************************************************************)
(* The sentences of the GPS:  $ body * checksum CR LF.  deal_dma_gnrmc     *)
(* takes them out of the blocks of the DMA, which end anywhere in a        *)
(* sentence, and hands what lies between '$' and CR to                     *)
(* nmea_gnrmc_analysis.                                                    *)
(*                                                                         *)
(* Words are ASCII codes.  Of the fields the model keeps the status, which *)
(* the second comma precedes, and the latitude, after the third; a number  *)
(* is the sequence of its digits.                                          *)
(***************************************************************************)
EXTENDS Integers, Sequences, FiniteSetsExt, Functions

CONSTANTS
  Xor(_, _),    (* "^" of two bytes.                                       *)
  Bodies,       (* What the GPS may say: sequences of characters.          *)
  Longest,      (* Words of the longest sentence.                          *)
  BufferSize,   (* package_buffer: 80.                                     *)
  Block,        (* Words in a block of the DMA: 74.                        *)
  MaxFrames,    (* Bound: sentences sent.                                  *)
  Losable,      (* Words that may be lost,                                 *)
  MaxLost,      (* Bound: so many in a sentence,                           *)
  MaxMissed     (* Bound: and the CR of so many in a row.                  *)

Dollar  == 36
Star    == 42
Comma   == 44
Return  == 13
Newline == 10
Digits  == 48 .. 57
Byte    == 0 .. 255
Special == {Dollar, Star, Return, Newline}

-----------------------------------------------------------------------------
(* The sender.                                                             *)
HexDigit(n) == IF n < 10 THEN 48 + n ELSE 55 + n

(* check_sum ^= p[i] over the first n bytes.                               *)
XorAll(bytes) == FoldFunction(Xor, 0, bytes)
Summed(p, n)  == XorAll([i \in 0 .. n - 1 |-> p[i]])

Checksum(body) == Summed([k \in 0 .. Len(body) - 1 |-> body[k + 1]], Len(body))

Sentence == [words \in Bodies |->
  <<Dollar>> \o words
    \o <<Star, HexDigit(Checksum(words) \div 16), HexDigit(Checksum(words) % 16)>>
    \o <<Return, Newline>>]

ASSUME GpsAssumption ==
  /\ \A body \in Bodies : body \in Seq(Byte \ Special) /\ Checksum(body) \in Byte
  /\ Bodies # {}
  /\ Longest \in Nat /\ \A body \in Bodies : Len(Sentence[body]) <= Longest
  /\ BufferSize \in 1 .. 255 /\ Block \in Nat \ {0}
  /\ MaxFrames \in Nat /\ MaxLost \in Nat /\ MaxMissed \in Nat
  /\ Losable \subseteq Byte

-----------------------------------------------------------------------------
(* What nmea_gnrmc_analysis makes of a buffer p.                           *)
Stops(word) == word = Star \/ word < 32 \/ word > 122

(* nmea_all_comma_position: the offset of the n-th comma, 0 if there is    *)
(* none before the scan ends.                                              *)
comma_position(p, n) ==
  LET Commas(k) == {i \in 0 .. k : p[i] = Comma}
      Found == {k \in DOMAIN p : /\ p[k] = Comma
                                 /\ Cardinality(Commas(k)) = n
                                 /\ \A i \in 0 .. k : ~Stops(p[i])}
  IN IF Found = {} THEN 0 ELSE Max(Found)

(* nmea_str2num: the digits from an offset on, none if anything but a      *)
(* comma or '*' ends them.                                                 *)
nmea_str2num(p, from) ==
  LET Ends == {k \in DOMAIN p : k >= from /\ p[k] \notin Digits}
  IN IF Ends # {} /\ p[Min(Ends)] \in {Comma, Star}
     THEN [k \in 1 .. Min(Ends) - from |-> p[from + k - 1]] ELSE <<>>

Stars(p) == {k \in DOMAIN p : p[k] = Star /\ k + 2 \in DOMAIN p}

Nibble(word) == word - (IF word > 58 THEN 55 ELSE 48)

nmea_get_checksum(p) ==
  (Nibble(p[Min(Stars(p)) + 1]) * 16 + Nibble(p[Min(Stars(p)) + 2])) % 256

(* A field whose comma is missing keeps its value.                         *)
Fields(p, old) ==
  [status   |-> IF comma_position(p, 2) = 0 THEN old.status ELSE p[comma_position(p, 2) + 1],
   latitude |-> IF comma_position(p, 3) = 0 THEN old.latitude
                ELSE nmea_str2num(p, comma_position(p, 3) + 1)]

NoFields == [status |-> 0, latitude |-> <<>>]

Blank == [k \in 0 .. BufferSize - 1 |-> 0]

(* What is said in a sentence: its fields, if it is all that p holds.      *)
Content(words) == [k \in 0 .. Len(words) |-> IF k < Len(words) THEN words[k + 1] ELSE Star]

Said == [words \in Bodies |-> Fields(Content(words), NoFields)]

-----------------------------------------------------------------------------
VARIABLES
  \* the GPS: what it says, and how many words of the sentence are out
  body, pos,
  \* deal_dma_gnrmc; counter is the place in the block of the DMA
  status, package_buffer, package_counter, counter,
  \* gps_rmc
  gps_rmc,
  \* history: see LossyChannel; number of the sentence copied first
  sent, delivered, last, origin,
  \* history: words lost of this sentence; whether the one before lost
  \* neither CR nor LF; sentences since the last CR received that lost theirs
  lost, clear, missed

sender   == <<body, pos, sent>>
receiver == <<status, package_buffer, package_counter, counter, gps_rmc,
              delivered, last, origin>>
line     == <<lost, clear, missed>>
vars     == <<sender, receiver, line>>

Init ==
  /\ body \in Bodies /\ pos = Len(Sentence[body]) /\ sent = <<>>
  /\ status = 0 /\ package_buffer = Blank /\ package_counter = 0 /\ counter = 0
  /\ gps_rmc = NoFields
  /\ delivered = <<>> /\ last = 0 /\ origin = 0
  /\ lost = {} /\ clear = TRUE /\ missed = 0

Frame == Sentence[body]
Word  == Frame[pos + 1]

(* The GPS begins a sentence.                                              *)
Begin(next) ==
  /\ pos = Len(Frame)
  /\ Len(sent) < MaxFrames
  /\ body' = next
  /\ pos' = 0
  /\ sent' = Append(sent, Said[next])
  /\ lost' = {}
  /\ clear' = (lost \cap {pos - 1, pos} = {})
  /\ UNCHANGED <<receiver, missed>>

-----------------------------------------------------------------------------
Copying == status \in {1, 3, 5}

(* case 0                                                                  *)
AwaitDollar(word) ==
  /\ status = 0
  /\ status' = IF word = Dollar THEN 1 ELSE 0
  /\ origin' = IF word = Dollar THEN Len(sent) ELSE origin
  /\ UNCHANGED <<package_buffer, package_counter, gps_rmc, delivered, last>>

(* Mutants of Copy: the word at the end of a block is not copied; a CR is  *)
(* not recognised there; a '$' is taken for the beginning of a sentence.   *)
CopyCutShort(word) ==
  /\ Copying
  /\ \/ /\ word = Return
        /\ status' = 2
        /\ UNCHANGED <<package_buffer, package_counter>>
     \/ /\ word # Return
        /\ status' = IF counter = Block - 1 THEN (IF status = 1 THEN 3 ELSE 5) ELSE status
        /\ IF counter = Block - 1
           THEN UNCHANGED <<package_buffer, package_counter>>
           ELSE /\ package_buffer' = [package_buffer EXCEPT ![package_counter] = word]
                /\ package_counter' = package_counter + 1
  /\ UNCHANGED <<gps_rmc, delivered, last, origin>>

CopyBlindAtCut(word) ==
  /\ Copying
  /\ \/ /\ word = Return /\ counter # Block - 1
        /\ status' = 2
        /\ UNCHANGED <<package_buffer, package_counter>>
     \/ /\ word # Return \/ counter = Block - 1
        /\ status' = IF counter = Block - 1 THEN (IF status = 1 THEN 3 ELSE 5) ELSE status
        /\ package_buffer' = [package_buffer EXCEPT ![package_counter] = word]
        /\ package_counter' = package_counter + 1
  /\ UNCHANGED <<gps_rmc, delivered, last, origin>>

(* cases 1, 3 and 5.  Only a CR ends the copying, and nothing bounds it:   *)
(* at BufferSize the word is written behind package_buffer (Overrun).  The *)
(* states differ in nothing but the ends of blocks they have seen.         *)
Copy(word) ==
  /\ Copying
  /\ \/ /\ word = Return
        /\ status' = 2
        /\ UNCHANGED <<package_buffer, package_counter>>
     \/ /\ word # Return
        /\ status' = IF counter = Block - 1 THEN (IF status = 1 THEN 3 ELSE 5) ELSE status
        /\ package_buffer' = [package_buffer EXCEPT ![package_counter] = word]
        /\ package_counter' = package_counter + 1
  /\ UNCHANGED <<gps_rmc, delivered, last, origin>>

(* comma_position[12 != 0] is that of the second comma.                    *)
Complete == comma_position(package_buffer, 2) # 0

(* No '*' in the buffer: the searches go on in the memory behind it, and   *)
(* end anywhere, with a checksum that fits or not.                         *)
Stray == Complete /\ Stars(package_buffer) = {}

(* Mutant: the checksum is not compared.                                   *)
FitsAlways == TRUE

Fits == Summed(package_buffer, Min(Stars(package_buffer))) = nmea_get_checksum(package_buffer)

Accept ==
  /\ gps_rmc' = Fields(package_buffer, gps_rmc)
  /\ delivered' = Append(delivered, gps_rmc')
  /\ last' = origin

Reject == UNCHANGED <<gps_rmc, delivered, last>>

nmea_gnrmc_analysis ==
  \/ ~Complete /\ Reject
  \/ Stray /\ (Accept \/ Reject)
  \/ Complete /\ ~Stray /\ (IF Fits THEN Accept ELSE Reject)

(* case 2: whatever the word is, it is not looked at.  Mutant: the counter *)
(* is not reset.                                                           *)
AnalyseNoReset(word) ==
  /\ status = 2
  /\ nmea_gnrmc_analysis
  /\ status' = 0
  /\ UNCHANGED <<package_buffer, package_counter, origin>>

Analyse(word) ==
  /\ status = 2
  /\ nmea_gnrmc_analysis
  /\ package_counter' = 0
  /\ status' = 0
  /\ UNCHANGED <<package_buffer, origin>>

(* One turn of the loop of deal_dma_gnrmc.                                 *)
deal_dma_gnrmc(word) ==
  /\ AwaitDollar(word) \/ Copy(word) \/ Analyse(word)
  /\ counter' = (counter + 1) % Block

Receive ==
  /\ pos < Len(Frame)
  /\ deal_dma_gnrmc(Word)
  /\ pos' = pos + 1
  /\ missed' = IF Word = Return THEN 0 ELSE missed
  /\ UNCHANGED <<body, sent, lost, clear>>

(* A word is lost in the UART while its DMA is stopped.                    *)
Lose ==
  /\ pos < Len(Frame)
  /\ Word \in Losable
  /\ Cardinality(lost) < MaxLost
  /\ Word = Return => missed < MaxMissed
  /\ pos' = pos + 1
  /\ lost' = lost \cup {pos'}
  /\ missed' = IF Word = Return THEN missed + 1 ELSE missed
  /\ UNCHANGED <<body, sent, clear, receiver>>

(* package_counter is an unsigned char and so counts past BufferSize       *)
(* before it wraps.  What lies behind the buffer the model does not know,  *)
(* and stops.                                                              *)
Overrun == package_counter > BufferSize

Next ==
  /\ ~Overrun
  /\ \/ \E next \in Bodies : Begin(next)
     \/ Receive
     \/ Lose

Spec == Init /\ [][Next]_vars

-----------------------------------------------------------------------------
(* The variables have their types; the buffer is empty outside a sentence, *)
(* and the sentence in it is one that has not been handed over.            *)
TypeOK ==
  /\ body \in Bodies /\ pos \in 0 .. Len(Frame)
  /\ status \in {0, 1, 2, 3, 5} /\ counter \in 0 .. Block - 1
  /\ package_counter \in 0 .. BufferSize + 1 /\ (status = 0 => package_counter = 0)
  /\ missed \in 0 .. MaxMissed
  /\ sent \in Seq({Said[b] : b \in Bodies})
  /\ origin \in 0 .. Len(sent) /\ (pos = 0 => origin < Len(sent))
  /\ last \in 0 .. origin /\ (status # 0 => last < origin)

(* The buffer is not overrun while it has room for the sentences whose CR  *)
(* is lost, and one more (Roomy): with its 80 words and the 74 of a        *)
(* sentence with a position, while no CR of one is lost.                   *)
InBuffer == ~Overrun

Roomy == (MaxMissed + 1) * Longest <= BufferSize

(* How far package_counter, which the code does not bound, can get: every  *)
(* CR that is lost adds a sentence to what is in the buffer.  Once the CR  *)
(* of a sentence is gone, received or lost, only its LF can follow.        *)
CounterInv ==
  /\ Copying /\ pos < Len(Frame) - 1 => package_counter <= missed * Longest + pos
  /\ Copying /\ pos >= Len(Frame) - 1 => package_counter + Len(Frame) <= missed * Longest + pos
  /\ Roomy => InBuffer

(* What passes the checksum is a sentence of the GPS, none is taken twice, *)
(* and the order is kept, wherever the blocks end and if each loses a word. *)
Channel == INSTANCE LossyChannel WITH Messages <- {Said[b] : b \in Bodies}
Promise == Channel!Spec

(* A sentence received in full is understood as it was said, whatever      *)
(* happened to those before it, if the last one before did not lose its CR *)
(* or LF.                                                                  *)
Resynchronised ==
  pos = Len(Frame) /\ lost = {} /\ clear /\ sent # <<>> =>
    last = Len(sent) /\ gps_rmc = sent[Len(sent)]

(* The searches for '*' end in the buffer, as long as no '*' is lost.      *)
StaysInside == status = 2 => ~Stray
=============================================================================
