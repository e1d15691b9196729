-------------------------- MODULE PeripheralProofs --------------------------
(***************************************************************************)
(* Theorems about the parameters in the EEPROM, the SD card, the limits of *)
(* the servo, the averages of the samples, the speeds that reach the       *)
(* motor, the table of the monitor, the samples of a touch and the sorts;  *)
(* and about all of them side by side.                                     *)
(***************************************************************************)
EXTENDS MC_Peripherals, ReceptionProofs, SequenceTheorems, FiniteSetTheorems,
        WellFoundedInduction, TLAPS

(* What a page holds when the EEPROM has done what it is busy with.        *)
Settled(page) == IF busy.page = page THEN busy.value ELSE pages[page]

ParamTypes ==
  /\ params \in [1 .. 2 -> Value]
  /\ doing \in {"run", "first", "second", "boot", "off"}
  /\ pages \in [1 .. 2 -> Value]
  /\ busy \in {Idle} \cup [page : 1 .. 2, value : Value]
  /\ calibration \in 0 .. MaxSaves /\ resets \in 0 .. MaxResets

(* The first page is written, or on its way, before the second, and each   *)
(* from the newest calibration.                                            *)
OrderOfPages ==
  /\ busy # Idle => busy.value = calibration
  /\ pages[1] <= calibration /\ pages[2] <= calibration
  /\ doing \in {"first", "second"} => params = Both(calibration)
  /\ doing = "first" => busy = Idle
  /\ doing = "second" => \/ busy.page = 1
                         \/ busy = Idle /\ pages[1] = calibration
  /\ busy.page = 2 => pages[1] = calibration \/ pages[1] = Garbage
  /\ pages[1] >= pages[2] \/ pages[1] = Garbage

(* Unless a save was cut short or ignored the pages will hold the newest   *)
(* calibration, and the program has it unless it is about to read it.      *)
SavedInv ==
  cut \/ ignored \/
    /\ doing \in {"run", "boot", "off"} => Settled(1) = calibration /\ Settled(2) = calibration
    /\ doing \in {"run", "first", "second"} => params = Both(calibration)

LEMMA ParamTypesStep ==
  ASSUME ParamTypes, [ParamNext]_param_vars PROVE ParamTypes'
<1> USE ParamStoreAssumption DEF ParamTypes, Value
<1>1. CASE Calibrated
  <2>1. calibration' \in 0 .. MaxSaves /\ params' = [page \in 1 .. 2 |-> calibration']
    BY <1>1 DEF Calibrated, Both
  <2>2. params' \in [1 .. 2 -> Value]
    BY <2>1
  <2>3. QED
    BY <1>1, <2>1, <2>2 DEF Calibrated
<1>2. CASE SaveFirst
  BY <1>2 DEF SaveFirst, writebytes
<1>3. CASE SaveSecond
  BY <1>3 DEF SaveSecond, writebytes
<1>4. CASE Programmed
  BY <1>4 DEF Programmed
<1>5. CASE Reset
  BY <1>5 DEF Reset
<1>6. CASE PowerLoss
  BY <1>6 DEF PowerLoss
<1>7. CASE PowerOn
  BY <1>7 DEF PowerOn
<1>8. CASE readparams
  BY <1>8 DEF readparams
<1>9. CASE UNCHANGED param_vars
  BY <1>9 DEF param_vars
<1>10. QED
  BY <1>1, <1>2, <1>3, <1>4, <1>5, <1>6, <1>7, <1>8, <1>9 DEF ParamNext

FlagTypes == cut \in BOOLEAN /\ ignored \in BOOLEAN

LEMMA FlagTypesStep ==
  ASSUME FlagTypes, [ParamNext]_param_vars PROVE FlagTypes'
<1> USE DEF FlagTypes
<1>1. CASE Calibrated
  BY <1>1, Zenon DEF Calibrated
<1>2. CASE SaveFirst
  BY <1>2, Zenon DEF SaveFirst, writebytes
<1>3. CASE SaveSecond
  BY <1>3, Zenon DEF SaveSecond, writebytes
<1>4. CASE Programmed
  BY <1>4, Zenon DEF Programmed
<1>5. CASE Reset
  BY <1>5, Zenon DEF Reset
<1>6. CASE PowerLoss
  BY <1>6, Zenon DEF PowerLoss
<1>7. CASE PowerOn
  BY <1>7, Zenon DEF PowerOn
<1>8. CASE readparams
  BY <1>8, Zenon DEF readparams
<1>9. CASE UNCHANGED param_vars
  BY <1>9, Zenon DEF param_vars
<1>10. QED
  BY <1>1, <1>2, <1>3, <1>4, <1>5, <1>6, <1>7, <1>8, <1>9 DEF ParamNext

LEMMA PagesStep ==
  ASSUME ParamTypes, OrderOfPages, [ParamNext]_param_vars PROVE OrderOfPages'
<1> USE ParamStoreAssumption DEF ParamTypes, OrderOfPages, Value, Idle, Garbage, Both
<1>1. CASE Calibrated
  BY <1>1 DEF Calibrated
<1>2. CASE SaveFirst
  BY <1>2 DEF SaveFirst, writebytes
<1>3. CASE SaveSecond
  BY <1>3 DEF SaveSecond, writebytes
<1>4. CASE Programmed
  BY <1>4 DEF Programmed
<1>5. CASE Reset
  BY <1>5 DEF Reset
<1>6. CASE PowerLoss
  BY <1>6 DEF PowerLoss
<1>7. CASE PowerOn
  BY <1>7 DEF PowerOn
<1>8. CASE readparams
  BY <1>8 DEF readparams
<1>9. CASE UNCHANGED param_vars
  BY <1>9 DEF param_vars
<1>10. QED
  BY <1>1, <1>2, <1>3, <1>4, <1>5, <1>6, <1>7, <1>8, <1>9 DEF ParamNext

LEMMA SavedStep ==
  ASSUME ParamTypes, OrderOfPages, SavedInv, [ParamNext]_param_vars PROVE SavedInv'
<1> USE DEF ParamTypes, OrderOfPages, SavedInv, Settled, Value, Idle, Both
<1>1. CASE Calibrated
  BY <1>1 DEF Calibrated
<1>2. CASE SaveFirst
  BY <1>2 DEF SaveFirst, writebytes
<1>3. CASE SaveSecond
  BY <1>3 DEF SaveSecond, writebytes
<1>4. CASE Programmed
  BY <1>4 DEF Programmed
<1>5. CASE Reset
  BY <1>5 DEF Reset, Saving
<1>6. CASE PowerLoss
  BY <1>6 DEF PowerLoss, Saving
<1>7. CASE PowerOn
  BY <1>7 DEF PowerOn
<1>8. CASE readparams
  BY <1>8 DEF readparams
<1>9. CASE UNCHANGED param_vars
  BY <1>9 DEF param_vars
<1>10. QED
  BY <1>1, <1>2, <1>3, <1>4, <1>5, <1>6, <1>7, <1>8, <1>9 DEF ParamNext

StoreInv == ParamTypes /\ OrderOfPages /\ SavedInv

LEMMA StoreInit == ParamInit => StoreInv
BY ParamStoreAssumption
   DEF ParamInit, StoreInv, ParamTypes, OrderOfPages, SavedInv, Settled, Value, Idle, Both

LEMMA StoreStep == StoreInv /\ [ParamNext]_param_vars => StoreInv'
BY ParamTypesStep, PagesStep, SavedStep DEF StoreInv

(* The types of the store, for any number of calibrations and resets.      *)
THEOREM StoreTypes == ParamSpec => []ParamTypeOK
<1>1. ParamInit => FlagTypes
  BY Zenon DEF ParamInit, FlagTypes
<1>2. StoreInv /\ FlagTypes => ParamTypeOK
  BY Zenon DEF StoreInv, ParamTypes, FlagTypes, ParamTypeOK
<1>3. QED
  BY <1>1, <1>2, StoreInit, StoreStep, FlagTypesStep, PTL DEF ParamSpec

(* However often the processor is reset or loses its power, wherever: the  *)
(* display works with the newest calibration unless its save was cut short *)
(* or the EEPROM was still busy,                                           *)
THEOREM NewestRestored == ParamSpec => []Restored
<1>1. StoreInv => Restored
  BY DEF StoreInv, SavedInv, Restored
<1>2. QED
  BY <1>1, StoreInit, StoreStep, PTL DEF ParamSpec

(* and a mixture is of new offsets and an old factor, never the reverse.   *)
THEOREM OffsetsAreNewer == ParamSpec => []FirstIsNewer
<1>1. StoreInv => FirstIsNewer
  BY DEF StoreInv, OrderOfPages, FirstIsNewer
<1>2. QED
  BY <1>1, StoreInit, StoreStep, PTL DEF ParamSpec

(* Both together, as the runs check them.                                  *)
THEOREM StoreKept == ParamSpec => []StoreRight
<1>1. Restored /\ FirstIsNewer => StoreRight
  BY DEF StoreRight
<1>2. QED
  BY <1>1, NewestRestored, OffsetsAreNewer, PTL

-----------------------------------------------------------------------------
(* The SD card.  A count is cut to what an unsigned char holds, and 0 of   *)
(* them is as many as that has values.                                     *)
LEMMA CutCount ==
  ASSUME NEW n \in Nat \ {0}, NEW count \in Nat \ {0}
  PROVE  /\ count % n \in 0 .. n - 1 /\ count % n <= count
         /\ count < n => count % n = count
         /\ count % n = 0 => count >= n
         /\ count = n => count % n = 0
OBVIOUS

LEMMA CountDown ==
  ASSUME NEW n \in Nat \ {0}, NEW c \in 0 .. n - 1
  PROVE  /\ (c - 1) % n \in 0 .. n - 1
         /\ c # 0 => (c - 1) % n = c - 1
         /\ c = 0 => (c - 1) % n = n - 1
OBVIOUS

Left == IF cnt = 0 THEN CountValues ELSE cnt

Counts == cnt \in 0 .. CountValues - 1 /\ wanted \in Nat /\ moved \in Nat

(* A transfer has as many sectors before it as cnt says.                   *)
Ahead ==
  /\ sd_step \in {"cmd24", "cmd25", "cmd17", "cmd18"} => moved = 0 /\ ~refused
  /\ sd_step \in {"block", "blocks"} => ~refused
  /\ sd_step \in {"cmd24", "cmd17", "block", "sector"} => cnt = 1 /\ moved = 0
  /\ sd_step \in {"cmd24", "cmd25", "cmd17", "cmd18", "block", "blocks", "sector", "sectors"} =>
       /\ Left <= wanted - moved
       /\ wanted <= CountValues => moved = wanted - Left

(* At its end all are transferred, or the card refused something.          *)
Ended ==
  /\ moved <= wanted
  /\ sd_step \in {"stop", "cmd12"} => moved = wanted \/ refused \/ wanted > CountValues
  /\ sd_step = "done" /\ result = 0 => moved = wanted \/ refused \/ wanted > CountValues

TransferInv == Counts /\ Ahead /\ Ended

(* One sector less to come.                                                *)
LEMMA SectorLess ==
  ASSUME Counts, cnt' = (cnt - 1) % CountValues
  PROVE  /\ cnt' \in 0 .. CountValues - 1 /\ Left \in Nat
         /\ cnt' # 0 => Left' = Left - 1
         /\ cnt' = 0 => Left = 1
<1>1. PICK n \in Nat \ {0} : n = CountValues
  BY SdCardAssumption
<1>2. PICK c \in 0 .. n - 1 : c = cnt
  BY <1>1 DEF Counts
<1>3. PICK d \in 0 .. n - 1 : d = cnt' /\ (c # 0 => d = c - 1) /\ (c = 0 => d = n - 1)
  BY <1>1, <1>2, CountDown
<1>4. d # 0 => d = (IF c = 0 THEN n ELSE c) - 1
  BY <1>3
<1>5. d = 0 => (IF c = 0 THEN n ELSE c) = 1
  BY <1>3
<1>6. QED
  BY <1>1, <1>2, <1>3, <1>4, <1>5 DEF Left

LEMMA CountAsked ==
  ASSUME NEW count \in 1 .. MaxCount, disk_write(count) \/ disk_read(count)
  PROVE  TransferInv'
<1>1. PICK n \in Nat \ {0} : n = CountValues
  BY SdCardAssumption
<1>2. PICK c \in 0 .. n - 1 : /\ c = count % n /\ c <= count
                              /\ count < n => c = count
                              /\ c = 0 => count >= n
                              /\ count = n => c = 0
  <2>1. count \in Nat \ {0}
    BY SdCardAssumption
  <2>2. /\ count % n \in 0 .. n - 1 /\ count % n <= count
        /\ count < n => count % n = count
        /\ count % n = 0 => count >= n
        /\ count = n => count % n = 0
    BY <2>1, CutCount
  <2>3. QED
    BY <2>2
<1>3. cnt' = c /\ wanted' = count /\ moved' = 0 /\ ~refused'
  BY <1>1, <1>2 DEF disk_write, disk_read
<1>4. Left' <= wanted' /\ (wanted' <= CountValues => Left' = wanted')
  BY <1>1, <1>2, <1>3 DEF Left
<1>5. /\ sd_step' \in {"cmd24", "cmd25", "cmd17", "cmd18"}
      /\ sd_step' \in {"cmd24", "cmd17"} => cnt' = 1
  BY DEF disk_write, disk_read
<1>6. Counts'
  BY <1>1, <1>2, <1>3 DEF Counts
<1>7. Ahead'
  BY <1>3, <1>4, <1>5 DEF Ahead
<1>8. Ended'
  BY <1>3, <1>5 DEF Ended
<1>9. QED
  BY <1>6, <1>7, <1>8 DEF TransferInv

LEMMA TransferStep ==
  ASSUME TransferInv, card \in Cards, [CardNext]_card_vars PROVE TransferInv'
<1>1. CASE sdcard_config
  <2>1. UNCHANGED Transferring
    BY <1>1 DEF sdcard_config, InterfaceCondition, Probe, Ask, ReadOcr, SetBlockLength
  <2>2. sd_step' \in {"wait v2", "cmd58", "probe", "wait", "cmd16", "failed", "idle"}
    <3>1. CASE InterfaceCondition
      BY <3>1 DEF InterfaceCondition, Cards
    <3>2. CASE Ask
      BY <3>2 DEF Ask
    <3>3. CASE Probe \/ ReadOcr \/ SetBlockLength
      BY <3>3 DEF Probe, ReadOcr, SetBlockLength
    <3>4. QED
      BY <1>1, <3>1, <3>2, <3>3 DEF sdcard_config
  <2>3. Ahead'
    BY <2>2 DEF Ahead
  <2>4. QED
    BY <2>1, <2>2, <2>3 DEF Transferring, TransferInv, Counts, Ended
<1>2. CASE Command
  BY <1>2 DEF Command, Setup, TransferInv, Counts, Ahead, Ended, Left
<1>3. CASE WriteOne
  <2>1. /\ sd_step = "block" /\ cnt = 1 /\ moved = 0 /\ wanted \in Nat
        /\ Left <= wanted - moved /\ (wanted <= CountValues => moved = wanted - Left)
    BY <1>3 DEF WriteOne, TransferInv, Counts, Ahead
  <2>2. wanted >= 1 /\ (wanted <= CountValues => wanted = 1)
    BY <2>1 DEF Left
  <2>3. /\ sd_step' = "done" /\ UNCHANGED <<cnt, wanted>>
        /\ \/ result' = 0 /\ moved' = 1
           \/ result' = 2 /\ moved' = 0
    BY <1>3, <2>1 DEF WriteOne, WriteBlock
  <2>4. wanted <= CountValues \/ wanted > CountValues
    BY <2>1, SdCardAssumption
  <2>5. Ended'
    <3>1. moved' <= wanted'
      BY <2>1, <2>2, <2>3
    <3>2. result' = 0 => moved' = wanted' \/ wanted' > CountValues
      BY <2>2, <2>3, <2>4
    <3>3. sd_step' \notin {"stop", "cmd12"}
      BY <2>3
    <3>4. QED
      BY <3>1, <3>2, <3>3, Zenon DEF Ended
  <2>6. Counts' /\ Ahead'
    BY <2>3 DEF TransferInv, Counts, Ahead
  <2>7. QED
    BY <2>5, <2>6 DEF TransferInv
<1>4. CASE WriteMany
  <2>1. /\ sd_step = "blocks" /\ ~refused /\ cnt' = (cnt - 1) % CountValues
        /\ wanted' = wanted
        /\ Left <= wanted - moved /\ (wanted <= CountValues => moved = wanted - Left)
    BY <1>4 DEF WriteMany, TransferInv, Ahead
  <2>2. CASE result' = 0
    <3>1. moved' = moved + 1 /\ ~refused'
      BY <1>4, <2>1, <2>2, Zenon DEF WriteMany, WriteBlock
    <3>2. CASE cnt' # 0
      <4>1. sd_step' = "blocks" /\ Left' = Left - 1
        BY <1>4, <2>1, <2>2, <3>2, SectorLess DEF WriteMany, MoreToCome, TransferInv
      <4>2. Left \in Nat /\ Left - 1 <= wanted - (moved + 1) /\ cnt' # 0 /\ moved \in Nat
            /\ (wanted <= CountValues => moved + 1 = wanted - (Left - 1)) /\ wanted \in Nat
            /\ cnt' \in 0 .. CountValues - 1 /\ moved + 1 <= wanted
        <5>1. Left \in Nat /\ cnt' \in 0 .. CountValues - 1 /\ Left >= 1
          BY <2>1, SdCardAssumption, SectorLess DEF TransferInv, Counts, Left
        <5>2. QED
          BY <2>1, <3>2, <5>1 DEF TransferInv, Counts
      <4>3. Counts' /\ Ended'
        BY <2>1, <3>1, <4>1, <4>2 DEF Counts, Ended
      <4>4. Ahead'
        BY <2>1, <3>1, <4>1, <4>2 DEF Ahead
      <4>5. QED
        BY <4>3, <4>4 DEF TransferInv
    <3>3. CASE cnt' = 0
      <4>1. sd_step' = "stop" /\ Left = 1
        BY <1>4, <2>1, <2>2, <3>3, SectorLess DEF WriteMany, MoreToCome, TransferInv
      <4>2. wanted <= CountValues \/ wanted > CountValues
        BY SdCardAssumption DEF TransferInv, Counts
      <4>3. QED
        BY <2>1, <3>1, <3>3, <4>1, <4>2, SectorLess DEF TransferInv, Counts, Ahead, Ended
    <3>4. QED
      BY <3>2, <3>3
  <2>3. CASE result' # 0
    <3>1. moved' = moved /\ refused' /\ sd_step' = "stop"
      BY <1>4, <2>3, Zenon DEF WriteMany, WriteBlock, MoreToCome
    <3>2. QED
      BY <2>1, <3>1, SectorLess DEF TransferInv, Counts, Ahead, Ended
  <2>4. QED
    BY <2>2, <2>3
<1>5. CASE StopWriting
  BY <1>5 DEF StopWriting, Setup, TransferInv, Counts, Ahead, Ended, Left
<1>6. CASE ReadOne
  <2>1. /\ sd_step = "sector" /\ cnt = 1 /\ moved = 0 /\ wanted \in Nat
        /\ Left <= wanted - moved /\ (wanted <= CountValues => moved = wanted - Left)
    BY <1>6 DEF ReadOne, TransferInv, Counts, Ahead
  <2>2. wanted >= 1 /\ (wanted <= CountValues => wanted = 1)
    BY <2>1 DEF Left
  <2>3. sd_step' = "done" /\ UNCHANGED <<cnt, wanted>> /\ moved' = 1
    BY <1>6 DEF ReadOne
  <2>4. wanted <= CountValues \/ wanted > CountValues
    BY <2>1, SdCardAssumption
  <2>5. Ended'
    <3>1. moved' <= wanted'
      BY <2>1, <2>2, <2>3
    <3>2. result' = 0 => moved' = wanted' \/ wanted' > CountValues
      BY <2>2, <2>3, <2>4
    <3>3. sd_step' \notin {"stop", "cmd12"}
      BY <2>3
    <3>4. QED
      BY <3>1, <3>2, <3>3, Zenon DEF Ended
  <2>6. Counts' /\ Ahead'
    BY <2>3 DEF TransferInv, Counts, Ahead
  <2>7. QED
    BY <2>5, <2>6 DEF TransferInv
<1>7. CASE ReadMany
  <2>1. /\ sd_step = "sectors" /\ cnt' = (cnt - 1) % CountValues
        /\ wanted' = wanted /\ moved' = moved + 1 /\ result' = 0
        /\ Left <= wanted - moved /\ (wanted <= CountValues => moved = wanted - Left)
    BY <1>7 DEF ReadMany, TransferInv, Ahead
  <2>2. CASE cnt' # 0
    <3>1. sd_step' = "sectors" /\ Left' = Left - 1
      BY <1>7, <2>1, <2>2, SectorLess DEF ReadMany, MoreToCome, TransferInv
    <3>2. Left \in Nat /\ Left - 1 <= wanted - (moved + 1) /\ cnt' # 0 /\ moved \in Nat
          /\ (wanted <= CountValues => moved + 1 = wanted - (Left - 1)) /\ wanted \in Nat
          /\ cnt' \in 0 .. CountValues - 1 /\ moved + 1 <= wanted
      <4>1. Left \in Nat /\ cnt' \in 0 .. CountValues - 1 /\ Left >= 1
        BY <2>1, SdCardAssumption, SectorLess DEF TransferInv, Counts, Left
      <4>2. QED
        BY <2>1, <2>2, <4>1 DEF TransferInv, Counts
    <3>3. Counts' /\ Ended'
      BY <2>1, <3>1, <3>2 DEF Counts, Ended
    <3>4. Ahead'
      BY <2>1, <3>1, <3>2 DEF Ahead
    <3>5. QED
      BY <3>3, <3>4 DEF TransferInv
  <2>3. CASE cnt' = 0
    <3>1. sd_step' = "cmd12" /\ Left = 1
      BY <1>7, <2>1, <2>3, SectorLess DEF ReadMany, MoreToCome, TransferInv
    <3>2. wanted <= CountValues \/ wanted > CountValues
      BY SdCardAssumption DEF TransferInv, Counts
    <3>3. QED
      BY <2>1, <2>3, <3>1, <3>2, SectorLess DEF TransferInv, Counts, Ahead, Ended
  <2>4. QED
    BY <2>2, <2>3
<1>8. CASE StopReading
  BY <1>8 DEF StopReading, Setup, TransferInv, Counts, Ahead, Ended, Left
<1>9. CASE Report
  BY <1>9, SdCardAssumption DEF Report, Setup, TransferInv, Counts, Ahead, Ended, Left
<1>10. CASE UNCHANGED card_vars
  BY <1>10 DEF card_vars, TransferInv, Counts, Ahead, Ended, Left
<1>11. QED
  BY <1>1, <1>2, <1>3, <1>4, <1>5, <1>6, <1>7, <1>8, <1>9, <1>10, CountAsked
     DEF CardNext, sdcard_write_disk, sdcard_read_disk

CardInv == TransferInv /\ card \in Cards

LEMMA TransferInit == CardInit => CardInv
BY SdCardAssumption DEF CardInit, CardInv, TransferInv, Counts, Ahead, Ended

LEMMA CardStays == ASSUME [CardNext]_card_vars PROVE card' = card
BY DEF CardNext, card_vars, sdcard_config, InterfaceCondition, Probe, Ask, ReadOcr,
       SetBlockLength, disk_write, disk_read, sdcard_write_disk, sdcard_read_disk, Command,
       WriteOne, WriteMany, StopWriting, ReadOne, ReadMany, StopReading, Report, Setup

LEMMA CardStep == CardInv /\ [CardNext]_card_vars => CardInv'
BY TransferStep, CardStays DEF CardInv

(* For every number of sectors and whatever the card refuses: a transfer   *)
(* that reports success has moved all of them, but for a block refused     *)
(* among several or a count that an unsigned char does not hold.           *)
THEOREM SuccessIsComplete == CardSpec => []ReportedIsMoved
<1>1. CardInv => ReportedIsMoved
  BY DEF CardInv, TransferInv, Ended, ReportedIsMoved
<1>2. QED
  BY <1>1, TransferInit, CardStep, PTL DEF CardSpec

(* No block is written after one that was refused.                         *)
THEOREM RefusalIsLast == CardSpec => NothingAfterRefusal
<1>1. ASSUME TransferInv, CardNext, refused, sd_step \notin {"done", "idle"}
      PROVE  moved' = moved
  <2>1. sd_step \notin {"block", "blocks"}
    BY <1>1 DEF TransferInv, Ahead
  <2>2. ~WriteOne /\ ~WriteMany /\ ~ReadOne /\ ~ReadMany /\ ~Report
    BY <1>1, <2>1 DEF WriteOne, WriteMany, ReadOne, ReadMany, Report
  <2>3. \A count \in 1 .. MaxCount : ~disk_write(count) /\ ~disk_read(count)
    BY <1>1 DEF disk_write, disk_read
  <2>4. CASE sdcard_config
    BY <2>4 DEF sdcard_config, InterfaceCondition, Probe, Ask, ReadOcr, SetBlockLength,
                Transferring
  <2>5. CASE Command \/ StopWriting \/ StopReading
    BY <2>5 DEF Command, StopWriting, StopReading
  <2>6. QED
    BY <1>1, <2>2, <2>3, <2>4, <2>5 DEF CardNext, sdcard_write_disk, sdcard_read_disk
<1>2. CardInv /\ [CardNext]_card_vars
        => [refused /\ sd_step \notin {"done", "idle"} => moved' = moved]_card_vars
  BY <1>1 DEF CardInv
<1>3. QED
  BY <1>2, TransferInit, CardStep, PTL DEF CardSpec, NothingAfterRefusal

(* retry of the loops that ask a card to leave the idle state, as far as   *)
(* the number of attempts tells.                                           *)
AskedSince ==
  /\ attempts \in Nat /\ retry \in Int
  /\ sd_step = "cmd8"  => attempts = 0
  /\ sd_step = "probe" => attempts = 0 /\ retry = RetryValues - 2
  /\ sd_step \in {"wait v2", "wait"} => retry = RetryValues - 2 - attempts /\ retry >= 0
  /\ sd_step \in {"cmd58", "cmd16"} =>
       retry = IF ready THEN RetryValues - 1 - attempts ELSE RetryValues - 1

(* What is known of the card, and when it has left the idle state.         *)
Identified ==
  /\ card \in Cards
  /\ sd_step \in {"cmd8", "wait v2", "probe", "cmd58"} => SD_TYPE = "none"
  /\ sd_step \in {"wait", "cmd16"} => SD_TYPE = card
  /\ sd_step \in {"cmd8", "wait v2", "probe"} => ~ready
  /\ sd_step = "failed" /\ ready => card = "old" \/ attempts = RetryValues - 1
  /\ sd_step \notin {"cmd8", "wait v2", "cmd58", "probe", "wait", "cmd16", "failed"} => ready

ReadyInv == AskedSince /\ Identified

LEMMA AskStep == ReadyInv /\ Ask => ReadyInv'
<1> SUFFICES ASSUME ReadyInv, Ask PROVE ReadyInv'
  OBVIOUS
<1>1. PICK n \in Nat \ {0} : n = RetryValues
  BY SdCardAssumption
<1>2. PICK a \in Nat, r \in 0 .. n - 1 : a = attempts /\ r = retry /\ r = n - 2 - a
  <2>1. /\ attempts \in Nat /\ retry \in Int
        /\ retry = RetryValues - 2 - attempts /\ retry >= 0
    BY DEF Ask, ReadyInv, AskedSince
  <2>2. QED
    BY <1>1, <2>1
<1>3. /\ r # 0 => (r - 1) % n = r - 1
      /\ r = 0 => (r - 1) % n = n - 1
  BY CountDown
<1>4. PICK b \in Nat : b = a + 1
  OBVIOUS
<1>5. /\ sd_step \in {"wait v2", "wait"} /\ attempts' = b
      /\ retry' = IF ready' THEN r ELSE (r - 1) % n
  BY <1>1, <1>2, <1>4 DEF Ask
<1>6. CASE ready' \/ r = 0
  <2> DEFINE s == IF ready' THEN r ELSE (r - 1) % n
  <2>1. /\ sd_step' \in {"cmd58", "cmd16"}
        /\ sd_step = "wait v2" => sd_step' = "cmd58"
        /\ sd_step = "wait" => sd_step' = "cmd16"
    BY <1>2, <1>6 DEF Ask
  <2>2. /\ ready' => s = r
        /\ ~ready' => s = n - 1
    BY <1>3, <1>6
  <2>3. r \in Int /\ r = n - 1 - b /\ n - 1 \in Int
    BY <1>2, <1>4
  <2>4. retry' = s
    BY <1>5
  <2> HIDE DEF s
  <2>5. retry' \in Int /\ retry' = IF ready' THEN n - 1 - b ELSE n - 1
    BY <2>2, <2>3, <2>4, Zenon
  <2>6. AskedSince'
    BY <1>1, <1>5, <2>1, <2>5 DEF AskedSince
  <2>7. Identified'
    BY <2>1 DEF Ask, ReadyInv, Identified
  <2>8. QED
    BY <2>6, <2>7 DEF ReadyInv
<1>7. CASE ~ready' /\ r # 0
  <2>1. sd_step' = sd_step
    BY <1>2, <1>7 DEF Ask
  <2>2. retry' = (r - 1) % n
    BY <1>5, <1>7, Zenon
  <2>3. (r - 1) % n = r - 1
    BY <1>3, <1>7
  <2>4. r - 1 \in Int /\ r - 1 >= 0 /\ r - 1 = n - 2 - b
    BY <1>2, <1>4, <1>7
  <2>5. retry' \in Int /\ retry' >= 0 /\ retry' = n - 2 - b
    BY <2>2, <2>3, <2>4
  <2>6. AskedSince'
    BY <1>1, <1>5, <2>1, <2>5 DEF AskedSince
  <2>7. Identified'
    BY <1>5, <1>7, <2>1 DEF Ask, ReadyInv, Identified
  <2>8. QED
    BY <2>6, <2>7 DEF ReadyInv
<1>8. QED
  BY <1>6, <1>7

LEMMA UsedStep ==
  ASSUME ReadyInv, UNCHANGED Setup,
         sd_step \notin {"cmd8", "wait v2", "cmd58", "probe", "wait", "cmd16", "failed"},
         sd_step' \notin {"cmd8", "wait v2", "cmd58", "probe", "wait", "cmd16", "failed"}
  PROVE  ReadyInv'
BY DEF ReadyInv, AskedSince, Identified, Setup

LEMMA ReadyStep == ReadyInv /\ [CardNext]_card_vars => ReadyInv'
<1> SUFFICES ASSUME ReadyInv, [CardNext]_card_vars PROVE ReadyInv'
  OBVIOUS
<1>1. RetryValues \in Int /\ RetryValues >= 3
  BY SdCardAssumption
<1>2. CASE InterfaceCondition
  <2>1. /\ UNCHANGED <<card, ready, SD_TYPE, attempts>>
        /\ SD_TYPE = "none" /\ ~ready /\ attempts = 0 /\ card \in Cards
    BY <1>2 DEF InterfaceCondition, ReadyInv, AskedSince, Identified
  <2>2. sd_step' \in {"wait v2", "probe", "failed"}
    BY <1>2, <2>1 DEF InterfaceCondition, Cards
  <2>3. retry' = RetryValues - 2
    BY <1>2 DEF InterfaceCondition
  <2>4. AskedSince'
    <3>1. attempts' \in Nat /\ attempts' = 0
      BY <2>1
    <3>2. RetryValues - 2 \in Int /\ RetryValues - 2 >= 0 /\ RetryValues - 2 - 0 = RetryValues - 2
      BY <1>1
    <3>3. /\ retry' \in Int /\ retry' >= 0
          /\ retry' = RetryValues - 2 /\ retry' = RetryValues - 2 - attempts'
      BY <2>3, <3>1, <3>2, Zenon
    <3>4. sd_step' \notin {"cmd8", "wait", "cmd58", "cmd16"}
      BY <2>2
    <3>5. QED
      BY <3>1, <3>3, <3>4 DEF AskedSince
  <2>5. Identified'
    BY <2>1, <2>2 DEF Identified
  <2>6. QED
    BY <2>4, <2>5 DEF ReadyInv
<1>3. CASE Probe
  BY <1>1, <1>3 DEF Probe, ReadyInv, AskedSince, Identified, Cards
<1>4. CASE Ask
  BY <1>4, AskStep
<1>5. CASE ReadOcr
  BY <1>1, <1>5 DEF ReadOcr, ReadyInv, AskedSince, Identified, Cards
<1>6. CASE SetBlockLength
  BY <1>1, <1>6 DEF SetBlockLength, ReadyInv, AskedSince, Identified, Cards
<1>7. CASE \E count \in 1 .. MaxCount : disk_write(count) \/ disk_read(count)
  BY <1>7, UsedStep DEF disk_write, disk_read
<1>8. CASE sdcard_write_disk \/ sdcard_read_disk \/ Report
  BY <1>8, UsedStep DEF sdcard_write_disk, sdcard_read_disk, Command, WriteOne, WriteMany,
                        StopWriting, ReadOne, ReadMany, StopReading, Report
<1>9. CASE UNCHANGED card_vars
  BY <1>9 DEF card_vars, ReadyInv, AskedSince, Identified
<1>10. QED
  BY <1>2, <1>3, <1>4, <1>5, <1>6, <1>7, <1>8, <1>9 DEF CardNext, sdcard_config

(* For every card, limit of attempts and count: what is used is ready, and *)
(* a card that became ready is given up only at the last attempt.          *)
THEOREM CardKept == CardSpec => []CardRight
<1>1. CardInit => ReadyInv
  BY SdCardAssumption DEF CardInit, ReadyInv, AskedSince, Identified
<1>2. ReadyInv => ReadyWhenUsed
  BY DEF ReadyInv, Identified, ReadyWhenUsed
<1>3. ReadyWhenUsed /\ ReportedIsMoved => CardRight
  BY DEF CardRight
<1>4. QED
  BY <1>1, <1>2, <1>3, ReadyStep, SuccessIsComplete, PTL DEF CardSpec

(* A card that is asked anything after CMD8 knows it or the command CMD41. *)
DriverTypes ==
  /\ ready \in BOOLEAN /\ SD_TYPE \in Types /\ sd_step \in Steps
  /\ retry \in 0 .. RetryValues - 1 /\ result \in 0 .. 2
  /\ sd_step \in {"wait v2", "cmd58", "probe", "wait", "cmd16"} => card # "old"

LEMMA DriverTypesStep ==
  ASSUME DriverTypes, card \in Cards, [CardNext]_card_vars PROVE DriverTypes'
<1>1. card' = card
  BY CardStays
<1>2. CASE InterfaceCondition
  <2>1. PICK n \in Nat : n = RetryValues /\ n >= 3
    BY SdCardAssumption
  <2>2. retry' \in 0 .. RetryValues - 1
    <3>1. retry' = RetryValues - 2
      BY <1>2, Zenon DEF InterfaceCondition
    <3>2. QED
      BY <2>1, <3>1
  <2>3. sd_step' \in {"wait v2", "probe", "failed"} /\ (sd_step' # "failed" => card # "old")
    BY <1>2 DEF InterfaceCondition, Cards
  <2>4. UNCHANGED <<ready, SD_TYPE, result>>
    BY <1>2 DEF InterfaceCondition, Transferring
  <2>5. QED
    BY <1>1, <2>2, <2>3, <2>4 DEF DriverTypes, Steps
<1>3. CASE Probe
  <2>1. SD_TYPE' \in Types
    BY <1>3 DEF Probe, DriverTypes, Cards, Types
  <2>2. ready' \in BOOLEAN /\ sd_step' \in Steps /\ UNCHANGED <<retry, result>>
    BY <1>3 DEF Probe, Transferring, Steps
  <2>3. QED
    BY <1>1, <1>3, <2>1, <2>2 DEF Probe, DriverTypes
<1>4. CASE Ask
  <2>1. PICK n \in Nat : n = RetryValues /\ n >= 3
    BY SdCardAssumption
  <2>2. PICK r \in 0 .. n - 1 : r = retry
    BY <2>1 DEF DriverTypes
  <2>3. (r - 1) % n \in 0 .. n - 1
    BY <2>1, CountDown
  <2>4. retry' \in 0 .. RetryValues - 1
    BY <1>4, <2>1, <2>2, <2>3 DEF Ask
  <2>5. ready' \in BOOLEAN
    BY <1>4 DEF Ask, DriverTypes
  <2>6. sd_step' \in {"wait v2", "wait", "cmd58", "cmd16"}
    BY <1>4 DEF Ask
  <2>7. QED
    BY <1>1, <1>4, <2>4, <2>5, <2>6 DEF Ask, Transferring, DriverTypes, Steps
<1>5. CASE ReadOcr \/ SetBlockLength
  BY <1>1, <1>5 DEF ReadOcr, SetBlockLength, Transferring, DriverTypes, Steps, Types, Cards
<1>6. ASSUME UNCHANGED Setup, result' \in 0 .. 2,
             sd_step' \in {"cmd24", "cmd25", "cmd17", "cmd18", "block", "blocks", "stop",
                          "sector", "sectors", "cmd12", "done", "idle"}
      PROVE  DriverTypes'
  BY <1>6 DEF Setup, DriverTypes, Steps
<1>7. CASE \E count \in 1 .. MaxCount : disk_write(count) \/ disk_read(count)
  <2>1. UNCHANGED Setup /\ result' = result
        /\ sd_step' \in {"cmd24", "cmd25", "cmd17", "cmd18"}
    BY <1>7 DEF disk_write, disk_read
  <2>2. result' \in 0 .. 2
    BY <2>1 DEF DriverTypes
  <2>3. QED
    BY <1>6, <2>1, <2>2
<1>8. CASE Command
  <2>1. UNCHANGED Setup /\ result' \in {0, 1}
    BY <1>8 DEF Command
  <2>2. sd_step' \in {"sectors", "done", "block", "blocks", "sector"}
    BY <1>8 DEF Command
  <2>3. QED
    BY <1>6, <2>1, <2>2
<1>9. CASE WriteOne \/ WriteMany \/ StopWriting
  <2>1. UNCHANGED Setup /\ result' \in {0, 2} /\ sd_step' \in {"done", "blocks", "stop"}
    BY <1>9 DEF WriteOne, WriteMany, WriteBlock, StopWriting
  <2>2. QED
    BY <1>6, <2>1
<1>10. CASE ReadOne \/ ReadMany \/ StopReading \/ Report
  <2>1. UNCHANGED Setup /\ result' \in {0, result}
        /\ sd_step' \in {"done", "sectors", "cmd12", "idle"}
    BY <1>10 DEF ReadOne, ReadMany, StopReading, Report
  <2>2. result' \in 0 .. 2
    <3>1. PICK r \in 0 .. 2 : r = result
      BY DEF DriverTypes
    <3>2. result' = 0 \/ result' = r
      BY <2>1, <3>1
    <3>3. QED
      BY <3>2
  <2>3. QED
    BY <1>6, <2>1, <2>2
<1>11. CASE UNCHANGED card_vars
  BY <1>11 DEF card_vars, Transferring, DriverTypes
<1>12. QED
  BY <1>2, <1>3, <1>4, <1>5, <1>7, <1>8, <1>9, <1>10, <1>11
     DEF CardNext, sdcard_config, sdcard_write_disk, sdcard_read_disk

(* The driver keeps to its types: retry and cnt to the widths they have in *)
(* the code, and no more sectors are moved than the largest transfer has.  *)
THEOREM CardTypes == CardSpec => []CardTypeOK
<1> DEFINE WantedFits == wanted \in 0 .. MaxCount
<1>1. CardInit => DriverTypes /\ WantedFits
  <2> SUFFICES ASSUME CardInit PROVE DriverTypes /\ WantedFits
    OBVIOUS
  <2>1. 0 \in 0 .. RetryValues - 1 /\ 0 \in 0 .. MaxCount /\ 0 \in 0 .. 2
    BY SdCardAssumption
  <2>2. WantedFits
    BY <2>1 DEF CardInit
  <2>3. ready = FALSE /\ SD_TYPE = "none" /\ sd_step = "cmd8"
        /\ retry \in 0 .. RetryValues - 1 /\ result \in 0 .. 2
    BY <2>1 DEF CardInit
  <2>4. DriverTypes
    BY <2>3 DEF DriverTypes, Types, Steps
  <2>5. QED
    BY <2>2, <2>4
<1>2. CardInv /\ DriverTypes /\ [CardNext]_card_vars => DriverTypes'
  BY DriverTypesStep DEF CardInv
<1>3. WantedFits /\ [CardNext]_card_vars => WantedFits'
  <2> SUFFICES ASSUME WantedFits, [CardNext]_card_vars PROVE WantedFits'
    OBVIOUS
  <2>1. wanted' = wanted \/ wanted' \in 1 .. MaxCount \/ wanted' = 0
    BY DEF CardNext, card_vars, Transferring, sdcard_config, InterfaceCondition, Probe, Ask,
           ReadOcr, SetBlockLength, disk_write, disk_read, sdcard_write_disk, sdcard_read_disk,
           Command, WriteOne, WriteMany, StopWriting, ReadOne, ReadMany, StopReading, Report
  <2>2. MaxCount \in Nat
    BY SdCardAssumption
  <2>3. QED
    BY <2>1, <2>2
<1>4. CardInv /\ DriverTypes /\ WantedFits => CardTypeOK
  <2> SUFFICES ASSUME CardInv, DriverTypes, WantedFits PROVE CardTypeOK
    OBVIOUS
  <2>1. moved \in 0 .. MaxCount
    BY SdCardAssumption DEF CardInv, TransferInv, Counts, Ended
  <2>2. QED
    BY <2>1 DEF CardInv, TransferInv, Counts, DriverTypes, CardTypeOK
<1> HIDE DEF WantedFits
<1>5. QED
  BY <1>1, <1>2, <1>3, <1>4, TransferInit, CardStep, PTL DEF CardSpec

-----------------------------------------------------------------------------
(* The servo.  last_angle stays where it was, so that what is asked for is *)
(* limited and nothing else.                                               *)
SteerInv == last_angle = SERVO_MID_POINT /\ SteersRight

LEMMA Servo ==
  SERVO_MID_POINT \in Nat /\ MAX_DECLINATION_ANGLE \in Nat /\ Asked \subseteq Int
BY SteeringAssumption, SMTT(60)

LEMMA LimitedRight ==
  ASSUME NEW servo \in Int
  PROVE  /\ Distance(Limited(servo), SERVO_MID_POINT) <= MAX_DECLINATION_ANGLE
         /\ Limited(servo) = Smaller(Larger(servo, SERVO_MID_POINT - MAX_DECLINATION_ANGLE),
                                     SERVO_MID_POINT + MAX_DECLINATION_ANGLE)
BY Servo DEF Limited, Distance, Smaller, Larger

LEMMA EightBits ==
  ASSUME NEW a \in Int PROVE a % 256 \in Int /\ (a \in 0 .. 255 => a % 256 = a)
OBVIOUS

LEMMA SteerStart == SteerInit => SteerInv
BY Servo DEF SteerInit, SteerInv, SteersRight, Distance, Smaller, Larger

LEMMA SteerStep == SteerInv /\ [lqr_control]_steer_vars => SteerInv'
<1> SUFFICES ASSUME SteerInv, [lqr_control]_steer_vars PROVE SteerInv'
  OBVIOUS
<1>1. CASE lqr_control
  <2>1. PICK a \in Int : a = asked'
    BY <1>1, Servo DEF lqr_control
  <2>2. angle' = Limited(a % 256) /\ last_angle' = SERVO_MID_POINT
    BY <1>1, <2>1, Servo DEF lqr_control, SteerInv, Accelerated
  <2>3. a % 256 \in Int /\ (a \in 0 .. 255 => a % 256 = a)
    BY EightBits
  <2>4. SteersRight'
    BY <2>1, <2>2, <2>3, LimitedRight DEF SteersRight, Distance, Smaller, Larger
  <2>5. QED
    BY <2>2, <2>4 DEF SteerInv
<1>2. CASE UNCHANGED steer_vars
  BY <1>2 DEF steer_vars, SteerInv, SteersRight
<1>3. QED
  BY <1>1, <1>2

(* For every middle, stop and angle asked for: the servo stays between its *)
(* stops, and goes where it is asked to unless eight bits do not hold it.  *)
THEOREM ServoFollows == SteerSpec => []SteersRight
<1>1. SteerInit => SteerInv
  BY SteerStart
<1>2. SteerInv => SteersRight
  BY DEF SteerInv
<1>3. QED
  BY <1>1, <1>2, SteerStep, PTL DEF SteerSpec
-----------------------------------------------------------------------------
(* The divisor along the track.                                            *)
LEMMA WholeSteps ==
  ASSUME NEW t \in Nat \ {0}, NEW d \in Nat, d % t = 0
  PROVE  d \div t \in Nat /\ d = t * (d \div t)
OBVIOUS

(* Of the assumptions, what is needed of the track.                        *)
LEMMA Track ==
  /\ P1 \in Int /\ P2 \in Int /\ P3 \in Int /\ P4 \in Int
  /\ TRANSITION_SECTION \in Int /\ 0 < TRANSITION_SECTION /\ TRANSITION_SECTION <= 65535
  /\ TRANSITION_SECTION < P1 /\ P1 < P2
  /\ P2 + TRANSITION_SECTION + TRANSITION_SECTION < P3 /\ P3 < P4
BY SteeringAssumption, SMTT(60)

LEMMA SlopeFacts ==
  Slope \in Nat /\ CurvesRate = StraightRate + TRANSITION_SECTION * Slope
<1>1. PICK d \in Nat : d = CurvesRate - StraightRate
  BY SlopeAssumption
<1>2. d % TRANSITION_SECTION = 0 /\ TRANSITION_SECTION \in Nat \ {0}
  <2>1. TRANSITION_SECTION \in Nat \ {0}
    BY Track
  <2>2. d % TRANSITION_SECTION = 0
    BY <1>1, SlopeAssumption
  <2>3. QED
    BY <2>1, <2>2
<1>3. Slope \in Nat /\ d = TRANSITION_SECTION * Slope
  BY <1>1, <1>2, WholeSteps DEF Slope
<1>4. QED
  BY <1>1, <1>3, SlopeAssumption

(* Multiples of a step, of which only these facts are used.                *)
Times(k) == k * Slope

LEMMA NextMultiple ==
  ASSUME NEW k \in Int PROVE Times(k) \in Int /\ Times(k + 1) = Times(k) + Slope
<1>1. \A s \in Int : k * s \in Int /\ (k + 1) * s = k * s + s
  OBVIOUS
<1>2. QED
  BY <1>1, SlopeFacts DEF Times

LEMMA AllSteps ==
  /\ Times(0) = 0 /\ Times(1) = Slope
  /\ CurvesRate = StraightRate + Times(TRANSITION_SECTION)
<1>1. \A s \in Int : 0 * s = 0 /\ 1 * s = s
  OBVIOUS
<1>2. QED
  BY <1>1, SlopeFacts DEF Times

(* From a value to the same or to the next one.                            *)
LEMMA NotFar ==
  ASSUME NEW a \in Int, NEW b \in Int, NEW s \in Nat, a = b \/ a = b + s \/ b = a + s
  PROVE  Distance(a, b) <= s
BY DEF Distance, Smaller, Larger

Rates ==
  Slope \in Nat /\ StraightRate \in Int /\ CurvesRate \in Int

LEMMA RatesOK == Rates
BY SlopeFacts, SlopeAssumption DEF Rates

LEMMA BeforeFirstStep ==
  ASSUME NEW i \in Nat PROVE Distance(BeforeFirst(i), BeforeFirst(i + 1)) <= Slope
<1>1. PICK k \in Int : k = i - (P1 - TRANSITION_SECTION)
  BY Track
<1>2. i + 1 - (P1 - TRANSITION_SECTION) = k + 1
  BY <1>1, Track
<1>3. /\ BeforeFirst(i) = IF k > 0 THEN StraightRate + Times(k) ELSE StraightRate
      /\ BeforeFirst(i + 1) = IF k + 1 > 0 THEN StraightRate + Times(k + 1) ELSE StraightRate
  BY <1>1, <1>2, Track DEF BeforeFirst, Times
<1>4. /\ Times(k) \in Int /\ Times(k + 1) = Times(k) + Slope
      /\ k = 0 => Times(k + 1) = Slope
  BY NextMultiple, AllSteps
<1>5. k > 0 \/ k = 0 \/ k < 0
  OBVIOUS
<1>6. QED
  BY <1>3, <1>4, <1>5, RatesOK DEF Rates, Distance, Smaller, Larger

LEMMA OnStraightIs ==
  ASSUME NEW n \in Nat, NEW k \in Int, NEW j \in Int,
         k = n - P2, j = n - (P3 - TRANSITION_SECTION)
  PROVE  OnStraight(n) = IF k < TRANSITION_SECTION THEN CurvesRate - Times(k)
                         ELSE IF j > 0 THEN StraightRate + Times(j) ELSE StraightRate
<1>1. /\ n < P2 + TRANSITION_SECTION <=> k < TRANSITION_SECTION
      /\ n > P3 - TRANSITION_SECTION <=> j > 0
  BY Track
<1>2. (n - P2) * Slope = Times(k) /\ (n - (P3 - TRANSITION_SECTION)) * Slope = Times(j)
  BY DEF Times
<1>3. QED
  BY <1>1, <1>2 DEF OnStraight

LEMMA OnStraightStep ==
  ASSUME NEW i \in Nat, i > P2 PROVE Distance(OnStraight(i), OnStraight(i + 1)) <= Slope
<1>1. PICK k \in Int, j \in Int : k = i - P2 /\ j = i - (P3 - TRANSITION_SECTION)
  BY Track
<1>2. k + 1 = (i + 1) - P2 /\ j + 1 = (i + 1) - (P3 - TRANSITION_SECTION)
  BY <1>1, Track
<1>3. OnStraight(i) = IF k < TRANSITION_SECTION THEN CurvesRate - Times(k)
                      ELSE IF j > 0 THEN StraightRate + Times(j) ELSE StraightRate
  BY <1>1, OnStraightIs
<1>4. OnStraight(i + 1) = IF k + 1 < TRANSITION_SECTION THEN CurvesRate - Times(k + 1)
                          ELSE IF j + 1 > 0 THEN StraightRate + Times(j + 1)
                          ELSE StraightRate
  <2>1. i + 1 \in Nat /\ k + 1 \in Int /\ j + 1 \in Int
    OBVIOUS
  <2>2. QED
    BY <1>2, <2>1, OnStraightIs
<1>5. /\ Times(k) \in Int /\ Times(k + 1) = Times(k) + Slope
      /\ Times(j) \in Int /\ Times(j + 1) = Times(j) + Slope
      /\ j = 0 => Times(j + 1) = Slope
      /\ k + 1 = TRANSITION_SECTION => CurvesRate = StraightRate + Times(k + 1)
  BY NextMultiple, AllSteps
<1>6. k <= TRANSITION_SECTION => j + 1 <= 0
  BY <1>1, Track
<1>7. TRANSITION_SECTION \in Int
  BY Track
<1>8. CASE k + 1 < TRANSITION_SECTION
  BY <1>3, <1>4, <1>5, <1>7, <1>8, RatesOK DEF Rates, Distance, Smaller, Larger
<1>9. CASE k + 1 = TRANSITION_SECTION
  BY <1>3, <1>4, <1>5, <1>6, <1>7, <1>9, RatesOK DEF Rates, Distance, Smaller, Larger
<1>10. CASE k + 1 > TRANSITION_SECTION
  BY <1>3, <1>4, <1>5, <1>7, <1>10, RatesOK DEF Rates, Distance, Smaller, Larger
<1>11. QED
  BY <1>7, <1>8, <1>9, <1>10

LEMMA SixteenBits ==
  ASSUME NEW k \in Nat, k <= 65535 PROVE k % 65536 = k
OBVIOUS

LEMMA AfterLastIs ==
  ASSUME NEW n \in Nat, NEW k \in Nat, k = n - P4
  PROVE  AfterLast(n) = IF k < TRANSITION_SECTION THEN CurvesRate - Times(k) ELSE StraightRate
<1>1. n < P4 + TRANSITION_SECTION <=> k < TRANSITION_SECTION
  BY Track
<1>2. k < TRANSITION_SECTION => (n - P4) % 65536 = k
  <2>1. k < TRANSITION_SECTION => k <= 65535
    BY Track
  <2>2. k < TRANSITION_SECTION => k % 65536 = k
    BY <2>1, SixteenBits
  <2>3. n - P4 = k
    OBVIOUS
  <2>4. QED
    BY <2>2, <2>3
<1>3. k < TRANSITION_SECTION => ((n - P4) % 65536) * Slope = Times(k)
  BY <1>2 DEF Times
<1>4. QED
  BY <1>1, <1>3 DEF AfterLast

LEMMA AfterLastStep ==
  ASSUME NEW i \in Nat, i >= P4 PROVE Distance(AfterLast(i), AfterLast(i + 1)) <= Slope
<1>1. PICK k \in Nat : k = i - P4
  BY Track
<1>2. AfterLast(i) = IF k < TRANSITION_SECTION THEN CurvesRate - Times(k) ELSE StraightRate
  BY <1>1, AfterLastIs
<1>3. AfterLast(i + 1) = IF k + 1 < TRANSITION_SECTION THEN CurvesRate - Times(k + 1)
                         ELSE StraightRate
  <2>1. i + 1 \in Nat /\ k + 1 \in Nat /\ k + 1 = (i + 1) - P4
    BY <1>1, Track
  <2>2. QED
    BY <2>1, AfterLastIs
<1>4. /\ Times(k) \in Int /\ Times(k + 1) = Times(k) + Slope
      /\ k + 1 = TRANSITION_SECTION => CurvesRate = StraightRate + Times(k + 1)
  BY NextMultiple, AllSteps
<1>5. TRANSITION_SECTION \in Int
  BY Track
<1>6. QED
  BY <1>2, <1>3, <1>4, <1>5, RatesOK DEF Rates, Distance, Smaller, Larger

LEMMA Branches ==
  ASSUME NEW n \in Nat
  PROVE  /\ n < P1 => Divisor(n) = BeforeFirst(n)
         /\ n > P1 /\ n < P2 => Divisor(n) = CurvesRate
         /\ n > P2 /\ n < P3 => Divisor(n) = OnStraight(n)
         /\ n > P3 /\ n < P4 => Divisor(n) = CurvesRate
         /\ n >= P4 => Divisor(n) = AfterLast(n)
<1>1. Curve(n) <=> (n > P1 /\ n < P2) \/ (n > P3 /\ n < P4)
  BY Track DEF Curve
<1>2. Straight(n) <=> n > P2 /\ n < P3
  BY Track DEF Straight
<1>3. ASSUME n < P1 PROVE Divisor(n) = BeforeFirst(n)
  <2>1. ~Curve(n) /\ ~Straight(n)
    BY <1>1, <1>2, <1>3, Track
  <2>2. QED
    BY <1>3, <2>1 DEF Divisor
<1>4. ASSUME Curve(n) PROVE Divisor(n) = CurvesRate
  <2>1. ~(n < P1) /\ ~Straight(n)
    BY <1>1, <1>2, <1>4, Track
  <2>2. QED
    BY <1>4, <2>1 DEF Divisor
<1>5. ASSUME Straight(n) PROVE Divisor(n) = OnStraight(n)
  <2>1. ~(n < P1) /\ ~Curve(n)
    BY <1>1, <1>2, <1>5, Track
  <2>2. QED
    BY <1>5, <2>1 DEF Divisor
<1>6. ASSUME n >= P4 PROVE Divisor(n) = AfterLast(n)
  <2>1. ~(n < P1) /\ ~Curve(n) /\ ~Straight(n)
    BY <1>1, <1>2, <1>6, Track
  <2>2. QED
    BY <2>1 DEF Divisor
<1>7. QED
  BY <1>1, <1>2, <1>3, <1>4, <1>5, <1>6

LEMMA DivisorStep ==
  ASSUME NEW i \in Nat, {i, i + 1} \cap {P1, P2, P3} = {}
  PROVE  Distance(Divisor(i), Divisor(i + 1)) <= Slope
<1>1. i \notin {P1, P2, P3} /\ i + 1 \notin {P1, P2, P3}
  <2>1. \A m : {i, m} \cap {P1, P2, P3} = {} => i \notin {P1, P2, P3} /\ m \notin {P1, P2, P3}
    OBVIOUS
  <2>2. QED
    BY <2>1
<1>2. PICK m \in Nat : m = i + 1 /\ m \notin {P1, P2, P3}
  BY <1>1
<1>3. CASE i < P1
  <2>1. Divisor(i) = BeforeFirst(i) /\ Divisor(m) = BeforeFirst(m)
    BY <1>2, <1>3, Branches, Track
  <2>2. QED
    BY <1>2, <2>1, BeforeFirstStep
<1>4. CASE (i > P1 /\ i < P2) \/ (i > P3 /\ m < P4)
  <2>1. Divisor(i) = CurvesRate /\ Divisor(m) = CurvesRate
    BY <1>2, <1>4, Branches, Track
  <2>2. QED
    BY <1>2, <2>1, RatesOK, NotFar DEF Rates
<1>5. CASE i > P2 /\ i < P3
  <2>1. Divisor(i) = OnStraight(i) /\ Divisor(m) = OnStraight(m)
    BY <1>2, <1>5, Branches, Track
  <2>2. QED
    BY <1>2, <1>5, <2>1, OnStraightStep
<1>6. CASE i > P3 /\ m = P4
  <2>1. Divisor(i) = CurvesRate /\ Divisor(m) = AfterLast(m)
    BY <1>2, <1>6, Branches, Track
  <2>2. AfterLast(m) = CurvesRate - Times(0)
    <3>1. 0 \in Nat /\ 0 = m - P4 /\ 0 < TRANSITION_SECTION
      BY <1>6, Track
    <3>2. QED
      BY <3>1, AfterLastIs
  <2>3. AfterLast(m) = CurvesRate
    BY <2>2, AllSteps, RatesOK DEF Rates
  <2>4. QED
    BY <1>2, <2>1, <2>3, RatesOK, NotFar DEF Rates
<1>7. CASE i >= P4
  <2>1. Divisor(i) = AfterLast(i) /\ Divisor(m) = AfterLast(m)
    BY <1>2, <1>7, Branches, Track
  <2>2. QED
    BY <1>2, <1>7, <2>1, AfterLastStep
<1>8. QED
  BY <1>1, <1>2, <1>3, <1>4, <1>5, <1>6, <1>7, Track

(* For every track and every angle asked for: the servo follows, and what  *)
(* weakens the feedback changes by steps of the transition.                *)
THEOREM ServoSteady == SteerSpec => []ServoRight
<1> DEFINE Inv == SteerInv /\ steer_index \in Nat
<1>1. SteerInit => Inv
  BY SteerStart, Track DEF SteerInit
<1>2. Inv /\ [lqr_control]_steer_vars => Inv'
  BY SteerStep DEF lqr_control, steer_vars
<1>3. Inv => ServoRight
  BY DivisorStep DEF SteerInv, ServoRight, ChangesSlowly
<1>4. QED
  BY <1>1, <1>2, <1>3, PTL DEF SteerSpec
-----------------------------------------------------------------------------
(* The mean of the samples, for every Burst, as long as a short is wide    *)
(* enough for the packets between two calls.                               *)
AverageTypes ==
  /\ pc \in {"away", "divide", "clear"}
  /\ divisor \in Int /\ dividend \in Int

AverageInv == AverageTypes /\ BalanceInv /\ MeanOfCounted

LEMMA AverageInit == Init => AverageInv
BY SensorAssumption DEF Init, AverageInv, AverageTypes, BalanceInv, MeanOfCounted, NumIsReceived

LEMMA AverageStep ==
  ASSUME MaxPackets + 2 * Burst < ShortMax, AverageInv, [Next]_vars
  PROVE  AverageInv'
<1> USE SensorAssumption DEF AverageInv, AverageTypes, BalanceInv, MeanOfCounted, NumIsReceived
<1>1. CASE Add
  <2>1. num < ShortMax /\ num' = num + 1
    BY <1>1 DEF Add, Incremented
  <2>2. pc = "away" => received' <= MaxPackets
    BY <1>1 DEF Add
  <2>3. QED
    BY <1>1, <2>1, <2>2 DEF Add
<1>2. CASE Test
  BY <1>2 DEF Test
<1>3. CASE Divide
  BY <1>3 DEF Divide
<1>4. CASE Clear
  BY <1>4 DEF Clear
<1>5. CASE Return
  BY <1>5 DEF Return
<1>6. CASE UNCHANGED vars
  BY <1>6 DEF vars
<1>7. QED
  BY <1>1, <1>2, <1>3, <1>4, <1>5, <1>6 DEF Next, sensor_unit_conversion

(* However the packets fall into the calls of sensor_unit_conversion, a    *)
(* mean is taken over the samples counted but for those of two calls.      *)
THEOREM MeanIsRight ==
  ASSUME MaxPackets + 2 * Burst < ShortMax
  PROVE  Spec => []MeanOfCounted
<1>1. AverageInv => MeanOfCounted
  BY DEF AverageInv
<1>2. QED
  BY <1>1, AverageInit, AverageStep, PTL DEF Spec

(* num is the number of packets received since it was cleared, as its      *)
(* comment in sensor_decode.h says, if so few come between two calls.      *)
THEOREM CountIsRight ==
  ASSUME MaxPackets + 2 * Burst < ShortMax
  PROVE  Spec => []NumIsReceived
<1>1. AverageInv => NumIsReceived
  BY DEF AverageInv, BalanceInv
<1>2. QED
  BY <1>1, AverageInit, AverageStep, PTL DEF Spec

(* What the accumulator and the samples counted differ by, in every state. *)
THEOREM BalanceKept ==
  ASSUME MaxPackets + 2 * Burst < ShortMax
  PROVE  Spec => []BalanceInv
<1>1. AverageInv => BalanceInv
  BY DEF AverageInv
<1>2. QED
  BY <1>1, AverageInit, AverageStep, PTL DEF Spec
-----------------------------------------------------------------------------
(* The theorems on induction of the library are about any formula, which   *)
(* no prover here can instantiate; a set of numbers will do.               *)
LEMMA Induction ==
  ASSUME NEW S, 0 \in S, \A n \in Nat : n \in S => n + 1 \in S
  PROVE  Nat \subseteq S
<1> DEFINE R == {ss \in Nat \X Nat : ss[1] < ss[2]}
<1>1. IsWellFoundedOn(R, Nat)
  BY NatLessThanWellFounded DEF OpToRel
<1>2. SUFFICES ASSUME Nat \ S # {} PROVE FALSE
  OBVIOUS
<1>3. PICK x \in Nat \ S : \A y \in Nat \ S : ~(<<y, x>> \in R)
  <2>1. Nat \ S \subseteq Nat
    OBVIOUS
  <2>2. \E x \in Nat \ S : \A y \in Nat \ S : ~(<<y, x>> \in R)
    BY <1>1, <1>2, <2>1, WFMin
  <2>3. QED
    BY <2>2
<1>4. x # 0 /\ x - 1 \in Nat
  BY <1>3
<1>5. <<x - 1, x>> \in R
  BY <1>4
<1>6. x - 1 \in S
  BY <1>3, <1>4, <1>5
<1>7. (x - 1) + 1 \in S
  BY <1>4, <1>6
<1>8. QED
  BY <1>3, <1>7

(* A recursion over the numbers up to n has a result.                      *)
LEMMA Recursion ==
  ASSUME NEW S, NEW a \in S, NEW n \in Nat, NEW T \in [1 .. n -> [S -> S]]
  PROVE  \E g \in [0 .. n -> S] : g[0] = a /\ \A k \in 1 .. n : g[k] = T[k][g[k - 1]]
<1> DEFINE Defines(g, m) == g[0] = a /\ \A k \in 1 .. m : g[k] = T[k][g[k - 1]]
           Good == {m \in Nat : m <= n => \E g \in [0 .. m -> S] : Defines(g, m)}
<1>1. 0 \in Good
  <2>1. Defines([k \in 0 .. 0 |-> a], 0)
    OBVIOUS
  <2>2. QED
    BY <2>1
<1>2. ASSUME NEW m \in Nat, m \in Good PROVE m + 1 \in Good
  <2> SUFFICES ASSUME m + 1 <= n PROVE \E g \in [0 .. m + 1 -> S] : Defines(g, m + 1)
    OBVIOUS
  <2>1. PICK g \in [0 .. m -> S] : Defines(g, m)
    BY <1>2
  <2> DEFINE h == [k \in 0 .. m + 1 |-> IF k = m + 1 THEN T[m + 1][g[m]] ELSE g[k]]
  <2>2. T[m + 1] \in [S -> S] /\ g[m] \in S
    BY <2>1
  <2>3. h \in [0 .. m + 1 -> S]
    BY <2>1, <2>2
  <2>4. \A k \in 1 .. m + 1 : h[k] = T[k][h[k - 1]]
    <3> SUFFICES ASSUME NEW k \in 1 .. m + 1 PROVE h[k] = T[k][h[k - 1]]
      OBVIOUS
    <3>1. CASE k = m + 1
      BY <3>1
    <3>2. CASE k # m + 1
      <4>1. k \in 1 .. m /\ k \in 0 .. m /\ k - 1 \in 0 .. m
        BY <3>2
      <4>2. g[k] = T[k][g[k - 1]]
        BY <2>1, <4>1
      <4>3. h[k] = g[k] /\ h[k - 1] = g[k - 1]
        BY <3>2, <4>1
      <4>4. QED
        BY <4>2, <4>3
    <3>3. QED
      BY <3>1, <3>2
  <2>5. h[0] = a
    BY <2>1
  <2> HIDE DEF h
  <2>6. QED
    BY <2>3, <2>4, <2>5
<1>3. n \in Good
  <2> HIDE DEF Good
  <2>1. QED
    BY <1>1, <1>2, Induction
<1>4. QED
  BY <1>3

-----------------------------------------------------------------------------
(* The packets of the motor.  The crc is a function of two bytes.          *)
CrcOf(high, low) == Crc!verification_crc8(<<high, low>>)

(* The inner loop of the crc.                                              *)
LEMMA CrcSteps ==
  ASSUME NEW x \in SdtpByte
  PROVE  \E g \in [0 .. 8 -> SdtpByte] :
           /\ g[0] = x /\ \A k \in 1 .. 8 : g[k] = Crc!CrcShift(g[k - 1])
           /\ \A crc, byte : Crc!Xor(crc, byte) = x => Crc!CrcByte(crc, byte) = g[8]
<1> DEFINE S == SdtpByte
           T == [k \in 1 .. 8 |-> [c \in S |-> Crc!CrcShift(c)]]
           F(g) == [k \in 0 .. 8 |-> IF k = 0 THEN x ELSE Crc!CrcShift(g[k - 1])]
<1>1. \A c \in S : Crc!CrcShift(c) \in S
  BY DEF Crc!CrcShift, Crc!Shifted, Crc!Xor, Crc!Bit, SdtpByte
<1>2. T \in [1 .. 8 -> [S -> S]] /\ x \in S /\ 8 \in Nat
  BY <1>1
<1>3. \A k \in 1 .. 8, c \in S : T[k][c] = Crc!CrcShift(c)
  OBVIOUS
<1> HIDE DEF T, S
<1>4. PICK h \in [0 .. 8 -> S] : h[0] = x /\ \A k \in 1 .. 8 : h[k] = T[k][h[k - 1]]
  <2>1. ASSUME NEW n \in Nat, n = 8
        PROVE  \E h \in [0 .. n -> S] : h[0] = x /\ \A k \in 1 .. n : h[k] = T[k][h[k - 1]]
    <3>1. x \in S /\ T \in [1 .. n -> [S -> S]]
      BY <1>2, <2>1
    <3>2. QED
      BY <3>1, Recursion
  <2>2. QED
    BY <2>1
<1>5. h = F(h)
  <2>1. \A k \in 0 .. 8 : h[k] = F(h)[k]
    BY <1>2, <1>3, <1>4
  <2>2. h = [k \in 0 .. 8 |-> h[k]]
    OBVIOUS
  <2>3. QED
    BY <2>1, <2>2
<1> DEFINE g == CHOOSE g : g = F(g)
<1>6. g = F(g)
  BY <1>5, Zenon
<1>7. ASSUME NEW crc, NEW byte, Crc!Xor(crc, byte) = x
      PROVE  Crc!CrcByte(crc, byte) = g[8]
  BY <1>7, Zenon DEF Crc!CrcByte
<1> HIDE DEF g
<1>8. g[0] = x /\ \A k \in 1 .. 8 : g[k] = Crc!CrcShift(g[k - 1])
  BY <1>2, <1>6
<1>9. g \in [0 .. 8 -> S]
  <2> DEFINE Good == {n \in Nat : n <= 8 => g[n] \in S}
  <2>1. 0 \in Good
    BY <1>2, <1>8
  <2>2. ASSUME NEW n \in Nat, n \in Good PROVE n + 1 \in Good
    BY <1>1, <1>2, <1>8, <2>2
  <2> HIDE DEF Good
  <2>3. Nat \subseteq Good
    BY <2>1, <2>2, Induction
  <2>4. QED
    BY <1>2, <1>6, <2>3 DEF Good
<1>10. QED
  BY <1>7, <1>8, <1>9 DEF S

(* The shifts lose nothing.                                                *)
LEMMA ShiftTells ==
  ASSUME NEW a \in SdtpByte, NEW b \in SdtpByte, Crc!CrcShift(a) = Crc!CrcShift(b)
  PROVE  a = b
<1>1. 8 \in Nat /\ 8 > 0
  OBVIOUS
<1>2. \A c \in SdtpByte : 0 \in c <=> 7 \in Crc!CrcShift(c)
  BY DEF Crc!CrcShift, Crc!Shifted, Crc!Xor, Crc!Bit, SdtpByte
<1>3. 0 \in a <=> 0 \in b
  BY <1>2
<1>4. Crc!Shifted(a) = Crc!Shifted(b)
  BY <1>3 DEF Crc!CrcShift, Crc!Xor
<1>5. ASSUME NEW i \in 0 .. 7 PROVE i \in a <=> i \in b
  <2>1. CASE i = 0
    BY <1>3, <2>1
  <2>2. CASE i # 0
    <3>1. i - 1 \in 0 .. 7 /\ (i - 1) + 1 = i
      BY <1>1, <2>2 DEF Crc!Bit
    <3>2. \A c : i \in c <=> i - 1 \in Crc!Shifted(c)
      BY <3>1 DEF Crc!Shifted, Crc!Bit
    <3>3. QED
      BY <1>4, <3>2
  <2>3. QED
    BY <2>1, <2>2
<1>6. QED
  BY <1>5 DEF SdtpByte

(* A byte of the crc, and the crc before it, can be told from what follows. *)
LEMMA ByteTells ==
  ASSUME NEW a \in SdtpByte, NEW b \in SdtpByte, NEW c \in SdtpByte
  PROVE  /\ Crc!CrcByte(c, a) \in SdtpByte
         /\ Crc!CrcByte(c, a) = Crc!CrcByte(c, b) => a = b
         /\ Crc!CrcByte(a, c) = Crc!CrcByte(b, c) => a = b
<1>1. /\ Crc!Xor(c, a) \in SdtpByte /\ Crc!Xor(c, b) \in SdtpByte
      /\ Crc!Xor(c, a) = Crc!Xor(a, c) /\ Crc!Xor(c, b) = Crc!Xor(b, c)
      /\ Crc!Xor(c, a) = Crc!Xor(c, b) => a = b
  BY DEF Crc!Xor, SdtpByte
<1>2. PICK g \in [0 .. 8 -> SdtpByte] :
        /\ g[0] = Crc!Xor(c, a) /\ \A k \in 1 .. 8 : g[k] = Crc!CrcShift(g[k - 1])
        /\ \A crc, byte : Crc!Xor(crc, byte) = Crc!Xor(c, a) => Crc!CrcByte(crc, byte) = g[8]
  BY <1>1, CrcSteps
<1>3. PICK h \in [0 .. 8 -> SdtpByte] :
        /\ h[0] = Crc!Xor(c, b) /\ \A k \in 1 .. 8 : h[k] = Crc!CrcShift(h[k - 1])
        /\ \A crc, byte : Crc!Xor(crc, byte) = Crc!Xor(c, b) => Crc!CrcByte(crc, byte) = h[8]
  BY <1>1, CrcSteps
<1>4. ASSUME g[8] = h[8] PROVE g[0] = h[0]
  <2> DEFINE Good == {n \in Nat : n <= 8 => g[8 - n] = h[8 - n]}
  <2>1. 0 \in Good
    BY <1>4
  <2>2. ASSUME NEW n \in Nat, n \in Good PROVE n + 1 \in Good
    <3> SUFFICES ASSUME n + 1 <= 8 PROVE g[8 - (n + 1)] = h[8 - (n + 1)]
      OBVIOUS
    <3>1. PICK k \in 1 .. 8 : k = 8 - n /\ k - 1 = 8 - (n + 1) /\ k - 1 \in 0 .. 8
      OBVIOUS
    <3>2. g[k] = h[k]
      BY <2>2, <3>1
    <3>3. Crc!CrcShift(g[k - 1]) = Crc!CrcShift(h[k - 1])
      BY <1>2, <1>3, <3>2
    <3>4. QED
      BY <1>2, <1>3, <3>1, <3>3, ShiftTells
  <2> HIDE DEF Good
  <2>3. 8 \in Good
    BY <2>1, <2>2, Induction
  <2>4. QED
    BY <2>3 DEF Good
<1>5. /\ Crc!CrcByte(c, a) = g[8] /\ Crc!CrcByte(c, b) = h[8]
      /\ Crc!CrcByte(a, c) = g[8] /\ Crc!CrcByte(b, c) = h[8]
  BY <1>1, <1>2, <1>3
<1>6. g[8] \in SdtpByte
  BY <1>2
<1>7. QED
  BY <1>1, <1>2, <1>3, <1>4, <1>5, <1>6

LEMMA CrcIs ==
  ASSUME NEW high, NEW low
  PROVE  CrcOf(high, low) = Crc!CrcByte(Crc!CrcByte({}, high), low)
<1> DEFINE words == <<high, low>>
           F(g) == [len \in 0 .. Len(words) |->
                      IF len = 0 THEN {} ELSE Crc!CrcByte(g[len - 1], words[len])]
           one == Crc!CrcByte({}, high)
           two == Crc!CrcByte(one, low)
           h == [len \in 0 .. 2 |-> IF len = 0 THEN {} ELSE IF len = 1 THEN one ELSE two]
<1>1. Len(words) = 2 /\ words[1] = high /\ words[2] = low
  OBVIOUS
<1>2. \A len \in 0 .. 2 : h[len] = IF len = 0 THEN {} ELSE Crc!CrcByte(h[len - 1], words[len])
  <2>1. h[0] = {} /\ h[1] = one /\ h[2] = two
    OBVIOUS
  <2>2. \A len \in 0 .. 2 : len \in {0, 1, 2}
    OBVIOUS
  <2> HIDE DEF words, h
  <2>3. QED
    BY <1>1, <2>1, <2>2
<1>3. h = F(h)
  <2>1. h = [len \in 0 .. 2 |-> h[len]]
    OBVIOUS
  <2> HIDE DEF words, h
  <2>2. QED
    BY <1>1, <1>2, <2>1
<1> DEFINE g == CHOOSE g : g = F(g)
<1> HIDE DEF F, words
<1>4. g = F(g)
  BY <1>3, Zenon
<1>5. CrcOf(high, low) = g[Len(words)]
  BY Zenon DEF CrcOf, Crc!verification_crc8, Crc!Zero, F, words
<1> HIDE DEF g, one, two
<1>6. g[0] = {} /\ g[1] = Crc!CrcByte(g[0], high) /\ g[2] = Crc!CrcByte(g[1], low)
  BY <1>1, <1>4 DEF F
<1>7. QED
  BY <1>1, <1>5, <1>6 DEF one, two

LEMMA CrcTells ==
  ASSUME NEW low \in SdtpBytes, NEW a \in SdtpByte
  PROVE  /\ CrcOf(a, low) \in SdtpByte
         /\ \A b \in SdtpByte : CrcOf(a, low) = CrcOf(b, low) => a = b
<1>1. low \in SdtpByte /\ {} \in SdtpByte
  BY SdtpAssumption DEF SdtpByte
<1>2. \A b \in SdtpByte : /\ Crc!CrcByte({}, b) \in SdtpByte
                          /\ Crc!CrcByte(Crc!CrcByte({}, b), low) \in SdtpByte
  BY <1>1, ByteTells
<1>3. ASSUME NEW b \in SdtpByte, CrcOf(a, low) = CrcOf(b, low) PROVE a = b
  <2>1. Crc!CrcByte(Crc!CrcByte({}, a), low) = Crc!CrcByte(Crc!CrcByte({}, b), low)
    BY <1>3, CrcIs
  <2>2. Crc!CrcByte({}, a) = Crc!CrcByte({}, b)
    BY <1>1, <1>2, <2>1, ByteTells
  <2>3. QED
    BY <1>1, <2>2, ByteTells
<1>4. QED
  BY <1>2, <1>3, CrcIs

LEMMA InUp ==
  ASSUME NEW S \in SUBSET Int, NEW n \in Int, NEW i
  PROVE  i \in Up(S, n) <=> i \in Int /\ i - n \in S
<1>1. ASSUME i \in Up(S, n) PROVE i \in Int /\ i - n \in S
  <2>1. PICK j \in S : i = j + n
    BY <1>1 DEF Up
  <2>2. j \in Int /\ i \in Int /\ i - n = j
    BY <2>1
  <2>3. QED
    BY <2>1, <2>2
<1>2. ASSUME i \in Int, i - n \in S PROVE i \in Up(S, n)
  <2>1. i = (i - n) + n
    BY <1>2
  <2>2. QED
    BY <1>2, <2>1 DEF Up
<1>3. QED
  BY <1>1, <1>2

LEMMA InDown ==
  ASSUME NEW S \in SUBSET Int, NEW n \in Int, NEW i
  PROVE  i \in Down(S, n) <=> i \in Int /\ i >= 0 /\ i + n \in S
<1>1. ASSUME i \in Down(S, n) PROVE i \in Int /\ i >= 0 /\ i + n \in S
  <2>1. PICK j \in S : j >= n /\ i = j - n
    BY <1>1 DEF Down
  <2>2. j \in Int /\ i \in Int /\ i + n = j /\ i >= 0
    BY <2>1
  <2>3. QED
    BY <2>1, <2>2
<1>2. ASSUME i \in Int, i >= 0, i + n \in S PROVE i \in Down(S, n)
  <2>1. i = (i + n) - n /\ i + n >= n
    BY <1>2
  <2>2. QED
    BY <1>2, <2>1 DEF Down
<1>3. QED
  BY <1>1, <1>2

(* What the words of a packet put into the buffer, byte by byte.           *)
LEMMA WordsFit ==
  ASSUME NEW high \in SdtpByte, NEW low \in SdtpByte, NEW crc \in SdtpByte
  PROVE  /\ Up(Down(high, 2), 2) = high \ {0, 1}
         /\ LET bits == Up(high \cap 0 .. 1, 4) \cup Down(low, 4)
            IN  /\ Down(bits, 4) = high \cap {0, 1}
                /\ Up(bits \cap 0 .. 3, 4) = low \ (0 .. 3)
         /\ LET bits == Up(low \cap 0 .. 3, 2) \cup Down(crc, 6)
            IN  /\ Down(bits, 2) = low \cap 0 .. 3
                /\ Up(bits \cap 0 .. 1, 6) = crc \ (0 .. 5)
<1>0. \A i : i \in high \/ i \in low \/ i \in crc => i \in Int /\ i >= 0 /\ i <= 7
  <2>1. \A i \in 0 .. 7 : i \in Int /\ i >= 0 /\ i <= 7
    OBVIOUS
  <2>2. high \subseteq 0 .. 7 /\ low \subseteq 0 .. 7 /\ crc \subseteq 0 .. 7
    BY DEF SdtpByte
  <2>3. QED
    BY <2>1, <2>2
<1>1. ASSUME NEW i PROVE i \in Up(Down(high, 2), 2) <=> i \in high \ {0, 1}
  <2>1. Down(high, 2) \in SUBSET Int /\ high \in SUBSET Int
    BY <1>0, InDown
  <2>2. i \in Up(Down(high, 2), 2) <=> i \in Int /\ i - 2 \in Int /\ i - 2 >= 0 /\ i - 2 + 2 \in high
    BY <2>1, InUp, InDown
  <2>3. i \in Int => i - 2 + 2 = i
    OBVIOUS
  <2>4. QED
    BY <1>0, <2>2, <2>3
<1> DEFINE first == Up(high \cap 0 .. 1, 4) \cup Down(low, 4)
<1>2. ASSUME NEW i
      PROVE  i \in first <=> i \in Int /\ (i - 4 \in high \cap 0 .. 1 \/ (i >= 0 /\ i + 4 \in low))
  <2>1. low \in SUBSET Int /\ high \cap 0 .. 1 \in SUBSET Int
    BY <1>0
  <2>2. i \in Up(high \cap 0 .. 1, 4) <=> i \in Int /\ i - 4 \in high \cap 0 .. 1
    BY <2>1, InUp
  <2>3. i \in Down(low, 4) <=> i \in Int /\ i >= 0 /\ i + 4 \in low
    BY <2>1, InDown
  <2>4. QED
    BY <2>2, <2>3
<1> HIDE DEF first
<1>3. first \in SUBSET Int
  BY <1>2
<1>4. ASSUME NEW i PROVE i \in Down(first, 4) <=> i \in high \cap {0, 1}
  <2>1. i \in Down(first, 4) <=> i \in Int /\ i >= 0 /\ i + 4 \in first
    BY <1>3, InDown
  <2>2. i \in Int => (i + 4 \in first <=> i \in high \cap 0 .. 1 \/ (i + 4 >= 0 /\ i + 8 \in low))
    <3>1. i \in Int => i + 4 \in Int /\ i + 4 - 4 = i /\ i + 4 + 4 = i + 8
      OBVIOUS
    <3>2. QED
      BY <3>1, <1>2
  <2>3. QED
    BY <1>0, <2>1, <2>2
<1>5. ASSUME NEW i PROVE i \in Up(first \cap 0 .. 3, 4) <=> i \in low \ (0 .. 3)
  <2>1. i \in Up(first \cap 0 .. 3, 4) <=> i \in Int /\ i - 4 \in first \cap 0 .. 3
    BY <1>3, InUp
  <2>2. i \in Int => (i - 4 \in first <=> i - 8 \in high \cap 0 .. 1 \/ (i - 4 >= 0 /\ i \in low))
    <3>1. i \in Int => i - 4 \in Int /\ i - 4 - 4 = i - 8 /\ i - 4 + 4 = i
      OBVIOUS
    <3>2. QED
      BY <3>1, <1>2
  <2>3. QED
    BY <1>0, <2>1, <2>2
<1> DEFINE second == Up(low \cap 0 .. 3, 2) \cup Down(crc, 6)
<1>6. ASSUME NEW i
      PROVE  i \in second <=> i \in Int /\ (i - 2 \in low \cap 0 .. 3 \/ (i >= 0 /\ i + 6 \in crc))
  <2>1. crc \in SUBSET Int /\ low \cap 0 .. 3 \in SUBSET Int
    BY <1>0
  <2>2. i \in Up(low \cap 0 .. 3, 2) <=> i \in Int /\ i - 2 \in low \cap 0 .. 3
    BY <2>1, InUp
  <2>3. i \in Down(crc, 6) <=> i \in Int /\ i >= 0 /\ i + 6 \in crc
    BY <2>1, InDown
  <2>4. QED
    BY <2>2, <2>3
<1> HIDE DEF second
<1>7. second \in SUBSET Int
  BY <1>6
<1>8. ASSUME NEW i PROVE i \in Down(second, 2) <=> i \in low \cap 0 .. 3
  <2>1. i \in Down(second, 2) <=> i \in Int /\ i >= 0 /\ i + 2 \in second
    BY <1>7, InDown
  <2>2. i \in Int => (i + 2 \in second <=> i \in low \cap 0 .. 3 \/ (i + 2 >= 0 /\ i + 8 \in crc))
    <3>1. i \in Int => i + 2 \in Int /\ i + 2 - 2 = i /\ i + 2 + 6 = i + 8
      OBVIOUS
    <3>2. QED
      BY <3>1, <1>6
  <2>3. QED
    BY <1>0, <2>1, <2>2
<1>9. ASSUME NEW i PROVE i \in Up(second \cap 0 .. 1, 6) <=> i \in crc \ (0 .. 5)
  <2>1. i \in Up(second \cap 0 .. 1, 6) <=> i \in Int /\ i - 6 \in second \cap 0 .. 1
    BY <1>7, InUp
  <2>2. i \in Int => (i - 6 \in second <=> i - 8 \in low \cap 0 .. 3 \/ (i - 6 >= 0 /\ i \in crc))
    <3>1. i \in Int => i - 6 \in Int /\ i - 6 - 2 = i - 8 /\ i - 6 + 6 = i
      OBVIOUS
    <3>2. QED
      BY <3>1, <1>6
  <2>3. QED
    BY <1>0, <2>1, <2>2
<1>10. QED
  BY <1>1, <1>4, <1>5, <1>8, <1>9 DEF first, second

SdtpTypes ==
  /\ words_out \in 0 .. 4 /\ speeds \in 0 .. MaxSpeeds
  /\ receive_buffer \in [1 .. 3 -> SdtpByte]
  /\ gone \subseteq 0 .. words_out - 1
  /\ \E high, low, crc \in SdtpByte : speed = <<high, low, crc>>
  /\ words_out < 4 => speed[2] \in SdtpBytes /\ speed[3] = CrcOf(speed[1], speed[2])

(* What is right in the buffer after each word: of the second and third    *)
(* byte all that came, if only the first word may be lost.                 *)
MergeInv ==
  /\ gone = {} => /\ words_out = 1 => receive_buffer[1] = speed[1] \ {0, 1}
                  /\ words_out \in 2 .. 3 => receive_buffer[1] = speed[1]
  /\ gone \subseteq {0} => /\ words_out = 2 => receive_buffer[2] = speed[2] \ (0 .. 3)
                           /\ words_out = 3 => /\ receive_buffer[2] = speed[2]
                                               /\ receive_buffer[3] = speed[3] \ (0 .. 5)

AnswerInv ==
  /\ words_out < 4 => bldc = bldc_before
  /\ words_out = 4 /\ gone = {} => bldc = <<speed[1], speed[2]>>
  /\ words_out = 4 /\ gone \subseteq {0, 3} => bldc \in {bldc_before, <<speed[1], speed[2]>>}

SdtpInv == SdtpTypes /\ MergeInv /\ AnswerInv

LEMMA FirstTwo ==
  ASSUME NEW b \in [1 .. 3 -> SdtpByte] PROVE SubSeq(b, 1, 2) = <<b[1], b[2]>>
<1>1. \A i \in 1 .. 2 : b[i] \in SdtpByte
  OBVIOUS
<1>2. SubSeq(b, 1, 2) \in Seq(SdtpByte) /\ Len(SubSeq(b, 1, 2)) = 2
      /\ \A i \in 1 .. 2 : SubSeq(b, 1, 2)[i] = b[1 + i - 1]
  BY <1>1, SubSeqProperties
<1>3. <<b[1], b[2]>> \in Seq(SdtpByte) /\ Len(<<b[1], b[2]>>) = 2
  BY <1>1
<1>4. \A i \in 1 .. 2 : SubSeq(b, 1, 2)[i] = <<b[1], b[2]>>[i]
  <2>1. SubSeq(b, 1, 2)[1] = b[1] /\ SubSeq(b, 1, 2)[2] = b[2]
    BY <1>2
  <2>2. QED
    BY <2>1
<1>5. QED
  BY <1>2, <1>3, <1>4, SeqEqual

LEMMA MergedIs ==
  ASSUME NEW b \in [1 .. 3 -> SdtpByte], NEW n \in 0 .. 3, NEW bits \in SUBSET Int
  PROVE  LET c == Merged(n, bits, b) IN
         /\ n = 0 => c = [b EXCEPT ![1] = Up(bits, 2)]
         /\ n = 1 => /\ DOMAIN c = 1 .. 3 /\ c[1] = b[1] \cup Down(bits, 4)
                     /\ c[2] = Up(bits \cap 0 .. 3, 4) /\ c[3] = b[3]
         /\ n = 2 => /\ DOMAIN c = 1 .. 3 /\ c[1] = b[1] /\ c[2] = b[2] \cup Down(bits, 2)
                     /\ c[3] = Up(bits \cap 0 .. 1, 6)
         /\ n = 3 => c = [b EXCEPT ![3] = @ \cup bits]
BY DEF Merged

LEMMA MergedIsBuffer ==
  ASSUME NEW b \in [1 .. 3 -> SdtpByte], NEW n \in 0 .. 3, NEW bits \in SUBSET Int
  PROVE  Merged(n, bits, b) \in [1 .. 3 -> SUBSET Int]
<1>1. b \in [1 .. 3 -> SUBSET Int]
  BY DEF SdtpByte
<1>2. bits \cap 0 .. 3 \in SUBSET Int /\ bits \cap 0 .. 1 \in SUBSET Int
  OBVIOUS
<1> DEFINE up2 == Up(bits, 2)
           down4 == Down(bits, 4)
           up4 == Up(bits \cap 0 .. 3, 4)
           down2 == Down(bits, 2)
           up6 == Up(bits \cap 0 .. 1, 6)
<1>3. up2 \in SUBSET Int /\ down4 \in SUBSET Int /\ up4 \in SUBSET Int
      /\ down2 \in SUBSET Int /\ up6 \in SUBSET Int
  BY <1>2, InUp, InDown
<1> DEFINE x1 == b[1] \cup down4
           x2 == b[2] \cup down2
           x3 == b[3] \cup bits
<1>4. x1 \in SUBSET Int /\ x2 \in SUBSET Int /\ x3 \in SUBSET Int
  <2>1. b[1] \in SUBSET Int /\ b[2] \in SUBSET Int /\ b[3] \in SUBSET Int
    BY <1>1
  <2> HIDE DEF up2, down4, up4, down2, up6
  <2>2. QED
    BY <1>3, <2>1
<1>5. /\ n = 0 => Merged(n, bits, b) = [b EXCEPT ![1] = up2]
      /\ n = 1 => Merged(n, bits, b) = [b EXCEPT ![1] = x1, ![2] = up4]
      /\ n = 2 => Merged(n, bits, b) = [b EXCEPT ![2] = x2, ![3] = up6]
      /\ n = 3 => Merged(n, bits, b) = [b EXCEPT ![3] = x3]
  BY DEF Merged
<1> HIDE DEF up2, down4, up4, down2, up6, x1, x2, x3
<1>6. CASE n = 0
  BY <1>1, <1>3, <1>5, <1>6
<1>7. CASE n = 1
  BY <1>1, <1>3, <1>4, <1>5, <1>7
<1>8. CASE n = 2
  BY <1>1, <1>3, <1>4, <1>5, <1>8
<1>9. CASE n = 3
  BY <1>1, <1>4, <1>5, <1>9
<1>10. QED
  BY <1>6, <1>7, <1>8, <1>9

LEMMA SdtpInvInit == SdtpInit => SdtpInv
<1> SUFFICES ASSUME SdtpInit PROVE SdtpInv
  OBVIOUS
<1>1. {} \in SdtpByte
  BY DEF SdtpByte
<1>2. receive_buffer \in [1 .. 3 -> SdtpByte]
  BY <1>1 DEF SdtpInit
<1>3. \E high, low, crc \in SdtpByte : speed = <<high, low, crc>>
  BY <1>1 DEF SdtpInit
<1>4. SdtpTypes
  BY <1>2, <1>3, SdtpAssumption DEF SdtpInit, SdtpTypes
<1>5. MergeInv
  BY DEF SdtpInit, MergeInv
<1>6. speed[1] = {} /\ speed[2] = {}
  BY DEF SdtpInit
<1>7. AnswerInv
  BY <1>6 DEF SdtpInit, AnswerInv
<1>8. QED
  BY <1>4, <1>5, <1>7 DEF SdtpInv

LEMMA SdtpSend ==
  ASSUME SdtpInv, SendSpeed PROVE SdtpInv'
<1>1. PICK high \in SdtpBytes, low \in SdtpBytes : speed' = <<high, low, CrcOf(high, low)>>
  BY DEF SendSpeed, CrcOf
<1>2. high \in SdtpByte /\ low \in SdtpByte
  BY SdtpAssumption DEF SdtpByte
<1>3. CrcOf(high, low) \in SdtpByte
  BY <1>1, <1>2, CrcTells
<1>4. speed'[1] = high /\ speed'[2] = low /\ speed'[3] = CrcOf(high, low)
  BY <1>1
<1>5. \E a, b, c \in SdtpByte : speed' = <<a, b, c>>
  BY <1>1, <1>2, <1>3
<1>6. /\ words_out' = 0 /\ gone' = {} /\ speeds < MaxSpeeds /\ speeds' = speeds + 1
      /\ receive_buffer' = receive_buffer /\ bldc' = bldc /\ bldc_before' = bldc
  BY DEF SendSpeed
<1>7. SdtpTypes'
  <2>1. speeds \in 0 .. MaxSpeeds /\ MaxSpeeds \in Nat /\ receive_buffer \in [1 .. 3 -> SdtpByte]
    BY SdtpAssumption DEF SdtpInv, SdtpTypes
  <2>2. speeds' \in 0 .. MaxSpeeds /\ words_out' \in 0 .. 4
    BY <1>6, <2>1
  <2>3. speed'[2] \in SdtpBytes /\ speed'[3] = CrcOf(speed'[1], speed'[2])
    BY <1>1, <1>4
  <2>4. QED
    BY <1>5, <1>6, <2>1, <2>2, <2>3 DEF SdtpTypes
<1>8. MergeInv' /\ AnswerInv'
  BY <1>6 DEF MergeInv, AnswerInv
<1>9. QED
  BY <1>7, <1>8 DEF SdtpInv

LEMMA SdtpLose ==
  ASSUME SdtpInv, LoseWord PROVE SdtpInv'
<1>1. /\ words_out \in 0 .. 4 /\ words_out < 4 /\ words_out' = words_out + 1
      /\ gone' = gone \cup {words_out} /\ gone \subseteq 0 .. words_out - 1
      /\ speed' = speed /\ speeds' = speeds /\ receive_buffer' = receive_buffer
      /\ bldc' = bldc /\ bldc_before' = bldc_before
  BY DEF LoseWord, SdtpInv, SdtpTypes
<1>2. /\ words_out' \in 0 .. 4 /\ gone' \subseteq 0 .. words_out' - 1 /\ gone' # {}
      /\ words_out' < 4 => words_out < 4
      /\ gone' \subseteq {0} => words_out' = 1
  BY <1>1
<1>3. SdtpTypes'
  BY <1>1, <1>2 DEF SdtpInv, SdtpTypes
<1>4. MergeInv'
  <2>1. words_out' = 1 => words_out' # 2 /\ words_out' # 3
    OBVIOUS
  <2>2. QED
    BY <1>2, <2>1 DEF MergeInv
<1>5. AnswerInv'
  BY <1>1, <1>2 DEF SdtpInv, AnswerInv
<1>6. QED
  BY <1>3, <1>4, <1>5 DEF SdtpInv

LEMMA SdtpReceive ==
  ASSUME SdtpInv, ReceiveWord PROVE SdtpInv'
<1>1. /\ words_out \in 0 .. 3 /\ words_out' = words_out + 1
      /\ receive_buffer' = Merged(words_out, SdtpWord(words_out), receive_buffer)
      /\ receive_buffer \in [1 .. 3 -> SdtpByte]
      /\ UNCHANGED <<speed, speeds, gone, bldc_before>>
      /\ speeds \in 0 .. MaxSpeeds /\ gone \subseteq 0 .. words_out - 1
      /\ bldc = bldc_before
  BY DEF ReceiveWord, SdtpInv, SdtpTypes, AnswerInv
<1>2. PICK high \in SdtpByte, low \in SdtpByte, crc \in SdtpByte : speed = <<high, low, crc>>
  BY DEF SdtpInv, SdtpTypes
<1>3. speed[1] = high /\ speed[2] = low /\ speed[3] = crc
  BY <1>2
<1>4. low \in SdtpBytes /\ crc = CrcOf(high, low)
  BY <1>1, <1>3 DEF SdtpInv, SdtpTypes
<1> DEFINE b == receive_buffer
           c == receive_buffer'
           first == Up(high \cap 0 .. 1, 4) \cup Down(low, 4)
           second == Up(low \cap 0 .. 3, 2) \cup Down(crc, 6)
<1>5. /\ Up(Down(high, 2), 2) = high \ {0, 1}
      /\ Down(first, 4) = high \cap {0, 1} /\ Up(first \cap 0 .. 3, 4) = low \ (0 .. 3)
      /\ Down(second, 2) = low \cap 0 .. 3 /\ Up(second \cap 0 .. 1, 6) = crc \ (0 .. 5)
  BY WordsFit
<1>6. /\ words_out = 0 => SdtpWord(words_out) = Down(high, 2)
      /\ words_out = 1 => SdtpWord(words_out) = first
      /\ words_out = 2 => SdtpWord(words_out) = second
      /\ words_out = 3 => SdtpWord(words_out) = crc \cap 0 .. 5
  BY <1>1, <1>3 DEF SdtpWord
<1>7. high \subseteq 0 .. 7 /\ low \subseteq 0 .. 7 /\ crc \subseteq 0 .. 7
  BY DEF SdtpByte
<1>8. Down(high, 2) \in SUBSET Int /\ first \in SUBSET Int /\ second \in SUBSET Int /\ crc \cap 0 .. 5 \in SUBSET Int
  <2>1. high \in SUBSET Int /\ low \in SUBSET Int /\ crc \in SUBSET Int
        /\ high \cap 0 .. 1 \in SUBSET Int /\ low \cap 0 .. 3 \in SUBSET Int
    BY <1>7
  <2>2. QED
    BY <2>1, InUp, InDown
<1> HIDE DEF first, second
<1>9. /\ words_out = 0 => c = [b EXCEPT ![1] = high \ {0, 1}]
      /\ words_out = 1 => /\ DOMAIN c = 1 .. 3 /\ c[1] = b[1] \cup (high \cap {0, 1})
                          /\ c[2] = low \ (0 .. 3) /\ c[3] = b[3]
      /\ words_out = 2 => /\ DOMAIN c = 1 .. 3 /\ c[1] = b[1] /\ c[2] = b[2] \cup (low \cap 0 .. 3)
                          /\ c[3] = crc \ (0 .. 5)
      /\ words_out = 3 => c = [b EXCEPT ![3] = @ \cup (crc \cap 0 .. 5)]
  <2>1. CASE words_out = 0
    BY <1>1, <1>5, <1>6, <1>8, <2>1, MergedIs
  <2>2. CASE words_out = 1
    BY <1>1, <1>5, <1>6, <1>8, <2>2, MergedIs
  <2>3. CASE words_out = 2
    BY <1>1, <1>5, <1>6, <1>8, <2>3, MergedIs
  <2>4. CASE words_out = 3
    BY <1>1, <1>5, <1>6, <1>8, <2>4, MergedIs
  <2>5. QED
    BY <1>1, <2>1, <2>2, <2>3, <2>4
<1>10. \A n \in 1 .. 3 : b[n] \subseteq 0 .. 7
  BY <1>1 DEF SdtpByte
<1>11. c \in [1 .. 3 -> SdtpByte]
  <2>1. c[1] \subseteq 0 .. 7 /\ c[2] \subseteq 0 .. 7 /\ c[3] \subseteq 0 .. 7
    <3>1. b[1] \subseteq 0 .. 7 /\ b[2] \subseteq 0 .. 7 /\ b[3] \subseteq 0 .. 7
      BY <1>10
    <3>2. CASE words_out = 0
      <4>1. c[1] = high \ {0, 1} /\ c[2] = b[2] /\ c[3] = b[3]
        BY <1>1, <1>9, <3>2
      <4>2. QED
        BY <1>7, <3>1, <4>1
    <3>3. CASE words_out = 1
      BY <1>7, <1>9, <3>1, <3>3
    <3>4. CASE words_out = 2
      BY <1>7, <1>9, <3>1, <3>4
    <3>5. CASE words_out = 3
      <4>1. c[1] = b[1] /\ c[2] = b[2] /\ c[3] = b[3] \cup (crc \cap 0 .. 5)
        BY <1>1, <1>9, <3>5
      <4>2. QED
        BY <1>7, <3>1, <4>1
    <3>6. QED
      BY <1>1, <3>2, <3>3, <3>4, <3>5
  <2>2. ASSUME NEW n \in 1 .. 3 PROVE c[n] \in SdtpByte
    <3>1. n = 1 \/ n = 2 \/ n = 3
      OBVIOUS
    <3>2. QED
      BY <2>1, <3>1 DEF SdtpByte
  <2>3. c \in [1 .. 3 -> SUBSET Int]
    <3>1. SdtpWord(words_out) \in SUBSET Int
      <4>1. words_out = 0 \/ words_out = 1 \/ words_out = 2 \/ words_out = 3
        BY <1>1
      <4>2. QED
        BY <1>6, <1>8, <4>1
    <3>2. QED
      BY <1>1, <3>1, MergedIsBuffer
  <2>4. QED
    BY <2>2, <2>3
<1>12. MergeInv'
  <2>1. ASSUME gone' = {}, words_out' = 1 PROVE c[1] = high \ {0, 1}
    BY <1>1, <1>9, <2>1
  <2>2. ASSUME gone' = {}, words_out' \in 2 .. 3 PROVE c[1] = high
    <3>1. CASE words_out = 1
      <4>1. b[1] = high \ {0, 1}
        BY <1>1, <1>3, <2>2, <3>1 DEF SdtpInv, MergeInv
      <4>2. QED
        BY <1>9, <3>1, <4>1
    <3>2. CASE words_out = 2
      <4>1. b[1] = high
        BY <1>1, <1>3, <2>2, <3>2 DEF SdtpInv, MergeInv
      <4>2. QED
        BY <1>9, <3>2, <4>1
    <3>3. QED
      BY <1>1, <2>2, <3>1, <3>2
  <2>3. ASSUME gone' \subseteq {0}, words_out' = 2 PROVE c[2] = low \ (0 .. 3)
    BY <1>1, <1>9, <2>3
  <2>4. ASSUME gone' \subseteq {0}, words_out' = 3 PROVE c[2] = low /\ c[3] = crc \ (0 .. 5)
    <3>1. words_out = 2
      BY <1>1, <2>4
    <3>2. b[2] = low \ (0 .. 3)
      BY <1>1, <1>3, <2>4, <3>1 DEF SdtpInv, MergeInv
    <3>3. QED
      BY <1>9, <3>1, <3>2
  <2>5. speed'[1] = high /\ speed'[2] = low /\ speed'[3] = crc
    BY <1>1, <1>3
  <2>6. QED
    BY <2>1, <2>2, <2>3, <2>4, <2>5 DEF MergeInv
<1>13. ASSUME words_out = 3, gone \subseteq {0}
       PROVE  /\ c[2] = low /\ c[3] = crc /\ c[1] = b[1]
              /\ gone = {} => c[1] = high
  <2>1. b[2] = low /\ b[3] = crc \ (0 .. 5) /\ (gone = {} => b[1] = high)
    BY <1>3, <1>13 DEF SdtpInv, MergeInv
  <2>2. c[1] = b[1] /\ c[2] = b[2] /\ c[3] = b[3] \cup (crc \cap 0 .. 5)
    BY <1>1, <1>9, <1>13
  <2>3. QED
    BY <2>1, <2>2
<1>14. AnswerInv'
  <2>1. ASSUME words_out < 3 PROVE words_out' < 4 /\ words_out' # 4 /\ bldc' = bldc
    BY <1>1, <2>1 DEF ReceiveWord
  <2>2. ASSUME words_out = 3
        PROVE  /\ words_out' = 4 /\ ~(words_out' < 4)
               /\ bldc' = IF CrcOf(c[1], c[2]) = c[3] THEN <<c[1], c[2]>> ELSE bldc
    <3>1. words_out' = 4 /\ ~(words_out' < 4)
      BY <1>1, <2>2
    <3>2. SubSeq(c, 1, 2) = <<c[1], c[2]>>
      BY <1>11, FirstTwo
    <3>3. sdtp_callback_handler(c)
      BY <2>2 DEF ReceiveWord
    <3>4. QED
      BY <3>1, <3>2, <3>3 DEF sdtp_callback_handler, CrcOf
  <2>3. ASSUME words_out = 3, gone = {} PROVE bldc' = <<high, low>>
    BY <1>4, <1>13, <2>2, <2>3
  <2>4. ASSUME words_out = 3, gone \subseteq {0, 3} PROVE bldc' \in {bldc_before, <<high, low>>}
    <3>1. gone \subseteq {0}
      BY <1>1, <2>4
    <3>2. c[1] \in SdtpByte /\ c[2] = low /\ c[3] = CrcOf(high, low)
      BY <1>4, <1>11, <1>13, <2>4, <3>1
    <3>3. CrcOf(c[1], c[2]) = c[3] => c[1] = high
      BY <1>4, <3>2, CrcTells
    <3>4. QED
      BY <1>1, <2>2, <2>4, <3>2, <3>3
  <2>5. speed'[1] = high /\ speed'[2] = low
    BY <1>1, <1>3
  <2>6. words_out < 3 \/ words_out = 3
    BY <1>1
  <2>7. QED
    BY <1>1, <2>1, <2>2, <2>3, <2>4, <2>5, <2>6 DEF AnswerInv
<1>15. SdtpTypes'
  <2>1. words_out' \in 0 .. 4 /\ gone' \subseteq 0 .. words_out' - 1 /\ (words_out' < 4 => words_out < 4)
    BY <1>1
  <2>2. QED
    BY <1>1, <1>11, <2>1 DEF SdtpInv, SdtpTypes
<1>16. QED
  BY <1>12, <1>14, <1>15 DEF SdtpInv

LEMMA SdtpInvStep == SdtpInv /\ [SdtpNext]_sdtp_vars => SdtpInv'
<1>1. CASE UNCHANGED sdtp_vars
  BY <1>1 DEF sdtp_vars, SdtpInv, SdtpTypes, MergeInv, AnswerInv
<1>2. QED
  BY <1>1, SdtpSend, SdtpLose, SdtpReceive DEF SdtpNext

(* The types of SdtpLink: three bytes are in the buffer, whatever is lost. *)
THEOREM SdtpTypesHold == SdtpSpec => []SdtpTypeOK
<1>1. SdtpInv => SdtpTypeOK
  <2> SUFFICES ASSUME SdtpInv PROVE SdtpTypeOK
    OBVIOUS
  <2>1. receive_buffer \in [1 .. 3 -> SdtpByte]
    BY DEF SdtpInv, SdtpTypes
  <2>2. receive_buffer \in Seq(SdtpByte)
    <3>1. 3 \in Nat
      OBVIOUS
    <3>2. QED
      BY <2>1, <3>1, SeqDef
  <2>3. Len(receive_buffer) = 3
    <3>1. PICK n \in Nat : n = Len(receive_buffer) /\ 1 .. n = 1 .. 3
      BY <2>1, <2>2, LenProperties
    <3>2. n = 3
      BY <3>1
    <3>3. QED
      BY <3>1, <3>2
  <2>4. QED
    BY <2>2, <2>3 DEF SdtpInv, SdtpTypes, SdtpTypeOK, SdtpByte
<1>2. QED
  BY <1>1, SdtpInvInit, SdtpInvStep, PTL DEF SdtpSpec

(* The motor is told every speed whose words all arrive, whatever is left  *)
(* in the buffer of those before, and of a packet whose first or last word *)
(* is lost nothing but what it said: for all bytes whose crc tells them.   *)
THEOREM SpeedsArrive == SdtpSpec => []SdtpRight
<1>1. SdtpInv => SdtpRight
  <2> SUFFICES ASSUME SdtpInv PROVE SdtpRight
    OBVIOUS
  <2>1. PICK high, low, crc \in SdtpByte : speed = <<high, low, crc>>
    BY DEF SdtpInv, SdtpTypes
  <2>2. speed \in [1 .. 3 -> SdtpByte]
    BY <2>1
  <2>3. SubSeq(speed, 1, 2) = <<speed[1], speed[2]>>
    BY <2>2, FirstTwo
  <2>4. QED
    BY <2>3 DEF SdtpInv, AnswerInv, SdtpRight, WholeIsTaken, EndsAreTold
<1>2. QED
  BY <1>1, SdtpInvInit, SdtpInvStep, PTL DEF SdtpSpec

-----------------------------------------------------------------------------
(* The debug monitor.  The frames in the buffer are of variables, what     *)
(* says so of the first kinds is right, and until the next scan those of   *)
(* registrations come first.                                               *)
FrameRight(f) == IF f.pid = 3 THEN f.data \in VarValues ELSE f.data = f.index + 1

FramesInv ==
  /\ frame_buffer \in Seq(Frame) /\ \A k \in 1 .. Len(frame_buffer) : FrameRight(frame_buffer[k])
  /\ Len(frame_buffer) <= 4 * Registered
  /\ variable_index \in 0 .. Registered
  /\ variable_dma_counter \in 0 .. Len(frame_buffer) /\ variable_dma_counter <= 3 * variable_index
  /\ \A k \in 1 .. variable_dma_counter : frame_buffer[k].pid # 3
  /\ dma_frames \in 0 .. Len(frame_buffer) /\ dma_sent \in 0 .. dma_frames
  /\ Sending => variable_dma_counter = 0

ValueTypes ==
  /\ var_now \in [Var -> VarValues] /\ var_lastvalue \in [Var -> VarValues]
  /\ unsure \subseteq Var

(* A frame is torn while the DMA sends, and only after two scans are mixed.*)
TornInv == \A f \in torn : f \in Frame /\ Sending /\ mixed

TableInv ==
  /\ variable_counter_serial \in 0 .. Registered
  /\ debugger_variable \in [0 .. Registered -> Row]
  /\ RowsRight

(* The k-th frame is still to be sent, and brings the value of v.          *)
Waits(k)     == k \in dma_sent + 1 .. dma_frames
Brings(k, v) == frame_buffer[k].pid = 3 /\ frame_buffer[k].index = v

(* Of every variable the table has the value of the last scan or will be   *)
(* sent it, unless it is among those of which a frame was lost; what is    *)
(* sent is that value, unless two scans are mixed.                         *)
ValuesInv ==
  /\ \A k : Waits(k) /\ frame_buffer[k].pid = 3 =>
       IF mixed THEN frame_buffer[k].index \in unsure
       ELSE frame_buffer[k].data = var_lastvalue[frame_buffer[k].index]
  /\ \A v \in Var \ unsure :
       debugger_variable[v].value = var_lastvalue[v] \/ \E k : Waits(k) /\ Brings(k, v)

DebugInv == FramesInv /\ ValueTypes /\ TornInv /\ TableInv /\ ValuesInv

LEMMA AsSequence ==
  ASSUME NEW S, NEW n \in Nat, NEW f \in [1 .. n -> S] PROVE f \in Seq(S) /\ Len(f) = n
<1>1. f \in Seq(S)
  BY SeqDef
<1>2. PICK m \in Nat : m = Len(f) /\ 1 .. m = 1 .. n
  BY <1>1, LenProperties
<1>3. m = n
  BY <1>2
<1>4. QED
  BY <1>1, <1>2, <1>3

LEMMA PackedIs ==
  ASSUME NEW b \in Seq(Frame), b = frame_buffer, NEW n \in 0 .. Len(b), NEW frames \in Seq(Frame)
  PROVE  LET c == Packed(n, frames)
             m == n + Len(frames) IN
         /\ c \in Seq(Frame)
         /\ Len(c) = IF m > Len(b) THEN m ELSE Len(b)
         /\ \A k \in 1 .. Len(c) : c[k] = IF k > n /\ k <= m THEN frames[k - n] ELSE b[k]
<1>1. PICK l \in Nat, p \in Nat, m \in Nat : l = Len(b) /\ p = Len(frames) /\ m = n + p
  BY LenProperties
<1> DEFINE first == SubSeq(b, 1, n)
           last == SubSeq(b, m + 1, Len(b))
           front == first \o frames
<1>2. \A k \in 1 .. l : b[k] \in Frame
  BY <1>1, ElementOfSeq
<1>3. first \in Seq(Frame) /\ Len(first) = n /\ \A k \in 1 .. n : first[k] = b[k]
  <2>1. \A k \in 1 .. n : b[k] \in Frame
    BY <1>1, <1>2
  <2>2. n \in Int /\ 1 \in Int
    BY <1>1
  <2>3. /\ first \in Seq(Frame) /\ Len(first) = IF 1 <= n THEN n - 1 + 1 ELSE 0
        /\ \A k \in 1 .. n - 1 + 1 : first[k] = b[1 + k - 1]
    BY <2>1, <2>2, SubSeqProperties
  <2>4. Len(first) = n
    BY <1>1, <2>3
  <2>5. \A k \in 1 .. n : first[k] = b[k]
    BY <1>1, <2>3
  <2>6. QED
    BY <2>3, <2>4, <2>5
<1>4. /\ last \in Seq(Frame) /\ Len(last) = IF m + 1 <= l THEN l - m ELSE 0
      /\ \A k \in 1 .. l - m : last[k] = b[m + k]
  <2>1. m + 1 \in Int /\ l \in Int
    BY <1>1
  <2>2. \A k \in m + 1 .. l : b[k] \in Frame
    BY <1>1, <1>2
  <2>3. /\ last \in Seq(Frame) /\ Len(last) = IF m + 1 <= l THEN l - (m + 1) + 1 ELSE 0
        /\ \A k \in 1 .. l - (m + 1) + 1 : last[k] = b[(m + 1) + k - 1]
    BY <1>1, <2>1, <2>2, SubSeqProperties
  <2>4. QED
    BY <1>1, <2>3
<1>5. /\ front \in Seq(Frame) /\ Len(front) = m
      /\ \A k \in 1 .. m : front[k] = IF k <= n THEN first[k] ELSE frames[k - n]
  BY <1>1, <1>3, ConcatProperties
<1>6. Packed(n, frames) = front \o last
  <2>1. n + Len(frames) + 1 = m + 1
    BY <1>1
  <2>2. QED
    BY <2>1 DEF Packed
<1> HIDE DEF first, last, front
<1>7. /\ front \o last \in Seq(Frame) /\ Len(front \o last) = m + Len(last)
      /\ \A k \in 1 .. m + Len(last) : (front \o last)[k] = IF k <= m THEN front[k] ELSE last[k - m]
  <2>1. /\ front \o last \in Seq(Frame) /\ Len(front \o last) = Len(front) + Len(last)
        /\ \A k \in 1 .. Len(front) + Len(last) :
             (front \o last)[k] = IF k <= Len(front) THEN front[k] ELSE last[k - Len(front)]
    BY <1>4, <1>5, ConcatProperties
  <2>2. QED
    BY <1>5, <2>1
<1>8. PICK e \in Nat : e = m + Len(last) /\ e = IF m > l THEN m ELSE l
  <2>1. CASE m + 1 <= l
    <3>1. Len(last) = l - m /\ ~(m > l) /\ m + (l - m) = l
      BY <1>1, <1>4, <2>1
    <3>2. QED
      BY <1>1, <3>1
  <2>2. CASE ~(m + 1 <= l)
    <3>1. Len(last) = 0 /\ m + 0 = m
      BY <1>1, <1>4, <2>2
    <3>2. m > l \/ m = l
      BY <1>1, <2>2
    <3>3. QED
      BY <1>1, <3>1, <3>2
  <2>3. QED
    BY <2>1, <2>2
<1>9. ASSUME NEW k \in 1 .. e
      PROVE  (front \o last)[k] = IF k > n /\ k <= m THEN frames[k - n] ELSE b[k]
  <2>1. k \in 1 .. m + Len(last)
    BY <1>8
  <2>2. CASE k <= m
    <3>1. (front \o last)[k] = front[k]
      BY <1>7, <2>1, <2>2
    <3>2. k \in 1 .. m
      BY <1>8, <2>2
    <3>3. front[k] = IF k <= n THEN first[k] ELSE frames[k - n]
      BY <1>5, <3>2
    <3>4. k <= n => first[k] = b[k]
      BY <1>1, <1>3, <3>2
    <3>5. QED
      BY <1>1, <2>2, <3>1, <3>2, <3>3, <3>4
  <2>3. CASE k > m
    <3>1. k - m \in 1 .. l - m /\ m + (k - m) = k
      BY <1>1, <1>8, <2>3
    <3>2. (front \o last)[k] = last[k - m]
      BY <1>1, <1>7, <2>1, <2>3
    <3>3. last[k - m] = b[k]
      BY <1>4, <3>1
    <3>4. QED
      BY <1>1, <2>3, <3>2, <3>3
  <2>4. k <= m \/ k > m
    BY <1>1, <1>8
  <2>5. QED
    BY <2>2, <2>3, <2>4
<1>10. Len(front \o last) = e /\ m = n + Len(frames)
  BY <1>1, <1>7, <1>8
<1>11. QED
  BY <1>1, <1>6, <1>7, <1>8, <1>9, <1>10

LEMMA DebugInvInit == DebugInit => DebugInv
<1> SUFFICES ASSUME DebugInit PROVE DebugInv
  OBVIOUS
<1> USE MonitorAssumption DEF DebugInit
<1>1. FramesInv
  BY DEF FramesInv, Sending
<1>2. ValueTypes
  BY DEF ValueTypes
<1>2a. TornInv
  BY DEF TornInv
<1>3. Absent \in Row /\ Absent.status = 0 /\ Absent.name = 0 /\ Absent.rest = 0 /\ Absent.value = 0
  BY DEF Absent, Row
<1>4. \A v \in Var : debugger_variable[v] = Absent
  BY DEF Var
<1>5. TableInv
  <2>1. \A v \in Var : v \in Int /\ v >= 0
    BY DEF Var
  <2>2. RowsRight
    BY <1>3, <1>4, <2>1 DEF RowsRight
  <2>3. QED
    BY <1>3, <2>2 DEF TableInv
<1>6. ValuesInv
  <2>1. \A k : ~Waits(k)
    BY DEF Waits
  <2>2. QED
    BY <1>3, <1>4, <2>1 DEF ValuesInv
<1>7. QED
  BY <1>1, <1>2, <1>2a, <1>5, <1>6 DEF DebugInv

(* What a variable brings when it is registered.                           *)
LEMMA DebugRegister ==
  ASSUME DebugInv, Register PROVE DebugInv'
<1> DEFINE n == variable_index
           news == [k \in 1 .. 3 |-> FrameOf(k - 1, n, n + 1)]
<1>1. /\ variable_index < Registered /\ variable_index' = n + 1
      /\ frame_buffer' = Packed(variable_dma_counter, news)
      /\ variable_dma_counter' = variable_dma_counter + 3
      /\ dma_frames' = 0 /\ dma_sent' = 0 /\ torn' = {} /\ unsure' = unsure \cup Unsent
      /\ UNCHANGED <<var_now, var_lastvalue, variable_counter_serial, debugger_variable, mixed, spoilt>>
  BY DEF Register, monitor
<1>2. PICK g \in Nat \ {0}, i \in Nat, l \in Nat, d \in Nat :
        g = Registered /\ i = n /\ l = Len(frame_buffer) /\ d = variable_dma_counter
        /\ d <= l /\ l <= 4 * g /\ d <= 3 * i /\ i < g
  <2>1. Len(frame_buffer) \in Nat
    BY LenProperties DEF DebugInv, FramesInv
  <2>2. /\ variable_dma_counter \in 0 .. Len(frame_buffer) /\ Len(frame_buffer) <= 4 * Registered
        /\ variable_dma_counter <= 3 * n /\ n \in 0 .. Registered /\ n < Registered
    BY <1>1 DEF DebugInv, FramesInv
  <2>3. variable_dma_counter \in Nat /\ n \in Nat /\ Registered \in Nat \ {0}
    BY <2>1, <2>2, MonitorAssumption
  <2>4. variable_dma_counter <= Len(frame_buffer)
    BY <2>1, <2>2
  <2>5. QED
    BY <2>1, <2>2, <2>3, <2>4
<1>3. \A k \in 1 .. 3 : /\ news[k] \in Frame /\ FrameRight(news[k]) /\ news[k].pid # 3
  <2> SUFFICES ASSUME NEW k \in 1 .. 3
               PROVE  news[k] \in Frame /\ FrameRight(news[k]) /\ news[k].pid # 3
    OBVIOUS
  <2>1. news[k] = [pid |-> k - 1, index |-> n, data |-> n + 1]
    BY DEF FrameOf
  <2>2. k - 1 \in 0 .. 3 /\ k - 1 # 3 /\ n \in Var /\ n + 1 \in 0 .. Registered
    BY <1>2 DEF Var
  <2>3. QED
    BY <2>1, <2>2 DEF Frame, FrameRight
<1> HIDE DEF news
<1>4. news \in Seq(Frame) /\ Len(news) = 3
  <2>1. news \in [1 .. 3 -> Frame]
    BY <1>3 DEF news
  <2>2. QED
    BY <2>1, AsSequence
<1>5. /\ frame_buffer' \in Seq(Frame)
      /\ Len(frame_buffer') = IF d + 3 > l THEN d + 3 ELSE l
      /\ \A k \in 1 .. Len(frame_buffer') :
           frame_buffer'[k] = IF k > d /\ k <= d + 3 THEN news[k - d] ELSE frame_buffer[k]
  <2>1. PICK b \in Seq(Frame) : b = frame_buffer
    BY DEF DebugInv, FramesInv
  <2>2. d \in 0 .. Len(b) /\ frame_buffer' = Packed(d, news)
    BY <1>1, <1>2, <2>1
  <2>3. /\ Packed(d, news) \in Seq(Frame)
        /\ Len(Packed(d, news)) = IF d + Len(news) > Len(b) THEN d + Len(news) ELSE Len(b)
        /\ \A k \in 1 .. Len(Packed(d, news)) :
             Packed(d, news)[k] = IF k > d /\ k <= d + Len(news) THEN news[k - d] ELSE b[k]
    BY <1>4, <2>1, <2>2, PackedIs
  <2>4. QED
    BY <1>2, <1>4, <2>1, <2>2, <2>3
<1>6. FramesInv'
  <2>1. PICK x \in Nat : x = Len(frame_buffer') /\ x >= l /\ d + 3 <= x /\ x <= 4 * g
                        /\ (x = l \/ x = d + 3)
    BY <1>2, <1>5
  <2>2. \A k \in 1 .. x : FrameRight(frame_buffer'[k])
    <3> SUFFICES ASSUME NEW k \in 1 .. x PROVE FrameRight(frame_buffer'[k])
      OBVIOUS
    <3>1. CASE k > d /\ k <= d + 3
      <4>1. k - d \in 1 .. 3
        BY <1>2, <3>1
      <4>2. QED
        BY <1>3, <1>5, <2>1, <3>1, <4>1
    <3>2. CASE ~(k > d /\ k <= d + 3)
      <4>1. k \in 1 .. l
        BY <1>2, <2>1, <3>2
      <4>2. QED
        BY <1>2, <1>5, <2>1, <3>2, <4>1 DEF DebugInv, FramesInv
    <3>3. QED
      BY <3>1, <3>2
  <2>3. \A k \in 1 .. d + 3 : frame_buffer'[k].pid # 3
    <3> SUFFICES ASSUME NEW k \in 1 .. d + 3 PROVE frame_buffer'[k].pid # 3
      OBVIOUS
    <3>1. CASE k > d
      <4>1. k - d \in 1 .. 3 /\ k \in 1 .. x
        BY <1>2, <2>1, <3>1
      <4>2. QED
        BY <1>3, <1>5, <2>1, <3>1, <4>1
    <3>2. CASE k <= d
      <4>1. k \in 1 .. d /\ k \in 1 .. x
        BY <1>2, <2>1, <3>2
      <4>2. QED
        BY <1>2, <1>5, <2>1, <3>2, <4>1 DEF DebugInv, FramesInv
    <3>3. QED
      BY <1>2, <3>1, <3>2
  <2>4. /\ variable_index' \in 0 .. Registered /\ variable_dma_counter' \in 0 .. x
        /\ variable_dma_counter' <= 3 * variable_index' /\ dma_frames' \in 0 .. x
        /\ dma_sent' \in 0 .. dma_frames' /\ ~Sending'
        /\ variable_dma_counter' = d + 3
    BY <1>1, <1>2, <2>1 DEF Sending
  <2>5. QED
    BY <1>2, <1>5, <2>1, <2>2, <2>3, <2>4 DEF FramesInv
<1>7. ValueTypes'
  <2>1. Unsent \subseteq Var
    <3>1. \A k \in dma_sent + 1 .. dma_frames : frame_buffer[k] \in Frame
      BY <1>2, ElementOfSeq DEF DebugInv, FramesInv
    <3>2. QED
      BY <3>1 DEF Unsent, Frame
  <2>2. QED
    BY <1>1, <2>1 DEF DebugInv, ValueTypes
<1>8. TableInv'
  BY <1>1 DEF DebugInv, TableInv, RowsRight
<1>9. ValuesInv'
  <2>1. \A k : ~Waits(k)'
    BY <1>1 DEF Waits
  <2>2. \A v \in Var \ unsure' : debugger_variable'[v].value = var_lastvalue'[v]
    <3> SUFFICES ASSUME NEW v \in Var \ unsure' PROVE debugger_variable[v].value = var_lastvalue[v]
      BY <1>1
    <3>1. v \notin unsure /\ v \notin Unsent
      BY <1>1
    <3>2. ~(\E k : Waits(k) /\ Brings(k, v))
      BY <3>1 DEF Waits, Brings, Unsent
    <3>3. QED
      BY <3>1, <3>2 DEF DebugInv, ValuesInv
  <2>3. QED
    BY <2>1, <2>2 DEF ValuesInv
<1>10. TornInv'
  BY <1>1 DEF TornInv
<1>11. QED
  BY <1>6, <1>7, <1>8, <1>9, <1>10 DEF DebugInv

LEMMA DebugChange ==
  ASSUME DebugInv, Change PROVE DebugInv'
<1>1. PICK v \in 0 .. variable_index - 1, value \in VarValues : var_now' = [var_now EXCEPT ![v] = value]
  BY DEF Change
<1>2. UNCHANGED <<variable_index, var_lastvalue, frame_buffer, variable_dma_counter, dma_frames, dma_sent,
                  torn, variable_counter_serial, debugger_variable, unsure, mixed, spoilt>>
  BY DEF Change, frame_vars, monitor
<1>3. ValueTypes'
  <2>1. var_now' \in [Var -> VarValues]
    BY <1>1 DEF DebugInv, ValueTypes
  <2>2. QED
    BY <1>2, <2>1 DEF DebugInv, ValueTypes
<1>4. FramesInv' /\ TableInv' /\ TornInv'
  BY <1>2 DEF DebugInv, FramesInv, Sending, TableInv, RowsRight, TornInv
<1>5. ValuesInv'
  BY <1>2 DEF DebugInv, ValuesInv, Waits, Brings
<1>6. QED
  BY <1>3, <1>4, <1>5 DEF DebugInv

LEMMA OrderIs ==
  ASSUME NEW order \in Orders, FramesInv
  PROVE  \E c \in Nat : /\ c <= variable_index /\ Len(order) = c
                        /\ order \in [1 .. c -> Changed]
                        /\ Changed = {order[k] : k \in 1 .. c}
<1>1. PICK c : c = Cardinality(Changed)
  OBVIOUS
<1>2. variable_index \in Nat
  BY MonitorAssumption DEF FramesInv
<1>3. IsFiniteSet(0 .. variable_index - 1) /\ Cardinality(0 .. variable_index - 1) = variable_index
  <2>1. 0 \in Int /\ variable_index - 1 \in Int
    BY <1>2
  <2>2. /\ IsFiniteSet(0 .. variable_index - 1)
        /\ Cardinality(0 .. variable_index - 1)
             = IF 0 > variable_index - 1 THEN 0 ELSE (variable_index - 1) - 0 + 1
    BY <2>1, FS_Interval
  <2>3. QED
    BY <1>2, <2>2
<1>4. IsFiniteSet(Changed) /\ c <= variable_index
  <2>1. Changed \in SUBSET (0 .. variable_index - 1)
    BY DEF Changed
  <2>2. /\ IsFiniteSet(Changed)
        /\ Cardinality(Changed) <= Cardinality(0 .. variable_index - 1)
    BY <1>3, <2>1, FS_Subset
  <2>3. QED
    BY <1>1, <1>3, <2>2
<1>5. c \in Nat
  BY <1>1, <1>4, FS_CardinalityType
<1>6. order \in [1 .. c -> Changed] /\ Changed = {order[k] : k \in DOMAIN order}
  BY <1>1 DEF Orders
<1>7. DOMAIN order = 1 .. c
  BY <1>6
<1>8. Len(order) = c
  BY <1>5, <1>6, AsSequence
<1>9. QED
  BY <1>4, <1>5, <1>6, <1>7, <1>8

LEMMA DebugScan ==
  ASSUME DebugInv, Scan PROVE DebugInv'
<1>1. PICK order \in Orders :
        /\ frame_buffer' = Packed(variable_dma_counter, Reports(order))
        /\ StartSending(variable_dma_counter + Len(order))
  BY DEF Scan
<1>2. /\ variable_dma_counter' = 0
      /\ unsure' = IF Sending THEN unsure \cup Changed \cup Unsent ELSE unsure
      /\ var_lastvalue' = [v \in Var |-> IF v < variable_index THEN var_now[v] ELSE var_lastvalue[v]]
      /\ mixed' = Sending
      /\ UNCHANGED <<variable_index, var_now, variable_counter_serial, debugger_variable, spoilt>>
  BY DEF Scan, Emptied, monitor
<1>3. PICK c \in Nat : /\ c <= variable_index /\ Len(order) = c
                      /\ order \in [1 .. c -> Changed]
                      /\ Changed = {order[k] : k \in 1 .. c}
  BY OrderIs DEF DebugInv
<1>4. PICK g \in Nat \ {0}, i \in Nat, l \in Nat, d \in Nat :
        g = Registered /\ i = variable_index /\ l = Len(frame_buffer) /\ d = variable_dma_counter
        /\ d <= l /\ l <= 4 * g /\ d <= 3 * i /\ i <= g /\ c <= i
  <2>1. Len(frame_buffer) \in Nat
    BY LenProperties DEF DebugInv, FramesInv
  <2>2. /\ variable_dma_counter \in 0 .. Len(frame_buffer) /\ Len(frame_buffer) <= 4 * Registered
        /\ variable_dma_counter <= 3 * variable_index /\ variable_index \in 0 .. Registered
    BY DEF DebugInv, FramesInv
  <2>3. variable_dma_counter \in Nat /\ variable_index \in Nat /\ Registered \in Nat \ {0}
    BY <2>1, <2>2, MonitorAssumption
  <2>4. variable_dma_counter <= Len(frame_buffer) /\ variable_index <= Registered
    BY <2>1, <2>2
  <2>5. QED
    BY <1>3, <2>1, <2>2, <2>3, <2>4
<1>5. \A v \in Changed : v \in Var /\ v < i /\ var_lastvalue'[v] = var_now[v] /\ var_now[v] \in VarValues
  <2> SUFFICES ASSUME NEW v \in Changed
               PROVE  v \in Var /\ v < i /\ var_lastvalue'[v] = var_now[v] /\ var_now[v] \in VarValues
    OBVIOUS
  <2>1. v \in 0 .. i - 1
    BY <1>4 DEF Changed
  <2>2. v \in Var /\ v < i
    BY <1>4, <2>1 DEF Var
  <2>3. QED
    BY <1>2, <1>4, <2>2 DEF DebugInv, ValueTypes
<1>6. \A v \in Var : v \notin Changed => var_lastvalue'[v] = var_lastvalue[v]
  <2> SUFFICES ASSUME NEW v \in Var, v \notin Changed PROVE var_lastvalue'[v] = var_lastvalue[v]
    OBVIOUS
  <2>1. v < i => v \in 0 .. i - 1
    BY <1>4 DEF Var
  <2>2. v < i => var_now[v] = var_lastvalue[v]
    BY <1>4, <2>1 DEF Changed
  <2>3. QED
    BY <1>2, <1>4, <2>2
<1> DEFINE news == [k \in 1 .. c |-> FrameOf(3, order[k], var_now[order[k]])]
<1>7. Reports(order) = news
  BY <1>3 DEF Reports
<1>8. \A k \in 1 .. c : /\ news[k] \in Frame /\ FrameRight(news[k]) /\ news[k].pid = 3
                       /\ news[k].index = order[k] /\ news[k].data = var_now[order[k]]
                       /\ order[k] \in Changed
  <2> SUFFICES ASSUME NEW k \in 1 .. c
               PROVE  /\ news[k] \in Frame /\ FrameRight(news[k]) /\ news[k].pid = 3
                      /\ news[k].index = order[k] /\ news[k].data = var_now[order[k]]
                      /\ order[k] \in Changed
    OBVIOUS
  <2>1. news[k] = [pid |-> 3, index |-> order[k], data |-> var_now[order[k]]]
    BY DEF FrameOf
  <2>2. order[k] \in Changed /\ order[k] \in Var /\ var_now[order[k]] \in VarValues
    BY <1>3, <1>5
  <2>3. QED
    BY <2>1, <2>2 DEF Frame, FrameRight
<1> HIDE DEF news
<1>9. news \in Seq(Frame) /\ Len(news) = c
  <2>1. news \in [1 .. c -> Frame]
    BY <1>8 DEF news
  <2>2. QED
    BY <2>1, AsSequence
<1>10. /\ frame_buffer' \in Seq(Frame)
       /\ Len(frame_buffer') = IF d + c > l THEN d + c ELSE l
       /\ \A k \in 1 .. Len(frame_buffer') :
            frame_buffer'[k] = IF k > d /\ k <= d + c THEN news[k - d] ELSE frame_buffer[k]
  <2>1. PICK b \in Seq(Frame) : b = frame_buffer
    BY DEF DebugInv, FramesInv
  <2>2. d \in 0 .. Len(b) /\ frame_buffer' = Packed(d, news)
    BY <1>1, <1>4, <1>7, <2>1
  <2>3. /\ Packed(d, news) \in Seq(Frame)
        /\ Len(Packed(d, news)) = IF d + Len(news) > Len(b) THEN d + Len(news) ELSE Len(b)
        /\ \A k \in 1 .. Len(Packed(d, news)) :
             Packed(d, news)[k] = IF k > d /\ k <= d + Len(news) THEN news[k - d] ELSE b[k]
    BY <1>9, <2>1, <2>2, PackedIs
  <2>4. QED
    BY <1>4, <1>9, <2>1, <2>2, <2>3
<1>11. PICK x \in Nat : x = Len(frame_buffer') /\ x >= l /\ d + c <= x /\ x <= 4 * g
                       /\ (x = l \/ x = d + c)
  <2>1. PICK y \in Nat : y = d + c
    BY <1>4
  <2>2. Len(frame_buffer') = IF y > l THEN y ELSE l
    BY <1>10, <2>1
  <2>3. l \in Nat /\ l <= 4 * g /\ y <= 4 * g
    BY <1>4, <2>1
  <2>4. CASE y > l
    BY <2>1, <2>2, <2>3, <2>4
  <2>5. CASE ~(y > l)
    BY <2>1, <2>2, <2>3, <2>5
  <2>6. QED
    BY <2>4, <2>5
<1>12. /\ \A k \in 1 .. x : k > d /\ k <= d + c => k - d \in 1 .. c /\ frame_buffer'[k] = news[k - d]
       /\ \A k \in 1 .. x : ~(k > d /\ k <= d + c) => k \in 1 .. l /\ frame_buffer'[k] = frame_buffer[k]
  BY <1>4, <1>10, <1>11
<1>13. PICK s \in Nat, m \in Nat : s = dma_sent /\ m = dma_frames /\ s <= m /\ m <= l /\ (s < m => d = 0)
  <2>2. dma_frames \in 0 .. l /\ dma_sent \in 0 .. dma_frames /\ (dma_sent < dma_frames => d = 0)
    BY <1>4 DEF DebugInv, FramesInv, Sending
  <2>3. dma_frames \in Nat /\ dma_sent \in Nat
    BY <1>4, <2>2
  <2>4. QED
    BY <1>4, <2>2, <2>3
<1>14. \/ dma_frames' = d + c /\ dma_sent' = 0
       \/ s < m /\ dma_frames' = m /\ dma_sent' = s
  BY <1>1, <1>3, <1>4, <1>13 DEF StartSending, Sending
<1>15. FramesInv'
  <2>1. \A k \in 1 .. x : FrameRight(frame_buffer'[k])
    <3> SUFFICES ASSUME NEW k \in 1 .. x PROVE FrameRight(frame_buffer'[k])
      OBVIOUS
    <3>1. CASE k > d /\ k <= d + c
      BY <1>8, <1>12, <3>1
    <3>2. CASE ~(k > d /\ k <= d + c)
      BY <1>4, <1>12, <3>2 DEF DebugInv, FramesInv
    <3>3. QED
      BY <3>1, <3>2
  <2>2. variable_index' \in 0 .. Registered /\ variable_dma_counter' \in 0 .. x
        /\ variable_dma_counter' <= 3 * variable_index' /\ variable_dma_counter' = 0
    BY <1>2, <1>4
  <2>3. dma_frames' \in 0 .. x /\ dma_sent' \in 0 .. dma_frames'
    BY <1>4, <1>11, <1>13, <1>14
  <2>4. \A k \in 1 .. variable_dma_counter' : frame_buffer'[k].pid # 3
    BY <2>2
  <2>5. Sending' => variable_dma_counter' = 0
    BY <2>2
  <2>6. Len(frame_buffer') <= 4 * Registered
    BY <1>4, <1>11
  <2>7. frame_buffer' \in Seq(Frame)
    BY <1>10
  <2>8. QED
    BY <1>11, <2>1, <2>2, <2>3, <2>4, <2>5, <2>6, <2>7 DEF FramesInv
<1>16. ValueTypes'
  <2>1. Unsent \subseteq Var
    <3>1. \A k \in s + 1 .. m : k \in 1 .. l
      BY <1>13
    <3>2. \A k \in 1 .. l : frame_buffer[k] \in Frame
      BY <1>4, ElementOfSeq DEF DebugInv, FramesInv
    <3>3. QED
      BY <1>13, <3>1, <3>2 DEF Unsent, Frame
  <2>2. Changed \subseteq Var
    BY <1>5
  <2>3. var_lastvalue' \in [Var -> VarValues]
    BY <1>2 DEF DebugInv, ValueTypes
  <2>4. QED
    BY <1>2, <2>1, <2>2, <2>3 DEF DebugInv, ValueTypes
<1>17. TableInv'
  BY <1>2 DEF DebugInv, TableInv, RowsRight
<1>18. ValuesInv'
  <2>1. CASE ~Sending
    <3>1. ~(s < m) /\ dma_frames' = d + c /\ dma_sent' = 0 /\ ~mixed' /\ unsure' = unsure
      BY <1>2, <1>13, <1>14, <2>1 DEF Sending
    <3>2. ASSUME NEW k, Waits(k)', frame_buffer'[k].pid = 3
          PROVE  frame_buffer'[k].data = var_lastvalue'[frame_buffer'[k].index]
      <4>1. k \in 1 .. d + c /\ k \in 1 .. x
        BY <1>4, <1>11, <3>1, <3>2 DEF Waits
      <4>2. CASE k <= d
        <5>1. frame_buffer'[k] = frame_buffer[k] /\ k \in 1 .. d
          BY <1>4, <1>12, <4>1, <4>2
        <5>2. frame_buffer[k].pid # 3
          BY <1>4, <5>1 DEF DebugInv, FramesInv
        <5>3. QED
          BY <3>2, <5>1, <5>2
      <4>3. CASE k > d
        <5>1. k - d \in 1 .. c /\ frame_buffer'[k] = news[k - d]
          BY <1>4, <1>12, <4>1, <4>3
        <5>2. QED
          BY <1>5, <1>8, <5>1
      <4>4. QED
        BY <1>4, <4>1, <4>2, <4>3
    <3>3. ASSUME NEW v \in Var \ unsure'
          PROVE  debugger_variable'[v].value = var_lastvalue'[v] \/ \E k : Waits(k)' /\ Brings(k, v)'
      <4>1. CASE v \in Changed
        <5>1. PICK j \in 1 .. c : v = order[j]
          BY <1>3, <4>1
        <5>2. PICK k \in 1 .. x : k = d + j /\ k > d /\ k <= d + c /\ k - d = j
          BY <1>4, <1>11
        <5>3. frame_buffer'[k] = news[j]
          BY <1>12, <5>2
        <5>4. Brings(k, v)'
          BY <1>8, <5>1, <5>3 DEF Brings
        <5>5. Waits(k)'
          BY <1>4, <3>1, <5>2 DEF Waits
        <5>6. QED
          BY <5>4, <5>5
      <4>2. CASE v \notin Changed
        <5>1. v \in Var \ unsure
          BY <3>1, <3>3
        <5>2. \A k : ~Waits(k)
          BY <1>13, <3>1 DEF Waits
        <5>3. debugger_variable[v].value = var_lastvalue[v]
          BY <5>1, <5>2 DEF DebugInv, ValuesInv
        <5>4. QED
          BY <1>2, <1>6, <4>2, <5>3
      <4>3. QED
        BY <4>1, <4>2
    <3>4. QED
      BY <3>1, <3>2, <3>3 DEF ValuesInv
  <2>2. CASE Sending
    <3>1. s < m /\ d = 0 /\ mixed' /\ unsure' = unsure \cup Changed \cup Unsent
      <4>1. s < m
        BY <1>13, <2>2 DEF Sending
      <4>2. mixed'
        BY <1>2, <2>2, Zenon
      <4>3. QED
        BY <1>2, <1>13, <2>2, <4>1, <4>2
    <3>2. ASSUME NEW k, Waits(k)', frame_buffer'[k].pid = 3
          PROVE  frame_buffer'[k].index \in unsure'
      <4>1. k \in 1 .. x /\ k \in dma_sent' + 1 .. dma_frames'
        BY <1>4, <1>11, <1>13, <1>14, <3>2 DEF Waits
      <4>2. CASE k > d /\ k <= d + c
        <5>1. frame_buffer'[k].index \in Changed
          BY <1>8, <1>12, <4>1, <4>2
        <5>2. QED
          BY <3>1, <5>1
      <4>3. CASE ~(k > d /\ k <= d + c)
        <5>1. frame_buffer'[k] = frame_buffer[k] /\ k > c
          BY <1>12, <3>1, <4>1, <4>3
        <5>2. k \in dma_sent + 1 .. dma_frames
          BY <1>13, <1>14, <3>1, <4>1, <5>1
        <5>3. QED
          BY <3>1, <5>1, <5>2 DEF Unsent
      <4>4. QED
        BY <4>2, <4>3
    <3>3. ASSUME NEW v \in Var \ unsure' PROVE debugger_variable'[v].value = var_lastvalue'[v]
      <4>1. v \in Var \ unsure /\ v \notin Changed /\ v \notin Unsent
        BY <3>1, <3>3
      <4>2. ~(\E k : Waits(k) /\ Brings(k, v))
        BY <4>1 DEF Waits, Brings, Unsent
      <4>3. debugger_variable[v].value = var_lastvalue[v]
        BY <4>1, <4>2 DEF DebugInv, ValuesInv
      <4>4. QED
        BY <1>2, <1>6, <4>1, <4>3
    <3>4. QED
      BY <3>1, <3>2, <3>3 DEF ValuesInv
  <2>3. QED
    BY <2>1, <2>2
<1>19. TornInv'
  <2>1. CASE torn' = {}
    BY <2>1 DEF TornInv
  <2>2. CASE torn' # {}
    <3>1. /\ Sending /\ dma_frames' = dma_frames /\ dma_sent' = dma_sent
          /\ torn' \subseteq {frame_buffer[dma_sent + 1]}
      BY <1>1, <2>2 DEF StartSending
    <3>2. Sending' /\ mixed'
      BY <1>2, <3>1, Zenon DEF Sending
    <3>3. frame_buffer[dma_sent + 1] \in Frame
      <4>1. s < m /\ s + 1 \in 1 .. l /\ dma_sent + 1 = s + 1
        BY <1>13, <3>1 DEF Sending
      <4>2. QED
        BY <1>4, <4>1, ElementOfSeq DEF DebugInv, FramesInv
    <3>4. QED
      BY <3>1, <3>2, <3>3, Zenon DEF TornInv
  <2>3. QED
    BY <2>1, <2>2
<1>20. QED
  BY <1>15, <1>16, <1>17, <1>18, <1>19 DEF DebugInv


(* Of the frames that wait one less does.                                  *)
LEMMA OneSent ==
  ASSUME FramesInv, Sending, dma_sent' = dma_sent + 1,
         UNCHANGED <<variable_index, frame_buffer, variable_dma_counter, dma_frames>>
  PROVE  /\ FramesInv'
         /\ Waits(dma_sent + 1) /\ dma_sent + 1 \in 1 .. Len(frame_buffer)
         /\ frame_buffer[dma_sent + 1] \in Frame /\ FrameRight(frame_buffer[dma_sent + 1])
         /\ \A k : Waits(k)' <=> Waits(k) /\ k # dma_sent + 1
<1>1. PICK l \in Nat, m \in Nat, s \in Nat :
        l = Len(frame_buffer) /\ m = dma_frames /\ s = dma_sent /\ s < m /\ m <= l
  <2>1. PICK l \in Nat : l = Len(frame_buffer)
    BY LenProperties DEF FramesInv
  <2>2. dma_frames \in 0 .. l /\ dma_sent \in 0 .. dma_frames /\ dma_sent < dma_frames
    BY <2>1 DEF FramesInv, Sending
  <2>3. dma_frames \in Nat
    BY <2>1, <2>2
  <2>4. QED
    BY <2>1, <2>2, <2>3
<1>2. s + 1 \in 1 .. l /\ s + 1 \in s + 1 .. m /\ dma_sent' = s + 1
  BY <1>1
<1>3. FramesInv'
  <2>1. dma_sent' \in 0 .. dma_frames'
    BY <1>1, <1>2
  <2>2. Sending' => variable_dma_counter' = 0
    BY DEF FramesInv
  <2>3. QED
    BY <2>1, <2>2 DEF FramesInv
<1>4. Waits(dma_sent + 1)
  BY <1>1, <1>2 DEF Waits
<1>5. frame_buffer[dma_sent + 1] \in Frame /\ FrameRight(frame_buffer[dma_sent + 1])
  BY <1>1, <1>2, ElementOfSeq DEF FramesInv
<1>6. \A k : Waits(k)' <=> Waits(k) /\ k # dma_sent + 1
  BY <1>1, <1>2 DEF Waits
<1>7. QED
  BY <1>1, <1>2, <1>3, <1>4, <1>5, <1>6

(* The first frames of a variable fill its row; if one of them was torn,   *)
(* the row is spoilt.                                                      *)
LEMMA RowSet ==
  ASSUME TableInv, ValueTypes,
         NEW f \in Frame, f.pid \in 0 .. 2, f.data \in 0 .. Registered, Take0to2(f),
         spoilt \subseteq spoilt',
         IsNext(f.index) => FrameRight(f) \/ f.index \in spoilt'
  PROVE  /\ TableInv'
         /\ \A v \in Var : debugger_variable'[v].value = debugger_variable[v].value
<1> DEFINE n == variable_counter_serial
<1>1. CASE ~IsNext(f.index)
  <2>1. UNCHANGED <<variable_counter_serial, debugger_variable>>
    BY <1>1 DEF Take0to2, monitor
  <2>2. QED
    BY <2>1 DEF TableInv, RowsRight
<1>2. CASE IsNext(f.index)
  <2>1. PICK g \in Nat \ {0}, i \in Nat :
          g = Registered /\ i = n /\ i < g /\ f.index = i /\ n \in Var
    BY <1>2, MonitorAssumption DEF IsNext, Frame, Var
  <2>1a. PICK e \in 0 .. Registered : f.data = e /\ (e = i + 1 \/ i \in spoilt')
    BY <1>2, <2>1 DEF FrameRight
  <2>2. i \in 0 .. Registered /\ i + 1 \in 0 .. Registered
    BY <2>1
  <2>3. debugger_variable \in [0 .. Registered -> Row] /\ debugger_variable[i] \in Row
    BY <2>2 DEF TableInv
  <2> DEFINE old == debugger_variable[i]
  <2>4. PICK cell \in Row :
          /\ debugger_variable' = [debugger_variable EXCEPT ![i] = cell]
          /\ cell.value = old.value
          /\ cell.status \in {old.status, e} /\ cell.name \in {old.name, e}
          /\ cell.rest \in {old.rest, e}
          /\ f.pid = 2 => cell.rest = e
    <3>1. CASE f.pid = 0
      <4>1. SetRow("status", e)
        BY <1>2, <2>1, <2>1a, <3>1 DEF Take0to2
      <4>2. debugger_variable' = [debugger_variable EXCEPT ![i] = [old EXCEPT !.status = e]]
        BY <2>1, <4>1 DEF SetRow
      <4>3. PICK cell : cell = [old EXCEPT !.status = e]
        OBVIOUS
      <4>4. old \in Row /\ cell \in Row
        BY <2>2, <2>3, <4>3 DEF Row
      <4>5. cell.status = e /\ cell.name = old.name /\ cell.rest = old.rest /\ cell.value = old.value
        BY <2>2, <2>3, <4>3 DEF Row
      <4>6. debugger_variable' = [debugger_variable EXCEPT ![i] = cell]
        BY <4>2, <4>3
      <4> HIDE DEF old
      <4>7. /\ cell.status \in {old.status, e} /\ cell.name \in {old.name, e}
            /\ cell.rest \in {old.rest, e}
        BY <4>5
      <4>8. f.pid = 2 => cell.rest = e
        BY <3>1, <4>5
      <4>9. QED
        BY <4>4, <4>5, <4>6, <4>7, <4>8, Zenon
    <3>2. CASE f.pid = 1
      <4>1. SetRow("name", e)
        BY <1>2, <2>1, <2>1a, <3>2 DEF Take0to2
      <4>2. debugger_variable' = [debugger_variable EXCEPT ![i] = [old EXCEPT !.name = e]]
        BY <2>1, <4>1 DEF SetRow
      <4>3. PICK cell : cell = [old EXCEPT !.name = e]
        OBVIOUS
      <4>4. old \in Row /\ cell \in Row
        BY <2>2, <2>3, <4>3 DEF Row
      <4>5. cell.status = old.status /\ cell.name = e /\ cell.rest = old.rest /\ cell.value = old.value
        BY <2>2, <2>3, <4>3 DEF Row
      <4>6. debugger_variable' = [debugger_variable EXCEPT ![i] = cell]
        BY <4>2, <4>3
      <4> HIDE DEF old
      <4>7. /\ cell.status \in {old.status, e} /\ cell.name \in {old.name, e}
            /\ cell.rest \in {old.rest, e}
        BY <4>5
      <4>8. f.pid = 2 => cell.rest = e
        BY <3>2, <4>5
      <4>9. QED
        BY <4>4, <4>5, <4>6, <4>7, <4>8, Zenon
    <3>3. CASE f.pid = 2
      <4>1. SetRow("rest", e)
        BY <1>2, <2>1, <2>1a, <3>3 DEF Take0to2
      <4>2. debugger_variable' = [debugger_variable EXCEPT ![i] = [old EXCEPT !.rest = e]]
        BY <2>1, <4>1 DEF SetRow
      <4>3. PICK cell : cell = [old EXCEPT !.rest = e]
        OBVIOUS
      <4>4. old \in Row /\ cell \in Row
        BY <2>2, <2>3, <4>3 DEF Row
      <4>5. cell.status = old.status /\ cell.name = old.name /\ cell.rest = e /\ cell.value = old.value
        BY <2>2, <2>3, <4>3 DEF Row
      <4>6. debugger_variable' = [debugger_variable EXCEPT ![i] = cell]
        BY <4>2, <4>3
      <4> HIDE DEF old
      <4>7. /\ cell.status \in {old.status, e} /\ cell.name \in {old.name, e}
            /\ cell.rest \in {old.rest, e}
        BY <4>5
      <4>8. f.pid = 2 => cell.rest = e
        BY <3>3, <4>5
      <4>9. QED
        BY <4>4, <4>5, <4>6, <4>7, <4>8, Zenon
    <3>4. QED
      BY <3>1, <3>2, <3>3
  <2>5. variable_counter_serial' = IF f.pid = 2 THEN i + 1 ELSE i
    BY <1>2, <2>1 DEF Take0to2
  <2>6. /\ debugger_variable' \in [0 .. Registered -> Row]
        /\ \A v \in Var : debugger_variable'[v] = IF v = i THEN cell ELSE debugger_variable[v]
    BY <2>1, <2>2, <2>3, <2>4 DEF Var
  <2>7. RowsRight'
    <3> SUFFICES ASSUME NEW v \in Var \ spoilt'
                 PROVE  LET w == debugger_variable'[v]
                        IN  /\ {w.status, w.name, w.rest} \subseteq {0, v + 1}
                            /\ v < variable_counter_serial' => w.rest = v + 1
      BY DEF RowsRight, Var
    <3>1. LET w == debugger_variable[v]
          IN  /\ {w.status, w.name, w.rest} \subseteq {0, v + 1}
              /\ v < i => w.rest = v + 1
      BY <2>1 DEF TableInv, RowsRight
    <3>2. CASE v = i
      BY <2>1, <2>1a, <2>4, <2>5, <2>6, <3>1, <3>2
    <3>3. CASE v # i
      <4>1. v < variable_counter_serial' => v < i
        BY <2>1, <2>5, <3>3 DEF Var
      <4>2. QED
        BY <2>6, <3>1, <3>3, <4>1
    <3>4. QED
      BY <3>2, <3>3
  <2>8. variable_counter_serial' \in 0 .. Registered
    BY <2>2, <2>5
  <2>9. \A v \in Var : debugger_variable'[v].value = debugger_variable[v].value
    BY <2>4, <2>6
  <2>10. QED
    BY <2>6, <2>7, <2>8, <2>9 DEF TableInv
<1>3. QED
  BY <1>1, <1>2

LEMMA DebugReceive ==
  ASSUME DebugInv, ReceiveFrame PROVE DebugInv'
<1> DEFINE s == dma_sent
           f == frame_buffer[s + 1]
<1>0. PICK h \in Arriving :
        /\ Take0to2(h) \/ Take3(h)
        /\ unsure' = IF h.pid # 3 THEN unsure
                     ELSE IF mixed \/ variable_counter_serial <= h.index
                       THEN unsure \cup {h.index} ELSE unsure \ {h.index}
        /\ spoilt' = IF h.pid # 3 /\ IsNext(h.index) /\ h # f THEN spoilt \cup {h.index} ELSE spoilt
  BY DEF ReceiveFrame
<1>1. /\ Sending /\ dma_sent' = s + 1 /\ torn' = {}
      /\ UNCHANGED <<variable_index, var_now, var_lastvalue, frame_buffer, variable_dma_counter, dma_frames,
                     mixed>>
  BY DEF ReceiveFrame, program, frame_vars
<1>2. /\ FramesInv' /\ Waits(s + 1) /\ f \in Frame /\ FrameRight(f)
      /\ \A k : Waits(k)' <=> Waits(k) /\ k # s + 1
  BY <1>1, OneSent DEF DebugInv
<1>2a. TornInv'
  BY <1>1 DEF TornInv
<1>3. /\ h \in Frame /\ h.data \in IF h.pid = 3 THEN VarValues ELSE 0 .. Registered
      /\ h = f \/ mixed
  <2>1. CASE torn \subseteq {f}
    <3>1. h = f
      BY <1>0, <2>1 DEF Arriving
    <3>2. f.index \in Var /\ f.index + 1 \in 0 .. Registered
      BY <1>2, MonitorAssumption DEF Frame, Var
    <3>3. QED
      BY <1>2, <3>1, <3>2 DEF FrameRight
  <2>2. CASE ~(torn \subseteq {f})
    <3>1. mixed
      BY <2>2, Zenon DEF DebugInv, TornInv
    <3>2. h \in Frame /\ h.data \in IF h.pid = 3 THEN VarValues ELSE 0 .. Registered
      BY <1>0, <2>2 DEF Arriving
    <3>3. QED
      BY <3>1, <3>2
  <2>3. QED
    BY <2>1, <2>2
<1> HIDE DEF s
<1> HIDE DEF f
<1>4. h.index \in Var
  BY <1>3 DEF Frame
<1>5. ValueTypes'
  BY <1>0, <1>1, <1>4 DEF DebugInv, ValueTypes
<1>6. \A k, v : Brings(k, v)' <=> Brings(k, v)
  BY <1>1 DEF Brings
<1>7. \A v : Brings(s + 1, v) <=> f.pid = 3 /\ f.index = v
  BY DEF Brings, f
<1>7a. f.pid = 3 /\ mixed => f.index \in unsure
  BY <1>2 DEF DebugInv, ValuesInv, f
<1>7b. \A v \in Var \ unsure : (h = f /\ h.pid = 3 /\ h.index = v) \/ ~Brings(s + 1, v)
  BY <1>3, <1>7, <1>7a
<1>8. ASSUME NEW k, Waits(k)', frame_buffer'[k].pid = 3
      PROVE  IF mixed' THEN frame_buffer'[k].index \in unsure'
             ELSE frame_buffer'[k].data = var_lastvalue'[frame_buffer'[k].index]
  <2>1. IF mixed THEN frame_buffer[k].index \in unsure
        ELSE frame_buffer[k].data = var_lastvalue[frame_buffer[k].index]
    BY <1>1, <1>2, <1>8 DEF DebugInv, ValuesInv
  <2>2. mixed => unsure \subseteq unsure'
    BY <1>0
  <2>3. QED
    BY <1>1, <2>1, <2>2
<1>9. CASE h.pid # 3
  <2>1. Take0to2(h) /\ h.pid \in 0 .. 2 /\ unsure' = unsure
    BY <1>0, <1>9 DEF Take0to2, Take3
  <2>1a. spoilt \subseteq spoilt' /\ (IsNext(h.index) => FrameRight(h) \/ h.index \in spoilt')
    BY <1>0, <1>2, <1>9
  <2>2. TableInv' /\ \A v \in Var : debugger_variable'[v].value = debugger_variable[v].value
    BY <1>3, <1>9, <2>1, <2>1a, RowSet DEF DebugInv
  <2>3. ASSUME NEW v \in Var \ unsure'
        PROVE  debugger_variable'[v].value = var_lastvalue'[v] \/ \E k : Waits(k)' /\ Brings(k, v)'
    <3>1. debugger_variable[v].value = var_lastvalue[v] \/ \E k : Waits(k) /\ Brings(k, v)
      BY <2>1, <2>3 DEF DebugInv, ValuesInv
    <3>2. ~Brings(s + 1, v)
      BY <1>7b, <1>9, <2>1, <2>3
    <3>3. CASE debugger_variable[v].value = var_lastvalue[v]
      BY <1>1, <2>2, <3>3
    <3>4. CASE \E k : Waits(k) /\ Brings(k, v)
      BY <1>2, <1>6, <3>2, <3>4
    <3>5. QED
      BY <3>1, <3>3, <3>4
  <2>4. ValuesInv'
    BY <1>8, <2>3 DEF ValuesInv
  <2>5. QED
    BY <1>2, <1>2a, <1>5, <2>2, <2>4 DEF DebugInv
<1>10. CASE h.pid = 3
  <2>1. Take3(h) /\ h.data \in VarValues
    BY <1>0, <1>3, <1>10 DEF Take0to2
  <2>1a. spoilt' = spoilt
    BY <1>0, <1>10
  <2>2. h.index \in 0 .. Registered /\ debugger_variable \in [0 .. Registered -> Row]
    BY <1>4, MonitorAssumption DEF Var, DebugInv, TableInv
  <2>3. /\ variable_counter_serial' = variable_counter_serial
        /\ debugger_variable' = IF variable_counter_serial > h.index
                                  THEN [debugger_variable EXCEPT ![h.index].value = h.data]
                                  ELSE debugger_variable
    BY <2>1 DEF Take3
  <2>4. debugger_variable' \in [0 .. Registered -> Row]
    BY <2>1, <2>2, <2>3 DEF Row
  <2>5. \A v \in Var : /\ debugger_variable'[v].status = debugger_variable[v].status
                       /\ debugger_variable'[v].name = debugger_variable[v].name
                       /\ debugger_variable'[v].rest = debugger_variable[v].rest
                       /\ v # h.index => debugger_variable'[v].value = debugger_variable[v].value
    <3> SUFFICES ASSUME NEW v \in Var
                 PROVE  /\ debugger_variable'[v].status = debugger_variable[v].status
                        /\ debugger_variable'[v].name = debugger_variable[v].name
                        /\ debugger_variable'[v].rest = debugger_variable[v].rest
                        /\ v # h.index => debugger_variable'[v].value = debugger_variable[v].value
      OBVIOUS
    <3>1. v \in 0 .. Registered
      BY MonitorAssumption DEF Var
    <3>2. debugger_variable[v] \in Row
      BY <2>2, <3>1
    <3>3. QED
      BY <2>2, <2>3, <3>1, <3>2 DEF Row
  <2>6. TableInv'
    <3>1. RowsRight'
      BY <2>1a, <2>3, <2>5 DEF DebugInv, TableInv, RowsRight
    <3>2. QED
      BY <2>3, <2>4, <3>1 DEF DebugInv, TableInv
  <2>7. ASSUME NEW v \in Var \ unsure', v # h.index
        PROVE  debugger_variable'[v].value = var_lastvalue'[v] \/ \E k : Waits(k)' /\ Brings(k, v)'
    <3>1. v \in Var \ unsure
      BY <1>0, <2>7
    <3>2. debugger_variable[v].value = var_lastvalue[v] \/ \E k : Waits(k) /\ Brings(k, v)
      BY <3>1 DEF DebugInv, ValuesInv
    <3>3. ~Brings(s + 1, v)
      BY <1>7b, <2>7, <3>1
    <3>4. CASE debugger_variable[v].value = var_lastvalue[v]
      BY <1>1, <2>5, <2>7, <3>4
    <3>5. CASE \E k : Waits(k) /\ Brings(k, v)
      BY <1>2, <1>6, <3>3, <3>5
    <3>6. QED
      BY <3>2, <3>4, <3>5
  <2>8. ASSUME h.index \notin unsure'
        PROVE  debugger_variable'[h.index].value = var_lastvalue'[h.index]
    <3>1. ~mixed /\ ~(variable_counter_serial <= h.index)
      BY <1>0, <1>10, <2>8
    <3>2. variable_counter_serial > h.index
      BY <1>4, <3>1, MonitorAssumption DEF Var, DebugInv, TableInv
    <3>3. debugger_variable'[h.index].value = h.data
      BY <2>1, <2>2, <2>3, <3>2 DEF Row
    <3>4. h.data = var_lastvalue[h.index]
      BY <1>2, <1>3, <1>10, <3>1 DEF DebugInv, ValuesInv, f
    <3>5. QED
      BY <1>1, <3>3, <3>4
  <2>9. ValuesInv'
    <3>1. ASSUME NEW v \in Var \ unsure'
          PROVE  debugger_variable'[v].value = var_lastvalue'[v] \/ \E k : Waits(k)' /\ Brings(k, v)'
      BY <2>7, <2>8
    <3>2. QED
      BY <1>8, <3>1 DEF ValuesInv
  <2>10. QED
    BY <1>2, <1>2a, <1>5, <2>6, <2>9 DEF DebugInv
<1>11. QED
  BY <1>9, <1>10

LEMMA DebugLose ==
  ASSUME DebugInv, LoseFrame PROVE DebugInv'
<1> DEFINE s == dma_sent
           f == frame_buffer[s + 1]
<1>1. /\ Sending /\ dma_sent' = s + 1 /\ torn' = {} /\ unsure' = unsure \cup {f.index}
      /\ UNCHANGED <<variable_index, var_now, var_lastvalue, frame_buffer, variable_dma_counter, dma_frames,
                     variable_counter_serial, debugger_variable, mixed, spoilt>>
  BY DEF LoseFrame, program, frame_vars, monitor
<1>2. /\ FramesInv' /\ f \in Frame /\ \A k : Waits(k)' <=> Waits(k) /\ k # s + 1
  BY <1>1, OneSent DEF DebugInv
<1>3. f.index \in Var
  BY <1>2 DEF Frame
<1>4. ValueTypes' /\ TableInv' /\ TornInv'
  BY <1>1, <1>3 DEF DebugInv, ValueTypes, TableInv, RowsRight, TornInv
<1>5. \A k, v : Brings(k, v)' <=> Brings(k, v)
  BY <1>1 DEF Brings
<1>6. ASSUME NEW v \in Var \ unsure'
      PROVE  debugger_variable'[v].value = var_lastvalue'[v] \/ \E k : Waits(k)' /\ Brings(k, v)'
  <2>1. v \in Var \ unsure /\ v # f.index
    BY <1>1
  <2>2. debugger_variable[v].value = var_lastvalue[v] \/ \E k : Waits(k) /\ Brings(k, v)
    BY <2>1 DEF DebugInv, ValuesInv
  <2>3. ~Brings(s + 1, v)
    BY <2>1 DEF Brings
  <2> HIDE DEF s, f
  <2>4. CASE debugger_variable[v].value = var_lastvalue[v]
    BY <1>1, <2>4
  <2>5. CASE \E k : Waits(k) /\ Brings(k, v)
    BY <1>2, <1>5, <2>3, <2>5
  <2>6. QED
    BY <2>2, <2>4, <2>5
<1>7. ValuesInv'
  <2> HIDE DEF s, f
  <2>1. ASSUME NEW k, Waits(k)', frame_buffer'[k].pid = 3
        PROVE  IF mixed' THEN frame_buffer'[k].index \in unsure'
               ELSE frame_buffer'[k].data = var_lastvalue'[frame_buffer'[k].index]
    BY <1>1, <1>2, <2>1 DEF DebugInv, ValuesInv
  <2>2. QED
    BY <1>6, <2>1 DEF ValuesInv
<1>8. QED
  BY <1>2, <1>4, <1>7 DEF DebugInv

LEMMA DebugClear ==
  ASSUME DebugInv, ClearTable PROVE DebugInv'
<1>1. /\ debugger_variable' = [v \in 0 .. Registered |->
           IF v < variable_counter_serial THEN Absent ELSE debugger_variable[v]]
      /\ variable_counter_serial' = 0 /\ unsure' = Var
      /\ spoilt' = spoilt \ (0 .. variable_counter_serial - 1)
      /\ UNCHANGED <<variable_index, var_now, var_lastvalue, frame_buffer, variable_dma_counter, dma_frames,
                     dma_sent, torn, mixed>>
  BY DEF ClearTable, program, frame_vars
<1>2. FramesInv' /\ ValueTypes' /\ TornInv'
  BY <1>1 DEF DebugInv, FramesInv, Sending, ValueTypes, TornInv
<1>3. Absent \in Row /\ Absent.status = 0 /\ Absent.name = 0 /\ Absent.rest = 0
  BY MonitorAssumption DEF Absent, Row
<1>4. debugger_variable' \in [0 .. Registered -> Row]
  BY <1>1, <1>3 DEF DebugInv, TableInv
<1>5. RowsRight'
  <2> SUFFICES ASSUME NEW v \in Var \ spoilt'
               PROVE  LET w == debugger_variable'[v]
                      IN  /\ {w.status, w.name, w.rest} \subseteq {0, v + 1}
                          /\ v < variable_counter_serial' => w.rest = v + 1
    BY DEF RowsRight, Var
  <2>1. v \in 0 .. Registered /\ ~(v < 0)
    BY MonitorAssumption DEF Var
  <2>2. debugger_variable'[v] = Absent \/ (debugger_variable'[v] = debugger_variable[v] /\ v \notin spoilt)
    <3>1. variable_counter_serial \in 0 .. Registered
      BY DEF DebugInv, TableInv
    <3>2. CASE v < variable_counter_serial
      BY <1>1, <2>1, <3>2
    <3>3. CASE ~(v < variable_counter_serial)
      <4>1. v \notin 0 .. variable_counter_serial - 1
        BY <2>1, <3>1, <3>3, MonitorAssumption
      <4>2. QED
        BY <1>1, <2>1, <3>3, <4>1
    <3>4. QED
      BY <3>2, <3>3
  <2>3. QED
    BY <1>1, <1>3, <2>1, <2>2 DEF DebugInv, TableInv, RowsRight
<1>6. TableInv'
  BY <1>1, <1>4, <1>5, MonitorAssumption DEF TableInv
<1>7. ValuesInv'
  <2>1. ASSUME NEW k, Waits(k)', frame_buffer'[k].pid = 3
        PROVE  IF mixed' THEN frame_buffer'[k].index \in unsure'
               ELSE frame_buffer'[k].data = var_lastvalue'[frame_buffer'[k].index]
    <3>1. Waits(k) /\ frame_buffer[k].pid = 3
      BY <1>1, <2>1 DEF Waits
    <3>2. unsure \subseteq unsure'
      BY <1>1 DEF DebugInv, ValueTypes
    <3>3. QED
      BY <1>1, <3>1, <3>2 DEF DebugInv, ValuesInv
  <2>2. Var' \ unsure' = {}
    BY <1>1 DEF Var
  <2>3. QED
    BY <2>1, <2>2 DEF ValuesInv
<1>8. QED
  BY <1>2, <1>6, <1>7 DEF DebugInv

LEMMA DebugInvStep ==
  ASSUME DebugInv, [DebugNext]_debug_vars PROVE DebugInv'
<1>1. CASE UNCHANGED debug_vars
  BY <1>1 DEF debug_vars, program, frame_vars, monitor, DebugInv, FramesInv, Sending, ValueTypes, TornInv, TableInv,
              RowsRight, ValuesInv, Waits, Brings
<1>2. CASE DebugNext
  BY <1>2, DebugRegister, DebugChange, DebugScan, DebugReceive, DebugLose, DebugClear DEF DebugNext
<1>3. QED
  BY <1>1, <1>2

LEMMA DebugAlways == DebugSpec => []DebugInv
BY DebugInvInit, DebugInvStep, PTL DEF DebugSpec

(* The types of the debug monitor: the frames of all variables and their   *)
(* values never need more of variable_mdtp_dma_buffer than there is of it. *)
THEOREM DebugTypes == DebugSpec => []DebugTypeOK
<1>1. ASSUME DebugInv PROVE DebugTypeOK
  <2>1. PICK l \in Nat : l = Len(frame_buffer)
    BY <1>1, LenProperties DEF DebugInv, FramesInv
  <2>2. l <= 4 * Registered /\ 4 * Registered <= FrameBuffers /\ Registered \in Nat /\ FrameBuffers \in Int
    BY <1>1, <2>1, MonitorAssumption DEF DebugInv, FramesInv
  <2>3. l <= FrameBuffers
    BY <2>1, <2>2
  <2>4. variable_dma_counter \in 0 .. FrameBuffers
    BY <1>1, <2>1, <2>2, <2>3 DEF DebugInv, FramesInv
  <2>5. QED
    BY <1>1, <2>1, <2>3, <2>4 DEF DebugInv, FramesInv, TableInv, DebugTypeOK
<1>2. QED
  BY <1>1, DebugAlways, PTL

(* A cell of the table of the PC tool is of one variable whatever is lost,  *)
(* and when nothing is being sent it shows the value of the last scan,     *)
(* unless a frame of the variable was lost or two scans got mixed.         *)
THEOREM TableKept == DebugSpec => []TableRight
<1>1. ASSUME DebugInv PROVE TableRight
  <2>1. RowsRight
    BY <1>1 DEF DebugInv, TableInv
  <2>2. ASSUME ~Sending, NEW v \in 0 .. variable_counter_serial - 1, v \notin unsure
        PROVE  debugger_variable[v].value = var_lastvalue[v]
    <3>1. v \in Var
      BY <1>1, MonitorAssumption DEF Var, DebugInv, TableInv
    <3>2. dma_sent \in Int /\ dma_frames \in Int
      <4>1. PICK l \in Nat : l = Len(frame_buffer)
        BY <1>1, LenProperties DEF DebugInv, FramesInv
      <4>2. dma_frames \in 0 .. l /\ dma_sent \in 0 .. dma_frames
        BY <1>1, <4>1 DEF DebugInv, FramesInv
      <4>3. dma_frames \in Int
        BY <4>1, <4>2
      <4>4. QED
        BY <4>2, <4>3
    <3>3. \A k : ~Waits(k)
      BY <2>2, <3>2 DEF Sending, Waits
    <3>4. QED
      BY <1>1, <2>2, <3>1, <3>3 DEF DebugInv, ValuesInv
  <2>3. QED
    BY <2>1, <2>2 DEF TableRight, ShownIsLast
<1>2. QED
  BY <1>1, DebugAlways, PTL

-----------------------------------------------------------------------------
(* The touch samples.  Not more than one of the readings is off.           *)
Readings    == [Sample -> Nat]
OneOff(v)   == \A i, j \in Sample : i # j => Near(v[i]) \/ Near(v[j])

(* The first i are in order, and the one at i is not less than those       *)
(* between it and n.                                                       *)
InOrderTo(v, i)  == \A a, b \in Sample : a < i /\ a < b => v[a] >= v[b]
HeadOf(v, i, n)  == \A b \in Sample : i < b /\ b < n => v[i] >= v[b]

LEMMA ReadTimes ==
  \E n \in Nat : n = TOUCH_READ_TIMES /\ n > 2 /\ Sample = 0 .. n - 1
BY TouchAssumption DEF Sample

LEMMA ExchangeOrders ==
  ASSUME NEW v \in Readings, NEW i \in Sample, NEW j \in Sample
  PROVE  LET w == Exchanged(v, i, j)
         IN  /\ w \in Readings
             /\ OneOff(v) => OneOff(w)
             /\ InOrderTo(v, i) => InOrderTo(w, i)
             /\ HeadOf(v, i, j) => HeadOf(w, i, j + 1)
<1> DEFINE w == Exchanged(v, i, j)
<1>1. \A k \in Sample : k \in Int /\ v[k] \in Nat
  BY ReadTimes DEF Readings
<1>2. CASE ~(i < j /\ v[i] < v[j])
  <2>1. w = v
    BY <1>2 DEF Exchanged
  <2>2. HeadOf(v, i, j) => HeadOf(w, i, j + 1)
    BY <1>1, <1>2, <2>1 DEF HeadOf
  <2>3. QED
    BY <2>1, <2>2
<1>3. CASE i < j /\ v[i] < v[j]
  <2>1. w = [v EXCEPT ![i] = v[j], ![j] = v[i]]
    BY <1>3 DEF Exchanged
  <2>2. /\ w \in Readings
        /\ \A k \in Sample : w[k] = IF k = j THEN v[i] ELSE IF k = i THEN v[j] ELSE v[k]
    BY <2>1 DEF Readings
  <2> HIDE DEF w
  <2>3. OneOff(v) => OneOff(w)
    <3> SUFFICES ASSUME OneOff(v), NEW a \in Sample, NEW b \in Sample, a # b
                 PROVE  Near(w[a]) \/ Near(w[b])
      BY DEF OneOff
    <3> DEFINE at(k) == IF k = j THEN i ELSE IF k = i THEN j ELSE k
    <3>1. at(a) \in Sample /\ at(b) \in Sample /\ at(a) # at(b)
      OBVIOUS
    <3>2. w[a] = v[at(a)] /\ w[b] = v[at(b)]
      BY <1>3, <2>2
    <3> HIDE DEF at
    <3>3. QED
      BY <3>1, <3>2 DEF OneOff
  <2>4. InOrderTo(v, i) => InOrderTo(w, i)
    BY <1>1, <1>3, <2>2 DEF InOrderTo
  <2>5. HeadOf(v, i, j) => HeadOf(w, i, j + 1)
    BY <1>1, <1>3, <2>2 DEF HeadOf
  <2>6. QED
    BY <2>2, <2>3, <2>4, <2>5 DEF w
<1>4. QED
  BY <1>2, <1>3

(* The loop over j brings the greatest of the rest to its place.           *)
LEMMA GreatestIs ==
  ASSUME NEW v \in Readings, NEW i \in Sample
  PROVE  LET w == GreatestAt(v, i)
         IN  /\ w \in Readings
             /\ OneOff(v) => OneOff(w)
             /\ InOrderTo(v, i) => InOrderTo(w, i + 1)
<1>1. PICK m \in Nat : m = TOUCH_READ_TIMES /\ m > 2 /\ Sample = 0 .. m - 1
  BY ReadTimes
<1> DEFINE T == [k \in 1 .. m |-> [r \in Readings |-> Exchanged(r, i, k - 1)]]
           F(g) == [n \in 0 .. TOUCH_READ_TIMES |-> IF n = 0 THEN v ELSE Exchanged(g[n - 1], i, n - 1)]
<1>2. \A k \in 1 .. m : k - 1 \in Sample
  BY <1>1
<1>3. \A k \in 1 .. m, r \in Readings : Exchanged(r, i, k - 1) \in Readings
  BY <1>2, ExchangeOrders
<1>4. T \in [1 .. m -> [Readings -> Readings]]
  BY <1>3
<1>5. \A k \in 1 .. m, r \in Readings : T[k][r] = Exchanged(r, i, k - 1)
  OBVIOUS
<1> HIDE DEF T
<1>6. PICK h \in [0 .. m -> Readings] : h[0] = v /\ \A k \in 1 .. m : h[k] = T[k][h[k - 1]]
  BY <1>4, Recursion
<1>7. h = F(h)
  <2>1. ASSUME NEW k \in 0 .. m PROVE h[k] = F(h)[k]
    <3>1. k = 0 \/ k \in 1 .. m
      BY <1>1
    <3>2. k \in 1 .. m => h[k - 1] \in Readings /\ h[k] = T[k][h[k - 1]]
      BY <1>1, <1>6
    <3>3. QED
      BY <1>1, <1>5, <1>6, <3>1, <3>2
  <2>2. h = [k \in 0 .. m |-> h[k]]
    OBVIOUS
  <2>3. QED
    BY <1>1, <2>1, <2>2
<1> DEFINE g == CHOOSE g : g = F(g)
<1>8. g = F(g)
  BY <1>7, Zenon
<1>9. GreatestAt(v, i) = g[TOUCH_READ_TIMES]
  BY Zenon DEF GreatestAt
<1> HIDE DEF g
<1>10. g[0] = v /\ \A k \in 1 .. m : g[k] = Exchanged(g[k - 1], i, k - 1)
  BY <1>1, <1>8
<1> DEFINE Done(r, n) == /\ r \in Readings
                         /\ OneOff(v) => OneOff(r)
                         /\ InOrderTo(v, i) => InOrderTo(r, i) /\ HeadOf(r, i, n)
           Good == {n \in Nat : n <= m => Done(g[n], n)}
<1>11. 0 \in Good
  <2>1. HeadOf(v, i, 0)
    BY <1>1 DEF HeadOf
  <2>2. QED
    BY <1>10, <2>1
<1>12. ASSUME NEW n \in Nat, n \in Good PROVE n + 1 \in Good
  <2> SUFFICES ASSUME n + 1 <= m PROVE Done(g[n + 1], n + 1)
    OBVIOUS
  <2>1. Done(g[n], n)
    BY <1>1, <1>12
  <2>2. n \in Sample /\ n + 1 \in 1 .. m /\ (n + 1) - 1 = n
    BY <1>1
  <2>3. g[n + 1] = Exchanged(g[n], i, n)
    BY <1>10, <2>2
  <2>4. QED
    BY <2>1, <2>2, <2>3, ExchangeOrders
<1>13. Done(g[m], m)
  <2>1. Nat \subseteq Good
    <3> HIDE DEF Good
    <3>1. QED
      BY <1>11, <1>12, Induction
  <2>2. m \in Good
    BY <2>1
  <2>3. QED
    BY <1>1, <2>2
<1>14. InOrderTo(v, i) => InOrderTo(g[m], i + 1)
  <2>1. \A k \in Sample : k \in Int /\ k < m
    BY <1>1
  <2>2. QED
    BY <1>13, <2>1 DEF InOrderTo, HeadOf
<1>15. QED
  BY <1>1, <1>9, <1>13, <1>14

LEMMA DescendingIs ==
  ASSUME NEW v \in Readings
  PROVE  LET w == Descending(v)
         IN  w \in Readings /\ (OneOff(v) => OneOff(w)) /\ InOrderTo(w, TOUCH_READ_TIMES)
<1>1. PICK m \in Nat : m = TOUCH_READ_TIMES /\ m > 2 /\ Sample = 0 .. m - 1
  BY ReadTimes
<1> DEFINE T == [k \in 1 .. m |-> [r \in Readings |-> GreatestAt(r, k - 1)]]
           F(g) == [n \in 0 .. TOUCH_READ_TIMES |-> IF n = 0 THEN v ELSE GreatestAt(g[n - 1], n - 1)]
<1>2. \A k \in 1 .. m : k - 1 \in Sample
  BY <1>1
<1>3. \A k \in 1 .. m, r \in Readings : GreatestAt(r, k - 1) \in Readings
  BY <1>2, GreatestIs
<1>4. T \in [1 .. m -> [Readings -> Readings]]
  BY <1>3
<1>5. \A k \in 1 .. m, r \in Readings : T[k][r] = GreatestAt(r, k - 1)
  OBVIOUS
<1> HIDE DEF T
<1>6. PICK h \in [0 .. m -> Readings] : h[0] = v /\ \A k \in 1 .. m : h[k] = T[k][h[k - 1]]
  BY <1>4, Recursion
<1>7. h = F(h)
  <2>1. ASSUME NEW k \in 0 .. m PROVE h[k] = F(h)[k]
    <3>1. k = 0 \/ k \in 1 .. m
      BY <1>1
    <3>2. k \in 1 .. m => h[k - 1] \in Readings /\ h[k] = T[k][h[k - 1]]
      BY <1>1, <1>6
    <3>3. QED
      BY <1>1, <1>5, <1>6, <3>1, <3>2
  <2>2. h = [k \in 0 .. m |-> h[k]]
    OBVIOUS
  <2>3. QED
    BY <1>1, <2>1, <2>2
<1> DEFINE g == CHOOSE g : g = F(g)
<1>8. g = F(g)
  BY <1>7, Zenon
<1>9. Descending(v) = g[TOUCH_READ_TIMES]
  BY Zenon DEF Descending
<1> HIDE DEF g
<1>10. g[0] = v /\ \A k \in 1 .. m : g[k] = GreatestAt(g[k - 1], k - 1)
  BY <1>1, <1>8
<1> DEFINE Done(r, n) == r \in Readings /\ (OneOff(v) => OneOff(r)) /\ InOrderTo(r, n)
           Good == {n \in Nat : n <= m => Done(g[n], n)}
<1>11. 0 \in Good
  <2>1. InOrderTo(v, 0)
    BY <1>1 DEF InOrderTo
  <2>2. QED
    BY <1>10, <2>1
<1>12. ASSUME NEW n \in Nat, n \in Good PROVE n + 1 \in Good
  <2> SUFFICES ASSUME n + 1 <= m PROVE Done(g[n + 1], n + 1)
    OBVIOUS
  <2>1. Done(g[n], n)
    BY <1>1, <1>12
  <2>2. n \in Sample /\ n + 1 \in 1 .. m /\ (n + 1) - 1 = n
    BY <1>1
  <2>3. g[n + 1] = GreatestAt(g[n], n)
    BY <1>10, <2>2
  <2>4. QED
    BY <2>1, <2>2, <2>3, GreatestIs
<1>13. m \in Good
  <2> HIDE DEF Good
  <2>1. QED
    BY <1>11, <1>12, Induction
<1>14. Done(g[m], m)
  BY <1>1, <1>13
<1>15. QED
  BY <1>1, <1>9, <1>14

(* What lies between the first and the last of them is near.               *)
LEMMA MiddleNear ==
  ASSUME NEW v \in Readings, OneOff(v), InOrderTo(v, TOUCH_READ_TIMES),
         NEW k \in 1 .. TOUCH_READ_TIMES - 2
  PROVE  Near(v[k])
<1>1. PICK m \in Nat : m = TOUCH_READ_TIMES /\ m > 2 /\ Sample = 0 .. m - 1
  BY ReadTimes
<1>2. k \in Sample /\ 0 \in Sample /\ m - 1 \in Sample /\ k # 0 /\ k # m - 1
  BY <1>1
<1>3. v[0] >= v[k] /\ v[k] >= v[m - 1]
  <2>1. 0 < k /\ k < m - 1 /\ 0 < m /\ k < m
    BY <1>1
  <2>2. QED
    BY <1>1, <1>2, <2>1 DEF InOrderTo
<1>4. PICK p \in Nat, q \in Nat, r \in Nat : p = v[0] /\ q = v[k] /\ r = v[m - 1]
  BY <1>2 DEF Readings
<1>5. Near(q) \/ Near(p)
  BY <1>2, <1>4 DEF OneOff
<1>6. Near(q) \/ Near(r)
  BY <1>2, <1>4 DEF OneOff
<1>7. QED
  BY <1>3, <1>4, <1>5, <1>6, TouchAssumption DEF Near

(* A sum of numbers, one after the other.                                  *)
LEMMA Sums ==
  ASSUME NEW n \in Nat, NEW u \in [1 .. n -> Nat]
  PROVE  \E h \in [0 .. n -> Nat] : h[0] = 0 /\ \A k \in 1 .. n : h[k] = h[k - 1] + u[k]
<1> DEFINE Adds(h, m) == h[0] = 0 /\ \A k \in 1 .. m : h[k] = h[k - 1] + u[k]
           Good == {m \in Nat : m <= n => \E h \in [0 .. m -> Nat] : Adds(h, m)}
<1>1. 0 \in Good
  <2>1. [k \in 0 .. 0 |-> 0] \in [0 .. 0 -> Nat] /\ Adds([k \in 0 .. 0 |-> 0], 0)
    OBVIOUS
  <2> HIDE DEF Adds
  <2>2. \E h \in [0 .. 0 -> Nat] : Adds(h, 0)
    BY <2>1, Zenon
  <2>3. QED
    BY <2>2
<1>2. ASSUME NEW m \in Nat, m \in Good PROVE m + 1 \in Good
  <2> SUFFICES ASSUME m + 1 <= n PROVE \E h \in [0 .. m + 1 -> Nat] : Adds(h, m + 1)
    <3> HIDE DEF Adds
    <3>1. m + 1 \in Nat
      OBVIOUS
    <3>2. QED
      BY <3>1, Zenon
  <2>1. PICK g \in [0 .. m -> Nat] : Adds(g, m)
    <3>1. m <= n
      OBVIOUS
    <3> HIDE DEF Adds
    <3>2. QED
      BY <1>2, <3>1, Zenon
  <2>2. PICK e \in Nat : e = g[m] + u[m + 1]
    <3>1. m \in 0 .. m /\ m + 1 \in 1 .. n
      OBVIOUS
    <3>2. g[m] \in Nat /\ u[m + 1] \in Nat
      BY <2>1, <3>1
    <3>3. QED
      BY <3>2
  <2> DEFINE h == [k \in 0 .. m + 1 |-> IF k = m + 1 THEN e ELSE g[k]]
  <2>3. h \in [0 .. m + 1 -> Nat]
    BY <2>1
  <2>4. ASSUME NEW k \in 1 .. m + 1 PROVE h[k] = h[k - 1] + u[k]
    <3>1. CASE k = m + 1
      BY <2>2, <3>1
    <3>2. CASE k # m + 1
      <4>1. k \in 1 .. m /\ k \in 0 .. m + 1 /\ k - 1 \in 0 .. m + 1 /\ k - 1 # m + 1
        BY <3>2
      <4>2. g[k] = g[k - 1] + u[k]
        BY <2>1, <4>1
      <4>3. h[k] = g[k] /\ h[k - 1] = g[k - 1]
        BY <3>2, <4>1
      <4>4. QED
        BY <4>2, <4>3
    <3>3. QED
      BY <3>1, <3>2
  <2>5. h[0] = 0
    BY <2>1
  <2>6. Adds(h, m + 1)
    BY <2>4, <2>5
  <2> HIDE DEF h, Adds
  <2>7. QED
    BY <2>3, <2>6, Zenon
<1>3. n \in Good
  <2> HIDE DEF Good
  <2>1. QED
    BY <1>1, <1>2, Induction
<1>4. \E h \in [0 .. n -> Nat] : Adds(h, n)
  <2>1. n <= n
    OBVIOUS
  <2> HIDE DEF Adds
  <2>2. QED
    BY <1>3, <2>1, Zenon
<1>5. QED
  BY <1>4, Zenon

LEMMA SumIs ==
  ASSUME NEW v \in Readings, NEW first \in Nat, NEW count \in Nat, first + count <= TOUCH_READ_TIMES,
         NEW low \in Nat, NEW high \in Nat
  PROVE  /\ SumOf(v, first, count) \in Nat
         /\ (\A k \in first .. first + count - 1 : low <= v[k] /\ v[k] <= high) =>
              count * low <= SumOf(v, first, count) /\ SumOf(v, first, count) <= count * high
<1>1. PICK m \in Nat : m = TOUCH_READ_TIMES /\ m > 2 /\ Sample = 0 .. m - 1
  BY ReadTimes
<1>2. \A k \in 1 .. count : v[first + k - 1] \in Nat
  <2> SUFFICES ASSUME NEW k \in 1 .. count PROVE v[first + k - 1] \in Nat
    OBVIOUS
  <2>1. first + k - 1 \in Sample
    BY <1>1
  <2>2. QED
    BY <2>1 DEF Readings
<1> DEFINE u == [k \in 1 .. count |-> v[first + k - 1]]
<1>3. u \in [1 .. count -> Nat] /\ \A k \in 1 .. count : u[k] = v[first + k - 1]
  BY <1>2
<1> HIDE DEF u
<1> DEFINE F(g) == [n \in 0 .. count |-> IF n = 0 THEN 0 ELSE g[n - 1] + v[first + n - 1]]
<1>5. PICK h \in [0 .. count -> Nat] : h[0] = 0 /\ \A k \in 1 .. count : h[k] = h[k - 1] + u[k]
  BY <1>3, Sums
<1>6. h = F(h)
  <2>1. \A k \in 1 .. count : h[k] = h[k - 1] + v[first + k - 1]
    BY <1>3, <1>5
  <2>2. \A k \in 0 .. count : h[k] = F(h)[k]
    BY <1>5, <2>1
  <2>3. h = [k \in 0 .. count |-> h[k]]
    OBVIOUS
  <2>4. QED
    BY <2>2, <2>3
<1> DEFINE g == CHOOSE g : g = F(g)
<1>7. g = F(g)
  BY <1>6, Zenon
<1>8. SumOf(v, first, count) = g[count]
  BY Zenon DEF SumOf
<1> HIDE DEF g
<1>9. g[0] = 0 /\ \A k \in 1 .. count : g[k] = g[k - 1] + v[first + k - 1]
  BY <1>7
<1> DEFINE Within == \A k \in first .. first + count - 1 : low <= v[k] /\ v[k] <= high
           Done(s, n) == s \in Nat /\ (Within => n * low <= s /\ s <= n * high)
           Good == {n \in Nat : n <= count => Done(g[n], n)}
<1>10. 0 \in Good
  BY <1>9
<1>11. ASSUME NEW n \in Nat, n \in Good PROVE n + 1 \in Good
  <2> SUFFICES ASSUME n + 1 <= count PROVE Done(g[n + 1], n + 1)
    OBVIOUS
  <2>1. Done(g[n], n)
    BY <1>11
  <2>2. n + 1 \in 1 .. count /\ (n + 1) - 1 = n /\ first + (n + 1) - 1 = first + n
    OBVIOUS
  <2>3. PICK s \in Nat, r \in Nat : s = g[n] /\ r = v[first + n] /\ g[n + 1] = s + r
    BY <1>2, <1>9, <2>1, <2>2
  <2>4. (n + 1) * low = n * low + low /\ (n + 1) * high = n * high + high
    OBVIOUS
  <2>5. n * low \in Nat /\ n * high \in Nat
    OBVIOUS
  <2>6. ASSUME Within PROVE (n + 1) * low <= s + r /\ s + r <= (n + 1) * high
    <3>1. first + n \in first .. first + count - 1
      BY <2>2
    <3>2. low <= r /\ r <= high /\ n * low <= s /\ s <= n * high
      BY <2>1, <2>3, <2>6, <3>1
    <3> HIDE DEF Within
    <3>3. QED
      BY <2>4, <2>5, <3>2
  <2>7. s + r \in Nat /\ g[n + 1] = s + r
    BY <2>3
  <2> HIDE DEF Within
  <2>8. QED
    BY <2>6, <2>7
<1>12. count \in Good
  <2> HIDE DEF Good
  <2>1. QED
    BY <1>10, <1>11, Induction
<1>13. QED
  BY <1>8, <1>12

LEMMA MeanBetween ==
  ASSUME NEW s \in Nat, NEW n \in Nat, n > 0, NEW low \in Nat, NEW high \in Nat
  PROVE  /\ s \div n \in Nat
         /\ n * low <= s /\ s <= n * high => low <= s \div n /\ s \div n <= high
<1>1. PICK q \in Nat, r \in Nat : q = s \div n /\ r = s % n /\ s = n * q + r /\ r < n
  <2>1. s \div n \in Nat /\ s % n \in 0 .. n - 1 /\ s = n * (s \div n) + (s % n)
    OBVIOUS
  <2>2. QED
    BY <2>1
<1>2. ASSUME n * low <= s, s <= n * high, q < low PROVE FALSE
  <2>1. n * (q + 1) <= n * low
    BY <1>2
  <2>2. n * (q + 1) = n * q + n
    OBVIOUS
  <2>3. n * low \in Nat /\ n * q \in Nat
    OBVIOUS
  <2>4. QED
    BY <1>1, <1>2, <2>1, <2>2, <2>3
<1>3. ASSUME n * low <= s, s <= n * high, q > high PROVE FALSE
  <2>1. n * q >= n * (high + 1)
    BY <1>3
  <2>2. n * (high + 1) = n * high + n
    OBVIOUS
  <2>3. n * high \in Nat /\ n * q \in Nat
    OBVIOUS
  <2>4. QED
    BY <1>1, <1>3, <2>1, <2>2, <2>3
<1>4. QED
  BY <1>1, <1>2, <1>3

(* What is read is near if no more than one of the readings is off.        *)
LEMMA ReadIs ==
  ASSUME NEW v \in Readings
  PROVE  xpt2046_read(v) \in Nat /\ (OneOff(v) => Near(xpt2046_read(v)))
<1> DEFINE w == Descending(v)
<1>1. w \in Readings /\ (OneOff(v) => OneOff(w)) /\ InOrderTo(w, TOUCH_READ_TIMES)
  BY DescendingIs
<1>2. PICK n \in Nat, low \in Nat, high \in Nat :
        n = TOUCH_READ_TIMES - 2 /\ n > 0 /\ low = At - Noise /\ high = At + Noise
  BY TouchAssumption
<1>3. PICK s : s = SumOf(w, 1, n) /\ xpt2046_read(v) = s \div n
  BY <1>2 DEF xpt2046_read
<1> HIDE DEF w
<1>4. /\ s \in Nat
      /\ (\A k \in 1 .. 1 + n - 1 : low <= w[k] /\ w[k] <= high) => n * low <= s /\ s <= n * high
  <2>1. 1 \in Nat /\ 1 + n <= TOUCH_READ_TIMES
    BY <1>2, TouchAssumption
  <2>2. QED
    BY <1>1, <1>3, <2>1, SumIs
<1>5. s \div n \in Nat /\ (n * low <= s /\ s <= n * high => low <= s \div n /\ s \div n <= high)
  BY <1>2, <1>4, MeanBetween
<1>6. ASSUME OneOff(v) PROVE Near(s \div n)
  <2>1. \A k \in 1 .. n : Near(w[k])
    BY <1>1, <1>2, <1>6, MiddleNear
  <2>2. 1 + n - 1 = n
    BY <1>2
  <2>3. \A k \in 1 .. n : low <= w[k] /\ w[k] <= high
    BY <1>2, <2>1 DEF Near
  <2>4. QED
    BY <1>2, <1>4, <1>5, <2>2, <2>3 DEF Near
<1>7. QED
  BY <1>3, <1>5, <1>6

(* The first of the values that may be off leaves the other near.          *)
TouchInv ==
  /\ read_values \in Seq(Nat) /\ Len(read_values) \in 0 .. 2
  /\ spoiled \in 0 .. Len(read_values)
  /\ spoiled = 0 => \A k \in 1 .. Len(read_values) : Near(read_values[k])
  /\ spoiled <= 1 /\ Len(read_values) = 2 => Near(read_values[1]) \/ Near(read_values[2])
  /\ read_status = "taken" =>
       /\ Len(read_values) = 2 /\ ~FarApart(read_values[1], read_values[2])
       /\ read_x = (read_values[1] + read_values[2]) \div 2

LEMMA FewOff ==
  ASSUME NEW v \in Readings, ~(Cardinality({i \in Sample : ~Near(v[i])}) > 1) PROVE OneOff(v)
<1> DEFINE Off == {i \in Sample : ~Near(v[i])}
<1>1. PICK m \in Nat : m = TOUCH_READ_TIMES /\ m > 2 /\ Sample = 0 .. m - 1
  BY ReadTimes
<1>2. IsFiniteSet(Off)
  <2>1. IsFiniteSet(0 .. m - 1)
    BY <1>1, FS_Interval
  <2>2. QED
    BY <1>1, <2>1, FS_Subset
<1>3. SUFFICES ASSUME NEW i \in Sample, NEW j \in Sample, i # j, ~Near(v[i]), ~Near(v[j]) PROVE FALSE
  BY DEF OneOff
<1>4. {i, j} \subseteq Off
  BY <1>3
<1>5. Cardinality({i, j}) = 2
  <2>1. IsFiniteSet({i}) /\ Cardinality({i}) = 1
    BY FS_Singleton
  <2>2. Cardinality({i} \cup {j}) = IF j \in {i} THEN Cardinality({i}) ELSE Cardinality({i}) + 1
    BY <2>1, FS_AddElement
  <2>3. {i, j} = {i} \cup {j}
    OBVIOUS
  <2>4. QED
    BY <1>3, <2>1, <2>2, <2>3
<1> HIDE DEF Off
<1>6. Cardinality({i, j}) <= Cardinality(Off) /\ Cardinality(Off) \in Nat
  BY <1>2, <1>4, FS_Subset, FS_CardinalityType
<1>7. QED
  BY <1>5, <1>6 DEF Off

LEMMA TouchInvStep ==
  ASSUME TouchInv, [TouchNext]_touch_vars PROVE TouchInv'
<1>1. CASE UNCHANGED touch_vars
  BY <1>1 DEF touch_vars, TouchInv
<1>2. CASE ReadValue
  <2>1. PICK v \in [Sample -> (At - Noise .. At + Noise) \cup Wild] :
          /\ read_values' = Append(read_values, xpt2046_read(v))
          /\ spoiled' = IF Cardinality({i \in Sample : ~Near(v[i])}) > 1 THEN spoiled + 1 ELSE spoiled
    BY <1>2 DEF ReadValue
  <2>2. (At - Noise .. At + Noise) \cup Wild \subseteq Nat
    BY TouchAssumption
  <2>3. v \in Readings
    BY <2>2 DEF Readings
  <2>4. PICK x \in Nat : x = xpt2046_read(v) /\ (OneOff(v) => Near(x))
    BY <2>3, ReadIs
  <2>5. spoiled' = spoiled + 1 \/ (spoiled' = spoiled /\ Near(x))
    BY <2>1, <2>3, <2>4, FewOff
  <2>6. PICK n \in 0 .. 1 : n = Len(read_values)
    BY <1>2 DEF ReadValue, TouchInv
  <2>7. /\ read_values' \in Seq(Nat) /\ Len(read_values') = n + 1
        /\ read_values'[n + 1] = x /\ \A k \in 1 .. n : read_values'[k] = read_values[k]
    <3>1. PICK s \in Seq(Nat) : s = read_values
      BY DEF TouchInv
    <3>2. read_values' = Append(s, x) /\ Len(s) = n
      BY <2>1, <2>4, <2>6, <3>1
    <3>3. QED
      BY <2>4, <2>6, <3>1, <3>2, AppendProperties
  <2>8. read_status' # "taken"
    BY <1>2, <2>6 DEF ReadValue, TouchInv
  <2>9. spoiled \in 0 .. n
    BY <2>6 DEF TouchInv
  <2>10. ASSUME NEW d \in Nat, d = spoiled', d = spoiled + 1 \/ (d = spoiled /\ Near(x))
         PROVE  /\ d \in 0 .. n + 1
                /\ d = 0 => \A k \in 1 .. n + 1 : Near(read_values'[k])
                /\ d <= 1 /\ n + 1 = 2 => Near(read_values'[1]) \/ Near(read_values'[2])
    <3>1. CASE n = 0
      <4>1. \A k \in 1 .. n + 1 : k = n + 1
        BY <3>1
      <4>2. spoiled = 0
        BY <2>9, <3>1
      <4>3. QED
        BY <2>7, <2>10, <3>1, <4>1, <4>2
    <3>2. CASE n = 1
      <4>1. /\ read_values'[2] = x /\ read_values'[1] = read_values[1]
            /\ \A k \in 1 .. n + 1 : k = 1 \/ k = 2
        BY <2>7, <3>2
      <4>2. spoiled = 0 => Near(read_values'[1])
        BY <2>6, <3>2, <4>1 DEF TouchInv
      <4>3. spoiled \in 0 .. 1
        BY <2>9, <3>2
      <4>4. QED
        BY <2>10, <3>2, <4>1, <4>2, <4>3
    <3>3. QED
      BY <3>1, <3>2
  <2>11. spoiled' \in Nat
    BY <2>5, <2>9
  <2>12. /\ spoiled' \in 0 .. n + 1
         /\ spoiled' = 0 => \A k \in 1 .. n + 1 : Near(read_values'[k])
         /\ spoiled' <= 1 /\ n + 1 = 2 => Near(read_values'[1]) \/ Near(read_values'[2])
    BY <2>5, <2>10, <2>11
  <2>13. Len(read_values') \in 0 .. 2
    BY <2>7
  <2>14. QED
    BY <2>7, <2>8, <2>12, <2>13 DEF TouchInv
<1>3. CASE ReturnXY
  <2>1. /\ UNCHANGED <<read_values, spoiled>> /\ Len(read_values) = 2
        /\ read_status' = "taken" =>
             /\ ~FarApart(read_values[1], read_values[2])
             /\ read_x' = (read_values[1] + read_values[2]) \div 2
    BY <1>3 DEF ReturnXY
  <2>2. QED
    BY <2>1 DEF TouchInv
<1>4. QED
  BY <1>1, <1>2, <1>3 DEF TouchNext

LEMMA MeanIsNear ==
  ASSUME NEW a \in Nat, NEW b \in Nat, NEW m, m = (a + b) \div 2
  PROVE  /\ m \in Nat
         /\ Near(a) /\ Near(b) => Near(m)
         /\ Near(a) /\ ~FarApart(a, b) =>
              /\ m - At <= Noise + (TOUCH_ERR_RANGE + 1) \div 2
              /\ At - m <= Noise + (TOUCH_ERR_RANGE + 1) \div 2
<1>1. PICK p \in Nat, n \in Nat, r \in Nat :
        p = At /\ n = Noise /\ r = TOUCH_ERR_RANGE /\ n <= p
  BY TouchAssumption
<1>2. m \in Nat /\ (2 * m = a + b \/ 2 * m + 1 = a + b)
  OBVIOUS
<1>3. PICK h \in Nat : h = (r + 1) \div 2 /\ (2 * h = r + 1 \/ 2 * h = r)
  BY <1>1
<1>4. Near(a) /\ Near(b) => Near(m)
  BY <1>1, <1>2 DEF Near
<1>5. ~FarApart(a, b) => a - b <= r /\ b - a <= r
  BY <1>1 DEF FarApart
<1>6. Near(a) => a <= p + n /\ p - n <= a
  BY <1>1 DEF Near
<1>7. QED
  BY <1>1, <1>2, <1>3, <1>4, <1>5, <1>6

(* A place is taken only near where the pen is, for any number of readings *)
(* and any noise, whatever a disturbed reading brings.                     *)
THEOREM PlaceIsNear == TouchSpec => []TakenIsNear
<1>1. TouchInit => TouchInv
  BY TouchAssumption DEF TouchInit, TouchInv
<1>2. ASSUME TouchInv PROVE TakenIsNear
  <2> SUFFICES ASSUME read_status = "taken"
               PROVE  LET off == IF read_x > At THEN read_x - At ELSE At - read_x
                      IN  /\ spoiled = 0 => off <= Noise
                          /\ spoiled = 1 => off <= Noise + (TOUCH_ERR_RANGE + 1) \div 2
    BY DEF TakenIsNear
  <2>1. Len(read_values) = 2 /\ read_values \in Seq(Nat)
    BY <1>2 DEF TouchInv
  <2>2. PICK a \in Nat, b \in Nat : a = read_values[1] /\ b = read_values[2]
    BY <2>1, ElementOfSeq
  <2>3. /\ ~FarApart(a, b) /\ read_x = (a + b) \div 2
        /\ spoiled = 0 => Near(a) /\ Near(b)
        /\ spoiled = 1 => Near(a) \/ Near(b)
    BY <1>2, <2>1, <2>2 DEF TouchInv
  <2>4. FarApart(b, a) <=> FarApart(a, b)
    BY <2>2 DEF FarApart
  <2>5. /\ read_x \in Nat
        /\ Near(a) /\ Near(b) => Near(read_x)
        /\ Near(a) \/ Near(b) => /\ read_x - At <= Noise + (TOUCH_ERR_RANGE + 1) \div 2
                                 /\ At - read_x <= Noise + (TOUCH_ERR_RANGE + 1) \div 2
    <3>1. (b + a) \div 2 = read_x
      BY <2>2, <2>3
    <3>2. QED
      BY <2>2, <2>3, <2>4, <3>1, MeanIsNear
  <2>6. Near(read_x) => read_x <= At + Noise /\ At - Noise <= read_x
    BY DEF Near
  <2>7. PICK p \in Nat, n \in Nat : p = At /\ n = Noise
    BY TouchAssumption
  <2>8. QED
    BY <2>3, <2>5, <2>6, <2>7
<1>3. QED
  BY <1>1, <1>2, TouchInvStep, PTL DEF TouchSpec

-----------------------------------------------------------------------------
(* A loop of n turns, the k-th of which is T[k]: there are its values, and *)
(* what every turn keeps holds of them all.                                *)
Turns(n, Inv, T, a) ==
  a \in Inv[0] /\ \A k \in 1 .. n : \A s \in Inv[k - 1] : T[k][s] \in Inv[k]

Run(h, n, Inv, T, a) ==
  /\ h = [k \in 0 .. n |-> h[k]] /\ h[0] = a
  /\ \A k \in 1 .. n : h[k - 1] \in Inv[k - 1] /\ h[k] = T[k][h[k - 1]]

Follows(g, n, Inv, T, a) ==
  g[0] = a /\ \A k \in 1 .. n : g[k - 1] \in Inv[k - 1] => g[k] = T[k][g[k - 1]]

LEMMA LoopIs ==
  ASSUME NEW n \in Nat, NEW Inv, NEW T, NEW a, Turns(n, Inv, T, a)
  PROVE  /\ \E h : Run(h, n, Inv, T, a)
         /\ \A g : Follows(g, n, Inv, T, a) => \A k \in 0 .. n : g[k] \in Inv[k]
<1>1. ASSUME NEW g, g[0] = a,
             NEW m \in Nat, m <= n,
             \A k \in 1 .. m : g[k - 1] \in Inv[k - 1] => g[k] = T[k][g[k - 1]]
      PROVE  \A k \in 0 .. m : g[k] \in Inv[k]
  <2> DEFINE Good == {k \in Nat : k <= m => g[k] \in Inv[k]}
  <2>1. 0 \in Good
    BY <1>1 DEF Turns
  <2>2. ASSUME NEW k \in Nat, k \in Good PROVE k + 1 \in Good
    <3> SUFFICES ASSUME k + 1 <= m PROVE g[k + 1] \in Inv[k + 1]
      OBVIOUS
    <3>1. k + 1 \in 1 .. m /\ k + 1 \in 1 .. n /\ (k + 1) - 1 = k
      BY <1>1
    <3>2. g[k] \in Inv[k]
      BY <1>1, <2>2
    <3>3. QED
      BY <1>1, <3>1, <3>2 DEF Turns
  <2>3. Nat \subseteq Good
    <3> HIDE DEF Good
    <3>1. QED
      BY <2>1, <2>2, Induction
  <2>4. QED
    BY <2>3
<1> DEFINE Runs(h, m) == /\ h = [k \in 0 .. m |-> h[k]] /\ h[0] = a
                         /\ \A k \in 1 .. m : h[k] = T[k][h[k - 1]]
           Reached == {m \in Nat : \E h : Runs(h, m)}
<1>2. 0 \in Reached
  <2>1. Runs([k \in 0 .. 0 |-> a], 0)
    OBVIOUS
  <2>2. QED
    BY <2>1
<1>3. ASSUME NEW m \in Nat, m \in Reached PROVE m + 1 \in Reached
  <2>1. PICK h : Runs(h, m)
    BY <1>3
  <2> DEFINE g == [k \in 0 .. m + 1 |-> IF k = m + 1 THEN T[m + 1][h[m]] ELSE h[k]]
  <2>2. g = [k \in 0 .. m + 1 |-> g[k]] /\ g[0] = a
    BY <2>1
  <2>3. ASSUME NEW k \in 1 .. m + 1 PROVE g[k] = T[k][g[k - 1]]
    <3>1. CASE k = m + 1
      BY <3>1
    <3>2. CASE k # m + 1
      <4>1. k \in 1 .. m /\ k \in 0 .. m + 1 /\ k - 1 \in 0 .. m + 1 /\ k - 1 # m + 1
        BY <3>2
      <4>2. g[k] = h[k] /\ g[k - 1] = h[k - 1]
        BY <3>2, <4>1
      <4>3. QED
        BY <2>1, <4>1, <4>2
    <3>3. QED
      BY <3>1, <3>2
  <2> HIDE DEF g
  <2>4. Runs(g, m + 1)
    BY <2>2, <2>3, Zenon
  <2>5. m + 1 \in Nat
    OBVIOUS
  <2> HIDE DEF Runs
  <2>6. QED
    BY <2>4, <2>5, Zenon
<1>4. PICK h : Runs(h, n)
  <2>1. Nat \subseteq Reached
    <3> HIDE DEF Reached
    <3>1. QED
      BY <1>2, <1>3, Induction
  <2>2. QED
    BY <2>1
<1> HIDE DEF Reached
<1>5. ASSUME NEW g, Follows(g, n, Inv, T, a) PROVE \A k \in 0 .. n : g[k] \in Inv[k]
  <2>1. n \in Nat /\ n <= n
    OBVIOUS
  <2>2. QED
    BY <1>1, <1>5, <2>1, Zenon DEF Follows
<1>6. \A k \in 0 .. n : h[k] \in Inv[k]
  BY <1>4, <1>5 DEF Follows
<1>7. \A k \in 1 .. n : k - 1 \in 0 .. n
  OBVIOUS
<1>8. Run(h, n, Inv, T, a)
  BY <1>4, <1>6, <1>7 DEF Run
<1> HIDE DEF Runs
<1>9. QED
  BY <1>5, <1>8, Zenon

-----------------------------------------------------------------------------
(* The sorts.  p is a permutation of 0 .. n - 1 that moves lo .. hi only,  *)
(* and c the array b rearranged so.                                        *)
Moves(p, n, lo, hi) ==
  /\ p \in [0 .. n - 1 -> 0 .. n - 1]
  /\ \A i, j \in 0 .. n - 1 : p[i] = p[j] => i = j
  /\ \A j \in 0 .. n - 1 : \E i \in 0 .. n - 1 : p[i] = j
  /\ \A i \in 0 .. n - 1 : IF lo <= i /\ i <= hi THEN lo <= p[i] /\ p[i] <= hi ELSE p[i] = i

Rearranged(b, c, n, lo, hi) ==
  \E p : Moves(p, n, lo, hi) /\ c = [i \in 0 .. n - 1 |-> b[p[i]]]

LEMMA Unmoved ==
  ASSUME NEW n \in Nat, NEW b \in Arrays(n), NEW lo \in Int, NEW hi \in Int
  PROVE  Rearranged(b, b, n, lo, hi)
<1> DEFINE p == [i \in 0 .. n - 1 |-> i]
<1>1. Moves(p, n, lo, hi)
  BY DEF Moves
<1>2. b = [i \in 0 .. n - 1 |-> b[p[i]]]
  BY DEF Arrays
<1> HIDE DEF p
<1>3. QED
  BY <1>1, <1>2 DEF Rearranged

LEMMA Swapped ==
  ASSUME NEW n \in Nat, NEW b \in Arrays(n), NEW lo \in Int, NEW hi \in Int,
         NEW i \in 0 .. n - 1, NEW j \in 0 .. n - 1, lo <= i, i <= hi, lo <= j, j <= hi
  PROVE  /\ Rearranged(b, Swap(b, i, j), n, lo, hi)
         /\ \A k \in 0 .. n - 1 :
              Swap(b, i, j)[k] = IF k = i THEN b[j] ELSE IF k = j THEN b[i] ELSE b[k]
<1> DEFINE p == [k \in 0 .. n - 1 |-> IF k = i THEN j ELSE IF k = j THEN i ELSE k]
<1>1. Moves(p, n, lo, hi)
  <2>1. \A k \in 0 .. n - 1 : \E l \in 0 .. n - 1 : p[l] = k
    <3> SUFFICES ASSUME NEW k \in 0 .. n - 1 PROVE p[p[k]] = k /\ p[k] \in 0 .. n - 1
      OBVIOUS
    <3>1. QED
      OBVIOUS
  <2>2. QED
    BY <2>1 DEF Moves
<1>2. /\ DOMAIN Swap(b, i, j) = 0 .. n - 1
      /\ \A k \in 0 .. n - 1 :
           Swap(b, i, j)[k] = IF k = i THEN b[j] ELSE IF k = j THEN b[i] ELSE b[k]
  BY DEF Arrays, Swap
<1>3. Swap(b, i, j) = [k \in 0 .. n - 1 |-> b[p[k]]]
  <2>1. Swap(b, i, j) = [k \in DOMAIN Swap(b, i, j) |-> Swap(b, i, j)[k]]
    BY DEF Swap
  <2>2. QED
    BY <1>2, <2>1
<1> HIDE DEF p
<1>4. QED
  BY <1>1, <1>2, <1>3 DEF Rearranged

(* Where an element of a rearranged array came from.                       *)
LEMMA CameFrom ==
  ASSUME NEW n \in Nat, NEW b \in Arrays(n), NEW c, NEW lo \in Int, NEW hi \in Int,
         Rearranged(b, c, n, lo, hi)
  PROVE  /\ c \in Arrays(n)
         /\ \A i \in 0 .. n - 1 :
              IF lo <= i /\ i <= hi
                THEN \E k \in 0 .. n - 1 : lo <= k /\ k <= hi /\ c[i] = b[k]
                ELSE c[i] = b[i]
<1>1. PICK p : Moves(p, n, lo, hi) /\ c = [i \in 0 .. n - 1 |-> b[p[i]]]
  BY DEF Rearranged
<1>2. \A i \in 0 .. n - 1 : p[i] \in 0 .. n - 1 /\ c[i] = b[p[i]]
  BY <1>1 DEF Moves
<1>3. c \in Arrays(n)
  BY <1>1, <1>2 DEF Arrays
<1>4. QED
  BY <1>1, <1>2, <1>3 DEF Moves

LEMMA MovedTwice ==
  ASSUME NEW n \in Nat, NEW a, NEW b, NEW c, NEW lo \in Int, NEW hi \in Int,
         Rearranged(a, b, n, lo, hi), Rearranged(b, c, n, lo, hi)
  PROVE  Rearranged(a, c, n, lo, hi)
<1>1. PICK p : Moves(p, n, lo, hi) /\ b = [i \in 0 .. n - 1 |-> a[p[i]]]
  BY DEF Rearranged
<1>2. PICK q : Moves(q, n, lo, hi) /\ c = [i \in 0 .. n - 1 |-> b[q[i]]]
  BY DEF Rearranged
<1> DEFINE r == [i \in 0 .. n - 1 |-> p[q[i]]]
<1>3. \A i \in 0 .. n - 1 : p[i] \in 0 .. n - 1 /\ q[i] \in 0 .. n - 1 /\ r[i] = p[q[i]]
  BY <1>1, <1>2 DEF Moves
<1>4. r \in [0 .. n - 1 -> 0 .. n - 1]
  BY <1>3
<1> HIDE DEF r
<1>5. ASSUME NEW i \in 0 .. n - 1, NEW j \in 0 .. n - 1, r[i] = r[j] PROVE i = j
  <2>1. p[q[i]] = p[q[j]] /\ q[i] \in 0 .. n - 1 /\ q[j] \in 0 .. n - 1
    BY <1>3, <1>5
  <2>2. q[i] = q[j]
    BY <1>1, <2>1 DEF Moves
  <2>3. QED
    BY <1>2, <2>2 DEF Moves
<1>6. ASSUME NEW j \in 0 .. n - 1 PROVE \E i \in 0 .. n - 1 : r[i] = j
  <2>1. PICK k \in 0 .. n - 1 : p[k] = j
    BY <1>1 DEF Moves
  <2>2. PICK i \in 0 .. n - 1 : q[i] = k
    BY <1>2 DEF Moves
  <2>3. QED
    BY <1>3, <2>1, <2>2
<1>7. ASSUME NEW i \in 0 .. n - 1
      PROVE  IF lo <= i /\ i <= hi THEN lo <= r[i] /\ r[i] <= hi ELSE r[i] = i
  <2>1. PICK k \in 0 .. n - 1 : k = q[i] /\ r[i] = p[k]
    BY <1>3
  <2>2. IF lo <= i /\ i <= hi THEN lo <= k /\ k <= hi ELSE k = i
    BY <1>2, <2>1 DEF Moves
  <2>3. IF lo <= k /\ k <= hi THEN lo <= p[k] /\ p[k] <= hi ELSE p[k] = k
    BY <1>1 DEF Moves
  <2>4. QED
    BY <2>1, <2>2, <2>3
<1>8. Moves(r, n, lo, hi)
  BY <1>4, <1>5, <1>6, <1>7 DEF Moves
<1>9. c = [i \in 0 .. n - 1 |-> a[r[i]]]
  <2>1. \A i \in 0 .. n - 1 : b[q[i]] = a[r[i]]
    BY <1>1, <1>3
  <2>2. QED
    BY <1>2, <2>1
<1>10. QED
  BY <1>8, <1>9 DEF Rearranged

LEMMA MovedWithin ==
  ASSUME NEW n \in Nat, NEW b, NEW c, NEW lo \in Int, NEW hi \in Int,
         NEW low \in Int, NEW high \in Int, low <= lo, hi <= high, Rearranged(b, c, n, lo, hi)
  PROVE  Rearranged(b, c, n, low, high)
<1>1. PICK p : Moves(p, n, lo, hi) /\ c = [i \in 0 .. n - 1 |-> b[p[i]]]
  BY DEF Rearranged
<1>2. ASSUME NEW i \in 0 .. n - 1
      PROVE  IF low <= i /\ i <= high THEN low <= p[i] /\ p[i] <= high ELSE p[i] = i
  <2>1. p[i] \in 0 .. n - 1
    BY <1>1 DEF Moves
  <2>2. IF lo <= i /\ i <= hi THEN lo <= p[i] /\ p[i] <= hi ELSE p[i] = i
    BY <1>1 DEF Moves
  <2>3. QED
    BY <2>1, <2>2
<1>3. Moves(p, n, low, high)
  BY <1>1, <1>2 DEF Moves
<1>4. QED
  BY <1>1, <1>3 DEF Rearranged

(* Every element is in a rearranged array as often as it was before.       *)
LEMMA AsOften ==
  ASSUME NEW n \in Nat, NEW b \in Arrays(n), NEW c, NEW lo \in Int, NEW hi \in Int,
         Rearranged(b, c, n, lo, hi), NEW v
  PROVE  CountOf(b, v) = CountOf(c, v)
<1>1. PICK p : Moves(p, n, lo, hi) /\ c = [i \in 0 .. n - 1 |-> b[p[i]]]
  BY DEF Rearranged
<1> DEFINE S == {i \in 0 .. n - 1 : c[i] = v}
           R == {i \in 0 .. n - 1 : b[i] = v}
           f == [i \in S |-> p[i]]
<1>2. \A i \in 0 .. n - 1 : p[i] \in 0 .. n - 1 /\ c[i] = b[p[i]]
  BY <1>1 DEF Moves
<1>3. f \in [S -> R] /\ \A i \in S : f[i] = p[i]
  BY <1>2
<1>4. \A i, j \in S : f[i] = f[j] => i = j
  BY <1>1, <1>3 DEF Moves
<1>5. ASSUME NEW j \in R PROVE \E i \in S : f[i] = j
  <2>1. PICK i \in 0 .. n - 1 : p[i] = j
    BY <1>1 DEF Moves
  <2>2. QED
    BY <1>2, <1>3, <2>1
<1>6. IsFiniteSet(S)
  <2>1. IsFiniteSet(0 .. n - 1)
    BY FS_Interval
  <2>2. QED
    BY <2>1, FS_Subset
<1> HIDE DEF f
<1>7. f \in Bijection(S, R)
  BY <1>3, <1>4, <1>5 DEF Bijection, Injection, Surjection, IsInjective
<1>8. Cardinality(R) = Cardinality(S)
  <2> HIDE DEF S, R
  <2>1. ExistsBijection(S, R)
    BY <1>7 DEF ExistsBijection
  <2>2. QED
    BY <1>6, <2>1, FS_Bijection
<1>9. DOMAIN b = 0 .. n - 1 /\ DOMAIN c = 0 .. n - 1
  BY <1>1 DEF Arrays
<1>10. QED
  BY <1>8, <1>9 DEF CountOf

LEMMA ElementsAreInts ==
  ASSUME NEW n \in Nat, NEW b \in Arrays(n)
  PROVE  \A i \in 0 .. n - 1 : b[i] \in Int /\ b[i] \in Elements
BY SortingAssumption DEF Arrays

Ascending(b, lo, hi) == \A i, j \in lo .. hi : i < j => b[i] <= b[j]

(* heapsort: no element from the k-th on is less than one of its sons.     *)
Sons(i) == 2 * i + 1 .. 2 * i + 2

HeapFrom(b, len, k) ==
  \A i \in k .. len - 1 : \A s \in Sons(i) : s < len => b[i] >= b[s]

(* While an element sinks: the heap but for its place, and its sons not    *)
(* greater than its father.  After t turns it is far down, or settled.     *)
Sinking(b, len, index, at) ==
  /\ \A i \in index .. len - 1 : i # at => \A s \in Sons(i) : s < len => b[i] >= b[s]
  /\ \A i \in index .. len - 1 : at \in Sons(i) => \A s \in Sons(at) : s < len => b[i] >= b[s]

Sunk(b, len, at) == \A s \in Sons(at) : s < len => b[at] >= b[s]

LEMMA SinkKeeps ==
  ASSUME NEW n \in Nat, NEW len \in 0 .. n, NEW index \in 0 .. len - 1,
         NEW b \in Arrays(n), NEW at \in index .. len - 1, Sinking(b, len, index, at)
  PROVE  LET r == Sink([a |-> b, index |-> at], len)
         IN  /\ r = [a |-> r.a, index |-> r.index]
             /\ Rearranged(b, r.a, n, index, len - 1)
             /\ r.index \in index .. len - 1 /\ r.index >= at
             /\ Sinking(r.a, len, index, r.index)
             /\ Sunk(r.a, len, r.index) \/ r.index > at
<1> DEFINE r == Sink([a |-> b, index |-> at], len)
           left == 2 * at + 1
           son == IF left < len - 1 /\ b[left] < b[left + 1] THEN left + 1 ELSE left
<1>1. \A i \in 0 .. n - 1 : b[i] \in Int
  BY ElementsAreInts
<1>2. CASE left > len - 1 \/ b[at] >= b[son]
  <2>1. r = [a |-> b, index |-> at]
    BY <1>2 DEF Sink
  <2>2. r.a = b /\ r.index = at
    BY <2>1
  <2>3. Sunk(b, len, at)
    <3> SUFFICES ASSUME NEW s \in Sons(at), s < len PROVE b[at] >= b[s]
      BY DEF Sunk
    <3>1. s = left \/ s = left + 1
      BY DEF Sons
    <3>2. left \in 0 .. n - 1 /\ at \in 0 .. n - 1 /\ left <= len - 1 /\ s \in 0 .. n - 1
      BY <3>1
    <3>3. QED
      BY <1>1, <1>2, <3>1, <3>2
  <2>4. Rearranged(b, b, n, index, len - 1)
    BY Unmoved
  <2>5. QED
    BY <2>1, <2>2, <2>3, <2>4
<1>3. CASE ~(left > len - 1 \/ b[at] >= b[son])
  <2>1. r = [a |-> Swap(b, at, son), index |-> son]
    BY <1>3 DEF Sink
  <2>2. PICK c, d : c = Swap(b, at, son) /\ d = son
    OBVIOUS
  <2>3. r.a = c /\ r.index = d
    BY <2>1, <2>2
  <2>4. d \in Sons(at) /\ d \in index .. len - 1 /\ d > at /\ b[at] < b[d]
        /\ \A s \in Sons(at) : s < len => b[d] >= b[s]
    BY <1>1, <1>3, <2>2 DEF Sons
  <2>5. at \in 0 .. n - 1 /\ d \in 0 .. n - 1
    BY <2>4
  <2>6. /\ Rearranged(b, c, n, index, len - 1)
        /\ \A k \in 0 .. n - 1 : c[k] = IF k = at THEN b[d] ELSE IF k = d THEN b[at] ELSE b[k]
    BY <2>2, <2>4, <2>5, Swapped
  <2>7. \A i \in index .. len - 1 : i \in 0 .. n - 1 /\ i \in Nat
    OBVIOUS
  <2>8. ASSUME NEW i \in index .. len - 1, NEW s \in Sons(i), s < len
        PROVE  s \in index .. len - 1 /\ s > i
    BY <2>8, <2>7 DEF Sons
  <2>9. ASSUME NEW i \in index .. len - 1, i # d, NEW s \in Sons(i), s < len PROVE c[i] >= c[s]
    <3>1. s \in 0 .. n - 1 /\ i \in 0 .. n - 1 /\ s > i
      BY <2>7, <2>8, <2>9
    <3>2. CASE i = at
      <4>1. c[i] = b[d] /\ (c[s] = b[at] \/ c[s] = b[s])
        BY <2>6, <3>1, <3>2
      <4>2. QED
        BY <1>1, <2>4, <2>5, <2>9, <3>1, <3>2, <4>1
    <3>3. CASE i # at
      <4>1. c[i] = b[i] /\ b[i] >= b[s]
        BY <2>6, <2>9, <3>1, <3>3 DEF Sinking
      <4>2. s # d
        BY <2>4, <3>3 DEF Sons
      <4>3. CASE s = at
        <5>1. c[s] = b[d] /\ d \in Sons(at) /\ d < len
          BY <2>4, <2>6, <3>1, <4>3
        <5>2. b[i] >= b[d]
          BY <2>9, <4>3, <5>1 DEF Sinking
        <5>3. QED
          BY <4>1, <5>1, <5>2
      <4>4. CASE s # at
        BY <2>6, <3>1, <4>1, <4>2, <4>4
      <4>5. QED
        BY <4>3, <4>4
    <3>4. QED
      BY <3>2, <3>3
  <2>10. ASSUME NEW i \in index .. len - 1, d \in Sons(i), NEW s \in Sons(d), s < len
         PROVE  c[i] >= c[s]
    <3>1. i = at
      BY <2>4, <2>10 DEF Sons
    <3>2. s > d /\ s \in 0 .. n - 1
      BY <2>4, <2>7, <2>8, <2>10
    <3>3. c[i] = b[d] /\ c[s] = b[s]
      BY <2>4, <2>6, <3>1, <3>2
    <3>4. b[d] >= b[s]
      BY <2>4, <2>10 DEF Sinking
    <3>5. QED
      BY <3>3, <3>4
  <2>11. Sinking(c, len, index, d)
    BY <2>9, <2>10 DEF Sinking
  <2>12. QED
    BY <2>1, <2>2, <2>3, <2>4, <2>6, <2>11
<1>4. QED
  BY <1>2, <1>3

LEMMA HeaplifyIs ==
  ASSUME NEW n \in Nat, NEW len \in 0 .. n, NEW index \in 0 .. len - 1,
         NEW b \in Arrays(n), HeapFrom(b, len, index + 1)
  PROVE  LET c == heaplify(b, len, index)
         IN  Rearranged(b, c, n, index, len - 1) /\ HeapFrom(c, len, index)
<1>1. len \in Nat
  OBVIOUS
<1> DEFINE Kept(s, t) ==
             /\ s = [a |-> s.a, index |-> s.index]
             /\ Rearranged(b, s.a, n, index, len - 1)
             /\ s.index \in index .. len - 1
             /\ Sinking(s.a, len, index, s.index)
             /\ Sunk(s.a, len, s.index) \/ s.index >= t
           State == [a : Arrays(n), index : index .. len - 1]
           Inv == [t \in 0 .. len |-> {s \in State : Kept(s, t)}]
           T == [t \in 1 .. len |-> [s \in Inv[t - 1] |-> Sink(s, len)]]
           start == [a |-> b, index |-> index]
           F(h) == [t \in 0 .. len |-> IF t = 0 THEN start ELSE Sink(h[t - 1], len)]
<1>2. start \in Inv[0]
  <2>1. Kept(start, 0)
    <3>1. start.a = b /\ start.index = index /\ start = [a |-> start.a, index |-> start.index]
      OBVIOUS
    <3>2. Sinking(b, len, index, index)
      <4>1. \A i \in index .. len - 1 : i # index => i \in index + 1 .. len - 1
        OBVIOUS
      <4>2. \A i \in index .. len - 1 : index \notin Sons(i)
        BY DEF Sons
      <4>3. QED
        BY <4>1, <4>2 DEF HeapFrom, Sinking
    <3>3. Rearranged(b, b, n, index, len - 1)
      BY Unmoved
    <3>4. QED
      BY <3>1, <3>2, <3>3
  <2>2. start \in State
    OBVIOUS
  <2> HIDE DEF Kept, State, start
  <2>3. QED
    BY <1>1, <2>1, <2>2
<1>3. ASSUME NEW t \in 1 .. len, NEW s \in Inv[t - 1] PROVE Sink(s, len) \in Inv[t]
  <2>1. s \in State /\ Kept(s, t - 1)
    BY <1>1
  <2> DEFINE r == Sink(s, len)
  <2>2. s.a \in Arrays(n) /\ s.index \in index .. len - 1 /\ s = [a |-> s.a, index |-> s.index]
    BY <2>1
  <2>3. /\ r = [a |-> r.a, index |-> r.index]
        /\ Rearranged(s.a, r.a, n, index, len - 1)
        /\ r.index \in index .. len - 1 /\ r.index >= s.index
        /\ Sinking(r.a, len, index, r.index)
        /\ Sunk(r.a, len, r.index) \/ r.index > s.index
    <3>1. PICK d, at : d = s.a /\ at = s.index /\ s = [a |-> d, index |-> at]
      BY <2>2
    <3>2. d \in Arrays(n) /\ at \in index .. len - 1 /\ Sinking(d, len, index, at)
      BY <2>1, <2>2, <3>1
    <3>3. LET q == Sink([a |-> d, index |-> at], len)
          IN  /\ q = [a |-> q.a, index |-> q.index]
              /\ Rearranged(d, q.a, n, index, len - 1)
              /\ q.index \in index .. len - 1 /\ q.index >= at
              /\ Sinking(q.a, len, index, q.index)
              /\ Sunk(q.a, len, q.index) \/ q.index > at
      BY <3>2, SinkKeeps
    <3>4. QED
      BY <3>1, <3>3
  <2>4. r.a \in Arrays(n)
    <3>1. index \in Int /\ len - 1 \in Int /\ Rearranged(s.a, r.a, n, index, len - 1)
      BY <2>3
    <3>2. QED
      BY <2>2, <3>1, CameFrom
  <2>5. Rearranged(b, r.a, n, index, len - 1)
    BY <2>1, <2>3, MovedTwice
  <2>6. Sunk(r.a, len, r.index) \/ r.index >= t
    <3>1. CASE s.index >= t - 1
      BY <2>2, <2>3, <3>1
    <3>2. CASE Sunk(s.a, len, s.index)
      <4>1. r = s
        <5>1. 2 * s.index + 1 \in Sons(s.index) /\ 2 * s.index + 2 \in Sons(s.index)
          BY <2>2 DEF Sons
        <5>2. 2 * s.index + 1 > len - 1 \/ s.a[s.index] >= s.a[2 * s.index + 1]
          BY <2>2, <3>2, <5>1 DEF Sunk
        <5>3. 2 * s.index + 1 < len - 1 => s.a[s.index] >= s.a[2 * s.index + 1 + 1]
          BY <2>2, <3>2, <5>1 DEF Sunk
        <5>4. QED
          BY <5>2, <5>3 DEF Sink
      <4>2. QED
        BY <3>2, <4>1
    <3>3. QED
      BY <2>1, <3>1, <3>2
  <2>7. r \in State
    BY <2>3, <2>4
  <2> HIDE DEF r, State
  <2>8. Kept(r, t)
    BY <2>3, <2>5, <2>6
  <2> HIDE DEF Kept
  <2>9. r \in Inv[t]
    BY <1>1, <2>7, <2>8
  <2>10. QED
    BY <2>9 DEF r
<1> HIDE DEF Kept, State, start
<1>4. \A t \in 1 .. len : \A s \in Inv[t - 1] : T[t][s] = Sink(s, len)
  BY <1>1
<1> HIDE DEF Inv, T
<1>5. Turns(len, Inv, T, start)
  BY <1>2, <1>3, <1>4 DEF Turns
<1>6. PICK h : Run(h, len, Inv, T, start)
  BY <1>1, <1>5, LoopIs
<1>7. h = F(h)
  <2>1. ASSUME NEW t \in 0 .. len PROVE h[t] = IF t = 0 THEN start ELSE Sink(h[t - 1], len)
    <3>1. t = 0 \/ t \in 1 .. len
      BY <1>1
    <3>2. QED
      BY <1>4, <1>6, <3>1 DEF Run
  <2>2. QED
    BY <1>6, <2>1 DEF Run
<1> DEFINE g == CHOOSE g : g = F(g)
<1>8. g = F(g)
  BY <1>7, Zenon
<1>9. heaplify(b, len, index) = g[len].a
  BY Zenon DEF heaplify, start
<1> HIDE DEF g
<1>10. g[0] = start /\ \A t \in 1 .. len : g[t] = Sink(g[t - 1], len)
  BY <1>1, <1>8
<1>11. Follows(g, len, Inv, T, start)
  BY <1>4, <1>10 DEF Follows
<1>12. g[len] \in Inv[len]
  <2>1. \A t \in 0 .. len : g[t] \in Inv[t]
    BY <1>1, <1>5, <1>11, LoopIs
  <2>2. QED
    BY <1>1, <2>1
<1>13. PICK s : s = g[len] /\ Kept(s, len)
  BY <1>1, <1>12 DEF Inv
<1>14. Sunk(s.a, len, s.index)
  BY <1>1, <1>13 DEF Kept
<1>15. HeapFrom(s.a, len, index)
  BY <1>13, <1>14 DEF Kept, Sinking, Sunk, HeapFrom
<1>16. QED
  BY <1>9, <1>13, <1>15 DEF Kept

LEMMA BuildHeapIs ==
  ASSUME NEW len \in Nat, NEW b \in Arrays(len)
  PROVE  LET c == build_heap(b, len)
         IN  c \in Arrays(len) /\ Rearranged(b, c, len, 0, len - 1) /\ HeapFrom(c, len, 0)
<1> DEFINE Kept(c, t) == Rearranged(b, c, len, 0, len - 1) /\ HeapFrom(c, len, len - t)
           Inv == [t \in 0 .. len |-> {c \in Arrays(len) : Kept(c, t)}]
           T == [t \in 1 .. len |-> [c \in Inv[t - 1] |-> heaplify(c, len, len - t)]]
           F(h) == [t \in 0 .. len |-> IF t = 0 THEN b ELSE heaplify(h[t - 1], len, len - t)]
<1>1. len \in 0 .. len /\ \A t \in 1 .. len : t - 1 \in 0 .. len /\ t \in 0 .. len
  OBVIOUS
<1>2. b \in Inv[0]
  <2>1. Rearranged(b, b, len, 0, len - 1)
    BY Unmoved
  <2>2. HeapFrom(b, len, len - 0)
    BY DEF HeapFrom
  <2>3. QED
    BY <2>1, <2>2
<1>3. ASSUME NEW t \in 1 .. len, NEW c \in Inv[t - 1] PROVE heaplify(c, len, len - t) \in Inv[t]
  <2>1. c \in Arrays(len) /\ Kept(c, t - 1)
    BY <1>1
  <2> DEFINE d == heaplify(c, len, len - t)
  <2>2. PICK k \in 0 .. len - 1 : k = len - t
    OBVIOUS
  <2>3. HeapFrom(c, len, k + 1)
    <3>1. k + 1 = len - (t - 1)
      BY <2>2
    <3>2. QED
      BY <2>1, <3>1
  <2>4. Rearranged(c, d, len, k, len - 1) /\ HeapFrom(d, len, k)
    BY <1>1, <2>1, <2>2, <2>3, HeaplifyIs
  <2> HIDE DEF d
  <2>5. Rearranged(c, d, len, 0, len - 1)
    <3>1. k \in Int /\ 0 \in Int /\ len - 1 \in Int /\ 0 <= k /\ len - 1 <= len - 1
      OBVIOUS
    <3>2. QED
      BY <2>4, <3>1, MovedWithin
  <2>6. Rearranged(b, d, len, 0, len - 1)
    <3>1. 0 \in Int /\ len - 1 \in Int
      OBVIOUS
    <3>2. QED
      BY <2>1, <2>5, <3>1, MovedTwice
  <2>7. d \in Arrays(len)
    <3>1. 0 \in Int /\ len - 1 \in Int
      OBVIOUS
    <3>2. QED
      BY <2>1, <2>5, <3>1, CameFrom
  <2>8. d \in Inv[t]
    BY <1>1, <2>2, <2>4, <2>6, <2>7
  <2> HIDE DEF Inv
  <2>9. QED
    BY <2>8 DEF d
<1> HIDE DEF Kept
<1>4. \A t \in 1 .. len : \A c \in Inv[t - 1] : T[t][c] = heaplify(c, len, len - t)
  BY <1>1
<1> HIDE DEF Inv, T
<1>5. Turns(len, Inv, T, b)
  BY <1>2, <1>3, <1>4 DEF Turns
<1>6. PICK h : Run(h, len, Inv, T, b)
  BY <1>5, LoopIs
<1>7. h = F(h)
  <2>1. ASSUME NEW t \in 0 .. len PROVE h[t] = IF t = 0 THEN b ELSE heaplify(h[t - 1], len, len - t)
    <3>1. t = 0 \/ t \in 1 .. len
      OBVIOUS
    <3>2. QED
      BY <1>4, <1>6, <3>1 DEF Run
  <2>2. QED
    BY <1>6, <2>1 DEF Run
<1> DEFINE g == CHOOSE g : g = F(g)
<1>8. g = F(g)
  BY <1>7, Zenon
<1>9. build_heap(b, len) = g[len]
  BY Zenon DEF build_heap
<1> HIDE DEF g
<1>10. g[0] = b /\ \A t \in 1 .. len : g[t] = heaplify(g[t - 1], len, len - t)
  BY <1>1, <1>8
<1>11. Follows(g, len, Inv, T, b)
  BY <1>4, <1>10 DEF Follows
<1>12. g[len] \in Inv[len]
  <2>1. \A t \in 0 .. len : g[t] \in Inv[t]
    BY <1>5, <1>11, LoopIs
  <2>2. QED
    BY <1>1, <2>1
<1>13. g[len] \in Arrays(len) /\ Kept(g[len], len)
  BY <1>1, <1>12 DEF Inv
<1>14. len - len = 0
  OBVIOUS
<1>15. QED
  BY <1>9, <1>13, <1>14 DEF Kept

(* The head of a heap is not less than any other element.                  *)
LEMMA HeadIsMost ==
  ASSUME NEW n \in Nat, NEW b \in Arrays(n), NEW len \in 0 .. n, HeapFrom(b, len, 0)
  PROVE  \A k \in 0 .. len - 1 : b[0] >= b[k]
<1>1. \A i \in 0 .. n - 1 : b[i] \in Int
  BY ElementsAreInts
<1> DEFINE Good == {m \in Nat : \A k \in 0 .. len - 1 : k <= m => b[0] >= b[k]}
<1>2. 0 \in Good
  BY <1>1
<1>3. ASSUME NEW m \in Nat, m \in Good PROVE m + 1 \in Good
  <2> SUFFICES ASSUME m + 1 \in 0 .. len - 1 PROVE b[0] >= b[m + 1]
    <3>1. \A k \in 0 .. len - 1 : k <= m + 1 => k <= m \/ k = m + 1
      OBVIOUS
    <3>2. QED
      BY <1>3, <3>1
  <2>1. PICK k \in Nat : m + 1 = 2 * k + 1 \/ m + 1 = 2 * k + 2
    <3>1. m \div 2 \in Nat /\ (m = 2 * (m \div 2) \/ m = 2 * (m \div 2) + 1)
      OBVIOUS
    <3>2. QED
      BY <3>1
  <2>2. k \in 0 .. len - 1 /\ k <= m /\ m + 1 \in Sons(k) /\ m + 1 < len
    BY <2>1 DEF Sons
  <2>3. b[k] >= b[m + 1] /\ b[0] >= b[k]
    BY <1>3, <2>2 DEF HeapFrom
  <2>4. b[0] \in Int /\ b[k] \in Int /\ b[m + 1] \in Int
    BY <1>1, <2>2
  <2>5. QED
    BY <2>3, <2>4
<1>4. Nat \subseteq Good
  <2> HIDE DEF Good
  <2>1. QED
    BY <1>2, <1>3, Induction
<1>5. QED
  BY <1>4

(* heapsort takes the head of a heap of m elements to its place behind it. *)
Behind(b, len, m) ==
  Ascending(b, m, len - 1) /\ \A i \in 0 .. m - 1 : \A j \in m .. len - 1 : b[i] <= b[j]

LEMMA HeadTaken ==
  ASSUME NEW len \in Nat, NEW b \in Arrays(len), NEW m \in 2 .. len,
         HeapFrom(b, m, 0), Behind(b, len, m)
  PROVE  LET c == TakeHead(b, m)
         IN  /\ c \in Arrays(len) /\ Rearranged(b, c, len, 0, len - 1)
             /\ HeapFrom(c, m - 1, 0) /\ Behind(c, len, m - 1)
<1>1. PICK d : d = Swap(b, 0, m - 1)
  OBVIOUS
<1>2. PICK l \in 1 .. len - 1 : l = m - 1
  OBVIOUS
<1> DEFINE c == heaplify(d, l, 0)
<1>3. TakeHead(b, m) = c
  BY <1>1, <1>2 DEF TakeHead
<1>4. /\ Rearranged(b, d, len, 0, len - 1)
      /\ \A k \in 0 .. len - 1 : d[k] = IF k = 0 THEN b[l] ELSE IF k = l THEN b[0] ELSE b[k]
  <2>1. /\ 0 \in Int /\ len - 1 \in Int /\ 0 \in 0 .. len - 1 /\ l \in 0 .. len - 1
        /\ 0 <= 0 /\ 0 <= len - 1 /\ 0 <= l /\ l <= len - 1
    OBVIOUS
  <2>2. d = Swap(b, 0, l)
    BY <1>1, <1>2
  <2>3. QED
    BY <2>1, <2>2, Swapped
<1>5. d \in Arrays(len)
  <2>1. 0 \in Int /\ len - 1 \in Int
    OBVIOUS
  <2>2. QED
    BY <1>4, <2>1, CameFrom
<1>6. HeapFrom(d, l, 0 + 1)
  <2> SUFFICES ASSUME NEW i \in 1 .. l - 1, NEW s \in Sons(i), s < l PROVE d[i] >= d[s]
    BY DEF HeapFrom
  <2>1. i \in 0 .. m - 1 /\ s \in 0 .. len - 1 /\ i \in 0 .. len - 1 /\ s < m /\ s # 0
        /\ i # 0 /\ i # l /\ s # l
    BY <1>2 DEF Sons
  <2>2. b[i] >= b[s]
    BY <2>1 DEF HeapFrom
  <2>3. QED
    BY <1>4, <2>1, <2>2
<1>7. Rearranged(d, c, len, 0, l - 1) /\ HeapFrom(c, l, 0)
  <2>1. l \in 0 .. len /\ 0 \in 0 .. l - 1
    OBVIOUS
  <2>2. QED
    BY <1>5, <1>6, <2>1, HeaplifyIs
<1> HIDE DEF c
<1>8. /\ c \in Arrays(len)
      /\ \A i \in 0 .. len - 1 :
           IF 0 <= i /\ i <= l - 1
             THEN \E k \in 0 .. len - 1 : 0 <= k /\ k <= l - 1 /\ c[i] = d[k]
             ELSE c[i] = d[i]
  <2>1. 0 \in Int /\ l - 1 \in Int
    OBVIOUS
  <2>2. QED
    BY <1>5, <1>7, <2>1, CameFrom
<1>9. Rearranged(b, c, len, 0, len - 1)
  <2>1. 0 \in Int /\ l - 1 \in Int /\ len - 1 \in Int /\ 0 <= 0 /\ l - 1 <= len - 1
    OBVIOUS
  <2>2. Rearranged(d, c, len, 0, len - 1)
    BY <1>7, <2>1, MovedWithin
  <2>3. QED
    BY <1>4, <2>1, <2>2, MovedTwice
<1>10. \A i \in 0 .. len - 1 : b[i] \in Int
  BY ElementsAreInts
<1>11. \A k \in 0 .. m - 1 : b[0] >= b[k]
  <2>1. m \in 0 .. len
    OBVIOUS
  <2>2. QED
    BY <2>1, HeadIsMost
<1>12. c[l] = b[0] /\ \A j \in m .. len - 1 : c[j] = b[j]
  <2>1. ASSUME NEW j \in l .. len - 1 PROVE c[j] = d[j]
    BY <1>8, <2>1
  <2>2. \A j \in m .. len - 1 : j \in l .. len - 1 /\ j \in 0 .. len - 1 /\ j # 0 /\ j # l
    BY <1>2
  <2>3. l \in l .. len - 1 /\ l \in 0 .. len - 1 /\ l # 0
    OBVIOUS
  <2>4. QED
    BY <1>4, <2>1, <2>2, <2>3
<1>13. ASSUME NEW i \in 0 .. l - 1 PROVE \E k \in 0 .. m - 1 : c[i] = b[k]
  <2>1. PICK k \in 0 .. len - 1 : 0 <= k /\ k <= l - 1 /\ c[i] = d[k]
    BY <1>8
  <2>2. k # l /\ k \in 0 .. m - 1 /\ l \in 0 .. m - 1
    BY <1>2, <2>1
  <2>3. c[i] = b[l] \/ c[i] = b[k]
    BY <1>4, <2>1, <2>2
  <2>4. QED
    BY <2>2, <2>3
<1>14. \A i \in 0 .. m - 1 : i \in 0 .. len - 1
  OBVIOUS
<1>15. \A j \in m .. len - 1 : j \in 0 .. len - 1
  OBVIOUS
<1>16. Ascending(c, l, len - 1)
  <2> SUFFICES ASSUME NEW i \in l .. len - 1, NEW j \in l .. len - 1, i < j PROVE c[i] <= c[j]
    BY DEF Ascending
  <2>1. j \in m .. len - 1 /\ c[j] = b[j] /\ b[j] \in Int
    BY <1>2, <1>10, <1>12
  <2>2. CASE i = l
    <3>1. b[0] <= b[j]
      <4>1. 0 \in 0 .. m - 1
        OBVIOUS
      <4>2. QED
        BY <2>1, <4>1 DEF Behind
    <3>2. QED
      BY <1>12, <2>1, <2>2, <3>1
  <2>3. CASE i # l
    <3>1. i \in m .. len - 1
      BY <1>2, <2>3
    <3>2. b[i] <= b[j]
      BY <2>1, <3>1 DEF Behind, Ascending
    <3>3. QED
      BY <1>12, <2>1, <3>1, <3>2
  <2>4. QED
    BY <2>2, <2>3
<1>17. ASSUME NEW i \in 0 .. l - 1, NEW j \in l .. len - 1 PROVE c[i] <= c[j]
  <2>1. PICK k \in 0 .. m - 1 : c[i] = b[k]
    BY <1>13
  <2>2. b[k] <= b[0] /\ b[k] \in Int /\ b[0] \in Int
    <3>1. 0 \in 0 .. len - 1
      OBVIOUS
    <3>2. b[k] \in Int /\ b[0] \in Int /\ b[0] >= b[k]
      BY <1>10, <1>11, <1>14, <3>1
    <3>3. QED
      BY <3>2
  <2>3. CASE j = l
    BY <1>12, <2>1, <2>2, <2>3
  <2>4. CASE j # l
    <3>1. j \in m .. len - 1
      BY <1>2, <2>4
    <3>2. b[k] <= b[j]
      BY <3>1 DEF Behind
    <3>3. QED
      BY <1>12, <2>1, <3>1, <3>2
  <2>5. QED
    BY <2>3, <2>4
<1>18. Behind(c, len, l)
  BY <1>16, <1>17 DEF Behind
<1>19. QED
  BY <1>2, <1>3, <1>7, <1>8, <1>9, <1>18

(* heapsort returns the array, sorted.                                     *)
LEMMA HeapSorts ==
  ASSUME NEW len \in Nat, NEW b \in Arrays(len)
  PROVE  LET c == sort_heapsort(b, len)
         IN  Rearranged(b, c, len, 0, len - 1) /\ Ascending(c, 0, len - 1)
<1>1. PICK turns \in Nat : turns = IF len > 1 THEN len - 1 ELSE 0
  OBVIOUS
<1> DEFINE Kept(c, t) == /\ Rearranged(b, c, len, 0, len - 1)
                         /\ HeapFrom(c, len - t, 0) /\ Behind(c, len, len - t)
           Inv == [t \in 0 .. turns |-> {c \in Arrays(len) : Kept(c, t)}]
           T == [t \in 1 .. turns |-> [c \in Inv[t - 1] |-> TakeHead(c, len - t + 1)]]
           start == build_heap(b, len)
           F(h) == [t \in 0 .. turns |-> IF t = 0 THEN start ELSE TakeHead(h[t - 1], len - t + 1)]
<1>2. turns \in 0 .. turns /\ \A t \in 1 .. turns : t - 1 \in 0 .. turns /\ t \in 0 .. turns
  OBVIOUS
<1>3. start \in Inv[0]
  <2>1. start \in Arrays(len) /\ Rearranged(b, start, len, 0, len - 1) /\ HeapFrom(start, len, 0)
    BY BuildHeapIs
  <2> HIDE DEF start
  <2>2. Behind(start, len, len) /\ len - 0 = len /\ 0 \in 0 .. turns
    BY DEF Behind, Ascending
  <2>3. QED
    BY <2>1, <2>2
<1> HIDE DEF start
<1>4. ASSUME NEW t \in 1 .. turns, NEW c \in Inv[t - 1] PROVE TakeHead(c, len - t + 1) \in Inv[t]
  <2>1. c \in Arrays(len) /\ Kept(c, t - 1)
    BY <1>2
  <2>2. PICK m \in 2 .. len : m = len - t + 1
    BY <1>1
  <2> DEFINE d == TakeHead(c, m)
  <2>3. /\ d \in Arrays(len) /\ Rearranged(c, d, len, 0, len - 1)
        /\ HeapFrom(d, m - 1, 0) /\ Behind(d, len, m - 1)
    <3>1. len - (t - 1) = m
      BY <2>2
    <3>2. HeapFrom(c, m, 0) /\ Behind(c, len, m)
      BY <2>1, <3>1
    <3>3. QED
      BY <2>1, <3>2, HeadTaken
  <2> HIDE DEF d
  <2>4. Rearranged(b, d, len, 0, len - 1)
    <3>1. 0 \in Int /\ len - 1 \in Int
      OBVIOUS
    <3>2. QED
      BY <2>1, <2>3, <3>1, MovedTwice
  <2>5. m - 1 = len - t
    BY <2>2
  <2>6. d \in Inv[t]
    BY <1>2, <2>3, <2>4, <2>5
  <2> HIDE DEF Inv
  <2>7. QED
    BY <2>2, <2>6 DEF d
<1> HIDE DEF Kept
<1>5. \A t \in 1 .. turns : \A c \in Inv[t - 1] : T[t][c] = TakeHead(c, len - t + 1)
  BY <1>2
<1> HIDE DEF Inv, T
<1>6. Turns(turns, Inv, T, start)
  BY <1>3, <1>4, <1>5 DEF Turns
<1>7. PICK h : Run(h, turns, Inv, T, start)
  BY <1>6, LoopIs
<1>8. h = F(h)
  <2>1. ASSUME NEW t \in 0 .. turns
        PROVE  h[t] = IF t = 0 THEN start ELSE TakeHead(h[t - 1], len - t + 1)
    <3>1. t = 0 \/ t \in 1 .. turns
      OBVIOUS
    <3>2. QED
      BY <1>5, <1>7, <3>1 DEF Run
  <2>2. QED
    BY <1>7, <2>1 DEF Run
<1> DEFINE g == CHOOSE g : g = F(g)
<1>9. g = F(g)
  BY <1>8, Zenon
<1>10. sort_heapsort(b, len) = g[turns]
  BY <1>1, Zenon DEF sort_heapsort, start
<1> HIDE DEF g
<1>11. g[0] = start /\ \A t \in 1 .. turns : g[t] = TakeHead(g[t - 1], len - t + 1)
  BY <1>2, <1>9
<1>12. Follows(g, turns, Inv, T, start)
  BY <1>5, <1>11 DEF Follows
<1>13. g[turns] \in Inv[turns]
  <2>1. \A t \in 0 .. turns : g[t] \in Inv[t]
    BY <1>6, <1>12, LoopIs
  <2>2. QED
    BY <1>2, <2>1
<1>14. PICK c : c = g[turns] /\ c \in Arrays(len) /\ Kept(c, turns)
  BY <1>2, <1>13 DEF Inv
<1>15. Ascending(c, 0, len - 1)
  <2> SUFFICES ASSUME NEW i \in 0 .. len - 1, NEW j \in 0 .. len - 1, i < j PROVE c[i] <= c[j]
    BY DEF Ascending
  <2>1. PICK m \in 0 .. 1 : m = len - turns
    BY <1>1
  <2>2. Behind(c, len, m)
    BY <1>14, <2>1 DEF Kept
  <2>3. j \in m .. len - 1 /\ (i \in 0 .. m - 1 \/ i \in m .. len - 1)
    OBVIOUS
  <2>4. QED
    BY <2>2, <2>3 DEF Behind, Ascending
<1>16. QED
  BY <1>10, <1>14, <1>15 DEF Kept

(* quicksort_r: while it compares, what is less than the pivot lies before *)
(* the pointer, what is not behind it.                                     *)
Apart(b, pointer, from, to, pivot) ==
  /\ \A k \in from .. pointer - 1 : b[k] < pivot
  /\ \A k \in pointer .. to : b[k] >= pivot

LEMMA CompareKeeps ==
  ASSUME NEW n \in Nat, NEW start \in 0 .. n - 1, NEW end \in start + 1 .. n - 1,
         NEW b \in Arrays(n), NEW i \in start .. end - 1, NEW pointer \in start .. i,
         Apart(b, pointer, start, i - 1, b[end])
  PROVE  LET r == Compare([a |-> b, pointer |-> pointer], i, end)
         IN  /\ r = [a |-> r.a, pointer |-> r.pointer]
             /\ Rearranged(b, r.a, n, start, end - 1)
             /\ r.pointer \in start .. i + 1
             /\ Apart(r.a, r.pointer, start, i, b[end])
<1> DEFINE r == Compare([a |-> b, pointer |-> pointer], i, end)
<1>1. \A k \in 0 .. n - 1 : b[k] \in Int
  BY ElementsAreInts
<1>2. i \in 0 .. n - 1 /\ pointer \in 0 .. n - 1 /\ end \in 0 .. n - 1
  OBVIOUS
<1>3. CASE b[i] < b[end]
  <2>1. PICK c : c = Swap(b, i, pointer)
    OBVIOUS
  <2>2. r = [a |-> c, pointer |-> pointer + 1]
    BY <1>3, <2>1 DEF Compare
  <2>3. /\ Rearranged(b, c, n, start, end - 1)
        /\ \A k \in 0 .. n - 1 : c[k] = IF k = i THEN b[pointer] ELSE IF k = pointer THEN b[i] ELSE b[k]
    <3>1. start \in Int /\ end - 1 \in Int /\ start <= i /\ i <= end - 1
          /\ start <= pointer /\ pointer <= end - 1
      OBVIOUS
    <3>2. QED
      BY <1>2, <2>1, <3>1, Swapped
  <2>4. ASSUME NEW k \in start .. pointer PROVE c[k] < b[end]
    <3>1. k \in 0 .. n - 1
      BY <1>2
    <3>2. CASE k = pointer
      <4>1. c[k] = b[i]
        BY <2>3, <3>1, <3>2
      <4>2. QED
        BY <1>3, <4>1
    <3>3. CASE k # pointer
      <4>1. k \in start .. pointer - 1 /\ k # i
        BY <3>3
      <4>2. c[k] = b[k] /\ b[k] < b[end]
        BY <2>3, <3>1, <3>3, <4>1 DEF Apart
      <4>3. QED
        BY <4>2
    <3>4. QED
      BY <3>2, <3>3
  <2>5. ASSUME NEW k \in pointer + 1 .. i PROVE c[k] >= b[end]
    <3>1. k \in 0 .. n - 1 /\ k # pointer
      BY <1>2
    <3>2. CASE k = i
      <4>1. c[k] = b[pointer] /\ pointer \in pointer .. i - 1
        BY <2>3, <3>1, <3>2
      <4>2. QED
        BY <4>1 DEF Apart
    <3>3. CASE k # i
      <4>1. k \in pointer .. i - 1 /\ c[k] = b[k]
        BY <2>3, <3>1, <3>3
      <4>2. QED
        BY <4>1 DEF Apart
    <3>4. QED
      BY <3>2, <3>3
  <2>6. Apart(c, pointer + 1, start, i, b[end])
    <3>1. (pointer + 1) - 1 = pointer
      OBVIOUS
    <3>2. QED
      BY <2>4, <2>5, <3>1 DEF Apart
  <2>7. r.a = c /\ r.pointer = pointer + 1 /\ pointer + 1 \in start .. i + 1
    BY <2>2
  <2> HIDE DEF r
  <2>8. QED
    BY <2>2, <2>3, <2>6, <2>7 DEF r
<1>4. CASE ~(b[i] < b[end])
  <2>1. r = [a |-> b, pointer |-> pointer]
    BY <1>4 DEF Compare
  <2>2. r.a = b /\ r.pointer = pointer /\ pointer \in start .. i + 1
    BY <2>1
  <2>3. Rearranged(b, b, n, start, end - 1)
    <3>1. start \in Int /\ end - 1 \in Int
      OBVIOUS
    <3>2. QED
      BY <3>1, Unmoved
  <2>4. \A k \in pointer .. i : k \in pointer .. i - 1 \/ k = i
    OBVIOUS
  <2>5. b[i] >= b[end]
    BY <1>1, <1>2, <1>4
  <2>6. Apart(b, pointer, start, i, b[end])
    BY <2>4, <2>5 DEF Apart
  <2> HIDE DEF r
  <2>7. QED
    BY <2>1, <2>2, <2>3, <2>6 DEF r
<1>5. QED
  BY <1>3, <1>4

LEMMA PartitionIs ==
  ASSUME NEW n \in Nat, NEW start \in 0 .. n - 1, NEW end \in start + 1 .. n - 1,
         NEW b \in Arrays(n)
  PROVE  LET r == Partition(b, start, end)
         IN  /\ Rearranged(b, r.a, n, start, end) /\ r.pointer \in start .. end
             /\ \A k \in start .. r.pointer - 1 : r.a[k] <= r.a[r.pointer]
             /\ \A k \in r.pointer + 1 .. end : r.a[r.pointer] <= r.a[k]
<1>1. PICK turns \in Nat : turns = end - start
  OBVIOUS
<1> DEFINE Kept(s, t) ==
             /\ s = [a |-> s.a, pointer |-> s.pointer]
             /\ Rearranged(b, s.a, n, start, end - 1)
             /\ s.pointer \in start .. start + t
             /\ Apart(s.a, s.pointer, start, start + t - 1, b[end])
           State == [a : Arrays(n), pointer : start .. end]
           Inv == [t \in 0 .. turns |-> {s \in State : Kept(s, t)}]
           T == [t \in 1 .. turns |-> [s \in Inv[t - 1] |-> Compare(s, start + t - 1, end)]]
           first == [a |-> b, pointer |-> start]
           F(h) == [t \in 0 .. turns |-> IF t = 0 THEN first ELSE Compare(h[t - 1], start + t - 1, end)]
<1>2. turns \in 0 .. turns /\ \A t \in 1 .. turns : t - 1 \in 0 .. turns /\ t \in 0 .. turns
  OBVIOUS
<1>3. first \in Inv[0]
  <2>1. first.a = b /\ first.pointer = start /\ first = [a |-> first.a, pointer |-> first.pointer]
        /\ first \in State
    OBVIOUS
  <2>2. Rearranged(b, b, n, start, end - 1)
    <3>1. start \in Int /\ end - 1 \in Int
      OBVIOUS
    <3>2. QED
      BY <3>1, Unmoved
  <2>3. Apart(b, start, start, start + 0 - 1, b[end])
    BY DEF Apart
  <2> HIDE DEF first, State
  <2>4. Kept(first, 0)
    BY <2>1, <2>2, <2>3
  <2> HIDE DEF Kept
  <2>5. QED
    BY <1>1, <2>1, <2>4
<1>4. ASSUME NEW t \in 1 .. turns, NEW s \in Inv[t - 1]
      PROVE  Compare(s, start + t - 1, end) \in Inv[t]
  <2>1. s \in State /\ Kept(s, t - 1)
    BY <1>2
  <2>2. PICK i \in start .. end - 1 : i = start + t - 1
    BY <1>1
  <2>3. PICK c, pointer : c = s.a /\ pointer = s.pointer /\ s = [a |-> c, pointer |-> pointer]
    BY <2>1
  <2>4. c \in Arrays(n) /\ pointer \in start .. i /\ Rearranged(b, c, n, start, end - 1)
        /\ Apart(c, pointer, start, i - 1, b[end])
    <3>1. start + (t - 1) = i /\ start + (t - 1) - 1 = i - 1
      BY <2>2
    <3>2. QED
      BY <2>1, <2>3, <3>1
  <2>5. start \in Int /\ end - 1 \in Int /\ end \in 0 .. n - 1 /\ ~(end <= end - 1)
    OBVIOUS
  <2>6. c[end] = b[end]
    BY <2>4, <2>5, CameFrom
  <2> DEFINE r == Compare(s, i, end)
  <2>7. /\ r = [a |-> r.a, pointer |-> r.pointer]
        /\ Rearranged(c, r.a, n, start, end - 1)
        /\ r.pointer \in start .. i + 1
        /\ Apart(r.a, r.pointer, start, i, b[end])
    <3>1. LET q == Compare([a |-> c, pointer |-> pointer], i, end)
          IN  /\ q = [a |-> q.a, pointer |-> q.pointer]
              /\ Rearranged(c, q.a, n, start, end - 1)
              /\ q.pointer \in start .. i + 1
              /\ Apart(q.a, q.pointer, start, i, c[end])
      <4>1. Apart(c, pointer, start, i - 1, c[end])
        BY <2>4, <2>6
      <4>2. QED
        BY <2>4, <4>1, CompareKeeps
    <3>2. QED
      BY <2>3, <2>6, <3>1
  <2> HIDE DEF r
  <2>8. Rearranged(b, r.a, n, start, end - 1)
    BY <2>4, <2>5, <2>7, MovedTwice
  <2>9. r.a \in Arrays(n)
    BY <2>4, <2>5, <2>7, CameFrom
  <2>10. i = start + t - 1 /\ i + 1 = start + t /\ r.pointer \in start .. end
    <3>1. \A q \in start .. i + 1 : q \in start .. end
      OBVIOUS
    <3>2. i = start + t - 1 /\ i + 1 = start + t
      BY <2>2
    <3>3. QED
      BY <2>7, <3>1, <3>2, Zenon
  <2>11. r \in State
    BY <2>7, <2>9, <2>10
  <2> HIDE DEF State
  <2>12. Kept(r, t)
    BY <2>7, <2>8, <2>10
  <2> HIDE DEF Kept
  <2>13. r \in Inv[t]
    BY <1>2, <2>11, <2>12
  <2> HIDE DEF Inv
  <2>14. QED
    BY <2>10, <2>13 DEF r
<1> HIDE DEF Kept, State, first
<1>5. \A t \in 1 .. turns : \A s \in Inv[t - 1] : T[t][s] = Compare(s, start + t - 1, end)
  BY <1>2
<1> HIDE DEF Inv, T
<1>6. Turns(turns, Inv, T, first)
  BY <1>3, <1>4, <1>5 DEF Turns
<1>7. PICK h : Run(h, turns, Inv, T, first)
  BY <1>6, LoopIs
<1>8. h = F(h)
  <2>1. ASSUME NEW t \in 0 .. turns
        PROVE  h[t] = IF t = 0 THEN first ELSE Compare(h[t - 1], start + t - 1, end)
    <3>1. t = 0 \/ t \in 1 .. turns
      OBVIOUS
    <3>2. QED
      BY <1>5, <1>7, <3>1 DEF Run
  <2>2. QED
    BY <1>7, <2>1 DEF Run
<1> DEFINE g == CHOOSE g : g = F(g)
<1>9. g = F(g)
  BY <1>8, Zenon
<1>10. Partition(b, start, end) =
         [a |-> Swap(g[turns].a, end, g[turns].pointer), pointer |-> g[turns].pointer]
  BY <1>1, Zenon DEF Partition, first
<1> HIDE DEF g
<1>11. g[0] = first /\ \A t \in 1 .. turns : g[t] = Compare(g[t - 1], start + t - 1, end)
  BY <1>2, <1>9
<1>12. Follows(g, turns, Inv, T, first)
  BY <1>5, <1>11 DEF Follows
<1>13. g[turns] \in Inv[turns]
  <2>1. \A t \in 0 .. turns : g[t] \in Inv[t]
    BY <1>6, <1>12, LoopIs
  <2>2. QED
    BY <1>2, <2>1
<1>14. PICK s : s = g[turns] /\ s \in State /\ Kept(s, turns)
  BY <1>2, <1>13 DEF Inv
<1>15. PICK c, pointer : /\ c = s.a /\ pointer = s.pointer /\ c \in Arrays(n)
                         /\ pointer \in start .. end /\ Rearranged(b, c, n, start, end - 1)
                         /\ Apart(c, pointer, start, end - 1, b[end])
  <2>1. start + turns = end /\ start + turns - 1 = end - 1
    BY <1>1
  <2>2. QED
    BY <1>14, <2>1 DEF State, Kept
<1>16. start \in Int /\ end - 1 \in Int /\ end \in Int /\ start <= start /\ end - 1 <= end
       /\ end \in 0 .. n - 1 /\ ~(end <= end - 1) /\ pointer \in 0 .. n - 1
       /\ start <= end /\ start <= pointer /\ pointer <= end /\ end <= end
  BY <1>15
<1>17. c[end] = b[end]
  BY <1>15, <1>16, CameFrom
<1>18. PICK d : d = Swap(c, end, pointer)
  OBVIOUS
<1>19. /\ Rearranged(c, d, n, start, end)
       /\ \A k \in 0 .. n - 1 : d[k] = IF k = end THEN c[pointer] ELSE IF k = pointer THEN c[end] ELSE c[k]
  BY <1>15, <1>16, <1>18, Swapped
<1>20. Rearranged(b, d, n, start, end)
  <2>1. Rearranged(b, c, n, start, end)
    BY <1>15, <1>16, MovedWithin
  <2>2. QED
    BY <1>16, <1>19, <2>1, MovedTwice
<1>21. d[pointer] = b[end]
  BY <1>16, <1>17, <1>19
<1>22. \A k \in 0 .. n - 1 : b[k] \in Int /\ c[k] \in Int
  BY <1>15, ElementsAreInts
<1>23. ASSUME NEW k \in start .. pointer - 1 PROVE d[k] <= d[pointer]
  <2>1. k \in 0 .. n - 1 /\ k # end /\ k # pointer
    BY <1>15
  <2>2. d[k] = c[k] /\ c[k] < b[end]
    BY <1>15, <1>19, <2>1 DEF Apart
  <2>3. QED
    BY <1>16, <1>21, <1>22, <2>1, <2>2
<1>24. ASSUME NEW k \in pointer + 1 .. end PROVE d[pointer] <= d[k]
  <2>1. k \in 0 .. n - 1 /\ k # pointer /\ k \in Int
    BY <1>15
  <2>2. PICK l \in pointer .. end - 1 : d[k] = c[l]
    <3>1. CASE k = end
      <4>1. pointer \in pointer .. end - 1 /\ d[k] = c[pointer]
        BY <1>15, <1>19, <2>1, <3>1
      <4>2. QED
        BY <4>1
    <3>2. CASE k # end
      <4>1. k \in pointer .. end - 1 /\ d[k] = c[k]
        BY <1>15, <1>19, <2>1, <3>2
      <4>2. QED
        BY <4>1
    <3>3. QED
      BY <3>1, <3>2
  <2>3. c[l] >= b[end] /\ l \in 0 .. n - 1
    BY <1>15 DEF Apart
  <2>4. QED
    BY <1>16, <1>21, <1>22, <2>2, <2>3
<1>25. Partition(b, start, end) = [a |-> d, pointer |-> pointer]
  BY <1>10, <1>14, <1>15, <1>18
<1>26. QED
  BY <1>15, <1>20, <1>23, <1>24, <1>25

(* What quicksort_r is at some depth: it rearranges the range it is called *)
(* for, and sorts it if its calls of itself are not too many.              *)
Maps(n) == [0 .. n -> [-1 .. n - 1 -> [Arrays(n) -> Arrays(n)]]]

SortsRanges(rec, n, depth) ==
  \A start \in 0 .. n, end \in -1 .. n - 1, b \in Arrays(n) :
    /\ Rearranged(b, rec[start][end][b], n, start, end)
    /\ end - start < depth => Ascending(rec[start][end][b], start, end)

LEMMA RangeSorts ==
  ASSUME NEW n \in Nat, NEW depth \in Nat, NEW rec \in Maps(n), SortsRanges(rec, n, depth),
         NEW start \in 0 .. n, NEW end \in -1 .. n - 1, NEW b \in Arrays(n)
  PROVE  LET c == SortRange(b, start, end, rec)
         IN  /\ c \in Arrays(n) /\ Rearranged(b, c, n, start, end)
             /\ end - start < depth + 1 => Ascending(c, start, end)
<1> DEFINE c == SortRange(b, start, end, rec)
<1>0. start \in Int /\ end \in Int
  OBVIOUS
<1>1. CASE start >= end
  <2>1. c = b
    BY <1>1 DEF SortRange
  <2>2. Rearranged(b, b, n, start, end)
    BY <1>0, Unmoved
  <2>3. Ascending(b, start, end)
    BY <1>1 DEF Ascending
  <2> HIDE DEF c
  <2>4. QED
    BY <2>1, <2>2, <2>3 DEF c
<1>2. CASE ~(start >= end)
  <2>1. start \in 0 .. n - 1 /\ end \in start + 1 .. n - 1
    BY <1>2
  <2>2. PICK d, pointer : /\ d = Partition(b, start, end).a
                          /\ pointer = Partition(b, start, end).pointer
    OBVIOUS
  <2>3. /\ Rearranged(b, d, n, start, end) /\ pointer \in start .. end
        /\ \A k \in start .. pointer - 1 : d[k] <= d[pointer]
        /\ \A k \in pointer + 1 .. end : d[pointer] <= d[k]
    BY <2>1, <2>2, PartitionIs
  <2>4. PICK lower, upper, after, before : /\ lower = rec[start][before][d]
                                           /\ upper = rec[after][end][lower]
                                           /\ before = pointer - 1 /\ after = pointer + 1
    OBVIOUS
  <2>5. c = upper
    BY <1>2, <2>2, <2>4 DEF SortRange
  <2>6. before \in -1 .. n - 1 /\ after \in 0 .. n /\ before \in Int /\ after \in Int
        /\ before <= end /\ start <= after /\ start <= start /\ end <= end
        /\ pointer \in 0 .. n - 1
    BY <2>1, <2>3, <2>4
  <2>7. d \in Arrays(n)
    BY <1>0, <2>3, CameFrom
  <2>8. /\ Rearranged(d, lower, n, start, before)
        /\ before - start < depth => Ascending(lower, start, before)
    BY <2>4, <2>6, <2>7 DEF SortsRanges
  <2>9. /\ lower \in Arrays(n)
        /\ \A i \in 0 .. n - 1 :
             IF start <= i /\ i <= before
               THEN \E k \in 0 .. n - 1 : start <= k /\ k <= before /\ lower[i] = d[k]
               ELSE lower[i] = d[i]
    BY <1>0, <2>6, <2>7, <2>8, CameFrom
  <2>10. /\ Rearranged(lower, upper, n, after, end)
         /\ end - after < depth => Ascending(upper, after, end)
    BY <2>4, <2>6, <2>9 DEF SortsRanges
  <2>11. /\ upper \in Arrays(n)
         /\ \A i \in 0 .. n - 1 :
              IF after <= i /\ i <= end
                THEN \E k \in 0 .. n - 1 : after <= k /\ k <= end /\ upper[i] = lower[k]
                ELSE upper[i] = lower[i]
    BY <1>0, <2>6, <2>9, <2>10, CameFrom
  <2>12. Rearranged(b, upper, n, start, end)
    <3>1. Rearranged(d, lower, n, start, end)
      BY <1>0, <2>6, <2>8, MovedWithin
    <3>2. Rearranged(lower, upper, n, start, end)
      BY <1>0, <2>6, <2>10, MovedWithin
    <3>3. Rearranged(b, lower, n, start, end)
      BY <1>0, <2>3, <3>1, MovedTwice
    <3>4. QED
      BY <1>0, <3>2, <3>3, MovedTwice
  <2>13. ASSUME end - start < depth + 1 PROVE Ascending(upper, start, end)
    <3>1. Ascending(lower, start, before) /\ Ascending(upper, after, end)
      <4>1. before - start < depth /\ end - after < depth
        BY <2>3, <2>4, <2>13
      <4>2. QED
        BY <2>8, <2>10, <4>1
    <3>2. upper[pointer] = d[pointer]
      <4>1. ~(after <= pointer) /\ ~(pointer <= before)
        BY <2>4, <2>6
      <4>2. upper[pointer] = lower[pointer] /\ lower[pointer] = d[pointer]
        BY <2>6, <2>9, <2>11, <4>1
      <4>3. QED
        BY <4>2
    <3>3. ASSUME NEW i \in start .. before
          PROVE  upper[i] = lower[i] /\ upper[i] <= d[pointer]
      <4>1. i \in 0 .. n - 1 /\ start <= i /\ i <= before /\ ~(after <= i)
        BY <2>4, <2>6
      <4>2. PICK k \in 0 .. n - 1 : start <= k /\ k <= before /\ lower[i] = d[k]
        BY <2>9, <4>1
      <4>3. k \in start .. pointer - 1
        BY <2>4, <4>2
      <4>4. QED
        BY <2>3, <2>11, <4>1, <4>2, <4>3
    <3>4. ASSUME NEW i \in after .. end PROVE d[pointer] <= upper[i]
      <4>1. i \in 0 .. n - 1 /\ after <= i /\ i <= end
        BY <2>6
      <4>2. PICK k \in 0 .. n - 1 : after <= k /\ k <= end /\ upper[i] = lower[k]
        BY <2>11, <4>1
      <4>3. k \in pointer + 1 .. end /\ ~(k <= before)
        BY <2>4, <2>6, <4>2
      <4>4. lower[k] = d[k]
        BY <2>9, <4>3
      <4>5. QED
        BY <2>3, <4>2, <4>3, <4>4
    <3>5. SUFFICES ASSUME NEW i \in start .. end, NEW j \in start .. end, i < j
                   PROVE  upper[i] <= upper[j]
      BY DEF Ascending
    <3>6. /\ i \in start .. before \/ i = pointer \/ i \in after .. end
          /\ j \in start .. before \/ j = pointer \/ j \in after .. end
          /\ i \in 0 .. n - 1 /\ j \in 0 .. n - 1
      BY <2>4, <2>6
    <3>7. upper[i] \in Int /\ upper[j] \in Int /\ d[pointer] \in Int
      <4>1. \A k \in 0 .. n - 1 : upper[k] \in Int /\ d[k] \in Int
        BY <2>7, <2>11, ElementsAreInts
      <4>2. QED
        BY <2>6, <3>6, <4>1
    <3>8. CASE j \in start .. before
      <4>1. i \in start .. before
        BY <2>6, <3>5, <3>8
      <4>2. lower[i] <= lower[j]
        BY <3>1, <3>5, <3>8, <4>1 DEF Ascending
      <4>3. QED
        BY <3>3, <3>8, <4>1, <4>2
    <3>9. CASE i \in after .. end
      <4>1. j \in after .. end
        BY <2>6, <3>5, <3>9
      <4>2. QED
        BY <3>1, <3>5, <3>9, <4>1 DEF Ascending
    <3>10. CASE (i \in start .. before \/ i = pointer) /\ (j = pointer \/ j \in after .. end)
      <4>1. upper[i] <= d[pointer]
        BY <3>2, <3>3, <3>7, <3>10
      <4>2. d[pointer] <= upper[j]
        BY <3>2, <3>4, <3>7, <3>10
      <4>3. QED
        BY <3>7, <4>1, <4>2
    <3>11. QED
      BY <3>6, <3>8, <3>9, <3>10
  <2> HIDE DEF c
  <2>14. QED
    BY <2>5, <2>11, <2>12, <2>13 DEF c
<1>3. QED
  BY <1>1, <1>2

(* quicksort returns the array, sorted.                                    *)
LEMMA QuickSorts ==
  ASSUME NEW len \in Nat, NEW b \in Arrays(len)
  PROVE  LET c == sort_quicksort(b, len)
         IN  Rearranged(b, c, len, 0, len - 1) /\ Ascending(c, 0, len - 1)
<1> DEFINE Inv == [t \in 0 .. len |-> {rec \in Maps(len) : SortsRanges(rec, len, t)}]
           Deeper(rec) == [start \in 0 .. len |-> [end \in -1 .. len - 1 |-> [c \in Arrays(len) |->
                            SortRange(c, start, end, rec)]]]
           T == [t \in 1 .. len |-> [rec \in Inv[t - 1] |-> Deeper(rec)]]
           none == [start \in 0 .. len |-> [end \in -1 .. len - 1 |-> [c \in Arrays(len) |-> c]]]
           F(h) == [t \in 0 .. len |->
                      [start \in 0 .. len |-> [end \in -1 .. len - 1 |-> [c \in Arrays(len) |->
                         IF t = 0 THEN c ELSE SortRange(c, start, end, h[t - 1])]]]]
<1>1. len \in 0 .. len /\ \A t \in 1 .. len : t - 1 \in 0 .. len /\ t \in 0 .. len
  OBVIOUS
<1>2. none \in Inv[0]
  <2>1. none \in Maps(len)
    BY DEF Maps
  <2>2. SortsRanges(none, len, 0)
    <3> SUFFICES ASSUME NEW start \in 0 .. len, NEW end \in -1 .. len - 1, NEW c \in Arrays(len)
                 PROVE  /\ Rearranged(c, none[start][end][c], len, start, end)
                        /\ end - start < 0 => Ascending(none[start][end][c], start, end)
      BY DEF SortsRanges
    <3>1. none[start][end][c] = c
      OBVIOUS
    <3> HIDE DEF none
    <3>2. Rearranged(c, c, len, start, end)
      <4>1. start \in Int /\ end \in Int
        OBVIOUS
      <4>2. QED
        BY <4>1, Unmoved
    <3>3. end - start < 0 => Ascending(c, start, end)
      BY DEF Ascending
    <3>4. QED
      BY <3>1, <3>2, <3>3
  <2> HIDE DEF none
  <2>3. QED
    BY <1>1, <2>1, <2>2
<1>3. ASSUME NEW t \in 1 .. len, NEW rec \in Inv[t - 1] PROVE Deeper(rec) \in Inv[t]
  <2>1. PICK depth \in Nat : depth = t - 1
    OBVIOUS
  <2>2. rec \in Maps(len) /\ SortsRanges(rec, len, depth)
    BY <1>1, <2>1
  <2> DEFINE deeper == Deeper(rec)
  <2>3. ASSUME NEW start \in 0 .. len, NEW end \in -1 .. len - 1, NEW c \in Arrays(len)
        PROVE  /\ deeper[start][end][c] = SortRange(c, start, end, rec)
               /\ SortRange(c, start, end, rec) \in Arrays(len)
               /\ Rearranged(c, SortRange(c, start, end, rec), len, start, end)
               /\ end - start < depth + 1 => Ascending(SortRange(c, start, end, rec), start, end)
    <3>1. deeper[start][end][c] = SortRange(c, start, end, rec)
      OBVIOUS
    <3> HIDE DEF deeper
    <3>2. QED
      BY <2>2, <3>1, RangeSorts
  <2>4. deeper \in Maps(len)
    BY <2>3 DEF Maps
  <2> HIDE DEF deeper
  <2>5. SortsRanges(deeper, len, t)
    <3>1. depth + 1 = t
      BY <2>1
    <3>2. QED
      BY <2>3, <3>1 DEF SortsRanges
  <2>6. deeper \in Inv[t]
    BY <1>1, <2>4, <2>5
  <2> HIDE DEF Inv, Deeper
  <2>7. QED
    BY <2>6 DEF deeper
<1>4. \A t \in 1 .. len : \A rec \in Inv[t - 1] : T[t][rec] = Deeper(rec)
  BY <1>1
<1> HIDE DEF Inv, T
<1>5. Turns(len, Inv, T, none)
  <2> HIDE DEF none, Deeper
  <2>1. QED
    BY <1>2, <1>3, <1>4 DEF Turns
<1>6. PICK h : Run(h, len, Inv, T, none)
  <2> HIDE DEF none, Deeper
  <2>1. QED
    BY <1>5, LoopIs
<1>7. h = F(h)
  <2>1. ASSUME NEW t \in 0 .. len
        PROVE  h[t] = [start \in 0 .. len |-> [end \in -1 .. len - 1 |-> [c \in Arrays(len) |->
                         IF t = 0 THEN c ELSE SortRange(c, start, end, h[t - 1])]]]
    <3>1. CASE t = 0
      <4>1. h[t] = none
        BY <1>6, <3>1 DEF Run
      <4>2. QED
        BY <3>1, <4>1
    <3>2. CASE t \in 1 .. len
      <4>1. h[t] = Deeper(h[t - 1])
        <5> HIDE DEF Deeper
        <5>1. QED
          BY <1>4, <1>6, <3>2 DEF Run
      <4>2. t # 0
        BY <3>2
      <4>3. QED
        BY <4>1, <4>2
    <3>3. t = 0 \/ t \in 1 .. len
      OBVIOUS
    <3>4. QED
      BY <3>1, <3>2, <3>3
  <2>2. h = [t \in 0 .. len |-> h[t]]
    BY <1>6 DEF Run
  <2>3. QED
    BY <2>1, <2>2
<1> DEFINE g == CHOOSE g : g = F(g)
<1>8. g = F(g)
  BY <1>7, Zenon
<1>9. sort_quicksort(b, len) = g[len][0][len - 1][b]
  BY Zenon DEF sort_quicksort
<1> HIDE DEF g
<1>10. g[0] = none /\ \A t \in 1 .. len : g[t] = Deeper(g[t - 1])
  <2>1. g[0] = none
    BY <1>1, <1>8
  <2>2. ASSUME NEW t \in 1 .. len PROVE g[t] = Deeper(g[t - 1])
    <3>1. t \in 0 .. len /\ t # 0
      OBVIOUS
    <3>2. g[t] = [start \in 0 .. len |-> [end \in -1 .. len - 1 |-> [c \in Arrays(len) |->
                    IF t = 0 THEN c ELSE SortRange(c, start, end, g[t - 1])]]]
      BY <1>8, <3>1
    <3>3. QED
      BY <3>1, <3>2
  <2>3. QED
    BY <2>1, <2>2
<1> HIDE DEF none, Deeper
<1>11. Follows(g, len, Inv, T, none)
  BY <1>4, <1>10 DEF Follows
<1>12. g[len] \in Inv[len]
  <2>1. \A t \in 0 .. len : g[t] \in Inv[t]
    BY <1>5, <1>11, LoopIs
  <2>2. QED
    BY <1>1, <2>1
<1>13. SortsRanges(g[len], len, len)
  BY <1>1, <1>12 DEF Inv
<1>14. 0 \in 0 .. len /\ len - 1 \in -1 .. len - 1 /\ (len - 1) - 0 < len
  OBVIOUS
<1>15. QED
  BY <1>9, <1>13, <1>14 DEF SortsRanges

(* merge_two: what lies at lo .. to was taken, each from a place of its    *)
(* own, from the places S of the array m; the rest is as it was.           *)
Draws(f, n, lo, to, S) ==
  /\ f \in [0 .. n - 1 -> 0 .. n - 1]
  /\ \A i \in 0 .. n - 1 : IF lo <= i /\ i <= to THEN f[i] \in S ELSE f[i] = i
  /\ \A i, j \in lo .. to : f[i] = f[j] => i = j
  /\ \A j \in S : \E i \in lo .. to : f[i] = j

Drawn(m, b, n, lo, to, S) ==
  \E f : Draws(f, n, lo, to, S) /\ b = [i \in 0 .. n - 1 |-> m[f[i]]]

LEMMA DrawnOne ==
  ASSUME NEW n \in Nat, NEW m, NEW b, NEW lo \in Nat, NEW p \in lo .. n - 1, NEW S,
         Drawn(m, b, n, lo, p - 1, S), NEW k \in 0 .. n - 1, k \notin S
  PROVE  Drawn(m, [b EXCEPT ![p] = m[k]], n, lo, p, S \cup {k})
<1>1. PICK f : Draws(f, n, lo, p - 1, S) /\ b = [i \in 0 .. n - 1 |-> m[f[i]]]
  BY DEF Drawn
<1> DEFINE g == [f EXCEPT ![p] = k]
<1>2. p \in 0 .. n - 1 /\ f \in [0 .. n - 1 -> 0 .. n - 1]
  BY <1>1 DEF Draws
<1>3. g \in [0 .. n - 1 -> 0 .. n - 1] /\ g[p] = k /\ \A i \in 0 .. n - 1 : i # p => g[i] = f[i]
  BY <1>2
<1> HIDE DEF g
<1>4. \A i \in lo .. p : i \in 0 .. n - 1 /\ (i # p => i \in lo .. p - 1)
  OBVIOUS
<1>5. ASSUME NEW i \in 0 .. n - 1
      PROVE  IF lo <= i /\ i <= p THEN g[i] \in S \cup {k} ELSE g[i] = i
  <2>1. CASE i = p
    BY <1>3, <2>1
  <2>2. CASE i # p
    <3>1. (lo <= i /\ i <= p) <=> (lo <= i /\ i <= p - 1)
      BY <2>2
    <3>2. g[i] = f[i]
      BY <1>3, <2>2
    <3>3. QED
      BY <1>1, <3>1, <3>2 DEF Draws
  <2>3. QED
    BY <2>1, <2>2
<1>6. ASSUME NEW i \in lo .. p - 1 PROVE f[i] \in S /\ i \in lo .. p /\ i # p
  <2>1. i \in 0 .. n - 1 /\ lo <= i /\ i <= p - 1 /\ i \in lo .. p /\ i # p
    OBVIOUS
  <2>2. QED
    BY <1>1, <2>1 DEF Draws
<1>7. ASSUME NEW i \in lo .. p, NEW j \in lo .. p, g[i] = g[j] PROVE i = j
  <2>1. CASE i = p \/ j = p
    BY <1>3, <1>4, <1>6, <1>7, <2>1
  <2>2. CASE i # p /\ j # p
    BY <1>1, <1>3, <1>4, <1>7, <2>2 DEF Draws
  <2>3. QED
    BY <2>1, <2>2
<1>8. ASSUME NEW j \in S \cup {k} PROVE \E i \in lo .. p : g[i] = j
  <2>1. CASE j = k
    <3>1. p \in lo .. p
      OBVIOUS
    <3>2. QED
      BY <1>3, <2>1, <3>1
  <2>2. CASE j \in S
    <3>1. PICK i \in lo .. p - 1 : f[i] = j
      BY <1>1, <2>2 DEF Draws
    <3>2. QED
      BY <1>3, <1>4, <1>6, <3>1
  <2>3. QED
    BY <2>1, <2>2
<1>9. Draws(g, n, lo, p, S \cup {k})
  BY <1>3, <1>5, <1>7, <1>8 DEF Draws
<1>10. [b EXCEPT ![p] = m[k]] = [i \in 0 .. n - 1 |-> m[g[i]]]
  BY <1>1, <1>3
<1>11. QED
  BY <1>9, <1>10 DEF Drawn

LEMMA DrawnNone ==
  ASSUME NEW n \in Nat, NEW m \in Arrays(n), NEW lo \in Nat
  PROVE  Drawn(m, m, n, lo, lo - 1, {})
<1> DEFINE f == [i \in 0 .. n - 1 |-> i]
<1>1. Draws(f, n, lo, lo - 1, {})
  BY DEF Draws
<1>2. m = [i \in 0 .. n - 1 |-> m[f[i]]]
  BY DEF Arrays
<1> HIDE DEF f
<1>3. QED
  BY <1>1, <1>2 DEF Drawn

LEMMA DrawnAll ==
  ASSUME NEW n \in Nat, NEW m, NEW b, NEW lo \in Nat, NEW hi \in lo .. n - 1,
         Drawn(m, b, n, lo, hi, lo .. hi)
  PROVE  Rearranged(m, b, n, lo, hi)
<1>1. PICK f : Draws(f, n, lo, hi, lo .. hi) /\ b = [i \in 0 .. n - 1 |-> m[f[i]]]
  BY DEF Drawn
<1>2. \A i \in 0 .. n - 1 : i \in Int /\ f[i] \in 0 .. n - 1
  BY <1>1 DEF Draws
<1>3. ASSUME NEW i \in 0 .. n - 1
      PROVE  IF lo <= i /\ i <= hi THEN lo <= f[i] /\ f[i] <= hi ELSE f[i] = i
  BY <1>1 DEF Draws
<1>4. ASSUME NEW i \in 0 .. n - 1, NEW j \in 0 .. n - 1, f[i] = f[j] PROVE i = j
  <2>1. CASE i \in lo .. hi /\ j \in lo .. hi
    BY <1>1, <1>4, <2>1 DEF Draws
  <2>2. CASE ~(i \in lo .. hi /\ j \in lo .. hi)
    BY <1>3, <1>4, <2>2
  <2>3. QED
    BY <2>1, <2>2
<1>5. ASSUME NEW j \in 0 .. n - 1 PROVE \E i \in 0 .. n - 1 : f[i] = j
  <2>1. CASE j \in lo .. hi
    <3>1. PICK i \in lo .. hi : f[i] = j
      BY <1>1, <2>1 DEF Draws
    <3>2. i \in 0 .. n - 1
      OBVIOUS
    <3>3. QED
      BY <3>1, <3>2
  <2>2. CASE j \notin lo .. hi
    BY <1>3, <2>2
  <2>3. QED
    BY <2>1, <2>2
<1>6. Moves(f, n, lo, hi)
  BY <1>1, <1>3, <1>4, <1>5 DEF Draws, Moves
<1>7. QED
  BY <1>1, <1>6 DEF Rearranged

(* What was written is in order, and not greater than what comes next.     *)
WrittenInOrder(m, b, lo, to, p1, e1, p2, e2) ==
  /\ Ascending(b, lo, to)
  /\ \A i \in lo .. to : (p1 <= e1 => b[i] <= m[p1]) /\ (p2 <= e2 => b[i] <= m[p2])

LEMMA OrderedOne ==
  ASSUME NEW n \in Nat, NEW m \in Arrays(n), NEW b \in Arrays(n),
         NEW lo \in Nat, NEW p \in lo .. n - 1, NEW k \in 0 .. n - 1,
         NEW p1 \in Int, NEW e1 \in Int, NEW p2 \in Int, NEW e2 \in Int,
         \A i \in lo .. p - 1 : b[i] <= m[k], Ascending(b, lo, p - 1),
         p1 <= e1 => m[k] <= m[p1] /\ p1 \in 0 .. n - 1,
         p2 <= e2 => m[k] <= m[p2] /\ p2 \in 0 .. n - 1
  PROVE  WrittenInOrder(m, [b EXCEPT ![p] = m[k]], lo, p, p1, e1, p2, e2)
<1> DEFINE c == [b EXCEPT ![p] = m[k]]
<1>1. p \in 0 .. n - 1 /\ DOMAIN b = 0 .. n - 1
  BY DEF Arrays
<1>2. c[p] = m[k] /\ \A i \in 0 .. n - 1 : i # p => c[i] = b[i]
  BY <1>1
<1> HIDE DEF c
<1>3. \A i \in 0 .. n - 1 : m[i] \in Int /\ b[i] \in Int
  BY ElementsAreInts
<1>4. ASSUME NEW i \in lo .. p PROVE c[i] <= m[k] /\ c[i] \in Int
  <2>1. CASE i = p
    BY <1>2, <1>3, <2>1
  <2>2. CASE i # p
    <3>1. i \in lo .. p - 1 /\ i \in 0 .. n - 1
      BY <2>2
    <3>2. QED
      BY <1>2, <1>3, <2>2, <3>1
  <2>3. QED
    BY <2>1, <2>2
<1>5. ASSUME NEW i \in lo .. p, NEW j \in lo .. p, i < j PROVE c[i] <= c[j]
  <2>1. CASE j = p
    BY <1>2, <1>4, <2>1
  <2>2. CASE j # p
    <3>1. i \in lo .. p - 1 /\ j \in lo .. p - 1 /\ i \in 0 .. n - 1 /\ j \in 0 .. n - 1 /\ i # p
      BY <1>5, <2>2
    <3>2. b[i] <= b[j]
      BY <1>5, <3>1 DEF Ascending
    <3>3. QED
      BY <1>2, <2>2, <3>1, <3>2
  <2>3. QED
    BY <2>1, <2>2
<1>6. ASSUME NEW i \in lo .. p
      PROVE  (p1 <= e1 => c[i] <= m[p1]) /\ (p2 <= e2 => c[i] <= m[p2])
  BY <1>3, <1>4
<1>7. WrittenInOrder(m, c, lo, p, p1, e1, p2, e2)
  BY <1>5, <1>6 DEF WrittenInOrder, Ascending
<1>8. QED
  BY <1>7 DEF c

(* The places from which p1 and p2 took what is written.                   *)
Taken(lo, p1, mid, p2) == (lo .. p1 - 1) \cup (mid .. p2 - 1)

Merging(m, s, n, lo, p, e1, e2) ==
  /\ s = [a |-> s.a, p1 |-> s.p1, p2 |-> s.p2] /\ s.a \in Arrays(n)
  /\ s.p1 \in lo .. e1 + 1 /\ s.p2 \in e1 + 1 .. e2 + 1
  /\ s.p1 + s.p2 = p + e1 + 1
  /\ Drawn(m, s.a, n, lo, p - 1, Taken(lo, s.p1, e1 + 1, s.p2))
  /\ WrittenInOrder(m, s.a, lo, p - 1, s.p1, e1, s.p2, e2)

LEMMA MergeOneKeeps ==
  ASSUME NEW n \in Nat, NEW m \in Arrays(n), NEW lo \in Nat,
         NEW e1 \in lo .. n - 1, NEW e2 \in e1 + 1 .. n - 1, NEW p \in lo .. e2,
         Ascending(m, lo, e1), Ascending(m, e1 + 1, e2),
         NEW s, Merging(m, s, n, lo, p, e1, e2)
  PROVE  Merging(m, MergeOne(s, m, p, e1, e2), n, lo, p + 1, e1, e2)
<1>1. PICK b, p1, p2 : b = s.a /\ p1 = s.p1 /\ p2 = s.p2
  OBVIOUS
<1>2. /\ b \in Arrays(n) /\ p1 \in lo .. e1 + 1 /\ p2 \in e1 + 1 .. e2 + 1
      /\ p1 + p2 = p + e1 + 1
      /\ Drawn(m, b, n, lo, p - 1, Taken(lo, p1, e1 + 1, p2))
      /\ WrittenInOrder(m, b, lo, p - 1, p1, e1, p2, e2)
  BY <1>1 DEF Merging
<1>3. \A i \in 0 .. n - 1 : m[i] \in Int
  BY ElementsAreInts
<1>4. ASSUME NEW k \in 0 .. n - 1, NEW q1 \in lo .. e1 + 1, NEW q2 \in e1 + 1 .. e2 + 1,
             (k = p1 /\ p1 <= e1 /\ q1 = p1 + 1 /\ q2 = p2 /\ (p2 <= e2 => m[p1] <= m[p2]))
             \/ (k = p2 /\ p2 <= e2 /\ q1 = p1 /\ q2 = p2 + 1 /\ (p1 <= e1 => m[p2] <= m[p1]))
      PROVE  Merging(m, [a |-> [b EXCEPT ![p] = m[k]], p1 |-> q1, p2 |-> q2],
                     n, lo, p + 1, e1, e2)
  <2> DEFINE c == [b EXCEPT ![p] = m[k]]
  <2>1. p \in lo .. n - 1 /\ p \in 0 .. n - 1
    OBVIOUS
  <2>2. k \notin Taken(lo, p1, e1 + 1, p2)
    BY <1>2, <1>4 DEF Taken
  <2>3. Taken(lo, q1, e1 + 1, q2) = Taken(lo, p1, e1 + 1, p2) \cup {k}
    BY <1>2, <1>4 DEF Taken
  <2>4. Drawn(m, c, n, lo, p, Taken(lo, q1, e1 + 1, q2))
    <3>1. PICK S : S = Taken(lo, p1, e1 + 1, p2)
      OBVIOUS
    <3>2. Drawn(m, b, n, lo, p - 1, S) /\ k \notin S
      BY <1>2, <2>2, <3>1
    <3>3. Drawn(m, c, n, lo, p, S \cup {k})
      BY <2>1, <3>2, DrawnOne
    <3> HIDE DEF c
    <3>4. QED
      BY <2>3, <3>1, <3>3
  <2>5. c \in Arrays(n)
    BY <1>2, <2>1 DEF Arrays
  <2>6. WrittenInOrder(m, c, lo, p, q1, e1, q2, e2)
    <3>1. \A i \in lo .. p - 1 : b[i] <= m[k]
      BY <1>2, <1>4 DEF WrittenInOrder
    <3>2. Ascending(b, lo, p - 1)
      BY <1>2 DEF WrittenInOrder
    <3>3. q1 <= e1 => m[k] <= m[q1] /\ q1 \in 0 .. n - 1
      <4>1. CASE k = p1 /\ q1 = p1 + 1
        <5>1. q1 <= e1 => p1 \in lo .. e1 /\ q1 \in lo .. e1 /\ p1 < q1 /\ q1 \in 0 .. n - 1
          BY <1>2, <4>1
        <5>2. QED
          BY <4>1, <5>1 DEF Ascending
      <4>2. CASE k = p2 /\ q1 = p1 /\ (p1 <= e1 => m[p2] <= m[p1])
        BY <1>2, <4>2
      <4>3. QED
        BY <1>4, <4>1, <4>2
    <3>4. q2 <= e2 => m[k] <= m[q2] /\ q2 \in 0 .. n - 1
      <4>1. CASE k = p2 /\ q2 = p2 + 1
        <5>1. q2 <= e2 => p2 \in e1 + 1 .. e2 /\ q2 \in e1 + 1 .. e2 /\ p2 < q2 /\ q2 \in 0 .. n - 1
          BY <1>2, <4>1
        <5>2. QED
          BY <4>1, <5>1 DEF Ascending
      <4>2. CASE k = p1 /\ q2 = p2 /\ (p2 <= e2 => m[p1] <= m[p2])
        BY <1>2, <4>2
      <4>3. QED
        BY <1>4, <4>1, <4>2
    <3>5. q1 \in Int /\ q2 \in Int /\ e1 \in Int /\ e2 \in Int
      OBVIOUS
    <3>6. QED
      BY <1>2, <2>1, <3>1, <3>2, <3>3, <3>4, <3>5, OrderedOne
  <2> HIDE DEF c
  <2>7. q1 + q2 = (p + 1) + e1 + 1 /\ (p + 1) - 1 = p
    BY <1>2, <1>4
  <2> DEFINE r == [a |-> c, p1 |-> q1, p2 |-> q2]
  <2>8. r = [a |-> r.a, p1 |-> r.p1, p2 |-> r.p2] /\ r.a = c /\ r.p1 = q1 /\ r.p2 = q2
    OBVIOUS
  <2> HIDE DEF r
  <2>9. Merging(m, r, n, lo, p + 1, e1, e2)
    BY <2>4, <2>5, <2>6, <2>7, <2>8 DEF Merging
  <2>10. QED
    BY <2>9 DEF r, c
<1>5. CASE p1 <= e1 /\ (p2 > e2 \/ m[p1] < m[p2])
  <2>1. p1 \in 0 .. n - 1 /\ p1 + 1 \in lo .. e1 + 1
    BY <1>2, <1>5
  <2>2. p2 <= e2 => m[p1] <= m[p2]
    <3>1. p2 <= e2 => p2 \in 0 .. n - 1
      BY <1>2
    <3>2. QED
      BY <1>2, <1>3, <1>5, <2>1, <3>1
  <2>3. MergeOne(s, m, p, e1, e2) = [a |-> [b EXCEPT ![p] = m[p1]], p1 |-> p1 + 1, p2 |-> p2]
    BY <1>1, <1>5 DEF MergeOne
  <2>4. QED
    BY <1>2, <1>4, <1>5, <2>1, <2>2, <2>3
<1>6. CASE ~(p1 <= e1 /\ (p2 > e2 \/ m[p1] < m[p2]))
  <2>1. p2 <= e2 /\ p2 \in 0 .. n - 1 /\ p2 + 1 \in e1 + 1 .. e2 + 1
    BY <1>2, <1>6
  <2>2. p1 <= e1 => m[p2] <= m[p1]
    <3>1. p1 <= e1 => p1 \in 0 .. n - 1
      BY <1>2
    <3>2. QED
      BY <1>2, <1>3, <1>6, <2>1, <3>1
  <2>3. MergeOne(s, m, p, e1, e2) = [a |-> [b EXCEPT ![p] = m[p2]], p1 |-> p1, p2 |-> p2 + 1]
    BY <1>1, <1>6 DEF MergeOne
  <2>4. QED
    BY <1>2, <1>4, <2>1, <2>2, <2>3
<1>7. QED
  BY <1>5, <1>6

LEMMA MergeTwoIs ==
  ASSUME NEW n \in Nat, NEW b \in Arrays(n), NEW lo \in Nat,
         NEW e1 \in lo .. n - 1, NEW e2 \in e1 + 1 .. n - 1,
         Ascending(b, lo, e1), Ascending(b, e1 + 1, e2)
  PROVE  LET c == merge_two(b, lo, e1, e1 + 1, e2)
         IN  Rearranged(b, c, n, lo, e2) /\ Ascending(c, lo, e2)
<1>1. PICK turns \in Nat : turns = e2 - lo + 1
  OBVIOUS
<1> DEFINE State == [a : Arrays(n), p1 : lo .. e1 + 1, p2 : e1 + 1 .. e2 + 1]
           Inv == [t \in 0 .. turns |-> {s \in State : Merging(b, s, n, lo, lo + t, e1, e2)}]
           T == [t \in 1 .. turns |-> [s \in Inv[t - 1] |-> MergeOne(s, b, lo + t - 1, e1, e2)]]
           first == [a |-> b, p1 |-> lo, p2 |-> e1 + 1]
           F(h) == [t \in 0 .. turns |->
                      IF t = 0 THEN first ELSE MergeOne(h[t - 1], b, lo + t - 1, e1, e2)]
<1>2. turns \in 0 .. turns /\ \A t \in 1 .. turns : t - 1 \in 0 .. turns /\ t \in 0 .. turns
  OBVIOUS
<1>3. ASSUME NEW p \in lo .. e2 + 1, NEW s, Merging(b, s, n, lo, p, e1, e2) PROVE s \in State
  BY <1>3 DEF Merging
<1>4. first \in Inv[0]
  <2>1. first.a = b /\ first.p1 = lo /\ first.p2 = e1 + 1
        /\ first = [a |-> first.a, p1 |-> first.p1, p2 |-> first.p2]
    OBVIOUS
  <2>2. Taken(lo, lo, e1 + 1, e1 + 1) = {}
    BY DEF Taken
  <2>3. Drawn(b, b, n, lo, lo - 1, {})
    BY DrawnNone
  <2>4. WrittenInOrder(b, b, lo, lo - 1, lo, e1, e1 + 1, e2)
    BY DEF WrittenInOrder, Ascending
  <2>5. lo \in lo .. e1 + 1 /\ e1 + 1 \in e1 + 1 .. e2 + 1 /\ lo + (e1 + 1) = lo + e1 + 1
        /\ lo + 0 = lo /\ lo \in lo .. e2 + 1 /\ 0 \in 0 .. turns
    OBVIOUS
  <2> HIDE DEF first, State
  <2>6. Merging(b, first, n, lo, lo, e1, e2)
    BY <2>1, <2>2, <2>3, <2>4, <2>5 DEF Merging
  <2>7. first \in State
    BY <1>3, <2>5, <2>6
  <2>8. QED
    BY <2>5, <2>6, <2>7
<1>5. ASSUME NEW t \in 1 .. turns, NEW s \in Inv[t - 1]
      PROVE  MergeOne(s, b, lo + t - 1, e1, e2) \in Inv[t]
  <2>1. PICK p \in lo .. e2 : p = lo + (t - 1) /\ p = lo + t - 1 /\ p + 1 = lo + t
    BY <1>1
  <2>2. Merging(b, s, n, lo, p, e1, e2)
    BY <1>2, <2>1
  <2> DEFINE r == MergeOne(s, b, p, e1, e2)
  <2>3. Merging(b, r, n, lo, p + 1, e1, e2)
    BY <2>2, MergeOneKeeps
  <2> HIDE DEF r, State
  <2>4. r \in State
    BY <1>3, <2>3
  <2>5. r \in Inv[t]
    BY <1>2, <2>1, <2>3, <2>4
  <2> HIDE DEF Inv
  <2>6. QED
    BY <2>1, <2>5 DEF r
<1> HIDE DEF State, first
<1>6. \A t \in 1 .. turns : \A s \in Inv[t - 1] : T[t][s] = MergeOne(s, b, lo + t - 1, e1, e2)
  BY <1>2
<1> HIDE DEF Inv, T
<1>7. Turns(turns, Inv, T, first)
  BY <1>4, <1>5, <1>6 DEF Turns
<1>8. PICK h : Run(h, turns, Inv, T, first)
  BY <1>7, LoopIs
<1>9. h = F(h)
  <2>1. ASSUME NEW t \in 0 .. turns
        PROVE  h[t] = IF t = 0 THEN first ELSE MergeOne(h[t - 1], b, lo + t - 1, e1, e2)
    <3>1. t = 0 \/ t \in 1 .. turns
      OBVIOUS
    <3>2. QED
      BY <1>6, <1>8, <3>1 DEF Run
  <2>2. QED
    BY <1>8, <2>1 DEF Run
<1> DEFINE g == CHOOSE g : g = F(g)
<1>10. g = F(g)
  BY <1>9, Zenon
<1>11. merge_two(b, lo, e1, e1 + 1, e2) = g[turns].a
  BY <1>1, Zenon DEF merge_two, first
<1> HIDE DEF g
<1>12. g[0] = first /\ \A t \in 1 .. turns : g[t] = MergeOne(g[t - 1], b, lo + t - 1, e1, e2)
  BY <1>2, <1>10
<1>13. Follows(g, turns, Inv, T, first)
  BY <1>6, <1>12 DEF Follows
<1>14. g[turns] \in Inv[turns]
  <2>1. \A t \in 0 .. turns : g[t] \in Inv[t]
    BY <1>7, <1>13, LoopIs
  <2>2. QED
    BY <1>2, <2>1
<1>15. PICK s : s = g[turns] /\ Merging(b, s, n, lo, e2 + 1, e1, e2)
  <2>1. lo + turns = e2 + 1
    BY <1>1
  <2>2. QED
    BY <1>2, <1>14, <2>1 DEF Inv
<1>16. s.p1 = e1 + 1 /\ s.p2 = e2 + 1 /\ (e2 + 1) - 1 = e2
  <2>1. PICK p1 \in lo .. e1 + 1, p2 \in e1 + 1 .. e2 + 1 :
          p1 = s.p1 /\ p2 = s.p2 /\ p1 + p2 = e2 + 1 + e1 + 1
    BY <1>15 DEF Merging
  <2>2. p1 = e1 + 1 /\ p2 = e2 + 1
    BY <2>1
  <2>3. QED
    BY <2>1, <2>2
<1>17. Taken(lo, e1 + 1, e1 + 1, e2 + 1) = lo .. e2
  BY DEF Taken
<1>18. Rearranged(b, s.a, n, lo, e2)
  <2>1. Drawn(b, s.a, n, lo, e2, lo .. e2) /\ e2 \in lo .. n - 1
    BY <1>15, <1>16, <1>17 DEF Merging
  <2>2. QED
    BY <2>1, DrawnAll
<1>19. Ascending(s.a, lo, e2)
  BY <1>15, <1>16 DEF Merging, WrittenInOrder
<1>20. QED
  BY <1>11, <1>15, <1>18, <1>19

(* mergesort: from i on, w elements, or as many as there are, are sorted.  *)
SortedAt(b, len, i, w) ==
  \A x, y \in 0 .. len - 1 : i <= x /\ x < y /\ y < i + w => b[x] <= b[y]

LEMMA MergePairIs ==
  ASSUME NEW len \in Nat, NEW b \in Arrays(len), NEW step \in Nat \ {0}, NEW i \in Nat,
         SortedAt(b, len, i, step), SortedAt(b, len, i + step, step)
  PROVE  LET c == MergePair(b, len, step, i)
         IN  /\ c \in Arrays(len) /\ Rearranged(b, c, len, 0, len - 1)
             /\ SortedAt(c, len, i, 2 * step)
             /\ \A x \in 0 .. len - 1 : x < i \/ x >= i + 2 * step => c[x] = b[x]
<1> DEFINE c == MergePair(b, len, step, i)
<1>0. 0 \in Int /\ len - 1 \in Int
  OBVIOUS
<1>1. CASE ~(i + step - 1 < len - 1)
  <2>1. c = b
    BY <1>1 DEF MergePair
  <2>2. SortedAt(b, len, i, 2 * step)
    BY <1>1 DEF SortedAt
  <2>3. Rearranged(b, b, len, 0, len - 1)
    BY <1>0, Unmoved
  <2> HIDE DEF c
  <2>4. QED
    BY <2>1, <2>2, <2>3 DEF c
<1>2. CASE i + step - 1 < len - 1
  <2>1. PICK e1 \in i .. len - 1 : e1 = i + step - 1 /\ e1 + 1 = i + step
    BY <1>2
  <2>2. PICK e2 \in e1 + 1 .. len - 1 :
          e2 = IF i + 2 * step - 1 < len - 1 THEN i + 2 * step - 1 ELSE len - 1
    BY <1>2, <2>1
  <2>3. c = merge_two(b, i, e1, e1 + 1, e2)
    BY <1>2, <2>1, <2>2 DEF MergePair
  <2>4. Ascending(b, i, e1)
    <3> SUFFICES ASSUME NEW x \in i .. e1, NEW y \in i .. e1, x < y PROVE b[x] <= b[y]
      BY DEF Ascending
    <3>1. x \in 0 .. len - 1 /\ y \in 0 .. len - 1 /\ i <= x /\ y < i + step
      BY <2>1
    <3>2. QED
      BY <3>1 DEF SortedAt
  <2>5. Ascending(b, e1 + 1, e2)
    <3> SUFFICES ASSUME NEW x \in e1 + 1 .. e2, NEW y \in e1 + 1 .. e2, x < y PROVE b[x] <= b[y]
      BY DEF Ascending
    <3>1. x \in 0 .. len - 1 /\ y \in 0 .. len - 1 /\ i + step <= x /\ y < (i + step) + step
      BY <2>1, <2>2
    <3>2. QED
      BY <3>1 DEF SortedAt
  <2>6. Rearranged(b, c, len, i, e2) /\ Ascending(c, i, e2)
    BY <2>3, <2>4, <2>5, MergeTwoIs
  <2> HIDE DEF c
  <2>7. i \in Int /\ e2 \in Int /\ 0 <= i /\ e2 <= len - 1
    OBVIOUS
  <2>8. Rearranged(b, c, len, 0, len - 1)
    BY <1>0, <2>6, <2>7, MovedWithin
  <2>9. /\ c \in Arrays(len)
        /\ \A x \in 0 .. len - 1 :
             IF i <= x /\ x <= e2
               THEN \E k \in 0 .. len - 1 : i <= k /\ k <= e2 /\ c[x] = b[k]
               ELSE c[x] = b[x]
    BY <2>6, <2>7, CameFrom
  <2>10. SortedAt(c, len, i, 2 * step)
    <3> SUFFICES ASSUME NEW x \in 0 .. len - 1, NEW y \in 0 .. len - 1,
                        i <= x, x < y, y < i + 2 * step
                 PROVE  c[x] <= c[y]
      BY DEF SortedAt
    <3>1. x \in i .. e2 /\ y \in i .. e2
      BY <2>2
    <3>2. QED
      BY <2>6, <3>1 DEF Ascending
  <2>11. ASSUME NEW x \in 0 .. len - 1, x < i \/ x >= i + 2 * step PROVE c[x] = b[x]
    <3>1. ~(i <= x /\ x <= e2)
      BY <2>2, <2>11
    <3>2. QED
      BY <2>9, <3>1
  <2>12. QED
    BY <2>8, <2>9, <2>10, <2>11 DEF c
<1>3. QED
  BY <1>1, <1>2

(* The blocks of w elements, one behind the other.                         *)
LEMMA BlocksApart ==
  ASSUME NEW w \in Nat
  PROVE  /\ \A k \in Nat : w * k \in Nat
         /\ w * 0 = 0
         /\ \A k, l \in Nat : k < l => w * k + w <= w * l
         /\ w # 0 => \A k \in Nat : w * k >= k
<1>1. ASSUME NEW k \in Nat, NEW l \in Nat, k < l PROVE w * k + w <= w * l
  <2>1. PICK d \in Nat : l = k + 1 + d
    <3>1. l - k - 1 \in Nat /\ l = k + 1 + (l - k - 1)
      BY <1>1
    <3>2. QED
      BY <3>1
  <2>2. w * d \in Nat /\ w * l = w * k + w + w * d /\ w * k \in Nat
    BY <2>1
  <2>3. QED
    BY <2>2
<1>2. ASSUME w # 0, NEW k \in Nat PROVE w * k >= k
  <2>1. PICK v \in Nat : w = v + 1
    <3>1. w - 1 \in Nat /\ w = (w - 1) + 1
      BY <1>2
    <3>2. QED
      BY <3>1
  <2>2. w * k = v * k + k /\ v * k \in Nat
    BY <2>1
  <2>3. QED
    BY <2>2
<1>3. QED
  BY <1>1, <1>2

(* The first t pairs of blocks are merged.                                 *)
Paired(b, len, step, t) ==
  \A k \in Nat :
    IF k < t THEN SortedAt(b, len, 2 * step * k, 2 * step)
    ELSE SortedAt(b, len, 2 * step * k, step) /\ SortedAt(b, len, 2 * step * k + step, step)

LEMMA MergePairsIs ==
  ASSUME NEW len \in Nat, NEW b \in Arrays(len), NEW step \in Nat \ {0},
         \A k \in Nat : SortedAt(b, len, step * k, step)
  PROVE  LET c == MergePairs(b, len, step)
         IN  /\ c \in Arrays(len) /\ Rearranged(b, c, len, 0, len - 1)
             /\ \A k \in Nat : SortedAt(c, len, 2 * step * k, 2 * step)
<1> DEFINE Kept(c, t) == Rearranged(b, c, len, 0, len - 1) /\ Paired(c, len, step, t)
           Inv == [t \in 0 .. len |-> {c \in Arrays(len) : Kept(c, t)}]
           T == [t \in 1 .. len |-> [c \in Inv[t - 1] |-> MergePair(c, len, step, 2 * step * (t - 1))]]
           F(h) == [t \in 0 .. len |->
                      IF t = 0 THEN b ELSE MergePair(h[t - 1], len, step, 2 * step * (t - 1))]
<1>1. len \in 0 .. len /\ \A t \in 1 .. len : t - 1 \in 0 .. len /\ t \in 0 .. len
  OBVIOUS
<1>2. PICK w \in Nat : w = 2 * step
  OBVIOUS
<1>3. /\ \A k \in Nat : w * k \in Nat
      /\ \A k, l \in Nat : k < l => w * k + w <= w * l
      /\ \A k \in Nat : w * k >= k
  <2>1. w # 0
    BY <1>2
  <2>2. QED
    BY <2>1, BlocksApart
<1>4. b \in Inv[0]
  <2>1. Paired(b, len, step, 0)
    <3> SUFFICES ASSUME NEW k \in Nat
                 PROVE  SortedAt(b, len, 2 * step * k, step) /\ SortedAt(b, len, 2 * step * k + step, step)
      BY DEF Paired
    <3>1. 2 * k \in Nat /\ 2 * k + 1 \in Nat
      OBVIOUS
    <3>2. step * (2 * k) = 2 * step * k /\ step * (2 * k + 1) = 2 * step * k + step
      OBVIOUS
    <3>3. SortedAt(b, len, step * (2 * k), step) /\ SortedAt(b, len, step * (2 * k + 1), step)
      BY <3>1
    <3>4. QED
      BY <3>2, <3>3
  <2>2. Rearranged(b, b, len, 0, len - 1)
    <3>1. 0 \in Int /\ len - 1 \in Int
      OBVIOUS
    <3>2. QED
      BY <3>1, Unmoved
  <2>3. QED
    BY <2>1, <2>2
<1>5. ASSUME NEW t \in 1 .. len, NEW c \in Inv[t - 1]
      PROVE  MergePair(c, len, step, 2 * step * (t - 1)) \in Inv[t]
  <2>1. c \in Arrays(len) /\ Kept(c, t - 1)
    BY <1>1
  <2>2. PICK l \in Nat : l = t - 1
    OBVIOUS
  <2>3. PICK i \in Nat : i = w * l /\ i = 2 * step * (t - 1) /\ i = 2 * step * l
    BY <1>2, <1>3, <2>2
  <2>4. SortedAt(c, len, i, step) /\ SortedAt(c, len, i + step, step)
    <3>1. ~(l < t - 1)
      BY <2>2
    <3>2. QED
      BY <2>1, <2>3, <3>1 DEF Paired
  <2> DEFINE d == MergePair(c, len, step, i)
  <2>5. /\ d \in Arrays(len) /\ Rearranged(c, d, len, 0, len - 1)
        /\ SortedAt(d, len, i, w)
        /\ \A x \in 0 .. len - 1 : x < i \/ x >= i + w => d[x] = c[x]
    BY <1>2, <2>1, <2>4, MergePairIs
  <2> HIDE DEF d
  <2>6. Rearranged(b, d, len, 0, len - 1)
    <3>1. 0 \in Int /\ len - 1 \in Int
      OBVIOUS
    <3>2. QED
      BY <2>1, <2>5, <3>1, MovedTwice
  <2>7. ASSUME NEW j \in Nat, NEW v \in Nat, j + v <= i \/ j >= i + w, SortedAt(c, len, j, v)
        PROVE  SortedAt(d, len, j, v)
    <3> SUFFICES ASSUME NEW x \in 0 .. len - 1, NEW y \in 0 .. len - 1,
                        j <= x, x < y, y < j + v
                 PROVE  d[x] <= d[y]
      BY DEF SortedAt
    <3>1. d[x] = c[x] /\ d[y] = c[y]
      BY <2>5, <2>7
    <3>2. c[x] <= c[y]
      BY <2>7 DEF SortedAt
    <3>3. QED
      BY <3>1, <3>2
  <2>8. ASSUME NEW k \in Nat, k < l PROVE SortedAt(d, len, w * k, w)
    <3>1. w * k \in Nat /\ w * k + w <= i
      BY <1>3, <2>3, <2>8
    <3>2. SortedAt(c, len, w * k, w)
      BY <1>2, <2>1, <2>2, <2>8 DEF Paired
    <3>3. QED
      BY <2>7, <3>1, <3>2
  <2>9. ASSUME NEW k \in Nat, k > l
        PROVE  SortedAt(d, len, w * k, step) /\ SortedAt(d, len, w * k + step, step)
    <3>1. w * k \in Nat /\ w * k >= i + w /\ w * k + step \in Nat /\ w * k + step >= i + w
      BY <1>3, <2>3, <2>9
    <3>2. SortedAt(c, len, w * k, step) /\ SortedAt(c, len, w * k + step, step)
      <4>1. ~(k < t - 1)
        BY <2>2, <2>9
      <4>2. QED
        BY <1>2, <2>1, <4>1 DEF Paired
    <3>3. QED
      BY <2>7, <3>1, <3>2
  <2>10. Paired(d, len, step, t)
    <3> SUFFICES ASSUME NEW k \in Nat
                 PROVE  IF k < t THEN SortedAt(d, len, w * k, w)
                        ELSE SortedAt(d, len, w * k, step) /\ SortedAt(d, len, w * k + step, step)
      BY <1>2 DEF Paired
    <3>1. (k < t <=> k < l \/ k = l) /\ (~(k < t) => k > l)
      BY <2>2
    <3>2. k = l => SortedAt(d, len, w * k, w)
      BY <2>3, <2>5
    <3>3. QED
      BY <2>8, <2>9, <3>1, <3>2
  <2>11. d \in Inv[t]
    BY <1>1, <2>5, <2>6, <2>10
  <2> HIDE DEF Inv
  <2>12. QED
    BY <2>3, <2>11 DEF d
<1> HIDE DEF Kept
<1>6. \A t \in 1 .. len : \A c \in Inv[t - 1] :
        T[t][c] = MergePair(c, len, step, 2 * step * (t - 1))
  BY <1>1
<1> HIDE DEF Inv, T
<1>7. Turns(len, Inv, T, b)
  BY <1>4, <1>5, <1>6 DEF Turns
<1>8. PICK h : Run(h, len, Inv, T, b)
  BY <1>7, LoopIs
<1>9. h = F(h)
  <2>1. ASSUME NEW t \in 0 .. len
        PROVE  h[t] = IF t = 0 THEN b ELSE MergePair(h[t - 1], len, step, 2 * step * (t - 1))
    <3>1. t = 0 \/ t \in 1 .. len
      OBVIOUS
    <3>2. QED
      BY <1>6, <1>8, <3>1 DEF Run
  <2>2. QED
    BY <1>8, <2>1 DEF Run
<1> DEFINE g == CHOOSE g : g = F(g)
<1>10. g = F(g)
  BY <1>9, Zenon
<1>11. MergePairs(b, len, step) = g[len]
  BY Zenon DEF MergePairs
<1> HIDE DEF g
<1>12. g[0] = b /\ \A t \in 1 .. len : g[t] = MergePair(g[t - 1], len, step, 2 * step * (t - 1))
  BY <1>1, <1>10
<1>13. Follows(g, len, Inv, T, b)
  BY <1>6, <1>12 DEF Follows
<1>14. g[len] \in Inv[len]
  <2>1. \A t \in 0 .. len : g[t] \in Inv[t]
    BY <1>7, <1>13, LoopIs
  <2>2. QED
    BY <1>1, <2>1
<1>15. PICK c : c = g[len] /\ c \in Arrays(len) /\ Rearranged(b, c, len, 0, len - 1)
                /\ Paired(c, len, step, len)
  BY <1>1, <1>14 DEF Inv, Kept
<1>16. ASSUME NEW k \in Nat PROVE SortedAt(c, len, w * k, w)
  <2>1. CASE k < len
    BY <1>2, <1>15, <2>1 DEF Paired
  <2>2. CASE k >= len
    <3>1. PICK i \in Nat : i = w * k /\ i >= len
      BY <1>3, <2>2
    <3>2. SortedAt(c, len, i, w)
      BY <3>1 DEF SortedAt
    <3>3. QED
      BY <3>1, <3>2
  <2>3. QED
    BY <2>1, <2>2
<1>17. QED
  BY <1>2, <1>11, <1>15, <1>16

(* mergesort returns the array, sorted.                                    *)
LEMMA MergeSorts ==
  ASSUME NEW len \in Nat, NEW b \in Arrays(len)
  PROVE  LET c == sort_mergesort(b, len)
         IN  Rearranged(b, c, len, 0, len - 1) /\ Ascending(c, 0, len - 1)
<1> DEFINE Kept(s, t) == /\ Rearranged(b, s.a, len, 0, len - 1) /\ s.step # 0
                         /\ \A k \in Nat : SortedAt(s.a, len, s.step * k, s.step)
                         /\ s.step > t \/ s.step >= len
           State == [a : Arrays(len), step : Nat]
           Inv == [t \in 0 .. len |-> {s \in State : Kept(s, t)}]
           T == [t \in 1 .. len |-> [s \in Inv[t - 1] |-> MergeStep(s, len)]]
           first == [a |-> b, step |-> 1]
           F(h) == [t \in 0 .. len |-> IF t = 0 THEN first ELSE MergeStep(h[t - 1], len)]
<1>0. 0 \in Int /\ len - 1 \in Int
  OBVIOUS
<1>1. len \in 0 .. len /\ \A t \in 1 .. len : t - 1 \in 0 .. len /\ t \in 0 .. len
  OBVIOUS
<1>2. first \in Inv[0]
  <2>1. first.a = b /\ first.step = 1 /\ first \in State
    OBVIOUS
  <2>2. ASSUME NEW k \in Nat PROVE SortedAt(b, len, 1 * k, 1)
    BY DEF SortedAt
  <2>3. Rearranged(b, b, len, 0, len - 1)
    BY <1>0, Unmoved
  <2> HIDE DEF first, State
  <2>4. Kept(first, 0)
    BY <2>1, <2>2, <2>3
  <2> HIDE DEF Kept
  <2>5. QED
    BY <1>1, <2>1, <2>4
<1>3. ASSUME NEW t \in 1 .. len, NEW s \in Inv[t - 1] PROVE MergeStep(s, len) \in Inv[t]
  <2>1. s \in State /\ Kept(s, t - 1)
    BY <1>1
  <2>2. PICK c \in Arrays(len), step \in Nat \ {0} : c = s.a /\ step = s.step
    BY <2>1
  <2>3. /\ Rearranged(b, c, len, 0, len - 1) /\ (step > t - 1 \/ step >= len)
        /\ \A k \in Nat : SortedAt(c, len, step * k, step)
    BY <2>1, <2>2
  <2>4. CASE step < len
    <3> DEFINE d == MergePairs(c, len, step)
    <3>1. /\ d \in Arrays(len) /\ Rearranged(c, d, len, 0, len - 1)
          /\ \A k \in Nat : SortedAt(d, len, 2 * step * k, 2 * step)
      BY <2>2, <2>3, MergePairsIs
    <3>2. MergeStep(s, len) = [a |-> d, step |-> 2 * step]
      BY <2>2, <2>4 DEF MergeStep
    <3> HIDE DEF d
    <3>3. PICK r : r = [a |-> d, step |-> 2 * step]
      OBVIOUS
    <3>4. PICK w \in Nat \ {0} : w = 2 * step /\ w > t
      BY <2>3, <2>4
    <3>5. r.a = d /\ r.step = w /\ r \in State
      BY <3>1, <3>3, <3>4
    <3>6. Rearranged(b, d, len, 0, len - 1)
      BY <1>0, <2>3, <3>1, MovedTwice
    <3> HIDE DEF State
    <3>7. Kept(r, t)
      BY <3>1, <3>4, <3>5, <3>6
    <3> HIDE DEF Kept
    <3>8. QED
      BY <1>1, <3>2, <3>3, <3>5, <3>7
  <2>5. CASE ~(step < len)
    <3>1. MergeStep(s, len) = s
      BY <2>2, <2>5 DEF MergeStep
    <3>2. s.step >= len
      BY <2>2, <2>5
    <3> HIDE DEF State
    <3>3. Kept(s, t)
      BY <2>1, <3>2
    <3> HIDE DEF Kept
    <3>4. QED
      BY <1>1, <2>1, <3>1, <3>3
  <2>6. QED
    BY <2>4, <2>5
<1> HIDE DEF Kept, State, first
<1>4. \A t \in 1 .. len : \A s \in Inv[t - 1] : T[t][s] = MergeStep(s, len)
  BY <1>1
<1> HIDE DEF Inv, T
<1>5. Turns(len, Inv, T, first)
  BY <1>2, <1>3, <1>4 DEF Turns
<1>6. PICK h : Run(h, len, Inv, T, first)
  BY <1>5, LoopIs
<1>7. h = F(h)
  <2>1. ASSUME NEW t \in 0 .. len
        PROVE  h[t] = IF t = 0 THEN first ELSE MergeStep(h[t - 1], len)
    <3>1. t = 0 \/ t \in 1 .. len
      OBVIOUS
    <3>2. QED
      BY <1>4, <1>6, <3>1 DEF Run
  <2>2. QED
    BY <1>6, <2>1 DEF Run
<1> DEFINE g == CHOOSE g : g = F(g)
<1>8. g = F(g)
  BY <1>7, Zenon
<1>9. sort_mergesort(b, len) = g[len].a
  BY Zenon DEF sort_mergesort, first
<1> HIDE DEF g
<1>10. g[0] = first /\ \A t \in 1 .. len : g[t] = MergeStep(g[t - 1], len)
  BY <1>1, <1>8
<1>11. Follows(g, len, Inv, T, first)
  BY <1>4, <1>10 DEF Follows
<1>12. g[len] \in Inv[len]
  <2>1. \A t \in 0 .. len : g[t] \in Inv[t]
    BY <1>5, <1>11, LoopIs
  <2>2. QED
    BY <1>1, <2>1
<1>13. PICK s : s = g[len] /\ s \in State /\ Kept(s, len)
  BY <1>1, <1>12 DEF Inv
<1>14. PICK step \in Nat : step = s.step /\ step >= len /\ SortedAt(s.a, len, step * 0, step)
  BY <1>13 DEF Kept, State
<1>15. Ascending(s.a, 0, len - 1)
  <2>1. step * 0 = 0
    BY BlocksApart
  <2>2. SortedAt(s.a, len, 0, step)
    BY <1>14, <2>1
  <2>3. QED
    BY <1>14, <2>2 DEF SortedAt, Ascending
<1>16. QED
  BY <1>9, <1>13, <1>15 DEF Kept

(* Every one of the sorts returns the elements it was given, each as often *)
(* as it was there, in order: for arrays of any length and any elements.   *)
THEOREM ArraysSorted == SortSpec => []ArraySorted
<1>1. SortInit => ArraySorted
  BY DEF SortInit, ArraySorted
<1>2. ASSUME ArraySorted, [Sort]_sort_vars PROVE ArraySorted'
  <2>1. CASE UNCHANGED sort_vars
    BY <1>2, <2>1 DEF ArraySorted, sort_vars, CountOf
  <2>2. CASE Sort
    <3>1. PICK len \in 0 .. Longest_array : \E a \in Arrays(len) :
            /\ given' = a
            /\ \/ array' = sort_heapsort(a, len) /\ sorted_by' = "heap"
               \/ array' = sort_mergesort(a, len) /\ sorted_by' = "merge"
               \/ array' = sort_quicksort(a, len) /\ sorted_by' = "quick"
      BY <2>2 DEF Sort
    <3>2. PICK a \in Arrays(len) :
            /\ given' = a
            /\ \/ array' = sort_heapsort(a, len)
               \/ array' = sort_mergesort(a, len)
               \/ array' = sort_quicksort(a, len)
      BY <3>1
    <3>3. len \in Nat
      BY SortingAssumption
    <3>4. PICK c : c = array' /\ Rearranged(a, c, len, 0, len - 1) /\ Ascending(c, 0, len - 1)
      <4>1. CASE array' = sort_heapsort(a, len)
        BY <3>3, <4>1, HeapSorts
      <4>2. CASE array' = sort_mergesort(a, len)
        BY <3>3, <4>2, MergeSorts
      <4>3. CASE array' = sort_quicksort(a, len)
        BY <3>3, <4>3, QuickSorts
      <4>4. QED
        BY <3>2, <4>1, <4>2, <4>3
    <3>5. 0 \in Int /\ len - 1 \in Int
      BY <3>3
    <3>6. c \in Arrays(len) /\ \A v \in Elements : CountOf(a, v) = CountOf(c, v)
      BY <3>3, <3>4, <3>5, CameFrom, AsOften
    <3>7. DOMAIN c = 0 .. len - 1 /\ DOMAIN a = 0 .. len - 1
      BY <3>6 DEF Arrays
    <3>8. \A i, j \in DOMAIN c : i < j => c[i] <= c[j]
      BY <3>4, <3>7 DEF Ascending
    <3>9. c = array' /\ a = given'
      BY <3>2, <3>4
    <3>10. QED
      BY <3>6, <3>7, <3>8, <3>9 DEF ArraySorted, CountOf
  <2>3. QED
    BY <1>2, <2>1, <2>2
<1>3. QED
  BY <1>1, <1>2, PTL DEF SortSpec

-----------------------------------------------------------------------------
(* Side by side: to each of the parts the steps of the others are nothing, *)
(* so that every one of them is what it is alone.                          *)
THEOREM TypesKept ==
  ASSUME Values \subseteq Int, Checks \subseteq Int PROVE MCSpec => []TypesOK
<1>1. MCSpec => DmaSpec
  <2>1. MCInit => DmaInit
    BY DEF MCInit
  <2>2. [MCNext]_<<vars, dma_vars, read_vars, sdtp_vars, param_vars,
                   card_vars, steer_vars, sort_vars, touch_vars, debug_vars, part>>
          => [DmaNext]_dma_vars
    BY DEF MCNext
  <2>3. QED
    BY <2>1, <2>2, PTL DEF MCSpec, DmaSpec
<1>2. MCSpec => ReadSpec
  <2>1. MCInit => ReadInit
    BY DEF MCInit
  <2>2. [MCNext]_<<vars, dma_vars, read_vars, sdtp_vars, param_vars,
                   card_vars, steer_vars, sort_vars, touch_vars, debug_vars, part>>
          => [ReadNext]_read_vars
    BY DEF MCNext
  <2>3. QED
    BY <2>1, <2>2, PTL DEF MCSpec, ReadSpec
<1>3. MCSpec => SdtpSpec
  <2>1. MCInit => SdtpInit
    BY DEF MCInit
  <2>2. [MCNext]_<<vars, dma_vars, read_vars, sdtp_vars, param_vars,
                   card_vars, steer_vars, sort_vars, touch_vars, debug_vars, part>>
          => [SdtpNext]_sdtp_vars
    BY DEF MCNext
  <2>3. QED
    BY <2>1, <2>2, PTL DEF MCSpec, SdtpSpec
<1>4. MCSpec => ParamSpec
  <2>1. MCInit => ParamInit
    BY DEF MCInit
  <2>2. [MCNext]_<<vars, dma_vars, read_vars, sdtp_vars, param_vars,
                   card_vars, steer_vars, sort_vars, touch_vars, debug_vars, part>>
          => [ParamNext]_param_vars
    BY DEF MCNext
  <2>3. QED
    BY <2>1, <2>2, PTL DEF MCSpec, ParamSpec
<1>5. MCSpec => CardSpec
  <2>1. MCInit => CardInit
    BY DEF MCInit
  <2>2. [MCNext]_<<vars, dma_vars, read_vars, sdtp_vars, param_vars,
                   card_vars, steer_vars, sort_vars, touch_vars, debug_vars, part>>
          => [CardNext]_card_vars
    BY DEF MCNext
  <2>3. QED
    BY <2>1, <2>2, PTL DEF MCSpec, CardSpec
<1>6. MCSpec => DebugSpec
  <2>1. MCInit => DebugInit
    BY DEF MCInit
  <2>2. [MCNext]_<<vars, dma_vars, read_vars, sdtp_vars, param_vars,
                   card_vars, steer_vars, sort_vars, touch_vars, debug_vars, part>>
          => [DebugNext]_debug_vars
    BY DEF MCNext
  <2>3. QED
    BY <2>1, <2>2, PTL DEF MCSpec, DebugSpec
<1>7. ReadTypeOK /\ WithinBuffer /\ BuffersOK /\ SdtpTypeOK /\ ParamTypeOK /\ CardTypeOK
      /\ DebugTypeOK => TypesOK
  BY DEF TypesOK
<1>8. (ReadSpec => []ReadTypeOK) /\ (ReadSpec => []WithinBuffer)
  BY ReadTypes, ReadWithinBuffer
<1>9. QED
  BY <1>1, <1>2, <1>3, <1>4, <1>5, <1>6, <1>7, <1>8, BuffersApart, SdtpTypesHold, StoreTypes,
     CardTypes, DebugTypes, PTL
=============================================================================
