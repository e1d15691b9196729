------------------------------- MODULE SdCard -------------------------------
(***************************************************************************)
(* The driver of the SD card on ctrl_mcu (tfcard.c) as FatFs calls it      *)
(* (diskio.c): sdcard_config finds out what card it is, sdcard_write_disk  *)
(* and sdcard_read_disk transfer sectors of 512 bytes.  The card may       *)
(* refuse a command or a block.  A wait for an answer has no limit: where  *)
(* none comes the program hangs, which is a state without a successor.     *)
(***************************************************************************)
EXTENDS Integers, Sequences

CONSTANTS
  CountValues,  (* Values of an unsigned char: 256.                        *)
  RetryValues,  (* Values of an unsigned short: 65536; retry starts at the *)
                (* last but one.                                           *)
  MaxCount      (* Bound: sectors of one transfer.                         *)

ASSUME SdCardAssumption ==
  /\ CountValues \in Nat \ {0} /\ RetryValues \in Nat /\ RetryValues >= 3
  /\ MaxCount \in Nat \ {0}

VARIABLES
  \* the card: what it is, and whether it has left the idle state
  card, ready,
  \* SD_TYPE, and what the driver does next
  SD_TYPE, sd_step,
  \* retry of sdcard_config; cnt and result of a transfer
  retry, cnt, result,
  \* history: the sectors asked for, those transferred, whether the card
  \* refused anything, and the attempts of sdcard_config
  wanted, moved, refused, attempts

card_vars == <<card, ready, SD_TYPE, sd_step, retry, cnt, result, wanted, moved,
               refused, attempts>>

(* Cards: high capacity, standard, one that answers CMD8 with another      *)
(* pattern and knows CMD41 or does not, and one that does not know CMD8.   *)
Cards == {"v2hc", "v2", "v1", "mmc", "old"}
Types == {"none", "v2hc", "v2", "v1", "mmc"}

Steps == {"cmd8", "wait v2", "cmd58", "probe", "wait", "cmd16", "failed", "idle",
          "cmd24", "block", "cmd25", "blocks", "stop", "cmd17", "sector",
          "cmd18", "sectors", "cmd12", "done"}

Transferring == <<cnt, result, wanted, moved, refused>>

-----------------------------------------------------------------------------
(* sdcard_config after CMD0, which is sent until the card is idle.         *)
CardInit ==
  /\ card \in Cards /\ ready = FALSE
  /\ SD_TYPE = "none" /\ sd_step = "cmd8"
  /\ retry = 0 /\ cnt = 0 /\ result = 0
  /\ wanted = 0 /\ moved = 0 /\ refused = FALSE /\ attempts = 0

(* A card that does not know CMD8 is not looked at any further.            *)
InterfaceCondition ==
  /\ sd_step = "cmd8"
  /\ sd_step' = CASE card \in {"v2hc", "v2"} -> "wait v2"
                  [] card \in {"v1", "mmc"}  -> "probe"
                  [] card = "old"            -> "failed"
  /\ retry' = RetryValues - 2
  /\ UNCHANGED <<card, ready, SD_TYPE, Transferring, attempts>>

(* CMD55 and CMD41 once, to tell the two kinds apart                       *)
Probe ==
  /\ sd_step = "probe"
  /\ SD_TYPE' = card
  /\ sd_step' = "wait"
  /\ ready' \in IF card = "v1" THEN BOOLEAN ELSE {FALSE}
  /\ UNCHANGED <<card, retry, Transferring, attempts>>

(* Mutant of Ask: retry is not an unsigned short.                          *)
AskUnwrapped ==
  /\ sd_step \in {"wait v2", "wait"}
  /\ ready' \in {ready, TRUE}
  /\ attempts' = attempts + 1
  /\ retry' = IF ready' THEN retry ELSE retry - 1
  /\ sd_step' = CASE ~ready' /\ retry # 0             -> sd_step
                  [] ready' \/ retry = 0              ->
                       IF sd_step = "wait v2" THEN "cmd58" ELSE "cmd16"
  /\ UNCHANGED <<card, SD_TYPE, Transferring>>

(* One turn of a loop while (result && retry--): the card is asked to      *)
(* leave the idle state.  When the loop is given up, retry has wrapped.    *)
Ask ==
  /\ sd_step \in {"wait v2", "wait"}
  /\ ready' \in {ready, TRUE}
  /\ attempts' = attempts + 1
  /\ retry' = IF ready' THEN retry ELSE (retry - 1) % RetryValues
  /\ sd_step' = CASE ~ready' /\ retry # 0             -> sd_step
                  [] ready' \/ retry = 0              ->
                       IF sd_step = "wait v2" THEN "cmd58" ELSE "cmd16"
  /\ UNCHANGED <<card, SD_TYPE, Transferring>>

(* Mutant of ReadOcr: the answer to CMD58 is not looked at.                *)
ReadOcrAnyway ==
  /\ sd_step = "cmd58"
  /\ SD_TYPE' = IF retry # 0 THEN card ELSE SD_TYPE
  /\ sd_step' = IF SD_TYPE' = "none" THEN "failed" ELSE "idle"
  /\ UNCHANGED <<card, ready, retry, Transferring, attempts>>

(* CMD58: a card still idle says so in its answer.                         *)
ReadOcr ==
  /\ sd_step = "cmd58"
  /\ SD_TYPE' = IF retry # 0 /\ ready THEN card ELSE SD_TYPE
  /\ sd_step' = IF SD_TYPE' = "none" THEN "failed" ELSE "idle"
  /\ UNCHANGED <<card, ready, retry, Transferring, attempts>>

(* CMD16, which an idle card refuses, too                                  *)
SetBlockLength ==
  /\ sd_step = "cmd16"
  /\ SD_TYPE' = IF retry = 0 \/ ~ready THEN "none" ELSE SD_TYPE
  /\ sd_step' = IF SD_TYPE' = "none" THEN "failed" ELSE "idle"
  /\ UNCHANGED <<card, ready, retry, Transferring, attempts>>

sdcard_config == InterfaceCondition \/ Probe \/ Ask \/ ReadOcr \/ SetBlockLength

-----------------------------------------------------------------------------
Setup == <<card, ready, SD_TYPE, retry, attempts>>

(* disk_write and disk_read: the count is cut to an unsigned char.         *)
disk_write(count) ==
  /\ sd_step = "idle"
  /\ wanted' = count /\ moved' = 0 /\ refused' = FALSE
  /\ cnt' = count % CountValues
  /\ sd_step' = IF cnt' = 1 THEN "cmd24" ELSE "cmd25"
  /\ UNCHANGED <<Setup, result>>

disk_read(count) ==
  /\ sd_step = "idle"
  /\ wanted' = count /\ moved' = 0 /\ refused' = FALSE
  /\ cnt' = count % CountValues
  /\ sd_step' = IF cnt' = 1 THEN "cmd17" ELSE "cmd18"
  /\ UNCHANGED <<Setup, result>>

(* The first command of a transfer.  The result of CMD18 is not looked at. *)
Command ==
  /\ sd_step \in {"cmd24", "cmd25", "cmd17", "cmd18"}
  /\ result' \in {0, 1}
  /\ refused' = (result' # 0)
  /\ sd_step' = CASE sd_step = "cmd18"                -> "sectors"
                  [] sd_step # "cmd18" /\ result' # 0 -> "done"
                  [] sd_step = "cmd24" /\ result' = 0 -> "block"
                  [] sd_step = "cmd25" /\ result' = 0 -> "blocks"
                  [] sd_step = "cmd17" /\ result' = 0 -> "sector"
  /\ UNCHANGED <<Setup, cnt, wanted, moved>>

(* sdcard_write_block; 2 if the card refuses the block                     *)
WriteBlock ==
  /\ result' \in {0, 2}
  /\ moved' = IF result' = 0 THEN moved + 1 ELSE moved
  /\ refused' = (refused \/ result' # 0)

WriteOne ==
  /\ sd_step = "block"
  /\ WriteBlock
  /\ sd_step' = "done"
  /\ UNCHANGED <<Setup, cnt, wanted>>

(* Mutant of MoreToCome: cnt-- instead of --cnt.                           *)
OneMoreToCome == cnt # 0 /\ result' = 0

(* do ... while (--cnt && result == 0)                                     *)
MoreToCome == cnt' # 0 /\ result' = 0

WriteMany ==
  /\ sd_step = "blocks"
  /\ WriteBlock
  /\ cnt' = (cnt - 1) % CountValues
  /\ sd_step' = IF MoreToCome THEN "blocks" ELSE "stop"
  /\ UNCHANGED <<Setup, wanted>>

(* The stop token; its result takes the place of that of the blocks.       *)
StopWriting ==
  /\ sd_step = "stop"
  /\ result' = 0
  /\ sd_step' = "done"
  /\ UNCHANGED <<Setup, cnt, wanted, moved, refused>>

(* sdcard_receive_data waits until the card sends: for ever if the command *)
(* was refused.                                                            *)
ReadOne ==
  /\ sd_step = "sector" /\ ~refused
  /\ moved' = 1
  /\ sd_step' = "done"
  /\ UNCHANGED <<Setup, cnt, result, wanted, refused>>

ReadMany ==
  /\ sd_step = "sectors" /\ ~refused
  /\ moved' = moved + 1
  /\ result' = 0
  /\ cnt' = (cnt - 1) % CountValues
  /\ sd_step' = IF MoreToCome THEN "sectors" ELSE "cmd12"
  /\ UNCHANGED <<Setup, wanted, refused>>

(* CMD12                                                                   *)
StopReading ==
  /\ sd_step = "cmd12"
  /\ sd_step' = "done"
  /\ UNCHANGED <<Setup, cnt, result, wanted, moved, refused>>

Report ==
  /\ sd_step = "done"
  /\ sd_step' = "idle"
  /\ cnt' = 0 /\ result' = 0 /\ wanted' = 0 /\ moved' = 0 /\ refused' = FALSE
  /\ UNCHANGED Setup

sdcard_write_disk == Command \/ WriteOne \/ WriteMany \/ StopWriting
sdcard_read_disk  == Command \/ ReadOne \/ ReadMany \/ StopReading

CardNext ==
  \/ sdcard_config
  \/ \E count \in 1 .. MaxCount : disk_write(count) \/ disk_read(count)
  \/ sdcard_write_disk \/ sdcard_read_disk \/ Report

CardSpec == CardInit /\ [][CardNext]_card_vars

-----------------------------------------------------------------------------
(* The types.                                                              *)
CardTypeOK ==
  /\ card \in Cards /\ ready \in BOOLEAN
  /\ SD_TYPE \in Types /\ sd_step \in Steps
  /\ retry \in 0 .. RetryValues - 1 /\ cnt \in 0 .. CountValues - 1
  /\ result \in 0 .. 2
  /\ wanted \in 0 .. MaxCount /\ moved \in 0 .. MaxCount

(* A card is used only when it has left the idle state, although the loops *)
(* that ask it to give up with a retry that is not 0; and one that left it *)
(* is given up only if it did at the last attempt, or does not know CMD8.  *)
ReadyWhenUsed ==
  /\ sd_step = "idle" => ready
  /\ sd_step = "failed" /\ ready => card = "old" \/ attempts = RetryValues - 1

(* No sector is transferred twice and none beyond those asked for; if a    *)
(* transfer reports success all have been, unless the card refused a block *)
(* of several (the stop token hides it) or the count did not fit.          *)
ReportedIsMoved ==
  /\ moved <= wanted
  /\ sd_step = "done" /\ result = 0 => moved = wanted \/ refused \/ wanted > CountValues

(* The blocks written are the first of those asked for: nothing is written *)
(* after a block that was refused.                                         *)
NothingAfterRefusal == [][refused /\ sd_step \notin {"done", "idle"} => moved' = moved]_card_vars

(* A card is used when it can be, and a transfer reports what it did.      *)
CardRight == ReadyWhenUsed /\ ReportedIsMoved
=============================================================================
