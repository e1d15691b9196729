----------------------------- MODULE ParamStore -----------------------------
(***************************************************************************)
(* The calibration of the display in the EEPROM of proc_mcu (at24c02.c).   *)
(* at24c02_saveparams writes it in two pages, one after the other, and     *)
(* at24c02_readparams takes both at the start, whatever they hold: there   *)
(* is no number or checksum that says whether they belong together.        *)
(*                                                                         *)
(* A value of the store is the number of the calibration it comes from.    *)
(***************************************************************************)
EXTENDS Integers

CONSTANTS
  MaxSaves,     (* Bound: calibrations.                                    *)
  MaxResets     (* Bound: resets and losses of power.                      *)

ASSUME ParamStoreAssumption ==
  /\ MaxSaves \in Nat /\ MaxResets \in Nat

VARIABLES
  \* params: the offsets and touch_x_factor together, and touch_y_factor
  \* with pc_connect_flag
  params,
  \* what the program does: "run", in at24c02_saveparams before its "first"
  \* or "second" page, "boot" or "off"
  doing,
  \* the pages of the EEPROM, and the write it is busy with: of page 0 if
  \* it is not
  pages, busy,
  \* history: calibrations; resets; whether the newest save was cut short,
  \* whether the EEPROM ignored a page of it
  calibration, resets, cut, ignored

param_vars == <<params, doing, pages, busy, calibration, resets, cut, ignored>>

Garbage == -1
Value   == 0 .. MaxSaves \cup {Garbage}
Idle    == [page |-> 0, value |-> 0]

Both(value) == [page \in 1 .. 2 |-> value]

-----------------------------------------------------------------------------
ParamInit ==
  /\ params = Both(0) /\ doing = "run"
  /\ pages = Both(0) /\ busy = Idle
  /\ calibration = 0 /\ resets = 0 /\ cut = FALSE /\ ignored = FALSE

(* xpt2046_calibrate: it takes seconds, and the EEPROM is no longer busy.  *)
Calibrated ==
  /\ doing = "run" /\ busy = Idle
  /\ calibration < MaxSaves
  /\ calibration' = calibration + 1
  /\ params' = Both(calibration')
  /\ doing' = "first"
  /\ cut' = FALSE /\ ignored' = FALSE
  /\ UNCHANGED <<pages, busy, resets>>

(* Mutant of writebytes: the pages are counted from 0.                     *)
writebytesFromZero(page) ==
  IF busy = Idle
    THEN busy' = [page |-> page - 1, value |-> params[page]] /\ UNCHANGED ignored
    ELSE ignored' = TRUE /\ UNCHANGED busy

(* at24c02_writebytes: the acknowledge of the EEPROM is not looked at, and *)
(* between two writes there are 2 ms where it may need 5.                  *)
writebytes(page) ==
  IF busy = Idle
    THEN busy' = [page |-> page, value |-> params[page]] /\ UNCHANGED ignored
    ELSE ignored' = TRUE /\ UNCHANGED busy

(* Mutants of SaveFirst and SaveSecond: the pages are written in the other *)
(* order; the second is left out.                                          *)
SaveLastFirst ==
  /\ doing = "first"
  /\ writebytes(2)
  /\ doing' = "second"
  /\ UNCHANGED <<params, pages, calibration, resets, cut>>

SaveFirst ==
  /\ doing = "first"
  /\ writebytes(1)
  /\ doing' = "second"
  /\ UNCHANGED <<params, pages, calibration, resets, cut>>

SaveNoSecond ==
  /\ doing = "second"
  /\ doing' = "run"
  /\ UNCHANGED <<params, pages, busy, calibration, resets, cut, ignored>>

SaveSecond ==
  /\ doing = "second"
  /\ writebytes(2)
  /\ doing' = "run"
  /\ UNCHANGED <<params, pages, calibration, resets, cut>>

(* The EEPROM has written the page.                                        *)
Programmed ==
  /\ busy # Idle
  /\ pages' = [pages EXCEPT ![busy.page] = busy.value]
  /\ busy' = Idle
  /\ UNCHANGED <<params, doing, calibration, resets, cut, ignored>>

(* A reset of the processor leaves the EEPROM to finish its write; without *)
(* power the page may hold anything.                                       *)
Saving == doing \in {"first", "second"}

Reset ==
  /\ resets < MaxResets /\ doing # "off"
  /\ doing' = "boot"
  /\ resets' = resets + 1
  /\ cut' = (cut \/ Saving)
  /\ UNCHANGED <<params, pages, busy, calibration, ignored>>

PowerLoss ==
  /\ resets < MaxResets /\ doing # "off"
  /\ doing' = "off"
  /\ resets' = resets + 1
  /\ cut' = (cut \/ Saving \/ busy # Idle)
  /\ busy' = Idle
  /\ \/ UNCHANGED pages
     \/ busy # Idle /\ \E left \in {busy.value, Garbage} : pages' = [pages EXCEPT ![busy.page] = left]
  /\ UNCHANGED <<params, calibration, ignored>>

PowerOn ==
  /\ doing = "off"
  /\ doing' = "boot"
  /\ UNCHANGED <<params, pages, busy, calibration, resets, cut, ignored>>

(* at24c02_readparams, with the EEPROM done                                *)
readparams ==
  /\ doing = "boot" /\ busy = Idle
  /\ params' = pages
  /\ doing' = "run"
  /\ UNCHANGED <<pages, busy, calibration, resets, cut, ignored>>

ParamNext ==
  \/ Calibrated \/ SaveFirst \/ SaveSecond \/ Programmed
  \/ Reset \/ PowerLoss \/ PowerOn \/ readparams

ParamSpec == ParamInit /\ [][ParamNext]_param_vars

-----------------------------------------------------------------------------
(* The types.                                                              *)
ParamTypeOK ==
  /\ params \in [1 .. 2 -> Value]
  /\ doing \in {"run", "first", "second", "boot", "off"}
  /\ pages \in [1 .. 2 -> Value]
  /\ busy \in {Idle} \cup [page : 1 .. 2, value : Value]
  /\ calibration \in 0 .. MaxSaves /\ resets \in 0 .. MaxResets
  /\ cut \in BOOLEAN /\ ignored \in BOOLEAN

(* The display works with the newest calibration, before and after any     *)
(* number of resets, unless its save was cut short or a page of it came    *)
(* while the EEPROM was busy: there is no third way to lose or mix it.     *)
Restored == doing = "run" => params = Both(calibration) \/ cut \/ ignored

(* Since the first page is written first, the second is never the newer    *)
(* one: what a reset leaves is the new offsets with an old factor.         *)
FirstIsNewer == pages[1] >= pages[2] \/ pages[1] = Garbage

(* A calibration is kept, or lost in the two ways and the order above.     *)
StoreRight == Restored /\ FirstIsNewer
=============================================================================
