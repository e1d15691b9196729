---------------------------- MODULE TouchSample ----------------------------
(***************************************************************************)
(* How xpt2046_readxy takes the place of a touch from a converter whose    *)
(* readings are noisy, and now and then anything at all: touchscan_task    *)
(* and the calibration share its bus, and the one may be suspended in the  *)
(* middle of a reading.  The x axis only; the code does the same for y.    *)
(***************************************************************************)
EXTENDS Integers, Sequences, FiniteSets

CONSTANTS
  TOUCH_READ_TIMES,     (* 10                                              *)
  TOUCH_ERR_RANGE,      (* 20                                              *)
  TOUCH_MIN, TOUCH_MAX, (* TOUCH_X_MIN and TOUCH_X_MAX: 100 and 4000.      *)
  At,                   (* Where the pen is,                               *)
  Noise,                (* how far a reading may be off that,              *)
  Wild                  (* and what it may be if it was disturbed.         *)

ASSUME TouchAssumption ==
  /\ TOUCH_READ_TIMES \in Nat /\ TOUCH_READ_TIMES > 2
  /\ TOUCH_ERR_RANGE \in Nat /\ TOUCH_MIN \in Nat /\ TOUCH_MAX \in Nat
  /\ At \in Nat /\ Noise \in 0 .. At /\ Wild \subseteq Nat

VARIABLES
  \* xpt2046_readxy: the values it has read, what it returns, and *x
  read_values, read_status, read_x,
  \* history: how many of the values have more than one disturbed reading
  spoiled

touch_vars == <<read_values, read_status, read_x, spoiled>>

Near(reading) == reading \in At - Noise .. At + Noise
Sample        == 0 .. TOUCH_READ_TIMES - 1

Exchanged(v, i, j) ==
  IF i < j /\ v[i] < v[j] THEN [v EXCEPT ![i] = v[j], ![j] = v[i]] ELSE v

(* The loop over j, for one i, and the loop over i: the readings after n   *)
(* turns.                                                                  *)
GreatestAt(v, i) ==
  LET after[n \in 0 .. TOUCH_READ_TIMES] ==
        IF n = 0 THEN v ELSE Exchanged(after[n - 1], i, n - 1)
  IN  after[TOUCH_READ_TIMES]

Descending(value) ==
  LET after[n \in 0 .. TOUCH_READ_TIMES] ==
        IF n = 0 THEN value ELSE GreatestAt(after[n - 1], n - 1)
  IN  after[TOUCH_READ_TIMES]

(* total_value: the sum of the readings from first on, count of them.      *)
SumOf(value, first, count) ==
  LET sum[n \in 0 .. count] == IF n = 0 THEN 0 ELSE sum[n - 1] + value[first + n - 1]
  IN  sum[count]

(* Mutants of xpt2046_read: the extremes stay in.                          *)
read_all(value) == SumOf(value, 0, TOUCH_READ_TIMES) \div TOUCH_READ_TIMES

xpt2046_read(value) ==
  SumOf(Descending(value), 1, TOUCH_READ_TIMES - 2) \div (TOUCH_READ_TIMES - 2)

-----------------------------------------------------------------------------
TouchInit ==
  /\ read_values = <<>> /\ read_status = "reading" /\ read_x = 0 /\ spoiled = 0

ReadValue ==
  /\ Len(read_values) < 2
  /\ \E value \in [Sample -> (At - Noise .. At + Noise) \cup Wild] :
       /\ read_values' = Append(read_values, xpt2046_read(value))
       /\ spoiled' = IF Cardinality({i \in Sample : ~Near(value[i])}) > 1
                     THEN spoiled + 1 ELSE spoiled
  /\ UNCHANGED <<read_status, read_x>>

(* Mutant of FarApart: the two values are not compared.                    *)
NeverApart(a, b) == FALSE

FarApart(a, b) == (IF a > b THEN a - b ELSE b - a) > TOUCH_ERR_RANGE

(* The end of xpt2046_readxy; *x is set to the difference first.           *)
ReturnXY ==
  /\ Len(read_values) = 2 /\ read_status = "reading"
  /\ LET mean == (read_values[1] + read_values[2]) \div 2
     IN  \/ /\ FarApart(read_values[1], read_values[2])
            /\ read_status' = "refused" /\ read_x' = 0
         \/ /\ ~FarApart(read_values[1], read_values[2])
            /\ read_x' = mean
            /\ read_status' = IF mean < TOUCH_MIN \/ mean > TOUCH_MAX THEN "refused" ELSE "taken"
  /\ UNCHANGED <<read_values, spoiled>>

TouchNext == ReadValue \/ ReturnXY

TouchSpec == TouchInit /\ [][TouchNext]_touch_vars

-----------------------------------------------------------------------------
(* A place that is taken is where the pen is, up to the noise, if no value *)
(* has more than one disturbed reading, and up to half the range the two   *)
(* values may differ by if only one of them has.                           *)
TakenIsNear ==
  LET off == IF read_x > At THEN read_x - At ELSE At - read_x
  IN  read_status = "taken" =>
        /\ spoiled = 0 => off <= Noise
        /\ spoiled = 1 => off <= Noise + (TOUCH_ERR_RANGE + 1) \div 2
=============================================================================
