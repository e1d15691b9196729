---------------------------- MODULE FusionProofs ----------------------------
(***************************************************************************)
(* Theorems about fusion_task, for every ring, threshold and set of        *)
(* positions.  StandsStill needs that few positions come between two       *)
(* delays of the task; the others hold for any number.                     *)
(***************************************************************************)
EXTENDS FusionTask, FiniteSetTheorems, TLAPS

-----------------------------------------------------------------------------
(* Types *)

LEMMA InitType == Init => TypeOK
<1> SUFFICES ASSUME Init PROVE TypeOK
  OBVIOUS
<1>1. newer \in [Axis -> BOOLEAN]
  BY DEF Init
<1>2. stable_flag \in BOOLEAN
  BY DEF Init
<1> QED BY <1>1, <1>2, FusionAssumption DEF Init, TypeOK, Slot, Axis

(* A new row of the scan has its types.                                    *)
LEMMA RowType ==
  ASSUME TypeOK, NEW row \in 0 .. Slots, Row(row)
  PROVE  /\ i' = row /\ j' = row + 1 /\ same_counter' = 0
         /\ i' \in 0 .. Slots /\ j' \in 1 .. Slots + 1 /\ same_counter' \in 0 .. Slots - 1
         /\ kept' \in Positions \cup {NoPosition}
<1>1. i' = row /\ j' = row + 1 /\ same_counter' = 0
  BY DEF Row
<1>2. i' \in 0 .. Slots /\ j' \in 1 .. Slots + 1 /\ same_counter' \in 0 .. Slots - 1
  BY <1>1, FusionAssumption
<1>3. kept' \in Positions \cup {NoPosition}
  BY DEF Row, TypeOK
<1> QED BY <1>1, <1>2, <1>3

LEMMA GpsType ==
  ASSUME TypeOK, Lost \/ \E position \in Positions : Fix(position)
  PROVE  TypeOK'
<1> USE FusionAssumption
<1>1. /\ UNCHANGED <<pc, scan, filter>>
  BY DEF Lost, Fix
<1>2. sentences' \in 0 .. Burst
  BY DEF Lost, Fix, Counted, TypeOK
<1>3. CASE Lost
  <2>1. /\ UNCHANGED <<last, temp_stable, sum_counter, gps_valid_flag, newer, late>>
        /\ status' = "V"
    BY <1>3 DEF Lost
  <2> QED BY <1>1, <1>2, <2>1 DEF TypeOK, scan, filter
<1>4. CASE \E position \in Positions : Fix(position)
  <2> PICK position \in Positions : Fix(position)
    BY <1>4
  <2>1. sum_counter' \in Slot
    BY DEF Fix, TypeOK, Slot
  <2>2. temp_stable' \in [Slot -> Positions \cup {NoPosition}]
    BY DEF Fix, TypeOK
  <2>3. gps_valid_flag' \in [Axis -> 0 .. 2]
    BY DEF Fix
  <2>4. newer' \in [Axis -> BOOLEAN]
    BY DEF Fix
  <2>5. status' = "A" /\ late' = 0 /\ last' = position
    BY DEF Fix
  <2> QED BY <1>1, <1>2, <2>1, <2>2, <2>3, <2>4, <2>5 DEF TypeOK, scan, filter
<1> QED BY <1>3, <1>4

LEMMA ScanType ==
  ASSUME TypeOK, StatusV \/ SendZero \/ Compare \/ Found \/ NextRow \/ Rest
  PROVE  TypeOK'
<1> USE FusionAssumption
<1>1. UNCHANGED <<gps, gps_valid_flag, filter, newer, late>> /\ sentences' \in {0, sentences}
  BY DEF StatusV, SendZero, Compare, Found, NextRow, Rest
<1>2. sentences' \in 0 .. Burst
  BY <1>1 DEF TypeOK
<1>3. stable_flag' \in BOOLEAN
  BY DEF TypeOK, StatusV, SendZero, Compare, Found, NextRow, Rest, scan
<1>4. /\ pc' \in {"status", "delayV", "scan", "rest", "check"}
      /\ i' \in 0 .. Slots /\ j' \in 1 .. Slots + 1 /\ same_counter' \in 0 .. Slots - 1
      /\ pc' = "scan" => i' \in Slot /\ j' <= Slots /\ same_counter' < j' - i'
      /\ kept' \in Positions \cup {NoPosition}
  <2>1. CASE UNCHANGED scan /\ pc' # "scan"
    BY <2>1 DEF StatusV, SendZero, Compare, Found, NextRow, Rest, At, TypeOK, scan
  <2>2. CASE Row(0) /\ pc' = "scan"
    <3>1. 0 \in 0 .. Slots /\ 0 \in Slot
      BY DEF Slot
    <3> QED BY <2>2, <3>1, RowType
  <2>3. CASE Compare
    <3>1. /\ i' = i /\ kept' = kept /\ j' = j + 1 /\ pc = "scan" /\ pc' = "scan" /\ j < Slots
          /\ same_counter' \in {same_counter, same_counter + 1}
      BY <2>3 DEF Compare
    <3> QED BY <3>1 DEF TypeOK, Slot
  <2>4. CASE Found
    BY <2>4 DEF Found, TypeOK
  <2>5. CASE NextRow
    <3>1. pc = "scan" /\ i \in Slot /\ Row(i + 1) /\ i + 1 \in 0 .. Slots
      BY <2>5 DEF NextRow, EndOfRow, TypeOK, Slot
    <3>2. pc' = IF i + 1 < Slots THEN "scan" ELSE "rest"
      BY <2>5 DEF NextRow
    <3>3. /\ i' = i + 1 /\ j' = i + 2 /\ same_counter' = 0
          /\ i' \in 0 .. Slots /\ j' \in 1 .. Slots + 1 /\ same_counter' \in 0 .. Slots - 1
          /\ kept' \in Positions \cup {NoPosition}
      BY <3>1, RowType DEF Slot
    <3>4. pc' = "scan" => i' \in Slot /\ j' <= Slots /\ same_counter' < j' - i'
      BY <3>1, <3>2, <3>3 DEF Slot
    <3> QED BY <3>2, <3>3, <3>4
  <2> QED BY <2>1, <2>2, <2>3, <2>4, <2>5 DEF StatusV, SendZero, Rest, At
<1> QED BY <1>1, <1>2, <1>3, <1>4 DEF TypeOK, gps, filter

LEMMA CycleType ==
  ASSUME TypeOK,
         CheckStatus \/ Pass \/ ReadFlag \/ ResetFlag \/ SendPosition \/ Delay
  PROVE  TypeOK'
<1> USE FusionAssumption
<1>1. UNCHANGED <<gps, scan>> /\ sentences' \in {0, sentences}
  BY DEF CheckStatus, Pass, ReadFlag, ResetFlag, AfterUpdate, SendPosition, Delay
<1>2. sentences' \in 0 .. Burst
  BY <1>1 DEF TypeOK
<1>3. pc' \in {"status", "check", "pass", "flag", "reset", "send", "delay"} /\ axis' \in Axis
  BY DEF CheckStatus, Pass, ReadFlag, ResetFlag, AfterUpdate, SendPosition, Delay, At, TypeOK,
     Axis, filter
<1>4. late' \in Nat
  BY DEF CheckStatus, Pass, ReadFlag, ResetFlag, AfterUpdate, SendPosition, Delay, TypeOK
<1>5. newer' \in [Axis -> BOOLEAN]
  <2>1. CASE Pass
    BY <2>1 DEF Pass, TypeOK
  <2> QED BY <2>1 DEF CheckStatus, ReadFlag, ResetFlag, AfterUpdate, SendPosition, Delay, TypeOK
<1>6. weighed' \in [Axis -> Nat]
  BY DEF CheckStatus, Pass, ReadFlag, ResetFlag, AfterUpdate, SendPosition, Delay, TypeOK, filter
<1>7. gps_valid_flag' \in [Axis -> 0 .. 2]
  BY DEF CheckStatus, Pass, ReadFlag, ResetFlag, SendPosition, Delay, TypeOK
<1> QED BY <1>1, <1>2, <1>3, <1>4, <1>5, <1>6, <1>7 DEF TypeOK, gps, scan

LEMMA NextType == TypeOK /\ [Next]_vars => TypeOK'
<1> SUFFICES ASSUME TypeOK, [Next]_vars PROVE TypeOK'
  OBVIOUS
<1>1. CASE UNCHANGED vars
  BY <1>1 DEF TypeOK, vars, gps, scan, filter
<1>2. CASE Lost \/ \E position \in Positions : Fix(position)
  BY <1>2, GpsType
<1>3. CASE StatusV \/ SendZero \/ Compare \/ Found \/ NextRow \/ Rest
  BY <1>3, ScanType
<1>4. CASE CheckStatus \/ Pass \/ ReadFlag \/ ResetFlag \/ SendPosition \/ Delay
  BY <1>4, CycleType
<1> QED BY <1>1, <1>2, <1>3, <1>4 DEF Next, fusion_task

(* The variables have their types: the ring of temp_stable is left neither *)
(* by the interrupt that writes it nor by the scan that reads it.          *)
THEOREM TypeCorrect == Spec => []TypeOK
<1> QED BY InitType, NextType, PTL DEF Spec

-----------------------------------------------------------------------------
(* The late packet *)

LEMMA NextLate == TypeOK /\ LateInv /\ [Next]_vars => LateInv'
<1> SUFFICES ASSUME TypeOK, LateInv, [Next]_vars PROVE LateInv'
  OBVIOUS
<1> USE DEF LateInv
<1>1. CASE UNCHANGED vars
  BY <1>1 DEF vars, gps
<1>2. CASE Lost \/ \E position \in Positions : Fix(position)
  BY <1>2 DEF Lost, Fix
<1>3. CASE StatusV \/ SendZero
  BY <1>3 DEF StatusV, SendZero, At, gps
<1>4. CASE Compare \/ Found \/ NextRow \/ Rest
  <2>1. UNCHANGED <<status, late>> /\ pc \in {"scan", "rest"}
    BY <1>4 DEF Compare, Found, EndOfRow, NextRow, Rest, At, gps
  <2> QED BY <2>1
<1>5. CASE CheckStatus
  <2>1. UNCHANGED <<status, late>> /\ pc = "check" /\ (status = "V" => pc' = "status")
    BY <1>5 DEF CheckStatus, At, gps
  <2> QED BY <2>1
<1>6. CASE Pass \/ ReadFlag \/ ResetFlag
  <2>1. UNCHANGED <<status, late>> /\ pc \in {"pass", "flag", "reset"}
    BY <1>6 DEF Pass, ReadFlag, ResetFlag, AfterUpdate, At, gps
  <2> QED BY <2>1
<1>7. CASE SendPosition
  <2>1. status' = status /\ pc = "send" /\ pc' = "delay"
        /\ late' = IF status = "V" THEN late + 1 ELSE 0
    BY <1>7 DEF SendPosition, At, gps
  <2>2. late = 0
    BY <2>1 DEF TypeOK
  <2> QED BY <2>1, <2>2
<1>8. CASE Delay
  BY <1>8 DEF Delay, At, gps
<1> QED BY <1>1, <1>2, <1>3, <1>4, <1>5, <1>6, <1>7, <1>8 DEF Next, fusion_task

(* After the GPS has lost the position no more than one packet is sent, in *)
(* whatever moment of its cycle the loss meets fusion_task.                *)
THEOREM OnePacketAfterLoss == Spec => []OneLatePacket
<1>1. Init => LateInv
  BY DEF Init, LateInv
<1>2. TypeOK /\ LateInv => OneLatePacket
  BY DEF TypeOK, LateInv, OneLatePacket
<1> QED BY <1>1, <1>2, NextLate, TypeCorrect, PTL DEF Spec

-----------------------------------------------------------------------------
(* The flag of the filters *)

(* A step that neither updates a filter nor brings a position.             *)
LEMMA NotUpdating ==
  ASSUME WeighedInv, UNCHANGED <<weighed, newer, gps_valid_flag>>,
         pc \notin {"flag", "reset"}, pc' \notin {"flag", "reset"}
  PROVE  WeighedInv'
BY DEF WeighedInv, Updating

LEMMA NextWeighed == TypeOK /\ WeighedInv /\ [Next]_vars => WeighedInv'
<1> SUFFICES ASSUME TypeOK, WeighedInv, [Next]_vars PROVE WeighedInv'
  OBVIOUS
<1>1. CASE UNCHANGED vars
  BY <1>1 DEF vars, filter, WeighedInv, Updating
<1>2. CASE Lost
  BY <1>2 DEF Lost, filter, WeighedInv, Updating
<1>3. CASE \E position \in Positions : Fix(position)
  <2>1. UNCHANGED <<pc, axis, weighed>> /\ \A a \in Axis : newer'[a]
    BY <1>3 DEF Fix, filter
  <2> SUFFICES ASSUME NEW a \in Axis
               PROVE  /\ ~Updating(a) => weighed[a] <= 2
                      /\ Updating(a) /\ pc = "flag" => weighed[a] <= 1
                      /\ Updating(a) /\ pc = "reset" => weighed[a] <= 2
    BY <2>1 DEF WeighedInv, Updating
  <2> QED BY DEF WeighedInv, TypeOK
<1>4. CASE \/ StatusV \/ SendZero \/ Compare \/ Found \/ NextRow \/ Rest
           \/ CheckStatus \/ SendPosition \/ Delay
  <2>1. UNCHANGED <<weighed, newer, gps_valid_flag>>
    BY <1>4 DEF StatusV, SendZero, Compare, Found, NextRow, Rest, CheckStatus, SendPosition,
       Delay, filter
  <2>2. pc \notin {"flag", "reset"} /\ pc' \notin {"flag", "reset"}
    BY <1>4 DEF StatusV, SendZero, Compare, Found, EndOfRow, NextRow, Rest, CheckStatus,
       SendPosition, Delay, At
  <2> QED BY <2>1, <2>2, NotUpdating
<1>5. CASE Pass
  <2>1. /\ pc = "pass" /\ pc' = "flag" /\ axis' = axis /\ axis \in Axis
        /\ gps_valid_flag' = gps_valid_flag
        /\ newer' = [newer EXCEPT ![axis] = FALSE]
        /\ weighed' = [weighed EXCEPT ![axis] = IF newer[axis] THEN 0 ELSE @]
    BY <1>5 DEF Pass, At, TypeOK
  <2>2. ~newer'[axis] /\ weighed'[axis] = IF newer[axis] THEN 0 ELSE weighed[axis]
    BY <2>1 DEF TypeOK
  <2>3. \A a \in Axis \ {axis} : newer'[a] = newer[a] /\ weighed'[a] = weighed[a]
    BY <2>1 DEF TypeOK
  <2>4. ~newer[axis] => gps_valid_flag[axis] # 1 /\ weighed[axis] <= 1
    BY <2>1 DEF WeighedInv, Updating
  <2> QED BY <2>1, <2>2, <2>3, <2>4 DEF WeighedInv, Updating, TypeOK
<1>6. CASE ReadFlag
  <2>1. /\ pc = "flag" /\ pc' = "reset" /\ axis' = axis /\ axis \in Axis
        /\ gps_valid_flag' = gps_valid_flag /\ newer' = newer
        /\ weighed' = [weighed EXCEPT ![axis] = IF gps_valid_flag[axis] = 1 THEN @ + 1 ELSE @]
    BY <1>6 DEF ReadFlag, At, TypeOK
  <2>2. /\ weighed'[axis] = IF gps_valid_flag[axis] = 1 THEN weighed[axis] + 1 ELSE weighed[axis]
        /\ weighed[axis] \in Nat
    BY <2>1 DEF TypeOK
  <2>3. \A a \in Axis \ {axis} : weighed'[a] = weighed[a]
    BY <2>1 DEF TypeOK
  <2>4. weighed[axis] <= 1 /\ (~newer[axis] /\ gps_valid_flag[axis] = 1 => weighed[axis] = 0)
    BY <2>1 DEF WeighedInv, Updating
  <2>5. weighed'[axis] <= IF newer[axis] THEN 2 ELSE 1
    BY <2>2, <2>4
  <2> QED BY <2>1, <2>3, <2>5 DEF WeighedInv, Updating
<1>7. CASE ResetFlag
  <2>1. /\ pc = "reset" /\ pc' \in {"pass", "send"} /\ axis \in Axis
        /\ newer' = newer /\ weighed' = weighed
        /\ gps_valid_flag' = [gps_valid_flag EXCEPT ![axis] = 0]
    BY <1>7 DEF ResetFlag, AfterUpdate, At, TypeOK
  <2>2. gps_valid_flag'[axis] = 0
        /\ \A a \in Axis \ {axis} : gps_valid_flag'[a] = gps_valid_flag[a]
    BY <2>1 DEF TypeOK
  <2>3. weighed[axis] <= IF newer[axis] THEN 2 ELSE 1
    BY <2>1 DEF WeighedInv, Updating
  <2> QED BY <2>1, <2>2, <2>3 DEF WeighedInv, Updating
<1> QED BY <1>1, <1>2, <1>3, <1>4, <1>5, <1>6, <1>7 DEF Next, fusion_task

(* However the sentences of the GPS fall between the passing of a position *)
(* and the reading and the resetting of the flag, the filter is not told   *)
(* to trust one position more than twice.                                  *)
THEOREM TrustedTwice == Spec => []WeighedTwice
<1>1. Init => WeighedInv
  BY DEF Init, WeighedInv, Updating
<1>2. TypeOK /\ WeighedInv => WeighedTwice
  <2> SUFFICES ASSUME TypeOK, WeighedInv, NEW a \in Axis PROVE weighed[a] <= 2
    BY DEF WeighedTwice
  <2>1. Updating(a) => pc \in {"flag", "reset"}
    BY DEF Updating
  <2> QED BY <2>1 DEF WeighedInv, TypeOK
<1> QED BY <1>1, <1>2, NextWeighed, TypeCorrect, PTL DEF Spec

-----------------------------------------------------------------------------
(* The position that stands still *)

LEMMA SeenFinite ==
  ASSUME TypeOK, NEW p
  PROVE  IsFiniteSet(Seen(p)) /\ Cardinality(Seen(p)) \in Nat
<1>1. i + 1 \in Int /\ j - 1 \in Int
  BY FusionAssumption DEF TypeOK
<1>2. IsFiniteSet(i + 1 .. j - 1)
  BY <1>1, FS_Interval
<1>3. Seen(p) \in SUBSET (i + 1 .. j - 1)
  BY DEF Seen
<1> QED BY <1>2, <1>3, FS_Subset, FS_CardinalityType

LEMMA HoldingFinite ==
  ASSUME NEW p
  PROVE  IsFiniteSet(Holding(p)) /\ Cardinality(Holding(p)) \in Nat
<1>1. Slots - 1 \in Int
  BY FusionAssumption
<1>2. IsFiniteSet(Slot)
  BY <1>1, FS_Interval DEF Slot
<1>3. Holding(p) \in SUBSET Slot
  BY DEF Holding
<1> QED BY <1>2, <1>3, FS_Subset, FS_CardinalityType

(* The slots of the ring hold what the scan has seen, and its own row.     *)
LEMMA SeenIsHeld ==
  ASSUME TypeOK, pc = "scan", NEW p
  PROVE  Cardinality(Holding(p)) >=
           Cardinality(Seen(p)) + IF temp_stable[i] = p THEN 1 ELSE 0
<1>1. i \in Slot /\ j \in Int /\ j <= Slots
  BY DEF TypeOK
<1>2. Seen(p) \in SUBSET Holding(p) /\ i \notin Seen(p)
  <2>1. i + 1 .. j - 1 \in SUBSET Slot /\ i \notin i + 1 .. j - 1
    BY <1>1, FusionAssumption DEF Slot
  <2> QED BY <2>1 DEF Seen, Holding
<1>3. Cardinality(Seen(p)) <= Cardinality(Holding(p))
  BY <1>2, HoldingFinite, FS_Subset
<1>4. ASSUME temp_stable[i] = p
      PROVE  Cardinality(Seen(p)) + 1 <= Cardinality(Holding(p))
  <2>1. Seen(p) \cup {i} \in SUBSET Holding(p)
    BY <1>1, <1>2, <1>4 DEF Holding
  <2>2. Cardinality(Seen(p) \cup {i}) = Cardinality(Seen(p)) + 1
    BY <1>2, SeenFinite, FS_AddElement
  <2> QED BY <2>1, <2>2, HoldingFinite, FS_Subset
<1> QED BY <1>3, <1>4, SeenFinite, HoldingFinite

(* A comparison sees one slot more.                                        *)
LEMMA CompareSees ==
  ASSUME TypeOK, Compare, NEW p
  PROVE  Cardinality(Seen(p)') =
           Cardinality(Seen(p)) + IF temp_stable[j] = p THEN 1 ELSE 0
<1>1. /\ pc = "scan" /\ i' = i /\ j' = j + 1 /\ temp_stable' = temp_stable
      /\ i \in Slot /\ j \in Nat /\ i < j
  BY DEF Compare, TypeOK, gps, Slot
<1>2. Seen(p)' = IF temp_stable[j] = p THEN Seen(p) \cup {j} ELSE Seen(p)
  <2>1. i' + 1 .. j' - 1 = (i + 1 .. j - 1) \cup {j}
    BY <1>1 DEF Slot
  <2> QED BY <1>1, <2>1 DEF Seen
<1>3. j \notin Seen(p)
  BY <1>1 DEF Seen
<1>4. Cardinality(Seen(p) \cup {j}) = Cardinality(Seen(p)) + 1
  BY <1>3, SeenFinite, FS_AddElement
<1> QED BY <1>2, <1>4, SeenFinite

(* A sentence overwrites one slot: no position loses more than that, and   *)
(* of two positions one loses nothing.                                     *)
LEMMA FixLeaves ==
  ASSUME TypeOK, NEW q \in Positions, Fix(q), NEW p
  PROVE  /\ Cardinality(Seen(p)') \in Nat
         /\ Cardinality(Seen(p)') >=
              Cardinality(Seen(p)) - IF sum_counter \in Seen(p) THEN 1 ELSE 0
<1>1. /\ i' = i /\ j' = j /\ sum_counter \in Slot
      /\ temp_stable' = [temp_stable EXCEPT ![sum_counter] = q]
  BY DEF Fix, TypeOK, scan
<1>2. \A k \in (i + 1 .. j - 1) \ {sum_counter} : temp_stable'[k] = temp_stable[k]
  BY <1>1 DEF TypeOK
<1>3. Seen(p) \ {sum_counter} \in SUBSET Seen(p)'
  BY <1>1, <1>2 DEF Seen
<1>4. IsFiniteSet(Seen(p)') /\ Cardinality(Seen(p)') \in Nat
  <2>1. i + 1 \in Int /\ j - 1 \in Int
    BY FusionAssumption DEF TypeOK
  <2>2. IsFiniteSet(i + 1 .. j - 1)
    BY <2>1, FS_Interval
  <2>3. Seen(p)' \in SUBSET (i + 1 .. j - 1)
    BY <1>1 DEF Seen
  <2> QED BY <2>2, <2>3, FS_Subset, FS_CardinalityType
<1>5. Cardinality(Seen(p) \ {sum_counter}) <= Cardinality(Seen(p)')
  BY <1>3, <1>4, FS_Subset
<1>6. Cardinality(Seen(p) \ {sum_counter}) =
        IF sum_counter \in Seen(p) THEN Cardinality(Seen(p)) - 1 ELSE Cardinality(Seen(p))
  BY SeenFinite, FS_RemoveElement
<1> QED BY <1>4, <1>5, <1>6, SeenFinite

(* Every slot ages by one, and the one written is the youngest.            *)
LEMMA FixAges ==
  ASSUME TypeOK, NEW q \in Positions, Fix(q), NEW k \in Slot
  PROVE  Age(k)' = IF k = sum_counter THEN 0 ELSE Age(k) + 1
<1>1. sum_counter \in Slot /\ sum_counter' = (sum_counter + 1) % Slots
  BY DEF Fix, TypeOK
<1>2. sum_counter' = IF sum_counter + 1 = Slots THEN 0 ELSE sum_counter + 1
  BY <1>1, FusionAssumption DEF Slot
<1> QED BY <1>1, <1>2, FusionAssumption DEF Age, Slot

(* A row begins with nothing seen.                                         *)
LEMMA RowScan ==
  ASSUME TypeOK', NEW row \in Slot, Row(row), temp_stable' = temp_stable
  PROVE  ScanInv'
<1>1. i' = row /\ j' = row + 1 /\ same_counter' = 0 /\ kept' = temp_stable'[i']
  BY DEF Row
<1>2. i' + 1 .. j' - 1 = {}
  BY <1>1 DEF Slot
<1>3. Seen(kept)' = {}
  BY <1>2 DEF Seen
<1>4. Cardinality(Seen(kept)') \in Nat
  BY <1>3, FS_EmptySet
<1>5. sentences' \in Nat
  BY FusionAssumption DEF TypeOK
<1>6. same_counter' <= Cardinality(Seen(kept)') + sentences'
  BY <1>1, <1>4, <1>5
<1> QED BY <1>1, <1>2, <1>6 DEF ScanInv

LEMMA CompareScan ==
  ASSUME TypeOK, ScanInv, Compare
  PROVE  ScanInv'
<1> PICK own : own = kept
  OBVIOUS
<1> PICK now : now = temp_stable[i]
  OBVIOUS
<1>1. /\ pc = "scan" /\ i' = i /\ j' = j + 1 /\ temp_stable' = temp_stable
      /\ sum_counter' = sum_counter
      /\ kept' = kept /\ sentences' = sentences /\ sentences \in Nat
      /\ j \in Slot /\ i \in Slot
      /\ temp_stable[j][2] # 0 /\ same_counter \in Nat
  BY FusionAssumption DEF Compare, TypeOK, gps, Slot
<1>2. temp_stable[j] \in Positions
  <2>1. temp_stable[j] \in Positions \cup {NoPosition}
    BY <1>1 DEF TypeOK
  <2> QED BY <1>1, <2>1 DEF NoPosition
<1>3. \A k \in i' + 1 .. j' - 1 : temp_stable'[k] \in Positions
  BY <1>1, <1>2 DEF ScanInv, Slot
<1>4. PICK mine \in {kept, temp_stable[i]} :
        same_counter' = IF mine = temp_stable[j] THEN same_counter + 1 ELSE same_counter
  BY DEF Compare
<1>5. same_counter' > 0 => kept' \in Positions \/ temp_stable'[i'] \in Positions
  BY <1>1, <1>2, <1>4 DEF ScanInv
<1>6. /\ Cardinality(Seen(own)') =
           Cardinality(Seen(own)) + IF temp_stable[j] = own THEN 1 ELSE 0
      /\ Cardinality(Seen(now)') =
           Cardinality(Seen(now)) + IF temp_stable[j] = now THEN 1 ELSE 0
  BY CompareSees
<1>7. Cardinality(Seen(own)) \in Nat /\ Cardinality(Seen(now)) \in Nat
  BY SeenFinite
<1>8. /\ own = now => same_counter <= Cardinality(Seen(own)) + sentences
      /\ own # now =>
           /\ Age(i) < sentences
           /\ same_counter + 1 <= Cardinality(Seen(own)) + Cardinality(Seen(now)) + sentences
  BY <1>1 DEF ScanInv
<1>9. /\ own = now => same_counter' <= Cardinality(Seen(own)') + sentences
      /\ own # now =>
           same_counter' + 1 <= Cardinality(Seen(own)') + Cardinality(Seen(now)') + sentences
  BY <1>1, <1>4, <1>6, <1>7, <1>8
<1>10. /\ Seen(kept)' = Seen(own)' /\ Seen(temp_stable[i])' = Seen(now)'
       /\ Age(i)' = Age(i)
  BY <1>1 DEF Seen, Age
<1> QED BY <1>1, <1>3, <1>5, <1>8, <1>9, <1>10 DEF ScanInv

LEMMA FixScan ==
  ASSUME TypeOK, ScanInv, NEW q \in Positions, Fix(q), Burst <= Slots
  PROVE  ScanInv'
<1> SUFFICES ASSUME pc = "scan" PROVE ScanInv'
  BY DEF Fix, ScanInv
<1> PICK own : own = kept
  OBVIOUS
<1> PICK now : now = temp_stable[i]
  OBVIOUS
<1>1. /\ i' = i /\ j' = j /\ kept' = kept /\ same_counter' = same_counter /\ pc' = pc
      /\ sum_counter \in Slot /\ i \in Slot /\ same_counter \in Nat
      /\ temp_stable' = [temp_stable EXCEPT ![sum_counter] = q]
  BY FusionAssumption DEF Fix, TypeOK, scan
<1>2. sentences \in Nat /\ sentences < Burst /\ sentences' = sentences + 1
  BY FusionAssumption DEF Fix, Counted, Waiting, TypeOK
<1>3. /\ own = now => same_counter <= Cardinality(Seen(own)) + sentences
      /\ own # now =>
           /\ Age(i) < sentences
           /\ same_counter + 1 <= Cardinality(Seen(own)) + Cardinality(Seen(now)) + sentences
      /\ same_counter > 0 => own \in Positions \/ now \in Positions
  BY DEF ScanInv
<1>4. \A k \in i + 1 .. j - 1 : temp_stable'[k] \in Positions
  <2>1. i + 1 .. j - 1 \in SUBSET Slot
    BY FusionAssumption DEF TypeOK, Slot
  <2> QED BY <1>1, <2>1 DEF ScanInv, TypeOK
<1>5. /\ Cardinality(Seen(own)') \in Nat /\ Cardinality(Seen(now)') \in Nat
      /\ Cardinality(Seen(q)') \in Nat
      /\ Cardinality(Seen(own)') >=
           Cardinality(Seen(own)) - IF sum_counter \in Seen(own) THEN 1 ELSE 0
      /\ Cardinality(Seen(now)') >=
           Cardinality(Seen(now)) - IF sum_counter \in Seen(now) THEN 1 ELSE 0
  BY FixLeaves
<1>6. Cardinality(Seen(own)) \in Nat /\ Cardinality(Seen(now)) \in Nat
  BY SeenFinite
<1>7. Seen(kept)' = Seen(own)'
  BY <1>1 DEF Seen
<1>8. CASE sum_counter = i
  <2>1. own = now
    <3>1. Age(i) = Slots - 1
      BY <1>1, <1>8, FusionAssumption DEF Age, Slot
    <3> QED BY <1>2, <1>3, <3>1, FusionAssumption
  <2>2. sum_counter \notin Seen(own)
    BY <1>1, <1>8 DEF Seen, Slot
  <2>3. Age(i)' = 0 /\ temp_stable'[i'] = q /\ Seen(temp_stable[i])' = Seen(q)'
    <3>1. PICK row \in Slot : row = i
      BY <1>1
    <3>2. Age(row)' = 0
      BY <1>8, <3>1, FixAges
    <3>3. temp_stable'[i'] = q
      BY <1>1, <1>8 DEF TypeOK
    <3> QED BY <1>1, <3>1, <3>2, <3>3 DEF Age, Seen
  <2>4. same_counter' <= Cardinality(Seen(own)') + sentences
    BY <1>1, <1>2, <1>3, <1>5, <1>6, <2>1, <2>2
  <2>5. same_counter' > 0 => kept' \in Positions \/ temp_stable'[i'] \in Positions
    BY <2>3
  <2> QED BY <1>1, <1>2, <1>4, <1>5, <1>7, <2>3, <2>4, <2>5 DEF ScanInv
<1>9. CASE sum_counter # i
  <2>1. temp_stable'[i'] = now /\ Seen(temp_stable[i])' = Seen(now)'
    <3>1. temp_stable'[i'] = now
      BY <1>1, <1>9 DEF TypeOK
    <3> QED BY <1>1, <3>1 DEF Seen
  <2>2. Age(i)' = Age(i) + 1 /\ Age(i) \in Int
    <3>1. PICK row \in Slot : row = i
      BY <1>1
    <3>2. Age(row)' = Age(row) + 1
      BY <1>9, <3>1, FixAges
    <3>3. Age(row) \in Int
      BY <1>1, FusionAssumption DEF Age, Slot
    <3> QED BY <1>1, <3>1, <3>2, <3>3 DEF Age
  <2>3. own # now => ~(sum_counter \in Seen(own) /\ sum_counter \in Seen(now))
    BY DEF Seen
  <2>4. /\ own = now => same_counter' <= Cardinality(Seen(own)') + sentences'
        /\ own # now =>
             same_counter' + 1 <= Cardinality(Seen(own)') + Cardinality(Seen(now)') + sentences'
    BY <1>1, <1>2, <1>3, <1>5, <1>6, <2>3
  <2>5. own # now => Age(i)' < sentences'
    BY <1>2, <1>3, <2>2
  <2> QED BY <1>1, <1>3, <1>4, <1>7, <2>1, <2>4, <2>5 DEF ScanInv
<1> QED BY <1>8, <1>9

LEMMA NextScan ==
  ASSUME TypeOK, TypeOK', ScanInv, [Next]_vars, Burst <= Slots
  PROVE  ScanInv'
<1>1. CASE UNCHANGED vars \/ Lost
  <2>1. UNCHANGED <<pc, i, j, kept, same_counter, temp_stable, sum_counter, sentences>>
    BY <1>1 DEF Lost, vars, gps, scan
  <2> QED BY <2>1 DEF ScanInv, Seen, Age
<1>2. CASE \E position \in Positions : Fix(position)
  BY <1>2, FixScan
<1>3. CASE StatusV \/ NextRow \/ Rest
  <2>1. CASE pc' # "scan"
    BY <2>1 DEF ScanInv
  <2>2. CASE pc' = "scan"
    <3>1. \E row \in Slot : Row(row)
      BY <1>3, <2>2, FusionAssumption DEF StatusV, NextRow, EndOfRow, Rest, At, TypeOK, Slot
    <3>2. temp_stable' = temp_stable
      BY <1>3 DEF StatusV, NextRow, Rest, gps
    <3> QED BY <3>1, <3>2, RowScan
  <2> QED BY <2>1, <2>2
<1>4. CASE Compare
  BY <1>4, CompareScan
<1>5. CASE \/ SendZero \/ Found \/ CheckStatus \/ Pass \/ ReadFlag \/ ResetFlag
           \/ SendPosition \/ Delay
  <2>1. pc' # "scan"
    BY <1>5 DEF SendZero, Found, CheckStatus, Pass, ReadFlag, ResetFlag, AfterUpdate,
       SendPosition, Delay, At
  <2> QED BY <2>1 DEF ScanInv
<1> QED BY <1>1, <1>2, <1>3, <1>4, <1>5 DEF Next, fusion_task

LEMMA FoundStands ==
  ASSUME TypeOK, ScanInv, Found, Burst <= SameMin
  PROVE  \E p \in Positions : Cardinality(Holding(p)) >= Enough
<1> PICK own : own = kept
  OBVIOUS
<1> PICK now : now = temp_stable[i]
  OBVIOUS
<1>1. /\ pc = "scan" /\ same_counter > SameMin /\ same_counter \in Nat /\ SameMin \in Nat
      /\ sentences \in Nat /\ sentences <= SameMin /\ Age(i) \in Int /\ i \in Slot
      /\ 0 <= Age(i)
  <2>1. pc = "scan" /\ i \in Slot /\ sum_counter \in Slot
    BY DEF Found, EndOfRow, TypeOK
  <2>2. Age(i) \in Int /\ 0 <= Age(i)
    BY <2>1, FusionAssumption DEF Age, Slot
  <2> QED BY <2>1, <2>2, FusionAssumption DEF Found, TypeOK
<1>2. /\ own = now => same_counter <= Cardinality(Seen(own)) + sentences
      /\ own # now =>
           /\ Age(i) < sentences
           /\ same_counter + 1 <= Cardinality(Seen(own)) + Cardinality(Seen(now)) + sentences
      /\ own \in Positions \/ now \in Positions
  BY <1>1 DEF ScanInv
<1>3. /\ Cardinality(Seen(own)) \in Nat /\ Cardinality(Holding(own)) \in Nat
      /\ Cardinality(Seen(now)) \in Nat /\ Cardinality(Holding(now)) \in Nat
  BY SeenFinite, HoldingFinite
<1>4. /\ Cardinality(Holding(own)) >= Cardinality(Seen(own)) + IF now = own THEN 1 ELSE 0
      /\ Cardinality(Holding(now)) >= Cardinality(Seen(now)) + 1
  BY <1>1, SeenIsHeld
<1>5. \A p : Seen(p) # {} => p \in Positions
  BY <1>1 DEF Seen, ScanInv
<1>6. /\ Cardinality(Seen(own)) > 0 => own \in Positions
      /\ Cardinality(Seen(now)) > 0 => now \in Positions
  BY <1>5, SeenFinite, FS_EmptySet
<1>7. CASE own = now
  <2>1. Cardinality(Holding(own)) >= SameMin + 2 - sentences /\ own \in Positions
    BY <1>1, <1>2, <1>3, <1>4, <1>7
  <2>2. SameMin + 2 - sentences >= Enough
    BY <1>1 DEF Enough
  <2> QED BY <1>1, <1>3, <2>1, <2>2 DEF Enough
<1>8. CASE own # now
  <2>1. /\ Enough = (SameMin + 4 - sentences) \div 2
        /\ Cardinality(Seen(own)) + Cardinality(Seen(now)) >= SameMin + 2 - sentences
    BY <1>1, <1>2, <1>3, <1>8 DEF Enough
  <2>2. CASE Cardinality(Seen(own)) >= (SameMin + 4 - sentences) \div 2
    <3>1. own \in Positions
      BY <1>1, <1>3, <1>6, <2>2
    <3> QED BY <1>1, <1>3, <1>4, <2>1, <2>2, <3>1
  <2>3. CASE Cardinality(Seen(own)) < (SameMin + 4 - sentences) \div 2
    <3>1. Cardinality(Holding(now)) >= (SameMin + 4 - sentences) \div 2
      BY <1>1, <1>3, <1>4, <2>1, <2>3
    <3>2. Cardinality(Seen(now)) > 0
      BY <1>1, <1>3, <2>1, <2>3
    <3> QED BY <1>6, <2>1, <3>1, <3>2
  <2> QED BY <1>1, <1>3, <2>2, <2>3
<1> QED BY <1>7, <1>8

(* The car is taken for standing still only if so many slots of the ring   *)
(* hold one position, although the interrupt may overwrite some, and the   *)
(* compiler may keep the old content of the row's, while fusion_task scans *)
(* the ring.                                                               *)
THEOREM FoundOnlyIfStanding ==
  ASSUME Burst <= SameMin, Burst <= Slots
  PROVE  Spec => StandsStill
<1>1. Init => ScanInv
  BY DEF Init, ScanInv
<1>2. TypeOK /\ TypeOK' /\ ScanInv /\ [Next]_vars => ScanInv'
  BY NextScan
<1>3. TypeOK /\ ScanInv =>
        [Found => \E p \in Positions : Cardinality(Holding(p)) >= Enough]_vars
  BY FoundStands
<1> QED BY <1>1, <1>2, <1>3, TypeCorrect, PTL DEF Spec, StandsStill

=============================================================================
