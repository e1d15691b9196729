------------------------------ MODULE Sorting ------------------------------
(***************************************************************************)
(* The three sorts of sort.c.  An array is a function on 0 .. len - 1.  A  *)
(* loop of the code that works on it in place is the array, with the       *)
(* variables of the loop, after n turns; so is heaplify, whose call of     *)
(* itself is its last statement.                                           *)
(***************************************************************************)
EXTENDS Integers, FiniteSets

CONSTANTS
  Longest_array,    (* Bound: elements of an array,                        *)
  Elements          (* and their values.                                   *)

ASSUME SortingAssumption == Longest_array \in Nat /\ Elements \subseteq Int

VARIABLES
  given,            \* the array before the sort
  array, sorted_by  \* the array, and the sort that was called

sort_vars == <<given, array, sorted_by>>

Arrays(len) == [0 .. len - 1 -> Elements]

Swap(a, i, j) == [a EXCEPT ![i] = a[j], ![j] = a[i]]

-----------------------------------------------------------------------------
(* One call of heaplify: the element at s.index sinks below the larger of  *)
(* its sons.                                                               *)
Sink(s, len) ==
  LET left == 2 * s.index + 1
      son  == IF left < len - 1 /\ s.a[left] < s.a[left + 1] THEN left + 1 ELSE left
  IN  IF left > len - 1 \/ s.a[s.index] >= s.a[son]
        THEN s ELSE [a |-> Swap(s.a, s.index, son), index |-> son]

(* Mutant of heaplify: it does not call itself.                            *)
SinkOnce(a, len, index) == Sink([a |-> a, index |-> index], len).a

heaplify(a, len, index) ==
  LET after[n \in 0 .. len] ==
        IF n = 0 THEN [a |-> a, index |-> index] ELSE Sink(after[n - 1], len)
  IN  after[len].a

build_heap(a, len) ==
  LET after[n \in 0 .. len] == IF n = 0 THEN a ELSE heaplify(after[n - 1], len, len - n)
  IN  after[len]

TakeHead(a, newlen) == heaplify(Swap(a, 0, newlen - 1), newlen - 1, 0)

sort_heapsort(a, len) ==
  LET turns == IF len > 1 THEN len - 1 ELSE 0
      after[n \in 0 .. turns] ==
        IF n = 0 THEN build_heap(a, len) ELSE TakeHead(after[n - 1], len - n + 1)
  IN  after[turns]

-----------------------------------------------------------------------------
(* merge_two of a[s1 .. e1] and a[s2 .. e2]: what is written at p.  m is   *)
(* the array as it was copied to m1 and m2.                                *)
MergeOne(s, m, p, e1, e2) ==
  IF s.p1 <= e1 /\ (s.p2 > e2 \/ m[s.p1] < m[s.p2])
    THEN [a |-> [s.a EXCEPT ![p] = m[s.p1]], p1 |-> s.p1 + 1, p2 |-> s.p2]
    ELSE [a |-> [s.a EXCEPT ![p] = m[s.p2]], p1 |-> s.p1, p2 |-> s.p2 + 1]

merge_two(a, s1, e1, s2, e2) ==
  LET after[n \in 0 .. e2 - s1 + 1] ==
        IF n = 0 THEN [a |-> a, p1 |-> s1, p2 |-> s2]
        ELSE MergeOne(after[n - 1], a, s1 + n - 1, e1, e2)
  IN  after[e2 - s1 + 1].a

MergePair(a, len, step, i) ==
  IF i + step - 1 < len - 1
    THEN merge_two(a, i, i + step - 1, i + step,
                   IF i + 2 * step - 1 < len - 1 THEN i + 2 * step - 1 ELSE len - 1)
    ELSE a

MergePairs(a, len, step) ==
  LET after[n \in 0 .. len] ==
        IF n = 0 THEN a ELSE MergePair(after[n - 1], len, step, 2 * step * (n - 1))
  IN  after[len]

MergeStep(s, len) ==
  IF s.step < len THEN [a |-> MergePairs(s.a, len, s.step), step |-> 2 * s.step] ELSE s

sort_mergesort(a, len) ==
  LET after[n \in 0 .. len] == IF n = 0 THEN [a |-> a, step |-> 1] ELSE MergeStep(after[n - 1], len)
  IN  after[len].a

-----------------------------------------------------------------------------
(* The loop of quicksort_r over i, and the pivot put to its place.         *)
Compare(s, i, end) ==
  IF s.a[i] < s.a[end] THEN [a |-> Swap(s.a, i, s.pointer), pointer |-> s.pointer + 1] ELSE s

Partition(a, start, end) ==
  LET after[n \in 0 .. end - start] ==
        IF n = 0 THEN [a |-> a, pointer |-> start] ELSE Compare(after[n - 1], start + n - 1, end)
      s == after[end - start]
  IN  [a |-> Swap(s.a, end, s.pointer), pointer |-> s.pointer]

(* quicksort_r, whose calls of itself are those of rec.                    *)
SortRange(a, start, end, rec) ==
  IF start >= end THEN a
  ELSE LET part == Partition(a, start, end)
       IN  rec[part.pointer + 1][end][rec[start][part.pointer - 1][part.a]]

(* Calls of quicksort_r within each other: not more than there are         *)
(* elements.                                                               *)
sort_quicksort(a, len) ==
  LET quicksort_r[depth \in 0 .. len] ==
        [start \in 0 .. len |-> [end \in -1 .. len - 1 |-> [b \in Arrays(len) |->
           IF depth = 0 THEN b ELSE SortRange(b, start, end, quicksort_r[depth - 1])]]]
  IN  quicksort_r[len][0][len - 1][a]

-----------------------------------------------------------------------------
NoElements == [i \in {} |-> 0]

SortInit == given = NoElements /\ array = NoElements /\ sorted_by = "none"

Sort ==
  /\ sorted_by = "none"
  /\ \E len \in 0 .. Longest_array : \E a \in Arrays(len) :
       /\ given' = a
       /\ \/ array' = sort_heapsort(a, len) /\ sorted_by' = "heap"
          \/ array' = sort_mergesort(a, len) /\ sorted_by' = "merge"
          \/ array' = sort_quicksort(a, len) /\ sorted_by' = "quick"

SortSpec == SortInit /\ [][Sort]_sort_vars

CountOf(a, v) == Cardinality({i \in DOMAIN a : a[i] = v})

(* Every one of them returns the array, sorted: the elements it was given, *)
(* each as often as it was there.                                          *)
ArraySorted ==
  sorted_by # "none" =>
    /\ DOMAIN array = DOMAIN given
    /\ \A i, j \in DOMAIN array : i < j => array[i] <= array[j]
    /\ \A v \in Elements : CountOf(given, v) = CountOf(array, v)
=============================================================================
