------------------------------ MODULE WordQueue ------------------------------
(***************************************************************************)
(* What a receiver with two buffers promises the function that takes its   *)
(* words: a first-in first-out queue.  Words are numbered in the order     *)
(* they come over the line; some may be missing, none is handed over twice *)
(* or before one that came earlier.                                        *)
(***************************************************************************)
EXTENDS Naturals, Sequences

CONSTANT MaxWords

VARIABLES
  queue,        (* Words stored and not yet handed over.                   *)
  newest,       (* The last word stored.                                   *)
  handed        (* The last word handed over.                              *)

vars == <<queue, newest, handed>>

Init ==
  /\ queue = <<>>
  /\ newest = 0
  /\ handed = 0

Put(word) ==
  /\ word > newest
  /\ queue' = Append(queue, word)
  /\ newest' = word
  /\ UNCHANGED handed

Get ==
  /\ queue # <<>>
  /\ handed' = Head(queue)
  /\ queue' = Tail(queue)
  /\ UNCHANGED newest

Next == Get \/ \E word \in 1 .. MaxWords : Put(word)

Spec == Init /\ [][Next]_vars
=============================================================================
