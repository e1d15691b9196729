---------------------------- MODULE LossyChannel ----------------------------
(***************************************************************************)
(* What a serial link of the car promises its users, whatever the framing: *)
(* a message may be lost, but a message that is handed over is one that    *)
(* was sent, it is handed over at most once, and the order is kept.        *)
(***************************************************************************)
EXTENDS Naturals, Sequences

CONSTANTS
  Messages,     (* What a user may send.                                   *)
  MaxFrames     (* Bound on the messages sent in a behaviour.              *)

VARIABLES
  sent,         (* Every message sent, in order.                           *)
  delivered,    (* Every message handed over, in order.                    *)
  last          (* Number, in sent, of the last message handed over.       *)

vars == <<sent, delivered, last>>

Init ==
  /\ sent = <<>>
  /\ delivered = <<>>
  /\ last = 0

Send(m) ==
  /\ Len(sent) < MaxFrames
  /\ sent' = Append(sent, m)
  /\ UNCHANGED <<delivered, last>>

(* Handing over the n-th message gives up every one between last and n.    *)
Deliver(n) ==
  /\ n > last
  /\ delivered' = Append(delivered, sent[n])
  /\ last' = n
  /\ UNCHANGED sent

Next ==
  \/ \E m \in Messages : Send(m)
  \/ \E n \in 1 .. Len(sent) : Deliver(n)

Spec == Init /\ [][Next]_vars
=============================================================================
