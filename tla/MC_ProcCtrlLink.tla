-------------------------- MODULE MC_ProcCtrlLink ---------------------------
(* ProcCtrlLink with two-bit bytes and their crc.                          *)
EXTENDS ProcCtrlLink, TLC

TinyPoly == {1}

V == INSTANCE Verification WITH Poly <- TinyPoly

TinyCrc8(words) == V!verification_crc8([k \in 1 .. 2 * Width + 2 |-> words[k - 1]])

TinyPayload(a, b, c, d) == (0 :> a @@ 1 :> b @@ 2 :> c @@ 3 :> d)

(* 0xff in the first group, in one place or nowhere; all are restored and  *)
(* none puts a flag inside its frame (asserted below).                     *)
CleanPayloads ==
  {TinyPayload({0, 1}, {0}, {}, {0}),
   TinyPayload({}, {1}, {1}, {1})}

ASSUME \A d \in Payloads : d \in CleanPayloads => Clean(d) /\ Restorable(d)

(* A north angle or speed with a byte 0xff, in a frame that is received.   *)
TailPayloads ==
  {TinyPayload({0}, {1}, {0, 1}, {}), TinyPayload({}, {}, {}, {0, 1})}

TinyCold == {{}, {1}}
=============================================================================
