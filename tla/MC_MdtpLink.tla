---------------------------- MODULE MC_MdtpLink -----------------------------
(* Instances of MdtpLink: two-bit bytes with every kind of payload the     *)
(* framing treats differently, and the firmware's eight-bit bytes.         *)
EXTENDS MdtpLink, TLC

TinyMark == {0}

(* No 0xff, one of them, nothing else, and the mark where the code puts it *)
(* for a payload of 0xff only.                                             *)
TinyMessages ==
  {[pid |-> {},  data |-> (0 :> {0} @@ 1 :> {1})],
   [pid |-> {0}, data |-> (0 :> {0, 1} @@ 1 :> {})],
   [pid |-> {0}, data |-> (0 :> {0, 1} @@ 1 :> {0, 1})]}
=============================================================================
