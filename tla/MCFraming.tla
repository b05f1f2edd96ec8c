------------------------------ MODULE MCFraming ------------------------------
(* Framing on small instances. *)
EXTENDS Framing
=============================================================================
