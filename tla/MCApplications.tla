--------------------------- MODULE MCApplications ---------------------------
(* Applications on small instances. *)
EXTENDS Applications
=============================================================================
