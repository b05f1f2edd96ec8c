--------------------------- MODULE MCNodeLifecycle ---------------------------
(* NodeLifecycle on small instances. *)
EXTENDS NodeLifecycle
=============================================================================
