-------------------------- MODULE MCAtomicSendRecv --------------------------
(* AtomicSendRecv on small instances. *)
EXTENDS AtomicSendRecv
=============================================================================
