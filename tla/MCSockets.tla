----------------------------- MODULE MCSockets -----------------------------
(* Sockets on small instances. *)
EXTENDS Sockets, TLC

ThreadSymmetry == Permutations(Threads)
=============================================================================
