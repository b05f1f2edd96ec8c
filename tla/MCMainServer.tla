---------------------------- MODULE MCMainServer ----------------------------
(* MainServer on small instances. *)
EXTENDS MainServer, TLC

\* Nodes run the same code, and so do clients.
PeerSymmetry == Permutations(Nodes) \cup Permutations(Clients)
=============================================================================
