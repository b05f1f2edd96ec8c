--------------------------- MODULE MCComputeNode ---------------------------
(* ComputeNode on small instances. *)
EXTENDS ComputeNode, TLC

\* Addresses, thread ids and clients are interchangeable.
NodeSymmetry ==
  Permutations(Clients) \cup Permutations(Blocks) \cup Permutations(Tids)
    \cup Permutations(Versions)
=============================================================================
