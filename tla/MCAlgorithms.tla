---------------------------- MODULE MCAlgorithms ----------------------------
(***************************************************************************)
(* FindPrimes and Checksum side by side: the application sums its shared   *)
(* object, and has the primes found.  The two share nothing, so it is      *)
(* enough to try every input of the one with the smallest of the other.    *)
(***************************************************************************)
EXTENDS FindPrimes, Checksum

vars == <<primesVars, sumVars>>

Init ==
  /\ PrimesInit /\ SumInit
  /\ file = NoFile \/ (rangeEnd = RangeStart /\ coreCount = 1)

Next ==
  \/ PrimesNext /\ UNCHANGED sumVars
  \/ SumNext /\ UNCHANGED primesVars

Spec == Init /\ [][Next]_vars
=============================================================================
