------------------------------- MODULE Chunks -------------------------------
(***************************************************************************)
(* How the demos divide a range of numbers among the cores of the cluster. *)
(* Thread t of 0..cores-1 is given the numbers from Start to End; the last *)
(* one is also given what the division leaves over.                        *)
(***************************************************************************)
EXTENDS Integers

RangeSize(first, last, cores) == (last - first) \div cores

Start(first, last, cores, t) == first + t * RangeSize(first, last, cores)

\* Mutant: the last number of a chunk is also the first of the next one.
EndOverlaps(first, last, cores, t) ==
  IF t = cores - 1 THEN last
  ELSE Start(first, last, cores, t) + RangeSize(first, last, cores)

End(first, last, cores, t) ==
  IF t = cores - 1 THEN last
  ELSE Start(first, last, cores, t) + RangeSize(first, last, cores) - 1
=============================================================================
