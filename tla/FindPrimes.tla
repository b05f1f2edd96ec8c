----------------------------- MODULE FindPrimes -----------------------------
(***************************************************************************)
(* The demo find-primes: main divides the range among the cores, starts a  *)
(* remote thread for each of them and collects the results in the order of *)
(* the threads.  A thread runs find_primes, which gathers the primes of    *)
(* its chunk in an array that it lets grow.  That nodes and connections    *)
(* work is the subject of other modules.                                   *)
(***************************************************************************)
EXTENDS Chunks, SequencesExt

CONSTANTS
  RangeStart,  \* RANGE_START; not 0: the end of an empty first chunk would
               \* be -1, and the threads take it for an unsigned number
  MaxEnd,      \* RANGE_END is any number up to this one
  MaxCores,    \* the cores of the cluster
  Grow         \* by how many elements an array grows (16 in the code)

ASSUME PrimesAssumption ==
  /\ RangeStart \in Nat \ {0} /\ MaxEnd \in Nat /\ RangeStart <= MaxEnd
  /\ MaxCores \in Nat \ {0} /\ Grow \in Nat \ {0}

VARIABLES
  rangeEnd,    \* RANGE_END
  coreCount,   \* total_cores_count
  started,     \* how many threads main has started,
  joined,      \* and joined
  collected,   \* what main has got from them
  place,       \* place[t]: is thread t running?
  at,          \* at[t]: i of find_primes
  found,       \* found[t]: its found_primes, of which *count is the length
  allocated    \* allocated[t]: its allocated_len

mainVars == <<rangeEnd, coreCount, started, joined, collected>>
primesVars == <<mainVars, place, at, found, allocated>>

Threads == 0..(coreCount - 1)
ChunkStart(t) == Start(RangeStart, rangeEnd, coreCount, t)
ChunkEnd(t) == End(RangeStart, rangeEnd, coreCount, t)

PrimesInit ==
  /\ rangeEnd \in RangeStart..MaxEnd
  /\ coreCount \in 1..MaxCores
  /\ started = 0 /\ joined = 0 /\ collected = << >>
  /\ place = [t \in Threads |-> "none"]
  /\ at = [t \in Threads |-> 0]
  /\ found = [t \in Threads |-> << >>]
  /\ allocated = [t \in Threads |-> 0]

-----------------------------------------------------------------------------
\* is_prime: 2, or odd and without an odd divisor up to its square root.
is_prime(n) ==
  \/ n = 2
  \/ /\ n > 2
     /\ n % 2 # 0
     /\ \A d \in 3..n : d % 2 # 0 /\ d * d <= n => n % d # 0

\* dic_rthread_run of the next thread, which begins with an empty array.
RunThread ==
  /\ started < coreCount
  /\ started' = started + 1
  /\ place' = [place EXCEPT ![started] = "loop"]
  /\ at' = [at EXCEPT ![started] = ChunkStart(started)]
  /\ allocated' = [allocated EXCEPT ![started] = Grow]
  /\ UNCHANGED <<rangeEnd, coreCount, joined, collected, found>>

\* Mutant: the array grows one element too late.
CapacityLate(length, count) == IF count > length + 1 THEN length + Grow ELSE length

\* allocated_len after *count has been increased.
Capacity(length, count) == IF count >= length THEN length + Grow ELSE length

\* A round of the loop of find_primes.
Examine(t) ==
  /\ place[t] = "loop" /\ at[t] <= ChunkEnd(t)
  /\ at' = [at EXCEPT ![t] = @ + 1]
  /\ \/ /\ is_prime(at[t])
        /\ found' = [found EXCEPT ![t] = Append(@, at[t])]
        /\ allocated' = [allocated EXCEPT ![t] = Capacity(@, Len(found[t]) + 1)]
     \/ ~is_prime(at[t]) /\ UNCHANGED <<found, allocated>>
  /\ UNCHANGED <<mainVars, place>>

\* The array is cut to its contents, and returned.
Return(t) ==
  /\ place[t] = "loop" /\ at[t] > ChunkEnd(t)
  /\ place' = [place EXCEPT ![t] = "done"]
  /\ allocated' = [allocated EXCEPT ![t] = Len(found[t])]
  /\ UNCHANGED <<mainVars, at, found>>

\* dic_rthread_join of the next thread, and dic_memcpy of its array.
JoinThread ==
  /\ started = coreCount /\ joined < coreCount
  /\ place[joined] = "done"
  /\ collected' = collected \o found[joined]
  /\ joined' = joined + 1
  /\ UNCHANGED <<rangeEnd, coreCount, started, place, at, found, allocated>>

PrimesNext ==
  \/ RunThread \/ JoinThread
  \/ \E t \in Threads : Examine(t) \/ Return(t)

PrimesSpec == PrimesInit /\ [][PrimesNext]_primesVars

-----------------------------------------------------------------------------
\* The definition of a prime number.
Prime(n) == n > 1 /\ \A d \in 2..(n - 1) : n % d # 0

\* What main has collected in the end are the primes of the range, each of
\* them once and in order: the chunks leave out no number and share none, for
\* every number of cores, also when there are more cores than numbers and the
\* chunks but the last are empty (the division of work in main, is_prime,
\* find_primes).
EveryPrimeOnce ==
  joined = coreCount =>
    /\ Range(collected) = {n \in RangeStart..rangeEnd : Prime(n)}
    /\ \A j, k \in 1..Len(collected) : j < k => collected[j] < collected[k]

\* No thread writes behind the end of its array, which has room for the count
\* and allocated_len numbers (find_primes).
WritesInBounds == \A t \in Threads : Len(found[t]) <= allocated[t]
=============================================================================
