------------------------- MODULE Algorithms_proofs -------------------------
(***************************************************************************)
(* The demo find-primes: the division of the work, for every range and     *)
(* every number of cores, also when there are more cores than numbers;     *)
(* that is_prime recognises the primes; that no thread writes behind its   *)
(* array; and that main collects every prime of the range once.            *)
(*                                                                         *)
(* dic_checksum: what it computes for every file, and that no change of a  *)
(* single byte goes unnoticed, for every width of the sum.                 *)
(***************************************************************************)
EXTENDS FindPrimes, Checksum, FiniteSetTheorems, SequenceTheorems, TLAPS

\* What the division of C computes for numbers that are not negative.
LEMMA Quotient ==
  ASSUME NEW a \in Nat, NEW r \in Nat \ {0}
  PROVE  /\ a \div r \in Nat
         /\ r * (a \div r) <= a
         /\ a < r * (a \div r) + r
OBVIOUS

\* Multiplication by a number that is not negative keeps the order.
LEMMA Monotone ==
  ASSUME NEW a \in Nat, NEW b \in Nat, NEW r \in Nat
  PROVE  a <= b => a * r <= b * r
OBVIOUS

\* The same, the other way round.
LEMMA StrictlyMonotone ==
  ASSUME NEW a \in Nat, NEW b \in Nat, NEW r \in Nat, a * r < b * r
  PROVE  a < b
OBVIOUS

-----------------------------------------------------------------------------
\* A number that thread t is given.
InChunk(first, last, cores, t, x) ==
  Start(first, last, cores, t) <= x /\ x <= End(first, last, cores, t)

\* The division of the range in main gives no thread a number outside it.
THEOREM ChunksInRange ==
  ASSUME NEW first \in Int, NEW last \in Int, first <= last,
         NEW cores \in Nat \ {0}, NEW t \in 0..(cores - 1), NEW x \in Int,
         InChunk(first, last, cores, t, x)
  PROVE  x \in first..last
<1>1. PICK size \in Nat, r \in Nat :
        /\ size = last - first /\ r = RangeSize(first, last, cores)
        /\ cores * r <= size
  <2>1. last - first \in Nat
    OBVIOUS
  <2>. QED BY <2>1, Quotient DEF RangeSize
<1>2. PICK p \in Nat : p = t * r
  <2>1. t \in Nat
    OBVIOUS
  <2>. QED BY <2>1
<1>3. first + p <= x
  BY <1>1, <1>2 DEF InChunk, Start
<1>4. x <= last
  <2>1. CASE t = cores - 1
    BY <2>1 DEF InChunk, End
  <2>2. CASE t # cores - 1
    <3>1. x <= first + p + r - 1
      BY <1>1, <1>2, <2>2 DEF InChunk, End, Start
    <3>2. t + 1 \in Nat /\ t + 1 <= cores /\ cores \in Nat
      BY <2>2
    <3>3. (t + 1) * r <= cores * r /\ (t + 1) * r = p + r
      BY <1>2, <3>2, Monotone
    <3>4. p + r <= size
      BY <1>1, <3>3
    <3>. QED BY <1>1, <1>2, <3>1, <3>4
  <2>. QED BY <2>1, <2>2
<1>. QED BY <1>2, <1>3, <1>4

\* Every number of the range is given to a thread by main: also those that the
\* division leaves over, and when there are more threads than numbers.
THEOREM ChunksCover ==
  ASSUME NEW first \in Int, NEW last \in Int, NEW cores \in Nat \ {0},
         NEW x \in first..last
  PROVE  \E t \in 0..(cores - 1) : InChunk(first, last, cores, t, x)
<1>1. PICK size \in Nat, r \in Nat, c \in Nat :
        /\ size = last - first /\ r = RangeSize(first, last, cores)
        /\ c = cores - 1
  <2>1. last - first \in Nat
    OBVIOUS
  <2>2. RangeSize(first, last, cores) \in Nat
    BY <2>1, Quotient DEF RangeSize
  <2>3. cores - 1 \in Nat
    OBVIOUS
  <2>. QED BY <2>1, <2>2, <2>3
<1>2. PICK y \in Nat, q \in Nat : y = x - first /\ q = c * r
  <2>1. c * r \in Nat
    OBVIOUS
  <2>. QED BY <2>1
<1>3. CASE q <= y
  <2>1. c \in 0..(cores - 1)
    BY <1>1
  <2>2. first + q <= x /\ x <= last
    BY <1>2, <1>3
  <2>3. InChunk(first, last, cores, c, x)
    BY <1>1, <1>2, <2>2 DEF InChunk, Start, End
  <2>. QED BY <2>1, <2>3
<1>4. CASE y < q
  <2>1. r # 0
    <3>1. r = 0 => c * r = 0
      OBVIOUS
    <3>. QED BY <1>2, <1>4, <3>1
  <2>2. PICK t \in Nat : r * t <= y /\ y < r * t + r
    BY <2>1, Quotient
  <2>3. t * r = r * t /\ t * r \in Nat
    OBVIOUS
  <2>4. t * r < c * r
    BY <1>2, <1>4, <2>2, <2>3
  <2>5. t < c
    BY <2>4, StrictlyMonotone
  <2>6. t \in 0..(cores - 1) /\ t # cores - 1
    BY <1>1, <2>5
  <2>7. PICK p \in Nat : p = t * r /\ p <= y /\ y < p + r
    BY <2>2, <2>3
  <2>8. first + p <= x /\ x <= first + p + r - 1
    BY <1>2, <2>7
  <2>9. InChunk(first, last, cores, t, x)
    BY <1>1, <2>6, <2>7, <2>8 DEF InChunk, Start, End
  <2>. QED BY <2>6, <2>9
<1>. QED BY <1>2, <1>3, <1>4

\* Main gives no number to two threads, so that no prime is reported twice.
THEOREM ChunksDisjoint ==
  ASSUME NEW first \in Int, NEW last \in Int, first <= last,
         NEW cores \in Nat \ {0}, NEW x \in Int,
         NEW t \in 0..(cores - 1), InChunk(first, last, cores, t, x),
         NEW u \in 0..(cores - 1), InChunk(first, last, cores, u, x)
  PROVE  t = u
<1>1. PICK r \in Nat : r = RangeSize(first, last, cores)
  <2>1. last - first \in Nat
    OBVIOUS
  <2>. QED BY <2>1, Quotient DEF RangeSize
<1>2. ASSUME NEW v \in 0..(cores - 1), NEW w \in 0..(cores - 1), v < w,
             InChunk(first, last, cores, v, x), InChunk(first, last, cores, w, x)
      PROVE  FALSE
  <2>1. PICK p \in Nat, q \in Nat : p = v * r /\ q = w * r
    <3>1. v \in Nat /\ w \in Nat
      OBVIOUS
    <3>2. v * r \in Nat /\ w * r \in Nat
      BY <3>1
    <3>. QED BY <3>2
  <2>2. v # cores - 1
    BY <1>2
  <2>3. x <= first + p + r - 1 /\ first + q <= x
    BY <1>1, <1>2, <2>1, <2>2 DEF InChunk, Start, End
  <2>4. v + 1 \in Nat /\ w \in Nat /\ v + 1 <= w
    BY <1>2
  <2>5. (v + 1) * r <= w * r /\ (v + 1) * r = p + r
    BY <2>1, <2>4, Monotone
  <2>6. p + r <= q
    BY <2>1, <2>5
  <2>. QED BY <2>3, <2>6
<1>3. t \in Int /\ u \in Int
  OBVIOUS
<1>4. t < u \/ t = u \/ u < t
  BY <1>3
<1>. QED BY <1>2, <1>4

-----------------------------------------------------------------------------
\* What the operator % of C tells: whether one number divides another.
LEMMA Divides ==
  ASSUME NEW n \in Nat, NEW d \in Nat \ {0}
  PROVE  n % d = 0 <=> \E e \in Nat : n = d * e
<1>1. n \div d \in Nat /\ n % d \in 0..(d - 1) /\ n = d * (n \div d) + (n % d)
  OBVIOUS
<1>2. n % d = 0 => \E e \in Nat : n = d * e
  <2>1. PICK q \in Nat : n = d * q + (n % d)
    BY <1>1
  <2>2. n % d = 0 => n = d * q
    BY <2>1
  <2>. QED BY <2>2
<1>3. ASSUME NEW e \in Nat, n = d * e PROVE n % d = 0
  <2>1. PICK q \in Nat, r \in 0..(d - 1) :
          q = n \div d /\ r = n % d /\ d * e = d * q + r
    BY <1>1, <1>3
  <2>2. d * (e - q) = r
    BY <2>1
  <2>3. e - q = 0 \/ e - q >= 1 \/ e - q <= 0 - 1
    OBVIOUS
  <2>4. e - q >= 1 => d * (e - q) >= d
    OBVIOUS
  <2>5. e - q <= 0 - 1 => d * (e - q) <= 0 - d
    OBVIOUS
  <2>6. r < d /\ r >= 0
    OBVIOUS
  <2>7. e - q = 0
    BY <2>2, <2>3, <2>4, <2>5, <2>6
  <2>. QED BY <2>1, <2>2, <2>7
<1>. QED BY <1>2, <1>3

\* A divisor of an odd number is odd.
LEMMA OddDivisor ==
  ASSUME NEW n \in Nat, n % 2 # 0, NEW m \in Nat \ {0}, NEW o \in Nat, n = m * o
  PROVE  m % 2 # 0
<1>. SUFFICES ASSUME m % 2 = 0 PROVE FALSE
  OBVIOUS
<1>1. PICK j \in Nat : m = 2 * j
  BY Divides
<1>2. n = 2 * (j * o) /\ j * o \in Nat
  BY <1>1
<1>3. n % 2 = 0
  BY <1>2, Divides
<1>. QED BY <1>3

\* is_prime tries 2 and the odd numbers up to the square root only, and that
\* is enough, for every number.
THEOREM PrimesRecognised ==
  ASSUME NEW n \in Nat
  PROVE  is_prime(n) <=> Prime(n)
<1>1. ASSUME is_prime(n), n # 2 PROVE Prime(n)
  <2>1. /\ n > 2 /\ n % 2 # 0
        /\ \A d \in 3..n : d % 2 # 0 /\ d * d <= n => n % d # 0
    BY <1>1 DEF is_prime
  <2>2. ASSUME NEW m \in Nat, NEW o \in Nat, m >= 2, m <= o, n = m * o PROVE FALSE
    <3>1. m % 2 # 0
      <4>1. m \in Nat \ {0}
        BY <2>2
      <4>. QED BY <2>1, <2>2, <4>1, OddDivisor
    <3>2. m # 2
      BY <3>1
    <3>3. m * m <= m * o
      BY <2>2
    <3>4. m <= m * o
      BY <2>2
    <3>5. m \in 3..n
      BY <2>2, <3>2, <3>4
    <3>6. n % m = 0
      BY <2>2, Divides
    <3>. QED BY <2>1, <2>2, <3>1, <3>3, <3>5, <3>6
  <2>3. ASSUME NEW d \in 2..(n - 1), n % d = 0 PROVE FALSE
    <3>1. PICK e \in Nat : n = d * e
      BY <2>3, Divides
    <3>2. d \in Nat /\ d >= 2 /\ d < n
      OBVIOUS
    <3>3. e # 0 /\ e # 1
      BY <2>1, <3>1, <3>2
    <3>4. e >= 2 /\ n = e * d
      BY <3>1, <3>2, <3>3
    <3>. QED BY <2>2, <3>1, <3>2, <3>4
  <2>. QED BY <2>1, <2>3 DEF Prime
<1>2. is_prime(2) /\ Prime(2)
  BY DEF is_prime, Prime
<1>3. ASSUME Prime(n), n # 2 PROVE is_prime(n)
  <2>1. n > 2 /\ \A d \in 2..(n - 1) : n % d # 0
    BY <1>3 DEF Prime
  <2>2. n % 2 # 0
    BY <2>1
  <2>3. ASSUME NEW d \in 3..n, d * d <= n PROVE n % d # 0
    <3>1. d \in Nat /\ d >= 3 /\ d <= n
      OBVIOUS
    <3>2. d < d * d
      BY <3>1
    <3>3. d \in 2..(n - 1)
      BY <2>3, <3>1, <3>2
    <3>. QED BY <2>1, <3>3
  <2>. QED BY <2>1, <2>2, <2>3 DEF is_prime
<1>. QED BY <1>1, <1>2, <1>3

-----------------------------------------------------------------------------
\* The first number that the threads before thread j are not given.
Frontier(j) == IF j = coreCount THEN rangeEnd + 1 ELSE ChunkStart(j)

PrimesBetween(a, b) == {n \in a..b : Prime(n)}

Increasing(s) == \A j, k \in 1..Len(s) : j < k => s[j] < s[k]

PrimesType ==
  /\ rangeEnd \in Nat /\ RangeStart <= rangeEnd
  /\ coreCount \in Nat \ {0}
  /\ started \in 0..coreCount /\ joined \in 0..coreCount
  /\ collected \in Seq(Nat)
  /\ place \in [Threads -> {"none", "loop", "done"}]
  /\ at \in [Threads -> Nat]
  /\ found \in [Threads -> Seq(Nat)]
  /\ allocated \in [Threads -> Nat]

\* A thread that runs has room for one more number; one that has returned has
\* cut its array to what it holds.
Room(t) ==
  /\ t >= started => place[t] = "none"
  /\ place[t] = "none" => found[t] = << >>
  /\ place[t] = "loop" => Len(found[t]) < allocated[t]
  /\ place[t] = "done" => Len(found[t]) = allocated[t]

\* What a thread has found are the primes of its chunk up to where it is.
Scanned(t) ==
  place[t] # "none" =>
    /\ ChunkStart(t) <= at[t] /\ at[t] <= ChunkEnd(t) + 1
    /\ Increasing(found[t])
    /\ Range(found[t]) = PrimesBetween(ChunkStart(t), at[t] - 1)
    /\ place[t] = "done" => at[t] = ChunkEnd(t) + 1

\* What main has collected are the primes of the chunks it has joined.
Gathered ==
  /\ Increasing(collected)
  /\ Range(collected) = PrimesBetween(RangeStart, Frontier(joined) - 1)

PrimesInv ==
  /\ PrimesType
  /\ \A t \in Threads : Room(t) /\ Scanned(t)
  /\ Gathered

\* The chunks follow each other without a gap.
LEMMA Frontiers ==
  ASSUME PrimesType, NEW t \in Threads
  PROVE  /\ ChunkStart(t) = Frontier(t) /\ ChunkEnd(t) + 1 = Frontier(t + 1)
         /\ Frontier(t) \in Nat /\ Frontier(t + 1) \in Nat
         /\ RangeStart <= Frontier(t) /\ Frontier(t) <= Frontier(t + 1)
         /\ Frontier(0) = RangeStart
         /\ RangeStart \in Nat /\ ChunkEnd(t) \in Int
<1>1. PICK first \in Nat, last \in Nat, cores \in Nat \ {0}, size \in Nat, r \in Nat :
        /\ first = RangeStart /\ last = rangeEnd /\ cores = coreCount
        /\ size = last - first /\ r = RangeSize(first, last, cores)
        /\ cores * r <= size
  <2>1. rangeEnd - RangeStart \in Nat
    BY PrimesAssumption DEF PrimesType
  <2>. QED BY <2>1, Quotient, PrimesAssumption DEF RangeSize, PrimesType
<1>2. t \in Nat /\ t < cores /\ t # cores
  BY <1>1 DEF Threads
<1>3. PICK p \in Nat : p = t * r
  BY <1>2
<1>4. (t + 1) * r = p + r
  BY <1>2, <1>3
<1>5. t + 1 \in Nat /\ cores \in Nat /\ t + 1 <= cores
  BY <1>2
<1>6. p + r <= size
  BY <1>1, <1>3, <1>4, <1>5, Monotone
<1>7. ChunkStart(t) = first + p /\ Frontier(t) = first + p
  BY <1>1, <1>2, <1>3 DEF ChunkStart, Start, Frontier
<1>8. Frontier(0) = RangeStart
  <2>1. 0 # cores /\ 0 * r = 0
    OBVIOUS
  <2>. QED BY <1>1, <2>1 DEF ChunkStart, Start, Frontier
<1>9. CASE t = cores - 1
  <2>1. t + 1 = cores
    BY <1>2, <1>9
  <2>2. Frontier(t + 1) = last + 1
    BY <1>1, <2>1 DEF Frontier
  <2>3. ChunkEnd(t) = last
    BY <1>1, <1>9 DEF ChunkEnd, End
  <2>. QED BY <1>1, <1>6, <1>7, <1>8, <2>2, <2>3
<1>10. CASE t # cores - 1
  <2>1. t + 1 # cores
    BY <1>2, <1>10
  <2>2. Frontier(t + 1) = first + (p + r)
    BY <1>1, <1>4, <2>1 DEF Frontier, ChunkStart, Start
  <2>3. ChunkEnd(t) = first + p + r - 1
    BY <1>1, <1>3, <1>10 DEF ChunkEnd, End, Start
  <2>. QED BY <1>1, <1>7, <1>8, <2>2, <2>3
<1>. QED BY <1>9, <1>10

\* A number that is greater than those of an increasing sequence goes behind
\* them.
LEMMA AppendGreater ==
  ASSUME NEW s \in Seq(Nat), Increasing(s), NEW x \in Nat,
         \A y \in Range(s) : y < x
  PROVE  Increasing(Append(s, x)) /\ Range(Append(s, x)) = Range(s) \cup {x}
<1>1. PICK n \in Nat : n = Len(s) /\ DOMAIN s = 1..n
  OBVIOUS
<1>2. /\ DOMAIN Append(s, x) = 1..(n + 1) /\ Len(Append(s, x)) = n + 1
      /\ Append(s, x)[n + 1] = x
      /\ \A j \in 1..n : Append(s, x)[j] = s[j]
  BY <1>1
<1>3. \A j \in 1..(n + 1) : j \in 1..n \/ j = n + 1
  OBVIOUS
<1>4. \A j \in 1..n : s[j] < x
  BY <1>1 DEF Range
<1>5. Increasing(Append(s, x))
  <2>1. SUFFICES ASSUME NEW j \in 1..(n + 1), NEW k \in 1..(n + 1), j < k
                 PROVE  Append(s, x)[j] < Append(s, x)[k]
    BY <1>2 DEF Increasing
  <2>2. j \in 1..n
    BY <2>1
  <2>3. CASE k \in 1..n
    BY <1>1, <1>2, <2>1, <2>2, <2>3 DEF Increasing
  <2>4. CASE k = n + 1
    BY <1>2, <1>4, <2>2, <2>4
  <2>. QED BY <1>3, <2>3, <2>4
<1>6. Range(Append(s, x)) = Range(s) \cup {x}
  <2>1. Range(Append(s, x)) \subseteq Range(s) \cup {x}
    BY <1>1, <1>2, <1>3 DEF Range
  <2>2. n + 1 \in 1..(n + 1) /\ \A j \in 1..n : j \in 1..(n + 1)
    OBVIOUS
  <2>3. Range(s) \cup {x} \subseteq Range(Append(s, x))
    BY <1>1, <1>2, <2>2 DEF Range
  <2>. QED BY <2>1, <2>3
<1>. QED BY <1>5, <1>6

\* The same for two sequences.
LEMMA ConcatGreater ==
  ASSUME NEW s \in Seq(Nat), NEW u \in Seq(Nat), Increasing(s), Increasing(u),
         \A x \in Range(s), y \in Range(u) : x < y
  PROVE  Increasing(s \o u) /\ Range(s \o u) = Range(s) \cup Range(u)
<1>1. PICK n \in Nat, m \in Nat :
        n = Len(s) /\ DOMAIN s = 1..n /\ m = Len(u) /\ DOMAIN u = 1..m
  OBVIOUS
<1>2. /\ DOMAIN (s \o u) = 1..(n + m) /\ Len(s \o u) = n + m
      /\ \A j \in 1..n : (s \o u)[j] = s[j]
      /\ \A j \in 1..(n + m) : j > n => (s \o u)[j] = u[j - n]
  BY <1>1
<1>3. \A j \in 1..(n + m) : j \in 1..n \/ (j > n /\ j - n \in 1..m)
  OBVIOUS
<1>4. \A j \in 1..n, k \in 1..m : s[j] < u[k]
  BY <1>1 DEF Range
<1>5. Increasing(s \o u)
  <2>1. SUFFICES ASSUME NEW j \in 1..(n + m), NEW k \in 1..(n + m), j < k
                 PROVE  (s \o u)[j] < (s \o u)[k]
    BY <1>2 DEF Increasing
  <2>2. CASE j \in 1..n /\ k \in 1..n
    BY <1>1, <1>2, <2>1, <2>2 DEF Increasing
  <2>3. CASE j \in 1..n /\ k > n
    <3>1. k - n \in 1..m
      BY <2>1, <2>3
    <3>2. (s \o u)[j] = s[j] /\ (s \o u)[k] = u[k - n]
      BY <1>2, <2>1, <2>3
    <3>3. s[j] < u[k - n]
      BY <1>4, <2>3, <3>1
    <3>. QED BY <3>2, <3>3
  <2>4. CASE j > n
    <3>1. j - n \in 1..m /\ k > n /\ k - n \in 1..m /\ j - n < k - n
      BY <2>1, <2>4
    <3>2. u[j - n] < u[k - n]
      BY <1>1, <3>1 DEF Increasing
    <3>. QED BY <1>2, <2>4, <3>1, <3>2
  <2>. QED BY <1>3, <2>2, <2>3, <2>4
<1>6. Range(s \o u) = Range(s) \cup Range(u)
  <2>1. Range(s \o u) \subseteq Range(s) \cup Range(u)
    BY <1>1, <1>2, <1>3 DEF Range
  <2>2. ASSUME NEW k \in 1..m PROVE u[k] \in Range(s \o u)
    <3>1. k + n \in 1..(n + m) /\ k + n > n /\ (k + n) - n = k
      OBVIOUS
    <3>. QED BY <1>2, <3>1 DEF Range
  <2>3. ASSUME NEW k \in 1..n PROVE s[k] \in Range(s \o u)
    <3>1. k \in 1..(n + m)
      OBVIOUS
    <3>. QED BY <1>2, <3>1 DEF Range
  <2>. QED BY <1>1, <2>1, <2>2, <2>3 DEF Range
<1>. QED BY <1>5, <1>6

\* The primes of a range and of the next.
LEMMA PrimesOfBoth ==
  ASSUME NEW a \in Nat, NEW b \in Nat, NEW c \in Nat, a <= b, b <= c
  PROVE  PrimesBetween(a, c - 1) = PrimesBetween(a, b - 1) \cup PrimesBetween(b, c - 1)
BY DEF PrimesBetween

-----------------------------------------------------------------------------
LEMMA PrimesStarts == PrimesInit => PrimesInv
<1>. SUFFICES ASSUME PrimesInit PROVE PrimesInv
  OBVIOUS
<1>1. PICK last \in Nat, cores \in Nat \ {0} :
        last = rangeEnd /\ cores = coreCount /\ RangeStart <= last
  BY PrimesAssumption DEF PrimesInit
<1>2. PrimesType
  <2>1. 0 \in 0..cores
    BY <1>1
  <2>. QED BY <1>1, <2>1 DEF PrimesInit, PrimesType
<1>3. \A t \in Threads : Room(t) /\ Scanned(t)
  BY DEF PrimesInit, Room, Scanned
<1>4. Gathered
  <2>1. 0 \in Threads
    BY <1>1 DEF Threads
  <2>2. Frontier(joined) = RangeStart /\ RangeStart \in Nat
    BY <1>2, <2>1, Frontiers DEF PrimesInit
  <2>3. PrimesBetween(RangeStart, RangeStart - 1) = {}
    BY <2>2 DEF PrimesBetween
  <2>4. Range(<< >>) = {} /\ Increasing(<< >>)
    BY DEF Range, Increasing
  <2>. QED BY <2>2, <2>3, <2>4 DEF PrimesInit, Gathered
<1>. QED BY <1>2, <1>3, <1>4 DEF PrimesInv

\* The division of the work never changes.
LEMMA SameChunks ==
  ASSUME UNCHANGED <<rangeEnd, coreCount>>
  PROVE  /\ Threads' = Threads
         /\ \A t : /\ ChunkStart(t)' = ChunkStart(t) /\ ChunkEnd(t)' = ChunkEnd(t)
                   /\ Frontier(t)' = Frontier(t)
BY DEF Threads, ChunkStart, ChunkEnd, Frontier

\* What is known of a thread stays known while the others move.
LEMMA ThreadKept ==
  ASSUME PrimesType, UNCHANGED <<rangeEnd, coreCount>>, NEW t \in Threads,
         started' = started \/ started' = started + 1,
         place'[t] = place[t], at'[t] = at[t], found'[t] = found[t],
         allocated'[t] = allocated[t], Room(t), Scanned(t)
  PROVE  Room(t)' /\ Scanned(t)'
<1>1. t \in Int /\ started \in Int /\ (t >= started' => t >= started)
  BY DEF PrimesType, Threads
<1>2. Room(t)'
  BY <1>1 DEF Room
<1>3. Scanned(t)'
  BY SameChunks DEF Scanned
<1>. QED BY <1>2, <1>3

LEMMA RunThreadKeeps ==
  ASSUME PrimesInv, RunThread
  PROVE  PrimesInv'
<1>1. PrimesType /\ UNCHANGED <<rangeEnd, coreCount>> /\ Threads' = Threads
  BY SameChunks DEF PrimesInv, RunThread
<1>2. PICK s \in Threads : s = started
  BY DEF RunThread, PrimesInv, PrimesType, Threads
<1>3. /\ ChunkStart(s) \in Nat /\ ChunkEnd(s) \in Int
      /\ ChunkStart(s) <= ChunkEnd(s) + 1
  <2>1. PICK a \in Nat, b \in Nat : a = Frontier(s) /\ b = Frontier(s + 1) /\ a <= b
    BY <1>1, <1>2, Frontiers
  <2>2. ChunkStart(s) = a /\ ChunkEnd(s) + 1 = b
    BY <1>1, <1>2, <2>1, Frontiers
  <2>3. ChunkEnd(s) \in Int
    BY <1>1, <1>2, Frontiers
  <2>. QED BY <2>1, <2>2, <2>3
<1>4. PrimesType'
  <2>1. Grow \in Nat
    BY PrimesAssumption
  <2>2. started' \in 0..coreCount
    BY DEF RunThread, PrimesInv, PrimesType
  <2>3. /\ place' \in [Threads -> {"none", "loop", "done"}]
        /\ at' \in [Threads -> Nat] /\ allocated' \in [Threads -> Nat]
    BY <1>1, <1>2, <1>3, <2>1 DEF RunThread, PrimesType
  <2>. QED BY <1>1, <2>2, <2>3 DEF RunThread, PrimesType
<1>5. ASSUME NEW t \in Threads PROVE Room(t)' /\ Scanned(t)'
  <2>1. CASE t # s
    BY <1>1, <1>2, <1>5, <2>1, ThreadKept DEF PrimesInv, PrimesType, RunThread
  <2>2. CASE t = s
    <3>1. found'[s] = << >>
      <4>1. s >= started
        BY <1>1, <1>2 DEF PrimesType
      <4>. QED BY <1>2, <4>1 DEF PrimesInv, Room, RunThread
    <3>2. place'[s] = "loop" /\ at'[s] = ChunkStart(s) /\ allocated'[s] = Grow
      BY <1>1, <1>2 DEF RunThread, PrimesType
    <3>3. Room(s)'
      <4>1. ~(s >= started')
        BY <1>1, <1>2 DEF RunThread, PrimesType
      <4>2. Len(<< >>) < Grow
        BY PrimesAssumption
      <4>. QED BY <3>1, <3>2, <4>1, <4>2 DEF Room
    <3>4. PrimesBetween(ChunkStart(s), ChunkStart(s) - 1) = {}
      BY <1>3 DEF PrimesBetween
    <3>5. Range(<< >>) = {} /\ Increasing(<< >>)
      BY DEF Range, Increasing
    <3>6. ChunkStart(s) <= ChunkStart(s)
      BY <1>3
    <3>7. Scanned(s)'
      BY <1>1, <1>3, <3>1, <3>2, <3>4, <3>5, <3>6, SameChunks DEF Scanned
    <3>. QED BY <2>2, <3>3, <3>7
  <2>. QED BY <2>1, <2>2
<1>6. Gathered'
  BY <1>1, SameChunks DEF PrimesInv, Gathered, RunThread
<1>. QED BY <1>1, <1>4, <1>5, <1>6 DEF PrimesInv

LEMMA ExamineKeeps ==
  ASSUME PrimesInv, NEW t \in Threads, Examine(t)
  PROVE  PrimesInv'
<1>1. /\ PrimesType /\ Room(t) /\ Scanned(t)
      /\ UNCHANGED <<rangeEnd, coreCount>> /\ Threads' = Threads
  BY SameChunks DEF PrimesInv, Examine, mainVars
<1>2. PICK a \in Nat, b \in Nat, i \in Nat :
        /\ a = ChunkStart(t) /\ b = ChunkEnd(t) + 1 /\ i = at[t]
        /\ a <= i /\ i < b
  <2>1. ChunkStart(t) \in Nat /\ ChunkEnd(t) + 1 \in Nat /\ at[t] \in Nat
    BY <1>1, Frontiers DEF PrimesType
  <2>2. ChunkEnd(t) \in Int
    BY <1>1, Frontiers
  <2>3. ChunkStart(t) <= at[t] /\ at[t] < ChunkEnd(t) + 1
    BY <1>1, <2>1, <2>2 DEF Examine, Scanned
  <2>. QED BY <2>1, <2>3
<1>3. PICK f \in Seq(Nat), n \in Nat, l \in Nat :
        f = found[t] /\ n = Len(f) /\ l = allocated[t] /\ n < l
  BY <1>1 DEF PrimesType, Room, Examine
<1>4. place[t] = "loop" /\ ~(t >= started)
  BY <1>1 DEF Examine, Room
<1>5. Increasing(f) /\ Range(f) = PrimesBetween(a, i - 1)
  BY <1>1, <1>2, <1>3, <1>4 DEF Scanned
<1>6. /\ at' = [at EXCEPT ![t] = i + 1] /\ at'[t] = i + 1
      /\ place' = place /\ started' = started /\ joined' = joined
      /\ collected' = collected
  BY <1>1, <1>2 DEF Examine, mainVars, PrimesType
<1>7. PICK g \in Seq(Nat), m \in Nat :
        /\ found' = [found EXCEPT ![t] = g] /\ allocated' = [allocated EXCEPT ![t] = m]
        /\ Len(g) < m /\ Increasing(g) /\ Range(g) = PrimesBetween(a, i)
  <2>1. PrimesBetween(a, i) = PrimesBetween(a, i - 1) \cup PrimesBetween(i, i)
    <3>1. PICK k \in Nat : k = i + 1 /\ i <= k /\ k - 1 = i
      OBVIOUS
    <3>2. PrimesBetween(a, k - 1) = PrimesBetween(a, i - 1) \cup PrimesBetween(i, k - 1)
      BY <1>2, <3>1, PrimesOfBoth
    <3>. QED BY <3>1, <3>2
  <2>2. CASE is_prime(i)
    <3>1. Prime(i)
      BY <2>2, PrimesRecognised
    <3>2. PrimesBetween(i, i) = {i}
      <4>1. i..i = {i}
        OBVIOUS
      <4>. QED BY <3>1, <4>1 DEF PrimesBetween
    <3>3. \A y \in Range(f) : y < i
      BY <1>2, <1>5 DEF PrimesBetween
    <3>4. /\ Append(f, i) \in Seq(Nat) /\ Len(Append(f, i)) = n + 1
          /\ Increasing(Append(f, i)) /\ Range(Append(f, i)) = PrimesBetween(a, i)
      BY <1>3, <1>5, <2>1, <3>2, <3>3, AppendGreater
    <3>5. PICK m \in Nat : m = Capacity(l, n + 1) /\ n + 1 < m
      <4>1. PICK gr \in Nat \ {0} : gr = Grow
        BY PrimesAssumption
      <4>2. Capacity(l, n + 1) = IF n + 1 >= l THEN l + gr ELSE l
        BY <4>1 DEF Capacity
      <4>3. CASE n + 1 >= l
        BY <1>3, <4>2, <4>3
      <4>4. CASE ~(n + 1 >= l)
        BY <1>3, <4>2, <4>4
      <4>. QED BY <4>3, <4>4
    <3>6. /\ found' = [found EXCEPT ![t] = Append(f, i)]
          /\ allocated' = [allocated EXCEPT ![t] = m]
      BY <1>2, <1>3, <2>2, <3>5 DEF Examine
    <3>. QED BY <3>4, <3>5, <3>6
  <2>3. CASE ~is_prime(i)
    <3>1. ~Prime(i)
      BY <2>3, PrimesRecognised
    <3>2. PrimesBetween(i, i) = {}
      <4>1. i..i = {i}
        OBVIOUS
      <4>. QED BY <3>1, <4>1 DEF PrimesBetween
    <3>3. found' = found /\ allocated' = allocated
      BY <1>2, <2>3 DEF Examine
    <3>4. found' = [found EXCEPT ![t] = f] /\ allocated' = [allocated EXCEPT ![t] = l]
      BY <1>1, <1>3, <3>3 DEF PrimesType
    <3>. QED BY <1>3, <1>5, <2>1, <3>2, <3>4
  <2>. QED BY <2>2, <2>3
<1>8. PrimesType'
  <2>1. i + 1 \in Nat
    OBVIOUS
  <2>. QED BY <1>1, <1>6, <1>7, <2>1 DEF PrimesType
<1>9. ASSUME NEW u \in Threads PROVE Room(u)' /\ Scanned(u)'
  <2>1. CASE u # t
    BY <1>1, <1>6, <1>7, <1>9, <2>1, ThreadKept DEF PrimesInv, PrimesType
  <2>2. CASE u = t
    <3>1. found'[t] = g /\ allocated'[t] = m
      BY <1>1, <1>7 DEF PrimesType
    <3>2. Room(t)'
      BY <1>4, <1>6, <1>7, <3>1 DEF Room
    <3>3. ChunkStart(t)' = a /\ ChunkEnd(t)' + 1 = b
      BY <1>1, <1>2, SameChunks
    <3>4. a <= i + 1 /\ i + 1 <= b /\ (i + 1) - 1 = i
      BY <1>2
    <3>5. Scanned(t)'
      BY <1>4, <1>6, <1>7, <3>1, <3>3, <3>4 DEF Scanned
    <3>. QED BY <2>2, <3>2, <3>5
  <2>. QED BY <2>1, <2>2
<1>10. Gathered'
  BY <1>1, <1>6, SameChunks DEF PrimesInv, Gathered
<1>. QED BY <1>1, <1>8, <1>9, <1>10 DEF PrimesInv

LEMMA ReturnKeeps ==
  ASSUME PrimesInv, NEW t \in Threads, Return(t)
  PROVE  PrimesInv'
<1>1. /\ PrimesType /\ Room(t) /\ Scanned(t)
      /\ UNCHANGED <<rangeEnd, coreCount>> /\ Threads' = Threads
  BY SameChunks DEF PrimesInv, Return, mainVars
<1>2. place[t] = "loop" /\ ~(t >= started) /\ place'[t] = "done"
  BY <1>1 DEF Return, Room, PrimesType
<1>3. /\ at' = at /\ found' = found /\ started' = started /\ joined' = joined
      /\ collected' = collected
  BY DEF Return, mainVars
<1>4. PICK n \in Nat : n = Len(found[t]) /\ allocated' = [allocated EXCEPT ![t] = n]
  <2>1. found[t] \in Seq(Nat)
    BY <1>1 DEF PrimesType
  <2>2. Len(found[t]) \in Nat
    BY <2>1
  <2>. QED BY <2>2 DEF Return
<1>5. PrimesType'
  BY <1>1, <1>3, <1>4 DEF PrimesType, Return
<1>6. ASSUME NEW u \in Threads PROVE Room(u)' /\ Scanned(u)'
  <2>1. CASE u # t
    BY <1>1, <1>3, <1>4, <1>6, <2>1, ThreadKept DEF PrimesInv, PrimesType, Return
  <2>2. CASE u = t
    <3>1. allocated'[t] = n
      BY <1>1, <1>4 DEF PrimesType
    <3>2. Room(t)'
      BY <1>2, <1>3, <1>4, <3>1 DEF Room
    <3>3. at[t] = ChunkEnd(t) + 1
      <4>1. at[t] \in Int /\ ChunkEnd(t) \in Int
        BY <1>1, Frontiers DEF PrimesType
      <4>2. at[t] > ChunkEnd(t) /\ at[t] <= ChunkEnd(t) + 1
        BY <1>1, <1>2 DEF Return, Scanned
      <4>. QED BY <4>1, <4>2
    <3>4. Scanned(t)'
      BY <1>1, <1>2, <1>3, <3>3, SameChunks DEF Scanned
    <3>. QED BY <2>2, <3>2, <3>4
  <2>. QED BY <2>1, <2>2
<1>7. Gathered'
  BY <1>1, <1>3, SameChunks DEF PrimesInv, Gathered
<1>. QED BY <1>1, <1>5, <1>6, <1>7 DEF PrimesInv

LEMMA JoinThreadKeeps ==
  ASSUME PrimesInv, JoinThread
  PROVE  PrimesInv'
<1>1. PrimesType /\ UNCHANGED <<rangeEnd, coreCount>> /\ Threads' = Threads
  BY SameChunks DEF PrimesInv, JoinThread
<1>2. PICK t \in Threads : t = joined
  BY <1>1 DEF JoinThread, PrimesType, Threads
<1>3. PICK a \in Nat, b \in Nat, c \in Nat :
        /\ a = RangeStart /\ b = Frontier(t) /\ c = Frontier(t + 1)
        /\ b = ChunkStart(t) /\ c = ChunkEnd(t) + 1
        /\ a <= b /\ b <= c
  BY <1>1, Frontiers
<1>4. PICK s \in Seq(Nat), f \in Seq(Nat) :
        /\ s = collected /\ Increasing(s) /\ Range(s) = PrimesBetween(a, b - 1)
        /\ f = found[t] /\ Increasing(f) /\ Range(f) = PrimesBetween(b, c - 1)
  <2>1. Scanned(t) /\ place[t] = "done"
    BY <1>2 DEF PrimesInv, JoinThread
  <2>. QED BY <1>1, <1>2, <1>3, <2>1 DEF Scanned, PrimesInv, PrimesType, Gathered
<1>5. \A x \in Range(s), y \in Range(f) : x < y
  BY <1>4 DEF PrimesBetween
<1>6. /\ s \o f \in Seq(Nat) /\ Increasing(s \o f)
      /\ Range(s \o f) = PrimesBetween(a, c - 1)
  <2>1. s \o f \in Seq(Nat)
    OBVIOUS
  <2>2. Increasing(s \o f) /\ Range(s \o f) = Range(s) \cup Range(f)
    BY <1>4, <1>5, ConcatGreater
  <2>3. PrimesBetween(a, c - 1) = PrimesBetween(a, b - 1) \cup PrimesBetween(b, c - 1)
    <3>1. a <= b /\ b <= c
      BY <1>3
    <3>. QED BY <3>1, PrimesOfBoth
  <2>. QED BY <1>4, <2>1, <2>2, <2>3
<1>7. joined' = t + 1 /\ collected' = s \o f
  BY <1>2, <1>4 DEF JoinThread
<1>8. PrimesType'
  <2>1. joined' \in 0..coreCount
    BY <1>1 DEF PrimesType, JoinThread
  <2>. QED BY <1>1, <1>6, <1>7, <2>1 DEF PrimesType, JoinThread
<1>9. ASSUME NEW u \in Threads PROVE Room(u)' /\ Scanned(u)'
  BY <1>1, <1>9, ThreadKept DEF PrimesInv, JoinThread
<1>10. Gathered'
  <2>1. Frontier(joined)' = c
    BY <1>1, <1>3, <1>7 DEF Frontier, ChunkStart
  <2>. QED BY <1>3, <1>6, <1>7, <2>1 DEF Gathered
<1>. QED BY <1>1, <1>8, <1>9, <1>10 DEF PrimesInv

LEMMA PrimesKeeps == PrimesInv /\ [PrimesNext]_primesVars => PrimesInv'
<1>. SUFFICES ASSUME PrimesInv, [PrimesNext]_primesVars PROVE PrimesInv'
  OBVIOUS
<1>1. CASE RunThread
  BY <1>1, RunThreadKeeps
<1>2. CASE JoinThread
  BY <1>2, JoinThreadKeeps
<1>3. ASSUME NEW t \in Threads, Examine(t) PROVE PrimesInv'
  BY <1>3, ExamineKeeps
<1>4. ASSUME NEW t \in Threads, Return(t) PROVE PrimesInv'
  BY <1>4, ReturnKeeps
<1>5. CASE UNCHANGED primesVars
  BY <1>5 DEF primesVars, mainVars, PrimesInv, PrimesType, Room, Scanned, Gathered,
              Threads, ChunkStart, ChunkEnd, Frontier
<1>. QED BY <1>1, <1>2, <1>3, <1>4, <1>5 DEF PrimesNext

LEMMA PrimesInvariant == PrimesSpec => []PrimesInv
<1>. QED BY PrimesStarts, PrimesKeeps, PTL DEF PrimesSpec

\* In find_primes no thread ever writes behind the end of its array, for every
\* range, however many primes it holds.
THEOREM PrimesFitInArrays == PrimesSpec => []WritesInBounds
<1>1. PrimesInv => WritesInBounds
  <2>1. SUFFICES ASSUME PrimesInv, NEW t \in Threads
                 PROVE  Len(found[t]) <= allocated[t]
    BY DEF WritesInBounds
  <2>2. PICK n \in Nat, l \in Nat : n = Len(found[t]) /\ l = allocated[t]
    BY <2>1 DEF PrimesInv, PrimesType
  <2>3. place[t] = "none" => n = 0
    BY <2>1, <2>2 DEF PrimesInv, Room
  <2>4. place[t] = "loop" => n < l
    BY <2>1, <2>2 DEF PrimesInv, Room
  <2>5. place[t] = "done" => n = l
    BY <2>1, <2>2 DEF PrimesInv, Room
  <2>6. place[t] \in {"none", "loop", "done"}
    BY <2>1 DEF PrimesInv, PrimesType
  <2>. QED BY <2>2, <2>3, <2>4, <2>5, <2>6
<1>. QED BY <1>1, PrimesInvariant, PTL

\* Main collects the primes of the range, each once and in order, for every
\* range and every number of cores, in whatever order the threads run (the
\* division of work in main, is_prime and find_primes).
THEOREM PrimesCollected == PrimesSpec => []EveryPrimeOnce
<1>1. PrimesInv => EveryPrimeOnce
  <2>1. SUFFICES ASSUME PrimesInv, joined = coreCount
                 PROVE  /\ Range(collected) = {n \in RangeStart..rangeEnd : Prime(n)}
                        /\ \A j, k \in 1..Len(collected) :
                             j < k => collected[j] < collected[k]
    BY DEF EveryPrimeOnce
  <2>2. Frontier(joined) - 1 = rangeEnd
    BY <2>1 DEF Frontier, PrimesInv, PrimesType
  <2>. QED BY <2>1, <2>2 DEF PrimesInv, Gathered, PrimesBetween, Increasing
<1>. QED BY <1>1, PrimesInvariant, PTL

-----------------------------------------------------------------------------
\* A quotient and a remainder determine each other.
LEMMA Remainder ==
  ASSUME NEW d \in Nat \ {0}, NEW q \in Nat, NEW r \in 0..(d - 1), NEW n \in Nat,
         n = d * q + r
  PROVE  n % d = r
<1>1. PICK p \in Nat, s \in 0..(d - 1) : n = d * p + s /\ s = n % d
  <2>1. n \div d \in Nat /\ n % d \in 0..(d - 1) /\ n = d * (n \div d) + (n % d)
    OBVIOUS
  <2>. QED BY <2>1
<1>2. d * (q - p) = s - r
  BY <1>1
<1>3. q - p = 0 \/ q - p >= 1 \/ q - p <= 0 - 1
  OBVIOUS
<1>4. q - p >= 1 => d * (q - p) >= d
  OBVIOUS
<1>5. q - p <= 0 - 1 => d * (q - p) <= 0 - d
  OBVIOUS
<1>6. s - r < d /\ 0 - d < s - r
  OBVIOUS
<1>7. q - p = 0
  BY <1>2, <1>3, <1>4, <1>5, <1>6
<1>8. d * 0 = 0
  OBVIOUS
<1>9. s - r = 0
  BY <1>2, <1>7, <1>8
<1>10. s = r
  BY <1>9
<1>. QED BY <1>1, <1>10

\* Counting around the end of the sum.
LEMMA NextPlace ==
  ASSUME NEW d \in Nat \ {0}, NEW m \in Nat
  PROVE  (m + 1) % d = IF m % d = d - 1 THEN 0 ELSE (m % d) + 1
<1>1. PICK q \in Nat, r \in 0..(d - 1) : m = d * q + r /\ r = m % d
  <2>1. m \div d \in Nat /\ m % d \in 0..(d - 1) /\ m = d * (m \div d) + (m % d)
    OBVIOUS
  <2>. QED BY <2>1
<1>2. PICK n \in Nat : n = m + 1
  OBVIOUS
<1>3. CASE r = d - 1
  <2>1. n = d * (q + 1) + 0 /\ q + 1 \in Nat /\ 0 \in 0..(d - 1)
    BY <1>1, <1>2, <1>3
  <2>2. n % d = 0
    BY <2>1, Remainder
  <2>. QED BY <1>1, <1>2, <1>3, <2>2
<1>4. CASE r # d - 1
  <2>1. PICK e \in Nat : e = d * q /\ m = e + r
    <3>1. d * q \in Nat
      OBVIOUS
    <3>. QED BY <1>1, <3>1
  <2>2. r + 1 \in 0..(d - 1) /\ n = d * q + (r + 1)
    BY <1>2, <1>4, <2>1
  <2>3. n % d = r + 1
    BY <2>2, Remainder
  <2>. QED BY <1>1, <1>2, <1>4, <2>3
<1>. QED BY <1>3, <1>4

LEMMA SmallPlace ==
  ASSUME NEW d \in Nat \ {0}, NEW r \in 0..(d - 1)
  PROVE  r % d = r
<1>1. r = d * 0 + r /\ r \in Nat
  OBVIOUS
<1>. QED BY <1>1, Remainder

\* Two numbers that are less than d apart and have the same remainder are
\* equal.
LEMMA SamePlace ==
  ASSUME NEW d \in Nat \ {0}, NEW a \in 0..(d - 1), NEW b \in 0..(d - 1), NEW c \in Nat,
         (a + c) % d = (b + c) % d
  PROVE  a = b
<1>1. PICK m \in Nat, n \in Nat : m = a + c /\ n = b + c
  OBVIOUS
<1>2. PICK p \in Nat, q \in Nat, r \in 0..(d - 1) : m = d * p + r /\ n = d * q + r
  <2>1. m \div d \in Nat /\ m % d \in 0..(d - 1) /\ m = d * (m \div d) + (m % d)
    OBVIOUS
  <2>2. n \div d \in Nat /\ n % d \in 0..(d - 1) /\ n = d * (n \div d) + (n % d)
    OBVIOUS
  <2>3. m % d = n % d
    BY <1>1
  <2>. QED BY <2>1, <2>2, <2>3
<1>3. d * (p - q) = a - b
  BY <1>1, <1>2
<1>4. p - q = 0 \/ p - q >= 1 \/ p - q <= 0 - 1
  OBVIOUS
<1>5. p - q >= 1 => d * (p - q) >= d
  OBVIOUS
<1>6. p - q <= 0 - 1 => d * (p - q) <= 0 - d
  OBVIOUS
<1>7. a - b < d /\ 0 - d < a - b
  OBVIOUS
<1>8. p - q = 0
  BY <1>3, <1>4, <1>5, <1>6, <1>7
<1>. QED BY <1>3, <1>8

-----------------------------------------------------------------------------
\* The place whose bit is rotated to place j.
Below(j) == IF j = 0 THEN Width - 1 ELSE j - 1

LEMMA BitsAtMember ==
  ASSUME NEW f, NEW n, NEW j, NEW k, NEW p
  PROVE  <<k, p>> \in BitsAt(f, n, j) <=>
           /\ k \in 1..n /\ p \in 0..(ByteBits - 1)
           /\ f[k][p] = 1 /\ (p + (n - k)) % Width = j
BY DEF BitsAt

LEMMA BitsAtPairs ==
  ASSUME NEW f, NEW n, NEW j, NEW x \in BitsAt(f, n, j)
  PROVE  x = <<x[1], x[2]>>
BY DEF BitsAt

LEMMA BitsAtFinite ==
  ASSUME NEW f, NEW n \in Nat, NEW j
  PROVE  IsFiniteSet(BitsAt(f, n, j)) /\ Cardinality(BitsAt(f, n, j)) \in Nat
<1>1. 0 \in Int /\ 1 \in Int /\ ByteBits - 1 \in Int /\ n \in Int
  BY SumAssumption
<1>2. IsFiniteSet(1..n) /\ IsFiniteSet(0..(ByteBits - 1))
  BY <1>1, FS_Interval
<1>3. IsFiniteSet((1..n) \X (0..(ByteBits - 1)))
  BY <1>2, FS_Product
<1>4. BitsAt(f, n, j) \subseteq (1..n) \X (0..(ByteBits - 1))
  BY DEF BitsAt
<1>5. IsFiniteSet(BitsAt(f, n, j))
  BY <1>3, <1>4, FS_Subset
<1>. QED BY <1>5, FS_CardinalityType

\* One more element changes the parity of a set.
LEMMA Parity ==
  ASSUME NEW S, IsFiniteSet(S), NEW x, x \notin S
  PROVE  /\ Cardinality(S) % 2 \in Bit
         /\ Cardinality(S \cup {x}) % 2 = Xor(Cardinality(S) % 2, 1)
<1>1. PICK c \in Nat : c = Cardinality(S)
  BY FS_CardinalityType
<1>2. Cardinality(S \cup {x}) = c + 1
  BY <1>1, FS_AddElement
<1>3. c % 2 \in {0, 1}
  OBVIOUS
<1>4. (c + 1) % 2 = IF c % 2 = 1 THEN 0 ELSE 1
  OBVIOUS
<1>. QED BY <1>1, <1>2, <1>3, <1>4 DEF Bit, Xor

\* What a round of dic_checksum does to the bits that meet at a place: those
\* of the place below come there, and perhaps one of the next byte.
LEMMA BitsAtNext ==
  ASSUME NEW f, NEW n \in Nat, NEW j \in 0..(Width - 1), NEW N \in Nat, N = n + 1
  PROVE  BitsAt(f, N, j) = BitsAt(f, n, Below(j)) \cup
           (IF j < ByteBits /\ f[N][j] = 1 THEN {<<N, j>>} ELSE {})
<1>. DEFINE New == IF j < ByteBits /\ f[N][j] = 1 THEN {<<N, j>>} ELSE {}
<1>1. Width \in Nat \ {0} /\ ByteBits \in Nat \ {0} /\ ByteBits <= Width
  BY SumAssumption
<1>2. ASSUME NEW k, NEW p
      PROVE  <<k, p>> \in BitsAt(f, N, j)
               <=> <<k, p>> \in BitsAt(f, n, Below(j)) \/ <<k, p>> \in New
  <2>1. CASE k \in 1..n /\ p \in 0..(ByteBits - 1)
    <3>1. PICK m \in Nat : m = p + (n - k) /\ m + 1 = p + (N - k)
      BY <2>1
    <3>2. m % Width \in 0..(Width - 1)
      BY <1>1
    <3>3. (m + 1) % Width = j <=> m % Width = Below(j)
      <4>1. PICK w \in Nat \ {0}, r \in Nat : w = Width /\ r = m % Width /\ r < w
        BY <1>1, <3>2
      <4>2. PICK s \in Nat : s = (m + 1) % w /\ s = IF r = w - 1 THEN 0 ELSE r + 1
        <5>1. (m + 1) % w = IF m % w = w - 1 THEN 0 ELSE (m % w) + 1
          BY NextPlace
        <5>. QED BY <4>1, <5>1
      <4>3. s = j <=> r = IF j = 0 THEN w - 1 ELSE j - 1
        BY <4>1, <4>2
      <4>. QED BY <4>1, <4>2, <4>3 DEF Below
    <3>4. k \in 1..N /\ k # N
      BY <2>1
    <3>5. <<k, p>> \notin New
      BY <3>4
    <3>6. <<k, p>> \in BitsAt(f, N, j) <=> f[k][p] = 1 /\ (m + 1) % Width = j
      BY <2>1, <3>1, <3>4, BitsAtMember
    <3>7. <<k, p>> \in BitsAt(f, n, Below(j)) <=> f[k][p] = 1 /\ m % Width = Below(j)
      BY <2>1, <3>1, BitsAtMember
    <3>. QED BY <3>3, <3>5, <3>6, <3>7
  <2>2. CASE k = N /\ p \in 0..(ByteBits - 1)
    <3>1. p + (N - N) = p /\ p \in 0..(Width - 1) /\ N \in 1..N /\ N \notin 1..n
      BY <1>1, <2>2
    <3>2. p % Width = p
      BY <1>1, <3>1, SmallPlace
    <3>3. <<N, p>> \in BitsAt(f, N, j) <=> f[N][p] = 1 /\ p = j
      BY <2>2, <3>1, <3>2, BitsAtMember
    <3>4. <<N, p>> \notin BitsAt(f, n, Below(j))
      BY <3>1, BitsAtMember
    <3>5. p = j => j < ByteBits
      BY <1>1, <2>2
    <3>6. <<N, p>> \in New <=> j < ByteBits /\ f[N][j] = 1 /\ p = j
      OBVIOUS
    <3>. QED BY <2>2, <3>3, <3>4, <3>5, <3>6
  <2>3. CASE ~(k \in 1..N /\ p \in 0..(ByteBits - 1))
    <3>1. <<k, p>> \notin BitsAt(f, N, j)
      BY <2>3, BitsAtMember
    <3>2. k \in 1..n => k \in 1..N
      OBVIOUS
    <3>3. <<k, p>> \notin BitsAt(f, n, Below(j))
      BY <2>3, <3>2, BitsAtMember
    <3>4. N \in 1..N /\ (j < ByteBits => j \in 0..(ByteBits - 1))
      BY <1>1
    <3>5. <<k, p>> \notin New
      BY <2>3, <3>4
    <3>. QED BY <3>1, <3>3, <3>5
  <2>4. k \in 1..N => k \in 1..n \/ k = N
    OBVIOUS
  <2>. QED BY <2>1, <2>2, <2>3, <2>4
<1>3. \A x \in BitsAt(f, N, j) : x = <<x[1], x[2]>>
  BY BitsAtPairs
<1>4. \A x \in BitsAt(f, n, Below(j)) : x = <<x[1], x[2]>>
  BY BitsAtPairs
<1>5. \A x \in New : x = <<x[1], x[2]>>
  OBVIOUS
<1>6. BitsAt(f, N, j) \subseteq BitsAt(f, n, Below(j)) \cup New
  BY <1>2, <1>3
<1>7. BitsAt(f, n, Below(j)) \cup New \subseteq BitsAt(f, N, j)
  BY <1>2, <1>4, <1>5
<1>. QED BY <1>6, <1>7

\* So a bit of the sum is that of the place below, xored with one of the byte.
LEMMA BitOfSumNext ==
  ASSUME NEW f, NEW n \in Nat, NEW j \in 0..(Width - 1), NEW N \in Nat, N = n + 1,
         f[N] \in Byte
  PROVE  BitOfSum(f, N, j) =
           IF j < ByteBits THEN Xor(BitOfSum(f, n, Below(j)), f[N][j])
           ELSE BitOfSum(f, n, Below(j))
<1>1. PICK S : S = BitsAt(f, n, Below(j)) /\ IsFiniteSet(S)
  BY BitsAtFinite
<1>2. <<N, j>> \notin S
  <2>1. N \notin 1..n
    OBVIOUS
  <2>. QED BY <1>1, <2>1, BitsAtMember
<1>3. /\ Cardinality(S) % 2 \in Bit
      /\ Cardinality(S \cup {<<N, j>>}) % 2 = Xor(Cardinality(S) % 2, 1)
  BY <1>1, <1>2, Parity
<1>4. CASE j < ByteBits /\ f[N][j] = 1
  <2>1. BitsAt(f, N, j) = S \cup {<<N, j>>}
    BY <1>1, <1>4, BitsAtNext
  <2>. QED BY <1>1, <1>3, <1>4, <2>1 DEF BitOfSum
<1>5. CASE j < ByteBits /\ f[N][j] # 1
  <2>1. BitsAt(f, N, j) =
          S \cup (IF j < ByteBits /\ f[N][j] = 1 THEN {<<N, j>>} ELSE {})
    BY <1>1, BitsAtNext
  <2>2. BitsAt(f, N, j) = S
    BY <1>5, <2>1
  <2>3. f[N][j] = 0
    <3>1. j \in 0..(ByteBits - 1)
      BY <1>5, SumAssumption
    <3>. QED BY <1>5, <3>1 DEF Byte, Bit
  <2>. QED BY <1>1, <1>3, <1>5, <2>2, <2>3 DEF BitOfSum, Bit, Xor
<1>6. CASE ~(j < ByteBits)
  <2>1. BitsAt(f, N, j) =
          S \cup (IF j < ByteBits /\ f[N][j] = 1 THEN {<<N, j>>} ELSE {})
    BY <1>1, BitsAtNext
  <2>2. BitsAt(f, N, j) = S
    BY <1>6, <2>1
  <2>. QED BY <1>1, <1>6, <2>2 DEF BitOfSum
<1>. QED BY <1>4, <1>5, <1>6

-----------------------------------------------------------------------------
\* How many bytes of the file have been added to the sum.
Added == IF phase = "add" THEN (read - Len(buf)) + used ELSE read

\* What is in the buffer are the bytes before the place that fread has
\* reached, and not all of them have been added.
Buffered ==
  /\ buf \in Seq(Byte) /\ used \in Nat
  /\ used < Len(buf) /\ Len(buf) <= read
  /\ \A i \in 1..Len(buf) : buf[i] = file[(read - Len(buf)) + i]

SumType ==
  /\ phase \in {"open", "read", "add", "done"}
  /\ sum \in Checksum
  /\ file = NoFile => phase \in {"open", "done"}
  /\ file # NoFile =>
       /\ file \in Seq(Byte)
       /\ read \in Nat /\ read <= Len(file)
       /\ phase = "open" => read = 0
       /\ phase = "done" => read = Len(file)
       /\ phase = "add" => Buffered

\* So far the sum is that of the bytes that have been added.
SumSoFar ==
  file # NoFile =>
    \A j \in 0..(Width - 1) : sum[j] = BitOfSum(file, Added, j)

SumInv == SumType /\ SumSoFar

LEMMA SumStarts == SumInit => SumInv
<1>. SUFFICES ASSUME SumInit PROVE SumInv
  OBVIOUS
<1>1. sum \in Checksum
  BY DEF SumInit, Zero, Checksum, Bit
<1>2. file # NoFile => file \in Seq(Byte) /\ Len(file) \in Nat
  <2>1. SUFFICES ASSUME file # NoFile PROVE file \in Seq(Byte) /\ Len(file) \in Nat
    OBVIOUS
  <2>2. file \in BoundedSeq(Byte, MaxLen)
    BY <2>1 DEF SumInit
  <2>3. PICK m \in 0..MaxLen : file \in [1..m -> Byte]
    BY <2>2 DEF BoundedSeq, SeqOf
  <2>4. m \in Nat
    BY SumAssumption
  <2>. QED BY <2>3, <2>4
<1>3. SumType
  BY <1>1, <1>2 DEF SumType, SumInit
<1>4. ASSUME NEW j \in 0..(Width - 1) PROVE sum[j] = BitOfSum(file, Added, j)
  <2>1. sum[j] = 0 /\ Added = 0
    BY DEF SumInit, Zero, Added
  <2>2. BitsAt(file, 0, j) = {}
    BY DEF BitsAt
  <2>3. Cardinality({}) = 0 /\ 0 % 2 = 0
    BY FS_EmptySet
  <2>. QED BY <2>1, <2>2, <2>3 DEF BitOfSum
<1>5. SumSoFar
  BY <1>4 DEF SumSoFar
<1>. QED BY <1>3, <1>5 DEF SumInv

LEMMA OpenKeeps ==
  ASSUME SumInv, Open
  PROVE  SumInv'
<1>1. SumType'
  BY DEF SumInv, SumType, Open
<1>2. Added' = Added
  BY DEF Open, Added
<1>3. SumSoFar'
  BY <1>2 DEF SumInv, SumSoFar, Open
<1>. QED BY <1>1, <1>3 DEF SumInv

LEMMA FreadEndsKeeps ==
  ASSUME SumInv, FreadEnds
  PROVE  SumInv'
<1>1. SumType'
  BY DEF SumInv, SumType, FreadEnds
<1>2. Added' = Added
  BY DEF FreadEnds, Added
<1>3. SumSoFar'
  BY <1>2 DEF SumInv, SumSoFar, FreadEnds
<1>. QED BY <1>1, <1>3 DEF SumInv

LEMMA FreadKeeps ==
  ASSUME SumInv, Fread
  PROVE  SumInv'
<1>1. /\ file # NoFile /\ file \in Seq(Byte)
      /\ read \in Nat /\ read <= Len(file)
      /\ sum \in Checksum /\ phase = "read" /\ phase' = "add"
      /\ file' = file /\ sum' = sum /\ used' = 0
  BY DEF SumInv, SumType, Fread
<1>2. PICK r \in Nat, l \in Nat : r = read /\ l = Len(file)
  BY <1>1
<1>3. PICK n \in Nat : /\ n >= 1 /\ r + n <= l
                       /\ buf' = SubSeq(file, r + 1, r + n) /\ read' = r + n
  BY <1>2, SumAssumption DEF Fread
<1>4. /\ buf' \in Seq(Byte) /\ Len(buf') = n
      /\ \A i \in 1..n : buf'[i] = file[r + i]
  <2>1. r + 1 \in 1..(l + 1) /\ r + n \in r..l /\ (r + n) - (r + 1) + 1 = n
    BY <1>3
  <2>2. \A i \in 1..n : r + i \in 1..l /\ (r + 1) + i - 1 = r + i
    BY <1>3
  <2>3. buf' = [i \in 1..n |-> file[r + i]]
    BY <1>1, <1>2, <1>3, <2>1, <2>2
  <2>4. \A i \in 1..n : file[r + i] \in Byte
    BY <1>1, <1>2, <2>2
  <2>. QED BY <2>3, <2>4
<1>5. Buffered'
  <2>1. (r + n) - n = r /\ 0 < n /\ n <= r + n /\ 0 \in Nat
    BY <1>3
  <2>. QED BY <1>1, <1>3, <1>4, <2>1 DEF Buffered
<1>6. SumType'
  <2>1. r + n \in Nat
    OBVIOUS
  <2>. QED BY <1>1, <1>2, <1>3, <1>5, <2>1 DEF SumType
<1>7. Added' = Added
  <2>1. Added = r
    BY <1>1, <1>2 DEF Added
  <2>2. Added' = ((r + n) - n) + 0
    BY <1>1, <1>3, <1>4 DEF Added
  <2>. QED BY <2>1, <2>2
<1>8. SumSoFar'
  BY <1>1, <1>7 DEF SumInv, SumSoFar
<1>. QED BY <1>6, <1>8 DEF SumInv

LEMMA AddKeeps ==
  ASSUME SumInv, Add
  PROVE  SumInv'
<1>1. /\ file # NoFile /\ file \in Seq(Byte)
      /\ read \in Nat /\ read <= Len(file) /\ Buffered
      /\ sum \in Checksum /\ phase = "add"
      /\ file' = file /\ read' = read /\ buf' = buf
      /\ phase' \in {"read", "add"}
  BY DEF SumInv, SumType, Add
<1>2. PICK r \in Nat, l \in Nat, b \in Nat, u \in Nat, before \in Nat :
        /\ r = read /\ l = Len(file) /\ b = Len(buf) /\ u = used
        /\ before = r - b /\ r <= l /\ u < b /\ b <= r
  <2>1. Len(buf) \in Nat /\ Len(file) \in Nat /\ used \in Nat /\ Len(buf) <= read
    BY <1>1 DEF Buffered
  <2>2. read - Len(buf) \in Nat
    BY <1>1, <2>1
  <2>3. used < Len(buf)
    BY <1>1 DEF Buffered
  <2>. QED BY <1>1, <2>1, <2>2, <2>3
<1>3. used' = u + 1 /\ phase' = IF u + 1 = b THEN "read" ELSE "add"
  BY <1>1, <1>2 DEF Add
<1>4. PICK n \in Nat, N \in Nat : n = before + u /\ N = n + 1 /\ N \in 1..l
  <2>1. before + b = r
    BY <1>2
  <2>2. (before + u) + 1 <= l
    BY <1>2, <2>1
  <2>. QED BY <2>2
<1>5. Added = n /\ buf[u + 1] = file[N] /\ file[N] \in Byte
  <2>1. u + 1 \in 1..b /\ before + (u + 1) = N
    BY <1>2, <1>4
  <2>2. buf[u + 1] = file[before + (u + 1)]
    BY <1>1, <1>2, <2>1 DEF Buffered
  <2>3. file[N] \in Byte
    BY <1>1, <1>2, <1>4
  <2>4. Added = n
    BY <1>1, <1>2, <1>4 DEF Added
  <2>. QED BY <2>1, <2>2, <2>3, <2>4
<1>6. Added' = N
  <2>1. CASE u + 1 = b
    <3>1. Added' = r
      BY <1>1, <1>2, <1>3, <2>1 DEF Added
    <3>2. N = r
      BY <1>2, <1>4, <2>1
    <3>. QED BY <3>1, <3>2
  <2>2. CASE u + 1 # b
    <3>1. Added' = before + (u + 1)
      BY <1>1, <1>2, <1>3, <2>2 DEF Added
    <3>. QED BY <1>4, <3>1
  <2>. QED BY <2>1, <2>2
<1>7. ASSUME NEW j \in 0..(Width - 1)
      PROVE  sum'[j] = BitOfSum(file, N, j) /\ sum'[j] \in Bit
  <2>1. Below(j) \in 0..(Width - 1)
    BY SumAssumption DEF Below
  <2>2. PICK s : s = BitOfSum(file, n, Below(j)) /\ s = sum[Below(j)] /\ s \in Bit
    BY <1>1, <1>5, <2>1 DEF SumInv, SumSoFar, Checksum
  <2>3. Rotate(sum)[j] = s
    BY <2>2 DEF Rotate, Below
  <2>4. sum' = XorByte(Rotate(sum), file[N])
    BY <1>2, <1>5 DEF Add, AddByte
  <2>5. sum'[j] = IF j < ByteBits THEN Xor(s, file[N][j]) ELSE s
    BY <2>3, <2>4 DEF XorByte
  <2>6. BitOfSum(file, N, j) = IF j < ByteBits THEN Xor(s, file[N][j]) ELSE s
    BY <1>4, <1>5, <2>2, BitOfSumNext
  <2>7. sum'[j] \in Bit
    BY <2>2, <2>5 DEF Xor, Bit
  <2>. QED BY <2>5, <2>6, <2>7
<1>8. sum' \in Checksum
  <2>1. sum' = [j \in 0..(Width - 1) |-> sum'[j]]
    BY DEF Add, AddByte, XorByte
  <2>. QED BY <1>7, <2>1 DEF Checksum
<1>9. phase' = "add" => Buffered'
  <2>1. SUFFICES ASSUME phase' = "add" PROVE Buffered'
    OBVIOUS
  <2>2. u + 1 < b /\ u + 1 \in Nat
    BY <1>2, <1>3, <2>1
  <2>. QED BY <1>1, <1>2, <1>3, <2>2 DEF Buffered
<1>10. SumType'
  BY <1>1, <1>8, <1>9 DEF SumType
<1>11. SumSoFar'
  BY <1>1, <1>6, <1>7 DEF SumSoFar
<1>. QED BY <1>10, <1>11 DEF SumInv

LEMMA SumKeeps == SumInv /\ [SumNext]_sumVars => SumInv'
<1>. SUFFICES ASSUME SumInv, [SumNext]_sumVars PROVE SumInv'
  OBVIOUS
<1>1. CASE UNCHANGED sumVars
  BY <1>1 DEF sumVars, SumInv, SumType, SumSoFar, Buffered, Added
<1>. QED BY <1>1, OpenKeeps, FreadKeeps, AddKeeps, FreadEndsKeeps DEF SumNext

LEMMA SumInvariant == SumSpec => []SumInv
<1>. QED BY SumStarts, SumKeeps, PTL DEF SumSpec

\* At the end the sum is that of all the bytes of the file.
LEMMA SumEnds ==
  ASSUME SumInv, Summed
  PROVE  /\ file \in Seq(Byte)
         /\ \A j \in 0..(Width - 1) : sum[j] = BitOfSum(file, Len(file), j)
<1>1. file \in Seq(Byte) /\ Added = Len(file)
  BY DEF SumInv, SumType, Summed, Added
<1>. QED BY <1>1 DEF SumInv, SumSoFar, Summed

\* dic_checksum returns the xor of the rotated bytes of the whole file, for
\* every file, every width of the sum and every length of the buffer.
THEOREM ChecksumOfWholeFile == SumSpec => []SumOfWholeFile
<1>1. SumInv => SumOfWholeFile
  BY SumEnds DEF SumOfWholeFile
<1>. QED BY <1>1, SumInvariant, PTL

\* The place of bit p of byte k in the sum of n bytes.
PlaceOf(p, k, n) == (p + (n - k)) % Width

\* Two files of n bytes that differ in byte k only, and there in bit p.
LEMMA BitsAtDiffer ==
  ASSUME NEW n \in Nat, NEW k \in 1..n, NEW p \in 0..(ByteBits - 1),
         NEW f, NEW g, f[k][p] # 1, g[k][p] = 1,
         \A i \in 1..n : i # k => f[i] = g[i],
         NEW j, j = PlaceOf(p, k, n)
  PROVE  /\ <<k, p>> \notin BitsAt(f, n, j)
         /\ BitsAt(g, n, j) = BitsAt(f, n, j) \cup {<<k, p>>}
<1>1. j = (p + (n - k)) % Width
  BY DEF PlaceOf
<1>2. Width \in Nat \ {0} /\ ByteBits \in Nat \ {0} /\ ByteBits <= Width
  BY SumAssumption
<1>3. <<k, p>> \notin BitsAt(f, n, j) /\ <<k, p>> \in BitsAt(g, n, j)
  BY <1>1, BitsAtMember
<1>4. ASSUME NEW i, NEW q, i # k \/ q # p
      PROVE  <<i, q>> \in BitsAt(g, n, j) <=> <<i, q>> \in BitsAt(f, n, j)
  <2>1. CASE i # k
    BY <2>1, BitsAtMember
  <2>2. CASE i = k /\ q # p
    <3>1. ASSUME q \in 0..(ByteBits - 1), (q + (n - k)) % Width = j PROVE FALSE
      <4>1. p \in 0..(Width - 1) /\ q \in 0..(Width - 1)
        BY <1>2, <3>1
      <4>2. PICK c \in Nat : c = n - k
        OBVIOUS
      <4>3. (q + c) % Width = (p + c) % Width
        BY <1>1, <3>1, <4>2
      <4>. QED BY <1>2, <2>2, <4>1, <4>3, SamePlace
    <3>. QED BY <2>2, <3>1, BitsAtMember
  <2>. QED BY <1>4, <2>1, <2>2
<1>5. \A x \in BitsAt(g, n, j) : x = <<x[1], x[2]>>
  BY BitsAtPairs
<1>6. \A x \in BitsAt(f, n, j) : x = <<x[1], x[2]>>
  BY BitsAtPairs
<1>7. BitsAt(g, n, j) \subseteq BitsAt(f, n, j) \cup {<<k, p>>}
  BY <1>4, <1>5
<1>8. BitsAt(f, n, j) \subseteq BitsAt(g, n, j)
  BY <1>3, <1>4, <1>6
<1>. QED BY <1>3, <1>7, <1>8

\* The first n bytes of two files differ at most in byte k.
AlikeBut(f, g, n, k) == \A i \in 1..n : i # k => f[i] = g[i]

LEMMA BitOfSumDiffers ==
  ASSUME NEW n \in Nat, NEW k \in 1..n, NEW p \in 0..(ByteBits - 1),
         NEW f, NEW g, f[k][p] # 1, g[k][p] = 1, AlikeBut(f, g, n, k)
  PROVE  BitOfSum(f, n, PlaceOf(p, k, n)) # BitOfSum(g, n, PlaceOf(p, k, n))
<1>1. PICK j : j = PlaceOf(p, k, n)
  OBVIOUS
<1>2. PICK S : S = BitsAt(f, n, j) /\ IsFiniteSet(S)
  BY BitsAtFinite
<1>3. <<k, p>> \notin S /\ BitsAt(g, n, j) = S \cup {<<k, p>>}
  BY <1>1, <1>2, BitsAtDiffer DEF AlikeBut
<1>4. /\ Cardinality(S) % 2 \in Bit
      /\ Cardinality(S \cup {<<k, p>>}) % 2 = Xor(Cardinality(S) % 2, 1)
  BY <1>2, <1>3, Parity
<1>. QED BY <1>1, <1>2, <1>3, <1>4 DEF BitOfSum, Bit, Xor

\* dic_checksum tells a file from every one that differs from it in a single
\* byte, for every file, however long, and every width of the sum.
THEOREM ChecksumDetectsOneByte == SumSpec => []OneByteDetected
<1>1. ASSUME SumInv PROVE OneByteDetected
  <2>1. SUFFICES ASSUME Summed, NEW y \in 1..Len(file), NEW b \in Byte \ {file[y]}
                 PROVE  \E j \in 0..(Width - 1) :
                          sum[j] # BitOfSum([file EXCEPT ![y] = b], Len(file), j)
    BY DEF OneByteDetected
  <2>2. PICK n \in Nat, f \in Seq(Byte) : f = file /\ n = Len(f) /\ DOMAIN f = 1..n
    BY <1>1, <2>1, SumEnds
  <2>3. PICK k \in 1..n : k = y
    BY <2>2
  <2>4. PICK g : /\ g = [f EXCEPT ![k] = b] /\ g[k] = b
                 /\ \A i \in 1..n : i # k => f[i] = g[i]
    <3>1. k \in DOMAIN f
      BY <2>2
    <3>2. [f EXCEPT ![k] = b] = [i \in DOMAIN f |-> IF i = k THEN b ELSE f[i]]
      OBVIOUS
    <3>. QED BY <2>2, <3>1, <3>2
  <2>5. f[k] \in Byte /\ f[k] # b
    BY <2>2, <2>3
  <2>6. PICK p \in 0..(ByteBits - 1) : f[k][p] # b[p]
    <3>1. /\ f[k] = [i \in 0..(ByteBits - 1) |-> f[k][i]]
          /\ b = [i \in 0..(ByteBits - 1) |-> b[i]]
      BY <2>5 DEF Byte
    <3>. QED BY <2>5, <3>1
  <2>7. f[k][p] \in {0, 1} /\ b[p] \in {0, 1}
    BY <2>5 DEF Byte, Bit
  <2>8. PICK j \in 0..(Width - 1) : j = PlaceOf(p, k, n)
    <3>1. PICK m \in Nat : m = p + (n - k)
      BY <2>2
    <3>2. Width \in Nat \ {0}
      BY SumAssumption
    <3>3. m % Width \in 0..(Width - 1)
      BY <3>2
    <3>. QED BY <3>1, <3>3 DEF PlaceOf
  <2>9. BitOfSum(f, n, j) # BitOfSum(g, n, j)
    <3>1. AlikeBut(f, g, n, k) /\ AlikeBut(g, f, n, k)
      BY <2>4 DEF AlikeBut
    <3>2. CASE f[k][p] # 1
      <4>1. g[k][p] = 1
        BY <2>4, <2>6, <2>7, <3>2
      <4>2. BitOfSum(f, n, PlaceOf(p, k, n)) # BitOfSum(g, n, PlaceOf(p, k, n))
        BY <3>1, <3>2, <4>1, BitOfSumDiffers
      <4>. QED BY <2>8, <4>2
    <3>3. CASE f[k][p] = 1
      <4>1. g[k][p] # 1
        BY <2>4, <2>6, <3>3
      <4>2. BitOfSum(g, n, PlaceOf(p, k, n)) # BitOfSum(f, n, PlaceOf(p, k, n))
        BY <3>1, <3>3, <4>1, BitOfSumDiffers
      <4>. QED BY <2>8, <4>2
    <3>. QED BY <3>2, <3>3
  <2>10. sum[j] = BitOfSum(f, n, j)
    BY <1>1, <2>1, <2>2, SumEnds
  <2>. QED BY <2>2, <2>3, <2>4, <2>9, <2>10
<1>. QED BY <1>1, SumInvariant, PTL

=============================================================================
