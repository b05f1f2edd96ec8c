\* Ranges of one to sixteen numbers on at most four cores, arrays that grow by
\* two elements.  A sum of three bits, bytes of two; the longest file is two
\* bytes longer than the sum is wide and fills two buffers and a half.
CONSTANTS
  RangeStart = 2
  MaxEnd = 17
  MaxCores = 4
  Grow = 2
  Width = 3
  ByteBits = 2
  BufLen = 2
  MaxLen = 5
  NoFile = NoFile
SPECIFICATION Spec
INVARIANT EveryPrimeOnce
INVARIANT WritesInBounds
INVARIANT SumOfWholeFile
INVARIANT OneByteDetected
\* A computation ends.
CHECK_DEADLOCK FALSE
