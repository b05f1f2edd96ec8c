------------------------------ MODULE Checksum ------------------------------
(***************************************************************************)
(* dic_checksum: the number by which an application can tell whether the   *)
(* shared object on a node is the one it has.  The file is read in pieces  *)
(* of BufLen bytes; for every byte the sum is rotated left by one bit and  *)
(* the byte is xored in.  Numbers are functions from the places of their   *)
(* bits.  Their widths are parameters (64 bits and 8 bits in the code) so  *)
(* that files longer than the sum is wide can be enumerated.               *)
(***************************************************************************)
EXTENDS Integers, FiniteSets, SequencesExt

CONSTANTS
  Width,      \* the bits of dic_checksum_t
  ByteBits,   \* the bits of a byte
  BufLen,     \* the bytes of the buffer
  MaxLen,     \* the longest file
  NoFile      \* in place of a file that fopen cannot open

ASSUME SumAssumption ==
  /\ Width \in Nat /\ ByteBits \in 1..Width
  /\ BufLen \in Nat \ {0} /\ MaxLen \in Nat

Bit == {0, 1}
Byte == [0..(ByteBits - 1) -> Bit]
Checksum == [0..(Width - 1) -> Bit]
Zero == [j \in 0..(Width - 1) |-> 0]

VARIABLES
  file,       \* the bytes of the file
  phase,      \* where dic_checksum is
  read,       \* how many bytes fread has passed on
  buf,        \* the bytes that the last fread has put in the buffer
  used,       \* i: how many of them have been added
  sum

sumVars == <<file, phase, read, buf, used, sum>>

SumInit ==
  /\ file \in BoundedSeq(Byte, MaxLen) \cup {NoFile}
  /\ phase = "open"
  /\ read = 0 /\ buf = << >> /\ used = 0
  /\ sum = Zero

-----------------------------------------------------------------------------
\* Mutant: the bit that is shifted out is lost.
RotateLoses(s) == [j \in 0..(Width - 1) |-> IF j = 0 THEN 0 ELSE s[j - 1]]

\* (sum << 1) | (sum >> 63)
Rotate(s) == [j \in 0..(Width - 1) |-> IF j = 0 THEN s[Width - 1] ELSE s[j - 1]]

Xor(x, y) == IF x = y THEN 0 ELSE 1

\* sum ^= buf[i]: the byte is as wide as the sum, with zeros in front.
XorByte(s, b) ==
  [j \in 0..(Width - 1) |-> IF j < ByteBits THEN Xor(s[j], b[j]) ELSE s[j]]

AddByte(s, b) == XorByte(Rotate(s), b)

\* fopen; without a file the sum is 0.
Open ==
  /\ phase = "open"
  /\ phase' = IF file = NoFile THEN "done" ELSE "read"
  /\ UNCHANGED <<file, read, buf, used, sum>>

\* fread: a full buffer, or what is left.
Fread ==
  /\ phase = "read" /\ read < Len(file)
  /\ \E n \in 1..BufLen :
       /\ n = BufLen \/ read + n = Len(file)
       /\ read + n <= Len(file)
       /\ buf' = SubSeq(file, read + 1, read + n)
       /\ read' = read + n
  /\ used' = 0
  /\ phase' = "add"
  /\ UNCHANGED <<file, sum>>

\* Mutant: the loop ends one byte early.
AddShort ==
  /\ phase = "add"
  /\ sum' = AddByte(sum, buf[used + 1])
  /\ used' = used + 1
  /\ phase' = IF used' >= Len(buf) - 1 THEN "read" ELSE "add"
  /\ UNCHANGED <<file, read, buf>>

\* A round of the inner loop.
Add ==
  /\ phase = "add"
  /\ sum' = AddByte(sum, buf[used + 1])
  /\ used' = used + 1
  /\ phase' = IF used' = Len(buf) THEN "read" ELSE "add"
  /\ UNCHANGED <<file, read, buf>>

\* fread finds the end of the file; the sum is returned.
FreadEnds ==
  /\ phase = "read" /\ read = Len(file)
  /\ phase' = "done"
  /\ UNCHANGED <<file, read, buf, used, sum>>

SumNext == Open \/ Fread \/ Add \/ FreadEnds

SumSpec == SumInit /\ [][SumNext]_sumVars

-----------------------------------------------------------------------------
\* The bits of the first n bytes of a file that meet at place j of the sum:
\* those of byte k have been moved up once for each byte behind it, around
\* the end of the sum.
BitsAt(f, n, j) ==
  {x \in (1..n) \X (0..(ByteBits - 1)) :
     f[x[1]][x[2]] = 1 /\ (x[2] + (n - x[1])) % Width = j}

\* Bits that meet cancel out in pairs.
BitOfSum(f, n, j) == Cardinality(BitsAt(f, n, j)) % 2

Summed == phase = "done" /\ file # NoFile

\* dic_checksum returns the xor of the rotated bytes of the whole file, also
\* when the file does not end with a full buffer or is longer than the sum is
\* wide.
SumOfWholeFile ==
  Summed => \A j \in 0..(Width - 1) : sum[j] = BitOfSum(file, Len(file), j)

\* A file that differs from this one in a single byte has another checksum,
\* wherever the byte is: nothing is ever shifted out of the sum (dic_checksum).
OneByteDetected ==
  Summed =>
    \A k \in 1..Len(file) : \A b \in Byte \ {file[k]} :
      \E j \in 0..(Width - 1) :
        sum[j] # BitOfSum([file EXCEPT ![k] = b], Len(file), j)
=============================================================================
