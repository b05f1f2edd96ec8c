--------------------------- MODULE Framing_proofs ---------------------------
(***************************************************************************)
(* Messages arrive whole, for any number of messages of any sizes, cut     *)
(* into pieces anywhere.                                                   *)
(*                                                                         *)
(* The bytes that have been read but not delivered, the ones on their way  *)
(* and, while the connection is up, the ones still to be passed on are one *)
(* stream, which begins where a message begins.  The invariant says of any *)
(* two bytes of it where they are with respect to each other, so that it   *)
(* needs no induction along the stream: a byte tells where its message     *)
(* begins, and from there on the stream is that message, and then the      *)
(* beginning of the next one.                                              *)
(***************************************************************************)
EXTENDS Framing, SequenceTheorems, TLAPS

\* What send() will still pass on.
ToSend == IF link = "up" THEN out ELSE << >>

Stream == (head \o buf) \o (wire \o ToSend)

Length(m) == HeadLen + size[m]

\* The message of the i-th byte begins after place Place(i).
Place(i) == i - Stream[i][2]

\* A byte is one of a message that the sender has begun.
SentInv ==
  \A i \in 1..Len(Stream) :
    Stream[i][1] <= begun /\ Stream[i][2] <= Length(Stream[i][1])

\* The stream begins with the message that is to be delivered next.
StartInv ==
  Len(Stream) > 0 =>
    Stream[1][1] = Len(delivered) + 1 /\ Stream[1][2] = 1

\* Around a byte of a message is the rest of it.
BlockInv ==
  \A i, j \in 1..Len(Stream) :
    Place(i) < j /\ j <= Place(i) + Length(Stream[i][1]) =>
      Stream[j][1] = Stream[i][1] /\ Stream[j][2] = j - Place(i)

\* After a message comes the next one.
OrderInv ==
  \A i, j \in 1..Len(Stream) :
    j = Place(i) + Length(Stream[i][1]) + 1 =>
      Stream[j][1] = Stream[i][1] + 1 /\ Stream[j][2] = 1

\* While the connection is up, the stream ends where the last message ends.
EndInv ==
  link = "up" =>
    IF Len(Stream) = 0 THEN Len(delivered) = begun
    ELSE /\ Stream[Len(Stream)][1] = begun
         /\ Stream[Len(Stream)][2] = Length(begun)

\* tcp_recv_n has been asked for a head, or for the body of that head.
ReadInv ==
  /\ step = "head" => n = HeadLen /\ head = << >>
  /\ step = "body" => /\ Len(head) = HeadLen
                      /\ Len(delivered) < begun
                      /\ n = size[Len(delivered) + 1]
  /\ step = "failed" => link = "down"

\* What has been delivered.
DeliveredInv ==
  /\ Len(delivered) <= begun
  /\ \A m \in 1..Len(delivered) : delivered[m] = Bytes(m)

Inv ==
  /\ TypeOK
  /\ SentInv /\ StartInv /\ BlockInv /\ OrderInv /\ EndInv
  /\ ReadInv
  /\ DeliveredInv

-----------------------------------------------------------------------------
(***************************************************************************)
(* Sequences, and the types.                                               *)
(***************************************************************************)

\* Joining sequences of bytes.
LEMMA JoinBytes ==
  /\ << >> \in Seq(Byte) /\ Len(<< >>) = 0
  /\ \A s \in Seq(Byte) : Len(s) \in Nat /\ s \o << >> = s /\ << >> \o s = s
  /\ \A s, t \in Seq(Byte) : s \o t \in Seq(Byte)
  /\ \A s, t, u \in Seq(Byte) : (s \o t) \o u = s \o (t \o u)
<1>1. << >> \in Seq(Byte) /\ Len(<< >>) = 0
  BY EmptySeq
<1>2. ASSUME NEW s \in Seq(Byte)
      PROVE  Len(s) \in Nat /\ s \o << >> = s /\ << >> \o s = s
  BY LenProperties, ConcatEmptySeq
<1>3. ASSUME NEW s \in Seq(Byte), NEW t \in Seq(Byte) PROVE s \o t \in Seq(Byte)
  BY ConcatProperties
<1>4. ASSUME NEW s \in Seq(Byte), NEW t \in Seq(Byte), NEW u \in Seq(Byte)
      PROVE  (s \o t) \o u = s \o (t \o u)
  BY ConcatAssociative
<1>. QED BY <1>1, <1>2, <1>3, <1>4

\* A piece moved from the front of one sequence to the back of another.
LEMMA MovePiece ==
  ASSUME NEW s \in Seq(Byte), NEW u \in Seq(Byte), NEW k \in 0..Len(u)
  PROVE  /\ SubSeq(u, 1, k) \in Seq(Byte) /\ SubSeq(u, k + 1, Len(u)) \in Seq(Byte)
         /\ Len(SubSeq(u, 1, k)) = k
         /\ SubSeq(u, 1, k) \o SubSeq(u, k + 1, Len(u)) = u
         /\ (s \o SubSeq(u, 1, k)) \o SubSeq(u, k + 1, Len(u)) = s \o u
<1>0. Len(u) \in Nat /\ k \in Nat /\ \A i \in 1..Len(u) : u[i] \in Byte
  BY LenProperties
<1>1. SubSeq(u, 1, k) \in Seq(Byte) /\ Len(SubSeq(u, 1, k)) = k
  <2>1. \A i \in 1..k : u[i] \in Byte
    BY <1>0
  <2>2. Len(SubSeq(u, 1, k)) = IF 1 <= k THEN k - 1 + 1 ELSE 0
    BY <1>0, <2>1, SubSeqProperties
  <2>. QED BY <1>0, <2>1, <2>2, SubSeqProperties
<1>2. SubSeq(u, k + 1, Len(u)) \in Seq(Byte)
  <2>1. \A i \in (k + 1)..Len(u) : u[i] \in Byte
    BY <1>0
  <2>. QED BY <1>0, <2>1, SubSeqProperties
<1>3. SubSeq(u, 1, k) \o SubSeq(u, k + 1, Len(u)) = u
  <2>1. 1 \in 1..Len(u) + 1 /\ k \in (1 - 1)..Len(u) /\ Len(u) \in k..Len(u)
    BY <1>0
  <2>2. SubSeq(u, 1, k) \o SubSeq(u, k + 1, Len(u)) = SubSeq(u, 1, Len(u))
    BY <2>1, ConcatAdjacentSubSeq
  <2>. QED BY <2>2, SubSeqFull
<1>4. PICK v \in Seq(Byte), w \in Seq(Byte) :
        v = SubSeq(u, 1, k) /\ w = SubSeq(u, k + 1, Len(u))
  BY <1>1, <1>2
<1>5. (s \o v) \o w = s \o (v \o w)
  BY JoinBytes
<1>. QED BY <1>1, <1>2, <1>3, <1>4, <1>5

\* The bytes of a message.
LEMMA BytesOfMessage ==
  ASSUME TypeOK, NEW m \in 1..NumMsgs
  PROVE  /\ Bytes(m) \in Seq(Byte)
         /\ Length(m) \in Nat \ {0} /\ Len(Bytes(m)) = Length(m)
         /\ \A i \in 1..Length(m) : /\ Bytes(m)[i] = <<m, i>>
                                    /\ Bytes(m)[i][1] = m /\ Bytes(m)[i][2] = i
<1>1. /\ HeadLen \in Nat \ {0} /\ MaxBody \in Nat /\ size[m] \in 0..MaxBody
      /\ Length(m) \in Nat \ {0} /\ Length(m) <= HeadLen + MaxBody
  BY ConstantsAssumption DEF TypeOK, Length
<1>2. Bytes(m) = [i \in 1..Length(m) |-> <<m, i>>]
  BY DEF Bytes, Length
<1>3. \A i \in 1..Length(m) : <<m, i>> \in Byte
  BY <1>1 DEF Byte
<1>4. Bytes(m) \in [1..Length(m) -> Byte]
  BY <1>2, <1>3
<1>5. Bytes(m) \in Seq(Byte) /\ Len(Bytes(m)) = Length(m)
  BY <1>1, <1>4
<1>. QED BY <1>1, <1>2, <1>5

\* The stream is made of bytes.
LEMMA StreamType ==
  ASSUME TypeOK
  PROVE  /\ ToSend \in Seq(Byte)
         /\ head \o buf \in Seq(Byte) /\ wire \o ToSend \in Seq(Byte)
         /\ Stream \in Seq(Byte) /\ Len(Stream) \in Nat
         /\ \A i \in 1..Len(Stream) :
              /\ Stream[i] \in Byte
              /\ Stream[i][1] \in 1..NumMsgs /\ Stream[i][2] \in Nat \ {0}
              /\ Length(Stream[i][1]) \in Nat \ {0}
              /\ Place(i) \in Int /\ Place(i) < i
         /\ begun \in Nat /\ NumMsgs \in Nat /\ begun <= NumMsgs
         /\ Len(delivered) \in Nat
<1>0. HeadLen \in Nat \ {0} /\ MaxBody \in Nat /\ NumMsgs \in Nat
  BY ConstantsAssumption
<1>1. ToSend \in Seq(Byte)
  BY EmptySeq DEF TypeOK, ToSend
<1>2. head \o buf \in Seq(Byte) /\ wire \o ToSend \in Seq(Byte)
  BY <1>1, ConcatProperties DEF TypeOK
<1>3. Stream \in Seq(Byte) /\ Len(Stream) \in Nat
  BY <1>2, ConcatProperties, LenProperties DEF Stream
<1>4. ASSUME NEW i \in 1..Len(Stream)
      PROVE  /\ Stream[i] \in Byte
             /\ Stream[i][1] \in 1..NumMsgs /\ Stream[i][2] \in Nat \ {0}
             /\ Length(Stream[i][1]) \in Nat \ {0}
             /\ Place(i) \in Int /\ Place(i) < i
  <2>1. Stream[i] \in Byte
    BY <1>3, <1>4, ElementOfSeq
  <2>2. /\ Stream[i][1] \in 1..NumMsgs
        /\ Stream[i][2] \in 1..(HeadLen + MaxBody)
    BY <2>1 DEF Byte
  <2>3. Stream[i][2] \in Nat \ {0}
    BY <1>0, <2>2
  <2>4. Place(i) \in Int /\ Place(i) < i
    BY <1>3, <1>4, <2>3 DEF Place
  <2>. QED BY <2>1, <2>2, <2>3, <2>4, BytesOfMessage
<1>5. /\ begun \in Nat /\ begun <= NumMsgs /\ Len(delivered) \in Nat
  BY <1>0, LenProperties DEF TypeOK
<1>. QED BY <1>0, <1>1, <1>2, <1>3, <1>4, <1>5

\* Every step keeps the types: no more is received than asked for.
LEMMA TypeStep ==
  ASSUME TypeOK, [Next]_vars
  PROVE  TypeOK'
<1>. USE ConstantsAssumption
<1>0. /\ Len(out) \in Nat /\ Len(wire) \in Nat /\ Len(buf) \in Nat
      /\ out \in Seq(Byte) /\ wire \in Seq(Byte) /\ buf \in Seq(Byte)
      /\ head \in Seq(Byte)
  BY LenProperties DEF TypeOK
<1>e. << >> \in Seq(Byte) /\ Len(<< >>) = 0
  BY EmptySeq
<1>1. CASE Send
  <2>1. begun + 1 \in 1..NumMsgs
    BY <1>1 DEF Send, TypeOK
  <2>2. out' \in Seq(Byte) /\ begun' \in 0..NumMsgs
    BY <1>1, <2>1, BytesOfMessage DEF Send
  <2>. QED BY <1>1, <2>2 DEF Send, TypeOK, receiverVars
<1>2. CASE Transmit
  <2>1. PICK k \in 1..Len(out) :
          /\ Len(wire) + k <= Cap
          /\ wire' = wire \o SubSeq(out, 1, k)
          /\ out' = SubSeq(out, k + 1, Len(out))
    BY <1>2 DEF Transmit
  <2>2. /\ SubSeq(out, 1, k) \in Seq(Byte) /\ Len(SubSeq(out, 1, k)) = k
        /\ out' \in Seq(Byte)
    BY <1>0, <2>1, MovePiece
  <2>3. wire' \in Seq(Byte) /\ Len(wire') = Len(wire) + k
    BY <1>0, <2>1, <2>2, ConcatProperties
  <2>. QED BY <1>2, <2>1, <2>2, <2>3 DEF Transmit, TypeOK, receiverVars
<1>3. CASE SendFails
  BY <1>3, <1>e DEF SendFails, TypeOK, receiverVars
<1>4. CASE Break
  <2>1. PICK k \in 0..Len(wire) : wire' = SubSeq(wire, 1, k)
    BY <1>4 DEF Break
  <2>2. wire' \in Seq(Byte) /\ Len(wire') = k
    BY <1>0, <2>1, MovePiece
  <2>3. Len(wire') <= Cap
    BY <1>0, <2>1, <2>2 DEF TypeOK
  <2>. QED BY <1>4, <2>2, <2>3 DEF Break, TypeOK, senderVars, receiverVars
<1>5. CASE Recv
  <2>1. PICK k \in 1..Len(wire) :
          /\ k <= n - Len(buf)
          /\ buf' = buf \o SubSeq(wire, 1, k)
          /\ wire' = SubSeq(wire, k + 1, Len(wire))
    BY <1>5 DEF Recv
  <2>2. /\ SubSeq(wire, 1, k) \in Seq(Byte) /\ Len(SubSeq(wire, 1, k)) = k
        /\ wire' \in Seq(Byte)
    BY <1>0, <2>1, MovePiece
  <2>3. buf' \in Seq(Byte) /\ Len(buf') = Len(buf) + k
    BY <1>0, <2>1, <2>2, ConcatProperties
  <2>4. Len(wire') <= Cap
    <3>1. \A i \in (k + 1)..Len(wire) : wire[i] \in Byte
      BY <1>0, ElementOfSeq
    <3>2. Len(wire') = IF k + 1 <= Len(wire) THEN Len(wire) - (k + 1) + 1 ELSE 0
      BY <1>0, <2>1, <3>1, SubSeqProperties
    <3>. QED BY <1>0, <2>1, <3>2 DEF TypeOK
  <2>5. Len(buf') <= n
    BY <1>0, <2>1, <2>3 DEF TypeOK
  <2>. QED BY <1>5, <2>2, <2>3, <2>4, <2>5 DEF Recv, TypeOK, senderVars
<1>6. CASE RecvFails
  BY <1>6 DEF RecvFails, TypeOK, senderVars
<1>7. CASE HeadRead
  <2>1. SizesIn(buf) \subseteq 0..MaxBody
    BY DEF SizesIn, TypeOK
  <2>2. n' \in 0..(HeadLen + MaxBody) /\ n' \in Nat
    BY <1>7, <2>1 DEF HeadRead
  <2>. QED BY <1>0, <1>7, <1>e, <2>2 DEF HeadRead, TypeOK, senderVars
<1>8. CASE BodyRead
  <2>1. head \o buf \in Seq(Byte)
    BY <1>0, ConcatProperties
  <2>2. delivered' \in Seq(Seq(Byte))
    BY <1>8, <2>1, AppendProperties DEF BodyRead, TypeOK
  <2>3. n' \in 0..(HeadLen + MaxBody) /\ n' \in Nat
    BY <1>8 DEF BodyRead
  <2>. QED BY <1>8, <1>e, <2>2, <2>3 DEF BodyRead, TypeOK, senderVars
<1>9. CASE UNCHANGED vars
  BY <1>9 DEF vars, senderVars, receiverVars, TypeOK
<1>. QED BY <1>1, <1>2, <1>3, <1>4, <1>5, <1>6, <1>7, <1>8, <1>9
         DEF Next, Receiver

-----------------------------------------------------------------------------
(***************************************************************************)
(* What the steps do to the stream.                                        *)
(***************************************************************************)

\* Passing bytes on, and reading them, leaves the stream as it is; so does
\* whatever the sender does when the connection is down.
LEMMA StreamKept ==
  ASSUME TypeOK, TypeOK', ReadInv,
         \/ Transmit \/ SendFails \/ Recv \/ RecvFails \/ HeadRead
         \/ Send /\ link = "down"
         \/ UNCHANGED vars
  PROVE  Stream' = Stream
<1>0. /\ out \in Seq(Byte) /\ wire \in Seq(Byte) /\ buf \in Seq(Byte)
      /\ head \in Seq(Byte) /\ ToSend \in Seq(Byte)
      /\ Len(out) \in Nat /\ Len(wire) \in Nat
  BY StreamType, LenProperties DEF TypeOK
<1>1. CASE Transmit
  <2>1. PICK k \in 1..Len(out) :
          /\ wire' = wire \o SubSeq(out, 1, k)
          /\ out' = SubSeq(out, k + 1, Len(out))
    BY <1>1 DEF Transmit
  <2>2. wire' \o out' = wire \o out
    <3>1. k \in 0..Len(out)
      BY <1>0
    <3>2. (wire \o SubSeq(out, 1, k)) \o SubSeq(out, k + 1, Len(out)) = wire \o out
      BY <1>0, <3>1, MovePiece
    <3>. QED BY <2>1, <3>2
  <2>3. link = "up" /\ UNCHANGED <<link, head, buf>>
    BY <1>1 DEF Transmit, receiverVars
  <2>. QED BY <2>2, <2>3 DEF Stream, ToSend
<1>2. CASE SendFails
  BY <1>2 DEF SendFails, receiverVars, Stream, ToSend
<1>3. CASE Recv
  <2>1. PICK k \in 1..Len(wire) :
          /\ buf' = buf \o SubSeq(wire, 1, k)
          /\ wire' = SubSeq(wire, k + 1, Len(wire))
    BY <1>3 DEF Recv
  <2>2. PICK v \in Seq(Byte), w \in Seq(Byte), u \in Seq(Byte), h \in Seq(Byte),
             b \in Seq(Byte) :
          /\ v = SubSeq(wire, 1, k) /\ w = wire' /\ u = ToSend /\ h = head
          /\ b = buf /\ v \o w = wire
    <3>1. k \in 0..Len(wire)
      BY <1>0
    <3>2. /\ SubSeq(wire, 1, k) \in Seq(Byte) /\ wire' \in Seq(Byte)
          /\ SubSeq(wire, 1, k) \o wire' = wire
      BY <1>0, <2>1, <3>1, MovePiece
    <3>. QED BY <1>0, <3>2
  <2>3. UNCHANGED <<head, ToSend>>
    BY <1>3 DEF Recv, senderVars, ToSend
  <2>4. Stream' = (h \o (b \o v)) \o (w \o u)
    BY <2>1, <2>2, <2>3 DEF Stream
  <2>5. Stream = (h \o b) \o ((v \o w) \o u)
    BY <2>2 DEF Stream
  <2>6. /\ h \o (b \o v) = (h \o b) \o v /\ (v \o w) \o u = v \o (w \o u)
        /\ h \o b \in Seq(Byte) /\ w \o u \in Seq(Byte)
    BY JoinBytes
  <2>7. ((h \o b) \o v) \o (w \o u) = (h \o b) \o (v \o (w \o u))
    BY <2>6, JoinBytes
  <2>. QED BY <2>4, <2>5, <2>6, <2>7
<1>4. CASE RecvFails \/ UNCHANGED vars
  BY <1>4 DEF RecvFails, vars, senderVars, receiverVars, Stream, ToSend
<1>5. CASE HeadRead
  <2>1. /\ head = << >> /\ head' = buf /\ buf' = << >>
        /\ UNCHANGED <<wire, ToSend>>
    BY <1>5 DEF HeadRead, ReadInv, senderVars, ToSend
  <2>2. << >> \o buf = buf /\ buf \o << >> = buf
    BY <1>0, ConcatEmptySeq
  <2>. QED BY <2>1, <2>2 DEF Stream
<1>6. CASE Send /\ link = "down"
  BY <1>6 DEF Send, receiverVars, Stream, ToSend
<1>. QED BY <1>1, <1>2, <1>3, <1>4, <1>5, <1>6

\* A message that is sent is added to the stream.
LEMMA StreamGrows ==
  ASSUME TypeOK, TypeOK', Send, link = "up"
  PROVE  /\ begun' = begun + 1 /\ begun + 1 \in 1..NumMsgs
         /\ Len(Stream') = Len(Stream) + Length(begun + 1)
         /\ \A i \in 1..Len(Stream) : Stream'[i] = Stream[i]
         /\ \A i \in 1..Length(begun + 1) :
              /\ Stream'[Len(Stream) + i][1] = begun + 1
              /\ Stream'[Len(Stream) + i][2] = i
<1>0. /\ begun' = begun + 1 /\ begun + 1 \in 1..NumMsgs
      /\ out = << >> /\ out' = Bytes(begun + 1)
      /\ UNCHANGED <<wire, link, head, buf>>
  BY StreamType DEF Send, receiverVars
<1>1. PICK B \in Seq(Byte) :
        /\ B = Bytes(begun + 1) /\ Len(B) = Length(begun + 1)
        /\ \A i \in 1..Length(begun + 1) : B[i][1] = begun + 1 /\ B[i][2] = i
        /\ Length(begun + 1) \in Nat
  BY <1>0, BytesOfMessage
<1>2. PICK h \in Seq(Byte), w \in Seq(Byte) : h = head \o buf /\ w = wire
  BY StreamType DEF TypeOK
<1>3. Stream' = h \o (w \o B) /\ Stream = h \o (w \o << >>)
  BY <1>0, <1>1, <1>2 DEF Stream, ToSend
<1>4. w \o << >> = w /\ (h \o w) \o B = h \o (w \o B)
  BY ConcatEmptySeq, ConcatAssociative
<1>5. Stream' = Stream \o B /\ Stream \in Seq(Byte) /\ Len(Stream) \in Nat
  BY <1>3, <1>4, StreamType
<1>6. /\ Len(Stream') = Len(Stream) + Len(B)
      /\ \A i \in 1..Len(Stream) + Len(B) :
           Stream'[i] = IF i <= Len(Stream) THEN Stream[i] ELSE B[i - Len(Stream)]
  BY <1>5, ConcatProperties
<1>7. \A i \in 1..Len(Stream) : Stream'[i] = Stream[i]
  BY <1>1, <1>5, <1>6
<1>8. ASSUME NEW i \in 1..Length(begun + 1)
      PROVE  Stream'[Len(Stream) + i] = B[i]
  <2>1. /\ Len(Stream) + i \in 1..Len(Stream) + Len(B)
        /\ ~(Len(Stream) + i <= Len(Stream)) /\ (Len(Stream) + i) - Len(Stream) = i
    BY <1>1, <1>5, <1>8
  <2>. QED BY <1>6, <2>1
<1>. QED BY <1>0, <1>1, <1>6, <1>7, <1>8

\* A connection that breaks cuts the stream.
LEMMA StreamCut ==
  ASSUME TypeOK, TypeOK', Break
  PROVE  /\ Len(Stream') <= Len(Stream)
         /\ \A i \in 1..Len(Stream') : Stream'[i] = Stream[i]
<1>1. PICK k \in 0..Len(wire) : wire' = SubSeq(wire, 1, k)
  BY DEF Break
<1>2. PICK v \in Seq(Byte), w \in Seq(Byte), u \in Seq(Byte), h \in Seq(Byte) :
        v = wire' /\ v \o w = wire /\ u = ToSend /\ h = head \o buf
  <2>1. /\ SubSeq(wire, 1, k) \in Seq(Byte)
        /\ SubSeq(wire, k + 1, Len(wire)) \in Seq(Byte)
        /\ SubSeq(wire, 1, k) \o SubSeq(wire, k + 1, Len(wire)) = wire
    BY MovePiece DEF TypeOK
  <2>. QED BY <1>1, <2>1, StreamType
<1>3. Stream' = h \o (v \o << >>) /\ Stream = h \o ((v \o w) \o u)
  BY <1>2 DEF Break, receiverVars, Stream, ToSend
<1>4. /\ v \o << >> = v /\ (v \o w) \o u = v \o (w \o u)
      /\ w \o u \in Seq(Byte) /\ h \o v \in Seq(Byte)
  BY JoinBytes
<1>5. h \o (v \o (w \o u)) = (h \o v) \o (w \o u)
  <2>1. PICK x \in Seq(Byte) : x = w \o u
    BY <1>4
  <2>2. (h \o v) \o x = h \o (v \o x)
    BY JoinBytes
  <2>. QED BY <2>1, <2>2
<1>6. PICK r \in Seq(Byte), s \in Seq(Byte) :
        s = Stream' /\ Stream = s \o r
  BY <1>3, <1>4, <1>5
<1>7. /\ Len(Stream) = Len(s) + Len(r) /\ Len(s) \in Nat /\ Len(r) \in Nat
      /\ \A i \in 1..Len(s) + Len(r) :
           Stream[i] = IF i <= Len(s) THEN s[i] ELSE r[i - Len(s)]
  BY <1>6, ConcatProperties, LenProperties
<1>. QED BY <1>6, <1>7

\* A message that is delivered was the front of the stream.
LEMMA StreamShrinks ==
  ASSUME TypeOK, TypeOK', BodyRead
  PROVE  /\ Len(Stream) = Len(head \o buf) + Len(Stream')
         /\ \A i \in 1..Len(head \o buf) : Stream[i] = (head \o buf)[i]
         /\ \A i \in 1..Len(Stream') : Stream'[i] = Stream[i + Len(head \o buf)]
<1>1. PICK h \in Seq(Byte), w \in Seq(Byte) : h = head \o buf /\ w = wire \o ToSend
  BY StreamType
<1>2. /\ head' = << >> /\ buf' = << >> /\ UNCHANGED <<wire, ToSend>>
  BY DEF BodyRead, senderVars, ToSend
<1>3. Stream = h \o w /\ Stream' = (<< >> \o << >>) \o w
  BY <1>1, <1>2 DEF Stream
<1>4. << >> \o << >> = << >> /\ << >> \o w = w
  BY EmptySeq, ConcatEmptySeq
<1>5. Stream' = w /\ Len(h) \in Nat /\ Len(w) \in Nat
  BY <1>3, <1>4, LenProperties
<1>6. /\ Len(Stream) = Len(h) + Len(w)
      /\ \A i \in 1..Len(h) + Len(w) :
           Stream[i] = IF i <= Len(h) THEN h[i] ELSE w[i - Len(h)]
  BY <1>3, ConcatProperties
<1>7. \A i \in 1..Len(h) : Stream[i] = h[i]
  BY <1>5, <1>6
<1>8. ASSUME NEW i \in 1..Len(w) PROVE w[i] = Stream[i + Len(h)]
  <2>1. /\ i + Len(h) \in 1..Len(h) + Len(w) /\ ~(i + Len(h) <= Len(h))
        /\ (i + Len(h)) - Len(h) = i
    BY <1>5, <1>8
  <2>. QED BY <1>6, <2>1
<1>. QED BY <1>1, <1>5, <1>6, <1>7, <1>8

-----------------------------------------------------------------------------
(***************************************************************************)
(* The stream stays a row of messages.                                     *)
(***************************************************************************)
FramedInv == SentInv /\ StartInv /\ BlockInv /\ OrderInv

\* The front of the stream is the message to be delivered next.
LEMMA FrontMessage ==
  ASSUME TypeOK, FramedInv, Len(Stream) > 0
  PROVE  /\ Len(delivered) + 1 \in 1..NumMsgs /\ Len(delivered) < begun
         /\ Length(Len(delivered) + 1) \in Nat \ {0}
         /\ Place(1) = 0
         /\ \A i \in 1..Len(Stream) :
              i <= Length(Len(delivered) + 1) => Stream[i] = <<Len(delivered) + 1, i>>
<1>0. 1 \in 1..Len(Stream)
  BY StreamType
<1>1. Stream[1][1] = Len(delivered) + 1 /\ Stream[1][2] = 1
  BY DEF FramedInv, StartInv
<1>2. /\ Len(delivered) + 1 \in 1..NumMsgs
      /\ Length(Len(delivered) + 1) \in Nat \ {0}
      /\ Len(delivered) + 1 <= begun
  BY <1>0, <1>1, StreamType DEF FramedInv, SentInv
<1>3. Place(1) = 0 /\ Len(delivered) < begun
  BY <1>1, <1>2, StreamType DEF Place
<1>4. ASSUME NEW i \in 1..Len(Stream), i <= Length(Len(delivered) + 1)
      PROVE  Stream[i] = <<Len(delivered) + 1, i>>
  <2>1. Place(1) < i /\ i <= Place(1) + Length(Stream[1][1]) /\ i - Place(1) = i
    BY <1>1, <1>2, <1>3, <1>4, StreamType
  <2>2. Stream[i][1] = Len(delivered) + 1 /\ Stream[i][2] = i
    BY <1>0, <1>1, <1>4, <2>1 DEF FramedInv, BlockInv
  <2>3. Stream[i] \in Byte
    BY StreamType
  <2>. QED BY <2>2, <2>3 DEF Byte
<1>. QED BY <1>2, <1>3, <1>4

\* A row of messages that is cut remains one.
LEMMA FramedCut ==
  ASSUME TypeOK, TypeOK', FramedInv, UNCHANGED <<size, delivered>>,
         begun' >= begun, Len(Stream') <= Len(Stream),
         \A i \in 1..Len(Stream') : Stream'[i] = Stream[i]
  PROVE  FramedInv'
<1>0. /\ Len(Stream) \in Nat /\ begun \in Nat /\ begun' \in Nat
      /\ begun <= begun'
      /\ \A i \in 1..Len(Stream) : Stream[i][1] \in Nat
  <2>1. begun' \in 0..NumMsgs
    BY DEF TypeOK
  <2>2. \A i \in 1..Len(Stream) : Stream[i][1] \in 1..NumMsgs
    BY StreamType
  <2>3. Len(Stream) \in Nat /\ begun \in Nat /\ NumMsgs \in Nat
    BY StreamType
  <2>. QED BY <2>1, <2>2, <2>3
<1>1. Len(Stream') \in Nat
  <2>1. Stream' \in Seq(Byte)
    <3>1. ToSend' \in Seq(Byte)
      BY EmptySeq DEF TypeOK, ToSend
    <3>. QED BY <3>1, JoinBytes DEF TypeOK, Stream
  <2>. QED BY <2>1, LenProperties
<1>2. \A i \in 1..Len(Stream') :
        i \in 1..Len(Stream) /\ Place(i)' = Place(i)
  BY <1>0, <1>1 DEF Place
<1>4. SentInv'
  <2>1. ASSUME NEW i \in 1..Len(Stream')
        PROVE  Stream'[i][1] <= begun' /\ Stream'[i][2] <= HeadLen + size'[Stream'[i][1]]
    <3>1. Stream[i][1] <= begun /\ Stream[i][2] <= HeadLen + size[Stream[i][1]]
      BY <1>2, <2>1 DEF FramedInv, SentInv, Length
    <3>2. Stream[i][1] <= begun'
      BY <1>0, <1>2, <2>1, <3>1
    <3>. QED BY <2>1, <3>1, <3>2
  <2>. QED BY <2>1 DEF SentInv, Length
<1>5. StartInv'
  <2>1. Len(Stream') > 0 => Len(Stream) > 0 /\ 1 \in 1..Len(Stream')
    BY <1>0, <1>1
  <2>. QED BY <2>1 DEF FramedInv, StartInv
<1>6. BlockInv'
  BY <1>2 DEF FramedInv, BlockInv, Length
<1>7. OrderInv'
  BY <1>2 DEF FramedInv, OrderInv, Length
<1>. QED BY <1>4, <1>5, <1>6, <1>7 DEF FramedInv

\* A message is added where the last one ends.
LEMMA FramedGrows ==
  ASSUME TypeOK, TypeOK', FramedInv, EndInv, Send, link = "up"
  PROVE  FramedInv' /\ EndInv'
<1>1. PICK N \in Nat, b \in Nat, L \in Nat \ {0} :
        N = Len(Stream) /\ b = begun /\ L = Length(b + 1)
  BY StreamType, StreamGrows, BytesOfMessage
<1>2. /\ begun' = b + 1 /\ b + 1 \in 1..NumMsgs
      /\ Len(Stream') = N + L
      /\ \A i \in 1..N : Stream'[i] = Stream[i]
      /\ \A i \in 1..L : Stream'[N + i][1] = b + 1 /\ Stream'[N + i][2] = i
  BY <1>1, StreamGrows
<1>3. UNCHANGED <<size, delivered, link>>
  BY DEF Send, receiverVars
<1>4. \A i \in 1..(N + L) :
        \/ i \in 1..N /\ Stream'[i] = Stream[i] /\ Place(i)' = Place(i)
        \/ /\ i > N /\ Stream'[i][1] = b + 1 /\ Stream'[i][2] = i - N
           /\ Place(i)' = N
  <2>1. ASSUME NEW i \in 1..(N + L), ~(i \in 1..N)
        PROVE  /\ i > N /\ Stream'[i][1] = b + 1 /\ Stream'[i][2] = i - N
               /\ Place(i)' = N
    <3>1. i > N /\ i - N \in 1..L /\ N + (i - N) = i
      BY <1>1, <2>1
    <3>2. Stream'[i][1] = b + 1 /\ Stream'[i][2] = i - N
      BY <1>2, <3>1
    <3>3. i - (i - N) = N
      BY <1>1
    <3>. QED BY <3>1, <3>2, <3>3 DEF Place
  <2>. QED BY <1>2, <2>1 DEF Place
<1>5. ASSUME NEW i \in 1..N
      PROVE  /\ Place(i) + Length(Stream[i][1]) <= N
             /\ Place(i) + Length(Stream[i][1]) = N => Stream[i][1] = b
  <2>0. /\ N \in 1..N /\ Place(i) \in Int /\ Place(i) < i /\ i <= N
        /\ Length(Stream[i][1]) \in Nat \ {0}
    BY <1>1, <1>5, StreamType
  <2>1. Stream[N][1] = b /\ Stream[N][2] = Length(b)
    BY <1>1, <2>0 DEF EndInv
  <2>2. ASSUME N <= Place(i) + Length(Stream[i][1])
        PROVE  Stream[i][1] = b /\ Place(i) + Length(Stream[i][1]) = N
    <3>1. Place(i) < N
      BY <2>0
    <3>2. Stream[N][1] = Stream[i][1] /\ Stream[N][2] = N - Place(i)
      BY <1>1, <2>0, <2>2, <3>1 DEF FramedInv, BlockInv
    <3>3. Length(Stream[i][1]) = N - Place(i)
      BY <2>1, <3>2
    <3>. QED BY <2>0, <2>1, <3>2, <3>3
  <2>. QED BY <1>1, <2>0, <2>2
<1>6. SentInv'
  <2>1. ASSUME NEW i \in 1..(N + L)
        PROVE  Stream'[i][1] <= b + 1 /\ Stream'[i][2] <= Length(Stream'[i][1])
    <3>1. CASE i \in 1..N
      <4>1. Stream[i][1] <= b /\ Stream[i][2] <= Length(Stream[i][1])
        BY <1>1, <3>1 DEF FramedInv, SentInv
      <4>2. Stream[i][1] \in Nat
        <5>1. i \in 1..Len(Stream)
          BY <1>1, <3>1
        <5>2. Stream[i][1] \in 1..NumMsgs
          BY <5>1, StreamType
        <5>. QED BY <5>2
      <4>3. Stream[i][1] <= b + 1
        BY <4>1, <4>2
      <4>. QED BY <1>2, <3>1, <4>1, <4>3
    <3>2. CASE ~(i \in 1..N)
      <4>1. Stream'[i][1] = b + 1 /\ Stream'[i][2] = i - N
        BY <1>4, <3>2
      <4>2. i - N <= L /\ b + 1 <= b + 1
        BY <1>1, <2>1
      <4>. QED BY <1>1, <4>1, <4>2
    <3>. QED BY <3>1, <3>2
  <2>. QED BY <1>2, <1>3, <2>1 DEF SentInv, Length
<1>7. StartInv'
  <2>1. CASE N = 0
    <3>1. Len(delivered) = b
      BY <1>1, <2>1 DEF EndInv
    <3>2. N + 1 = 1 /\ 1 \in 1..L
      BY <1>1, <2>1
    <3>. QED BY <1>2, <1>3, <3>1, <3>2 DEF StartInv
  <2>2. CASE N # 0
    <3>1. 1 \in 1..N /\ N > 0
      BY <1>1, <2>2
    <3>. QED BY <1>1, <1>2, <1>3, <3>1 DEF FramedInv, StartInv
  <2>. QED BY <2>1, <2>2
<1>8. ASSUME NEW i \in 1..(N + L), NEW j \in 1..(N + L)
      PROVE  /\ Place(i)' < j /\ j <= Place(i)' + Length(Stream'[i][1]) =>
                  Stream'[j][1] = Stream'[i][1] /\ Stream'[j][2] = j - Place(i)'
             /\ j = Place(i)' + Length(Stream'[i][1]) + 1 =>
                  Stream'[j][1] = Stream'[i][1] + 1 /\ Stream'[j][2] = 1
  <2>1. CASE i \in 1..N
    <3>0. /\ Stream'[i] = Stream[i] /\ Place(i)' = Place(i)
          /\ Place(i) \in Int /\ Length(Stream[i][1]) \in Nat
      <4>1. Stream'[i] = Stream[i]
        BY <1>2, <2>1
      <4>2. i \in 1..Len(Stream)
        BY <1>1, <2>1
      <4>3. Place(i) \in Int /\ Length(Stream[i][1]) \in Nat
        BY <4>2, StreamType
      <4>. QED BY <4>1, <4>3 DEF Place
    <3>1. CASE j \in 1..N
      <4>1. Stream'[j] = Stream[j]
        BY <1>2, <3>1
      <4>. QED BY <1>1, <2>1, <3>0, <3>1, <4>1 DEF FramedInv, BlockInv, OrderInv
    <3>2. CASE ~(j \in 1..N)
      <4>1. j > N /\ Stream'[j][1] = b + 1 /\ Stream'[j][2] = j - N
        BY <1>4, <3>2
      <4>2. PICK q \in Int : q = Place(i) + Length(Stream[i][1])
        BY <3>0
      <4>3. q <= N /\ (q = N => Stream[i][1] = b)
        BY <1>5, <2>1, <4>2
      <4>4. ~(j <= q) /\ (j = q + 1 => q = N /\ j - N = 1)
        BY <1>1, <4>1, <4>3
      <4>. QED BY <3>0, <4>1, <4>2, <4>3, <4>4
    <3>. QED BY <3>1, <3>2
  <2>2. CASE ~(i \in 1..N)
    <3>1. Stream'[i][1] = b + 1 /\ Place(i)' = N
      BY <1>4, <2>2
    <3>2. j <= N + L /\ j # N + L + 1
      BY <1>1, <1>8
    <3>3. N < j => Stream'[j][1] = b + 1 /\ Stream'[j][2] = j - N
      BY <1>1, <1>4, <1>8
    <3>. QED BY <1>1, <3>1, <3>2, <3>3
  <2>. QED BY <2>1, <2>2
<1>9. BlockInv' /\ OrderInv'
  BY <1>2, <1>3, <1>8 DEF BlockInv, OrderInv, Length
<1>10. EndInv'
  <2>1. L \in 1..L /\ N + L # 0
    BY <1>1
  <2>2. Stream'[N + L][1] = b + 1 /\ Stream'[N + L][2] = L
    BY <1>2, <2>1
  <2>. QED BY <1>1, <1>2, <1>3, <2>1, <2>2 DEF EndInv, Length
<1>. QED BY <1>6, <1>7, <1>9, <1>10 DEF FramedInv

\* A message that is delivered leaves the next one at the front.
LEMMA FramedShrinks ==
  ASSUME Inv, TypeOK', BodyRead
  PROVE  FramedInv' /\ EndInv' /\ DeliveredInv'
<1>0. TypeOK /\ FramedInv /\ EndInv /\ ReadInv /\ DeliveredInv
  BY DEF Inv, FramedInv
<1>1. /\ step = "body" /\ Len(buf) >= n
      /\ delivered' = Append(delivered, head \o buf)
      /\ UNCHANGED <<size, begun, link>>
  BY DEF BodyRead, senderVars
<1>2. PICK d \in Nat, N \in Nat, L \in Nat \ {0} :
        /\ d = Len(delivered) /\ N = Len(Stream) /\ L = Length(d + 1)
        /\ d < begun /\ d + 1 \in 1..NumMsgs
  <2>1. Len(delivered) < begun
    BY <1>0, <1>1 DEF ReadInv
  <2>2. Len(delivered) + 1 \in 1..NumMsgs
    BY <1>0, <2>1, StreamType
  <2>3. Length(Len(delivered) + 1) \in Nat \ {0}
    BY <1>0, <2>2, BytesOfMessage
  <2>4. Len(delivered) \in Nat /\ Len(Stream) \in Nat
    BY <1>0, StreamType
  <2>. QED BY <2>1, <2>2, <2>3, <2>4
<1>3. head \o buf \in Seq(Byte) /\ Len(head \o buf) = L
  <2>1. Len(head) = HeadLen /\ n = size[d + 1]
    BY <1>0, <1>1, <1>2 DEF ReadInv
  <2>2. /\ head \in Seq(Byte) /\ buf \in Seq(Byte) /\ Len(buf) <= n
        /\ size[d + 1] \in Nat /\ HeadLen \in Nat
    BY <1>0, <1>2, ConstantsAssumption DEF TypeOK
  <2>3. Len(head) \in Nat /\ Len(buf) \in Nat
    BY <2>2, LenProperties
  <2>4. Len(buf) = size[d + 1]
    BY <1>1, <2>1, <2>2, <2>3
  <2>5. head \o buf \in Seq(Byte) /\ Len(head \o buf) = Len(head) + Len(buf)
    BY <2>2, ConcatProperties
  <2>. QED BY <1>2, <2>1, <2>4, <2>5 DEF Length
<1>4. PICK M \in Nat :
        /\ M = Len(Stream') /\ N = L + M
        /\ \A i \in 1..L : Stream[i] = (head \o buf)[i]
        /\ \A i \in 1..M : Stream'[i] = Stream[i + L]
  <2>1. Len(Stream') \in Nat
    <3>1. Stream' \in Seq(Byte)
      <4>1. ToSend' \in Seq(Byte)
        BY EmptySeq DEF TypeOK, ToSend
      <4>. QED BY <4>1, JoinBytes DEF TypeOK, Stream
    <3>. QED BY <3>1, LenProperties
  <2>. QED BY <1>0, <1>2, <1>3, <2>1, StreamShrinks
<1>5. /\ Place(1) = 0 /\ 1 \in 1..N /\ Stream[1][1] = d + 1
      /\ \A i \in 1..L : i \in 1..N /\ Stream[i] = <<d + 1, i>>
  <2>1. N > 0 /\ 1 \in 1..N /\ 1 \in 1..L /\ \A i \in 1..L : i \in 1..N /\ i <= L
    BY <1>2, <1>4
  <2>2. Place(1) = 0 /\ \A i \in 1..L : Stream[i] = <<d + 1, i>>
    BY <1>0, <1>2, <2>1, FrontMessage
  <2>3. Stream[1][1] = d + 1
    BY <2>1, <2>2
  <2>. QED BY <2>1, <2>2, <2>3
<1>6. DeliveredInv'
  <2>1. PICK B \in Seq(Byte) : /\ B = Bytes(d + 1) /\ Len(B) = L
                               /\ \A i \in 1..L : B[i] = <<d + 1, i>>
    BY <1>0, <1>2, BytesOfMessage
  <2>2. PICK h \in Seq(Byte) : h = head \o buf
    BY <1>3
  <2>3. Len(h) = Len(B) /\ \A i \in 1..Len(h) : h[i] = B[i]
    BY <1>3, <1>4, <1>5, <2>1, <2>2
  <2>4. h = B
    BY <2>3, SeqEqual
  <2>5. delivered \in Seq(Seq(Byte)) /\ h \in Seq(Byte)
    BY <1>0 DEF TypeOK
  <2>6. /\ Len(delivered') = d + 1
        /\ \A m \in 1..d : delivered'[m] = delivered[m]
        /\ delivered'[d + 1] = h
    BY <1>1, <1>2, <2>2, <2>5, AppendProperties
  <2>7. \A m : Bytes(m)' = Bytes(m)
    BY <1>1 DEF Bytes
  <2>8. ASSUME NEW m \in 1..(d + 1) PROVE delivered'[m] = Bytes(m)
    <3>1. CASE m = d + 1
      BY <2>1, <2>4, <2>6, <3>1
    <3>2. CASE m # d + 1
      <4>1. m \in 1..d
        BY <1>2, <2>8, <3>2
      <4>. QED BY <1>0, <1>2, <2>6, <4>1 DEF DeliveredInv
    <3>. QED BY <3>1, <3>2
  <2>9. d + 1 <= begun
    BY <1>0, <1>2, StreamType
  <2>. QED BY <1>1, <2>6, <2>7, <2>8, <2>9 DEF DeliveredInv
<1>7. Len(delivered') = d + 1
  <2>1. delivered \in Seq(Seq(Byte))
    BY <1>0 DEF TypeOK
  <2>. QED BY <1>1, <1>2, <1>3, <2>1, AppendProperties
<1>8. \A i \in 1..M :
        /\ i + L \in 1..N /\ Stream'[i] = Stream[i + L]
        /\ Place(i)' = Place(i + L) - L
        /\ Place(i + L) \in Int /\ Length(Stream[i + L][1]) \in Nat
        /\ Stream[i + L][2] \in Nat
  <2>1. ASSUME NEW i \in 1..M
        PROVE  /\ i + L \in 1..N /\ Stream'[i] = Stream[i + L]
               /\ Place(i)' = Place(i + L) - L
               /\ Place(i + L) \in Int /\ Length(Stream[i + L][1]) \in Nat
               /\ Stream[i + L][2] \in Nat
    <3>1. i + L \in 1..N
      BY <1>2, <1>4, <2>1
    <3>2. i + L \in 1..Len(Stream)
      BY <1>2, <3>1
    <3>3. /\ Place(i + L) \in Int /\ Length(Stream[i + L][1]) \in Nat
          /\ Stream[i + L][2] \in Nat
      BY <1>0, <3>2, StreamType
    <3>4. Stream'[i] = Stream[i + L]
      BY <1>4, <2>1
    <3>5. PICK k \in Nat : k = Stream[i + L][2]
      BY <3>3
    <3>6. Place(i)' = i - k /\ Place(i + L) = (i + L) - k
      BY <3>4, <3>5 DEF Place
    <3>7. i - k = ((i + L) - k) - L
      BY <1>2, <2>1, <3>5
    <3>. QED BY <3>1, <3>3, <3>4, <3>6, <3>7
  <2>. QED BY <2>1
<1>9. SentInv'
  <2>1. \A i \in 1..M : Stream'[i][1] <= begun /\ Stream'[i][2] <= Length(Stream'[i][1])
    BY <1>0, <1>2, <1>8 DEF FramedInv, SentInv
  <2>. QED BY <1>1, <1>4, <2>1 DEF SentInv, Length
<1>10. StartInv'
  <2>1. ASSUME M > 0 PROVE Stream'[1][1] = (d + 1) + 1 /\ Stream'[1][2] = 1
    <3>1. 1 \in 1..M
      BY <1>4, <2>1
    <3>2. 1 + L \in 1..N /\ Stream'[1] = Stream[1 + L]
      BY <1>8, <3>1
    <3>3. 1 + L = Place(1) + Length(Stream[1][1]) + 1
      BY <1>2, <1>5
    <3>. QED BY <1>0, <1>2, <1>5, <3>2, <3>3 DEF FramedInv, OrderInv
  <2>. QED BY <1>4, <1>7, <2>1 DEF StartInv
<1>11. ASSUME NEW i \in 1..M, NEW j \in 1..M
       PROVE  /\ Place(i)' < j /\ j <= Place(i)' + Length(Stream'[i][1]) =>
                   Stream'[j][1] = Stream'[i][1] /\ Stream'[j][2] = j - Place(i)'
              /\ j = Place(i)' + Length(Stream'[i][1]) + 1 =>
                   Stream'[j][1] = Stream'[i][1] + 1 /\ Stream'[j][2] = 1
  <2>1. /\ i + L \in 1..Len(Stream) /\ j + L \in 1..Len(Stream)
        /\ Stream'[i] = Stream[i + L] /\ Stream'[j] = Stream[j + L]
        /\ Place(i)' = Place(i + L) - L
    BY <1>2, <1>8, <1>11
  <2>2. PICK o \in Int, q \in Nat :
          o = Place(i + L) /\ q = Length(Stream[i + L][1])
    BY <1>8, <1>11
  <2>3. /\ o < j + L /\ j + L <= o + q =>
             Stream[j + L][1] = Stream[i + L][1] /\ Stream[j + L][2] = (j + L) - o
        /\ j + L = o + q + 1 =>
             Stream[j + L][1] = Stream[i + L][1] + 1 /\ Stream[j + L][2] = 1
    BY <1>0, <2>1, <2>2 DEF FramedInv, BlockInv, OrderInv
  <2>4. /\ o - L < j <=> o < j + L
        /\ j <= (o - L) + q <=> j + L <= o + q
        /\ j = (o - L) + q + 1 <=> j + L = o + q + 1
        /\ (j + L) - o = j - (o - L)
    <3>1. PICK a \in Int, c \in Int : a = j /\ c = L
      BY <1>2, <1>4, <1>11
    <3>2. /\ o - c < a <=> o < a + c
          /\ a <= (o - c) + q <=> a + c <= o + q
          /\ a = (o - c) + q + 1 <=> a + c = o + q + 1
          /\ (a + c) - o = a - (o - c)
      BY <2>2
    <3>. QED BY <3>1, <3>2
  <2>. QED BY <2>1, <2>2, <2>3, <2>4
<1>12. BlockInv' /\ OrderInv'
  BY <1>1, <1>4, <1>11 DEF BlockInv, OrderInv, Length
<1>13. EndInv'
  <2>1. ASSUME link = "up" PROVE Stream[N][1] = begun /\ Stream[N][2] = Length(begun)
    <3>1. N # 0
      BY <1>2, <1>4
    <3>. QED BY <1>0, <1>2, <2>1, <3>1 DEF EndInv
  <2>2. ASSUME link = "up", M = 0 PROVE d + 1 = begun
    <3>1. N = L /\ N \in 1..L
      BY <1>2, <1>4, <2>2
    <3>2. Stream[N] = <<d + 1, N>>
      BY <1>5, <3>1
    <3>. QED BY <2>1, <2>2, <3>2
  <2>3. ASSUME link = "up", M # 0
        PROVE  Stream'[M][1] = begun /\ Stream'[M][2] = Length(begun)
    <3>1. M \in 1..M /\ M + L = N
      BY <1>2, <1>4, <2>3
    <3>. QED BY <1>4, <2>1, <2>3, <3>1
  <2>. QED BY <1>1, <1>4, <1>7, <2>2, <2>3 DEF EndInv, Length
<1>. QED BY <1>6, <1>9, <1>10, <1>12, <1>13 DEF FramedInv

-----------------------------------------------------------------------------
(***************************************************************************)
(* The theorems.                                                           *)
(***************************************************************************)

\* A head that has been read completely is the head of the message to be
\* delivered next, and no other message begins like this.
LEMMA HeadOfNext ==
  ASSUME Inv, step = "head", Len(buf) >= n
  PROVE  /\ Len(buf) = HeadLen /\ Len(delivered) < begun
         /\ SizesIn(buf) = {size[Len(delivered) + 1]}
<1>0. TypeOK /\ FramedInv /\ ReadInv
  BY DEF Inv, FramedInv
<1>1. PICK H \in Nat \ {0} : H = HeadLen
  BY ConstantsAssumption
<1>2. PICK b \in Seq(Byte) : b = buf /\ Len(b) = H
  <2>1. buf \in Seq(Byte) /\ Len(buf) <= n /\ n = HeadLen /\ Len(buf) \in Nat
    BY <1>0, LenProperties DEF TypeOK, ReadInv
  <2>. QED BY <1>1, <2>1
<1>3. /\ Len(Stream) >= H /\ Len(Stream) \in Nat
      /\ \A i \in 1..H : i \in 1..Len(Stream) /\ Stream[i] = b[i]
  <2>1. PICK w \in Seq(Byte) : w = wire \o ToSend
    BY <1>0, StreamType
  <2>2. head = << >> /\ << >> \o b = b
    BY <1>0, JoinBytes DEF ReadInv
  <2>3. Stream = b \o w
    BY <1>2, <2>1, <2>2 DEF Stream
  <2>4. /\ Len(Stream) = Len(b) + Len(w) /\ Len(w) \in Nat
        /\ \A i \in 1..Len(b) + Len(w) :
             Stream[i] = IF i <= Len(b) THEN b[i] ELSE w[i - Len(b)]
    BY <2>3, ConcatProperties, LenProperties
  <2>. QED BY <1>1, <1>2, <2>4
<1>4. PICK d \in Nat : /\ d = Len(delivered) /\ d + 1 \in 1..NumMsgs /\ d < begun
                       /\ \A i \in 1..H : b[i] = <<d + 1, i>>
  <2>1. Len(Stream) > 0
    BY <1>1, <1>3
  <2>2. /\ Len(delivered) \in Nat /\ Len(delivered) + 1 \in 1..NumMsgs
        /\ Len(delivered) < begun
        /\ \A i \in 1..Len(Stream) :
             i <= Length(Len(delivered) + 1) => Stream[i] = <<Len(delivered) + 1, i>>
    BY <1>0, <2>1, FrontMessage, StreamType
  <2>3. Length(Len(delivered) + 1) >= H
    <3>1. /\ size[Len(delivered) + 1] \in Nat
          /\ Length(Len(delivered) + 1) = H + size[Len(delivered) + 1]
      BY <1>0, <1>1, <2>2, ConstantsAssumption DEF Length, TypeOK
    <3>. QED BY <1>1, <3>1
  <2>4. \A i \in 1..H : i <= Length(Len(delivered) + 1)
    BY <1>0, <1>1, <2>2, <2>3, BytesOfMessage
  <2>. QED BY <1>3, <2>2, <2>4
<1>5. ASSUME NEW m \in 1..NumMsgs
      PROVE  /\ HeadBytes(m) \in Seq(Byte) /\ Len(HeadBytes(m)) = H
             /\ \A i \in 1..H : HeadBytes(m)[i] = <<m, i>>
  <2>1. PICK B \in Seq(Byte) :
          /\ B = Bytes(m) /\ Len(B) = Length(m)
          /\ \A i \in 1..Length(m) : B[i] = <<m, i>>
    BY <1>0, BytesOfMessage
  <2>2. \A i \in 1..H : i \in 1..Length(m)
    <3>1. size[m] \in Nat /\ Length(m) = H + size[m]
      BY <1>0, <1>1, ConstantsAssumption DEF Length, TypeOK
    <3>. QED BY <1>1, <3>1
  <2>3. \A i \in 1..H : B[i] \in Byte
    BY <2>1, <2>2, ElementOfSeq
  <2>4. /\ SubSeq(B, 1, H) \in Seq(Byte)
        /\ Len(SubSeq(B, 1, H)) = IF 1 <= H THEN H - 1 + 1 ELSE 0
        /\ \A i \in 1..(H - 1 + 1) : SubSeq(B, 1, H)[i] = B[1 + i - 1]
    BY <1>1, <2>3, SubSeqProperties
  <2>5. /\ Len(SubSeq(B, 1, H)) = H
        /\ \A i \in 1..H : SubSeq(B, 1, H)[i] = B[i]
    <3>1. H - 1 + 1 = H /\ 1 <= H /\ \A i \in 1..H : 1 + i - 1 = i
      BY <1>1
    <3>. QED BY <2>4, <3>1
  <2>. QED BY <1>1, <2>1, <2>2, <2>4, <2>5 DEF HeadBytes
<1>6. HeadBytes(d + 1) = buf
  <2>1. PICK h \in Seq(Byte) : h = HeadBytes(d + 1)
    BY <1>4, <1>5
  <2>2. Len(h) = Len(b) /\ \A i \in 1..Len(h) : h[i] = b[i]
    BY <1>2, <1>4, <1>5, <2>1
  <2>3. h = b
    BY <2>2, SeqEqual
  <2>. QED BY <1>2, <2>1, <2>3
<1>7. ASSUME NEW m \in 1..NumMsgs, HeadBytes(m) = buf PROVE m = d + 1
  <2>1. 1 \in 1..H
    BY <1>1
  <2>2. <<m, 1>> = <<d + 1, 1>>
    BY <1>2, <1>4, <1>5, <1>7, <2>1
  <2>. QED BY <2>2
<1>8. {m \in 1..NumMsgs : HeadBytes(m) = buf} = {d + 1}
  BY <1>4, <1>6, <1>7
<1>9. SizesIn(buf) = {size[d + 1]}
  BY <1>8 DEF SizesIn
<1>. QED BY <1>1, <1>2, <1>4, <1>9

\* The inductive invariant holds, however send() and recv() cut the bytes.
THEOREM Invariance == Spec => []Inv
<1>1. Init => Inv
  <2>. SUFFICES ASSUME Init PROVE Inv
    OBVIOUS
  <2>. USE ConstantsAssumption
  <2>0. << >> \in Seq(Byte) /\ << >> \in Seq(Seq(Byte)) /\ Len(<< >>) = 0
    BY EmptySeq
  <2>1. TypeOK
    BY <2>0 DEF Init, TypeOK
  <2>2. Stream = << >> /\ Len(Stream) = 0
    <3>1. << >> \o << >> = << >>
      BY JoinBytes
    <3>. QED BY <2>0, <3>1 DEF Init, Stream, ToSend
  <2>3. SentInv /\ BlockInv /\ OrderInv
    <3>1. \A i \in 1..Len(Stream) : FALSE
      BY <2>2
    <3>. QED BY <3>1 DEF SentInv, BlockInv, OrderInv
  <2>4. StartInv /\ EndInv
    BY <2>0, <2>2 DEF Init, StartInv, EndInv
  <2>5. ReadInv
    BY DEF Init, ReadInv
  <2>6. DeliveredInv
    BY <2>0 DEF Init, DeliveredInv
  <2>. QED BY <2>1, <2>3, <2>4, <2>5, <2>6 DEF Inv
<1>2. Inv /\ [Next]_vars => Inv'
  <2>. SUFFICES ASSUME Inv, [Next]_vars PROVE Inv'
    OBVIOUS
  <2>0. TypeOK /\ FramedInv /\ EndInv /\ ReadInv /\ DeliveredInv
    BY DEF Inv, FramedInv
  <2>1. TypeOK'
    BY <2>0, TypeStep
  <2>i. TypeOK' /\ FramedInv' /\ EndInv' /\ ReadInv' /\ DeliveredInv' => Inv'
    BY DEF Inv, FramedInv
  <2>n. Len(delivered) \in Nat /\ begun \in Nat
    BY <2>0, StreamType
  <2>2. ASSUME Stream' = Stream, UNCHANGED <<size, begun, link, delivered>>, ReadInv'
        PROVE  Inv'
    <3>1. FramedInv'
      BY <2>0, <2>1, <2>2, <2>n, StreamType, FramedCut
    <3>2. EndInv' /\ DeliveredInv'
      BY <2>0, <2>2 DEF EndInv, DeliveredInv, Length, Bytes
    <3>. QED BY <2>1, <2>2, <2>i, <3>1, <3>2
  <2>3. ASSUME begun' = begun \/ begun' = begun + 1,
               UNCHANGED <<size, delivered, step, n, head>>
        PROVE  DeliveredInv' /\ (step = "failed" => link' = "down") => ReadInv'
    BY <2>0, <2>3, <2>n DEF ReadInv
  <2>4. CASE Send
    <3>1. /\ begun' = begun + 1 /\ UNCHANGED <<size, delivered, step, n, head, link>>
      BY <2>4 DEF Send, receiverVars
    <3>2. DeliveredInv'
      BY <2>0, <2>n, <3>1 DEF DeliveredInv, Bytes
    <3>3. ReadInv'
      BY <2>0, <2>3, <3>1, <3>2 DEF ReadInv
    <3>4. CASE link = "up"
      BY <2>0, <2>1, <2>4, <2>i, <3>2, <3>3, <3>4, FramedGrows
    <3>5. CASE link = "down"
      <4>1. Stream' = Stream
        BY <2>0, <2>1, <2>4, <3>5, StreamKept
      <4>2. FramedInv'
        BY <2>0, <2>1, <2>n, <3>1, <4>1, StreamType, FramedCut
      <4>3. EndInv'
        BY <3>1, <3>5 DEF EndInv
      <4>. QED BY <2>1, <2>i, <3>2, <3>3, <4>2, <4>3
    <3>. QED BY <2>0, <3>4, <3>5 DEF TypeOK
  <2>5. CASE Transmit
    <3>1. Stream' = Stream
      BY <2>0, <2>1, <2>5, StreamKept
    <3>2. UNCHANGED <<size, begun, link, delivered, step, n, head>>
      BY <2>5 DEF Transmit, receiverVars
    <3>3. ReadInv'
      BY <2>0, <3>2 DEF ReadInv
    <3>. QED BY <2>2, <3>1, <3>2, <3>3
  <2>6. CASE SendFails
    <3>1. Stream' = Stream
      BY <2>0, <2>1, <2>6, StreamKept
    <3>2. UNCHANGED <<size, begun, link, delivered, step, n, head>>
      BY <2>6 DEF SendFails, receiverVars
    <3>3. ReadInv'
      BY <2>0, <3>2 DEF ReadInv
    <3>. QED BY <2>2, <3>1, <3>2, <3>3
  <2>7. CASE Break
    <3>1. /\ UNCHANGED <<size, begun, delivered, step, n, head>>
          /\ link' = "down"
      BY <2>7 DEF Break, senderVars, receiverVars
    <3>2. FramedInv'
      BY <2>0, <2>1, <2>7, <2>n, <3>1, StreamCut, FramedCut
    <3>3. EndInv' /\ ReadInv' /\ DeliveredInv'
      BY <2>0, <3>1 DEF EndInv, ReadInv, DeliveredInv, Bytes
    <3>. QED BY <2>1, <2>i, <3>2, <3>3
  <2>8. CASE Recv
    <3>1. Stream' = Stream
      BY <2>0, <2>1, <2>8, StreamKept
    <3>2. UNCHANGED <<size, begun, link, delivered, step, n, head>>
      BY <2>8 DEF Recv, senderVars
    <3>3. ReadInv'
      BY <2>0, <3>2 DEF ReadInv
    <3>. QED BY <2>2, <3>1, <3>2, <3>3
  <2>9. CASE RecvFails
    <3>1. Stream' = Stream
      BY <2>0, <2>1, <2>9, StreamKept
    <3>2. /\ UNCHANGED <<size, begun, link, delivered>>
          /\ step' = "failed" /\ link = "down"
      BY <2>9 DEF RecvFails, senderVars
    <3>3. ReadInv'
      BY <3>2 DEF ReadInv
    <3>. QED BY <2>2, <3>1, <3>2, <3>3
  <2>10. CASE HeadRead
    <3>1. Stream' = Stream
      BY <2>0, <2>1, <2>10, StreamKept
    <3>2. /\ UNCHANGED <<size, begun, link, delivered>>
          /\ step = "head" /\ step' = "body" /\ Len(buf) >= n
          /\ head' = buf /\ n' \in SizesIn(buf)
      BY <2>10 DEF HeadRead, senderVars
    <3>3. ReadInv'
      BY <3>2, HeadOfNext DEF ReadInv
    <3>. QED BY <2>2, <3>1, <3>2, <3>3
  <2>11. CASE BodyRead
    <3>1. step' = "head" /\ n' = HeadLen /\ head' = << >>
      BY <2>11 DEF BodyRead
    <3>2. ReadInv'
      BY <3>1 DEF ReadInv
    <3>. QED BY <2>1, <2>11, <2>i, <3>2, FramedShrinks
  <2>12. CASE UNCHANGED vars
    <3>1. Stream' = Stream
      BY <2>0, <2>1, <2>12, StreamKept
    <3>2. UNCHANGED <<size, begun, link, delivered, step, n, head>>
      BY <2>12 DEF vars, senderVars, receiverVars
    <3>3. ReadInv'
      BY <2>0, <3>2 DEF ReadInv
    <3>. QED BY <2>2, <3>1, <3>2, <3>3
  <2>. QED BY <2>4, <2>5, <2>6, <2>7, <2>8, <2>9, <2>10, <2>11, <2>12
           DEF Next, Receiver
<1>. QED BY <1>1, <1>2, PTL DEF Spec

\* The types; among them, that tcp_recv_n never holds more bytes than it was
\* asked for, and the connection no more than its capacity.
THEOREM TypeCorrectness == Spec => []TypeOK
<1>1. Inv => TypeOK
  BY DEF Inv
<1>. QED BY <1>1, Invariance, PTL

\* Any number of messages of any sizes are delivered whole, in order and once,
\* wherever send() and recv() cut them and wherever the connection breaks.
THEOREM MessagesWhole == Spec => []WholeMessages
<1>1. Inv => WholeMessages
  <2>. SUFFICES ASSUME Inv PROVE WholeMessages
    OBVIOUS
  <2>0. TypeOK /\ DeliveredInv
    BY DEF Inv
  <2>1. PICK d \in Nat, b \in Nat, D \in Seq(Seq(Byte)) :
          d = Len(delivered) /\ b = begun /\ D = delivered
    BY <2>0, StreamType DEF TypeOK
  <2>2. PICK T : T = [m \in 1..begun |-> Bytes(m)]
    OBVIOUS
  <2>3. T \in Seq(Seq(Byte)) /\ Len(T) = b /\ \A m \in 1..b : T[m] = Bytes(m)
    <3>1. \A m \in 1..b : m \in 1..NumMsgs
      BY <2>0, <2>1, StreamType
    <3>2. \A m \in 1..b : Bytes(m) \in Seq(Byte)
      BY <2>0, <3>1, BytesOfMessage
    <3>3. T \in [1..b -> Seq(Byte)]
      BY <2>1, <2>2, <3>2
    <3>. QED BY <2>1, <2>2, <3>3
  <2>4. d <= b /\ \A m \in 1..d : D[m] = Bytes(m)
    BY <2>0, <2>1 DEF DeliveredInv
  <2>5. \A m \in 1..d : D[m] \in Seq(Byte) /\ T[m] \in Seq(Byte) /\ D[m] = T[m]
    <3>1. \A m \in 1..d : m \in 1..b /\ m \in 1..Len(D) /\ m \in 1..Len(T)
      BY <2>1, <2>3, <2>4
    <3>. QED BY <2>1, <2>3, <2>4, <3>1, ElementOfSeq
  <2>6. /\ SubSeq(D, 1, d) \in Seq(Seq(Byte)) /\ SubSeq(T, 1, d) \in Seq(Seq(Byte))
        /\ Len(SubSeq(D, 1, d)) = Len(SubSeq(T, 1, d))
        /\ \A m \in 1..(d - 1 + 1) : /\ SubSeq(D, 1, d)[m] = D[1 + m - 1]
                                     /\ SubSeq(T, 1, d)[m] = T[1 + m - 1]
        /\ Len(SubSeq(D, 1, d)) = IF 1 <= d THEN d - 1 + 1 ELSE 0
    BY <2>1, <2>5, SubSeqProperties
  <2>7. \A m \in 1..Len(SubSeq(D, 1, d)) : SubSeq(D, 1, d)[m] = SubSeq(T, 1, d)[m]
    <3>1. /\ Len(SubSeq(D, 1, d)) = d /\ d - 1 + 1 = d
          /\ \A m \in 1..d : 1 + m - 1 = m
      BY <2>1, <2>6
    <3>. QED BY <2>5, <2>6, <3>1
  <2>8. SubSeq(D, 1, d) = SubSeq(T, 1, d)
    BY <2>6, <2>7, SeqEqual
  <2>. QED BY <2>1, <2>2, <2>3, <2>4, <2>8 DEF WholeMessages, IsPrefix
<1>. QED BY <1>1, Invariance, PTL

=============================================================================
