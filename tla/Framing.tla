------------------------------- MODULE Framing -------------------------------
(***************************************************************************)
(* Messages over a TCP connection, byte by byte.  A message is a head of   *)
(* HeadLen bytes, which says how long the body is, and the body.  The      *)
(* sender hands a message to send(), which passes it on in pieces of any   *)
(* size; the receiver (dic_node_recv_send) reads the head and then the     *)
(* body with tcp_recv_n, which calls recv() until it has n bytes.  The     *)
(* other modules take heads and bodies as units; this one shows why they   *)
(* may.                                                                    *)
(***************************************************************************)
EXTENDS Integers, Sequences, SequencesExt

CONSTANTS
  HeadLen,   \* the bytes of a head
  MaxBody,   \* the longest body
  NumMsgs,   \* how many messages are sent
  Cap,       \* how many bytes the connection holds
  MayBreak   \* whether the connection may break

ASSUME ConstantsAssumption ==
  /\ HeadLen \in Nat \ {0} /\ MaxBody \in Nat /\ NumMsgs \in Nat
  /\ Cap \in Nat \ {0}
  /\ MayBreak \in BOOLEAN

VARIABLES
  size,       \* size[m]: the body_size in the head of message m
  begun,      \* how many messages the sender has begun to send
  out,        \* the bytes that its send() has still to pass on
  wire,       \* the bytes on their way
  link,       \* "up", or "down" once the connection has broken
  step,       \* what the receiver reads: "head", "body"; "failed" in the end
  n,          \* how many bytes it has asked tcp_recv_n for
  buf,        \* the bytes that tcp_recv_n has received
  head,       \* the head of the message that the receiver is reading
  delivered   \* the messages it has passed to the handlers

senderVars == <<size, begun, out>>
receiverVars == <<step, n, buf, head, delivered>>
vars == <<senderVars, wire, link, receiverVars>>

\* A byte is tagged with the message it belongs to and its place there.
Byte == (1..NumMsgs) \X (1..(HeadLen + MaxBody))
Bytes(m) == [k \in 1..(HeadLen + size[m]) |-> <<m, k>>]
HeadBytes(m) == SubSeq(Bytes(m), 1, HeadLen)

TypeOK ==
  /\ size \in [1..NumMsgs -> 0..MaxBody]
  /\ begun \in 0..NumMsgs
  /\ out \in Seq(Byte)
  /\ wire \in Seq(Byte) /\ Len(wire) <= Cap
  /\ link \in {"up", "down"}
  /\ step \in {"head", "body", "failed"}
  /\ n \in 0..(HeadLen + MaxBody)
  /\ buf \in Seq(Byte) /\ Len(buf) <= n
  /\ head \in Seq(Byte)
  /\ delivered \in Seq(Seq(Byte))

Init ==
  /\ size \in [1..NumMsgs -> 0..MaxBody]
  /\ begun = 0 /\ out = << >>
  /\ wire = << >> /\ link = "up"
  /\ step = "head" /\ n = HeadLen /\ buf = << >> /\ head = << >>
  /\ delivered = << >>

-----------------------------------------------------------------------------
\* dic_conn_send of the next message, when the one before has returned.
Send ==
  /\ begun < NumMsgs /\ out = << >>
  /\ begun' = begun + 1
  /\ out' = Bytes(begun + 1)
  /\ UNCHANGED <<size, wire, link, receiverVars>>

\* Some more bytes of the message are on their way.
Transmit ==
  /\ link = "up"
  /\ \E k \in 1..Len(out) :
       /\ Len(wire) + k <= Cap
       /\ wire' = wire \o SubSeq(out, 1, k)
       /\ out' = SubSeq(out, k + 1, Len(out))
  /\ UNCHANGED <<size, begun, link, receiverVars>>

\* send() fails in the middle of a message, or before it; dic_conn_send
\* returns as if nothing had happened.
SendFails ==
  /\ link = "down" /\ out # << >>
  /\ out' = << >>
  /\ UNCHANGED <<size, begun, wire, link, receiverVars>>

\* The connection breaks; of the bytes on their way any number is lost.
Break ==
  /\ MayBreak /\ link = "up"
  /\ link' = "down"
  /\ \E k \in 0..Len(wire) : wire' = SubSeq(wire, 1, k)
  /\ UNCHANGED <<senderVars, receiverVars>>

-----------------------------------------------------------------------------
\* The size in a head.  One that is not a head of a message has any size.
SizesIn(h) ==
  LET heads == {m \in 1..NumMsgs : HeadBytes(m) = h}
  IN  IF heads = {} THEN 0..MaxBody ELSE {size[m] : m \in heads}

\* Mutant: every call of recv() asks for n bytes.
RecvAsksAll ==
  /\ step # "failed" /\ Len(buf) < n
  /\ \E k \in 1..Len(wire) :
       /\ k <= n
       /\ buf' = buf \o SubSeq(wire, 1, k)
       /\ wire' = SubSeq(wire, k + 1, Len(wire))
  /\ UNCHANGED <<senderVars, link, step, n, head, delivered>>

\* recv() gets some of the bytes that have arrived, at most the missing ones.
Recv ==
  /\ step # "failed" /\ Len(buf) < n
  /\ \E k \in 1..Len(wire) :
       /\ k <= n - Len(buf)
       /\ buf' = buf \o SubSeq(wire, 1, k)
       /\ wire' = SubSeq(wire, k + 1, Len(wire))
  /\ UNCHANGED <<senderVars, link, step, n, head, delivered>>

\* Mutant: the loop calls recv() at least once, which gets 0 bytes when it is
\* asked for none.
RecvFailsOnEmpty ==
  /\ step # "failed"
  /\ \/ Len(buf) < n /\ wire = << >> /\ link = "down"
     \/ n = 0
  /\ step' = "failed"
  /\ UNCHANGED <<senderVars, wire, link, n, buf, head, delivered>>

\* recv() fails, so do tcp_recv_n and dic_conn_recv, and the serving loop ends.
RecvFails ==
  /\ step # "failed"
  /\ Len(buf) < n /\ wire = << >> /\ link = "down"
  /\ step' = "failed"
  /\ UNCHANGED <<senderVars, wire, link, n, buf, head, delivered>>

\* The head is complete: ask for a body of the size it gives.
HeadRead ==
  /\ step = "head" /\ Len(buf) >= n
  /\ head' = buf
  /\ n' \in SizesIn(buf)
  /\ buf' = << >>
  /\ step' = "body"
  /\ UNCHANGED <<senderVars, wire, link, delivered>>

\* The body is complete (at once, if it is empty): the message is handled and
\* the loop asks for the next head.
BodyRead ==
  /\ step = "body" /\ Len(buf) >= n
  /\ delivered' = Append(delivered, head \o buf)
  /\ n' = HeadLen
  /\ buf' = << >>
  /\ head' = << >>
  /\ step' = "head"
  /\ UNCHANGED <<senderVars, wire, link>>

Receiver == Recv \/ RecvFails \/ HeadRead \/ BodyRead

Next == Send \/ Transmit \/ SendFails \/ Break \/ Receiver

Spec == Init /\ [][Next]_vars

\* The kernel passes on what it has been given, and the receiver reads on.
Fairness == WF_vars(Transmit) /\ WF_vars(Receiver)

FairSpec == Spec /\ Fairness

-----------------------------------------------------------------------------
\* The handlers get exactly the messages that were sent, whole, in order and
\* each once, however the bytes are cut into pieces and wherever the
\* connection breaks: dic_conn_recv reads "EXACTLY `n` bytes", not fewer and
\* none of the next message.
WholeMessages ==
  IsPrefix(delivered, [m \in 1..begun |-> Bytes(m)])

\* A message whose sending has begun reaches a handler, unless the connection
\* breaks; also when its body is empty (tcp_recv_n).
EveryMessageArrives ==
  \A m \in 1..NumMsgs :
    begun >= m ~> Len(delivered) >= m \/ link = "down"
=============================================================================
