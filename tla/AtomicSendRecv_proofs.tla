----------------------- MODULE AtomicSendRecv_proofs -----------------------
(***************************************************************************)
(* For any number of threads, buffer sizes and ids: the types, that a      *)
(* thread only ever reads the response to its own call, that the node only *)
(* executes whole requests, and that the protocol implements RemoteCalls.  *)
(*                                                                         *)
(* The argument: cut the connection open and lay everything that is in     *)
(* flight in a row, the stream to the client, the message the node works   *)
(* on, the stream to the node.  The node only moves parts along this row.  *)
(* The row is exactly what the owner of recv_mut has yet to read followed  *)
(* by what the owner of send_mut has sent so far, so the owner of recv_mut *)
(* finds its own response at the front.  A break cuts off the end of the   *)
(* row.                                                                    *)
(*                                                                         *)
(* After a break the callers go on without the row, so the half of it that *)
(* the node has yet to answer gets an invariant of its own (WireInv):      *)
(* whole messages, one per thread, executed exactly when they are on the   *)
(* way back.  With it every call is executed at most once (ExecInv), which *)
(* is what the refinement of RemoteCalls rests on.                         *)
(***************************************************************************)
EXTENDS AtomicSendRecv, SequenceTheorems, TLAPS

Senders == {"send", "sending", "lock_recv", "unlock_send"}
Receivers == {"unlock_send", "recv_head", "recv_body", "unlock_recv"}

\* The mutexes are owned by the threads that are between lock and unlock.
MutexInv ==
  \A t \in Threads : /\ sendMut = t <=> pc[t] \in Senders
                     /\ recvMut = t <=> pc[t] \in Receivers

\* What the owner of recv_mut has yet to read, what the owner of send_mut has
\* sent, and the two in a row.
Unread(t) == IF pc[t] \in {"unlock_send", "recv_head"} THEN Msg(t)
             ELSE IF pc[t] = "recv_body" THEN <<BodyPart(t)>>
             ELSE << >>
Sent(t) == IF pc[t] = "sending" THEN <<HeadPart(t)>>
           ELSE IF pc[t] = "lock_recv" THEN Msg(t)
           ELSE << >>
Front == IF recvMut = None THEN << >> ELSE Unread(recvMut)
Back == IF sendMut = None THEN << >> ELSE Sent(sendMut)

\* What has reached the client is a prefix of what is expected, and while the
\* connection is up nothing of the rest is missing.
StreamInv ==
  \E rest \in Seq(Part) :
    /\ toClient \o rest = Front \o Back
    /\ link = "up" => rest = inHand \o toNode

\* The node holds a head, then a head and a body, then what is left to send.
NodeInv ==
  /\ nodePc \in {"recv_head", "accept", "dead"} => inHand = << >>
  /\ nodePc = "recv_body" => Len(inHand) = 1
  /\ nodePc = "handle" => Len(inHand) = 2
  /\ nodePc = "send" => Len(inHand) \in {1, 2}

\* A thread has read the parts its pc says, unless the stream has ended.
BufInv ==
  \A t \in Threads :
    /\ buf[t] \in {<< >>, <<HeadPart(t)>>, Msg(t)}
    /\ pc[t] \notin {"idle", "recv_body", "unlock_recv"} => buf[t] = << >>
    /\ pc[t] = "recv_body" =>
         buf[t] = <<HeadPart(t)>> \/ (link = "down" /\ toClient = << >>)
    /\ pc[t] = "unlock_recv" =>
         buf[t] = Msg(t) \/ (link = "down" /\ toClient = << >>)

SockInv == sockfd = "closed" => link = "down" /\ toClient = << >>

Inv ==
  /\ TypeOK
  /\ MutexInv
  /\ StreamInv
  /\ NodeInv
  /\ BufInv
  /\ SockInv

-----------------------------------------------------------------------------
(***************************************************************************)
(* Sequences.                                                              *)
(***************************************************************************)

\* Concatenation under a name of its own: the provers instantiate a lemma
\* about Row(s, r), but not one about s \o r.
Row(s, r) == s \o r

\* The pieces of a row can be grouped in any way.
LEMMA RowAssociative ==
  ASSUME NEW S, NEW s \in Seq(S), NEW r \in Seq(S), NEW u \in Seq(S)
  PROVE  Row(Row(s, r), u) = Row(s, Row(r, u))
BY ConcatAssociative DEF Row

\* The same for a row that grows by one part.
LEMMA RowGrows ==
  ASSUME NEW S, NEW s \in Seq(S), NEW r \in Seq(S), NEW e \in S
  PROVE  (s \o r) \o <<e>> = s \o (r \o <<e>>)
<1>1. PICK u : u = <<e>>
  OBVIOUS
<1>2. u \in Seq(S)
  BY <1>1
<1>3. Row(Row(s, r), u) = Row(s, Row(r, u))
  BY <1>2, RowAssociative
<1>. QED BY <1>1, <1>3 DEF Row

\* A sequence is its head followed by its tail.
LEMMA HeadThenTail ==
  ASSUME NEW S, NEW s \in Seq(S), s # << >>
  PROVE  /\ Head(s) \in S
         /\ Tail(s) \in Seq(S)
         /\ <<Head(s)>> \in Seq(S)
         /\ s = <<Head(s)>> \o Tail(s)
<1>1. /\ Len(s) \in Nat \ {0}
      /\ Tail(s) \in Seq(S)
      /\ Head(s) \in S
      /\ Len(Tail(s)) = Len(s) - 1
      /\ \A i \in 1 .. Len(Tail(s)) : Tail(s)[i] = s[i+1]
  BY HeadTailProperties, EmptySeq, LenProperties
<1>2. Head(s) = s[1]
  BY <1>1
<1>3. <<Head(s)>> \in Seq(S) /\ Len(<<Head(s)>>) = 1 /\ <<Head(s)>>[1] = Head(s)
  BY <1>1
<1>4. /\ <<Head(s)>> \o Tail(s) \in Seq(S)
      /\ Len(<<Head(s)>> \o Tail(s)) = 1 + Len(Tail(s))
      /\ \A i \in 1 .. 1 + Len(Tail(s)) : (<<Head(s)>> \o Tail(s))[i] =
                   IF i <= 1 THEN <<Head(s)>>[i] ELSE Tail(s)[i - 1]
  BY <1>1, <1>3, ConcatProperties
<1>5. \A i \in 1 .. Len(s) : s[i] = (<<Head(s)>> \o Tail(s))[i]
  BY <1>1, <1>2, <1>3, <1>4
<1>6. s = <<Head(s)>> \o Tail(s)
  BY <1>1, <1>4, <1>5, SeqEqual
<1>. QED BY <1>1, <1>3, <1>6

\* What has a length other than zero is not empty.
LEMMA EmptyLength == \A s : s = << >> => Len(s) = 0
OBVIOUS

\* The first element of a row is at the head of its first piece.
LEMMA ConsumeRow ==
  ASSUME NEW S, NEW s \in Seq(S), NEW r \in Seq(S), NEW u \in Seq(S),
         NEW e \in S, s # << >>, Row(s, r) = Row(<<e>>, u)
  PROVE  Head(s) = e /\ Row(Tail(s), r) = u
<1>1. /\ Head(s) \in S
      /\ Tail(s) \in Seq(S)
      /\ <<Head(s)>> \in Seq(S)
      /\ s = <<Head(s)>> \o Tail(s)
  BY HeadThenTail
<1>2. <<e>> \in Seq(S)
  OBVIOUS
<1>3. <<Head(s)>> \o (Tail(s) \o r) = <<e>> \o u
  <2>1. PICK h \in Seq(S), t \in Seq(S) :
          h = <<Head(s)>> /\ t = Tail(s) /\ s = h \o t
    BY <1>1
  <2>2. Row(Row(h, t), r) = Row(h, Row(t, r))
    BY RowAssociative
  <2>. QED BY <2>1, <2>2 DEF Row
<1>4. Tail(s) \o r \in Seq(S)
  BY <1>1, ConcatProperties
<1>5. Head(s) = e
  <2>1. (<<Head(s)>> \o (Tail(s) \o r))[1] = Head(s)
    BY <1>1, <1>4, ConcatProperties, LenProperties
  <2>2. (<<e>> \o u)[1] = e
    BY <1>2, ConcatProperties, LenProperties
  <2>. QED BY <1>3, <2>1, <2>2
<1>6. Tail(s) \o r = u
  BY <1>2, <1>3, <1>4, <1>5, ConcatSimplifications
<1>. QED BY <1>5, <1>6 DEF Row

\* Moving the first element of the second piece to the first leaves the row
\* as it is.
LEMMA MoveAlongRow ==
  ASSUME NEW S, NEW s \in Seq(S), NEW u \in Seq(S), u # << >>
  PROVE  Append(s, Head(u)) \o Tail(u) = s \o u
<1>1. /\ Head(u) \in S
      /\ Tail(u) \in Seq(S)
      /\ <<Head(u)>> \in Seq(S)
      /\ u = <<Head(u)>> \o Tail(u)
  BY HeadThenTail
<1>2. Append(s, Head(u)) = s \o <<Head(u)>>
  BY <1>1, AppendIsConcat
<1>. QED BY <1>1, <1>2, ConcatAssociative

\* A row can be cut in two anywhere.
LEMMA CutRow ==
  ASSUME NEW S, NEW s \in Seq(S), NEW n \in 0..Len(s)
  PROVE  /\ SubSeq(s, 1, n) \in Seq(S)
         /\ \E r \in Seq(S) : SubSeq(s, 1, n) \o r = s
<1>1. Len(s) \in Nat /\ \A i \in 1..Len(s) : s[i] \in S
  BY LenProperties, ElementOfSeq
<1>2. SubSeq(s, 1, n) \in Seq(S) /\ SubSeq(s, n + 1, Len(s)) \in Seq(S)
  BY <1>1, SubSeqProperties
<1>3. SubSeq(s, 1, n) \o SubSeq(s, n + 1, Len(s)) = SubSeq(s, 1, Len(s))
  <2>1. /\ 1 \in 1 .. Len(s) + 1
        /\ n \in 1 - 1 .. Len(s)
        /\ Len(s) \in n .. Len(s)
    BY <1>1
  <2>. QED BY <2>1, ConcatAdjacentSubSeq
<1>. QED BY <1>2, <1>3, SubSeqFull

-----------------------------------------------------------------------------
(***************************************************************************)
(* Types, and the parts that do not speak of the streams.                  *)
(***************************************************************************)

\* The parts of a message are parts.
LEMMA MsgType ==
  ASSUME TypeOK, NEW t \in Threads
  PROVE  HeadPart(t) \in Part /\ BodyPart(t) \in Part /\ Msg(t) \in Seq(Part)
<1>1. HeadPart(t) \in Part /\ BodyPart(t) \in Part
  BY DEF TypeOK, HeadPart, BodyPart, Part
<1>. QED BY <1>1 DEF Msg

\* Every step keeps the types.  The node's lengths are needed because it
\* looks into the message it holds.
LEMMA TypeStep == TypeOK /\ NodeInv /\ [Next]_vars => TypeOK'
<1>. SUFFICES ASSUME TypeOK, NodeInv, [Next]_vars PROVE TypeOK'
  OBVIOUS
<1>. USE ConstantsAssumption
<1>1. ASSUME NEW t \in Threads, Begin(t) PROVE TypeOK'
  <2>1. (call[t] + 1) % NumIds \in 0..NumIds /\ Unsent \in 0..NumIds
    BY DEF TypeOK, Unsent
  <2>2. call' \in [Threads -> 0..NumIds]
    BY <1>1, <2>1 DEF TypeOK, Begin
  <2>3. buf' \in [Threads -> Seq(Part)]
    BY <1>1, EmptySeq DEF TypeOK, Begin
  <2>. QED BY <1>1, <2>2, <2>3 DEF TypeOK, Begin, GoTo
<1>2. ASSUME NEW t \in Threads, LockSend(t) PROVE TypeOK'
  BY <1>2 DEF TypeOK, LockSend, GoTo, nodeVars
<1>3. ASSUME NEW t \in Threads, SendHead(t) PROVE TypeOK'
  <2>1. toNode' \in Seq(Part)
    <3>1. HeadPart(t) \in Part
      BY MsgType
    <3>2. Append(toNode, HeadPart(t)) \in Seq(Part)
      BY <3>1, AppendProperties DEF TypeOK
    <3>. QED BY <1>3, <3>2 DEF TypeOK, SendHead, Transmit
  <2>. QED BY <1>3, <2>1 DEF TypeOK, SendHead, GoTo, nodeVars
<1>4. ASSUME NEW t \in Threads, SendBody(t) PROVE TypeOK'
  <2>1. toNode' \in Seq(Part)
    <3>1. BodyPart(t) \in Part
      BY MsgType
    <3>2. Append(toNode, BodyPart(t)) \in Seq(Part)
      BY <3>1, AppendProperties DEF TypeOK
    <3>. QED BY <1>4, <3>2 DEF TypeOK, SendBody, Transmit
  <2>. QED BY <1>4, <2>1 DEF TypeOK, SendBody, GoTo, nodeVars
<1>5. ASSUME NEW t \in Threads, SendKills(t) PROVE TypeOK'
  BY <1>5 DEF TypeOK, SendKills, nodeVars
<1>6. ASSUME NEW t \in Threads, LockRecv(t) PROVE TypeOK'
  BY <1>6 DEF TypeOK, LockRecv, GoTo, nodeVars
<1>7. ASSUME NEW t \in Threads, UnlockSend(t) PROVE TypeOK'
  BY <1>7 DEF TypeOK, UnlockSend, GoTo, nodeVars
<1>8. ASSUME NEW t \in Threads, RecvHead(t) \/ RecvBody(t) PROVE TypeOK'
  <2>1. ConnRecv(t)
    BY <1>8 DEF RecvHead, RecvBody
  <2>2. sockfd' \in {"open", "closed"}
    BY <2>1 DEF TypeOK, ConnRecv
  <2>3. buf' \in [Threads -> Seq(Part)] /\ toClient' \in Seq(Part)
    <3>1. CASE toClient # << >>
      <4>1. Head(toClient) \in Part /\ Tail(toClient) \in Seq(Part)
        BY <3>1, HeadTailProperties DEF TypeOK
      <4>2. Append(buf[t], Head(toClient)) \in Seq(Part)
        BY <4>1, AppendProperties DEF TypeOK
      <4>. QED BY <2>1, <4>1, <4>2 DEF TypeOK, ConnRecv
    <3>2. CASE toClient = << >>
      BY <2>1, <3>2 DEF TypeOK, ConnRecv
    <3>. QED BY <3>1, <3>2
  <2>. QED BY <1>8, <2>2, <2>3 DEF TypeOK, RecvHead, RecvBody, GoTo, nodeVars
<1>9. ASSUME NEW t \in Threads, UnlockRecv(t) PROVE TypeOK'
  BY <1>9 DEF TypeOK, UnlockRecv, GoTo, nodeVars
<1>10. ASSUME NodeRecvHead \/ NodeRecvBody PROVE TypeOK'
  <2>1. toNode # << >>
    BY <1>10 DEF NodeRecvHead, NodeRecvBody, NodeTakes
  <2>2. Head(toNode) \in Part /\ Tail(toNode) \in Seq(Part)
    BY <2>1, HeadTailProperties DEF TypeOK
  <2>3. Append(inHand, Head(toNode)) \in Seq(Part)
    BY <2>2, AppendProperties DEF TypeOK
  <2>. QED BY <1>10, <2>2, <2>3
           DEF TypeOK, NodeRecvHead, NodeRecvBody, NodeTakes, clientVars
<1>11. ASSUME NodeHandle PROVE TypeOK'
  <2>1. Len(inHand) = 2
    BY <1>11 DEF NodeHandle, NodeInv
  <2>2. inHand[1].by \in Threads
    <3>1. inHand[1] \in Part
      <4>1. inHand \in Seq(Part) /\ 1 \in 1..Len(inHand)
        BY <2>1 DEF TypeOK
      <4>. QED BY <4>1, ElementOfSeq
    <3>. QED BY <3>1 DEF Part
  <2>3. execs' \in [Threads -> Nat]
    BY <1>11, <2>2 DEF TypeOK, NodeHandle
  <2>. QED BY <1>11, <2>3 DEF TypeOK, NodeHandle, clientVars
<1>12. ASSUME NodeSend PROVE TypeOK'
  <2>1. inHand # << >>
    BY <1>12, EmptySeq DEF NodeSend, NodeInv
  <2>2. Head(inHand) \in Part /\ Tail(inHand) \in Seq(Part)
    BY <2>1, HeadTailProperties DEF TypeOK
  <2>3. Append(toClient, Head(inHand)) \in Seq(Part)
    BY <2>2, AppendProperties DEF TypeOK
  <2>. QED BY <1>12, <2>2, <2>3 DEF TypeOK, NodeSend, clientVars
<1>13. ASSUME NodeDisconnect \/ NodeSendKills PROVE TypeOK'
  <2>1. << >> \in Seq(Part)
    BY EmptySeq
  <2>. QED BY <1>13, <2>1 DEF TypeOK, NodeDisconnect, NodeSendKills, clientVars
<1>14. ASSUME Break \/ NodeCrash PROVE TypeOK'
  <2>1. << >> \in Seq(Part)
    BY EmptySeq
  <2>2. toNode' \in Seq(Part) /\ toClient' \in Seq(Part) /\ link' = "down"
    <3>1. Truncate /\ toNode \in Seq(Part) /\ toClient \in Seq(Part)
      BY <1>14 DEF TypeOK, Break, NodeCrash
    <3>2. \A m \in 0..Len(toNode) : SubSeq(toNode, 1, m) \in Seq(Part)
      BY <3>1, CutRow
    <3>3. \A n \in 0..Len(toClient) : SubSeq(toClient, 1, n) \in Seq(Part)
      BY <3>1, CutRow
    <3>. QED BY <3>1, <3>2, <3>3 DEF Truncate
  <2>. QED BY <1>14, <2>1, <2>2 DEF TypeOK, Break, NodeCrash, clientVars, nodeVars
<1>15. CASE UNCHANGED vars
  BY <1>15 DEF TypeOK, vars, clientVars, nodeVars
<1>. QED BY <1>1, <1>2, <1>3, <1>4, <1>5, <1>6, <1>7, <1>8, <1>9, <1>10,
            <1>11, <1>12, <1>13, <1>14, <1>15 DEF Next, Proceed, Node

\* The node takes a head, then a body, and sends back as much.
LEMMA NodeStep == TypeOK /\ NodeInv /\ [Next]_vars => NodeInv'
<1>. SUFFICES ASSUME TypeOK, NodeInv, [Next]_vars PROVE NodeInv'
  OBVIOUS
<1>1. CASE UNCHANGED <<nodePc, inHand>>
  BY <1>1 DEF NodeInv
<1>2. CASE NodeRecvHead \/ NodeRecvBody
  <2>1. toNode # << >> /\ inHand' = Append(inHand, Head(toNode))
    BY <1>2 DEF NodeRecvHead, NodeRecvBody, NodeTakes
  <2>2. Len(inHand') = Len(inHand) + 1
    BY <2>1, HeadTailProperties, AppendProperties DEF TypeOK
  <2>3. nodePc = "recv_head" => Len(inHand) = 0
    BY EmptySeq DEF NodeInv
  <2>4. CASE NodeRecvHead
    <3>1. nodePc' = "recv_body" /\ Len(inHand') = 1
      BY <2>2, <2>3, <2>4 DEF NodeRecvHead, NodeTakes
    <3>. QED BY <3>1 DEF NodeInv
  <2>5. CASE NodeRecvBody
    <3>1. nodePc = "recv_body" /\ nodePc' = "handle"
      BY <2>5 DEF NodeRecvBody, NodeTakes
    <3>2. Len(inHand) = 1
      BY <3>1 DEF NodeInv
    <3>3. Len(inHand') = 2
      BY <2>2, <3>2
    <3>. QED BY <3>1, <3>3 DEF NodeInv
  <2>. QED BY <1>2, <2>4, <2>5
<1>3. CASE NodeHandle
  BY <1>3 DEF NodeInv, NodeHandle
<1>4. CASE NodeSend
  <2>1. Len(inHand) \in {1, 2} /\ inHand # << >>
    BY <1>4, EmptySeq DEF NodeSend, NodeInv
  <2>2. Tail(inHand) \in Seq(Part) /\ Len(Tail(inHand)) = Len(inHand) - 1
    BY <2>1, HeadTailProperties DEF TypeOK
  <2>3. Len(inHand) = 1 => Tail(inHand) = << >>
    <3>1. Tail(inHand) # << >> => Len(Tail(inHand)) \in Nat \ {0}
      BY <2>2, EmptySeq
    <3>. QED BY <2>2, <3>1
  <2>. QED BY <1>4, <2>1, <2>2, <2>3 DEF NodeSend, NodeInv
<1>5. CASE NodeDisconnect \/ NodeSendKills \/ NodeCrash
  BY <1>5 DEF NodeInv, NodeDisconnect, NodeSendKills, NodeCrash
<1>. QED BY <1>1, <1>2, <1>3, <1>4, <1>5
         DEF Next, Proceed, Node, Begin, LockSend, SendHead, SendBody,
             SendKills, LockRecv, UnlockSend, RecvHead, RecvBody, UnlockRecv,
             Break, nodeVars, vars

\* Locks and unlocks keep the owners where the code is.
LEMMA MutexStep == TypeOK /\ MutexInv /\ [Next]_vars => MutexInv'
<1>. SUFFICES ASSUME TypeOK, MutexInv, [Next]_vars PROVE MutexInv'
  OBVIOUS
<1>. USE ConstantsAssumption DEF Senders, Receivers
<1>1. CASE UNCHANGED <<pc, sendMut, recvMut>>
  BY <1>1 DEF MutexInv
<1>2. ASSUME NEW t \in Threads, Begin(t) \/ Proceed(t), ~ SendKills(t)
      PROVE  MutexInv'
  BY <1>2 DEF TypeOK, MutexInv, Begin, Proceed, LockSend, SendHead, SendBody,
              LockRecv, UnlockSend, RecvHead, RecvBody, UnlockRecv, GoTo
<1>. QED BY <1>1, <1>2
         DEF Next, Node, NodeRecvHead, NodeRecvBody, NodeTakes, NodeHandle,
             NodeSend, NodeDisconnect, NodeSendKills, Break, NodeCrash,
             SendKills, clientVars, vars

-----------------------------------------------------------------------------
(***************************************************************************)
(* The row of parts in flight.                                             *)
(***************************************************************************)

\* The two halves of the row are sequences of parts.
LEMMA RowType ==
  ASSUME TypeOK
  PROVE  Front \in Seq(Part) /\ Back \in Seq(Part)
<1>1. \A t \in Threads : Unread(t) \in Seq(Part) /\ Sent(t) \in Seq(Part)
  <2>. SUFFICES ASSUME NEW t \in Threads
                PROVE  Unread(t) \in Seq(Part) /\ Sent(t) \in Seq(Part)
    OBVIOUS
  <2>1. /\ HeadPart(t) \in Part /\ BodyPart(t) \in Part /\ Msg(t) \in Seq(Part)
        /\ << >> \in Seq(Part)
    BY MsgType, EmptySeq
  <2>2. <<HeadPart(t)>> \in Seq(Part) /\ <<BodyPart(t)>> \in Seq(Part)
    BY <2>1
  <2>. QED BY <2>1, <2>2 DEF Unread, Sent
<1>2. << >> \in Seq(Part)
  BY EmptySeq
<1>. QED BY <1>1, <1>2 DEF Front, Back, TypeOK

\* Steps that change neither the row nor the streams.
LEMMA RowUnchanged ==
  ASSUME StreamInv, Front' = Front, Back' = Back,
         UNCHANGED <<toClient, inHand, toNode, link>>
  PROVE  StreamInv'
BY DEF StreamInv

\* A client that sends appends to the row.
LEMMA RowExtended ==
  ASSUME TypeOK, StreamInv, NEW e \in Part, Transmit(e),
         UNCHANGED <<toClient, inHand, link>>,
         Front' = Front, Back' = Back \o <<e>>
  PROVE  StreamInv'
<1>1. PICK rest \in Seq(Part) : /\ toClient \o rest = Front \o Back
                                /\ link = "up" => rest = inHand \o toNode
  BY DEF StreamInv
<1>2. /\ <<e>> \in Seq(Part) /\ toClient \in Seq(Part)
      /\ inHand \in Seq(Part) /\ toNode \in Seq(Part)
  BY DEF TypeOK
<1>3. rest \o <<e>> \in Seq(Part)
  BY <1>2, ConcatProperties
<1>g. \A f, b \in Seq(Part) : (f \o b) \o <<e>> = f \o (b \o <<e>>)
  BY RowGrows
<1>4. toClient' \o (rest \o <<e>>) = Front' \o Back'
  <2>1. toClient \o (rest \o <<e>>) = (toClient \o rest) \o <<e>>
    BY <1>2, <1>g
  <2>2. Front \in Seq(Part) /\ Back \in Seq(Part)
    BY RowType
  <2>3. (Front \o Back) \o <<e>> = Front \o (Back \o <<e>>)
    BY <2>2, <1>g
  <2>. QED BY <1>1, <2>1, <2>3
<1>5. link' = "up" => rest \o <<e>> = inHand' \o toNode'
  <2>. SUFFICES ASSUME link = "up" PROVE rest \o <<e>> = inHand \o toNode'
    OBVIOUS
  <2>1. toNode' = toNode \o <<e>>
    BY AppendIsConcat DEF Transmit, TypeOK
  <2>2. (inHand \o toNode) \o <<e>> = inHand \o (toNode \o <<e>>)
    BY <1>2, <1>g
  <2>. QED BY <1>1, <2>1, <2>2
<1>. QED BY <1>3, <1>4, <1>5 DEF StreamInv

\* A client that receives finds the first part of the row, or the stream has
\* ended.
LEMMA RowConsumed ==
  ASSUME TypeOK, StreamInv, SockInv, NEW t \in Threads, ConnRecv(t),
         UNCHANGED <<toNode, inHand, link>>,
         NEW e \in Part, NEW u \in Seq(Part), Front = <<e>> \o u,
         Front' = u, Back' = Back
  PROVE  /\ StreamInv'
         /\ SockInv'
         /\ \/ toClient # << >> /\ buf' = [buf EXCEPT ![t] = Append(@, e)]
            \/ buf' = buf /\ link = "down" /\ toClient = << >> /\ toClient' = << >>
<1>1. PICK rest \in Seq(Part) : /\ toClient \o rest = Front \o Back
                                /\ link = "up" => rest = inHand \o toNode
  BY DEF StreamInv
<1>2. <<e>> \in Seq(Part) /\ Back \in Seq(Part) /\ toClient \in Seq(Part)
  BY RowType DEF TypeOK
<1>3. u \o Back \in Seq(Part)
  BY <1>2, ConcatProperties
<1>4. CASE toClient # << >>
  <2>1. toClient \o rest = <<e>> \o (u \o Back)
    BY <1>1, <1>2, ConcatAssociative
  <2>2. Head(toClient) = e /\ Tail(toClient) \o rest = u \o Back
    <3>1. /\ Row(toClient, rest) = Row(<<e>>, Row(u, Back))
          /\ Row(u, Back) \in Seq(Part)
      BY <1>3, <2>1 DEF Row
    <3>2. Head(toClient) = e /\ Row(Tail(toClient), rest) = Row(u, Back)
      BY <1>2, <1>4, <3>1, ConsumeRow
    <3>. QED BY <3>2 DEF Row
  <2>3. /\ buf' = [buf EXCEPT ![t] = Append(@, e)]
        /\ toClient' = Tail(toClient)
        /\ sockfd' = sockfd
    BY <1>4, <2>2 DEF ConnRecv, SockInv
  <2>4. StreamInv'
    BY <1>1, <2>2, <2>3 DEF StreamInv
  <2>5. SockInv'
    BY <1>4, <2>3 DEF SockInv
  <2>. QED BY <1>4, <2>3, <2>4, <2>5
<1>5. CASE toClient = << >>
  <2>1. link = "down" /\ buf' = buf /\ toClient' = << >>
    BY <1>5 DEF ConnRecv, SockInv
  <2>2. << >> \o (u \o Back) = u \o Back
    BY <1>3, ConcatEmptySeq
  <2>3. StreamInv'
    BY <1>3, <2>1, <2>2 DEF StreamInv
  <2>. QED BY <1>5, <2>1, <2>3 DEF SockInv
<1>. QED BY <1>4, <1>5

\* The node moves parts along the row; a break cuts off its end.
LEMMA RowMoved ==
  ASSUME TypeOK, StreamInv, NodeInv, Node \/ Break \/ NodeCrash,
         Front' = Front, Back' = Back
  PROVE  StreamInv'
<1>1. PICK rest \in Seq(Part) : /\ toClient \o rest = Front \o Back
                                /\ link = "up" => rest = inHand \o toNode
  BY DEF StreamInv
<1>2. /\ toClient \in Seq(Part) /\ inHand \in Seq(Part) /\ toNode \in Seq(Part)
  BY DEF TypeOK
<1>3. CASE NodeRecvHead \/ NodeRecvBody
  <2>1. /\ UNCHANGED <<toClient, link>>
        /\ toNode # << >>
        /\ inHand' = Append(inHand, Head(toNode))
        /\ toNode' = Tail(toNode)
    BY <1>3 DEF NodeRecvHead, NodeRecvBody, NodeTakes
  <2>2. inHand' \o toNode' = inHand \o toNode
    BY <1>2, <2>1, MoveAlongRow
  <2>. QED BY <1>1, <2>1, <2>2 DEF StreamInv
<1>4. CASE NodeHandle
  BY <1>4, RowUnchanged DEF NodeHandle
<1>5. CASE NodeSend
  <2>1. CASE link = "up"
    <3>1. inHand # << >>
      BY <1>5, EmptySeq DEF NodeSend, NodeInv
    <3>2. /\ toClient' = Append(toClient, Head(inHand))
          /\ inHand' = Tail(inHand)
          /\ UNCHANGED <<toNode, link>>
      BY <1>5, <2>1 DEF NodeSend
    <3>3. toClient' \o inHand' = toClient \o inHand
      BY <1>2, <3>1, <3>2, MoveAlongRow
    <3>4. inHand' \in Seq(Part) /\ toClient' \in Seq(Part)
      BY <1>2, <3>1, <3>2, HeadTailProperties, AppendProperties
    <3>5. toClient' \o (inHand' \o toNode') = toClient \o (inHand \o toNode)
      <4>1. toClient' \o (inHand' \o toNode) = (toClient' \o inHand') \o toNode
        <5>1. Row(Row(toClient', inHand'), toNode) = Row(toClient', Row(inHand', toNode))
          BY <1>2, <3>4, RowAssociative
        <5>. QED BY <5>1 DEF Row
      <4>2. toClient \o (inHand \o toNode) = (toClient \o inHand) \o toNode
        BY <1>2, ConcatAssociative
      <4>. QED BY <3>2, <3>3, <4>1, <4>2
    <3>6. inHand' \o toNode' \in Seq(Part)
      BY <1>2, <3>2, <3>4, ConcatProperties
    <3>7. toClient' \o (inHand' \o toNode') = Front' \o Back'
      BY <1>1, <2>1, <3>5
    <3>. QED BY <3>6, <3>7 DEF StreamInv
  <2>2. CASE link = "down"
    BY <1>1, <1>5, <2>2 DEF NodeSend, StreamInv
  <2>. QED BY <1>5, <2>1, <2>2 DEF NodeSend
<1>6. CASE NodeDisconnect \/ NodeSendKills
  BY <1>1, <1>6 DEF NodeDisconnect, NodeSendKills, StreamInv
<1>7. CASE Break \/ NodeCrash
  <2>1. PICK n \in 0..Len(toClient) : toClient' = SubSeq(toClient, 1, n)
    BY <1>7 DEF Break, NodeCrash, Truncate
  <2>2. PICK r \in Seq(Part) : toClient' \o r = toClient
    BY <1>2, <2>1, CutRow
  <2>3. toClient' \in Seq(Part)
    BY <1>2, <2>1, CutRow
  <2>4. r \o rest \in Seq(Part)
    BY ConcatProperties
  <2>5. toClient' \o (r \o rest) = toClient \o rest
    <3>1. Row(Row(toClient', r), rest) = Row(toClient', Row(r, rest))
      BY <2>3, RowAssociative
    <3>. QED BY <2>2, <3>1 DEF Row
  <2>6. link' = "down"
    BY <1>7 DEF Break, NodeCrash, Truncate
  <2>7. toClient' \o (r \o rest) = Front' \o Back'
    BY <1>1, <2>5
  <2>. QED BY <2>4, <2>6, <2>7 DEF StreamInv
<1>. QED BY <1>3, <1>4, <1>5, <1>6, <1>7 DEF Node

\* The row and what the threads have read stay in step.
LEMMA StreamStep ==
  Inv /\ [Next]_vars => StreamInv' /\ BufInv' /\ SockInv'
<1>. SUFFICES ASSUME Inv, [Next]_vars PROVE StreamInv' /\ BufInv' /\ SockInv'
  OBVIOUS
<1>. USE ConstantsAssumption
<1>0. TypeOK /\ MutexInv /\ StreamInv /\ NodeInv /\ BufInv /\ SockInv
  BY DEF Inv
<1>1. ASSUME NEW t \in Threads, Begin(t) PROVE StreamInv' /\ BufInv' /\ SockInv'
  <2>1. sendMut # t /\ recvMut # t
    BY <1>0, <1>1 DEF MutexInv, Senders, Receivers, Begin, GoTo, TypeOK
  <2>2. Front' = Front /\ Back' = Back
    BY <1>0, <1>1, <2>1 DEF Begin, GoTo, Front, Back, Unread, Sent, Msg,
                            HeadPart, BodyPart, TypeOK
  <2>3. StreamInv'
    BY <1>0, <1>1, <2>2, RowUnchanged DEF Begin
  <2>4. BufInv'
    BY <1>0, <1>1 DEF BufInv, Begin, GoTo, Msg, HeadPart, BodyPart, TypeOK
  <2>. QED BY <1>0, <1>1, <2>3, <2>4 DEF SockInv, Begin
<1>2. ASSUME NEW t \in Threads, LockSend(t)
      PROVE  StreamInv' /\ BufInv' /\ SockInv'
  <2>1. recvMut # t
    BY <1>0, <1>2 DEF MutexInv, Receivers, LockSend, GoTo, TypeOK
  <2>2. Front' = Front /\ Back' = Back
    BY <1>0, <1>2, <2>1 DEF LockSend, GoTo, Front, Back, Unread, Sent, Msg,
                            HeadPart, BodyPart, TypeOK
  <2>3. StreamInv'
    BY <1>0, <1>2, <2>2, RowUnchanged DEF LockSend, nodeVars
  <2>4. BufInv'
    BY <1>0, <1>2 DEF BufInv, LockSend, GoTo, Msg, HeadPart, BodyPart, TypeOK
  <2>. QED BY <1>0, <1>2, <2>3, <2>4 DEF SockInv, LockSend
<1>3. ASSUME NEW t \in Threads, SendHead(t)
      PROVE  StreamInv' /\ BufInv' /\ SockInv'
  <2>1. recvMut # t /\ sendMut = t
    BY <1>0, <1>3 DEF MutexInv, Senders, Receivers, SendHead, GoTo, TypeOK
  <2>2. Front' = Front /\ Back = << >> /\ Back' = <<HeadPart(t)>>
    BY <1>0, <1>3, <2>1 DEF SendHead, GoTo, Front, Back, Unread, Sent, Msg,
                            HeadPart, BodyPart, TypeOK
  <2>3. HeadPart(t) \in Part
    BY <1>0, MsgType
  <2>4. Back' = Back \o <<HeadPart(t)>>
    BY <2>2, <2>3, ConcatEmptySeq
  <2>5. StreamInv'
    BY <1>0, <1>3, <2>2, <2>3, <2>4, RowExtended DEF SendHead, nodeVars
  <2>6. BufInv'
    BY <1>0, <1>3 DEF BufInv, SendHead, GoTo, Msg, HeadPart, BodyPart, TypeOK
  <2>. QED BY <1>0, <1>3, <2>5, <2>6 DEF SockInv, SendHead
<1>4. ASSUME NEW t \in Threads, SendBody(t)
      PROVE  StreamInv' /\ BufInv' /\ SockInv'
  <2>1. recvMut # t /\ sendMut = t
    BY <1>0, <1>4 DEF MutexInv, Senders, Receivers, SendBody, GoTo, TypeOK
  <2>2. Front' = Front /\ Back = <<HeadPart(t)>> /\ Back' = Msg(t)
    BY <1>0, <1>4, <2>1 DEF SendBody, GoTo, Front, Back, Unread, Sent, Msg,
                            HeadPart, BodyPart, TypeOK
  <2>3. BodyPart(t) \in Part
    BY <1>0, MsgType
  <2>4. Back' = Back \o <<BodyPart(t)>>
    BY <2>2 DEF Msg
  <2>5. StreamInv'
    BY <1>0, <1>4, <2>2, <2>3, <2>4, RowExtended DEF SendBody, nodeVars
  <2>6. BufInv'
    BY <1>0, <1>4 DEF BufInv, SendBody, GoTo, Msg, HeadPart, BodyPart, TypeOK
  <2>. QED BY <1>0, <1>4, <2>5, <2>6 DEF SockInv, SendBody
<1>5. ASSUME NEW t \in Threads, SendKills(t)
      PROVE  StreamInv' /\ BufInv' /\ SockInv'
  <2>1. UNCHANGED <<pc, sendMut, recvMut, sockfd, buf, link, toNode, toClient,
                    inHand, call>>
    BY <1>5 DEF SendKills, nodeVars
  <2>2. Front' = Front /\ Back' = Back
    BY <2>1 DEF Front, Back, Unread, Sent, Msg, HeadPart, BodyPart
  <2>3. StreamInv'
    BY <1>0, <2>1, <2>2, RowUnchanged
  <2>4. BufInv'
    BY <1>0, <2>1 DEF BufInv, Msg, HeadPart, BodyPart
  <2>. QED BY <1>0, <2>1, <2>3, <2>4 DEF SockInv
<1>6. ASSUME NEW t \in Threads, LockRecv(t)
      PROVE  StreamInv' /\ BufInv' /\ SockInv'
  <2>1. sendMut = t
    BY <1>0, <1>6 DEF MutexInv, Senders, LockRecv, GoTo, TypeOK
  <2>2. Front = << >> /\ Back = Msg(t) /\ Front' = Msg(t) /\ Back' = << >>
    BY <1>0, <1>6, <2>1 DEF LockRecv, GoTo, Front, Back, Unread, Sent, Msg,
                            HeadPart, BodyPart, TypeOK
  <2>3. Front' \o Back' = Front \o Back
    BY <1>0, <2>2, MsgType, ConcatEmptySeq
  <2>4. StreamInv'
    BY <1>0, <1>6, <2>3 DEF LockRecv, nodeVars, StreamInv
  <2>5. BufInv'
    BY <1>0, <1>6 DEF BufInv, LockRecv, GoTo, Msg, HeadPart, BodyPart, TypeOK
  <2>. QED BY <1>0, <1>6, <2>4, <2>5 DEF SockInv, LockRecv
<1>7. ASSUME NEW t \in Threads, UnlockSend(t)
      PROVE  StreamInv' /\ BufInv' /\ SockInv'
  <2>1. sendMut = t /\ recvMut = t
    BY <1>0, <1>7 DEF MutexInv, Senders, Receivers, UnlockSend, GoTo, TypeOK
  <2>2. Front' = Front /\ Back' = Back
    BY <1>0, <1>7, <2>1 DEF UnlockSend, GoTo, Front, Back, Unread, Sent, Msg,
                            HeadPart, BodyPart, TypeOK
  <2>3. StreamInv'
    BY <1>0, <1>7, <2>2, RowUnchanged DEF UnlockSend, nodeVars
  <2>4. BufInv'
    BY <1>0, <1>7 DEF BufInv, UnlockSend, GoTo, Msg, HeadPart, BodyPart, TypeOK
  <2>. QED BY <1>0, <1>7, <2>3, <2>4 DEF SockInv, UnlockSend
<1>8. ASSUME NEW t \in Threads, RecvHead(t)
      PROVE  StreamInv' /\ BufInv' /\ SockInv'
  <2>1. recvMut = t /\ sendMut # t
    BY <1>0, <1>8 DEF MutexInv, Senders, Receivers, RecvHead, GoTo, TypeOK
  <2>2. Front = Msg(t) /\ Front' = <<BodyPart(t)>> /\ Back' = Back
    BY <1>0, <1>8, <2>1 DEF RecvHead, GoTo, Front, Back, Unread, Sent, Msg,
                            HeadPart, BodyPart, TypeOK
  <2>3. HeadPart(t) \in Part /\ <<BodyPart(t)>> \in Seq(Part)
    BY <1>0, MsgType
  <2>4. Front = <<HeadPart(t)>> \o <<BodyPart(t)>>
    BY <2>2 DEF Msg
  <2>5. ConnRecv(t) /\ UNCHANGED <<toNode, inHand, link>>
    BY <1>8 DEF RecvHead, nodeVars
  <2>6. /\ StreamInv' /\ SockInv'
        /\ \/ buf' = [buf EXCEPT ![t] = Append(@, HeadPart(t))]
           \/ buf' = buf /\ link = "down" /\ toClient = << >> /\ toClient' = << >>
    BY <1>0, <2>2, <2>3, <2>4, <2>5, RowConsumed
  <2>7. /\ buf[t] = << >>
        /\ \A u \in Threads \ {t} : pc[u] \notin {"recv_body", "unlock_recv"}
    BY <1>0, <1>8, <2>1 DEF BufInv, MutexInv, Receivers, RecvHead, GoTo
  <2>8. /\ pc'[t] = "recv_body" /\ link' = link
        /\ \A u \in Threads \ {t} : pc'[u] = pc[u] /\ buf'[u] = buf[u]
        /\ \A u \in Threads : HeadPart(u)' = HeadPart(u) /\ Msg(u)' = Msg(u)
    BY <1>0, <1>8, <2>6 DEF RecvHead, GoTo, Msg, HeadPart, BodyPart, TypeOK
  <2>9. \/ buf'[t] = <<HeadPart(t)>>
        \/ buf'[t] = << >> /\ link = "down" /\ toClient' = << >>
    BY <1>0, <2>6, <2>7 DEF TypeOK
  <2>10. BufInv'
    BY <1>0, <2>7, <2>8, <2>9 DEF BufInv
  <2>. QED BY <2>6, <2>10
<1>9. ASSUME NEW t \in Threads, RecvBody(t)
      PROVE  StreamInv' /\ BufInv' /\ SockInv'
  <2>1. recvMut = t /\ sendMut # t
    BY <1>0, <1>9 DEF MutexInv, Senders, Receivers, RecvBody, GoTo, TypeOK
  <2>2. Front = <<BodyPart(t)>> /\ Front' = << >> /\ Back' = Back
    BY <1>0, <1>9, <2>1 DEF RecvBody, GoTo, Front, Back, Unread, Sent, Msg,
                            HeadPart, BodyPart, TypeOK
  <2>3. BodyPart(t) \in Part /\ << >> \in Seq(Part)
    BY <1>0, MsgType, EmptySeq
  <2>4. Front = <<BodyPart(t)>> \o << >>
    BY <2>2, <2>3, ConcatEmptySeq
  <2>5. ConnRecv(t) /\ UNCHANGED <<toNode, inHand, link>>
    BY <1>9 DEF RecvBody, nodeVars
  <2>6. /\ StreamInv' /\ SockInv'
        /\ \/ toClient # << >> /\ buf' = [buf EXCEPT ![t] = Append(@, BodyPart(t))]
           \/ buf' = buf /\ link = "down" /\ toClient = << >> /\ toClient' = << >>
    BY <1>0, <2>2, <2>3, <2>4, <2>5, RowConsumed
  <2>7. /\ buf[t] = <<HeadPart(t)>> \/ (link = "down" /\ toClient = << >>)
        /\ \A u \in Threads \ {t} : pc[u] \notin {"recv_body", "unlock_recv"}
    BY <1>0, <1>9, <2>1 DEF BufInv, MutexInv, Receivers, RecvBody, GoTo
  <2>8. buf'[t] = Msg(t) \/ (buf' = buf /\ link = "down" /\ toClient' = << >>)
    <3>1. Append(<<HeadPart(t)>>, BodyPart(t)) = Msg(t)
      <4>1. HeadPart(t) \in Part
        BY <1>0, MsgType
      <4>2. Append(<<HeadPart(t)>>, BodyPart(t)) = <<HeadPart(t)>> \o <<BodyPart(t)>>
        BY <2>3, <4>1, AppendIsConcat
      <4>3. Msg(t) = <<HeadPart(t)>> \o <<BodyPart(t)>>
        <5>1. PICK m : m = Msg(t)
          OBVIOUS
        <5>2. m = <<HeadPart(t)>> \o <<BodyPart(t)>>
          BY <5>1 DEF Msg
        <5>. QED BY <5>1, <5>2
      <4>. QED BY <4>2, <4>3
    <3>. QED BY <1>0, <2>6, <2>7, <3>1 DEF TypeOK
  <2>9. \A u \in Threads \ {t} : buf'[u] = buf[u]
    BY <1>0, <2>6 DEF TypeOK
  <2>10. pc' = [pc EXCEPT ![t] = "unlock_recv"] /\ link' = link /\ call' = call
    BY <1>9 DEF RecvBody, GoTo
  <2>11. BufInv'
    BY <1>0, <2>7, <2>8, <2>9, <2>10 DEF BufInv, Msg, HeadPart, BodyPart, TypeOK
  <2>. QED BY <2>6, <2>11
<1>10. ASSUME NEW t \in Threads, UnlockRecv(t)
       PROVE  StreamInv' /\ BufInv' /\ SockInv'
  <2>1. recvMut = t /\ sendMut # t
    BY <1>0, <1>10 DEF MutexInv, Senders, Receivers, UnlockRecv, GoTo, TypeOK
  <2>2. Front' = Front /\ Back' = Back
    BY <1>0, <1>10, <2>1 DEF UnlockRecv, GoTo, Front, Back, Unread, Sent, Msg,
                             HeadPart, BodyPart, TypeOK
  <2>3. StreamInv'
    BY <1>0, <1>10, <2>2, RowUnchanged DEF UnlockRecv, nodeVars
  <2>4. BufInv'
    BY <1>0, <1>10 DEF BufInv, UnlockRecv, GoTo, Msg, HeadPart, BodyPart, TypeOK
  <2>. QED BY <1>0, <1>10, <2>3, <2>4 DEF SockInv, UnlockRecv
<1>11. ASSUME Node \/ Break \/ NodeCrash PROVE StreamInv' /\ BufInv' /\ SockInv'
  <2>1. UNCHANGED <<pc, sendMut, recvMut, sockfd, buf, call>>
    BY <1>11 DEF Node, NodeRecvHead, NodeRecvBody, NodeTakes, NodeHandle,
                 NodeSend, NodeDisconnect, NodeSendKills, Break, NodeCrash,
                 clientVars
  <2>2. Front' = Front /\ Back' = Back
    BY <2>1 DEF Front, Back, Unread, Sent, Msg, HeadPart, BodyPart
  <2>3. StreamInv'
    BY <1>0, <1>11, <2>2, RowMoved
  <2>4. link = "down" => UNCHANGED <<link, toClient>>
    BY <1>11 DEF Node, NodeRecvHead, NodeRecvBody, NodeTakes, NodeHandle,
                 NodeSend, NodeDisconnect, NodeSendKills, Break, NodeCrash,
                 Truncate
  <2>5. BufInv'
    BY <1>0, <2>1, <2>4 DEF BufInv, Msg, HeadPart, BodyPart
  <2>6. SockInv'
    BY <1>0, <2>1, <2>4 DEF SockInv
  <2>. QED BY <2>3, <2>5, <2>6
<1>12. CASE UNCHANGED vars
  <2>1. UNCHANGED <<pc, sendMut, recvMut, sockfd, buf, link, toNode, toClient,
                    inHand, call>>
    BY <1>12 DEF vars, clientVars, nodeVars
  <2>2. Front' = Front /\ Back' = Back
    BY <2>1 DEF Front, Back, Unread, Sent, Msg, HeadPart, BodyPart
  <2>3. StreamInv'
    BY <1>0, <2>1, <2>2, RowUnchanged
  <2>4. BufInv'
    BY <1>0, <2>1 DEF BufInv, Msg, HeadPart, BodyPart
  <2>. QED BY <1>0, <2>1, <2>3, <2>4 DEF SockInv
<1>. QED BY <1>1, <1>2, <1>3, <1>4, <1>5, <1>6, <1>7, <1>8, <1>9, <1>10,
            <1>11, <1>12 DEF Next, Proceed

-----------------------------------------------------------------------------
\* The initial states satisfy the invariant: nothing is in flight.
LEMMA InitInv == Init => Inv
<1>. SUFFICES ASSUME Init PROVE Inv
  OBVIOUS
<1>. USE ConstantsAssumption
<1>1. << >> \in Seq(Part) /\ Len(<< >>) = 0
  BY EmptySeq
<1>2. TypeOK
  BY <1>1 DEF Init, TypeOK
<1>3. MutexInv
  BY DEF Init, MutexInv, Senders, Receivers
<1>4. StreamInv
  <2>1. << >> \o << >> = << >>
    BY <1>1, ConcatEmptySeq
  <2>2. Front = << >> /\ Back = << >>
    BY DEF Init, Front, Back
  <2>. QED BY <1>1, <2>1, <2>2 DEF Init, StreamInv
<1>5. NodeInv /\ BufInv /\ SockInv
  BY DEF Init, NodeInv, BufInv, SockInv
<1>. QED BY <1>2, <1>3, <1>4, <1>5 DEF Inv

\* Inv is an invariant.
THEOREM Invariance == Spec => []Inv
<1>1. Inv /\ [Next]_vars => Inv'
  BY TypeStep, NodeStep, MutexStep, StreamStep DEF Inv
<1>. QED BY <1>1, InitInv, PTL DEF Spec

\* Every variable keeps its type, for any set of threads, any buffer sizes
\* and any number of ids.
THEOREM TypeCorrectness == Spec => []TypeOK
<1>1. Inv => TypeOK
  BY DEF Inv
<1>. QED BY <1>1, Invariance, PTL

\* dic_atomic_send_recv hands every thread the response to its own call, for
\* any number of threads that share the connection, whatever the node, the
\* socket buffers and a break of the connection do.
THEOREM ResponsesNotStolen == Spec => []OwnResponse
<1>1. Inv => OwnResponse
  <2>. SUFFICES ASSUME Inv, NEW t \in Threads
                PROVE  /\ IsPrefixOf(buf[t], Msg(t))
                       /\ pc[t] = "unlock_recv" /\ link = "up" => buf[t] = Msg(t)
    BY DEF OwnResponse
  <2>1. buf[t] \in {<< >>, <<HeadPart(t)>>, Msg(t)}
    BY DEF Inv, BufInv
  <2>2. HeadPart(t) \in Part /\ BodyPart(t) \in Part /\ Msg(t) \in Seq(Part)
    BY MsgType DEF Inv
  <2>3. IsPrefixOf(buf[t], Msg(t))
    <3>1. CASE buf[t] = << >>
      BY <2>2, <3>1 DEF IsPrefixOf, Msg
    <3>2. CASE buf[t] = <<HeadPart(t)>>
      BY <2>2, <3>2 DEF IsPrefixOf, Msg
    <3>3. CASE buf[t] = Msg(t)
      BY <2>2, <3>3, SubSeqFull, LenProperties DEF IsPrefixOf
    <3>. QED BY <2>1, <3>1, <3>2, <3>3
  <2>4. pc[t] = "unlock_recv" /\ link = "up" => buf[t] = Msg(t)
    BY DEF Inv, BufInv
  <2>. QED BY <2>3, <2>4
<1>. QED BY <1>1, Invariance, PTL

-----------------------------------------------------------------------------
(***************************************************************************)
(* What the node executes.  The parts that the node has not sent back yet, *)
(* in its hands and before it, stay a row of whole messages also when the  *)
(* connection has broken and the calls they belong to have long returned.  *)
(***************************************************************************)
Pending == inHand \o toNode

Gone == {"accept", "dead"}

\* Every head is followed by its own body, every body by a head, and no
\* thread has two messages in the row.
PairsInv ==
  /\ \A k \in 1..Len(Pending) - 1 :
       IF Pending[k].kind = "head"
         THEN /\ Pending[k + 1].kind = "body"
              /\ Pending[k + 1].by = Pending[k].by
              /\ Pending[k + 1].id = Pending[k].id
         ELSE Pending[k + 1].kind = "head"
  /\ \A j, k \in 1..Len(Pending) :
       j < k /\ Pending[j].by = Pending[k].by =>
         k = j + 1 /\ Pending[j].kind = "head"
  /\ \A k \in 1..Len(Pending) : Pending[k].id # Unsent

\* The node is at a message boundary when its loop says so.
BoundaryInv ==
  /\ nodePc # "send" /\ Pending # << >> => Pending[1].kind = "head"
  /\ nodePc = "send" => (Pending[1].kind = "head" <=> Len(inHand) = 2)

\* The part of Pending that has been executed.
Done(k) == nodePc = "send" /\ k <= Len(inHand)

\* A part of a current call: its caller has sent it, and the call has been
\* executed once if the part is on the way back and not at all otherwise.
PendingInv ==
  \A k \in 1..Len(Pending) :
    Pending[k].id = call[Pending[k].by] =>
      /\ execs[Pending[k].by] = (IF Done(k) THEN 1 ELSE 0)
      /\ pc[Pending[k].by] \notin {"lock_send", "send"}
      /\ Pending[k].kind = "body" => pc[Pending[k].by] # "sending"

\* The row ends with the head of the call that is being sent, or a body.
TailInv ==
  link = "up" =>
    /\ \A s \in Threads :
         pc[s] = "sending" =>
           Pending # << >> /\ Pending[Len(Pending)] = HeadPart(s)
    /\ (\A s \in Threads : pc[s] # "sending") /\ Pending # << >> =>
         Pending[Len(Pending)].kind = "body"

WireInv ==
  nodePc \notin Gone => PairsInv /\ BoundaryInv /\ PendingInv /\ TailInv

\* A call has been executed at most once, not before it is sent, and once if
\* any of its response has come back.  A call with the id that is never sent
\* was begun after the break.
ExecInv ==
  /\ nodePc \in Gone => link = "down"
  /\ \A t \in Threads :
       /\ link = "up" => call[t] # Unsent
       /\ execs[t] \in {0, 1}
       /\ pc[t] \in {"lock_send", "send", "sending"} => execs[t] = 0
       /\ buf[t] # << >> => execs[t] = 1
  /\ \A k \in 1..Len(toClient) :
       /\ toClient[k].id # Unsent
       /\ toClient[k].id = call[toClient[k].by] => execs[toClient[k].by] = 1

-----------------------------------------------------------------------------
\* What is pending is a sequence of parts: what the node holds, then what is
\* before it.
LEMMA PendingType ==
  ASSUME TypeOK
  PROVE  /\ Pending \in Seq(Part)
         /\ Len(Pending) = Len(inHand) + Len(toNode)
         /\ Len(inHand) \in Nat /\ Len(toNode) \in Nat
         /\ \A k \in 1..Len(Pending) :
              /\ Pending[k] \in Part
              /\ Pending[k] = IF k <= Len(inHand) THEN inHand[k]
                                                  ELSE toNode[k - Len(inHand)]
<1>1. inHand \in Seq(Part) /\ toNode \in Seq(Part)
  BY DEF TypeOK
<1>2. /\ Pending \in Seq(Part)
      /\ Len(Pending) = Len(inHand) + Len(toNode)
      /\ \A k \in 1..Len(inHand) + Len(toNode) :
           Pending[k] = IF k <= Len(inHand) THEN inHand[k]
                                            ELSE toNode[k - Len(inHand)]
  BY <1>1, ConcatProperties DEF Pending
<1>3. \A k \in 1..Len(Pending) : Pending[k] \in Part
  BY <1>2, ElementOfSeq
<1>. QED BY <1>1, <1>2, <1>3, LenProperties

\* The fields of a part.
LEMMA PartFields ==
  ASSUME NEW x \in Part
  PROVE  x.kind \in {"head", "body"} /\ x.by \in Threads /\ x.id \in 0..NumIds
BY DEF Part

\* A part of a call whose caller is between the send and the receive.
InTransit(x) ==
  /\ x.by \in Threads
  /\ x = HeadPart(x.by) \/ x = BodyPart(x.by)
  /\ x.kind = "head" =>
       pc[x.by] \in {"sending", "lock_recv", "unlock_send", "recv_head"}
  /\ x.kind = "body" =>
       pc[x.by] \in {"lock_recv", "unlock_send", "recv_head", "recv_body"}

\* While the connection is up, all that is in flight is in transit.
LEMMA UpInTransit ==
  ASSUME Inv, link = "up"
  PROVE  /\ \A k \in 1..Len(Pending) : InTransit(Pending[k])
         /\ \A k \in 1..Len(toClient) : InTransit(toClient[k])
<1>0. TypeOK /\ MutexInv /\ StreamInv
  BY DEF Inv
<1>1. /\ toClient \in Seq(Part) /\ Pending \in Seq(Part)
      /\ Front \in Seq(Part) /\ Back \in Seq(Part)
  BY <1>0, PendingType, RowType DEF TypeOK
<1>2. toClient \o Pending = Front \o Back
  BY <1>0 DEF StreamInv, Pending
<1>3. \A k \in 1..Len(Front) : InTransit(Front[k])
  <2>1. CASE recvMut = None
    BY <2>1 DEF Front
  <2>2. CASE recvMut \in Threads
    <3>1. PICK t \in Threads : t = recvMut
      BY <2>2
    <3>2. Front = Unread(t)
      BY <3>1, ConstantsAssumption DEF Front
    <3>3. CASE pc[t] \in {"unlock_send", "recv_head"}
      <4>1. Front = <<HeadPart(t), BodyPart(t)>>
        BY <3>2, <3>3 DEF Unread, Msg
      <4>2. InTransit(HeadPart(t)) /\ InTransit(BodyPart(t))
        BY <3>3 DEF InTransit, HeadPart, BodyPart
      <4>. QED BY <4>1, <4>2
    <3>4. CASE pc[t] = "recv_body"
      <4>1. Front = <<BodyPart(t)>>
        BY <3>2, <3>4 DEF Unread
      <4>2. InTransit(BodyPart(t))
        BY <3>4 DEF InTransit, HeadPart, BodyPart
      <4>. QED BY <4>1, <4>2
    <3>5. CASE pc[t] \notin {"unlock_send", "recv_head", "recv_body"}
      BY <3>2, <3>5 DEF Unread
    <3>. QED BY <3>3, <3>4, <3>5
  <2>. QED BY <1>0, <2>1, <2>2 DEF TypeOK
<1>4. \A k \in 1..Len(Back) : InTransit(Back[k])
  <2>1. CASE sendMut = None
    BY <2>1 DEF Back
  <2>2. CASE sendMut \in Threads
    <3>1. PICK t \in Threads : t = sendMut
      BY <2>2
    <3>2. Back = Sent(t)
      BY <3>1, ConstantsAssumption DEF Back
    <3>3. CASE pc[t] = "lock_recv"
      <4>1. Back = <<HeadPart(t), BodyPart(t)>>
        BY <3>2, <3>3 DEF Sent, Msg
      <4>2. InTransit(HeadPart(t)) /\ InTransit(BodyPart(t))
        BY <3>3 DEF InTransit, HeadPart, BodyPart
      <4>. QED BY <4>1, <4>2
    <3>4. CASE pc[t] = "sending"
      <4>1. Back = <<HeadPart(t)>>
        BY <3>2, <3>4 DEF Sent
      <4>2. InTransit(HeadPart(t))
        BY <3>4 DEF InTransit, HeadPart, BodyPart
      <4>. QED BY <4>1, <4>2
    <3>5. CASE pc[t] \notin {"sending", "lock_recv"}
      BY <3>2, <3>5 DEF Sent
    <3>. QED BY <3>3, <3>4, <3>5
  <2>. QED BY <1>0, <2>1, <2>2 DEF TypeOK
<1>5. PICK row : row = Front \o Back
  OBVIOUS
<1>6. /\ row \in Seq(Part) /\ Len(row) = Len(Front) + Len(Back)
      /\ \A k \in 1..Len(Front) + Len(Back) :
           row[k] = IF k <= Len(Front) THEN Front[k] ELSE Back[k - Len(Front)]
  BY <1>1, <1>5, ConcatProperties
<1>7. /\ Len(row) = Len(toClient) + Len(Pending)
      /\ \A k \in 1..Len(toClient) + Len(Pending) :
           row[k] = IF k <= Len(toClient) THEN toClient[k]
                                          ELSE Pending[k - Len(toClient)]
  BY <1>1, <1>2, <1>5, ConcatProperties
<1>8. Len(Front) \in Nat /\ Len(Back) \in Nat /\ Len(toClient) \in Nat /\ Len(Pending) \in Nat
  BY <1>1, LenProperties
<1>9. \A k \in 1..Len(row) : InTransit(row[k])
  <2>. SUFFICES ASSUME NEW k \in 1..Len(row) PROVE InTransit(row[k])
    OBVIOUS
  <2>1. CASE k <= Len(Front)
    BY <1>3, <1>6, <1>8, <2>1
  <2>2. CASE ~(k <= Len(Front))
    <3>1. k - Len(Front) \in 1..Len(Back) /\ row[k] = Back[k - Len(Front)]
      BY <1>6, <1>8, <2>2
    <3>. QED BY <1>4, <3>1
  <2>. QED BY <2>1, <2>2
<1>10. \A k \in 1..Len(toClient) : k \in 1..Len(row) /\ row[k] = toClient[k]
  BY <1>7, <1>8
<1>11. ASSUME NEW k \in 1..Len(Pending) PROVE InTransit(Pending[k])
  <2>1. /\ Len(toClient) + k \in 1..Len(row)
        /\ row[Len(toClient) + k] = Pending[k]
    <3>1. /\ Len(toClient) + k \in 1..Len(toClient) + Len(Pending)
          /\ ~(Len(toClient) + k <= Len(toClient))
          /\ (Len(toClient) + k) - Len(toClient) = k
      BY <1>8
    <3>. QED BY <1>7, <3>1
  <2>. QED BY <1>9, <2>1
<1>. QED BY <1>9, <1>10, <1>11

\* The ways in which the pending row changes: a client sends at its end, the
\* node sends back from its front, a break cuts its end off.
LEMMA PendingGrows ==
  ASSUME TypeOK, NEW e \in Part, Transmit(e), UNCHANGED inHand
  PROVE  /\ link = "down" => Pending' = Pending
         /\ link = "up" =>
              /\ Len(Pending') = Len(Pending) + 1
              /\ \A k \in 1..Len(Pending) : Pending'[k] = Pending[k]
              /\ Pending'[Len(Pending) + 1] = e
<1>1. link = "down" => Pending' = Pending
  BY DEF Transmit, Pending
<1>2. ASSUME link = "up" PROVE Pending' = Append(Pending, e)
  <2>1. toNode' = toNode \o <<e>> /\ inHand \in Seq(Part) /\ toNode \in Seq(Part)
    BY <1>2, AppendIsConcat DEF Transmit, TypeOK
  <2>2. (inHand \o toNode) \o <<e>> = inHand \o (toNode \o <<e>>)
    BY <2>1, RowGrows
  <2>3. Append(Pending, e) = Pending \o <<e>>
    BY PendingType, AppendIsConcat
  <2>. QED BY <2>1, <2>2, <2>3 DEF Pending
<1>. QED BY <1>1, <1>2, PendingType, AppendProperties

\* The node has executed the part in its hand: the rest moves up by one.
LEMMA PendingShrinks ==
  ASSUME TypeOK, inHand # << >>, inHand' = Tail(inHand), toNode' = toNode
  PROVE  /\ Len(Pending') = Len(Pending) - 1
         /\ \A k \in 1..Len(Pending') : Pending'[k] = Pending[k + 1]
<1>1. /\ inHand \in Seq(Part) /\ toNode \in Seq(Part)
      /\ Len(inHand) \in Nat /\ Len(toNode) \in Nat
  BY LenProperties DEF TypeOK
<1>2. /\ inHand' \in Seq(Part) /\ Len(inHand') = Len(inHand) - 1
      /\ \A k \in 1..Len(inHand') : inHand'[k] = inHand[k + 1]
  BY <1>1, HeadTailProperties
<1>3. /\ Len(Pending') = Len(inHand') + Len(toNode)
      /\ \A k \in 1..Len(inHand') + Len(toNode) :
           Pending'[k] = IF k <= Len(inHand') THEN inHand'[k]
                                              ELSE toNode[k - Len(inHand')]
  BY <1>1, <1>2, ConcatProperties DEF Pending
<1>4. Len(inHand') \in Nat
  BY <1>2, LenProperties
<1>5. Len(Pending') = Len(Pending) - 1
  BY <1>1, <1>2, <1>3, PendingType
<1>6. ASSUME NEW k \in 1..Len(Pending') PROVE Pending'[k] = Pending[k + 1]
  <2>1. k + 1 \in 1..Len(Pending) /\ (k + 1) - Len(inHand) = k - Len(inHand')
    BY <1>1, <1>2, <1>4, <1>5, <1>6, PendingType
  <2>2. Pending[k + 1] = IF k + 1 <= Len(inHand) THEN inHand[k + 1]
                         ELSE toNode[(k + 1) - Len(inHand)]
    BY <2>1, PendingType
  <2>3. CASE k <= Len(inHand')
    BY <1>1, <1>2, <1>3, <1>4, <2>2, <2>3
  <2>4. CASE ~(k <= Len(inHand'))
    <3>1. Pending'[k] = toNode[k - Len(inHand')]
      BY <1>3, <2>4
    <3>2. ~(k + 1 <= Len(inHand))
      BY <1>1, <1>2, <1>4, <2>4
    <3>. QED BY <2>1, <2>2, <3>1, <3>2
  <2>. QED BY <2>3, <2>4
<1>. QED BY <1>5, <1>6

\* A break takes away from the end of what is on its way to the node.
LEMMA PendingCut ==
  ASSUME TypeOK, Truncate, UNCHANGED inHand
  PROVE  /\ Len(Pending') \in Len(inHand)..Len(Pending)
         /\ \A k \in 1..Len(Pending') : Pending'[k] = Pending[k]
<1>1. PICK m \in 0..Len(toNode) : toNode' = SubSeq(toNode, 1, m)
  BY DEF Truncate
<1>2. /\ inHand \in Seq(Part) /\ toNode \in Seq(Part)
      /\ Len(inHand) \in Nat /\ Len(toNode) \in Nat
  BY LenProperties DEF TypeOK
<1>3. /\ toNode' \in Seq(Part) /\ Len(toNode') = m
      /\ \A k \in 1..m : toNode'[k] = toNode[k]
  <2>1. \A i \in 1..m : toNode[i] \in Part
    BY <1>2, ElementOfSeq
  <2>. QED BY <1>1, <1>2, <2>1, SubSeqProperties
<1>4. /\ Len(Pending') = Len(inHand) + m
      /\ \A k \in 1..Len(inHand) + m :
           Pending'[k] = IF k <= Len(inHand) THEN inHand[k]
                                             ELSE toNode'[k - Len(inHand)]
  BY <1>2, <1>3, ConcatProperties DEF Pending
<1>5. ASSUME NEW k \in 1..Len(Pending') PROVE Pending'[k] = Pending[k]
  <2>1. k \in 1..Len(Pending)
    BY <1>2, <1>4, PendingType
  <2>2. Pending[k] = IF k <= Len(inHand) THEN inHand[k]
                                         ELSE toNode[k - Len(inHand)]
    BY <2>1, PendingType
  <2>3. ~(k <= Len(inHand)) => k - Len(inHand) \in 1..m
    BY <1>2, <1>4
  <2>. QED BY <1>3, <1>4, <2>2, <2>3
<1>. QED BY <1>2, <1>4, <1>5, PendingType

-----------------------------------------------------------------------------
\* A thread step that leaves the wire alone and is neither the begin of a
\* call nor a send.
Quiet(t, to) ==
  /\ pc' = [pc EXCEPT ![t] = to]
  /\ pc[t] # "sending"
  /\ to \notin {"lock_send", "sending"}
  /\ to = "send" => pc[t] = "lock_send"
  /\ UNCHANGED <<inHand, toNode, nodePc, execs, call, link>>

\* Quiet steps do not disturb the pending row.
LEMMA WireQuiet ==
  ASSUME TypeOK, WireInv, NEW t \in Threads, NEW to, Quiet(t, to)
  PROVE  WireInv'
<1>. SUFFICES ASSUME nodePc \notin Gone
              PROVE  PairsInv' /\ BoundaryInv' /\ PendingInv' /\ TailInv'
  BY DEF WireInv, Quiet
<1>0. PairsInv /\ BoundaryInv /\ PendingInv /\ TailInv
  BY DEF WireInv
<1>1. Pending' = Pending
  BY DEF Quiet, Pending
<1>2. PairsInv' /\ BoundaryInv'
  BY <1>0, <1>1 DEF PairsInv, BoundaryInv, Quiet
<1>3. PendingInv'
  <2>. SUFFICES ASSUME NEW k \in 1..Len(Pending),
                       Pending[k].id = call[Pending[k].by]
                PROVE  /\ execs[Pending[k].by] = (IF Done(k) THEN 1 ELSE 0)
                       /\ pc'[Pending[k].by] \notin {"lock_send", "send"}
                       /\ Pending[k].kind = "body" =>
                            pc'[Pending[k].by] # "sending"
    BY <1>1 DEF PendingInv, Done, Quiet
  <2>1. Pending[k].by \in Threads
    BY PendingType, PartFields
  <2>2. /\ execs[Pending[k].by] = (IF Done(k) THEN 1 ELSE 0)
        /\ pc[Pending[k].by] \notin {"lock_send", "send"}
        /\ Pending[k].kind = "body" => pc[Pending[k].by] # "sending"
    BY <1>0 DEF PendingInv
  <2>. QED BY <2>1, <2>2 DEF Quiet, TypeOK
<1>4. TailInv'
  <2>1. \A s \in Threads : pc'[s] = "sending" <=> pc[s] = "sending"
    BY DEF Quiet, TypeOK
  <2>2. \A s \in Threads : HeadPart(s)' = HeadPart(s)
    BY DEF Quiet, HeadPart
  <2>. QED BY <1>0, <1>1, <2>1, <2>2 DEF TailInv, Quiet
<1>. QED BY <1>2, <1>3, <1>4

\* A new call has no part in flight: the thread held no mutex, and a call on
\* a broken connection has an id that is never sent.
LEMMA WireBegin ==
  ASSUME Inv, WireInv, NEW t \in Threads, Begin(t)
  PROVE  WireInv'
<1>. USE ConstantsAssumption
<1>. SUFFICES ASSUME nodePc \notin Gone
              PROVE  PairsInv' /\ BoundaryInv' /\ PendingInv' /\ TailInv'
  BY DEF WireInv, Begin
<1>0. PairsInv /\ BoundaryInv /\ PendingInv /\ TailInv /\ TypeOK
  BY DEF WireInv, Inv
<1>1. Pending' = Pending /\ UNCHANGED <<nodePc, inHand, link>>
  BY DEF Begin, Pending
<1>2. PairsInv' /\ BoundaryInv'
  BY <1>0, <1>1 DEF PairsInv, BoundaryInv
<1>3. PendingInv'
  <2>. SUFFICES ASSUME NEW k \in 1..Len(Pending),
                       Pending[k].id = call'[Pending[k].by]
                PROVE  /\ execs'[Pending[k].by] = (IF Done(k) THEN 1 ELSE 0)
                       /\ pc'[Pending[k].by] \notin {"lock_send", "send"}
                       /\ Pending[k].kind = "body" =>
                            pc'[Pending[k].by] # "sending"
    BY <1>1 DEF PendingInv, Done
  <2>1. Pending[k].by \in Threads
    BY <1>0, PendingType, PartFields
  <2>2. Pending[k].by # t
    <3>1. CASE link = "up"
      <4>1. InTransit(Pending[k])
        BY <3>1, UpInTransit
      <4>2. Pending[k].kind \in {"head", "body"}
        BY <1>0, PendingType, PartFields
      <4>. QED BY <4>1, <4>2 DEF InTransit, Begin, GoTo
    <3>2. CASE link # "up"
      <4>1. call'[t] = Unsent
        BY <1>0, <3>2 DEF Begin, TypeOK
      <4>. QED BY <1>0, <4>1 DEF PairsInv
    <3>. QED BY <3>1, <3>2
  <2>3. /\ call'[Pending[k].by] = call[Pending[k].by]
        /\ execs'[Pending[k].by] = execs[Pending[k].by]
        /\ pc'[Pending[k].by] = pc[Pending[k].by]
    BY <1>0, <2>1, <2>2 DEF Begin, GoTo, TypeOK
  <2>. QED BY <1>0, <2>3 DEF PendingInv
<1>4. TailInv'
  <2>1. \A s \in Threads : pc'[s] = "sending" <=> pc[s] = "sending"
    BY <1>0 DEF Begin, GoTo, TypeOK
  <2>2. \A s \in Threads : pc[s] = "sending" => HeadPart(s)' = HeadPart(s)
    BY <1>0 DEF Begin, GoTo, HeadPart, TypeOK
  <2>. QED BY <1>0, <1>1, <2>1, <2>2 DEF TailInv
<1>. QED BY <1>2, <1>3, <1>4

\* A part sent at the end of the row continues it.
LEMMA PairsExtended ==
  ASSUME TypeOK, NodeInv, PairsInv, BoundaryInv, NEW e \in Part,
         UNCHANGED <<nodePc, inHand>>,
         Len(Pending') = Len(Pending) + 1,
         \A k \in 1..Len(Pending) : Pending'[k] = Pending[k],
         Pending'[Len(Pending) + 1] = e,
         e.id # Unsent,
         IF Pending = << >> \/ Pending[Len(Pending)].kind = "body"
           THEN /\ e.kind = "head"
                /\ \A k \in 1..Len(Pending) : Pending[k].by # e.by
           ELSE /\ e.kind = "body"
                /\ e.by = Pending[Len(Pending)].by
                /\ e.id = Pending[Len(Pending)].id
  PROVE  PairsInv' /\ BoundaryInv'
<1>1. PICK n \in Nat : n = Len(Pending)
  BY PendingType
<1>2. Pending = << >> <=> n = 0
  BY <1>1, PendingType, EmptySeq
<1>3. \A k \in 1..n : Pending[k].kind \in {"head", "body"}
  BY <1>1, PendingType, PartFields
<1>4. ASSUME NEW k \in 1..n
      PROVE  IF Pending'[k].kind = "head"
               THEN /\ Pending'[k + 1].kind = "body"
                    /\ Pending'[k + 1].by = Pending'[k].by
                    /\ Pending'[k + 1].id = Pending'[k].id
               ELSE Pending'[k + 1].kind = "head"
  <2>1. CASE k = n
    BY <1>1, <1>2, <1>3, <2>1
  <2>2. CASE k # n
    <3>1. k \in 1..Len(Pending) - 1 /\ k + 1 \in 1..Len(Pending)
      BY <1>1, <2>2
    <3>2. Pending'[k] = Pending[k] /\ Pending'[k + 1] = Pending[k + 1]
      BY <1>1, <3>1
    <3>. QED BY <3>1, <3>2 DEF PairsInv
  <2>. QED BY <2>1, <2>2
<1>5. ASSUME NEW j \in 1..n, Pending[j].by = e.by
      PROVE  j = n /\ Pending[j].kind = "head"
  <2>1. n # 0 /\ Pending[n].kind = "head" /\ e.by = Pending[n].by
    BY <1>1, <1>2, <1>3, <1>5
  <2>2. CASE j < n
    <3>1. n = j + 1 /\ Pending[j].kind = "head"
      BY <1>1, <1>5, <2>1, <2>2 DEF PairsInv
    <3>2. j \in 1..Len(Pending) - 1
      BY <1>1, <3>1
    <3>3. Pending[n].kind = "body"
      BY <3>1, <3>2 DEF PairsInv
    <3>. QED BY <2>1, <3>3
  <2>. QED BY <1>5, <2>1, <2>2
<1>6. ASSUME NEW j \in 1..n + 1, NEW k \in 1..n + 1, j < k,
             Pending'[j].by = Pending'[k].by
      PROVE  k = j + 1 /\ Pending'[j].kind = "head"
  <2>1. j \in 1..n /\ Pending'[j] = Pending[j]
    BY <1>1, <1>6
  <2>2. CASE k = n + 1
    BY <1>1, <1>5, <1>6, <2>1, <2>2
  <2>3. CASE k # n + 1
    <3>1. k \in 1..n /\ Pending'[k] = Pending[k]
      BY <1>1, <2>3
    <3>. QED BY <1>1, <1>6, <2>1, <3>1 DEF PairsInv
  <2>. QED BY <2>2, <2>3
<1>7. \A k \in 1..n + 1 : Pending'[k].id # Unsent'
  BY <1>1 DEF PairsInv, Unsent
<1>8. PairsInv'
  <2>1. Len(Pending') - 1 = n /\ Len(Pending') = n + 1
    BY <1>1
  <2>. QED BY <1>4, <1>6, <1>7, <2>1 DEF PairsInv
<1>9. BoundaryInv'
  <2>1. CASE n = 0
    <3>1. nodePc # "send"
      <4>1. Len(inHand) = 0
        BY <1>1, <2>1, PendingType
      <4>. QED BY <4>1 DEF NodeInv
    <3>2. Pending'[1] = e /\ e.kind = "head"
      BY <1>1, <1>2, <2>1
    <3>. QED BY <3>1, <3>2 DEF BoundaryInv
  <2>2. CASE n # 0
    <3>1. Pending'[1] = Pending[1] /\ Pending # << >>
      BY <1>1, <1>2, <2>2
    <3>. QED BY <3>1 DEF BoundaryInv
  <2>. QED BY <2>1, <2>2
<1>. QED BY <1>8, <1>9

\* dic_conn_send continues the row: nobody else can be in the middle of a
\* message, because send_mut is held.
LEMMA WireSend ==
  ASSUME Inv, WireInv, ExecInv, NEW t \in Threads, SendHead(t) \/ SendBody(t)
  PROVE  WireInv'
<1>. USE ConstantsAssumption
<1>. SUFFICES ASSUME nodePc \notin Gone
              PROVE  PairsInv' /\ BoundaryInv' /\ PendingInv' /\ TailInv'
  BY DEF WireInv, SendHead, SendBody, nodeVars
<1>0. /\ PairsInv /\ BoundaryInv /\ PendingInv /\ TailInv
      /\ TypeOK /\ MutexInv /\ NodeInv
  BY DEF WireInv, Inv
<1>1. UNCHANGED <<nodePc, inHand, link, call, execs>>
  BY DEF SendHead, SendBody, nodeVars
<1>2. PICK e \in Part : /\ Transmit(e)
                        /\ e.by = t /\ e.id = call[t]
                        /\ SendHead(t) => e = HeadPart(t)
                        /\ SendBody(t) => e = BodyPart(t)
  <2>1. ~(SendHead(t) /\ SendBody(t))
    BY DEF SendHead, SendBody, GoTo
  <2>2. CASE SendHead(t)
    <3>1. HeadPart(t) \in Part /\ HeadPart(t).by = t /\ HeadPart(t).id = call[t]
      BY <1>0, MsgType DEF HeadPart
    <3>. QED BY <2>1, <2>2, <3>1 DEF SendHead
  <2>3. CASE SendBody(t)
    <3>1. BodyPart(t) \in Part /\ BodyPart(t).by = t /\ BodyPart(t).id = call[t]
      BY <1>0, MsgType DEF BodyPart
    <3>. QED BY <2>1, <2>3, <3>1 DEF SendBody
  <2>. QED BY <2>2, <2>3
<1>3. \A s \in Threads : s # t => pc[s] # "sending" /\ pc'[s] = pc[s]
  BY <1>0 DEF MutexInv, Senders, SendHead, SendBody, GoTo, TypeOK
<1>4. /\ SendHead(t) => pc[t] = "send" /\ pc'[t] = "sending"
      /\ SendBody(t) => pc[t] = "sending" /\ pc'[t] = "lock_recv"
  BY <1>0 DEF SendHead, SendBody, GoTo, TypeOK
<1>5. ASSUME NEW k \in 1..Len(Pending), Pending[k].id = call[Pending[k].by]
      PROVE  /\ execs[Pending[k].by] = (IF Done(k) THEN 1 ELSE 0)
             /\ pc'[Pending[k].by] \notin {"lock_send", "send"}
             /\ Pending[k].kind = "body" => pc'[Pending[k].by] # "sending"
  <2>1. Pending[k].by \in Threads
    BY <1>0, PendingType, PartFields
  <2>2. /\ execs[Pending[k].by] = (IF Done(k) THEN 1 ELSE 0)
        /\ pc[Pending[k].by] \notin {"lock_send", "send"}
        /\ Pending[k].kind = "body" => pc[Pending[k].by] # "sending"
    BY <1>0, <1>5 DEF PendingInv
  <2>. QED BY <1>3, <1>4, <2>1, <2>2
<1>6. CASE link = "down"
  <2>1. Pending' = Pending
    BY <1>0, <1>1, <1>2, <1>6, PendingGrows
  <2>2. PairsInv' /\ BoundaryInv'
    BY <1>0, <1>1, <2>1 DEF PairsInv, BoundaryInv
  <2>3. PendingInv'
    BY <1>1, <1>5, <2>1 DEF PendingInv, Done
  <2>. QED BY <1>1, <1>6, <2>2, <2>3 DEF TailInv
<1>7. CASE link = "up"
  <2>1. /\ Len(Pending') = Len(Pending) + 1
        /\ \A k \in 1..Len(Pending) : Pending'[k] = Pending[k]
        /\ Pending'[Len(Pending) + 1] = e
    BY <1>0, <1>1, <1>2, <1>7, PendingGrows
  <2>2. Len(Pending) \in Nat /\ Pending \in Seq(Part)
    BY <1>0, PendingType
  <2>3. e.id # Unsent
    BY <1>2, <1>7 DEF ExecInv
  <2>4. CASE SendHead(t)
    <3>1. e.kind = "head"
      BY <1>2, <2>4 DEF HeadPart
    <3>2. Pending = << >> \/ Pending[Len(Pending)].kind = "body"
      BY <1>0, <1>3, <1>4, <1>7, <2>4 DEF TailInv
    <3>3. ASSUME NEW k \in 1..Len(Pending) PROVE Pending[k].by # t
      <4>1. InTransit(Pending[k])
        BY <1>7, UpInTransit
      <4>2. Pending[k].kind \in {"head", "body"}
        BY <1>0, PendingType, PartFields
      <4>. QED BY <1>4, <2>4, <4>1, <4>2 DEF InTransit
    <3>4. PairsInv' /\ BoundaryInv'
      BY <1>0, <1>1, <1>2, <2>1, <2>3, <3>1, <3>2, <3>3, PairsExtended
    <3>5. PendingInv'
      <4>1. execs[t] = 0
        BY <1>4, <2>4 DEF ExecInv
      <4>2. ~ Done(Len(Pending) + 1)
        BY <1>0, PendingType DEF Done
      <4>3. \A k \in 1..Len(Pending') :
              k \in 1..Len(Pending) \/ k = Len(Pending) + 1
        BY <2>1, <2>2
      <4>4. \A k : Done(k)' <=> Done(k)
        BY <1>1 DEF Done
      <4>. QED BY <1>1, <1>2, <1>4, <1>5, <2>1, <2>4, <3>1, <4>1, <4>2, <4>3,
                  <4>4 DEF PendingInv
    <3>6. TailInv'
      <4>1. Pending' # << >>
        BY <2>1, <2>2
      <4>2. HeadPart(t)' = HeadPart(t)
        BY <1>1 DEF HeadPart
      <4>. QED BY <1>2, <1>3, <1>4, <2>1, <2>4, <4>1, <4>2 DEF TailInv
    <3>. QED BY <3>4, <3>5, <3>6
  <2>5. CASE SendBody(t)
    <3>1. e.kind = "body"
      BY <1>2, <2>5 DEF BodyPart
    <3>2. Pending # << >> /\ Pending[Len(Pending)] = HeadPart(t)
      BY <1>0, <1>4, <1>7, <2>5 DEF TailInv
    <3>3. /\ Pending[Len(Pending)].kind = "head"
          /\ Pending[Len(Pending)].by = t
          /\ Pending[Len(Pending)].id = call[t]
      BY <3>2 DEF HeadPart
    <3>4. PairsInv' /\ BoundaryInv'
      BY <1>0, <1>1, <1>2, <2>1, <2>3, <3>1, <3>2, <3>3, PairsExtended
    <3>5. PendingInv'
      <4>1. execs[t] = 0
        BY <1>4, <2>5 DEF ExecInv
      <4>2. ~ Done(Len(Pending) + 1)
        BY <1>0, PendingType DEF Done
      <4>3. \A k \in 1..Len(Pending') :
              k \in 1..Len(Pending) \/ k = Len(Pending) + 1
        BY <2>1, <2>2
      <4>4. \A k : Done(k)' <=> Done(k)
        BY <1>1 DEF Done
      <4>. QED BY <1>1, <1>2, <1>4, <1>5, <2>1, <2>5, <3>1, <4>1, <4>2, <4>3,
                  <4>4 DEF PendingInv
    <3>6. TailInv'
      BY <1>3, <1>4, <2>1, <2>5, <3>1 DEF TailInv
    <3>. QED BY <3>4, <3>5, <3>6
  <2>. QED BY <2>4, <2>5
<1>. QED BY <1>0, <1>6, <1>7 DEF TypeOK

\* The node takes parts, executes the request and sends the parts back; the
\* row is only shortened, at its front.
LEMMA WireNode ==
  ASSUME Inv, WireInv, ExecInv, Node
  PROVE  WireInv'
<1>. USE ConstantsAssumption
<1>0. TypeOK /\ NodeInv
  BY DEF Inv
<1>a. CASE NodeDisconnect \/ NodeSendKills
  BY <1>a DEF WireInv, Gone, NodeDisconnect, NodeSendKills
<1>b. UNCHANGED <<pc, call, link>>
  BY DEF Node, NodeRecvHead, NodeRecvBody, NodeTakes, NodeHandle, NodeSend,
         NodeDisconnect, NodeSendKills, clientVars
<1>c. Len(inHand) \in Nat /\ Len(Pending) \in Nat /\ Pending \in Seq(Part)
  BY <1>0, PendingType
<1>2. ASSUME nodePc \notin Gone, Pending' = Pending,
             nodePc # "send", nodePc' # "send", UNCHANGED execs
      PROVE  WireInv'
  <2>0. PairsInv /\ BoundaryInv /\ PendingInv /\ TailInv
    BY <1>2 DEF WireInv
  <2>1. PairsInv' /\ BoundaryInv'
    BY <1>2, <2>0 DEF PairsInv, BoundaryInv
  <2>2. \A k : ~Done(k) /\ ~Done(k)'
    BY <1>2 DEF Done
  <2>3. PendingInv'
    BY <1>b, <1>2, <2>0, <2>2 DEF PendingInv
  <2>4. TailInv'
    BY <1>b, <1>2, <2>0 DEF TailInv, HeadPart
  <2>. QED BY <2>1, <2>3, <2>4 DEF WireInv
<1>3. CASE NodeRecvHead \/ NodeRecvBody
  <2>1. /\ toNode # << >>
        /\ inHand' = Append(inHand, Head(toNode))
        /\ toNode' = Tail(toNode)
        /\ UNCHANGED execs
        /\ nodePc \in {"recv_head", "recv_body"}
        /\ nodePc' \in {"recv_body", "handle"}
    BY <1>3 DEF NodeRecvHead, NodeRecvBody, NodeTakes
  <2>2. inHand' \o toNode' = inHand \o toNode
    BY <1>0, <2>1, MoveAlongRow DEF TypeOK
  <2>. QED BY <1>2, <2>1, <2>2 DEF Pending, Gone
<1>4. CASE NodeHandle
  <2>0. PairsInv /\ BoundaryInv /\ PendingInv /\ TailInv
    BY <1>4 DEF WireInv, NodeHandle, Gone
  <2>1. /\ nodePc = "handle" /\ nodePc' = "send" /\ UNCHANGED <<inHand, toNode>>
        /\ Pending' = Pending /\ Len(inHand) = 2
    BY <1>0, <1>4 DEF NodeHandle, NodeInv, Pending
  <2>2. 1 \in 1..Len(Pending) /\ 2 \in 1..Len(Pending) /\ Pending # << >>
    BY <1>0, <1>c, <2>1, PendingType
  <2>3. Pending[1] = inHand[1] /\ Pending[1].by \in Threads
    BY <1>0, <2>1, <2>2, PendingType, PartFields
  <2>4. Pending[1].kind = "head"
    BY <2>0, <2>1, <2>2 DEF BoundaryInv
  <2>5. Pending[2].by = Pending[1].by /\ Pending[2].id = Pending[1].id
    <3>1. 1 \in 1..Len(Pending) - 1
      BY <1>c, <2>2
    <3>2. /\ Pending[1 + 1].by = Pending[1].by
          /\ Pending[1 + 1].id = Pending[1].id
      BY <2>0, <2>4, <3>1 DEF PairsInv
    <3>. QED BY <3>2
  <2>6. PairsInv' /\ BoundaryInv'
    BY <2>0, <2>1, <2>4 DEF PairsInv, BoundaryInv
  <2>7. PendingInv'
    <3>. SUFFICES ASSUME NEW k \in 1..Len(Pending),
                         Pending[k].id = call[Pending[k].by]
                  PROVE  execs'[Pending[k].by] = (IF Done(k)' THEN 1 ELSE 0)
      BY <1>b, <2>0, <2>1 DEF PendingInv
    <3>1. execs[Pending[k].by] = 0 /\ Pending[k].by \in Threads
      BY <1>0, <2>0, <2>1, PendingType, PartFields DEF PendingInv, Done
    <3>2. CASE k <= 2
      <4>1. k = 1 \/ k = 2
        BY <1>c, <3>2
      <4>2. Pending[k].by = inHand[1].by /\ inHand[1].id = call[inHand[1].by]
        BY <2>3, <2>5, <4>1
      <4>3. execs'[Pending[k].by] = 1
        BY <1>0, <1>4, <3>1, <4>2 DEF NodeHandle, TypeOK
      <4>4. Done(k)'
        BY <2>1, <3>2 DEF Done
      <4>. QED BY <4>3, <4>4
    <3>3. CASE ~(k <= 2)
      <4>1. Pending[k].by # Pending[1].by
        <5>1. 1 < k /\ k # 1 + 1
          BY <1>c, <3>3
        <5>. QED BY <2>0, <2>2, <5>1 DEF PairsInv
      <4>2. execs'[Pending[k].by] = 0
        BY <1>0, <1>4, <2>3, <3>1, <4>1 DEF NodeHandle, TypeOK
      <4>3. ~ Done(k)'
        BY <2>1, <3>3 DEF Done
      <4>. QED BY <4>2, <4>3
    <3>. QED BY <3>2, <3>3
  <2>8. TailInv'
    BY <1>b, <2>0, <2>1 DEF TailInv, HeadPart
  <2>. QED BY <2>6, <2>7, <2>8 DEF WireInv
<1>5. CASE NodeSend
  <2>0. PairsInv /\ BoundaryInv /\ PendingInv /\ TailInv
    BY <1>5 DEF WireInv, NodeSend, Gone
  <2>1. /\ nodePc = "send" /\ UNCHANGED <<toNode, execs>>
        /\ inHand' = Tail(inHand)
        /\ nodePc' = (IF Len(inHand) = 1 THEN "recv_head" ELSE "send")
        /\ Len(inHand) \in {1, 2}
    BY <1>0, <1>5 DEF NodeSend, NodeInv
  <2>2. inHand # << >> /\ Len(inHand') = Len(inHand) - 1
    <3>1. inHand \in Seq(Part) /\ inHand # << >>
      <4>1. inHand # << >>
        BY <2>1, EmptyLength
      <4>. QED BY <1>0, <4>1 DEF TypeOK
    <3>2. Len(Tail(inHand)) = Len(inHand) - 1
      BY <3>1, HeadTailProperties
    <3>. QED BY <2>1, <3>1, <3>2
  <2>3. /\ Len(Pending') = Len(Pending) - 1
        /\ \A k \in 1..Len(Pending') : Pending'[k] = Pending[k + 1]
    BY <1>0, <2>1, <2>2, PendingShrinks
  <2>4. PICK n \in Nat : n = Len(Pending) /\ n >= Len(inHand) /\ Len(Pending') = n - 1
    BY <1>0, <1>c, <2>3, PendingType
  <2>5. \A k \in 1..n : Pending[k].kind \in {"head", "body"}
    BY <1>0, <2>4, PendingType, PartFields
  <2>6. PairsInv'
    <3>1. ASSUME NEW k \in 1..n - 2
          PROVE  IF Pending'[k].kind = "head"
                   THEN /\ Pending'[k + 1].kind = "body"
                        /\ Pending'[k + 1].by = Pending'[k].by
                        /\ Pending'[k + 1].id = Pending'[k].id
                   ELSE Pending'[k + 1].kind = "head"
      <4>1. k \in 1..n - 1 /\ k + 1 \in 1..n - 1
        BY <2>4
      <4>2. Pending'[k] = Pending[k + 1] /\ Pending'[k + 1] = Pending[(k + 1) + 1]
        BY <2>3, <2>4, <4>1
      <4>3. k + 1 \in 1..Len(Pending) - 1
        BY <2>4, <4>1
      <4>. QED BY <2>0, <4>2, <4>3 DEF PairsInv
    <3>2. ASSUME NEW j \in 1..n - 1, NEW k \in 1..n - 1, j < k,
                 Pending'[j].by = Pending'[k].by
          PROVE  k = j + 1 /\ Pending'[j].kind = "head"
      <4>1. Pending'[j] = Pending[j + 1] /\ Pending'[k] = Pending[k + 1]
        BY <2>3, <2>4
      <4>2. j + 1 \in 1..n /\ k + 1 \in 1..n /\ j + 1 < k + 1
        BY <2>4, <3>2
      <4>3. k + 1 = (j + 1) + 1 /\ Pending[j + 1].kind = "head"
        BY <2>0, <2>4, <3>2, <4>1, <4>2 DEF PairsInv
      <4>. QED BY <4>1, <4>3
    <3>3. \A k \in 1..n - 1 : Pending'[k].id # Unsent'
      <4>1. \A k \in 1..n - 1 : k + 1 \in 1..n
        BY <2>4
      <4>. QED BY <2>0, <2>3, <2>4, <4>1 DEF PairsInv, Unsent
    <3>4. Len(Pending') = n - 1 /\ Len(Pending') - 1 = n - 2
      BY <2>4
    <3>. QED BY <3>1, <3>2, <3>3, <3>4 DEF PairsInv
  <2>7. BoundaryInv'
    <3>1. CASE Pending' = << >>
      <4>1. Len(inHand') = 0 /\ nodePc' # "send"
        <5>1. n = 1
          <6>1. Len(Pending') = 0
            BY <3>1, EmptyLength
          <6>2. Len(Pending') = n - 1
            BY <2>4
          <6>. QED BY <6>1, <6>2
        <5>. QED BY <2>1, <2>2, <2>4, <5>1
      <4>. QED BY <3>1, <4>1 DEF BoundaryInv
    <3>2. CASE Pending' # << >>
      <4>1. n > 1
        <5>1. TypeOK'
          BY <1>0, TypeStep DEF Next
        <5>2. Pending' \in Seq(Part)
          <6>1. inHand' \in Seq(Part) /\ toNode' \in Seq(Part)
            BY <5>1 DEF TypeOK
          <6>. QED BY <6>1, ConcatProperties DEF Pending
        <5>3. Len(Pending') # 0
          BY <3>2, <5>2, EmptySeq
        <5>. QED BY <2>4, <5>3
      <4>2. Pending'[1] = Pending[2] /\ Pending[1 + 1] = Pending[2]
        BY <2>3, <2>4, <4>1
      <4>3. 1 \in 1..Len(Pending) - 1
        BY <2>4, <4>1
      <4>4. IF Pending[1].kind = "head" THEN Pending[2].kind = "body"
                                        ELSE Pending[2].kind = "head"
        BY <2>0, <4>2, <4>3 DEF PairsInv
      <4>5. Pending[1].kind = "head" <=> Len(inHand) = 2
        BY <2>0, <2>1 DEF BoundaryInv
      <4>6. CASE Len(inHand) = 1
        <5>1. nodePc' = "recv_head" /\ Pending'[1].kind = "head"
          BY <2>1, <4>2, <4>4, <4>5, <4>6
        <5>. QED BY <5>1 DEF BoundaryInv
      <4>7. CASE Len(inHand) = 2
        <5>1. nodePc' = "send" /\ Pending'[1].kind = "body" /\ Len(inHand') = 1
          BY <2>1, <2>2, <4>2, <4>4, <4>5, <4>7
        <5>. QED BY <5>1 DEF BoundaryInv
      <4>. QED BY <2>1, <4>6, <4>7
    <3>. QED BY <3>1, <3>2
  <2>8. PendingInv'
    <3>. SUFFICES ASSUME NEW k \in 1..n - 1,
                         Pending'[k].id = call[Pending'[k].by]
                  PROVE  /\ execs[Pending'[k].by] = (IF Done(k)' THEN 1 ELSE 0)
                         /\ pc[Pending'[k].by] \notin {"lock_send", "send"}
                         /\ Pending'[k].kind = "body" =>
                              pc[Pending'[k].by] # "sending"
      BY <1>b, <2>1, <2>4 DEF PendingInv
    <3>1. k + 1 \in 1..Len(Pending) /\ Pending'[k] = Pending[k + 1]
      BY <2>3, <2>4
    <3>2. Done(k)' <=> Done(k + 1)
      <4>1. CASE Len(inHand) = 1
        <5>1. ~ Done(k + 1)
          BY <4>1 DEF Done
        <5>. QED BY <2>1, <4>1, <5>1 DEF Done
      <4>2. CASE Len(inHand) = 2
        <5>1. Done(k + 1) <=> k + 1 <= 2
          BY <2>1, <4>2 DEF Done
        <5>2. Done(k)' <=> k <= 1
          <6>1. nodePc' = "send" /\ Len(inHand') = 1
            BY <2>1, <2>2, <4>2
          <6>. QED BY <6>1 DEF Done
        <5>. QED BY <5>1, <5>2
      <4>. QED BY <2>1, <4>1, <4>2
    <3>. QED BY <2>0, <3>1, <3>2 DEF PendingInv
  <2>9. TailInv'
    <3>. SUFFICES ASSUME link = "up" PROVE TailInv'
      BY <1>b DEF TailInv
    <3>1. CASE n = 1
      <4>1. Len(inHand) = 1 /\ Pending[1].kind # "head" /\ Pending # << >>
        <5>1. Len(inHand) = 1
          BY <2>1, <2>4, <3>1
        <5>2. Pending # << >>
          <6>1. Len(Pending) = 1
            BY <2>4, <3>1
          <6>. QED BY <6>1, EmptyLength
        <5>. QED BY <2>0, <2>1, <5>1, <5>2 DEF BoundaryInv
      <4>2. ASSUME NEW s \in Threads, pc[s] = "sending" PROVE FALSE
        <5>1. Pending[1] = HeadPart(s)
          BY <2>0, <2>4, <3>1, <4>2 DEF TailInv
        <5>2. HeadPart(s).kind = "head"
          BY DEF HeadPart
        <5>. QED BY <4>1, <5>1, <5>2
      <4>3. Pending' = << >>
        <5>1. TypeOK'
          BY <1>0, TypeStep DEF Next
        <5>2. Pending' \in Seq(Part)
          <6>1. inHand' \in Seq(Part) /\ toNode' \in Seq(Part)
            BY <5>1 DEF TypeOK
          <6>. QED BY <6>1, ConcatProperties DEF Pending
        <5>. QED BY <2>4, <3>1, <5>2, EmptySeq
      <4>. QED BY <1>b, <4>2, <4>3 DEF TailInv
    <3>2. CASE n > 1
      <4>1. Pending'[Len(Pending')] = Pending[Len(Pending)]
        <5>1. n - 1 \in 1..Len(Pending') /\ (n - 1) + 1 = n
          BY <2>4, <3>2
        <5>. QED BY <2>3, <2>4, <5>1
      <4>2. Pending' # << >> /\ Pending # << >>
        BY <2>4, <3>2, EmptySeq
      <4>. QED BY <1>b, <2>0, <4>1, <4>2 DEF TailInv, HeadPart
    <3>. QED BY <2>1, <2>4, <3>1, <3>2
  <2>. QED BY <2>6, <2>7, <2>8, <2>9 DEF WireInv
<1>. QED BY <1>a, <1>3, <1>4, <1>5 DEF Node

\* A break cuts off the end of the row, and nothing is sent after it.
LEMMA WireBreak ==
  ASSUME Inv, WireInv, Break \/ NodeCrash
  PROVE  WireInv'
<1>0. TypeOK
  BY DEF Inv
<1>1. CASE NodeCrash
  BY <1>1 DEF NodeCrash, WireInv, Gone
<1>2. CASE Break
  <2>. SUFFICES ASSUME nodePc \notin Gone
                PROVE  PairsInv' /\ BoundaryInv' /\ PendingInv' /\ TailInv'
    BY <1>2 DEF WireInv, Break, nodeVars
  <2>0. PairsInv /\ BoundaryInv /\ PendingInv
    BY DEF WireInv
  <2>1. /\ UNCHANGED <<pc, call, nodePc, inHand, execs>> /\ link' = "down"
        /\ Truncate
    BY <1>2 DEF Break, Truncate, clientVars, nodeVars
  <2>2. /\ Len(Pending') \in Len(inHand)..Len(Pending)
        /\ \A k \in 1..Len(Pending') : Pending'[k] = Pending[k]
    BY <1>0, <2>1, PendingCut
  <2>3. Len(inHand) \in Nat /\ Len(Pending) \in Nat
    BY <1>0, PendingType
  <2>4. PICK n \in Nat : n = Len(Pending') /\ n <= Len(Pending) /\ Len(inHand) <= n
    BY <2>2, <2>3
  <2>5. /\ 1..n \subseteq 1..Len(Pending)
        /\ \A k \in 1..n - 1 : k \in 1..n /\ k + 1 \in 1..n /\ k \in 1..Len(Pending) - 1
    BY <2>3, <2>4
  <2>6. PairsInv'
    <3>1. \A k \in 1..n : Pending'[k] = Pending[k]
      BY <2>2, <2>4
    <3>. QED BY <2>0, <2>4, <2>5, <3>1 DEF PairsInv, Unsent
  <2>7. BoundaryInv'
    <3>1. CASE n = 0
      <4>1. nodePc # "send"
        BY <1>0, <2>3, <2>4, <3>1 DEF Inv, NodeInv
      <4>2. Pending' = << >>
        <5>1. toNode' \in Seq(Part) /\ inHand' \in Seq(Part)
          <6>1. TypeOK'
            BY <1>0, <1>2, TypeStep DEF Next, Inv
          <6>. QED BY <6>1 DEF TypeOK
        <5>2. Pending' \in Seq(Part)
          BY <5>1, ConcatProperties DEF Pending
        <5>. QED BY <2>4, <3>1, <5>2, EmptySeq
      <4>. QED BY <2>1, <4>1, <4>2 DEF BoundaryInv
    <3>2. CASE n # 0
      <4>1. Pending'[1] = Pending[1] /\ Pending # << >>
        <5>1. 1 \in 1..Len(Pending') /\ Len(Pending) # 0
          BY <2>3, <2>4, <3>2
        <5>. QED BY <2>2, <5>1, EmptySeq
      <4>. QED BY <2>0, <2>1, <4>1 DEF BoundaryInv
    <3>. QED BY <3>1, <3>2
  <2>8. PendingInv'
    <3>1. \A k : Done(k)' <=> Done(k)
      BY <2>1 DEF Done
    <3>. QED BY <2>0, <2>1, <2>2, <2>4, <2>5, <3>1 DEF PendingInv
  <2>. QED BY <2>1, <2>6, <2>7, <2>8 DEF TailInv
<1>. QED BY <1>1, <1>2

-----------------------------------------------------------------------------
\* Steps that keep the calls, what was executed and what is on the way back.
LEMMA ExecQuiet ==
  ASSUME TypeOK, ExecInv, NEW t \in Threads, NEW to,
         pc' = [pc EXCEPT ![t] = to],
         to \in {"lock_send", "send", "sending"} =>
           pc[t] \in {"lock_send", "send", "sending"},
         UNCHANGED <<nodePc, link, call, execs, buf, toClient>>
  PROVE  ExecInv'
BY DEF ExecInv, TypeOK, Unsent

\* A call counts as executed exactly when the node has executed it: the
\* handler runs once per request, and only then are its parts sent back.
LEMMA ExecStep ==
  ASSUME Inv, Inv', WireInv, ExecInv, [Next]_vars
  PROVE  ExecInv'
<1>. USE ConstantsAssumption
<1>0. TypeOK /\ NodeInv /\ BufInv'
  BY DEF Inv
<1>z. toClient \in Seq(Part) /\ Len(toClient) \in Nat
  BY <1>0, LenProperties DEF TypeOK
<1>1. ASSUME NEW t \in Threads, Begin(t) PROVE ExecInv'
  <2>1. UNCHANGED <<nodePc, link, toClient>>
    BY <1>1 DEF Begin
  <2>2. ASSUME NEW u \in Threads
        PROVE  /\ link' = "up" => call'[u] # Unsent'
               /\ execs'[u] \in {0, 1}
               /\ pc'[u] \in {"lock_send", "send", "sending"} => execs'[u] = 0
               /\ buf'[u] # << >> => execs'[u] = 1
    <3>1. CASE u = t
      <4>1. link = "up" => call'[t] # Unsent
        <5>1. (call[t] + 1) % NumIds # NumIds
          <6>1. call[t] + 1 \in Nat /\ NumIds \in Nat \ {0}
            BY <1>0 DEF TypeOK
          <6>2. \A m \in Nat, d \in Nat \ {0} : m % d # d
            OBVIOUS
          <6>. QED BY <6>1, <6>2
        <5>. QED BY <1>0, <1>1, <5>1 DEF Begin, Unsent, TypeOK
      <4>2. execs'[t] = 0 /\ buf'[t] = << >>
        BY <1>0, <1>1 DEF Begin, TypeOK
      <4>. QED BY <2>1, <3>1, <4>1, <4>2 DEF Unsent
    <3>2. CASE u # t
      <4>1. /\ call'[u] = call[u] /\ execs'[u] = execs[u]
            /\ pc'[u] = pc[u] /\ buf'[u] = buf[u]
        BY <1>0, <1>1, <3>2 DEF Begin, GoTo, TypeOK
      <4>. QED BY <2>1, <4>1 DEF ExecInv, Unsent
    <3>. QED BY <3>1, <3>2
  <2>3. ASSUME NEW k \in 1..Len(toClient)
        PROVE  /\ toClient[k].id # Unsent
               /\ toClient[k].id = call'[toClient[k].by] =>
                    execs'[toClient[k].by] = 1
    <3>1. toClient[k].id # Unsent
      BY DEF ExecInv
    <3>2. toClient[k].by \in Threads /\ toClient[k].kind \in {"head", "body"}
      BY <1>z, ElementOfSeq, PartFields
    <3>3. toClient[k].by = t => toClient[k].id # call'[t]
      <4>1. CASE link = "up"
        <5>1. InTransit(toClient[k])
          BY <4>1, UpInTransit
        <5>. QED BY <1>1, <3>2, <5>1 DEF InTransit, Begin, GoTo
      <4>2. CASE link # "up"
        <5>1. call'[t] = Unsent
          BY <1>0, <1>1, <4>2 DEF Begin, TypeOK
        <5>. QED BY <3>1, <5>1
      <4>. QED BY <4>1, <4>2
    <3>4. toClient[k].by # t =>
            /\ call'[toClient[k].by] = call[toClient[k].by]
            /\ execs'[toClient[k].by] = execs[toClient[k].by]
      BY <1>0, <1>1, <3>2 DEF Begin, TypeOK
    <3>. QED BY <3>1, <3>3, <3>4 DEF ExecInv
  <2>. QED BY <2>1, <2>2, <2>3 DEF ExecInv, Unsent
<1>2. ASSUME NEW t \in Threads,
             \/ LockSend(t) \/ SendHead(t) \/ SendBody(t) \/ LockRecv(t)
             \/ UnlockSend(t) \/ UnlockRecv(t)
      PROVE  ExecInv'
  <2>1. UNCHANGED <<nodePc, link, call, execs, buf, toClient>>
    BY <1>2 DEF LockSend, SendHead, SendBody, LockRecv, UnlockSend,
                UnlockRecv, nodeVars
  <2>2. \E to : /\ pc' = [pc EXCEPT ![t] = to]
                /\ to \in {"lock_send", "send", "sending"} =>
                     pc[t] \in {"lock_send", "send", "sending"}
    BY <1>2 DEF LockSend, SendHead, SendBody, LockRecv, UnlockSend,
                UnlockRecv, GoTo
  <2>. QED BY <1>0, <2>1, <2>2, ExecQuiet
<1>3. ASSUME NEW t \in Threads, RecvHead(t) \/ RecvBody(t) PROVE ExecInv'
  <2>1. UNCHANGED <<nodePc, link, call, execs>> /\ ConnRecv(t)
    BY <1>3 DEF RecvHead, RecvBody, nodeVars
  <2>2. PICK to : pc' = [pc EXCEPT ![t] = to] /\ to \in {"recv_body", "unlock_recv"}
    BY <1>3 DEF RecvHead, RecvBody, GoTo
  <2>3. CASE UNCHANGED <<buf, toClient>>
    BY <1>0, <2>1, <2>2, <2>3, ExecQuiet
  <2>4. CASE /\ toClient # << >>
             /\ buf' = [buf EXCEPT ![t] = Append(@, Head(toClient))]
             /\ toClient' = Tail(toClient)
    <3>1. /\ Len(toClient') = Len(toClient) - 1
          /\ \A k \in 1..Len(toClient') :
               k + 1 \in 1..Len(toClient) /\ toClient'[k] = toClient[k + 1]
          /\ 1 \in 1..Len(toClient) /\ Head(toClient) = toClient[1]
      <4>1. /\ Len(Tail(toClient)) = Len(toClient) - 1
            /\ \A k \in 1..Len(Tail(toClient)) :
                 Tail(toClient)[k] = toClient[k + 1]
            /\ Len(toClient) # 0
        BY <1>z, <2>4, HeadTailProperties, EmptySeq
      <4>. QED BY <1>z, <2>4, <4>1
    <3>2. execs[t] = 1
      <4>1. PICK e : e = toClient[1]
        OBVIOUS
      <4>2. buf'[t] = Append(buf[t], e) /\ buf[t] \in Seq(Part)
        BY <1>0, <2>4, <3>1, <4>1 DEF TypeOK
      <4>3. e \in Part
        BY <1>z, <3>1, <4>1, ElementOfSeq
      <4>4. Len(buf'[t]) = Len(buf[t]) + 1 /\ buf'[t][Len(buf[t]) + 1] = e
        BY <4>2, <4>3, AppendProperties
      <4>5. Len(buf[t]) \in Nat
        BY <4>2, LenProperties
      <4>6. buf'[t] \in {<< >>, <<HeadPart(t)>>, <<HeadPart(t), BodyPart(t)>>}
        <5>1. HeadPart(t)' = HeadPart(t) /\ BodyPart(t)' = BodyPart(t)
          BY <2>1 DEF HeadPart, BodyPart
        <5>. QED BY <1>0, <5>1 DEF BufInv, Msg
      <4>7. e = HeadPart(t) \/ e = BodyPart(t)
        <5>1. CASE buf'[t] = << >>
          BY <4>4, <4>5, <5>1
        <5>2. CASE buf'[t] = <<HeadPart(t)>>
          BY <4>4, <4>5, <5>2
        <5>3. CASE buf'[t] = <<HeadPart(t), BodyPart(t)>>
          BY <4>4, <4>5, <5>3
        <5>. QED BY <4>6, <5>1, <5>2, <5>3
      <4>8. e.by = t /\ e.id = call[t]
        BY <4>7 DEF HeadPart, BodyPart
      <4>. QED BY <3>1, <4>1, <4>8 DEF ExecInv
    <3>3. ASSUME NEW u \in Threads
          PROVE  /\ link' = "up" => call'[u] # Unsent'
                 /\ execs'[u] \in {0, 1}
                 /\ pc'[u] \in {"lock_send", "send", "sending"} => execs'[u] = 0
                 /\ buf'[u] # << >> => execs'[u] = 1
      <4>1. CASE u = t
        <5>1. pc'[t] \notin {"lock_send", "send", "sending"}
          BY <1>0, <2>2 DEF TypeOK
        <5>. QED BY <2>1, <3>2, <4>1, <5>1 DEF ExecInv, Unsent
      <4>2. CASE u # t
        <5>1. pc'[u] = pc[u] /\ buf'[u] = buf[u]
          BY <1>0, <2>2, <2>4, <4>2 DEF TypeOK
        <5>. QED BY <2>1, <5>1 DEF ExecInv, Unsent
      <4>. QED BY <4>1, <4>2
    <3>. QED BY <2>1, <3>1, <3>3 DEF ExecInv, Unsent
  <2>. QED BY <2>1, <2>3, <2>4 DEF ConnRecv
<1>4. CASE NodeHandle
  <2>0. PairsInv /\ BoundaryInv /\ PendingInv
    BY <1>4 DEF WireInv, NodeHandle, Gone
  <2>1. /\ nodePc = "handle" /\ nodePc' = "send" /\ Len(inHand) = 2
        /\ UNCHANGED <<pc, call, buf, link, toClient>>
    BY <1>0, <1>4 DEF NodeHandle, NodeInv, clientVars
  <2>2. 1 \in 1..Len(Pending) /\ 2 \in 1..Len(Pending) /\ Pending # << >>
    BY <1>0, <2>1, PendingType
  <2>3. PICK t \in Threads : t = inHand[1].by /\ t = Pending[1].by
    BY <1>0, <2>1, <2>2, PendingType, PartFields
  <2>4. CASE inHand[1].id = call[t]
    <3>1. Pending[1].id = call[t] /\ Pending[1].kind = "head"
      BY <1>0, <2>0, <2>1, <2>2, <2>4, PendingType DEF BoundaryInv
    <3>2. Pending[2].kind = "body" /\ Pending[2].by = t /\ Pending[2].id = call[t]
      <4>1. 1 \in 1..Len(Pending) - 1
        BY <1>0, <2>2, PendingType
      <4>2. /\ Pending[1 + 1].kind = "body"
            /\ Pending[1 + 1].by = Pending[1].by
            /\ Pending[1 + 1].id = Pending[1].id
        BY <2>0, <3>1, <4>1 DEF PairsInv
      <4>. QED BY <2>3, <3>1, <4>2
    <3>3. execs[t] = 0 /\ pc[t] \notin {"lock_send", "send", "sending"}
      BY <2>0, <2>1, <2>2, <2>3, <3>1, <3>2 DEF PendingInv, Done
    <3>4. execs' = [execs EXCEPT ![t] = 1]
      BY <1>0, <1>4, <2>3, <2>4, <3>3 DEF NodeHandle, TypeOK
    <3>5. /\ execs'[t] = 1
          /\ \A u \in Threads : u # t => execs'[u] = execs[u]
      BY <1>0, <3>4 DEF TypeOK
    <3>6. \A k \in 1..Len(toClient) : toClient[k].by \in Threads
      BY <1>z, ElementOfSeq, PartFields
    <3>. QED BY <2>1, <3>3, <3>5, <3>6 DEF ExecInv, Unsent, Gone
  <2>5. CASE inHand[1].id # call[t]
    <3>1. execs' = execs
      BY <1>0, <1>4, <2>3, <2>5 DEF NodeHandle, TypeOK
    <3>. QED BY <2>1, <3>1 DEF ExecInv, Unsent, Gone
  <2>. QED BY <2>4, <2>5
<1>5. CASE NodeSend
  <2>0. PairsInv /\ PendingInv
    BY <1>5 DEF WireInv, NodeSend, Gone
  <2>1. /\ nodePc = "send" /\ nodePc' \notin Gone /\ Len(inHand) \in {1, 2}
        /\ UNCHANGED <<pc, call, buf, link, execs>>
    BY <1>0, <1>5 DEF NodeSend, NodeInv, clientVars, Gone
  <2>2. CASE toClient' = toClient
    BY <2>1, <2>2 DEF ExecInv, Unsent
  <2>3. CASE toClient' = Append(toClient, Head(inHand))
    <3>1. Head(inHand) = Pending[1] /\ 1 \in 1..Len(Pending) /\ Done(1)
      <4>1. Len(inHand) \in Nat /\ Len(toNode) \in Nat /\ 1 <= Len(inHand)
        <5>1. 1 <= Len(inHand)
          BY <2>1
        <5>. QED BY <1>0, <5>1, PendingType
      <4>2. 1 \in 1..Len(Pending) /\ Pending[1] = inHand[1]
        BY <1>0, <4>1, PendingType
      <4>3. inHand # << >>
        BY <2>1, EmptyLength
      <4>4. Head(inHand) = inHand[1]
        BY <1>0, <4>3 DEF TypeOK
      <4>. QED BY <2>1, <4>1, <4>2, <4>4 DEF Done
    <3>2. Pending[1] \in Part
      BY <1>0, <3>1, PendingType
    <3>3. /\ Len(toClient') = Len(toClient) + 1
          /\ \A k \in 1..Len(toClient) : toClient'[k] = toClient[k]
          /\ toClient'[Len(toClient) + 1] = Pending[1]
      BY <1>z, <2>3, <3>1, <3>2, AppendProperties
    <3>4. /\ Pending[1].id # Unsent
          /\ Pending[1].id = call[Pending[1].by] => execs[Pending[1].by] = 1
      BY <2>0, <3>1 DEF PairsInv, PendingInv
    <3>5. \A k \in 1..Len(toClient') :
            k \in 1..Len(toClient) \/ k = Len(toClient) + 1
      BY <1>z, <3>3
    <3>. QED BY <2>1, <3>3, <3>4, <3>5 DEF ExecInv, Unsent
  <2>. QED BY <1>5, <2>2, <2>3 DEF NodeSend
<1>6. CASE Break \/ NodeCrash
  <2>1. PICK n \in 0..Len(toClient) : toClient' = SubSeq(toClient, 1, n)
    BY <1>6 DEF Break, NodeCrash, Truncate
  <2>2. /\ Len(toClient') = n
        /\ \A k \in 1..n : k \in 1..Len(toClient) /\ toClient'[k] = toClient[k]
    <3>1. \A i \in 1..n : toClient[i] \in Part
      BY <1>z, ElementOfSeq
    <3>. QED BY <1>z, <2>1, <3>1, SubSeqProperties
  <2>3. link' = "down" /\ UNCHANGED <<pc, call, buf, execs>>
    BY <1>6 DEF Break, NodeCrash, Truncate, clientVars, nodeVars
  <2>. QED BY <2>2, <2>3 DEF ExecInv, Unsent
<1>7. CASE NodeRecvHead \/ NodeRecvBody \/ NodeDisconnect \/ NodeSendKills
  <2>1. /\ UNCHANGED <<pc, call, buf, link, toClient, execs>>
        /\ nodePc' \in Gone => link = "down"
    BY <1>7 DEF NodeRecvHead, NodeRecvBody, NodeTakes, NodeDisconnect,
                NodeSendKills, clientVars, Gone
  <2>. QED BY <2>1 DEF ExecInv, Unsent
<1>8. ASSUME (\E t \in Threads : SendKills(t)) \/ UNCHANGED vars
      PROVE  ExecInv'
  <2>1. UNCHANGED <<nodePc, pc, call, buf, link, toClient, execs>>
    BY <1>8 DEF SendKills, vars, clientVars, nodeVars
  <2>. QED BY <2>1 DEF ExecInv, Unsent
<1>. QED BY <1>1, <1>2, <1>3, <1>4, <1>5, <1>6, <1>7, <1>8
         DEF Next, Proceed, Node

\* The parts that are pending stay whole messages.
LEMMA WireStep ==
  ASSUME Inv, WireInv, ExecInv, [Next]_vars
  PROVE  WireInv'
<1>0. TypeOK
  BY DEF Inv
<1>1. ASSUME NEW t \in Threads, Begin(t) PROVE WireInv'
  BY <1>1, WireBegin
<1>2. ASSUME NEW t \in Threads, SendHead(t) \/ SendBody(t) PROVE WireInv'
  BY <1>2, WireSend
<1>3. ASSUME NEW t \in Threads,
             \/ LockSend(t) \/ LockRecv(t) \/ UnlockSend(t) \/ RecvHead(t)
             \/ RecvBody(t) \/ UnlockRecv(t)
      PROVE  WireInv'
  <2>1. \E to : Quiet(t, to)
    BY <1>3 DEF LockSend, LockRecv, UnlockSend, RecvHead, RecvBody, UnlockRecv,
                GoTo, Quiet, nodeVars
  <2>. QED BY <1>0, <2>1, WireQuiet
<1>4. ASSUME (\E t \in Threads : SendKills(t)) \/ UNCHANGED vars
      PROVE  WireInv'
  <2>1. UNCHANGED <<nodePc, pc, call, link, inHand, toNode, execs>>
    BY <1>4 DEF SendKills, vars, clientVars, nodeVars
  <2>2. Pending' = Pending
    BY <2>1 DEF Pending
  <2>. QED BY <2>1, <2>2 DEF WireInv, PairsInv, BoundaryInv, PendingInv, TailInv,
                           Done, HeadPart, Unsent
<1>. QED BY <1>1, <1>2, <1>3, <1>4, WireNode, WireBreak DEF Next, Proceed

FullInv == Inv /\ WireInv /\ ExecInv

\* Inv, WireInv and ExecInv together are an invariant.
THEOREM FullInvariance == Spec => []FullInv
<1>. USE ConstantsAssumption
<1>1. Init => FullInv
  <2>. SUFFICES ASSUME Init PROVE FullInv
    OBVIOUS
  <2>1. << >> \o << >> = << >> /\ Len(<< >>) = 0
    BY EmptySeq, ConcatEmptySeq
  <2>2. Pending = << >>
    BY <2>1 DEF Init, Pending
  <2>3. WireInv
    BY <2>1, <2>2 DEF Init, WireInv, PairsInv, BoundaryInv, PendingInv, TailInv
  <2>4. ExecInv
    BY <2>1 DEF Init, ExecInv, Gone, Unsent
  <2>. QED BY <2>3, <2>4, InitInv DEF FullInv
<1>2. FullInv /\ [Next]_vars => FullInv'
  <2>. SUFFICES ASSUME FullInv, [Next]_vars PROVE FullInv'
    OBVIOUS
  <2>1. Inv'
    BY TypeStep, NodeStep, MutexStep, StreamStep DEF Inv, FullInv
  <2>. QED BY <2>1, WireStep, ExecStep DEF FullInv
<1>. QED BY <1>1, <1>2, PTL DEF Spec

-----------------------------------------------------------------------------
\* The node only ever executes one whole request of one call, for any number
\* of threads; while the connection is up its caller is waiting for it and it
\* has not been executed before.
THEOREM WholeRequestsExecuted == Spec => []RequestsFramed
<1>1. FullInv => RequestsFramed
  <2>. SUFFICES ASSUME FullInv, nodePc = "handle" PROVE RequestsFramed
    BY DEF RequestsFramed
  <2>0. /\ Inv /\ TypeOK /\ NodeInv
        /\ PairsInv /\ BoundaryInv /\ PendingInv
    BY DEF FullInv, Inv, WireInv, Gone
  <2>1. inHand \in Seq(Part) /\ Len(inHand) = 2
    BY <2>0 DEF TypeOK, NodeInv
  <2>2. /\ 1 \in 1..Len(Pending) /\ 2 \in 1..Len(Pending)
        /\ 1 \in 1..Len(Pending) - 1 /\ Pending # << >>
    BY <2>0, <2>1, PendingType
  <2>3. /\ Pending[1] = inHand[1] /\ Pending[2] = inHand[2]
        /\ inHand[1] \in Part /\ inHand[2] \in Part
    BY <2>0, <2>1, <2>2, PendingType
  <2>4. PICK t \in Threads, i \in 0..NumIds :
          inHand[1] = [kind |-> "head", by |-> t, id |-> i]
    <3>1. inHand[1].kind = "head"
      BY <2>0, <2>2, <2>3 DEF BoundaryInv
    <3>. QED BY <2>3, <3>1 DEF Part
  <2>5. inHand[2] = [kind |-> "body", by |-> t, id |-> i]
    <3>1. Pending[1].kind = "head" /\ Pending[1].by = t /\ Pending[1].id = i
      BY <2>3, <2>4
    <3>2. /\ Pending[1 + 1].kind = "body" /\ Pending[1 + 1].by = t
          /\ Pending[1 + 1].id = i
      BY <2>0, <2>2, <3>1 DEF PairsInv
    <3>3. inHand[2].kind = "body" /\ inHand[2].by = t /\ inHand[2].id = i
      BY <2>3, <3>2
    <3>. QED BY <2>3, <3>3 DEF Part
  <2>6. i \in 0..NumIds - 1
    <3>1. i # NumIds
      BY <2>0, <2>2, <2>3, <2>4 DEF PairsInv, Unsent
    <3>. QED BY <3>1, ConstantsAssumption
  <2>7. inHand = <<[kind |-> "head", by |-> t, id |-> i],
                   [kind |-> "body", by |-> t, id |-> i]>>
    <3>1. PICK h, b : /\ h = [kind |-> "head", by |-> t, id |-> i]
                      /\ b = [kind |-> "body", by |-> t, id |-> i]
      OBVIOUS
    <3>2. inHand = <<h, b>>
      BY <2>1, <2>4, <2>5, <3>1
    <3>. QED BY <3>1, <3>2
  <2>8. ASSUME link = "up"
        PROVE  /\ i = call[t]
               /\ execs[t] = 0
               /\ pc[t] \in {"lock_recv", "unlock_send", "recv_head"}
    <3>1. InTransit(inHand[1]) /\ InTransit(inHand[2])
      BY <2>0, <2>2, <2>3, <2>8, UpInTransit
    <3>2. i = call[t]
      <4>1. inHand[1].by = t /\ inHand[1].id = i
        BY <2>4
      <4>2. HeadPart(t).id = call[t] /\ BodyPart(t).id = call[t]
        BY DEF HeadPart, BodyPart
      <4>. QED BY <3>1, <4>1, <4>2 DEF InTransit
    <3>3. execs[t] = 0
      <4>1. Pending[1].by = t /\ Pending[1].id = call[t] /\ ~ Done(1)
        BY <2>3, <2>4, <3>2 DEF Done
      <4>. QED BY <2>0, <2>2, <4>1 DEF PendingInv
    <3>4. pc[t] \in {"lock_recv", "unlock_send", "recv_head"}
      BY <2>4, <2>5, <3>1 DEF InTransit
    <3>. QED BY <3>2, <3>3, <3>4
  <2>. QED BY <2>6, <2>7, <2>8 DEF RequestsFramed
<1>. QED BY <1>1, FullInvariance, PTL

-----------------------------------------------------------------------------
(***************************************************************************)
(* The refinement.  A step of the protocol is a Call when it begins a      *)
(* call, an Execute when the node handles the request of a call that is    *)
(* still waiting, a Return or a Fail when it ends a call, a Break when the *)
(* connection breaks, and invisible otherwise.                             *)
(***************************************************************************)

\* What a thread sees of its call changes with the pc of the thread, between
\* idle and not idle, and with execs only.
LEMMA StageUnchanged ==
  ASSUME TypeOK,
         \A u \in Threads :
           /\ pc'[u] = "idle" <=> pc[u] = "idle"
           /\ pc[u] # "idle" => execs'[u] = execs[u]
           /\ pc[u] = "idle" => buf'[u] = buf[u] /\ call'[u] = call[u]
  PROVE  Stage' = Stage /\ Answer' = Answer
<1>1. ASSUME NEW u \in Threads
      PROVE  /\ Stage'[u] = Stage[u]
             /\ Answer'[u] = Answer[u]
  <2>1. pc[u] = "idle" => Msg(u)' = Msg(u)
    BY DEF Msg, HeadPart, BodyPart
  <2>. QED BY <2>1 DEF Stage, Answer
<1>. QED BY <1>1 DEF Stage, Answer

\* Every step of the protocol is a step of RemoteCalls or leaves it alone.
LEMMA RefinementStep ==
  ASSUME FullInv, FullInv', [Next]_vars
  PROVE  [Calls!Next]_Calls!vars
<1>. USE ConstantsAssumption
<1>0. TypeOK /\ BufInv /\ ExecInv /\ WireInv
  BY DEF FullInv, Inv
<1>s. ASSUME Stage' = Stage, Answer' = Answer, link' = link
      PROVE  [Calls!Next]_Calls!vars
  BY <1>s DEF Calls!vars
<1>1. ASSUME NEW t \in Threads, Begin(t) PROVE Calls!Call(t)
  <2>1. Stage[t] = "idle"
    BY <1>1 DEF Stage, Begin, GoTo
  <2>2. ASSUME NEW u \in Threads, u # t
        PROVE  Stage'[u] = Stage[u] /\ Answer'[u] = Answer[u]
    <3>1. pc'[u] = pc[u] /\ execs'[u] = execs[u] /\ buf'[u] = buf[u] /\ call'[u] = call[u]
      BY <1>0, <1>1, <2>2 DEF Begin, GoTo, TypeOK
    <3>2. Msg(u)' = Msg(u)
      BY <3>1 DEF Msg, HeadPart, BodyPart
    <3>. QED BY <3>1, <3>2 DEF Stage, Answer
  <2>3. pc'[t] = "lock_send" /\ execs'[t] = 0
    BY <1>0, <1>1 DEF Begin, GoTo, TypeOK
  <2>4. Stage'[t] = "called" /\ Answer'[t] = "undefined"
    BY <2>3 DEF Stage, Answer
  <2>5. Stage' = [Stage EXCEPT ![t] = "called"]
    BY <2>2, <2>4 DEF Stage
  <2>6. Answer' = [Answer EXCEPT ![t] = "undefined"]
    BY <2>2, <2>4 DEF Answer
  <2>7. link' = link
    BY <1>1 DEF Begin
  <2>. QED BY <2>1, <2>5, <2>6, <2>7 DEF Calls!Call
<1>2. ASSUME NEW t \in Threads,
             \/ LockSend(t) \/ SendHead(t) \/ SendBody(t) \/ LockRecv(t)
             \/ UnlockSend(t) \/ RecvHead(t) \/ RecvBody(t)
      PROVE  [Calls!Next]_Calls!vars
  <2>1. UNCHANGED <<link, execs, call>>
    BY <1>2 DEF LockSend, SendHead, SendBody, LockRecv, UnlockSend, RecvHead,
                RecvBody, nodeVars
  <2>2. \A u \in Threads : pc'[u] = "idle" <=> pc[u] = "idle"
    BY <1>0, <1>2 DEF LockSend, SendHead, SendBody, LockRecv, UnlockSend,
                      RecvHead, RecvBody, GoTo, TypeOK
  <2>3. \A u \in Threads : pc[u] = "idle" => buf'[u] = buf[u]
    BY <1>0, <1>2 DEF LockSend, SendHead, SendBody, LockRecv, UnlockSend,
                      RecvHead, RecvBody, ConnRecv, GoTo, TypeOK
  <2>. QED BY <1>0, <1>s, <2>1, <2>2, <2>3, StageUnchanged
<1>3. ASSUME NEW t \in Threads, UnlockRecv(t)
      PROVE  Calls!Return(t) \/ Calls!Fail(t)
  <2>1. /\ pc[t] = "unlock_recv" /\ pc' = [pc EXCEPT ![t] = "idle"]
        /\ UNCHANGED <<link, execs, call, buf>>
    BY <1>3 DEF UnlockRecv, GoTo, nodeVars
  <2>2. pc'[t] = "idle" /\ \A u \in Threads : u # t => pc'[u] = pc[u]
    BY <1>0, <2>1 DEF TypeOK
  <2>3. \A u \in Threads : Msg(u)' = Msg(u)
    BY <2>1 DEF Msg, HeadPart, BodyPart
  <2>4. \A u \in Threads : u # t => Stage'[u] = Stage[u] /\ Answer'[u] = Answer[u]
    BY <2>1, <2>2, <2>3 DEF Stage, Answer
  <2>5. Stage' = [Stage EXCEPT ![t] = "idle"]
    <3>1. Stage'[t] = "idle"
      BY <2>2 DEF Stage
    <3>. QED BY <2>4, <3>1 DEF Stage
  <2>6. Answer[t] = "undefined" /\ Stage[t] # "idle"
    BY <2>1 DEF Answer, Stage
  <2>7. CASE buf[t] = Msg(t)
    <3>1. execs[t] = 1
      <4>1. Msg(t) # << >>
        BY DEF Msg
      <4>. QED BY <1>0, <2>7, <4>1 DEF ExecInv
    <3>2. Stage[t] = "executed"
      BY <2>1, <3>1 DEF Stage
    <3>3. Answer'[t] = "own"
      BY <2>1, <2>2, <2>3, <2>7 DEF Answer
    <3>4. Answer' = [Answer EXCEPT ![t] = "own"]
      BY <2>4, <3>3 DEF Answer
    <3>. QED BY <2>1, <2>5, <3>2, <3>4 DEF Calls!Return
  <2>8. CASE buf[t] # Msg(t)
    <3>1. link = "down"
      BY <1>0, <2>1, <2>8 DEF BufInv
    <3>2. Answer'[t] = "undefined"
      BY <2>1, <2>3, <2>8 DEF Answer
    <3>3. Answer' = Answer
      BY <2>4, <2>6, <3>2 DEF Answer
    <3>. QED BY <2>1, <2>5, <2>6, <3>1, <3>3 DEF Calls!Fail
  <2>. QED BY <2>7, <2>8
<1>4. CASE NodeHandle
  <2>1. UNCHANGED <<pc, call, buf, link>>
    BY <1>4 DEF NodeHandle, clientVars
  <2>2. PICK t : t = inHand[1].by
    OBVIOUS
  <2>3. \A u \in Threads : u # t => execs'[u] = execs[u]
    BY <1>0, <1>4, <2>2 DEF NodeHandle, TypeOK
  <2>4. CASE \A u \in Threads : execs'[u] = execs[u]
    BY <1>0, <1>s, <2>1, <2>4, StageUnchanged
  <2>5. CASE \E u \in Threads : execs'[u] # execs[u]
    <3>1. t \in Threads /\ execs'[t] # execs[t]
      BY <2>3, <2>5
    <3>2. execs'[t] = execs[t] + 1
      BY <1>0, <1>4, <2>2, <3>1 DEF NodeHandle, TypeOK
    <3>3. execs[t] \in {0, 1} /\ execs'[t] \in {0, 1}
      BY <1>0, <3>1 DEF FullInv, ExecInv
    <3>4. execs[t] = 0 /\ execs'[t] = 1
      BY <3>2, <3>3
    <3>5. CASE pc[t] = "idle"
      BY <1>0, <1>s, <2>1, <2>3, <3>5, StageUnchanged
    <3>6. CASE pc[t] # "idle"
      <4>1. Stage[t] = "called" /\ Stage'[t] = "executed"
        BY <2>1, <3>1, <3>4, <3>6 DEF Stage
      <4>2. \A u \in Threads : u # t => Stage'[u] = Stage[u]
        BY <2>1, <2>3 DEF Stage
      <4>3. Stage' = [Stage EXCEPT ![t] = "executed"]
        BY <4>1, <4>2 DEF Stage
      <4>4. Answer' = Answer
        BY <2>1 DEF Answer, Msg, HeadPart, BodyPart
      <4>5. Calls!Execute(t)
        BY <2>1, <4>1, <4>3, <4>4 DEF Calls!Execute
      <4>. QED BY <3>1, <4>5 DEF Calls!Next
    <3>. QED BY <3>5, <3>6
  <2>. QED BY <2>4, <2>5
<1>5. CASE Break \/ NodeCrash
  <2>1. UNCHANGED <<pc, call, buf, execs>> /\ link = "up" /\ link' = "down"
    BY <1>5 DEF Break, NodeCrash, Truncate, clientVars, nodeVars
  <2>2. Stage' = Stage /\ Answer' = Answer
    BY <1>0, <2>1, StageUnchanged
  <2>3. Calls!Break
    BY <2>1, <2>2 DEF Calls!Break
  <2>. QED BY <2>3 DEF Calls!Next
<1>6. ASSUME \/ NodeRecvHead \/ NodeRecvBody \/ NodeSend \/ NodeDisconnect
             \/ NodeSendKills \/ (\E t \in Threads : SendKills(t))
             \/ UNCHANGED vars
      PROVE  [Calls!Next]_Calls!vars
  <2>1. UNCHANGED <<pc, call, buf, execs, link>>
    BY <1>6 DEF NodeRecvHead, NodeRecvBody, NodeTakes, NodeSend, NodeDisconnect,
                NodeSendKills, SendKills, vars, clientVars, nodeVars
  <2>. QED BY <1>0, <1>s, <2>1, StageUnchanged
<1>. QED BY <1>1, <1>2, <1>3, <1>4, <1>5, <1>6
         DEF Next, Proceed, Node, Calls!Next

\* dic_atomic_send_recv implements RemoteCalls for any number of threads: a
\* call is executed at most once and comes back with its own answer, or with
\* an undefined one after a break.
THEOREM ProtocolImplementsCalls == Spec => ImplementsRemoteCalls
<1>1. Init => Calls!Init
  <2>. SUFFICES ASSUME Init PROVE Calls!Init
    OBVIOUS
  <2>1. \A t \in Threads : Msg(t) # << >>
    BY DEF Msg
  <2>. QED BY <2>1 DEF Init, Calls!Init, Stage, Answer
<1>2. FullInv /\ FullInv' /\ [Next]_vars => [Calls!Next]_Calls!vars
  BY RefinementStep
<1>. QED BY <1>1, <1>2, FullInvariance, PTL DEF Spec, ImplementsRemoteCalls, Calls!Spec
=============================================================================
