------------------------- MODULE MainServer_proofs -------------------------
(***************************************************************************)
(* For any number of nodes and clients: the types, that the list of the    *)
(* main server never points to freed memory, what is on the list and in    *)
(* the answers, and that the server implements Registry.                   *)
(*                                                                         *)
(* The argument has three layers.  A peer sends what the protocol says, so *)
(* the handler of a node takes at most one announcement and allocates at   *)
(* most one cell; a cell is allocated as long as its handler is there to   *)
(* free it; and since only the owner of the mutex changes the list, the    *)
(* cell at which the walk of append_info ended is still the last one when  *)
(* the new cell is linked behind it.                                       *)
(*                                                                         *)
(* What is on the list needs more: List is the least set that holds the    *)
(* first cell and the next of each of its cells.  Linking a cell behind    *)
(* the last one adds that cell, and removing one takes it away, or         *)
(* everything if it was the first.                                         *)
(***************************************************************************)
EXTENDS MainServer, SequenceTheorems, FiniteSetTheorems, FunctionTheorems,
        TLAPS

Announcing == {"push_lock", "push_body"}
Answering == {"ack_head", "ack_body", "walk", "link"}
Getting == {"get_lock", "count", "copy", "list_head", "list_body"}
Removing == {"rm_lock", "remove"}

Locked == {"push_body", "ack_head", "ack_body", "walk", "link", "count", "copy",
           "list_head", "list_body", "remove"}

\* The owner of the mutex is the handler between lock and unlock.
MutexInv == \A c \in Conns : mutex = c <=> h[c] \in Locked

\* There is a handler as long as there is a connection, and a socket is only
\* closed after the peer has gone.
ConnInv ==
  \A c \in Conns :
    /\ h[c] = "none" <=> peer[c] = "off"
    /\ h[c] = "none" => inq[c] = << >> /\ ~isNode[c]
    /\ h[c] # "none" /\ fd[c] = "closed" => peer[c] = "gone" /\ inq[c] = << >>
    /\ h[c] \in Removing => isNode[c]
    /\ h[c] \in Removing \cup {"destroy"} => peer[c] = "gone" /\ inq[c] = << >>

\* A node announces itself once.
NodeInv ==
  \A c \in Nodes :
    /\ h[c] \notin Getting
    /\ peer[c] # "asked"
    /\ isNode[c] => inq[c] = << >> /\ peer[c] \notin {"up", "half"}
    /\ h[c] = "head" =>
         inq[c] \in {<< >>, <<"announce">>, <<"announce", "body">>}
    /\ h[c] \in Announcing => ~isNode[c] /\ inq[c] \in {<< >>, <<"body">>}
    /\ h[c] \in Answering => ~isNode[c] /\ inq[c] = << >>
    /\ peer[c] = "up" => h[c] = "head" /\ inq[c] = << >>
    /\ peer[c] = "half" => \/ h[c] = "head" /\ inq[c] = <<"announce">>
                           \/ h[c] \in Announcing /\ inq[c] = << >>

\* A client only asks.
ClientInv ==
  \A c \in Clients :
    /\ ~isNode[c]
    /\ h[c] \notin Announcing \cup Answering
    /\ peer[c] \notin {"half", "sent", "online"}
    /\ inq[c] \in Seq({"get"})

\* A cell is allocated as long as its handler is there to free it.
LiveInv == \A c \in Conns : c \in live <=> isNode[c] /\ h[c] # "destroy"

\* The links of allocated cells.
LinksInv ==
  /\ first # NULL => first \in live /\ prev[first] = NULL
  /\ \A x \in live :
       /\ next[x] # NULL => next[x] \in live /\ prev[next[x]] = x
       /\ prev[x] # NULL => prev[x] \in live /\ next[prev[x]] = x

\* Where the walk has ended is still the end.
WalkInv ==
  \A c \in Conns :
    h[c] = "link" => IF curr[c] = NULL THEN first = NULL
                     ELSE curr[c] \in live /\ next[curr[c]] = NULL

Inv ==
  /\ TypeOK
  /\ MutexInv
  /\ ConnInv
  /\ NodeInv
  /\ ClientInv
  /\ LiveInv
  /\ LinksInv
  /\ WalkInv

-----------------------------------------------------------------------------
(***************************************************************************)
(* Helpers.                                                                *)
(***************************************************************************)
Message == {"announce", "body", "get"}

\* A walk over the list meets allocated cells only.
LEMMA ListIsLive ==
  ASSUME TypeOK, LinksInv
  PROVE  List \subseteq live
<1>1. live \in SUBSET Conns /\ ClosedUnderNext(live)
  BY DEF TypeOK, LinksInv, ClosedUnderNext
<1>. QED BY <1>1 DEF List

\* The list is finite.
LEMMA ListIsFinite == Cardinality(List) \in Nat
<1>1. List \subseteq Conns
  BY DEF List
<1>. QED BY <1>1, ConstantsAssumption, FS_Subset, FS_CardinalityType

\* The streams of a node, part by part.
LEMMA Announcement ==
  /\ Append(<< >>, "announce") = <<"announce">>
  /\ Append(<<"announce">>, "body") = <<"announce", "body">>
  /\ Append(<< >>, "body") = <<"body">>
  /\ Head(<<"announce">>) = "announce" /\ Tail(<<"announce">>) = << >>
  /\ Head(<<"announce", "body">>) = "announce"
  /\ Tail(<<"announce", "body">>) = <<"body">>
  /\ Tail(<<"body">>) = << >>
<1>1. Append(<< >>, "announce") = <<"announce">>
  OBVIOUS
<1>2. Append(<<"announce">>, "body") = <<"announce", "body">>
  <2>1. <<"announce">> \in Seq(Message) /\ "body" \in Message
    BY DEF Message
  <2>2. Append(<<"announce">>, "body") = <<"announce">> \o <<"body">>
    BY <2>1, AppendIsConcat
  <2>3. PICK m : m = <<"announce", "body">>
    OBVIOUS
  <2>4. m = <<"announce">> \o <<"body">>
    BY <2>3
  <2>. QED BY <2>2, <2>3, <2>4
<1>3. Append(<< >>, "body") = <<"body">>
  OBVIOUS
<1>4. Head(<<"announce">>) = "announce" /\ Tail(<<"announce">>) = << >>
  OBVIOUS
<1>5. Head(<<"announce", "body">>) = "announce"
  OBVIOUS
<1>6. Tail(<<"announce", "body">>) = <<"body">>
  OBVIOUS
<1>7. Tail(<<"body">>) = << >>
  OBVIOUS
<1>. QED BY <1>1, <1>2, <1>3, <1>4, <1>5, <1>6, <1>7

\* What is left of them when the peer leaves.
LEMMA Truncation ==
  ASSUME NEW S, NEW s \in Seq(S), NEW n \in 0..Len(s)
  PROVE  /\ SubSeq(s, 1, n) \in Seq(S)
         /\ s = << >> => SubSeq(s, 1, n) = << >>
         /\ s = <<"body">> => SubSeq(s, 1, n) \in {<< >>, <<"body">>}
         /\ s = <<"announce">> => SubSeq(s, 1, n) \in {<< >>, <<"announce">>}
         /\ s = <<"announce", "body">> =>
              SubSeq(s, 1, n) \in {<< >>, <<"announce">>, <<"announce", "body">>}
<1>1. Len(s) \in Nat /\ \A i \in 1..Len(s) : s[i] \in S
  BY LenProperties, ElementOfSeq
<1>2. SubSeq(s, 1, n) \in Seq(S)
  BY <1>1, SubSeqProperties
<1>3. n = 0 => SubSeq(s, 1, n) = << >>
  BY SubSeqEmpty
<1>4. n = Len(s) => SubSeq(s, 1, n) = s
  BY SubSeqFull
<1>5. s = << >> => n = 0
  BY EmptySeq
<1>6. s = <<"body">> => n \in {0, Len(s)}
  OBVIOUS
<1>7. s = <<"announce">> => n \in {0, Len(s)}
  OBVIOUS
<1>8. s = <<"announce", "body">> => n \in {0, 1, Len(s)}
  OBVIOUS
<1>9. s = <<"announce", "body">> /\ n = 1 => SubSeq(s, 1, n) = <<"announce">>
  <2>. SUFFICES ASSUME s = <<"announce", "body">>
                PROVE  SubSeq(s, 1, 1) = <<"announce">>
    OBVIOUS
  <2>1. Len(s) = 2 /\ s[1] = "announce"
    OBVIOUS
  <2>2. SubSeq(s, 1, 1) = <<s[1]>> \o SubSeq(s, 2, 1)
    <3>1. 1 \in 1..Len(s) /\ 1 \in 1..Len(s) /\ 1 + 1 = 2
      BY <2>1
    <3>. QED BY <3>1, SubSeqRecursiveFirst
  <2>3. SubSeq(s, 2, 1) = << >>
    BY SubSeqEmpty
  <2>4. <<"announce">> \o << >> = <<"announce">>
    <3>1. <<"announce">> \in Seq(Message)
      BY DEF Message
    <3>. QED BY <3>1, ConcatEmptySeq
  <2>. QED BY <2>1, <2>2, <2>3, <2>4
<1>. QED BY <1>2, <1>3, <1>4, <1>5, <1>6, <1>7, <1>8, <1>9

-----------------------------------------------------------------------------
(***************************************************************************)
(* Types and the mutex.                                                    *)
(***************************************************************************)

\* Every step keeps the types.
LEMMA TypeStep == TypeOK /\ [Next]_vars => TypeOK'
<1>. SUFFICES ASSUME TypeOK, [Next]_vars PROVE TypeOK'
  OBVIOUS
<1>. USE ConstantsAssumption
<1>1. ASSUME NEW c \in Conns, Peer(c) PROVE TypeOK'
  <2>1. CASE Accept(c)
    BY <2>1 DEF TypeOK, Accept, handlerVars, listVars
  <2>2. ASSUME NEW from, NEW to \in {"half", "sent", "asked"},
               NEW message \in {"announce", "body", "get"},
               PeerSends(c, from, to, message)
        PROVE  TypeOK'
    <3>1. Append(inq[c], message) \in Seq({"announce", "body", "get"})
      BY AppendProperties DEF TypeOK
    <3>2. inq' \in [Conns -> Seq({"announce", "body", "get"})]
      BY <2>2, <3>1 DEF TypeOK, PeerSends
    <3>. QED BY <2>2, <3>2 DEF TypeOK, PeerSends, connVars, handlerVars, listVars
  <2>3. CASE Announce(c) \/ AnnounceBody(c) \/ Ask(c)
    BY <2>2, <2>3 DEF Announce, AnnounceBody, Ask
  <2>4. CASE GetHead(c) \/ GetBody(c)
    <3>1. out' = [out EXCEPT ![c] = out[c] - 1] /\ out[c] > 0
      BY <2>4 DEF GetHead, GetBody, PeerReads
    <3>2. out \in [Conns -> 0..Cap] /\ out[c] - 1 \in 0..Cap
      BY <3>1 DEF TypeOK
    <3>3. out' \in [Conns -> 0..Cap]
      BY <3>1, <3>2
    <3>. QED BY <2>4, <3>3
             DEF TypeOK, GetHead, GetBody, PeerReads, connVars, handlerVars, listVars
  <2>5. CASE Leave(c)
    <3>1. \A n \in 0..Len(inq[c]) :
            SubSeq(inq[c], 1, n) \in Seq({"announce", "body", "get"})
      BY Truncation DEF TypeOK
    <3>2. inq' \in [Conns -> Seq({"announce", "body", "get"})]
      BY <2>5, <3>1 DEF TypeOK, Leave
    <3>. QED BY <2>5, <3>2 DEF TypeOK, Leave, connVars, handlerVars, listVars
  <2>. QED BY <1>1, <2>1, <2>3, <2>4, <2>5 DEF Peer
<1>2. ASSUME NEW c \in Conns, Send(c)
      PROVE  out' \in [Conns -> 0..Cap] /\ poked' \in [Conns -> BOOLEAN]
  <2>1. out' \in [Conns -> 0..Cap]
    <3>1. out' = out \/ (out[c] < Cap /\ out' = [out EXCEPT ![c] = out[c] + 1])
      BY <1>2 DEF Send
    <3>2. out \in [Conns -> 0..Cap]
      BY DEF TypeOK
    <3>3. out[c] < Cap => [out EXCEPT ![c] = out[c] + 1] \in [Conns -> 0..Cap]
      BY <3>2
    <3>. QED BY <3>1, <3>2, <3>3
  <2>2. poked' = poked \/ poked' = [poked EXCEPT ![c] = TRUE]
    BY <1>2 DEF Send
  <2>3. poked' \in [Conns -> BOOLEAN]
    BY <2>2 DEF TypeOK
  <2>. QED BY <2>1, <2>3
<1>3. ASSUME NEW c \in Conns, Handler(c) PROVE TypeOK'
  <2>1. CASE RecvHead(c)
    <3>1. Tail(inq[c]) \in Seq({"announce", "body", "get"})
      BY <2>1, HeadTailProperties DEF TypeOK, RecvHead
    <3>2. inq' \in [Conns -> Seq({"announce", "body", "get"})]
      BY <2>1, <3>1 DEF TypeOK, RecvHead
    <3>. QED BY <2>1, <3>2
             DEF TypeOK, RecvHead, GoTo, connVars, handlerVars, listVars
  <2>2. CASE RecvHeadFails(c)
    BY <2>2 DEF TypeOK, RecvHeadFails, RecvFails, GoTo, peerVars, handlerVars,
                listVars
  <2>3. CASE LockPush(c) \/ LockGet(c) \/ LockRemove(c)
    <3>1. CASE LockPush(c)
      BY <3>1 DEF TypeOK, LockPush, Lock, GoTo, peerVars, connVars,
                  handlerVars, listVars
    <3>2. CASE LockGet(c)
      BY <3>2 DEF TypeOK, LockGet, Lock, GoTo, peerVars, connVars,
                  handlerVars, listVars
    <3>3. CASE LockRemove(c)
      BY <3>3 DEF TypeOK, LockRemove, Lock, GoTo, peerVars, connVars,
                  handlerVars, listVars
    <3>. QED BY <2>3, <3>1, <3>2, <3>3
  <2>4. CASE RecvBody(c)
    <3>1. inq[c] # << >> => Tail(inq[c]) \in Seq({"announce", "body", "get"})
      BY HeadTailProperties DEF TypeOK
    <3>2. inq' = inq \/ (inq[c] # << >> /\ inq' = [inq EXCEPT ![c] = Tail(@)])
      BY <2>4 DEF RecvBody
    <3>3. inq \in [Conns -> Seq({"announce", "body", "get"})]
      BY DEF TypeOK
    <3>4. inq' \in [Conns -> Seq({"announce", "body", "get"})]
      BY ONLY <3>1, <3>2, <3>3
    <3>. QED BY <2>4, <3>4 DEF TypeOK, RecvBody, RecvFails, GoTo, handlerVars
  <2>5. CASE AckHead(c) \/ AckBody(c) \/ ListHead(c)
    <3>1. Send(c)
      BY <2>5 DEF AckHead, AckBody, ListHead
    <3>2. out' \in [Conns -> 0..Cap] /\ poked' \in [Conns -> BOOLEAN]
      BY <1>2, <3>1
    <3>3. CASE AckHead(c)
      BY <3>2, <3>3 DEF TypeOK, AckHead, GoTo, handlerVars, listVars
    <3>4. CASE AckBody(c)
      BY <3>2, <3>4 DEF TypeOK, AckBody, GoTo, handlerVars, listVars
    <3>5. CASE ListHead(c)
      BY <3>2, <3>5 DEF TypeOK, ListHead, GoTo, handlerVars, listVars
    <3>. QED BY <2>5, <3>3, <3>4, <3>5
  <2>6. CASE Walk(c)
    BY <2>6 DEF TypeOK, Walk, GoTo, peerVars, connVars, listVars
  <2>7. CASE Link(c)
    BY <2>7 DEF TypeOK, Link, AppendInfo, GoTo, peerVars, connVars
  <2>8. CASE Count(c)
    BY <2>8, ListIsFinite DEF TypeOK, Count, GoTo, peerVars, connVars, listVars
  <2>9. CASE Copy(c)
    <3>1. {InfoOf(x) : x \in List} \subseteq Info
      BY DEF TypeOK, InfoOf, Info, List
    <3>. QED BY <2>9, <3>1 DEF TypeOK, Copy, GoTo, peerVars, connVars, listVars
  <2>10. CASE ListBody(c)
    BY <1>2, <2>10 DEF TypeOK, ListBody, GoTo, listVars
  <2>11. CASE Remove(c)
    BY <2>11 DEF TypeOK, Remove, RemoveInfo, GoTo, peerVars, connVars,
                 handlerVars
  <2>12. CASE Destroy(c)
    BY <2>12 DEF TypeOK, Destroy, GoTo, listVars
  <2>13. CASE SendKills(c)
    BY <2>13 DEF TypeOK, SendKills, peerVars, connVars, handlerVars, listVars
  <2>. QED BY <1>3, <2>1, <2>2, <2>3, <2>4, <2>5, <2>6, <2>7, <2>8, <2>9,
              <2>10, <2>11, <2>12, <2>13 DEF Handler
<1>4. CASE UNCHANGED vars
  BY <1>4 DEF TypeOK, vars, peerVars, connVars, handlerVars, listVars
<1>. QED BY <1>1, <1>3, <1>4 DEF Next

\* Locks and unlocks keep the owner where the code is.
LEMMA MutexStep == TypeOK /\ MutexInv /\ ConnInv /\ [Next]_vars => MutexInv'
<1>. SUFFICES ASSUME TypeOK, MutexInv, ConnInv, [Next]_vars PROVE MutexInv'
  OBVIOUS
<1>. USE ConstantsAssumption DEF Locked
<1>1. CASE UNCHANGED <<h, mutex>>
  BY <1>1 DEF MutexInv
<1>2. ASSUME NEW c \in Conns, Accept(c) PROVE MutexInv'
  BY <1>2 DEF TypeOK, MutexInv, Accept
<1>3. ASSUME NEW c \in Conns, Handler(c), ~ SendKills(c) PROVE MutexInv'
  BY <1>3 DEF TypeOK, MutexInv, Handler, GoTo, Lock, RecvHead, RecvHeadFails,
              LockPush, RecvBody, AckHead, AckBody, Walk, Link, LockGet, Count,
              Copy, ListHead, ListBody, LockRemove, Remove, Destroy
<1>. QED BY <1>1, <1>2, <1>3
         DEF Next, Peer, Announce, AnnounceBody, Ask, PeerSends,
                GetHead, GetBody, PeerReads,
             Leave, SendKills, vars

-----------------------------------------------------------------------------
(***************************************************************************)
(* The list.                                                               *)
(***************************************************************************)

\* Allocated cells stay linked to allocated cells.
LEMMA ListStep ==
  Inv /\ [Next]_vars => LiveInv' /\ LinksInv' /\ WalkInv'
<1>. SUFFICES ASSUME Inv, [Next]_vars PROVE LiveInv' /\ LinksInv' /\ WalkInv'
  OBVIOUS
<1>. USE ConstantsAssumption
<1>0. /\ TypeOK /\ MutexInv /\ ConnInv /\ NodeInv /\ ClientInv
      /\ LiveInv /\ LinksInv /\ WalkInv
  BY DEF Inv
<1>1. ASSUME UNCHANGED <<first, live, next, prev, isNode, curr>>,
             \A c \in Conns : \/ h'[c] = h[c]
                              \/ h'[c] # "link" /\ ((h[c] # "destroy") = (h'[c] # "destroy"))
                              \/ h'[c] = "destroy" /\ ~isNode[c]
      PROVE  LiveInv' /\ LinksInv' /\ WalkInv'
  <2>1. LiveInv'
    BY <1>0, <1>1 DEF LiveInv
  <2>2. LinksInv'
    BY <1>0, <1>1 DEF LinksInv
  <2>3. WalkInv'
    BY <1>0, <1>1 DEF WalkInv
  <2>. QED BY <2>1, <2>2, <2>3
<1>2. ASSUME NEW c \in Conns, Peer(c) PROVE LiveInv' /\ LinksInv' /\ WalkInv'
  <2>1. UNCHANGED <<first, live, next, prev, isNode, curr>>
    BY <1>2 DEF Peer, Accept, Announce, AnnounceBody, Ask, PeerSends,
                GetHead, GetBody, PeerReads,
                Leave, handlerVars, listVars
  <2>2. h' = h \/ (h[c] = "none" /\ h' = [h EXCEPT ![c] = "head"])
    BY <1>2 DEF Peer, Accept, Announce, AnnounceBody, Ask, PeerSends,
                GetHead, GetBody, PeerReads,
                Leave
  <2>. QED BY <1>0, <1>1, <2>1, <2>2 DEF TypeOK
<1>3. ASSUME NEW c \in Conns,
             \/ RecvHead(c) \/ RecvHeadFails(c) \/ LockPush(c) \/ RecvBody(c)
             \/ AckHead(c) \/ AckBody(c) \/ LockGet(c) \/ Count(c) \/ Copy(c)
             \/ ListHead(c) \/ ListBody(c) \/ LockRemove(c) \/ SendKills(c)
      PROVE  LiveInv' /\ LinksInv' /\ WalkInv'
  <2>1. UNCHANGED <<first, live, next, prev, isNode, curr>>
    BY <1>3 DEF RecvHead, RecvHeadFails, LockPush, RecvBody, AckHead, AckBody,
                LockGet, Count, Copy, ListHead, ListBody, LockRemove, SendKills,
                handlerVars, listVars
  <2>2. \/ h' = h
        \/ \E to \in {"head", "push_lock", "get_lock", "push_body", "ack_head",
                      "ack_body", "walk", "count", "copy", "list_head",
                      "list_body", "rm_lock", "remove"} :
             h[c] # "destroy" /\ h' = [h EXCEPT ![c] = to]
        \/ ~isNode[c] /\ h' = [h EXCEPT ![c] = "destroy"]
    BY <1>3 DEF GoTo, Lock, RecvHead, RecvHeadFails, LockPush, RecvBody,
                AckHead, AckBody, LockGet, Count, Copy, ListHead, ListBody,
                LockRemove, SendKills
  <2>. QED BY <1>0, <1>1, <2>1, <2>2 DEF TypeOK
<1>4. ASSUME NEW c \in Conns, Walk(c) PROVE LiveInv' /\ LinksInv' /\ WalkInv'
  <2>1. /\ h[c] = "walk" /\ h' = [h EXCEPT ![c] = "link"]
        /\ UNCHANGED <<first, live, next, prev, isNode>>
    BY <1>4 DEF Walk, GoTo, listVars
  <2>2. PICK x \in Conns \cup {NULL} :
          LastCell(x) /\ curr' = [curr EXCEPT ![c] = x]
    BY <1>4 DEF Walk
  <2>3. IF x = NULL THEN first = NULL ELSE x \in live /\ next[x] = NULL
    BY <1>0, <2>2, ListIsLive DEF LastCell, List
  <2>4. LiveInv'
    BY <1>0, <2>1 DEF LiveInv, TypeOK
  <2>5. LinksInv'
    BY <1>0, <2>1 DEF LinksInv
  <2>6. WalkInv'
    BY <1>0, <2>1, <2>2, <2>3 DEF WalkInv, TypeOK
  <2>. QED BY <2>4, <2>5, <2>6
<1>5. ASSUME NEW c \in Conns, Link(c) PROVE LiveInv' /\ LinksInv' /\ WalkInv'
  <2>1. /\ h[c] = "link" /\ h' = [h EXCEPT ![c] = "head"]
        /\ AppendInfo(c, curr[c])
        /\ isNode' = [isNode EXCEPT ![c] = TRUE]
    BY <1>5 DEF Link, GoTo
  <2>2. c \notin live
    <3>1. c \in Nodes \/ c \in Clients
      BY DEF Conns
    <3>. QED BY <1>0, <2>1, <3>1 DEF NodeInv, ClientInv, LiveInv, Answering
  <2>3. IF curr[c] = NULL THEN first = NULL
        ELSE curr[c] \in live /\ next[curr[c]] = NULL
    BY <1>0, <2>1 DEF WalkInv
  <2>4. \A d \in Conns : h'[d] # "link"
    BY <1>0, <2>1 DEF MutexInv, Locked, TypeOK
  <2>5. LiveInv'
    BY <1>0, <2>1 DEF LiveInv, TypeOK, AppendInfo
  <2>6. LinksInv'
    <3>1. live \subseteq Conns /\ c # NULL /\ NULL \notin live
      BY <1>0 DEF TypeOK
    <3>2. /\ live' = live \cup {c}
          /\ first' = IF curr[c] = NULL THEN c ELSE first
          /\ \A x \in Conns : next'[x] = IF x = c THEN NULL
                                         ELSE IF x = curr[c] THEN c ELSE next[x]
          /\ \A x \in Conns : prev'[x] = IF x = c THEN curr[c] ELSE prev[x]
      BY <1>0, <2>1 DEF AppendInfo, TypeOK
    <3>3. first' # NULL => first' \in live' /\ prev'[first'] = NULL
      BY <1>0, <2>2, <2>3, <3>1, <3>2 DEF LinksInv
    <3>4. ASSUME NEW x \in live', next'[x] # NULL
          PROVE  next'[x] \in live' /\ prev'[next'[x]] = x
      BY <1>0, <2>2, <2>3, <3>1, <3>2, <3>4 DEF LinksInv
    <3>5. ASSUME NEW x \in live', prev'[x] # NULL
          PROVE  prev'[x] \in live' /\ next'[prev'[x]] = x
      BY <1>0, <2>2, <2>3, <3>1, <3>2, <3>5 DEF LinksInv
    <3>. QED BY <3>3, <3>4, <3>5 DEF LinksInv
  <2>. QED BY <2>4, <2>5, <2>6 DEF WalkInv
<1>6. ASSUME NEW c \in Conns, Remove(c) PROVE LiveInv' /\ LinksInv' /\ WalkInv'
  <2>1. /\ h[c] = "remove" /\ h' = [h EXCEPT ![c] = "destroy"]
        /\ RemoveInfo(c)
        /\ isNode' = isNode
    BY <1>6 DEF Remove, GoTo, handlerVars
  <2>2. c \in live
    BY <1>0, <2>1 DEF ConnInv, LiveInv, Removing
  <2>3. \A d \in Conns : h'[d] # "link"
    BY <1>0, <2>1 DEF MutexInv, Locked, TypeOK
  <2>4. LiveInv'
    BY <1>0, <2>1 DEF LiveInv, TypeOK, RemoveInfo
  <2>5. LinksInv'
    <3>1. live \subseteq Conns /\ c # NULL /\ NULL \notin live
      BY <1>0 DEF TypeOK
    <3>2. /\ live' = live \ {c}
          /\ first' = IF prev[c] = NULL THEN NULL ELSE first
          /\ \A x \in Conns : next'[x] = IF x = c THEN NULL
                                         ELSE IF x = prev[c] THEN next[c] ELSE next[x]
          /\ \A x \in Conns : prev'[x] = IF x = c THEN NULL
                                         ELSE IF x = next[c] THEN prev[c] ELSE prev[x]
      BY <1>0, <2>1 DEF RemoveInfo, TypeOK
    <3>3. first' # NULL => first' \in live' /\ prev'[first'] = NULL
      BY <1>0, <2>2, <3>1, <3>2 DEF LinksInv
    <3>4. ASSUME NEW x \in live', next'[x] # NULL
          PROVE  next'[x] \in live' /\ prev'[next'[x]] = x
      BY <1>0, <2>2, <3>1, <3>2, <3>4 DEF LinksInv
    <3>5. ASSUME NEW x \in live', prev'[x] # NULL
          PROVE  prev'[x] \in live' /\ next'[prev'[x]] = x
      BY <1>0, <2>2, <3>1, <3>2, <3>5 DEF LinksInv
    <3>. QED BY <3>3, <3>4, <3>5 DEF LinksInv
  <2>. QED BY <2>3, <2>4, <2>5 DEF WalkInv
<1>7. ASSUME NEW c \in Conns, Destroy(c) PROVE LiveInv' /\ LinksInv' /\ WalkInv'
  <2>1. /\ h[c] = "destroy" /\ h' = [h EXCEPT ![c] = "none"]
        /\ isNode' = [isNode EXCEPT ![c] = FALSE]
        /\ UNCHANGED <<first, live, next, prev, curr>>
    BY <1>7 DEF Destroy, GoTo, listVars
  <2>2. LiveInv'
    BY <1>0, <2>1 DEF LiveInv, TypeOK
  <2>3. LinksInv'
    BY <1>0, <2>1 DEF LinksInv
  <2>4. WalkInv'
    BY <1>0, <2>1 DEF WalkInv, TypeOK
  <2>. QED BY <2>2, <2>3, <2>4
<1>8. CASE UNCHANGED vars
  BY <1>1, <1>8 DEF vars, handlerVars, listVars
<1>. QED BY <1>2, <1>3, <1>4, <1>5, <1>6, <1>7, <1>8 DEF Next, Handler

-----------------------------------------------------------------------------
(***************************************************************************)
(* The protocol between a peer and its handler.                            *)
(***************************************************************************)

\* What one connection does leaves the others alone.
LEMMA ProtocolStep ==
  Inv /\ [Next]_vars => ConnInv' /\ NodeInv' /\ ClientInv'
<1>. SUFFICES ASSUME Inv, [Next]_vars PROVE ConnInv' /\ NodeInv' /\ ClientInv'
  OBVIOUS
<1>. USE ConstantsAssumption DEF Announcing, Answering, Getting, Removing
<1>0. TypeOK /\ ConnInv /\ NodeInv /\ ClientInv
  BY DEF Inv
<1>1. ASSUME NEW c \in Conns, UNCHANGED <<peer, inq, isNode>>,
             fd' = fd, NEW to, h' = [h EXCEPT ![c] = to],
             \/ h[c] = "push_lock" /\ to = "push_body"
             \/ h[c] = "ack_head" /\ to = "ack_body"
             \/ h[c] = "ack_body" /\ to = "walk"
             \/ h[c] = "walk" /\ to = "link"
             \/ h[c] = "get_lock" /\ to = "count"
             \/ h[c] = "count" /\ to = "copy"
             \/ h[c] = "copy" /\ to = "list_head"
             \/ h[c] = "list_head" /\ to = "list_body"
             \/ h[c] = "rm_lock" /\ to = "remove"
             \/ h[c] = "remove" /\ to = "destroy"
      PROVE  ConnInv' /\ NodeInv' /\ ClientInv'
  <2>1. ConnInv'
    BY <1>0, <1>1 DEF ConnInv, TypeOK
  <2>2. NodeInv'
    BY <1>0, <1>1 DEF NodeInv, TypeOK, Conns
  <2>3. ClientInv'
    BY <1>0, <1>1 DEF ClientInv, TypeOK, Conns
  <2>. QED BY <2>1, <2>2, <2>3
<1>2. ASSUME NEW c \in Conns,
             \/ LockPush(c) \/ AckHead(c) \/ AckBody(c) \/ Walk(c) \/ LockGet(c)
             \/ Count(c) \/ Copy(c) \/ ListHead(c) \/ LockRemove(c) \/ Remove(c)
      PROVE  ConnInv' /\ NodeInv' /\ ClientInv'
  BY <1>1, <1>2 DEF LockPush, AckHead, AckBody, Walk, LockGet, Count, Copy,
                    ListHead, LockRemove, Remove, Lock, GoTo, peerVars,
                    connVars, handlerVars
<1>3. ASSUME NEW c \in Conns, Accept(c)
      PROVE  ConnInv' /\ NodeInv' /\ ClientInv'
  <2>1. ConnInv'
    BY <1>0, <1>3 DEF ConnInv, TypeOK, Accept, handlerVars
  <2>2. NodeInv'
    BY <1>0, <1>3 DEF ConnInv, NodeInv, TypeOK, Accept, handlerVars, Conns
  <2>3. ClientInv'
    BY <1>0, <1>3 DEF ClientInv, TypeOK, Accept, handlerVars, Conns
  <2>. QED BY <2>1, <2>2, <2>3
<1>4. ASSUME NEW c \in Conns, Announce(c) \/ AnnounceBody(c)
      PROVE  ConnInv' /\ NodeInv' /\ ClientInv'
  <2>1. c \in Nodes /\ peer[c] \in {"up", "half"}
    BY <1>0, <1>4 DEF Announce, AnnounceBody, PeerSends, ClientInv, Conns
  <2>2. /\ UNCHANGED <<h, fd, isNode>>
        /\ \A d \in Conns \ {c} : peer'[d] = peer[d] /\ inq'[d] = inq[d]
    BY <1>0, <1>4 DEF Announce, AnnounceBody, PeerSends, connVars, handlerVars,
                      TypeOK
  <2>3. \/ /\ peer[c] = "up" /\ peer'[c] = "half" /\ inq'[c] = <<"announce">>
           /\ h[c] = "head"
        \/ /\ peer[c] = "half" /\ peer'[c] = "sent"
           /\ \/ h[c] = "head" /\ inq'[c] = <<"announce", "body">>
              \/ h[c] \in Announcing /\ inq'[c] = <<"body">>
    <3>1. CASE peer[c] = "up"
      <4>1. peer'[c] = "half" /\ inq'[c] = Append(inq[c], "announce")
        BY <1>0, <1>4, <3>1 DEF Announce, AnnounceBody, PeerSends, TypeOK
      <4>2. h[c] = "head" /\ inq[c] = << >>
        BY <1>0, <2>1, <3>1 DEF NodeInv
      <4>. QED BY <3>1, <4>1, <4>2, Announcement
    <3>2. CASE peer[c] = "half"
      <4>1. peer'[c] = "sent" /\ inq'[c] = Append(inq[c], "body")
        BY <1>0, <1>4, <3>2 DEF Announce, AnnounceBody, PeerSends, TypeOK
      <4>2. \/ h[c] = "head" /\ inq[c] = <<"announce">>
            \/ h[c] \in Announcing /\ inq[c] = << >>
        BY <1>0, <2>1, <3>2 DEF NodeInv
      <4>. QED BY <3>2, <4>1, <4>2, Announcement
    <3>. QED BY <2>1, <3>1, <3>2
  <2>4. ConnInv'
    BY <1>0, <2>1, <2>2, <2>3 DEF ConnInv, TypeOK
  <2>5. NodeInv'
    BY <1>0, <2>1, <2>2, <2>3 DEF NodeInv, TypeOK, Conns
  <2>6. ClientInv'
    BY <1>0, <2>1, <2>2 DEF ClientInv, TypeOK, Conns
  <2>. QED BY <2>4, <2>5, <2>6
<1>5. ASSUME NEW c \in Conns, Ask(c)
      PROVE  ConnInv' /\ NodeInv' /\ ClientInv'
  <2>1. c \in Clients /\ peer[c] = "up"
    BY <1>5 DEF Ask, PeerSends
  <2>2. /\ UNCHANGED <<h, fd, isNode>>
        /\ peer' = [peer EXCEPT ![c] = "asked"]
        /\ inq' = [inq EXCEPT ![c] = Append(@, "get")]
    BY <1>5 DEF Ask, PeerSends, connVars, handlerVars
  <2>3. Append(inq[c], "get") \in Seq({"get"})
    BY <1>0, <2>1, AppendProperties DEF ClientInv
  <2>4. ConnInv'
    BY <1>0, <2>1, <2>2 DEF ConnInv, TypeOK
  <2>5. NodeInv'
    BY <1>0, <2>1, <2>2 DEF NodeInv, TypeOK, Conns
  <2>6. ClientInv'
    BY <1>0, <2>1, <2>2, <2>3 DEF ClientInv, TypeOK, Conns
  <2>. QED BY <2>4, <2>5, <2>6
<1>6. ASSUME NEW c \in Conns, GetHead(c) \/ GetBody(c)
      PROVE  ConnInv' /\ NodeInv' /\ ClientInv'
  <2>1. /\ UNCHANGED <<h, fd, isNode, inq>>
        /\ peer[c] \in {"sent", "asked", "reading"}
        /\ \E to \in {"reading", IF c \in Nodes THEN "online" ELSE "up"} :
             peer' = [peer EXCEPT ![c] = to]
    BY <1>6 DEF GetHead, GetBody, PeerReads, connVars, handlerVars
  <2>2. ConnInv'
    BY <1>0, <2>1 DEF ConnInv, TypeOK
  <2>3. NodeInv'
    BY <1>0, <2>1 DEF NodeInv, TypeOK, Conns
  <2>4. ClientInv'
    BY <1>0, <2>1 DEF ClientInv, TypeOK, Conns
  <2>. QED BY <2>2, <2>3, <2>4
<1>7. ASSUME NEW c \in Conns, Leave(c)
      PROVE  ConnInv' /\ NodeInv' /\ ClientInv'
  <2>1. /\ UNCHANGED <<h, fd, isNode>>
        /\ peer[c] \notin {"off", "gone"}
        /\ peer' = [peer EXCEPT ![c] = "gone"]
    BY <1>7 DEF Leave, connVars, handlerVars
  <2>2. PICK n \in 0..Len(inq[c]) : inq' = [inq EXCEPT ![c] = SubSeq(@, 1, n)]
    BY <1>7 DEF Leave
  <2>3. inq[c] \in Seq({"announce", "body", "get"})
    BY <1>0 DEF TypeOK
  <2>4. /\ inq[c] = << >> => inq'[c] = << >>
        /\ inq[c] = <<"body">> => inq'[c] \in {<< >>, <<"body">>}
        /\ inq[c] = <<"announce">> => inq'[c] \in {<< >>, <<"announce">>}
        /\ inq[c] = <<"announce", "body">> =>
             inq'[c] \in {<< >>, <<"announce">>, <<"announce", "body">>}
    BY <1>0, <2>2, <2>3, Truncation DEF TypeOK
  <2>5. c \in Clients => inq'[c] \in Seq({"get"})
    BY <1>0, <2>2, Truncation DEF TypeOK, ClientInv
  <2>6. \A d \in Conns \ {c} : peer'[d] = peer[d] /\ inq'[d] = inq[d]
    BY <1>0, <2>1, <2>2 DEF TypeOK
  <2>7. ConnInv'
    BY <1>0, <2>1, <2>4, <2>6 DEF ConnInv, TypeOK
  <2>8. NodeInv'
    BY <1>0, <2>1, <2>4, <2>6 DEF NodeInv, TypeOK, Conns
  <2>9. ClientInv'
    BY <1>0, <2>1, <2>5, <2>6 DEF ClientInv, TypeOK, Conns
  <2>. QED BY <2>7, <2>8, <2>9
<1>8. ASSUME NEW c \in Conns, RecvHead(c)
      PROVE  ConnInv' /\ NodeInv' /\ ClientInv'
  <2>1. /\ UNCHANGED <<peer, fd, isNode>>
        /\ h[c] = "head" /\ inq[c] # << >> /\ fd[c] = "open"
        /\ inq' = [inq EXCEPT ![c] = Tail(@)]
    BY <1>8 DEF RecvHead, GoTo, connVars, handlerVars
  <2>2. c \in Nodes => /\ h' = [h EXCEPT ![c] = "push_lock"]
                       /\ inq'[c] \in {<< >>, <<"body">>}
                       /\ peer[c] = "half" => inq'[c] = << >>
                       /\ peer[c] # "up" /\ ~isNode[c]
    <3>. SUFFICES ASSUME c \in Nodes
                  PROVE  /\ h' = [h EXCEPT ![c] = "push_lock"]
                         /\ inq'[c] \in {<< >>, <<"body">>}
                         /\ peer[c] = "half" => inq'[c] = << >>
                         /\ peer[c] # "up" /\ ~isNode[c]
      OBVIOUS
    <3>1. /\ inq[c] \in {<<"announce">>, <<"announce", "body">>}
          /\ peer[c] = "half" => inq[c] = <<"announce">>
          /\ peer[c] # "up" /\ ~isNode[c]
      BY <1>0, <2>1 DEF NodeInv
    <3>2. Head(inq[c]) = "announce"
      BY <3>1, Announcement
    <3>3. inq'[c] = Tail(inq[c])
      BY <1>0, <2>1 DEF TypeOK
    <3>4. h' = [h EXCEPT ![c] = "push_lock"]
      BY <1>8, <3>2 DEF RecvHead, GoTo
    <3>. QED BY <3>1, <3>3, <3>4, Announcement
  <2>3. c \in Clients => /\ h' = [h EXCEPT ![c] = "get_lock"]
                         /\ inq'[c] \in Seq({"get"})
    <3>. SUFFICES ASSUME c \in Clients
                  PROVE  h' = [h EXCEPT ![c] = "get_lock"] /\ inq'[c] \in Seq({"get"})
      OBVIOUS
    <3>1. Head(inq[c]) \in {"get"} /\ Tail(inq[c]) \in Seq({"get"})
      BY <1>0, <2>1, HeadTailProperties DEF ClientInv
    <3>. QED BY <1>0, <1>8, <2>1, <3>1 DEF RecvHead, GoTo, TypeOK
  <2>4. \A d \in Conns \ {c} : inq'[d] = inq[d]
    BY <1>0, <2>1 DEF TypeOK
  <2>5. ConnInv'
    BY <1>0, <2>1, <2>2, <2>3, <2>4 DEF ConnInv, TypeOK, Conns
  <2>6. NodeInv'
    BY <1>0, <2>1, <2>2, <2>3, <2>4 DEF NodeInv, TypeOK, Conns
  <2>7. ClientInv'
    BY <1>0, <2>1, <2>2, <2>3, <2>4 DEF ClientInv, TypeOK, Conns
  <2>. QED BY <2>5, <2>6, <2>7
<1>9. ASSUME NEW c \in Conns, RecvHeadFails(c)
      PROVE  ConnInv' /\ NodeInv' /\ ClientInv'
  <2>1. /\ UNCHANGED <<peer, inq, isNode>>
        /\ h[c] = "head"
        /\ h' = [h EXCEPT ![c] = IF isNode[c] THEN "rm_lock" ELSE "destroy"]
        /\ fd' = [fd EXCEPT ![c] = "closed"]
        /\ fd[c] = "closed" \/ (peer[c] = "gone" /\ inq[c] = << >>)
    BY <1>9 DEF RecvHeadFails, RecvFails, GoTo, peerVars, handlerVars
  <2>2. peer[c] = "gone" /\ inq[c] = << >>
    BY <1>0, <2>1 DEF ConnInv
  <2>3. ConnInv'
    BY <1>0, <2>1, <2>2 DEF ConnInv, TypeOK
  <2>4. NodeInv'
    BY <1>0, <2>1, <2>2 DEF NodeInv, TypeOK, Conns
  <2>5. ClientInv'
    BY <1>0, <2>1 DEF ClientInv, TypeOK, Conns
  <2>. QED BY <2>3, <2>4, <2>5
<1>10. ASSUME NEW c \in Conns, RecvBody(c)
       PROVE  ConnInv' /\ NodeInv' /\ ClientInv'
  <2>1. /\ UNCHANGED <<peer, isNode>>
        /\ h[c] = "push_body" /\ h' = [h EXCEPT ![c] = "ack_head"]
    BY <1>10 DEF RecvBody, GoTo, handlerVars
  <2>2. c \in Nodes /\ inq[c] \in {<< >>, <<"body">>}
    BY <1>0, <2>1 DEF NodeInv, ClientInv, Conns
  <2>3. CASE inq[c] # << >> /\ fd' = fd /\ inq' = [inq EXCEPT ![c] = Tail(@)]
    <3>1. inq'[c] = << >> /\ peer[c] # "half"
      BY <1>0, <2>1, <2>2, <2>3, Announcement DEF TypeOK, NodeInv
    <3>2. \A d \in Conns \ {c} : inq'[d] = inq[d]
      BY <1>0, <2>3 DEF TypeOK
    <3>3. ConnInv'
      BY <1>0, <2>1, <2>3, <3>1, <3>2 DEF ConnInv, TypeOK
    <3>4. NodeInv'
      BY <1>0, <2>1, <3>1, <3>2 DEF NodeInv, TypeOK, Conns
    <3>5. ClientInv'
      BY <1>0, <2>1, <2>2, <3>2 DEF ClientInv, TypeOK, Conns
    <3>. QED BY <3>3, <3>4, <3>5
  <2>4. CASE RecvFails(c) /\ inq' = inq
    <3>1. peer[c] = "gone" /\ inq[c] = << >>
      BY <1>0, <2>1, <2>4 DEF RecvFails, ConnInv
    <3>2. fd' = [fd EXCEPT ![c] = "closed"]
      BY <2>4 DEF RecvFails
    <3>3. ConnInv'
      BY <1>0, <2>1, <2>4, <3>1, <3>2 DEF ConnInv, TypeOK
    <3>4. NodeInv'
      BY <1>0, <2>1, <2>4, <3>1 DEF NodeInv, TypeOK, Conns
    <3>5. ClientInv'
      BY <1>0, <2>1, <2>2, <2>4 DEF ClientInv, TypeOK, Conns
    <3>. QED BY <3>3, <3>4, <3>5
  <2>. QED BY <1>10, <2>3, <2>4 DEF RecvBody
<1>11. ASSUME NEW c \in Conns, Link(c)
       PROVE  ConnInv' /\ NodeInv' /\ ClientInv'
  <2>1. /\ UNCHANGED <<peer, inq, fd>>
        /\ h[c] = "link" /\ h' = [h EXCEPT ![c] = "head"]
        /\ isNode' = [isNode EXCEPT ![c] = TRUE]
    BY <1>11 DEF Link, GoTo, peerVars, connVars
  <2>2. c \in Nodes /\ inq[c] = << >> /\ peer[c] \notin {"up", "half"}
    BY <1>0, <2>1 DEF NodeInv, ClientInv, Conns
  <2>3. ConnInv'
    BY <1>0, <2>1, <2>2 DEF ConnInv, TypeOK
  <2>4. NodeInv'
    BY <1>0, <2>1, <2>2 DEF NodeInv, TypeOK, Conns
  <2>5. ClientInv'
    BY <1>0, <2>1, <2>2 DEF ClientInv, TypeOK, Conns
  <2>. QED BY <2>3, <2>4, <2>5
<1>12. ASSUME NEW c \in Conns, ListBody(c)
       PROVE  ConnInv' /\ NodeInv' /\ ClientInv'
  <2>1. /\ UNCHANGED <<peer, inq, fd, isNode>>
        /\ h[c] = "list_body" /\ h' = [h EXCEPT ![c] = "head"]
    BY <1>12 DEF ListBody, GoTo
  <2>2. c \in Clients
    BY <1>0, <2>1 DEF NodeInv, Conns
  <2>3. ConnInv'
    BY <1>0, <2>1 DEF ConnInv, TypeOK
  <2>4. NodeInv'
    BY <1>0, <2>1, <2>2 DEF NodeInv, TypeOK, Conns
  <2>5. ClientInv'
    BY <1>0, <2>1 DEF ClientInv, TypeOK, Conns
  <2>. QED BY <2>3, <2>4, <2>5
<1>13. ASSUME NEW c \in Conns, Destroy(c)
       PROVE  ConnInv' /\ NodeInv' /\ ClientInv'
  <2>1. /\ UNCHANGED <<inq, fd>>
        /\ h[c] = "destroy" /\ h' = [h EXCEPT ![c] = "none"]
        /\ peer' = [peer EXCEPT ![c] = "off"]
        /\ isNode' = [isNode EXCEPT ![c] = FALSE]
    BY <1>13 DEF Destroy, GoTo
  <2>2. ConnInv'
    BY <1>0, <2>1 DEF ConnInv, TypeOK
  <2>3. NodeInv'
    BY <1>0, <2>1 DEF NodeInv, TypeOK, Conns
  <2>4. ClientInv'
    BY <1>0, <2>1 DEF ClientInv, TypeOK, Conns
  <2>. QED BY <2>2, <2>3, <2>4
<1>14. ASSUME UNCHANGED <<peer, inq, h, fd, isNode>>
       PROVE  ConnInv' /\ NodeInv' /\ ClientInv'
  BY <1>0, <1>14 DEF ConnInv, NodeInv, ClientInv
<1>15. ASSUME NEW c \in Conns, SendKills(c)
       PROVE  ConnInv' /\ NodeInv' /\ ClientInv'
  BY <1>14, <1>15 DEF SendKills, peerVars, connVars, handlerVars
<1>16. CASE UNCHANGED vars
  BY <1>14, <1>16 DEF vars, peerVars, connVars, handlerVars
<1>. QED BY <1>2, <1>3, <1>4, <1>5, <1>6, <1>7, <1>8, <1>9, <1>10, <1>11,
            <1>12, <1>13, <1>15, <1>16 DEF Next, Handler, Peer

-----------------------------------------------------------------------------
\* The invariant holds before the first connection.
LEMMA InitInv == Init => Inv
<1>. SUFFICES ASSUME Init PROVE Inv
  OBVIOUS
<1>. USE ConstantsAssumption
<1>1. TypeOK
  BY EmptySeq DEF Init, TypeOK
<1>2. MutexInv /\ ConnInv
  BY DEF Init, MutexInv, ConnInv, Locked, Removing
<1>3. NodeInv
  BY DEF Init, NodeInv, Announcing, Answering, Getting, Conns
<1>4. ClientInv
  BY EmptySeq DEF Init, ClientInv, Announcing, Answering, Conns
<1>5. LiveInv /\ LinksInv /\ WalkInv
  BY DEF Init, LiveInv, LinksInv, WalkInv
<1>. QED BY <1>1, <1>2, <1>3, <1>4, <1>5 DEF Inv

\* Inv is an invariant.
THEOREM Invariance == Spec => []Inv
<1>1. Inv /\ [Next]_vars => Inv'
  BY TypeStep, MutexStep, ProtocolStep, ListStep DEF Inv
<1>. QED BY <1>1, InitInv, PTL DEF Spec

\* Every variable of the main server keeps its type, for any finite number of
\* connections.
THEOREM TypeCorrectness == Spec => []TypeOK
<1>1. Inv => TypeOK
  BY DEF Inv
<1>. QED BY <1>1, Invariance, PTL

\* NODES_INFO never leads to freed memory and no handler touches a freed
\* cell, however many nodes come and go while the list is walked, extended
\* and cut.
THEOREM ListNeverDangles == Spec => []NoDangling
<1>1. Inv => NoDangling
  <2>. SUFFICES ASSUME Inv PROVE NoDangling
    OBVIOUS
  <2>1. \A c \in Conns : h[c] \in {"rm_lock", "remove"} => c \in live
    BY DEF Inv, ConnInv, LiveInv, Removing
  <2>2. \A c \in Conns : h[c] = "link" /\ curr[c] # NULL => curr[c] \in live
    BY DEF Inv, WalkInv
  <2>. QED BY <2>1, <2>2 DEF Inv, LinksInv, NoDangling
<1>. QED BY <1>1, Invariance, PTL

-----------------------------------------------------------------------------
(***************************************************************************)
(* What is on the list.  The definition of List, as the least set that is  *)
(* closed under `next`, is used through four lemmas.                       *)
(***************************************************************************)
\* List is itself closed under `next`, ...
LEMMA ListIsClosed ==
  ASSUME TypeOK
  PROVE  ClosedUnderNext(List) /\ List \subseteq Conns
<1>. USE ConstantsAssumption
<1>1. List \subseteq Conns
  BY DEF List
<1>2. first # NULL => first \in List
  BY DEF TypeOK, List, ClosedUnderNext
<1>3. ASSUME NEW y \in List, next[y] # NULL PROVE next[y] \in List
  <2>1. next[y] \in Conns
    BY <1>1, <1>3 DEF TypeOK
  <2>2. ASSUME NEW S \in SUBSET Conns, ClosedUnderNext(S) PROVE next[y] \in S
    <3>1. y \in S
      BY <2>2 DEF List
    <3>. QED BY <1>3, <2>2, <3>1 DEF ClosedUnderNext
  <2>. QED BY <2>1, <2>2 DEF List
<1>. QED BY <1>1, <1>2, <1>3 DEF ClosedUnderNext

\* ... and contained in every other such set.
LEMMA ListIsLeast ==
  ASSUME NEW S \in SUBSET Conns, ClosedUnderNext(S)
  PROVE  List \subseteq S
BY DEF List

\* append_info adds the cell to the list and nothing else.
LEMMA AppendAddsOne ==
  ASSUME TypeOK, NEW c \in Conns, c \notin List,
         NEW last \in Conns \cup {NULL},
         IF last = NULL THEN first = NULL ELSE last \in List /\ next[last] = NULL,
         AppendInfo(c, last)
  PROVE  List' = List \cup {c}
<1>. USE ConstantsAssumption
<1>1. ClosedUnderNext(List) /\ List \subseteq Conns
  BY ListIsClosed
<1>2. PICK T : T = List \cup {c}
  OBVIOUS
<1>3. List' \subseteq List \cup {c}
  <2>1. ClosedUnderNext(T)'
    BY <1>1, <1>2 DEF ClosedUnderNext, AppendInfo, TypeOK
  <2>. QED BY <1>1, <1>2, <2>1 DEF List
<1>4. ASSUME NEW S \in SUBSET Conns, ClosedUnderNext(S)'
      PROVE  List \cup {c} \subseteq S
  <2>1. ClosedUnderNext(S \cap List)
    <3>1. first \in (S \cap List) \cup {NULL}
      BY <1>1, <1>4 DEF ClosedUnderNext, AppendInfo
    <3>2. ASSUME NEW y \in S \cap List
          PROVE  next[y] \in (S \cap List) \cup {NULL}
      BY <1>1, <1>4, <3>2 DEF ClosedUnderNext, AppendInfo
    <3>. QED BY <3>1, <3>2 DEF ClosedUnderNext
  <2>2. List \subseteq S
    BY <2>1, ListIsLeast
  <2>3. c \in S
    BY <1>1, <1>4, <2>2 DEF ClosedUnderNext, AppendInfo
  <2>. QED BY <2>2, <2>3
<1>5. List \cup {c} \subseteq List'
  BY <1>1, <1>4 DEF List
<1>. QED BY <1>3, <1>5

\* remove_info takes the cell off the list and nothing else, or, if it has
\* no predecessor, empties the list.
LEMMA RemoveTakesOneOrAll ==
  ASSUME TypeOK, LinksInv, NEW c \in live, RemoveInfo(c)
  PROVE  List' = List \ {c} \/ List' = {}
<1>. USE ConstantsAssumption
<1>1. ClosedUnderNext(List) /\ List \subseteq Conns /\ List \subseteq live
  BY ListIsClosed, ListIsLive
<1>2. CASE prev[c] = NULL
  <2>1. first' = NULL
    BY <1>2 DEF RemoveInfo
  <2>2. ClosedUnderNext({})'
    BY <2>1 DEF ClosedUnderNext
  <2>3. \A x \in List' : x \in {}
    BY <2>2 DEF List
  <2>. QED BY <2>3
<1>3. CASE prev[c] # NULL
  <2>0. /\ c \in Conns /\ first' = first /\ first # c
        /\ prev[c] \in live /\ next[prev[c]] = c
        /\ \A y \in live : next[y] = c => y = prev[c]
        /\ \A y \in Conns : next'[y] = IF y = c THEN NULL
                                       ELSE IF y = prev[c] THEN next[c]
                                       ELSE next[y]
    BY <1>3 DEF TypeOK, LinksInv, RemoveInfo
  <2>1. PICK T : T = List \ {c}
    OBVIOUS
  <2>2. ClosedUnderNext(T)'
    <3>1. first' \in (List \ {c}) \cup {NULL}
      BY <1>1, <2>0 DEF ClosedUnderNext
    <3>2. ASSUME NEW y \in List \ {c}
          PROVE  next'[y] \in (List \ {c}) \cup {NULL}
      <4>1. CASE y = prev[c]
        <5>1. c \in List /\ next[c] # c
          BY <1>1, <2>0, <4>1 DEF ClosedUnderNext, LinksInv
        <5>. QED BY <1>1, <2>0, <4>1, <5>1 DEF ClosedUnderNext
      <4>2. CASE y # prev[c]
        BY <1>1, <2>0, <4>2 DEF ClosedUnderNext
      <4>. QED BY <4>1, <4>2
    <3>. QED BY <2>1, <3>1, <3>2 DEF ClosedUnderNext
  <2>3. List' \subseteq List \ {c}
    BY <1>1, <2>1, <2>2 DEF List
  <2>4. ASSUME NEW S \in SUBSET Conns, ClosedUnderNext(S)'
        PROVE  List \ {c} \subseteq S
    <3>1. CASE prev[c] \in S \cap List
      <4>1. next[c] \in (S \cap List) \cup {c, NULL}
        BY <1>1, <2>0, <2>4, <3>1 DEF ClosedUnderNext
      <4>2. ClosedUnderNext((S \cap List) \cup {c})
        BY <1>1, <2>0, <2>4, <4>1 DEF ClosedUnderNext
      <4>. QED BY <2>0, <4>2, ListIsLeast
    <3>2. CASE prev[c] \notin S \cap List
      <4>1. ClosedUnderNext((S \cap List) \ {c})
        BY <1>1, <2>0, <2>4, <3>2 DEF ClosedUnderNext
      <4>. QED BY <4>1, ListIsLeast
    <3>. QED BY <3>1, <3>2
  <2>5. List \ {c} \subseteq List'
    BY <1>1, <2>4 DEF List
  <2>. QED BY <2>3, <2>5
<1>. QED BY <1>2, <1>3

\* A step that leaves the pointers alone leaves the list alone.
LEMMA ListUnchanged ==
  ASSUME UNCHANGED <<first, next>>
  PROVE  List' = List
BY DEF List, ClosedUnderNext

\* A copy of the list has as many entries as the list has cells.
LEMMA CopyHasSameSize ==
  Cardinality({InfoOf(x) : x \in List}) = Cardinality(List)
<1>. DEFINE f == [x \in List |-> InfoOf(x)]
            T == {InfoOf(x) : x \in List}
<1>1. IsFiniteSet(List)
  BY ConstantsAssumption, FS_Subset DEF List
<1>2. f \in Bijection(List, T)
  <2>1. f \in [List -> T]
    OBVIOUS
  <2>2. \A x, y \in List : f[x] = f[y] => x = y
    BY DEF InfoOf
  <2>3. \A z \in T : \E x \in List : f[x] = z
    OBVIOUS
  <2>. QED BY <2>1, <2>2, <2>3, Fun_IsBij
<1>3. ExistsBijection(List, T)
  BY <1>2 DEF ExistsBijection
<1>. QED BY <1>1, <1>3, FS_Bijection

-----------------------------------------------------------------------------
(***************************************************************************)
(* The invariant, continued: the contents of the list.                     *)
(***************************************************************************)
\* An uninitialised core count belongs to a node that has left, and goes with
\* its cell.
CoresInv ==
  \A c \in Conns :
    cores[c] = "garbage" =>
      peer[c] = "gone" /\ (h[c] \in Answering \/ c \in live)

\* The cell where the walk has ended is still on the list.
EndInv ==
  \A c \in Conns : h[c] = "link" /\ curr[c] # NULL => curr[c] \in List

FullInv == Inv /\ CoresInv /\ EndInv /\ ReplyMatchesList

\* A handler that has not got the mutex changes neither list nor replies.
LEMMA OutsideMutex ==
  ASSUME Inv, NEW c \in Conns, Handler(c) \/ Peer(c), mutex # c
  PROVE  UNCHANGED <<first, next, live, cores, len, snap, curr>>
<1>1. h[c] \notin Locked
  BY DEF Inv, MutexInv
<1>2. CASE Peer(c)
  BY <1>2 DEF Peer, Accept, Announce, AnnounceBody, Ask, PeerSends,
                GetHead, GetBody, PeerReads,
              Leave, handlerVars, listVars
<1>3. CASE RecvHead(c) \/ RecvHeadFails(c) \/ Destroy(c) \/ SendKills(c)
  BY <1>3 DEF RecvHead, RecvHeadFails, Destroy, SendKills, handlerVars, listVars
<1>4. CASE LockPush(c) \/ LockGet(c) \/ LockRemove(c)
  BY <1>4 DEF LockPush, LockGet, LockRemove, handlerVars, listVars
<1>5. CASE \/ RecvBody(c) \/ AckHead(c) \/ AckBody(c) \/ Walk(c) \/ Link(c)
           \/ Count(c) \/ Copy(c) \/ ListHead(c) \/ ListBody(c) \/ Remove(c)
  BY <1>1, <1>5 DEF RecvBody, AckHead, AckBody, Walk, Link, Count, Copy,
                    ListHead, ListBody, Remove, GoTo, Locked
<1>. QED BY <1>2, <1>3, <1>4, <1>5 DEF Handler

\* A step of one connection leaves the places of the others alone.
LEMMA OtherPlaces ==
  ASSUME TypeOK, NEW c \in Conns, Handler(c) \/ Peer(c),
         NEW d \in Conns, d # c
  PROVE  h'[d] = h[d] /\ peer'[d] = peer[d]
<1>1. CASE Peer(c)
  BY <1>1 DEF TypeOK, Peer, Accept, Announce, AnnounceBody, Ask, PeerSends,
              GetHead, GetBody, PeerReads, Leave
<1>2. CASE Handler(c)
  BY <1>2 DEF TypeOK, Handler, RecvHead, RecvHeadFails, LockPush, RecvBody,
              AckHead, AckBody, Walk, Link, LockGet, Count, Copy, ListHead,
              ListBody, LockRemove, Remove, Destroy, SendKills, Lock, GoTo,
              peerVars
<1>. QED BY <1>1, <1>2

\* While handle_get_info counts, copies and sends the list nobody changes it.
LEMMA ReplyStep == FullInv /\ [Next]_vars => ReplyMatchesList'
<1>. SUFFICES ASSUME FullInv, [Next]_vars, NEW d \in Conns
              PROVE  /\ h'[d] = "copy" => len'[d] = Cardinality(List')
                     /\ h'[d] \in {"list_head", "list_body"} =>
                          /\ snap'[d] = {InfoOf(x) : x \in List}'
                          /\ len'[d] = Cardinality(snap'[d])
  BY DEF ReplyMatchesList
<1>. USE ConstantsAssumption DEF InfoOf
<1>0. TypeOK /\ Inv /\ MutexInv
  BY DEF FullInv, Inv
<1>1. ASSUME UNCHANGED <<first, next, cores, len, snap>>, h'[d] = h[d]
      PROVE  /\ h'[d] = "copy" => len'[d] = Cardinality(List')
             /\ h'[d] \in {"list_head", "list_body"} =>
                  /\ snap'[d] = {InfoOf(x) : x \in List}'
                  /\ len'[d] = Cardinality(snap'[d])
  BY <1>1, ListUnchanged DEF FullInv, ReplyMatchesList
<1>2. ASSUME NEW c \in Conns, c # d, Handler(c) \/ Peer(c)
      PROVE  /\ h'[d] = "copy" => len'[d] = Cardinality(List')
             /\ h'[d] \in {"list_head", "list_body"} =>
                  /\ snap'[d] = {InfoOf(x) : x \in List}'
                  /\ len'[d] = Cardinality(snap'[d])
  <2>1. h'[d] = h[d]
    BY <1>0, <1>2, OtherPlaces
  <2>2. h[d] \in {"copy", "list_head", "list_body"} => mutex # c
    BY <1>0, <1>2 DEF MutexInv, Locked
  <2>. QED BY <1>0, <1>1, <1>2, <2>1, <2>2, OutsideMutex
<1>3. CASE Peer(d)
  BY <1>0, <1>1, <1>3 DEF Peer, Accept, Announce, AnnounceBody, Ask, PeerSends,
                          GetHead, GetBody, PeerReads, Leave, handlerVars, listVars, TypeOK
<1>4. CASE Count(d)
  BY <1>0, <1>4, ListUnchanged DEF Count, GoTo, TypeOK, listVars
<1>5. CASE Copy(d)
  <2>1. h[d] = "copy" /\ UNCHANGED <<first, next, cores, len>> /\ h'[d] = "list_head"
    BY <1>0, <1>5 DEF Copy, GoTo, TypeOK, listVars
  <2>2. snap'[d] = {InfoOf(x) : x \in List}
    BY <1>0, <1>5 DEF Copy, TypeOK
  <2>3. {InfoOf(x) : x \in List}' = {InfoOf(x) : x \in List}
    BY <2>1, ListUnchanged
  <2>4. len[d] = Cardinality(List)
    BY <2>1 DEF FullInv, ReplyMatchesList
  <2>. QED BY <2>1, <2>2, <2>3, <2>4, CopyHasSameSize
<1>6. CASE ListHead(d)
  BY <1>0, <1>6, ListUnchanged
     DEF ListHead, GoTo, TypeOK, handlerVars, listVars, FullInv, ReplyMatchesList
<1>7. CASE SendKills(d)
  BY <1>1, <1>7 DEF SendKills, handlerVars, listVars
<1>8. CASE Handler(d) /\ ~Count(d) /\ ~Copy(d) /\ ~ListHead(d) /\ ~SendKills(d)
  BY <1>0, <1>8 DEF Handler, RecvHead, RecvHeadFails, LockPush, RecvBody,
              AckHead, AckBody, Walk, Link, LockGet,
              ListBody, LockRemove, Remove, Destroy, Lock, GoTo, TypeOK
<1>9. CASE UNCHANGED vars
  BY <1>1, <1>9 DEF vars, handlerVars, listVars
<1>. QED BY <1>2, <1>3, <1>4, <1>5, <1>6, <1>7, <1>8, <1>9 DEF Next

\* Where the walk of append_info ended is on the list until the cell is linked.
LEMMA EndStep == FullInv /\ [Next]_vars => EndInv'
<1>. SUFFICES ASSUME FullInv, [Next]_vars, NEW d \in Conns,
                     h'[d] = "link", curr'[d] # NULL
              PROVE  curr'[d] \in List'
  BY DEF EndInv
<1>. USE ConstantsAssumption
<1>0. TypeOK /\ Inv /\ MutexInv
  BY DEF FullInv, Inv
<1>1. ASSUME UNCHANGED <<first, next, curr>>, h'[d] = h[d]
      PROVE  curr'[d] \in List'
  BY <1>1, ListUnchanged DEF FullInv, EndInv
<1>2. ASSUME NEW c \in Conns, c # d, Handler(c) \/ Peer(c)
      PROVE  curr'[d] \in List'
  <2>1. h'[d] = h[d]
    BY <1>0, <1>2, OtherPlaces
  <2>2. mutex # c
    BY <1>0, <1>2, <2>1 DEF MutexInv, Locked
  <2>. QED BY <1>0, <1>1, <1>2, <2>1, <2>2, OutsideMutex
<1>3. CASE Peer(d)
  BY <1>0, <1>1, <1>3 DEF Peer, Accept, Announce, AnnounceBody, Ask, PeerSends,
                          GetHead, GetBody, PeerReads, Leave, handlerVars, listVars, TypeOK
<1>4. CASE Walk(d)
  <2>1. PICK x \in Conns \cup {NULL} : LastCell(x) /\ curr' = [curr EXCEPT ![d] = x]
    BY <1>4 DEF Walk
  <2>2. x = NULL \/ x \in List
    BY <2>1 DEF LastCell
  <2>3. List' = List
    BY <1>4, ListUnchanged DEF Walk, listVars
  <2>. QED BY <1>0, <2>1, <2>2, <2>3 DEF TypeOK
<1>5. CASE SendKills(d)
  BY <1>1, <1>5 DEF SendKills, handlerVars, listVars
<1>6. CASE Handler(d) /\ ~Walk(d) /\ ~SendKills(d)
  BY <1>0, <1>6 DEF Handler, RecvHead, RecvHeadFails, LockPush, RecvBody,
              AckHead, AckBody, Link, LockGet, Count, Copy, ListHead,
              ListBody, LockRemove, Remove, Destroy, Lock, GoTo, TypeOK
<1>7. CASE UNCHANGED vars
  BY <1>1, <1>7 DEF vars, handlerVars, listVars
<1>. QED BY <1>2, <1>3, <1>4, <1>5, <1>6, <1>7 DEF Next

\* Only an announcement whose sender has gone leaves garbage in a cell.
LEMMA CoresStep == FullInv /\ [Next]_vars => CoresInv'
<1>. SUFFICES ASSUME FullInv, [Next]_vars, NEW d \in Conns, cores'[d] = "garbage"
              PROVE  peer'[d] = "gone" /\ (h'[d] \in Answering \/ d \in live')
  BY DEF CoresInv
<1>. USE ConstantsAssumption DEF Answering
<1>0. TypeOK /\ Inv /\ MutexInv /\ CoresInv /\ LiveInv /\ ConnInv
  BY DEF FullInv, Inv
<1>1. ASSUME UNCHANGED <<cores, live>>, peer'[d] = peer[d], h'[d] = h[d]
      PROVE  peer'[d] = "gone" /\ (h'[d] \in Answering \/ d \in live')
  BY <1>0, <1>1 DEF CoresInv
<1>2. ASSUME NEW c \in Conns, c # d, Handler(c) \/ Peer(c)
      PROVE  peer'[d] = "gone" /\ (h'[d] \in Answering \/ d \in live')
  <2>1. h'[d] = h[d] /\ peer'[d] = peer[d]
    BY <1>0, <1>2, OtherPlaces
  <2>2. cores'[d] = cores[d] /\ (d \in live => d \in live')
    <3>1. CASE RecvBody(c) \/ Link(c) \/ Remove(c)
      BY <1>0, <1>2, <3>1 DEF RecvBody, Link, Remove, AppendInfo, RemoveInfo, TypeOK
    <3>2. CASE Peer(c)
      BY <3>2 DEF Peer, Accept, Announce, AnnounceBody, Ask, PeerSends,
                  GetHead, GetBody, PeerReads, Leave, listVars
    <3>3. CASE Handler(c) /\ ~RecvBody(c) /\ ~Link(c) /\ ~Remove(c)
      BY <3>3 DEF Handler, RecvHead, RecvHeadFails, LockPush, AckHead, AckBody,
                  Walk, LockGet, Count, Copy, ListHead, ListBody, LockRemove,
                  Destroy, SendKills, listVars
    <3>. QED BY <1>2, <3>1, <3>2, <3>3
  <2>. QED BY <1>0, <2>1, <2>2 DEF CoresInv
<1>3. CASE Peer(d)
  BY <1>0, <1>3 DEF Peer, Accept, Announce, AnnounceBody, Ask, PeerSends,
                    GetHead, GetBody, PeerReads, Leave, listVars, TypeOK, CoresInv
<1>4. CASE RecvBody(d)
  BY <1>0, <1>4 DEF RecvBody, RecvFails, GoTo, TypeOK, ConnInv
<1>5. CASE Link(d)
  BY <1>0, <1>5 DEF Link, GoTo, AppendInfo, peerVars, TypeOK, CoresInv
<1>6. CASE Remove(d)
  BY <1>0, <1>6 DEF Remove, RemoveInfo, TypeOK
<1>7. CASE RecvHead(d) \/ RecvHeadFails(d) \/ Destroy(d) \/ SendKills(d)
  BY <1>0, <1>7 DEF RecvHead, RecvHeadFails, Destroy, SendKills, GoTo, peerVars,
                    listVars, TypeOK, CoresInv, LiveInv
<1>8. CASE \/ LockPush(d) \/ LockGet(d) \/ LockRemove(d) \/ AckHead(d)
           \/ AckBody(d) \/ Walk(d) \/ Count(d) \/ Copy(d) \/ ListHead(d)
           \/ ListBody(d)
  BY <1>0, <1>8 DEF LockPush, LockGet, LockRemove, AckHead, AckBody, Walk, Count,
                    Copy, ListHead, ListBody, Lock, GoTo, peerVars, listVars,
                    TypeOK, CoresInv
<1>9. CASE UNCHANGED vars
  BY <1>1, <1>9 DEF vars, peerVars, listVars
<1>. QED BY <1>2, <1>3, <1>4, <1>5, <1>6, <1>7, <1>8, <1>9 DEF Next, Handler

\* FullInv is an invariant.
THEOREM FullInvariance == Spec => []FullInv
<1>1. Init => FullInv
  <2>1. Init => CoresInv /\ EndInv /\ ReplyMatchesList
    BY DEF Init, CoresInv, EndInv, ReplyMatchesList
  <2>. QED BY <2>1, InitInv DEF FullInv
<1>2. FullInv /\ [Next]_vars => FullInv'
  <2>1. Inv /\ [Next]_vars => Inv'
    BY TypeStep, MutexStep, ProtocolStep, ListStep DEF Inv
  <2>. QED BY <2>1, ReplyStep, EndStep, CoresStep DEF FullInv
<1>. QED BY <1>1, <1>2, PTL DEF Spec

\* handle_get_info sends what the list holds and as much of it as it counted,
\* for any number of nodes that come and go meanwhile.
THEOREM RepliesMatchList == Spec => []ReplyMatchesList
<1>1. FullInv => ReplyMatchesList
  BY DEF FullInv
<1>. QED BY <1>1, FullInvariance, PTL

\* Every entry has a handler that is going to remove it, and an uninitialised
\* core count is that of a node that has left, for any number of nodes.
THEOREM EntriesHaveHandlers == Spec => []NoStaleEntries
<1>1. FullInv => NoStaleEntries
  <2>. SUFFICES ASSUME FullInv, NEW x \in List
                PROVE  /\ x \in Nodes
                       /\ h[x] \in {"head", "rm_lock", "remove"}
                       /\ cores[x] = "garbage" => peer[x] = "gone"
    BY DEF NoStaleEntries
  <2>1. x \in Conns /\ x \in live
    BY ListIsLive DEF FullInv, Inv, List
  <2>2. isNode[x] /\ h[x] # "destroy"
    BY <2>1 DEF FullInv, Inv, LiveInv
  <2>3. x \in Nodes
    BY <2>1, <2>2 DEF FullInv, Inv, ClientInv, Conns
  <2>4. h[x] \in {"head", "rm_lock", "remove"}
    BY <2>1, <2>2, <2>3 DEF FullInv, Inv, TypeOK, NodeInv, ConnInv, Announcing,
                            Answering, Getting
  <2>5. cores[x] = "garbage" => peer[x] = "gone"
    BY <2>1 DEF FullInv, CoresInv
  <2>. QED BY <2>3, <2>4, <2>5
<1>. QED BY <1>1, FullInvariance, PTL

-----------------------------------------------------------------------------
(***************************************************************************)
(* The main server implements Registry.                                    *)
(***************************************************************************)
\* The entries that a handler is sending.
Sending(c) == {i.address : i \in snap[c]}
Answer == [c \in Conns |-> Sending(c)]

\* Before the first announcement the registry is empty.
LEMMA RefinesInit == Init => R!Init
<1>. SUFFICES ASSUME Init PROVE R!Init
  OBVIOUS
<1>1. List = {}
  <2>1. ClosedUnderNext({})
    BY DEF Init, ClosedUnderNext
  <2>. QED BY <2>1, ListIsLeast
<1>2. [c \in Conns |-> {i.address : i \in snap[c]}] = [c \in Conns |-> {}]
  BY DEF Init
<1>. QED BY <1>1, <1>2 DEF R!Init

\* Every step of a handler or a peer is a step of the registry or none.
LEMMA RefinesNext ==
  FullInv /\ [Next]_vars => [R!Next]_<<List, Answer>>
<1>. SUFFICES ASSUME FullInv, [Next]_vars PROVE [R!Next]_<<List, Answer>>
  OBVIOUS
<1>. USE ConstantsAssumption
<1>0. TypeOK /\ Inv /\ LinksInv /\ LiveInv /\ NodeInv /\ ClientInv /\ ConnInv
  BY DEF FullInv, Inv
<1>1. ASSUME UNCHANGED <<first, next, snap>> PROVE UNCHANGED <<List, Answer>>
  BY <1>1, ListUnchanged DEF Answer, Sending
<1>2. ASSUME NEW c \in Conns, Link(c) PROVE R!Next
  <2>1. c \in Nodes /\ c \notin live
    BY <1>0, <1>2 DEF Link, GoTo, NodeInv, ClientInv, LiveInv, Conns, Answering
  <2>2. c \notin List
    BY <1>0, <2>1, ListIsLive
  <2>3. List' = List \cup {c}
    <3>1. curr[c] \in Conns \cup {NULL}
      BY <1>0 DEF TypeOK
    <3>2. IF curr[c] = NULL THEN first = NULL
          ELSE curr[c] \in List /\ next[curr[c]] = NULL
      BY <1>2 DEF Link, GoTo, FullInv, Inv, WalkInv, EndInv
    <3>. QED BY <1>0, <1>2, <2>2, <3>1, <3>2, AppendAddsOne DEF Link
  <2>4. Answer' = Answer
    BY <1>2 DEF Link, Answer, Sending
  <2>5. R!Register(c)
    BY <2>2, <2>3, <2>4 DEF R!Register, Answer, Sending
  <2>. QED BY <2>1, <2>5 DEF R!Next
<1>3. ASSUME NEW c \in Conns, Remove(c) PROVE R!Next
  <2>1. c \in Nodes /\ c \in live
    BY <1>0, <1>3 DEF Remove, GoTo, ConnInv, ClientInv, LiveInv, Conns, Removing
  <2>2. List' = List \ {c} \/ List' = {}
    BY <1>0, <1>3, <2>1, RemoveTakesOneOrAll DEF Remove
  <2>3. Answer' = Answer
    BY <1>3 DEF Remove, handlerVars, Answer, Sending
  <2>4. R!Unregister(c)
    BY <2>2, <2>3 DEF R!Unregister, Answer, Sending
  <2>. QED BY <2>1, <2>4 DEF R!Next
<1>4. ASSUME NEW c \in Conns, Copy(c) PROVE R!Next
  <2>1. List' = List
    BY <1>4, ListUnchanged DEF Copy, listVars
  <2>2. Sending(c)' = List
    <3>1. snap'[c] = {InfoOf(x) : x \in List}
      BY <1>0, <1>4 DEF Copy, TypeOK
    <3>2. \A x \in List : InfoOf(x).address = x
      BY DEF InfoOf
    <3>3. {i.address : i \in {InfoOf(x) : x \in List}} = List
      BY <3>2
    <3>. QED BY <3>1, <3>3 DEF Sending
  <2>3. Answer' = [Answer EXCEPT ![c] = List]
    BY <1>0, <1>4, <2>2 DEF Answer, Sending, Copy, TypeOK
  <2>4. R!Copy(c)
    BY <2>1, <2>3 DEF R!Copy, Answer, Sending
  <2>. QED BY <2>4 DEF R!Next
<1>5. ASSUME NEW c \in Conns, ListBody(c) PROVE R!Next
  <2>1. List' = List
    BY <1>5, ListUnchanged DEF ListBody, listVars
  <2>2. snap' = [snap EXCEPT ![c] = {}] /\ snap \in [Conns -> SUBSET Info]
    BY <1>0, <1>5 DEF ListBody, TypeOK
  <2>3. Sending(c)' = {}
    BY <2>2 DEF Sending
  <2>4. Answer' = [Answer EXCEPT ![c] = {}]
    BY <2>2, <2>3 DEF Answer, Sending
  <2>5. R!Sent(c)
    BY <2>1, <2>4 DEF R!Sent, Answer, Sending
  <2>. QED BY <2>5 DEF R!Next
<1>6. ASSUME NEW c \in Conns,
             Handler(c), ~Link(c), ~Remove(c), ~Copy(c), ~ListBody(c)
      PROVE  UNCHANGED <<List, Answer>>
  BY <1>1, <1>6 DEF Handler, RecvHead, RecvHeadFails, LockPush, RecvBody,
                    AckHead, AckBody, Walk, LockGet, Count, ListHead,
                    LockRemove, Destroy, SendKills, handlerVars, listVars
<1>7. ASSUME NEW c \in Conns, Peer(c) PROVE UNCHANGED <<List, Answer>>
  BY <1>1, <1>7 DEF Peer, Accept, Announce, AnnounceBody, Ask, PeerSends,
                    GetHead, GetBody, PeerReads, Leave, handlerVars, listVars
<1>8. CASE UNCHANGED vars
  BY <1>1, <1>8 DEF vars, handlerVars, listVars
<1>. QED BY <1>2, <1>3, <1>4, <1>5, <1>6, <1>7, <1>8 DEF Next

\* The cells, the walks over them, the threads and the mutex of the main
\* server implement a set of entries that announcements extend one by one and
\* whose copies are answers, for any number of nodes and clients.
THEOREM ServerImplementsRegistry == Spec => ImplementsRegistry
<1>1. FullInv /\ [Next]_vars => [R!Next]_<<List, [c \in Conns |-> {i.address : i \in snap[c]}]>>
  BY RefinesNext DEF Answer, Sending
<1>. QED BY <1>1, RefinesInit, FullInvariance, PTL DEF Spec, R!Spec, ImplementsRegistry
=============================================================================
