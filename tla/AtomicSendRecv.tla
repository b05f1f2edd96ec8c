--------------------------- MODULE AtomicSendRecv ---------------------------
(***************************************************************************)
(* dic_atomic_send_recv: the remote procedure call under every operation   *)
(* of diconlib.  Several application threads share one connection to one   *)
(* compute node.  A caller takes send_mut, sends its request, takes        *)
(* recv_mut while it still holds send_mut, gives send_mut back and reads   *)
(* the response: a head, then a body.  The node serves the connection one  *)
(* request at a time (dic_node_recv_send).                                 *)
(*                                                                         *)
(* Each direction of the TCP connection is a sequence of parts.  A part is *)
(* the head or the body of one message and is tagged with the call that it *)
(* belongs to, which the code cannot see: the tags are what the properties *)
(* are about.  Request and response of a call have the same two tagged     *)
(* parts.  The two parts of a message may be apart: send() returns when    *)
(* the last byte is in the socket buffer, and the other side reads what    *)
(* has arrived.  Neither side checks the result of send(), and the caller  *)
(* does not check the result of dic_conn_recv either.                      *)
(***************************************************************************)
EXTENDS Naturals, Sequences

CONSTANTS
  Threads,   \* the application threads that share the node
  None,      \* the owner of a free mutex
  Cap,       \* how many parts a direction of the connection can hold
  NumIds,    \* the ids of calls wrap around at this number
  MayBreak   \* whether the connection may break

ASSUME ConstantsAssumption ==
  /\ None \notin Threads
  /\ Cap \in Nat \ {0}
  /\ NumIds \in Nat \ {0, 1}
  /\ MayBreak \in BOOLEAN

VARIABLES
  \* the client process
  pc,        \* pc[t]: where in dic_atomic_send_recv thread t is
  sendMut,   \* the owner of conn->send_mut
  recvMut,   \* the owner of conn->recv_mut
  sockfd,    \* conn->sockfd: "open", or "closed" for -1
  buf,       \* buf[t]: the parts that thread t has read in this call
  alive,     \* FALSE: SIGPIPE has killed the client
  \* the connection
  link,      \* "up", or "down" once it has broken
  toNode,    \* the parts on their way to the node
  toClient,  \* the parts on their way to the client
  \* the compute node
  nodePc,    \* where in dic_node_recv_send the node is
  inHand,    \* the parts of the message that the node is working on
  \* history
  call,      \* call[t]: the id of the current, or else the last, call of t
  execs      \* execs[t]: how often the node has executed that call

clientVars == <<pc, sendMut, recvMut, sockfd, buf, alive, call>>
nodeVars == <<nodePc, inHand, execs>>
vars == <<clientVars, link, toNode, toClient, nodeVars>>

\* The id of a call that is begun on a broken connection: it is never sent.
Unsent == NumIds

Part == [kind : {"head", "body"}, by : Threads, id : 0..NumIds]

HeadPart(t) == [kind |-> "head", by |-> t, id |-> call[t]]
BodyPart(t) == [kind |-> "body", by |-> t, id |-> call[t]]

\* The request, and also the response, of the current call of t.
Msg(t) == <<HeadPart(t), BodyPart(t)>>

TypeOK ==
  /\ pc \in [Threads -> {"idle", "lock_send", "send", "sending", "lock_recv",
                         "unlock_send", "recv_head", "recv_body",
                         "unlock_recv"}]
  /\ sendMut \in Threads \cup {None}
  /\ recvMut \in Threads \cup {None}
  /\ sockfd \in {"open", "closed"}
  /\ buf \in [Threads -> Seq(Part)]
  /\ alive \in BOOLEAN
  /\ link \in {"up", "down"}
  /\ toNode \in Seq(Part)
  /\ toClient \in Seq(Part)
  /\ nodePc \in {"recv_head", "recv_body", "handle", "send", "accept", "dead"}
  /\ inHand \in Seq(Part)
  /\ call \in [Threads -> 0..NumIds]
  /\ execs \in [Threads -> Nat]

Init ==
  /\ pc = [t \in Threads |-> "idle"]
  /\ sendMut = None
  /\ recvMut = None
  /\ sockfd = "open"
  /\ buf = [t \in Threads |-> << >>]
  /\ alive = TRUE
  /\ link = "up"
  /\ toNode = << >>
  /\ toClient = << >>
  /\ nodePc = "recv_head"
  /\ inHand = << >>
  /\ call = [t \in Threads |-> 0]
  /\ execs = [t \in Threads |-> 0]

-----------------------------------------------------------------------------
(***************************************************************************)
(* The client.  Every thread step needs the process to be alive.           *)
(***************************************************************************)
GoTo(t, from, to) ==
  /\ alive
  /\ pc[t] = from
  /\ pc' = [pc EXCEPT ![t] = to]

\* An operation of the library is called and has built its request.
Begin(t) ==
  /\ GoTo(t, "idle", "lock_send")
  /\ call' = [call EXCEPT ![t] = IF link = "up" THEN (@ + 1) % NumIds
                                                ELSE Unsent]
  /\ buf' = [buf EXCEPT ![t] = << >>]
  /\ execs' = [execs EXCEPT ![t] = 0]
  /\ UNCHANGED <<sendMut, recvMut, sockfd, alive, link, toNode, toClient,
                 nodePc, inHand>>

\* Mutant: the request is sent without waiting for send_mut.
LockSendUnguarded(t) ==
  /\ GoTo(t, "lock_send", "send")
  /\ sendMut' = t
  /\ UNCHANGED <<recvMut, sockfd, buf, alive, link, toNode, toClient,
                 nodeVars, call>>

LockSend(t) ==
  /\ GoTo(t, "lock_send", "send")
  /\ sendMut = None
  /\ sendMut' = t
  /\ UNCHANGED <<recvMut, sockfd, buf, alive, link, toNode, toClient,
                 nodeVars, call>>

\* send() waits for room in the socket buffer.  On a broken connection, or
\* with sockfd = -1, it fails and dic_conn_send still returns 0.
Transmit(part) ==
  \/ /\ link = "up"
     /\ Len(toNode) < Cap
     /\ toNode' = Append(toNode, part)
  \/ /\ link = "down"
     /\ UNCHANGED toNode

\* dic_conn_send: the bytes of the head, then those of the body.
SendHead(t) ==
  /\ GoTo(t, "send", "sending")
  /\ Transmit(HeadPart(t))
  /\ UNCHANGED <<sendMut, recvMut, sockfd, buf, alive, link, toClient,
                 nodeVars, call>>

SendBody(t) ==
  /\ GoTo(t, "sending", "lock_recv")
  /\ Transmit(BodyPart(t))
  /\ UNCHANGED <<sendMut, recvMut, sockfd, buf, alive, link, toClient,
                 nodeVars, call>>

\* send() on a broken connection whose descriptor is still open may raise
\* SIGPIPE (no MSG_NOSIGNAL, no handler): the client dies.  A request is
\* one send(): if the connection breaks after some bytes have gone out, it
\* returns their number and raises nothing.
SendKills(t) ==
  /\ alive
  /\ pc[t] = "send"
  /\ sockfd = "open"
  /\ link = "down"
  /\ alive' = FALSE
  /\ UNCHANGED <<pc, sendMut, recvMut, sockfd, buf, link, toNode, toClient,
                 nodeVars, call>>

\* Mutant: the response is awaited without recv_mut.
LockRecvUnguarded(t) ==
  /\ GoTo(t, "lock_recv", "unlock_send")
  /\ recvMut' = t
  /\ UNCHANGED <<sendMut, sockfd, buf, alive, link, toNode, toClient,
                 nodeVars, call>>

LockRecv(t) ==
  /\ GoTo(t, "lock_recv", "unlock_send")
  /\ recvMut = None
  /\ recvMut' = t
  /\ UNCHANGED <<sendMut, sockfd, buf, alive, link, toNode, toClient,
                 nodeVars, call>>

UnlockSend(t) ==
  /\ GoTo(t, "unlock_send", "recv_head")
  /\ sendMut' = None
  /\ UNCHANGED <<recvMut, sockfd, buf, alive, link, toNode, toClient,
                 nodeVars, call>>

\* dic_conn_recv: read the next part, or fail at the end of a broken stream,
\* which closes the socket.
ConnRecv(t) ==
  \/ /\ sockfd = "open"
     /\ toClient # << >>
     /\ buf' = [buf EXCEPT ![t] = Append(@, Head(toClient))]
     /\ toClient' = Tail(toClient)
     /\ UNCHANGED sockfd
  \/ /\ sockfd = "closed" \/ (link = "down" /\ toClient = << >>)
     /\ sockfd' = "closed"
     /\ UNCHANGED <<buf, toClient>>

RecvHead(t) ==
  /\ GoTo(t, "recv_head", "recv_body")
  /\ ConnRecv(t)
  /\ UNCHANGED <<sendMut, recvMut, alive, link, toNode, nodeVars, call>>

RecvBody(t) ==
  /\ GoTo(t, "recv_body", "unlock_recv")
  /\ ConnRecv(t)
  /\ UNCHANGED <<sendMut, recvMut, alive, link, toNode, nodeVars, call>>

\* Mutant: recv_mut is not given back.
UnlockRecvForgets(t) ==
  /\ GoTo(t, "unlock_recv", "idle")
  /\ UNCHANGED <<sendMut, recvMut, sockfd, buf, alive, link, toNode, toClient,
                 nodeVars, call>>

\* Unlock recv_mut and return what has been read, whatever that is.
UnlockRecv(t) ==
  /\ GoTo(t, "unlock_recv", "idle")
  /\ recvMut' = None
  /\ UNCHANGED <<sendMut, sockfd, buf, alive, link, toNode, toClient,
                 nodeVars, call>>

-----------------------------------------------------------------------------
(***************************************************************************)
(* The compute node: dic_node_recv_send in a loop.                         *)
(***************************************************************************)
NodeTakes(from, to) ==
  /\ nodePc = from
  /\ toNode # << >>
  /\ inHand' = Append(inHand, Head(toNode))
  /\ toNode' = Tail(toNode)
  /\ nodePc' = to
  /\ UNCHANGED <<clientVars, link, toClient, execs>>

NodeRecvHead == NodeTakes("recv_head", "recv_body")

NodeRecvBody == NodeTakes("recv_body", "handle")

\* Mutant: the node answers a request that it has not executed.
NodeHandleSkips ==
  /\ nodePc = "handle"
  /\ nodePc' = "send"
  /\ UNCHANGED <<clientVars, link, toNode, toClient, inHand, execs>>

\* The handler of the operation runs and builds the response.
NodeHandle ==
  /\ nodePc = "handle"
  /\ nodePc' = "send"
  /\ LET t == inHand[1].by
     IN  execs' = [execs EXCEPT ![t] = IF inHand[1].id = call[t] THEN @ + 1
                                                                 ELSE @]
  /\ UNCHANGED <<clientVars, link, toNode, toClient, inHand>>

\* dic_conn_send of the response, part by part; then the next request.
NodeSend ==
  /\ nodePc = "send"
  /\ \/ /\ link = "up"
        /\ Len(toClient) < Cap
        /\ toClient' = Append(toClient, Head(inHand))
     \/ /\ link = "down"
        /\ UNCHANGED toClient
  /\ inHand' = Tail(inHand)
  /\ nodePc' = IF Len(inHand) = 1 THEN "recv_head" ELSE "send"
  /\ UNCHANGED <<clientVars, link, toNode, execs>>

\* Mutant: the node's main loop ends with its first client.
NodeDisconnectExits ==
  /\ nodePc \in {"recv_head", "recv_body"}
  /\ link = "down"
  /\ toNode = << >>
  /\ nodePc' = "exit"
  /\ inHand' = << >>
  /\ UNCHANGED <<clientVars, link, toNode, toClient, execs>>

\* recv fails: client_handling_loop ends, listen_loop accepts again.
NodeDisconnect ==
  /\ nodePc \in {"recv_head", "recv_body"}
  /\ link = "down"
  /\ toNode = << >>
  /\ nodePc' = "accept"
  /\ inHand' = << >>
  /\ UNCHANGED <<clientVars, link, toNode, toClient, execs>>

\* SIGPIPE in send(): the node dies.
NodeSendKills ==
  /\ nodePc = "send"
  /\ link = "down"
  /\ nodePc' = "dead"
  /\ inHand' = << >>
  /\ UNCHANGED <<clientVars, link, toNode, toClient, execs>>

-----------------------------------------------------------------------------
(***************************************************************************)
(* The environment.  The connection is reset or the node dies: what had    *)
(* not arrived is lost, the rest can still be read.                        *)
(***************************************************************************)
Truncate ==
  /\ MayBreak
  /\ link = "up"
  /\ link' = "down"
  /\ \E m \in 0..Len(toNode) : toNode' = SubSeq(toNode, 1, m)
  /\ \E n \in 0..Len(toClient) : toClient' = SubSeq(toClient, 1, n)

Break ==
  /\ Truncate
  /\ UNCHANGED <<clientVars, nodeVars>>

NodeCrash ==
  /\ Truncate
  /\ nodePc' = "dead"
  /\ inHand' = << >>
  /\ UNCHANGED <<clientVars, execs>>

-----------------------------------------------------------------------------
\* What a thread does inside a call.
Proceed(t) ==
  \/ LockSend(t) \/ SendHead(t) \/ SendBody(t) \/ SendKills(t)
  \/ LockRecv(t) \/ UnlockSend(t) \/ RecvHead(t) \/ RecvBody(t)
  \/ UnlockRecv(t)

Node ==
  \/ NodeRecvHead \/ NodeRecvBody \/ NodeHandle \/ NodeSend
  \/ NodeDisconnect \/ NodeSendKills

Next ==
  \/ \E t \in Threads : Begin(t) \/ Proceed(t)
  \/ Node
  \/ Break
  \/ NodeCrash

Spec == Init /\ [][Next]_vars

\* The scheduler runs every thread that can run, and the node; the handler
\* of an operation returns.
Fairness ==
  /\ \A t \in Threads : WF_vars(Proceed(t))
  /\ WF_vars(Node)

FairSpec == Spec /\ Fairness

-----------------------------------------------------------------------------
IsPrefixOf(s, u) == Len(s) <= Len(u) /\ s = SubSeq(u, 1, Len(s))

\* Whatever a thread reads is the response to its own current call, in
\* order, and as long as the connection is up a call returns all of it: no
\* other thread steals the response between the send and the receive
\* (dic_atomic_send_recv takes recv_mut before it gives send_mut back).
OwnResponse ==
  \A t \in Threads :
    /\ IsPrefixOf(buf[t], Msg(t))
    /\ pc[t] = "unlock_recv" /\ link = "up" => buf[t] = Msg(t)

\* What the node executes is one whole request of one call, never the head
\* of one with the body of another, and while the connection is up its
\* caller is still waiting for it and it has not been executed before
\* (requests of different threads never interleave in the stream).
RequestsFramed ==
  nodePc = "handle" =>
    \E t \in Threads, i \in 0..(NumIds - 1) :
      /\ inHand = <<[kind |-> "head", by |-> t, id |-> i],
                    [kind |-> "body", by |-> t, id |-> i]>>
      /\ link = "up" =>
           /\ i = call[t]
           /\ execs[t] = 0
           /\ pc[t] \in {"lock_recv", "unlock_send", "recv_head"}

\* Once a thread holds send_mut its call comes back, whatever the other
\* threads do and however little the socket buffers hold, unless SIGPIPE
\* kills the client: nobody waits in a circle over the two mutexes, the two
\* socket buffers and the node's request loop.
SentCallReturns ==
  \A t \in Threads :
    pc[t] = "send" ~> (pc[t] = "idle" \/ ~alive)

(***************************************************************************)
(* The abstract calls that this protocol implements.                       *)
(***************************************************************************)
Stage ==
  [t \in Threads |-> IF pc[t] = "idle" THEN "idle"
                     ELSE IF execs[t] = 0 THEN "called"
                     ELSE IF execs[t] = 1 THEN "executed"
                     ELSE "executed again"]

Answer ==
  [t \in Threads |-> IF pc[t] = "idle" /\ buf[t] = Msg(t) THEN "own"
                                                          ELSE "undefined"]

Calls == INSTANCE RemoteCalls
           WITH stage <- Stage, answer <- Answer, broken <- (link = "down")

\* The locking protocol implements RemoteCalls: every call is executed at
\* most once and returns the answer to itself, or an undefined answer on a
\* broken connection.
ImplementsRemoteCalls == Calls!Spec
=============================================================================
