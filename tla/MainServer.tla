----------------------------- MODULE MainServer -----------------------------
(***************************************************************************)
(* The main server: one detached handler thread per accepted connection,   *)
(* and the doubly linked list NODES_INFO of the compute nodes that have    *)
(* announced themselves, under NODES_INFO_MUT.  A node announces itself    *)
(* once, in two sends, and holds its connection open; a client asks for    *)
(* the list as often as it likes.  Peers may leave at any moment.          *)
(*                                                                         *)
(* A connection and its list cell are named alike, since every handler     *)
(* allocates at most one cell.  An address is the name of its connection.  *)
(***************************************************************************)
EXTENDS Naturals, Sequences, FiniteSets

CONSTANTS
  Nodes,     \* connections made by compute nodes
  Clients,   \* connections made by clients
  Cap,       \* how many parts of a reply the buffers of a connection hold
  NULL       \* the null pointer, the owner of a free mutex

Conns == Nodes \cup Clients

ASSUME ConstantsAssumption ==
  /\ Nodes \cap Clients = {}
  /\ NULL \notin Conns
  /\ IsFiniteSet(Conns)
  /\ Cap \in Nat \ {0}

VARIABLES
  \* the peers and their streams
  peer,      \* peer[c]: what the process at the other end is doing
  inq,       \* inq[c]: the messages that c's handler has yet to read
  out,       \* out[c]: how many parts of a reply the peer has yet to read
  \* the server process
  up,        \* FALSE: SIGPIPE has killed the server
  h,         \* h[c]: where the handler thread of c is
  fd,        \* fd[c]: conn->sockfd, "open" or "closed"
  poked,     \* poked[c]: something was sent after the peer had gone
  mutex,     \* the owner of NODES_INFO_MUT
  isNode,    \* isNode[c]: is_compute_node, and conn_info is set
  curr,      \* curr[c]: curr_node where the walk of append_info ended
  len,       \* len[c]: the number of cells that handle_get_info counted
  snap,      \* snap[c]: the list that handle_get_info copied
  \* the heap
  first,     \* NODES_INFO
  live,      \* the cells that are allocated
  next,      \* next[c], prev[c], cores[c]: the fields of cell c
  prev,
  cores      \* core_count: "known", or "garbage" if the body never came

peerVars == <<peer, inq, out>>
connVars == <<fd, poked>>
handlerVars == <<isNode, curr, len, snap>>
listVars == <<first, live, next, prev, cores>>
vars == <<peerVars, up, h, connVars, mutex, handlerVars, listVars>>

Info == [address : Conns, core_count : {"known", "garbage"}]

TypeOK ==
  /\ peer \in [Conns -> {"off", "up", "half", "sent", "asked", "reading",
                     "online", "gone"}]
  /\ inq \in [Conns -> Seq({"announce", "body", "get"})]
  /\ out \in [Conns -> 0..Cap]
  /\ up \in BOOLEAN
  /\ h \in [Conns -> {"none", "head",
                      "push_lock", "push_body", "ack_head", "ack_body",
                      "walk", "link",
                      "get_lock", "count", "copy", "list_head", "list_body",
                      "rm_lock", "remove", "destroy"}]
  /\ fd \in [Conns -> {"open", "closed"}]
  /\ poked \in [Conns -> BOOLEAN]
  /\ mutex \in Conns \cup {NULL}
  /\ isNode \in [Conns -> BOOLEAN]
  /\ curr \in [Conns -> Conns \cup {NULL}]
  /\ len \in [Conns -> Nat]
  /\ snap \in [Conns -> SUBSET Info]
  /\ first \in Conns \cup {NULL}
  /\ live \subseteq Conns
  /\ next \in [Conns -> Conns \cup {NULL}]
  /\ prev \in [Conns -> Conns \cup {NULL}]
  /\ cores \in [Conns -> {"known", "garbage"}]

Init ==
  /\ peer = [c \in Conns |-> "off"]
  /\ inq = [c \in Conns |-> << >>]
  /\ out = [c \in Conns |-> 0]
  /\ up = TRUE
  /\ h = [c \in Conns |-> "none"]
  /\ fd = [c \in Conns |-> "closed"]
  /\ poked = [c \in Conns |-> FALSE]
  /\ mutex = NULL
  /\ isNode = [c \in Conns |-> FALSE]
  /\ curr = [c \in Conns |-> NULL]
  /\ len = [c \in Conns |-> 0]
  /\ snap = [c \in Conns |-> {}]
  /\ first = NULL
  /\ live = {}
  /\ next = [c \in Conns |-> NULL]
  /\ prev = [c \in Conns |-> NULL]
  /\ cores = [c \in Conns |-> "known"]

-----------------------------------------------------------------------------
(***************************************************************************)
(* The list.  A walk over `next` from NODES_INFO visits the cells in every *)
(* set that holds the first one and is closed under `next`.                *)
(***************************************************************************)
ClosedUnderNext(S) ==
  /\ first \in S \cup {NULL}
  /\ \A y \in S : next[y] \in S \cup {NULL}

List == {x \in Conns : \A S \in SUBSET Conns : ClosedUnderNext(S) => x \in S}

\* append_info: the walk ends at the last cell; the new cell goes behind it.
LastCell(x) ==
  IF first = NULL THEN x = NULL ELSE x \in List /\ next[x] = NULL

AppendInfo(c, last) ==
  /\ live' = live \cup {c}
  /\ first' = IF last = NULL THEN c ELSE first
  /\ next' = [x \in Conns |-> CASE x = c -> NULL
                              [] x # c /\ x = last -> c
                              [] OTHER -> next[x]]
  /\ prev' = [prev EXCEPT ![c] = last]

\* Mutant: the successor keeps its pointer to the cell that is freed.
RemoveInfoOneWay(c) ==
  /\ prev' = [prev EXCEPT ![c] = NULL]
  /\ next' = [x \in Conns |-> CASE x = c -> NULL
                              [] x # c /\ x = prev[c] -> next[c]
                              [] OTHER -> next[x]]
  /\ cores' = [cores EXCEPT ![c] = "known"]
  /\ first' = IF prev[c] = NULL THEN NULL ELSE first
  /\ live' = live \ {c}

\* remove_info: unlink and free.  Removing a cell without a predecessor sets
\* NODES_INFO to NULL, also when the cell has a successor.  What a freed cell
\* holds is forgotten.
RemoveInfo(c) ==
  /\ prev' = [x \in Conns |-> CASE x = c -> NULL
                              [] x # c /\ x = next[c] -> prev[c]
                              [] OTHER -> prev[x]]
  /\ next' = [x \in Conns |-> CASE x = c -> NULL
                              [] x # c /\ x = prev[c] -> next[c]
                              [] OTHER -> next[x]]
  /\ cores' = [cores EXCEPT ![c] = "known"]
  /\ first' = IF prev[c] = NULL THEN NULL ELSE first
  /\ live' = live \ {c}

-----------------------------------------------------------------------------
(***************************************************************************)
(* The peers.  What they do once the server is dead is of no interest.     *)
(***************************************************************************)
\* A peer connects; listen_loop accepts and starts a handler.
Accept(c) ==
  /\ up
  /\ peer[c] = "off"
  /\ h[c] = "none"
  /\ peer' = [peer EXCEPT ![c] = "up"]
  /\ h' = [h EXCEPT ![c] = "head"]
  /\ fd' = [fd EXCEPT ![c] = "open"]
  /\ UNCHANGED <<inq, out, up, poked, mutex, handlerVars, listVars>>

PeerSends(c, from, to, message) ==
  /\ up
  /\ peer[c] = from
  /\ peer' = [peer EXCEPT ![c] = to]
  /\ inq' = [inq EXCEPT ![c] = Append(@, message)]
  /\ UNCHANGED <<out, up, h, connVars, mutex, handlerVars, listVars>>

\* notify_main_server: the head, then the body, in two sends.
Announce(c) == c \in Nodes /\ PeerSends(c, "up", "half", "announce")
AnnounceBody(c) == PeerSends(c, "half", "sent", "body")

\* dic_get_nodes_info: a head without a body.
Ask(c) == c \in Clients /\ PeerSends(c, "up", "asked", "get")

\* The peer reads the reply: the head, then the body.
PeerReads(c, from, to) ==
  /\ up
  /\ peer[c] \in from
  /\ out[c] > 0
  /\ peer' = [peer EXCEPT ![c] = to]
  /\ out' = [out EXCEPT ![c] = @ - 1]
  /\ UNCHANGED <<inq, up, h, connVars, mutex, handlerVars, listVars>>

GetHead(c) == PeerReads(c, {"sent", "asked"}, "reading")
GetBody(c) == PeerReads(c, {"reading"}, IF c \in Nodes THEN "online" ELSE "up")

\* The peer disconnects or dies; what has not arrived is lost.
Leave(c) ==
  /\ up
  /\ peer[c] \notin {"off", "gone"}
  /\ peer' = [peer EXCEPT ![c] = "gone"]
  /\ \E n \in 0..Len(inq[c]) :
       inq' = [inq EXCEPT ![c] = SubSeq(@, 1, n)]
  /\ out' = [out EXCEPT ![c] = 0]
  /\ UNCHANGED <<up, h, connVars, mutex, handlerVars, listVars>>

-----------------------------------------------------------------------------
(***************************************************************************)
(* The handler threads.                                                    *)
(***************************************************************************)
GoTo(c, from, to) ==
  /\ up
  /\ h[c] = from
  /\ h' = [h EXCEPT ![c] = to]

Lock(c, from, to) ==
  /\ GoTo(c, from, to)
  /\ mutex = NULL
  /\ mutex' = c

\* dic_conn_recv fails: the socket is closed, or the stream has ended.
RecvFails(c) ==
  /\ fd[c] = "closed" \/ (peer[c] = "gone" /\ inq[c] = << >>)
  /\ fd' = [fd EXCEPT ![c] = "closed"]

\* dic_conn_send: send() waits for room, and its result is ignored.  A first
\* send after the peer has gone still succeeds.
Send(c) ==
  \/ /\ fd[c] = "open" /\ peer[c] # "gone"
     /\ out[c] < Cap
     /\ out' = [out EXCEPT ![c] = @ + 1]
     /\ UNCHANGED poked
  \/ /\ fd[c] = "open" /\ peer[c] = "gone"
     /\ poked' = [poked EXCEPT ![c] = TRUE]
     /\ UNCHANGED out
  \/ /\ fd[c] = "closed"
     /\ UNCHANGED <<out, poked>>

\* A later one raises SIGPIPE if the reset has come back by then.
SendKills(c) ==
  /\ up
  /\ h[c] \in {"ack_head", "ack_body", "list_head", "list_body"}
  /\ fd[c] = "open"
  /\ poked[c]
  /\ up' = FALSE
  /\ UNCHANGED <<peerVars, h, connVars, mutex, handlerVars, listVars>>

\* The loop of connection_handler_thread: read a head and dispatch.
RecvHead(c) ==
  /\ fd[c] = "open"
  /\ inq[c] # << >>
  /\ GoTo(c, "head", CASE Head(inq[c]) = "announce" -> "push_lock"
                       [] Head(inq[c]) = "get" -> "get_lock"
                       [] OTHER -> "head")
  /\ inq' = [inq EXCEPT ![c] = Tail(@)]
  /\ UNCHANGED <<peer, out, up, connVars, mutex, handlerVars, listVars>>

\* Mutant: the entry of a node that has left is not removed.
RecvHeadFailsKeeps(c) ==
  /\ RecvFails(c)
  /\ GoTo(c, "head", "destroy")
  /\ UNCHANGED <<peerVars, up, poked, mutex, handlerVars, listVars>>

\* The connection is closed: leave the loop.
RecvHeadFails(c) ==
  /\ RecvFails(c)
  /\ GoTo(c, "head", IF isNode[c] THEN "rm_lock" ELSE "destroy")
  /\ UNCHANGED <<peerVars, up, poked, mutex, handlerVars, listVars>>

\* Mutant: the mutex is not waited for.
LockPushUnguarded(c) ==
  /\ GoTo(c, "push_lock", "push_body")
  /\ mutex' = c
  /\ UNCHANGED <<peerVars, up, connVars, handlerVars, listVars>>

\* handle_push_info, with the mutex held from here to Link: receive the
\* body.  If that fails body.core_count is never written.
LockPush(c) ==
  /\ Lock(c, "push_lock", "push_body")
  /\ UNCHANGED <<peerVars, up, connVars, handlerVars, listVars>>

RecvBody(c) ==
  /\ GoTo(c, "push_body", "ack_head")
  /\ \/ /\ fd[c] = "open"
        /\ inq[c] # << >>
        /\ inq' = [inq EXCEPT ![c] = Tail(@)]
        /\ cores' = [cores EXCEPT ![c] = "known"]
        /\ UNCHANGED fd
     \/ /\ RecvFails(c)
        /\ cores' = [cores EXCEPT ![c] = "garbage"]
        /\ UNCHANGED inq
  /\ UNCHANGED <<peer, out, up, poked, mutex, handlerVars, first, live, next,
                 prev>>

\* The acknowledgement, in two sends.
AckHead(c) ==
  /\ GoTo(c, "ack_head", "ack_body")
  /\ Send(c)
  /\ UNCHANGED <<peer, inq, up, fd, mutex, handlerVars, listVars>>

AckBody(c) ==
  /\ GoTo(c, "ack_body", "walk")
  /\ Send(c)
  /\ UNCHANGED <<peer, inq, up, fd, mutex, handlerVars, listVars>>

\* Append, set conn_info and is_compute_node, unlock.
Walk(c) ==
  /\ GoTo(c, "walk", "link")
  /\ \E x \in Conns \cup {NULL} : LastCell(x) /\ curr' = [curr EXCEPT ![c] = x]
  /\ UNCHANGED <<peerVars, up, connVars, mutex, isNode, len, snap, listVars>>

\* Mutant: the mutex is not given back.
LinkKeepsMutex(c) ==
  /\ GoTo(c, "link", "head")
  /\ AppendInfo(c, curr[c])
  /\ isNode' = [isNode EXCEPT ![c] = TRUE]
  /\ curr' = [curr EXCEPT ![c] = NULL]
  /\ UNCHANGED <<peerVars, up, connVars, mutex, len, snap, cores>>

Link(c) ==
  /\ GoTo(c, "link", "head")
  /\ AppendInfo(c, curr[c])
  /\ isNode' = [isNode EXCEPT ![c] = TRUE]
  /\ curr' = [curr EXCEPT ![c] = NULL]
  /\ mutex' = NULL
  /\ UNCHANGED <<peerVars, up, connVars, len, snap, cores>>

\* handle_get_info, with the mutex held: count the cells, copy as many, send
\* the head and the body, unlock.
LockGet(c) ==
  /\ Lock(c, "get_lock", "count")
  /\ UNCHANGED <<peerVars, up, connVars, handlerVars, listVars>>

\* Mutant: the last cell is not counted.
CountOffByOne(c) ==
  /\ GoTo(c, "count", "copy")
  /\ len' = [len EXCEPT ![c] = Cardinality(List) - 1]
  /\ UNCHANGED <<peerVars, up, connVars, mutex, isNode, curr, snap, listVars>>

Count(c) ==
  /\ GoTo(c, "count", "copy")
  /\ len' = [len EXCEPT ![c] = Cardinality(List)]
  /\ UNCHANGED <<peerVars, up, connVars, mutex, isNode, curr, snap, listVars>>

InfoOf(x) == [address |-> x, core_count |-> cores[x]]

\* Mutant: the mutex is given back before the reply is sent.
CopyUnlocks(c) ==
  /\ GoTo(c, "copy", "list_head")
  /\ snap' = [snap EXCEPT ![c] = {InfoOf(x) : x \in List}]
  /\ mutex' = NULL
  /\ UNCHANGED <<peerVars, up, connVars, isNode, curr, len, listVars>>

Copy(c) ==
  /\ GoTo(c, "copy", "list_head")
  /\ snap' = [snap EXCEPT ![c] = {InfoOf(x) : x \in List}]
  /\ UNCHANGED <<peerVars, up, connVars, mutex, isNode, curr, len, listVars>>

ListHead(c) ==
  /\ GoTo(c, "list_head", "list_body")
  /\ Send(c)
  /\ UNCHANGED <<peer, inq, up, fd, mutex, handlerVars, listVars>>

ListBody(c) ==
  /\ GoTo(c, "list_body", "head")
  /\ Send(c)
  /\ mutex' = NULL
  /\ len' = [len EXCEPT ![c] = 0]
  /\ snap' = [snap EXCEPT ![c] = {}]
  /\ UNCHANGED <<peer, inq, up, fd, isNode, curr, listVars>>

\* The end of the thread: a node's cell is removed, the connection freed.
LockRemove(c) ==
  /\ Lock(c, "rm_lock", "remove")
  /\ UNCHANGED <<peerVars, up, connVars, handlerVars, listVars>>

Remove(c) ==
  /\ GoTo(c, "remove", "destroy")
  /\ RemoveInfo(c)
  /\ mutex' = NULL
  /\ UNCHANGED <<peerVars, up, connVars, handlerVars>>

\* dic_conn_destroy; the name c may then stand for a new connection.  It may
\* also hang, for queue_cond was never initialised: the thread then stays in
\* "destroy" and holds nothing that others need.
Destroy(c) ==
  /\ GoTo(c, "destroy", "none")
  /\ peer' = [peer EXCEPT ![c] = "off"]
  /\ poked' = [poked EXCEPT ![c] = FALSE]
  /\ isNode' = [isNode EXCEPT ![c] = FALSE]
  /\ UNCHANGED <<inq, out, up, fd, mutex, curr, len, snap, listVars>>

-----------------------------------------------------------------------------
Handler(c) ==
  \/ RecvHead(c) \/ RecvHeadFails(c)
  \/ LockPush(c) \/ RecvBody(c) \/ AckHead(c) \/ AckBody(c)
  \/ Walk(c) \/ Link(c)
  \/ LockGet(c) \/ Count(c) \/ Copy(c) \/ ListHead(c) \/ ListBody(c)
  \/ LockRemove(c) \/ Remove(c) \/ Destroy(c) \/ SendKills(c)

Peer(c) ==
  \/ Accept(c) \/ Announce(c) \/ AnnounceBody(c) \/ Ask(c)
  \/ GetHead(c) \/ GetBody(c) \/ Leave(c)

Next == \E c \in Conns : Handler(c) \/ Peer(c)

Spec == Init /\ [][Next]_vars

\* Threads that can run do run (except that dic_conn_destroy may hang), and a
\* peer in the middle of an exchange goes on with it, or dies: it sends the
\* body of its announcement and reads the answer that it has asked for.
FairSpec ==
  /\ Spec
  /\ \A c \in Conns : WF_vars(h[c] # "destroy" /\ Handler(c))
  /\ \A c \in Conns : WF_vars(AnnounceBody(c) \/ GetHead(c) \/ GetBody(c))

-----------------------------------------------------------------------------
\* The list never points to freed memory: the links of allocated cells lead
\* to allocated cells and back, NODES_INFO is such a cell without a
\* predecessor, and the conn_info that a handler is going to remove and the
\* cell it is going to append to are allocated (append_info, remove_info and
\* the handlers' use of them, though remove_info cuts cells off the list).
NoDangling ==
  /\ first # NULL => first \in live /\ prev[first] = NULL
  /\ \A x \in live :
       /\ next[x] # NULL => next[x] \in live /\ prev[next[x]] = x
       /\ prev[x] # NULL => prev[x] \in live /\ next[prev[x]] = x
  /\ \A c \in Conns :
       /\ h[c] \in {"rm_lock", "remove"} => c \in live
       /\ h[c] = "link" /\ curr[c] # NULL => curr[c] \in live

\* handle_get_info walks the list twice and sends the copy with the mutex
\* held: the second walk finds as many cells as the first has counted, and
\* what is sent is what the list still holds.
ReplyMatchesList ==
  \A c \in Conns :
    /\ h[c] = "copy" => len[c] = Cardinality(List)
    /\ h[c] \in {"list_head", "list_body"} =>
         /\ snap[c] = {InfoOf(x) : x \in List}
         /\ len[c] = Cardinality(snap[c])

\* Every entry of the list belongs to a node whose handler is still there to
\* remove it, and an entry with an uninitialised core count to a node that
\* has left (handle_push_info ignores that the body did not arrive).
NoStaleEntries ==
  \A x \in List :
    /\ x \in Nodes
    /\ h[x] \in {"head", "rm_lock", "remove"}
    /\ cores[x] = "garbage" => peer[x] = "gone"

R == INSTANCE Registry WITH
       Entries <- Nodes,
       Askers <- Conns,
       listed <- List,
       answer <- [c \in Conns |-> {i.address : i \in snap[c]}]

\* The heap cells, the two walks and the mutex implement Registry: each
\* announcement adds its entry in one step and loses none, each answer is
\* the list of one moment, and only a removal takes entries away.
ImplementsRegistry == R!Spec

\* The mutex is held across a receive and two sends that may have to wait for
\* the peer, and still comes free, also when the peer dies just there: its
\* owner waits only for a peer that is about to send or to read
\* (handle_push_info, handle_get_info).
MutexReleased ==
  \A c \in Conns : mutex = c ~> (mutex # c \/ ~up)

\* A node that has its acknowledgement and has not left is in the list
\* whenever nobody holds the mutex: the main server "retains information
\* about online/available nodes" (README.md).
OnlineNodesListed ==
  up /\ mutex = NULL => {c \in Conns : peer[c] = "online"} \subseteq List
=============================================================================
