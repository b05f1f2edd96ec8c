--------------------------- MODULE NodeLifecycle ---------------------------
(***************************************************************************)
(* The life of compute nodes: start-up, announcement to the main server,   *)
(* listening, death and restart, with the node manager, the main server    *)
(* and the clients that look for nodes.                                    *)
(*                                                                         *)
(* A node started by hand is given -m: it connects to the main server,     *)
(* trying again every second, announces itself, and only then listens.  A  *)
(* node started by node-manager is given -p only, which it does not know:  *)
(* it announces itself to nobody and listens on the same port as any other *)
(* node.  The main server is Registry, which MainServer implements; it     *)
(* keeps its list in memory, and an operator starts it again after a       *)
(* crash.  A process that dies takes its connections with it.              *)
(***************************************************************************)
EXTENDS Naturals

CONSTANTS
  ByHand,      \* nodes that are started by hand, with -m
  Managed,     \* nodes that a node-manager runs
  Clients,
  MaxStarts,   \* how often a node may be started by hand
  MaxDeaths,   \* how many nodes may die, in all
  MaxCrashes   \* how often the main server may crash

Nodes == ByHand \cup Managed

\* An entry of the main server's list: one run of one node.
Entries == ByHand \X (1..MaxStarts)

ASSUME ConstantsAssumption ==
  /\ ByHand \cap Managed = {}
  /\ MaxStarts \in Nat /\ MaxDeaths \in Nat /\ MaxCrashes \in Nat

VARIABLES
  \* the nodes
  pc,          \* pc[n]: where the main function of node n is
  run,         \* run[n]: how often n has been started by hand
  link,        \* link[n]: main_server_conn
  oneHost,     \* do all nodes run on one machine, or each on its own?
  lingering,   \* the nodes whose port has connections in TIME_WAIT
  deaths,
  \* the main server
  srv,         \* is it running?
  crashes,
  sess,        \* sess[e]: how far the handler thread of e is
  listed,      \* NODES_INFO
  \* the clients
  answer,      \* answer[c]: the list that c was sent and is working through
  got          \* got[c]: the entries of it that c could not connect to

placeVars == <<oneHost, lingering, deaths>>
nodeVars == <<pc, run, link, placeVars>>
serverVars == <<srv, crashes, sess, listed>>
clientVars == <<answer, got>>
vars == <<nodeVars, serverVars, clientVars>>

R == INSTANCE Registry WITH Askers <- Clients

TypeOK ==
  /\ oneHost \in BOOLEAN
  /\ pc \in [Nodes -> {"off", "connect", "sleep", "head", "body", "reply",
                       "bind", "listen"}]
  /\ run \in [ByHand -> 0..MaxStarts]
  /\ link \in [ByHand -> {"none", "open", "broken", "poked"}]
  /\ lingering \subseteq Nodes
  /\ deaths \in 0..MaxDeaths
  /\ srv \in BOOLEAN
  /\ crashes \in 0..MaxCrashes
  /\ sess \in [Entries -> {"none", "accepted", "head", "body", "acked",
                       "listed"}]
  /\ listed \subseteq Entries
  /\ answer \in [Clients -> SUBSET Entries]
  /\ got \in [Clients -> SUBSET Entries]

Init ==
  /\ oneHost \in BOOLEAN
  /\ pc = [n \in Nodes |-> "off"]
  /\ run = [n \in ByHand |-> 0]
  /\ link = [n \in ByHand |-> "none"]
  /\ lingering = {}
  /\ deaths = 0
  /\ srv \in BOOLEAN
  /\ crashes = 0
  /\ sess = [e \in Entries |-> "none"]
  /\ R!Init
  /\ got = [c \in Clients |-> {}]

Current(n) == <<n, run[n]>>

\* The process that made entry e is no more.
Ended(e) == run[e[1]] > e[2] \/ pc[e[1]] = "off"

GoTo(n, from, to) ==
  /\ pc[n] = from
  /\ pc' = [pc EXCEPT ![n] = to]

-----------------------------------------------------------------------------
(***************************************************************************)
(* The main function of a node.                                            *)
(***************************************************************************)
Start(n) ==
  /\ run[n] < MaxStarts
  /\ GoTo(n, "off", "connect")
  /\ run' = [run EXCEPT ![n] = @ + 1]
  /\ link' = [link EXCEPT ![n] = "none"]
  /\ UNCHANGED <<placeVars, serverVars, clientVars>>

\* Mutant: the descriptor of a connection that was made is forgotten.
ConnectForgets(n) ==
  /\ GoTo(n, "connect", "sleep")
  /\ UNCHANGED <<run, link, placeVars, serverVars, clientVars>>

\* dic_conn_new, and dic_conn_tryconnect in the loop.
Connect(n) ==
  /\ GoTo(n, "connect", IF srv THEN "head" ELSE "sleep")
  /\ IF srv THEN /\ link' = [link EXCEPT ![n] = "open"]
                 /\ sess' = [sess EXCEPT ![Current(n)] = "accepted"]
            ELSE UNCHANGED <<link, sess>>
  /\ UNCHANGED <<run, placeVars, srv, crashes, listed, clientVars>>

Sleep(n) ==
  /\ GoTo(n, "sleep", "connect")
  /\ UNCHANGED <<run, link, placeVars, serverVars, clientVars>>

\* notify_main_server: the head, then the body.  dic_conn_send hides that
\* the server has gone, and the second send may raise SIGPIPE.
Transmit(n, part) ==
  /\ sess' = [sess EXCEPT ![Current(n)] = IF link[n] = "open" THEN part ELSE @]
  /\ link' = [link EXCEPT ![n] = IF @ = "broken" THEN "poked" ELSE @]
  /\ UNCHANGED <<run, placeVars, srv, crashes, listed, clientVars>>

SendHead(n) == GoTo(n, "head", "body") /\ Transmit(n, "head")

SendBody(n) == GoTo(n, "body", "reply") /\ Transmit(n, "body")

SendBodyKills(n) ==
  /\ GoTo(n, "body", "off")
  /\ link[n] = "poked"
  /\ UNCHANGED <<run, link, placeVars, serverVars, clientVars>>

\* notify_main_server returns what the server answered, or something
\* arbitrary if dic_conn_recv failed; the caller logs it and goes on.
RecvReply(n) ==
  /\ GoTo(n, "reply", "bind")
  /\ link[n] \in {"broken", "poked"} \/ sess[Current(n)] \in {"acked", "listed"}
  /\ UNCHANGED <<run, link, placeVars, serverVars, clientVars>>

\* Every node listens on port 4224, whatever -p says.  SO_REUSEADDR is not
\* set: connections of an earlier process keep the port taken for a while.
PortFree(n) ==
  \A m \in IF oneHost THEN Nodes ELSE {n} :
    m \notin lingering /\ (m # n => pc[m] # "listen")

\* dic_conn_new_listening: if bind fails the process exits.
Bind(n) ==
  /\ GoTo(n, "bind", IF PortFree(n) THEN "listen" ELSE "off")
  /\ UNCHANGED <<run, link, placeVars, serverVars, clientVars>>

\* A node is killed, while it starts or while it serves; a client that was
\* connected to it leaves a connection in TIME_WAIT.
Die(n) ==
  /\ pc[n] # "off"
  /\ deaths < MaxDeaths
  /\ GoTo(n, pc[n], "off")
  /\ deaths' = deaths + 1
  /\ lingering' \in {lingering, IF pc[n] = "listen" THEN lingering \cup {n}
                                                  ELSE lingering}
  /\ UNCHANGED <<oneHost, run, link, serverVars, clientVars>>

TimeWaitEnds(n) ==
  /\ n \in lingering
  /\ lingering' = lingering \ {n}
  /\ UNCHANGED <<oneHost, pc, run, link, deaths, serverVars, clientVars>>

-----------------------------------------------------------------------------
\* Mutant: node-manager runs the node once.
ManagerRunsOnce(n) ==
  /\ deaths = 0
  /\ GoTo(n, "off", "bind")
  /\ UNCHANGED <<run, link, placeVars, serverVars, clientVars>>

\* run_loop of node-manager: pclose has returned, so the node has exited; it
\* is started again without -m, and goes straight to start_server.
ManagerRuns(n) ==
  /\ GoTo(n, "off", "bind")
  /\ UNCHANGED <<run, link, placeVars, serverVars, clientVars>>

-----------------------------------------------------------------------------
(***************************************************************************)
(* The main server.  NODES_INFO_MUT is left to MainServer, where it always *)
(* becomes free again: without it handlers interleave more, not less.      *)
(***************************************************************************)
\* Mutant: the handler does not wait for the body.
ServerReplyEarly(e) ==
  /\ sess[e] \in {"head", "body"}
  /\ sess' = [sess EXCEPT ![e] = "acked"]
  /\ UNCHANGED <<nodeVars, srv, crashes, listed, clientVars>>

\* handle_push_info: the body is received, or will never come, and the
\* announcement is acknowledged; the node can go on.
ServerReply(e) ==
  /\ sess[e] = "body" \/ (sess[e] = "head" /\ Ended(e))
  /\ sess' = [sess EXCEPT ![e] = "acked"]
  /\ UNCHANGED <<nodeVars, srv, crashes, listed, clientVars>>

\* Mutant: an entry is known by its address, not by its connection.
ServerAppendAddress(e) ==
  /\ sess[e] = "acked"
  /\ sess' = [sess EXCEPT ![e] = "listed"]
  /\ R!Register(e[1])
  /\ UNCHANGED <<nodeVars, srv, crashes, got>>

\* Mutant: an address that is in the list already is not entered again.
ServerAppendOnce(e) ==
  /\ sess[e] = "acked"
  /\ sess' = [sess EXCEPT ![e] = "listed"]
  /\ IF \E f \in listed : f[1] = e[1] THEN UNCHANGED <<listed, answer>>
                                       ELSE R!Register(e)
  /\ UNCHANGED <<nodeVars, srv, crashes, got>>

\* handle_push_info returns append_info: only now is the node in the list.
ServerAppend(e) ==
  /\ sess[e] = "acked"
  /\ sess' = [sess EXCEPT ![e] = "listed"]
  /\ R!Register(e)
  /\ UNCHANGED <<nodeVars, srv, crashes, got>>

\* Mutant: the entry is not removed.
ServerEndsKeeps(e) ==
  /\ Ended(e)
  /\ sess[e] \in {"accepted", "listed"}
  /\ sess' = [sess EXCEPT ![e] = "none"]
  /\ UNCHANGED <<nodeVars, srv, crashes, listed, clientVars>>

\* The connection ends: if the node is listed its entry is removed.
ServerEnds(e) ==
  /\ Ended(e)
  /\ sess[e] \in {"accepted", "listed"}
  /\ sess' = [sess EXCEPT ![e] = "none"]
  /\ IF sess[e] = "listed" THEN R!Unregister(e) ELSE UNCHANGED <<listed, answer>>
  /\ UNCHANGED <<nodeVars, srv, crashes, got>>

ServerCrash ==
  /\ srv
  /\ crashes < MaxCrashes
  /\ srv' = FALSE
  /\ crashes' = crashes + 1
  /\ sess' = [e \in Entries |-> "none"]
  /\ listed' = {}
  /\ link' = [n \in ByHand |-> IF link[n] = "open" THEN "broken" ELSE link[n]]
  /\ UNCHANGED <<pc, run, placeVars, clientVars>>

ServerStarts ==
  /\ ~srv
  /\ srv' = TRUE
  /\ UNCHANGED <<nodeVars, crashes, sess, listed, clientVars>>

-----------------------------------------------------------------------------
(***************************************************************************)
(* The clients.                                                            *)
(***************************************************************************)
\* dic_get_nodes_info
GetNodesInfo(c) ==
  /\ srv
  /\ answer[c] = {}
  /\ R!Copy(c)
  /\ got' = [got EXCEPT ![c] = {}]
  /\ UNCHANGED <<nodeVars, srv, crashes, sess>>

\* Somebody listens at the address of node n.  Nodes on one machine have the
\* same address, ip:4224, and a connection reaches whichever listens there.
Answers(n) == \E m \in IF oneHost THEN Nodes ELSE {n} : pc[m] = "listen"

\* dic_nodes_connect_all: dic_node_connect of one address.  If nobody
\* listens there the connection is kept, with sockfd = -1.
NodeConnect(c, e) ==
  /\ e \in answer[c]
  /\ answer' = [answer EXCEPT ![c] = @ \ {e}]
  /\ got' = [got EXCEPT ![c] = IF Answers(e[1]) THEN @ ELSE @ \cup {e}]
  /\ UNCHANGED <<nodeVars, serverVars>>

-----------------------------------------------------------------------------
NodeStep(n) ==
  \/ Connect(n) \/ Sleep(n) \/ SendHead(n) \/ SendBody(n) \/ SendBodyKills(n)
  \/ RecvReply(n)

ServerStep(e) == ServerReply(e) \/ ServerAppend(e) \/ ServerEnds(e)

Next ==
  \/ \E n \in ByHand : Start(n) \/ NodeStep(n)
  \/ \E n \in Managed : ManagerRuns(n)
  \/ \E n \in Nodes : Bind(n) \/ Die(n) \/ TimeWaitEnds(n)
  \/ \E e \in Entries : ServerStep(e)
  \/ ServerCrash \/ ServerStarts
  \/ \E c \in Clients : GetNodesInfo(c) \/ \E e \in Entries : NodeConnect(c, e)

Spec == Init /\ [][Next]_vars

\* Processes and handler threads that can run do run, TIME_WAIT ends, and
\* node-manager never stops.  Nobody has to start a node or the main server.
FairSpec ==
  /\ Spec
  /\ \A n \in ByHand : WF_vars(NodeStep(n))
  /\ \A n \in Managed : WF_vars(ManagerRuns(n))
  /\ \A n \in Nodes : WF_vars(Bind(n)) /\ WF_vars(TimeWaitEnds(n))
  /\ \A e \in Entries : WF_vars(ServerStep(e))

-----------------------------------------------------------------------------
\* An entry of the list belongs to a process that has ended, or to one that
\* has sent its whole announcement on the connection that it still holds:
\* no crash of either side leaves any other entry behind (handle_push_info,
\* notify_main_server).
EntriesAnnounced ==
  \A e \in listed :
    \/ Ended(e)
    \/ pc[e[1]] \in {"reply", "bind", "listen"} /\ link[e[1]] = "open"

\* A node that a client has found in the list and could not connect to has
\* ended, or was not listening yet: a node may be listed between its
\* announcement and bind, but never sooner, however old the client's copy of
\* the list is (dic_nodes_connect_all, which keeps such connections).
RefusedByStarting ==
  \A c \in Clients : \A e \in got[c] :
    Ended(e) \/ pc[e[1]] \in {"reply", "bind", "listen"}

\* The entry of a run of a node that has ended goes, for good, however the
\* end interleaves with the announcement, a crash and a new start of the
\* same node (connection_handler_thread after its loop).
DeadNodesUnlisted ==
  \A e \in Entries :
    (run[e[1]] >= e[2] /\ Ended(e)) ~> [](e \notin listed)

\* A node that announces itself gets its entry, unless it dies or loses its
\* connection first.  The acknowledgement promises the entry before it is
\* made, so that the node may be listening by then, and the entry of the
\* node's previous run may still be in the list, under the same address
\* (handle_push_info, which acknowledges before append_info).
AnnouncedListed ==
  \A n \in ByHand :
    pc[n] = "head" ~> \/ Current(n) \in listed
                      \/ pc[n] = "off" \/ link[n] # "open"

\* Start-up ends: if the main server comes up and stays up, a node that is
\* trying to connect gets to listen or has exited, also when the server
\* crashes in the middle of the announcement (the loop in main, and
\* notify_main_server after a failed receive).
StartupEnds ==
  \A n \in ByHand :
    <>[]srv => (pc[n] = "connect" ~> pc[n] \in {"listen", "off"})

\* A node that node-manager runs is listening again after every exit, though
\* bind fails as long as connections of its predecessor linger; but not when
\* another node listens on the same machine, whatever port it was to have
\* (run_loop of node-manager, and its option -p).
BackInService ==
  \A n \in Managed :
    pc[n] = "off" ~> \/ pc[n] = "listen"
                     \/ oneHost /\ \E m \in Nodes \ {n} : pc[m] = "listen"
=============================================================================
