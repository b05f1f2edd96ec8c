---------------------------- MODULE Applications ----------------------------
(***************************************************************************)
(* Several applications, built like the demos find-primes and              *)
(* hash-cracker, on one cluster: an application connects to every node of  *)
(* the list, uploads and loads its object on each, looks up its function,  *)
(* starts a thread per core, joins the threads in order, unloads and       *)
(* disconnects.  A node serves one connection until it is closed; the      *)
(* others wait in its backlog, and connect() does not tell the application *)
(* that it waits.                                                          *)
(*                                                                         *)
(* Operations are those of ComputeNode, taken as wholes: an operation is   *)
(* done once the node serves the connection, and returns garbage if the    *)
(* connection has failed.  Remote functions end, and so does               *)
(* dic_conn_destroy on a node (see ComputeNode).                           *)
(***************************************************************************)
EXTENDS Naturals, Sequences, FiniteSets

CONSTANTS
  Apps,
  NumNodes,   \* the length of the list that applications get; not 0, since
              \* find-primes divides by the number of cores
  Cores,      \* the core_count of every node
  MaxDeaths,  \* how many nodes may die
  NULL

Nodes == 1..NumNodes

ASSUME ConstantsAssumption ==
  /\ NumNodes \in Nat \ {0} /\ Cores \in Nat \ {0} /\ MaxDeaths \in Nat
  /\ NULL \notin Apps

VARIABLES
  pc,         \* pc[a]: which loop of main application a is in
  at,         \* at[a]: the loop's counter
  conn,       \* conn[a][n]: nodes[n]->sockfd
  spoiled,    \* spoiled[a]: a has used what a failed operation returned
  alive,      \* the nodes that are running
  backlog,    \* backlog[n]: the connections that n has yet to accept
  serving     \* serving[n]: the application whose connection n has accepted

appVars == <<pc, at, spoiled>>
nodeVars == <<alive, backlog, serving>>
vars == <<appVars, conn, nodeVars>>

Loops == <<"connect", "so_load", "func_load", "run", "join", "unload", "done">>

\* How often a loop runs: once for each node, or for each core of the cluster.
Rounds(loop) == IF loop \in {"run", "join"} THEN NumNodes * Cores ELSE NumNodes

\* The node that round k of a loop is about.
NodeOf(loop, k) ==
  IF loop \in {"run", "join"} THEN ((k - 1) \div Cores) + 1 ELSE k

TypeOK ==
  /\ pc \in [Apps -> {"connect", "so_load", "func_load", "run", "join",
                      "unload", "done", "crashed"}]
  /\ \A a \in Apps : at[a] \in 1..Rounds(pc[a])
  /\ conn \in [Apps -> [Nodes -> {"none", "open", "failed", "closed"}]]
  /\ spoiled \in [Apps -> BOOLEAN]
  /\ alive \subseteq Nodes
  /\ backlog \in [Nodes -> Seq(Apps)]
  /\ serving \in [Nodes -> Apps \cup {NULL}]

Init ==
  /\ pc = [a \in Apps |-> "connect"]
  /\ at = [a \in Apps |-> 1]
  /\ conn = [a \in Apps |-> [n \in Nodes |-> "none"]]
  /\ spoiled = [a \in Apps |-> FALSE]
  /\ alive = Nodes
  /\ backlog = [n \in Nodes |-> << >>]
  /\ serving = [n \in Nodes |-> NULL]

-----------------------------------------------------------------------------
(***************************************************************************)
(* An application.                                                         *)
(***************************************************************************)
NextLoop(loop) ==
  LET i == CHOOSE j \in DOMAIN Loops : Loops[j] = loop IN Loops[i + 1]

\* Mutant: the counter is not reset for the next loop.
AdvanceKeeps(a) ==
  /\ pc' = [pc EXCEPT ![a] = IF at[a] >= Rounds(@) THEN NextLoop(@) ELSE @]
  /\ at' = [at EXCEPT ![a] = @ + 1]

\* The round is over.
Advance(a) ==
  LET last == at[a] = Rounds(pc[a])
  IN  /\ pc' = [pc EXCEPT ![a] = IF last THEN NextLoop(@) ELSE @]
      /\ at' = [at EXCEPT ![a] = IF last THEN 1 ELSE @ + 1]

Here(a) == NodeOf(pc[a], at[a])

\* dic_nodes_connect_all: dic_node_connect returns when the kernel of the
\* node has put the connection in the backlog, or with sockfd = -1.
Connect(a) ==
  /\ pc[a] = "connect"
  /\ LET n == Here(a)
         up == n \in alive
     IN  /\ conn' = [conn EXCEPT ![a][n] = IF up THEN "open" ELSE "failed"]
         /\ backlog' = [backlog EXCEPT ![n] = IF up THEN Append(@, a) ELSE @]
  /\ Advance(a)
  /\ UNCHANGED <<spoiled, alive, serving>>

\* Mutant: the application forgets dic_conn_destroy.
OperateLeaks(a) ==
  /\ pc[a] \in {"so_load", "func_load", "run", "join", "unload"}
  /\ conn[a][Here(a)] = "open"
  /\ serving[Here(a)] = a
  /\ Advance(a)
  /\ UNCHANGED <<conn, spoiled, nodeVars>>

\* An operation on a node that serves the application.  The last one on a
\* node, so_unload, is followed by dic_conn_destroy.
Operate(a) ==
  /\ pc[a] \in {"so_load", "func_load", "run", "join", "unload"}
  /\ conn[a][Here(a)] = "open"
  /\ serving[Here(a)] = a
  /\ conn' = [conn EXCEPT ![a][Here(a)] =
                IF pc[a] = "unload" THEN "closed" ELSE @]
  /\ Advance(a)
  /\ UNCHANGED <<spoiled, nodeVars>>

\* Mutant: tcp_recv_n takes the end of the stream for no bytes yet.
OperateInVainSpins(a) ==
  /\ pc[a] \in {"so_load", "func_load", "run", "join", "unload"}
  /\ conn[a][Here(a)] = "failed"
  /\ UNCHANGED vars

\* The node has gone, or was never reached: the answer is garbage.  The
\* application goes on with it, or dies of it, or of SIGPIPE.
OperateInVain(a) ==
  /\ pc[a] \in {"so_load", "func_load", "run", "join", "unload"}
  /\ conn[a][Here(a)] = "failed"
  /\ spoiled' = [spoiled EXCEPT ![a] = TRUE]
  /\ Advance(a)
  /\ UNCHANGED <<conn, nodeVars>>

Crash(a) ==
  /\ pc[a] \in {"so_load", "func_load", "run", "join", "unload"}
  /\ spoiled[a] \/ conn[a][Here(a)] = "failed"
  /\ pc' = [pc EXCEPT ![a] = "crashed"]
  /\ at' = [at EXCEPT ![a] = 1]
  /\ conn' = [conn EXCEPT ![a] = [n \in Nodes |-> "closed"]]
  /\ UNCHANGED <<spoiled, nodeVars>>

-----------------------------------------------------------------------------
(***************************************************************************)
(* A node: listen_loop.                                                    *)
(***************************************************************************)
NodeAccept(n) ==
  /\ n \in alive
  /\ serving[n] = NULL
  /\ backlog[n] # << >>
  /\ serving' = [serving EXCEPT ![n] = Head(backlog[n])]
  /\ backlog' = [backlog EXCEPT ![n] = Tail(@)]
  /\ UNCHANGED <<appVars, conn, alive>>

\* Mutant: the node keeps the connection of an application that is done.
NodeDisconnectsLate(n) ==
  /\ n \in alive
  /\ serving[n] # NULL
  /\ \A a \in Apps : conn[a][n] = "closed"
  /\ serving' = [serving EXCEPT ![n] = NULL]
  /\ UNCHANGED <<appVars, conn, alive, backlog>>

\* client_handling_loop ends when the connection is closed.
NodeDisconnects(n) ==
  /\ n \in alive
  /\ serving[n] # NULL
  /\ conn[serving[n]][n] = "closed"
  /\ serving' = [serving EXCEPT ![n] = NULL]
  /\ UNCHANGED <<appVars, conn, alive, backlog>>

NodeDies(n) ==
  /\ n \in alive
  /\ Cardinality(Nodes \ alive) < MaxDeaths
  /\ alive' = alive \ {n}
  /\ serving' = [serving EXCEPT ![n] = NULL]
  /\ backlog' = [backlog EXCEPT ![n] = << >>]
  /\ conn' = [a \in Apps |->
                [conn[a] EXCEPT ![n] = IF @ = "open" THEN "failed" ELSE @]]
  /\ UNCHANGED appVars

-----------------------------------------------------------------------------
App(a) == Connect(a) \/ Operate(a) \/ OperateInVain(a)
Node(n) == NodeAccept(n) \/ NodeDisconnects(n)

Ended(a) == pc[a] \in {"done", "crashed"}

Next ==
  \/ \E a \in Apps : App(a) \/ Crash(a)
  \/ \E n \in Nodes : Node(n) \/ NodeDies(n)

Spec == Init /\ [][Next]_vars

\* Applications and nodes that can go on do so; nobody has to crash or die.
FairSpec ==
  /\ Spec
  /\ \A a \in Apps : WF_vars(App(a))
  /\ \A n \in Nodes : WF_vars(Node(n))

-----------------------------------------------------------------------------
\* Application a is kept waiting by b: it has connected to a node that is
\* busy with b.
Waits(a, b) ==
  \E n \in Nodes : serving[n] = b /\ \E k \in DOMAIN backlog[n] : backlog[n][k] = a

\* Application a is in, or behind, a circle of applications that wait for
\* each other: their connections reached the backlogs in different orders.
Crossed(a) ==
  \E circle \in SUBSET Apps :
    /\ a \in circle
    /\ \A b \in circle : \E c \in circle : Waits(b, c)

\* The application can do its next operation; the node can accept a
\* connection, or leave one that has been closed.
CanOperate(a) ==
  \/ pc[a] = "connect"
  \/ ~Ended(a) /\ \/ conn[a][Here(a)] = "failed"
                  \/ conn[a][Here(a)] = "open" /\ serving[Here(a)] = a

CanServe(n) ==
  /\ n \in alive
  /\ IF serving[n] = NULL THEN backlog[n] # << >>
     ELSE conn[serving[n]][n] = "closed"

\* Applications and nodes do not come to a standstill but in a circle: when
\* none of them can go on, every application has ended or waits for one that
\* waits itself.  In particular no connection is lost between connect() and
\* accept(), and nobody waits for an application that has ended or died
\* (dic_nodes_connect_all, listen_loop, dic_conn_destroy in main).
StuckOnlyIfCrossed ==
  (\A a \in Apps : ~CanOperate(a)) /\ (\A n \in Nodes : ~CanServe(n)) =>
    \A a \in Apps : Ended(a) \/ Crossed(a)

\* Every application ends, or is crossed with others for ever: nothing else
\* keeps it from its end, neither the death of a node, before or after it has
\* connected, nor waiting for applications that were first and end or die
\* themselves (dic_nodes_connect_all against listen_loop, dic_conn_recv).
EndsUnlessCrossed == \A a \in Apps : <>[](Ended(a) \/ Crossed(a))

\* No node goes on serving an application that has ended, also one that has
\* crashed while others wait (client_handling_loop, dic_conn_recv).
NodesReleased ==
  \A a \in Apps, n \in Nodes :
    (Ended(a) /\ serving[n] = a) ~> serving[n] # a
=============================================================================
