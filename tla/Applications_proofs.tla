------------------------- MODULE Applications_proofs -------------------------
(***************************************************************************)
(* For any number of applications, nodes and cores: the types, that every  *)
(* round of a loop is about a node of the list, and that a standstill is a *)
(* circle of applications that wait for each other.                        *)
(*                                                                         *)
(* The argument for the last: an application has closed or lost all its    *)
(* connections when it ends (PhaseInv), and its node knows each open one,  *)
(* as the one it serves or in its backlog (KnownInv).  So an application   *)
(* that cannot go on is in the backlog of a node, the node is busy with    *)
(* another one, and that one has not ended and cannot go on either.        *)
(***************************************************************************)
EXTENDS Applications, SequenceTheorems, TLAPS

\* The loops in the order of main.
LEMMA LoopOrder ==
  /\ NextLoop("connect") = "so_load"
  /\ NextLoop("so_load") = "func_load"
  /\ NextLoop("func_load") = "run"
  /\ NextLoop("run") = "join"
  /\ NextLoop("join") = "unload"
  /\ NextLoop("unload") = "done"
<1>1. DOMAIN Loops = 1..7
  BY DEF Loops
<1>2. /\ Loops[1] = "connect" /\ Loops[2] = "so_load" /\ Loops[3] = "func_load"
      /\ Loops[4] = "run" /\ Loops[5] = "join" /\ Loops[6] = "unload"
      /\ Loops[7] = "done"
  BY DEF Loops
<1>3. ASSUME NEW i \in 1..7, NEW j \in 1..7, Loops[i] = Loops[j] PROVE i = j
  BY <1>2, <1>3
<1>4. ASSUME NEW i \in 1..6 PROVE NextLoop(Loops[i]) = Loops[i + 1]
  <2>1. i \in DOMAIN Loops /\ \A j \in DOMAIN Loops : Loops[j] = Loops[i] => j = i
    BY <1>1, <1>3, <1>4
  <2>2. (CHOOSE j \in DOMAIN Loops : Loops[j] = Loops[i]) = i
    BY <2>1
  <2>. QED BY <2>2 DEF NextLoop
<1>. QED BY <1>2, <1>4

\* Every loop has a round.
LEMMA RoundsPositive ==
  /\ \A loop : Rounds(loop) \in Nat \ {0}
  /\ NumNodes * Cores \in Nat \ {0}
<1>1. NumNodes \in Nat \ {0} /\ Cores \in Nat \ {0}
  BY ConstantsAssumption
<1>2. NumNodes * Cores \in Nat \ {0}
  BY <1>1
<1>. QED BY <1>1, <1>2 DEF Rounds

\* The end of a round keeps the counter within the loop it is in.
LEMMA AdvanceType ==
  ASSUME TypeOK, NEW a \in Apps, Advance(a),
         pc[a] \in {"connect", "so_load", "func_load", "run", "join", "unload"},
         at \in [Apps -> Nat]
  PROVE  /\ pc' \in [Apps -> {"connect", "so_load", "func_load", "run", "join",
                              "unload", "done", "crashed"}]
         /\ at' \in [Apps -> Nat]
         /\ \A b \in Apps : at'[b] \in 1..Rounds(pc'[b])
<1>1. PICK R \in Nat \ {0}, k \in Nat :
        R = Rounds(pc[a]) /\ k = at[a] /\ 1 <= k /\ k <= R
  BY RoundsPositive DEF TypeOK
<1>2. /\ pc' = [pc EXCEPT ![a] = IF k = R THEN NextLoop(pc[a]) ELSE pc[a]]
      /\ at' = [at EXCEPT ![a] = IF k = R THEN 1 ELSE k + 1]
  BY <1>1 DEF Advance
<1>3. NextLoop(pc[a]) \in {"so_load", "func_load", "run", "join", "unload", "done"}
  BY LoopOrder
<1>4. ASSUME NEW b \in Apps PROVE at'[b] \in 1..Rounds(pc'[b])
  <2>1. CASE b # a
    <3>1. at'[b] = at[b] /\ pc'[b] = pc[b]
      BY <1>2, <2>1 DEF TypeOK
    <3>. QED BY <3>1 DEF TypeOK
  <2>2. CASE b = a /\ k = R
    <3>1. at'[b] = 1
      BY <1>2, <2>2 DEF TypeOK
    <3>. QED BY <3>1, RoundsPositive
  <2>3. CASE b = a /\ k # R
    <3>1. at'[b] = k + 1 /\ pc'[b] = pc[a]
      BY <1>2, <2>3 DEF TypeOK
    <3>. QED BY <1>1, <2>3, <3>1
  <2>. QED BY <2>1, <2>2, <2>3
<1>5. pc' \in [Apps -> {"connect", "so_load", "func_load", "run", "join",
                        "unload", "done", "crashed"}]
  BY <1>2, <1>3 DEF TypeOK
<1>6. at' \in [Apps -> Nat]
  BY <1>1, <1>2
<1>. QED BY <1>4, <1>5, <1>6

\* The counters are numbers, of every application.
Inv == TypeOK /\ at \in [Apps -> Nat]

\* The types, and with them that the counter of a loop stays within it.
LEMMA InvStep ==
  ASSUME Inv, [Next]_vars
  PROVE  Inv'
<1>. USE ConstantsAssumption
<1>0. TypeOK /\ at \in [Apps -> Nat]
  BY DEF Inv
<1>1. ASSUME NEW a \in Apps, Connect(a) PROVE Inv'
  <2>1. PICK n, z : /\ conn' = [conn EXCEPT ![a][n] = z]
                    /\ z = "open" \/ z = "failed"
    <3>1. conn' = [conn EXCEPT ![a][Here(a)] =
                     IF Here(a) \in alive THEN "open" ELSE "failed"]
      BY <1>1 DEF Connect
    <3>. QED BY <3>1
  <2>2. conn' \in [Apps -> [Nodes -> {"none", "open", "failed", "closed"}]]
    <3>1. [conn[a] EXCEPT ![n] = z] \in [Nodes -> {"none", "open", "failed", "closed"}]
      BY <1>0, <2>1 DEF TypeOK
    <3>. QED BY <1>0, <2>1, <3>1 DEF TypeOK
  <2>3. PICK m, q : /\ backlog' = [backlog EXCEPT ![m] = q]
                    /\ q = backlog[m] \/ q = Append(backlog[m], a)
    BY <1>1 DEF Connect
  <2>4. backlog' \in [Nodes -> Seq(Apps)]
    <3>1. m \in Nodes => backlog[m] \in Seq(Apps)
      BY <1>0 DEF TypeOK
    <3>2. m \in Nodes => q \in Seq(Apps)
      BY <2>3, <3>1, AppendProperties
    <3>. QED BY <1>0, <2>3, <3>2 DEF TypeOK
  <2>5. UNCHANGED <<spoiled, alive, serving>> /\ Advance(a) /\ pc[a] = "connect"
    BY <1>1 DEF Connect
  <2>. QED BY <1>0, <2>2, <2>4, <2>5, AdvanceType DEF Inv, TypeOK
<1>2. ASSUME NEW a \in Apps, Operate(a) PROVE Inv'
  <2>1. PICK n, z : /\ conn' = [conn EXCEPT ![a][n] = z]
                    /\ z = "closed" \/ z = "open"
    <3>1. PICK n : n = Here(a) /\ conn[a][n] = "open"
      BY <1>2 DEF Operate
    <3>2. conn' = [conn EXCEPT ![a][n] = IF pc[a] = "unload" THEN "closed" ELSE "open"]
      BY <1>2, <3>1 DEF Operate
    <3>. QED BY <3>2
  <2>2. conn' \in [Apps -> [Nodes -> {"none", "open", "failed", "closed"}]]
    <3>1. [conn[a] EXCEPT ![n] = z] \in [Nodes -> {"none", "open", "failed", "closed"}]
      BY <1>0, <2>1 DEF TypeOK
    <3>. QED BY <1>0, <2>1, <3>1 DEF TypeOK
  <2>3. /\ UNCHANGED <<spoiled, alive, backlog, serving>> /\ Advance(a)
        /\ pc[a] \in {"so_load", "func_load", "run", "join", "unload"}
    BY <1>2 DEF Operate, nodeVars
  <2>. QED BY <1>0, <2>2, <2>3, AdvanceType DEF Inv, TypeOK
<1>3. ASSUME NEW a \in Apps, OperateInVain(a) PROVE Inv'
  <2>1. /\ UNCHANGED <<conn, alive, backlog, serving>> /\ Advance(a)
        /\ pc[a] \in {"so_load", "func_load", "run", "join", "unload"}
        /\ spoiled' \in [Apps -> BOOLEAN]
    BY <1>0, <1>3 DEF OperateInVain, nodeVars, TypeOK
  <2>. QED BY <1>0, <2>1, AdvanceType DEF Inv, TypeOK
<1>4. ASSUME NEW a \in Apps, Crash(a) PROVE Inv'
  <2>1. /\ pc' = [pc EXCEPT ![a] = "crashed"] /\ at' = [at EXCEPT ![a] = 1]
        /\ conn' = [conn EXCEPT ![a] = [n \in Nodes |-> "closed"]]
        /\ UNCHANGED <<spoiled, alive, backlog, serving>>
    BY <1>4 DEF Crash, nodeVars
  <2>2. conn' \in [Apps -> [Nodes -> {"none", "open", "failed", "closed"}]]
    BY <1>0, <2>1 DEF TypeOK
  <2>3. at' \in [Apps -> Nat]
    BY <1>0, <2>1
  <2>4. ASSUME NEW b \in Apps PROVE at'[b] \in 1..Rounds(pc'[b])
    <3>1. CASE b = a
      <4>1. at'[b] = 1
        BY <1>0, <2>1, <3>1
      <4>. QED BY <4>1, RoundsPositive
    <3>2. CASE b # a
      BY <1>0, <2>1, <3>2 DEF TypeOK
    <3>. QED BY <3>1, <3>2
  <2>. QED BY <1>0, <2>1, <2>2, <2>3, <2>4 DEF Inv, TypeOK
<1>5. ASSUME NEW n \in Nodes, NodeAccept(n) PROVE Inv'
  <2>1. backlog[n] \in Seq(Apps) /\ backlog[n] # << >>
    BY <1>0, <1>5 DEF NodeAccept, TypeOK
  <2>2. Head(backlog[n]) \in Apps /\ Tail(backlog[n]) \in Seq(Apps)
    BY <2>1, HeadTailProperties
  <2>3. /\ backlog' \in [Nodes -> Seq(Apps)]
        /\ serving' \in [Nodes -> Apps \cup {NULL}]
    BY <1>0, <1>5, <2>2 DEF NodeAccept, TypeOK
  <2>. QED BY <1>0, <1>5, <2>3 DEF Inv, NodeAccept, TypeOK, appVars
<1>6. ASSUME NEW n \in Nodes, NodeDisconnects(n) PROVE Inv'
  BY <1>0, <1>6 DEF Inv, NodeDisconnects, TypeOK, appVars
<1>7. ASSUME NEW n \in Nodes, NodeDies(n) PROVE Inv'
  <2>1. << >> \in Seq(Apps)
    BY EmptySeq
  <2>2. /\ backlog' \in [Nodes -> Seq(Apps)]
        /\ serving' \in [Nodes -> Apps \cup {NULL}]
        /\ alive' \subseteq Nodes
    BY <1>0, <1>7, <2>1 DEF NodeDies, TypeOK
  <2>3. conn' \in [Apps -> [Nodes -> {"none", "open", "failed", "closed"}]]
    BY <1>0, <1>7 DEF NodeDies, TypeOK
  <2>. QED BY <1>0, <1>7, <2>2, <2>3 DEF Inv, NodeDies, TypeOK, appVars
<1>8. CASE UNCHANGED vars
  BY <1>0, <1>8 DEF Inv, vars, appVars, nodeVars, TypeOK
<1>. QED BY <1>1, <1>2, <1>3, <1>4, <1>5, <1>6, <1>7, <1>8 DEF Next, App, Node

\* At first every application is at its first round.
LEMMA InitInv ==
  ASSUME Init
  PROVE  Inv
<1>1. << >> \in Seq(Apps)
  BY EmptySeq
<1>2. at \in [Apps -> Nat]
  BY DEF Init
<1>3. \A a \in Apps : at[a] \in 1..Rounds(pc[a])
  <2>1. \A a \in Apps : at[a] = 1
    BY DEF Init
  <2>. QED BY <2>1, RoundsPositive
<1>. QED BY <1>1, <1>2, <1>3 DEF Init, Inv, TypeOK

\* The counters of main's loops are bounded at every step of every program
\* and node.
THEOREM Invariance == Spec => []Inv
BY InitInv, InvStep, PTL DEF Spec

\* The counter of a loop of main is never past the loop's last round, also
\* when one loop ends and the next begins, and the states of connections,
\* backlogs and nodes keep their types.
THEOREM TypeCorrectness == Spec => []TypeOK
<1>1. Inv => TypeOK
  BY DEF Inv
<1>. QED BY <1>1, Invariance, PTL

\* A round is about a node of the list, whether the loop has one round for
\* each node or one for each core.
LEMMA HereInNodes ==
  ASSUME Inv, NEW a \in Apps
  PROVE  Here(a) \in Nodes
<1>. SUFFICES Here(a) \in 1..NumNodes
  BY DEF Nodes
<1>1. PICK k \in Nat, N \in Nat \ {0}, C \in Nat \ {0} :
        /\ k = at[a] /\ N = NumNodes /\ C = Cores
        /\ k >= 1 /\ k <= Rounds(pc[a])
  BY RoundsPositive, ConstantsAssumption DEF Inv, TypeOK
<1>2. CASE pc[a] \in {"run", "join"}
  <2>1. k <= N * C
    BY <1>1, <1>2 DEF Rounds
  <2>2. PICK d \in Nat : d = (k - 1) \div C /\ C * d <= k - 1
    <3>1. k - 1 \in Nat
      BY <1>1
    <3>2. \A x \in Nat : x \div C \in Nat /\ C * (x \div C) <= x
      OBVIOUS
    <3>. QED BY <3>1, <3>2
  <2>3. C * d < N * C
    BY <1>1, <2>1, <2>2
  <2>4. d < N
    BY <2>3
  <2>5. Here(a) = d + 1
    BY <1>1, <1>2, <2>2 DEF Here, NodeOf
  <2>. QED BY <1>1, <2>4, <2>5
<1>3. CASE pc[a] \notin {"run", "join"}
  BY <1>1, <1>3 DEF Here, NodeOf, Rounds
<1>. QED BY <1>2, <1>3

\* The node of a round is one of the list.
NodesOfTheList == \A a \in Apps : Here(a) \in Nodes

\* The node that a loop of main addresses, per node or per core, is one that
\* dic_get_nodes_info listed: nodes[i] is never read past its end.
THEOREM RoundsWithinList == Spec => []NodesOfTheList
<1>1. Inv => NodesOfTheList
  BY HereInNodes DEF NodesOfTheList
<1>. QED BY <1>1, Invariance, PTL

-----------------------------------------------------------------------------
(***************************************************************************)
(* Standstills.                                                            *)
(***************************************************************************)
Working == {"connect", "so_load", "func_load", "run", "join", "unload"}
Open == {"open", "failed"}
Closed == {"closed", "failed"}

\* The connection to node n that an application has in round k of a loop.
Phase(loop, k, n, c) ==
  /\ loop = "connect" => IF n < k THEN c \in Open ELSE c = "none"
  /\ loop \in {"so_load", "func_load", "run", "join"} => c \in Open
  /\ loop = "unload" => IF n < k THEN c \in Closed ELSE c \in Open
  /\ loop \in {"done", "crashed"} => c \in Closed

\* How far the loops of an application have brought its connections.
PhaseInv == \A a \in Apps, n \in Nodes : Phase(pc[a], at[a], n, conn[a][n])

\* An open connection is known to its node, and what a node knows is, or was
\* until its application closed it, an open connection.
Known(n) ==
  /\ \A a \in Apps : conn[a][n] = "open" =>
       /\ n \in alive
       /\ serving[n] = a \/ \E k \in 1..Len(backlog[n]) : backlog[n][k] = a
  /\ serving[n] # NULL => conn[serving[n]][n] \in {"open", "closed"}
  /\ \A k \in 1..Len(backlog[n]) : conn[backlog[n][k]][n] \in {"open", "closed"}

KnownInv == \A n \in Nodes : Known(n)

FullInv == Inv /\ PhaseInv /\ KnownInv

\* A round that has done what it is for with its own connection.
LEMMA RoundDone ==
  ASSUME NEW loop \in Working, NEW k \in 1..Rounds(loop), NEW n \in Nodes,
         NEW c, NEW d, Phase(loop, k, n, c),
         n # NodeOf(loop, k) => d = c,
         n = NodeOf(loop, k) => IF loop = "unload" THEN d \in Closed ELSE d \in Open
  PROVE  /\ k = Rounds(loop) => Phase(NextLoop(loop), 1, n, d)
         /\ k # Rounds(loop) => Phase(loop, k + 1, n, d)
<1>1. PICK N \in Nat \ {0} : N = NumNodes /\ n \in 1..N
  BY ConstantsAssumption DEF Nodes
<1>2. k \in Nat /\ n \in Nat /\ n >= 1 /\ n <= N
  BY <1>1, RoundsPositive
<1>3. CASE loop = "connect"
  <2>1. Rounds(loop) = N /\ NodeOf(loop, k) = k /\ k <= N
    BY <1>1, <1>3 DEF Rounds, NodeOf
  <2>2. n < k \/ n = k => d \in Open
    BY <1>2, <1>3, <2>1 DEF Phase
  <2>3. n > k => d = "none"
    BY <1>2, <1>3, <2>1 DEF Phase
  <2>. QED BY <1>2, <1>3, <2>1, <2>2, <2>3, LoopOrder DEF Phase
<1>4. CASE loop = "unload"
  <2>1. Rounds(loop) = N /\ NodeOf(loop, k) = k /\ k <= N
    BY <1>1, <1>4 DEF Rounds, NodeOf
  <2>2. n < k \/ n = k => d \in Closed
    BY <1>2, <1>4, <2>1 DEF Phase
  <2>3. n > k => d \in Open
    BY <1>2, <1>4, <2>1 DEF Phase
  <2>. QED BY <1>2, <1>4, <2>1, <2>2, <2>3, LoopOrder DEF Phase
<1>5. CASE loop \in {"so_load", "func_load", "run", "join"}
  <2>1. d \in Open
    BY <1>5 DEF Phase
  <2>2. NextLoop(loop) \in {"func_load", "run", "join", "unload"}
    BY <1>5, LoopOrder
  <2>. QED BY <1>2, <1>5, <2>1, <2>2 DEF Phase
<1>. QED BY <1>3, <1>4, <1>5 DEF Working

\* What the end of a round does to the counters.
LEMMA AdvanceMoves ==
  ASSUME Inv, NEW a \in Apps, Advance(a)
  PROVE  /\ \A b \in Apps : b # a => pc'[b] = pc[b] /\ at'[b] = at[b]
         /\ at[a] = Rounds(pc[a]) => pc'[a] = NextLoop(pc[a]) /\ at'[a] = 1
         /\ at[a] # Rounds(pc[a]) => pc'[a] = pc[a] /\ at'[a] = at[a] + 1
BY DEF Inv, TypeOK, Advance

\* The connections follow the loops when a round is done.
LEMMA PhaseAdvances ==
  ASSUME Inv, PhaseInv, NEW a \in Apps, Advance(a), pc[a] \in Working,
         NEW d, conn' = [conn EXCEPT ![a][Here(a)] = d],
         IF pc[a] = "unload" THEN d \in Closed ELSE d \in Open
  PROVE  PhaseInv'
<1>1. PICK m \in Nodes : m = Here(a)
  BY HereInNodes
<1>2. conn \in [Apps -> [Nodes -> {"none", "open", "failed", "closed"}]]
  BY DEF Inv, TypeOK
<1>3. /\ \A b \in Apps, n \in Nodes : b # a => conn'[b][n] = conn[b][n]
      /\ \A n \in Nodes : n # m => conn'[a][n] = conn[a][n]
      /\ conn'[a][m] = d
  BY <1>1, <1>2
<1>4. ASSUME NEW b \in Apps, NEW n \in Nodes
      PROVE  Phase(pc'[b], at'[b], n, conn'[b][n])
  <2>1. CASE b # a
    BY <1>3, <2>1, AdvanceMoves DEF PhaseInv
  <2>2. CASE b = a
    <3>1. at[a] \in 1..Rounds(pc[a]) /\ Phase(pc[a], at[a], n, conn[a][n])
      BY DEF Inv, TypeOK, PhaseInv
    <3>2. /\ n # NodeOf(pc[a], at[a]) => conn'[a][n] = conn[a][n]
          /\ n = NodeOf(pc[a], at[a]) =>
               IF pc[a] = "unload" THEN conn'[a][n] \in Closed ELSE conn'[a][n] \in Open
      BY <1>1, <1>3 DEF Here
    <3>3. /\ at[a] = Rounds(pc[a]) => Phase(NextLoop(pc[a]), 1, n, conn'[a][n])
          /\ at[a] # Rounds(pc[a]) => Phase(pc[a], at[a] + 1, n, conn'[a][n])
      BY <3>1, <3>2, RoundDone
    <3>. QED BY <2>2, <3>3, AdvanceMoves
  <2>. QED BY <2>1, <2>2
<1>. QED BY <1>4 DEF PhaseInv

\* The loops and the connections, whatever nodes do meanwhile.
LEMMA PhaseStep ==
  ASSUME Inv, PhaseInv, [Next]_vars
  PROVE  PhaseInv'
<1>0. conn \in [Apps -> [Nodes -> {"none", "open", "failed", "closed"}]]
  BY DEF Inv, TypeOK
<1>1. ASSUME NEW a \in Apps, Connect(a) PROVE PhaseInv'
  <2>1. PICK d \in Open : conn' = [conn EXCEPT ![a][Here(a)] = d]
    <3>1. conn' = [conn EXCEPT ![a][Here(a)] =
                     IF Here(a) \in alive THEN "open" ELSE "failed"]
      BY <1>1 DEF Connect
    <3>. QED BY <3>1 DEF Open
  <2>2. Advance(a) /\ pc[a] = "connect"
    BY <1>1 DEF Connect
  <2>. QED BY <2>1, <2>2, PhaseAdvances DEF Working
<1>2. ASSUME NEW a \in Apps, Operate(a) PROVE PhaseInv'
  <2>1. PICK d : /\ conn' = [conn EXCEPT ![a][Here(a)] = d]
                 /\ d = IF pc[a] = "unload" THEN "closed" ELSE "open"
    <3>1. PICK n : n = Here(a) /\ conn[a][n] = "open"
      BY <1>2 DEF Operate
    <3>2. conn' = [conn EXCEPT ![a][n] = IF pc[a] = "unload" THEN "closed" ELSE "open"]
      BY <1>2, <3>1 DEF Operate
    <3>. QED BY <3>1, <3>2
  <2>2. IF pc[a] = "unload" THEN d \in Closed ELSE d \in Open
    BY <2>1 DEF Open, Closed
  <2>3. Advance(a) /\ pc[a] \in Working
    BY <1>2 DEF Operate, Working
  <2>. QED BY <2>1, <2>2, <2>3, PhaseAdvances
<1>3. ASSUME NEW a \in Apps, OperateInVain(a) PROVE PhaseInv'
  <2>1. conn' = conn /\ conn[a][Here(a)] = "failed"
    BY <1>3 DEF OperateInVain
  <2>2. PICK n \in Nodes : n = Here(a)
    BY HereInNodes
  <2>3. conn' = [conn EXCEPT ![a][n] = "failed"]
    BY <1>0, <2>1, <2>2
  <2>4. "failed" \in Closed /\ "failed" \in Open
    BY DEF Open, Closed
  <2>5. Advance(a) /\ pc[a] \in Working
    BY <1>3 DEF OperateInVain, Working
  <2>. QED BY <2>2, <2>3, <2>4, <2>5, PhaseAdvances
<1>4. ASSUME NEW a \in Apps, Crash(a) PROVE PhaseInv'
  <2>1. /\ pc' = [pc EXCEPT ![a] = "crashed"] /\ at' = [at EXCEPT ![a] = 1]
        /\ conn' = [conn EXCEPT ![a] = [n \in Nodes |-> "closed"]]
    BY <1>4 DEF Crash
  <2>2. ASSUME NEW b \in Apps, NEW n \in Nodes
        PROVE  Phase(pc'[b], at'[b], n, conn'[b][n])
    <3>1. CASE b # a
      <4>1. pc'[b] = pc[b] /\ at'[b] = at[b] /\ conn'[b][n] = conn[b][n]
        BY <2>1, <3>1 DEF Inv, TypeOK
      <4>. QED BY <4>1 DEF PhaseInv
    <3>2. CASE b = a
      <4>1. pc'[b] = "crashed" /\ conn'[b][n] = "closed"
        BY <2>1, <3>2 DEF Inv, TypeOK
      <4>. QED BY <4>1 DEF Phase, Closed
    <3>. QED BY <3>1, <3>2
  <2>. QED BY <2>2 DEF PhaseInv
<1>5. ASSUME NEW m \in Nodes, NodeDies(m) PROVE PhaseInv'
  <2>1. /\ pc' = pc /\ at' = at
        /\ \A b \in Apps, n \in Nodes :
             \/ conn'[b][n] = conn[b][n]
             \/ conn[b][n] = "open" /\ conn'[b][n] = "failed"
    BY <1>0, <1>5 DEF NodeDies, appVars
  <2>2. ASSUME NEW b \in Apps, NEW n \in Nodes
        PROVE  Phase(pc'[b], at'[b], n, conn'[b][n])
    <3>1. Phase(pc[b], at[b], n, conn[b][n])
      BY DEF PhaseInv
    <3>. QED BY <2>1, <3>1 DEF Phase, Open, Closed
  <2>. QED BY <2>2 DEF PhaseInv
<1>6. ASSUME UNCHANGED <<pc, at, conn>> PROVE PhaseInv'
  BY <1>6 DEF PhaseInv, Phase
<1>7. ASSUME NEW n \in Nodes, Node(n) PROVE PhaseInv'
  BY <1>6, <1>7 DEF Node, NodeAccept, NodeDisconnects, appVars
<1>8. CASE UNCHANGED vars
  BY <1>6, <1>8 DEF vars, appVars
<1>. QED BY <1>1, <1>2, <1>3, <1>4, <1>5, <1>7, <1>8 DEF Next, App

\* A node keeps what it knows when connections are closed and none is opened.
LEMMA KnownCloses ==
  ASSUME TypeOK, NEW n \in Nodes, Known(n),
         serving'[n] = serving[n], backlog'[n] = backlog[n], alive' = alive,
         \A a \in Apps : conn'[a][n] = conn[a][n] \/ conn'[a][n] = "closed"
  PROVE  Known(n)'
<1>1. serving[n] \in Apps \cup {NULL} /\ backlog[n] \in Seq(Apps)
  BY DEF TypeOK
<1>2. \A k \in 1..Len(backlog[n]) : backlog[n][k] \in Apps
  BY <1>1
<1>3. \A a \in Apps : conn'[a][n] = "open" => conn[a][n] = "open"
  OBVIOUS
<1>. QED BY <1>1, <1>2, <1>3 DEF Known

\* Connections and what their nodes know of them.
LEMMA KnownStep ==
  ASSUME Inv, PhaseInv, KnownInv, [Next]_vars
  PROVE  KnownInv'
<1>. USE ConstantsAssumption
<1>0. /\ TypeOK
      /\ conn \in [Apps -> [Nodes -> {"none", "open", "failed", "closed"}]]
      /\ \A n \in Nodes : /\ serving[n] \in Apps \cup {NULL}
                          /\ backlog[n] \in Seq(Apps)
                          /\ Len(backlog[n]) \in Nat
                          /\ \A k \in 1..Len(backlog[n]) : backlog[n][k] \in Apps
                          /\ Known(n)
  <2>1. TypeOK /\ \A n \in Nodes : Known(n)
    BY DEF Inv, KnownInv
  <2>2. \A n \in Nodes : serving[n] \in Apps \cup {NULL} /\ backlog[n] \in Seq(Apps)
    BY <2>1 DEF TypeOK
  <2>. QED BY <2>1, <2>2 DEF TypeOK
<1>. SUFFICES ASSUME NEW n \in Nodes PROVE Known(n)'
  BY DEF KnownInv
<1>1. ASSUME NEW a \in Apps, Connect(a) PROVE Known(n)'
  <2>1. PICK m \in Nodes : m = Here(a)
    BY HereInNodes
  <2>2. /\ conn' = [conn EXCEPT ![a][m] = IF m \in alive THEN "open" ELSE "failed"]
        /\ backlog' = [backlog EXCEPT ![m] = IF m \in alive THEN Append(@, a) ELSE @]
        /\ alive' = alive /\ serving' = serving
    BY <1>1, <2>1 DEF Connect
  <2>3. conn[a][m] = "none"
    <3>1. pc[a] = "connect" /\ m = at[a] /\ m \in Nat
      BY <1>1, <2>1 DEF Connect, Here, NodeOf, Nodes
    <3>. QED BY <3>1 DEF PhaseInv, Phase
  <2>4. backlog \in [Nodes -> Seq(Apps)]
    BY <1>0 DEF TypeOK
  <2>5. CASE n # m
    <3>1. backlog'[n] = backlog[n] /\ \A b \in Apps : conn'[b][n] = conn[b][n]
      BY <1>0, <2>1, <2>2, <2>4, <2>5
    <3>. QED BY <1>0, <2>2, <3>1, KnownCloses
  <2>6. CASE n = m /\ m \notin alive
    <3>1. backlog'[n] = backlog[n]
      BY <2>2, <2>4, <2>6
    <3>2. \A b \in Apps : b # a => conn'[b][n] = conn[b][n]
      BY <1>0, <2>1, <2>2, <2>6
    <3>3. conn'[a][n] = "failed"
      BY <1>0, <2>1, <2>2, <2>6
    <3>4. serving[n] # a /\ \A k \in 1..Len(backlog[n]) : backlog[n][k] # a
      BY <1>0, <2>3, <2>6 DEF Known
    <3>5. \A b \in Apps : conn'[b][n] = "open" =>
            /\ n \in alive'
            /\ serving'[n] = b \/ \E k \in 1..Len(backlog'[n]) : backlog'[n][k] = b
      BY <1>0, <2>2, <3>1, <3>2, <3>3 DEF Known
    <3>6. serving'[n] # NULL => conn'[serving'[n]][n] \in {"open", "closed"}
      BY <1>0, <2>2, <3>2, <3>4 DEF Known
    <3>7. \A k \in 1..Len(backlog[n]) : conn'[backlog[n][k]][n] \in {"open", "closed"}
      BY <1>0, <3>2, <3>4 DEF Known
    <3>. QED BY <3>1, <3>5, <3>6, <3>7 DEF Known
  <2>7. CASE n = m /\ m \in alive
    <3>1. PICK q \in Seq(Apps), L \in Nat : q = backlog[n] /\ L = Len(q)
      BY <1>0
    <3>2. backlog'[n] = Append(q, a)
      BY <2>2, <2>4, <2>7, <3>1
    <3>3. /\ Len(Append(q, a)) = L + 1
          /\ \A k \in 1..L : Append(q, a)[k] = q[k]
          /\ Append(q, a)[L + 1] = a
      BY <3>1, AppendProperties
    <3>4. /\ \A b \in Apps : b # a => conn'[b][n] = conn[b][n]
          /\ conn'[a][n] = "open"
      BY <1>0, <2>1, <2>2, <2>7
    <3>5. \A k \in 1..L : k \in 1..(L + 1)
      OBVIOUS
    <3>6. L + 1 \in 1..(L + 1) /\ \A k \in 1..(L + 1) : k \in 1..L \/ k = L + 1
      OBVIOUS
    <3>7. \A b \in Apps : conn'[b][n] = "open" =>
            /\ n \in alive'
            /\ serving'[n] = b \/ \E k \in 1..Len(backlog'[n]) : backlog'[n][k] = b
      <4>. SUFFICES ASSUME NEW b \in Apps, conn'[b][n] = "open"
                    PROVE  \/ serving[n] = b
                           \/ \E k \in 1..(L + 1) : Append(q, a)[k] = b
        BY <2>2, <2>7, <3>2, <3>3
      <4>1. CASE b = a
        BY <3>3, <3>6, <4>1
      <4>2. CASE b # a
        <5>1. serving[n] = b \/ \E k \in 1..L : q[k] = b
          BY <1>0, <3>1, <3>4, <4>2 DEF Known
        <5>. QED BY <3>3, <3>5, <5>1
      <4>. QED BY <4>1, <4>2
    <3>8. serving'[n] # NULL => conn'[serving'[n]][n] \in {"open", "closed"}
      BY <1>0, <2>2, <3>4 DEF Known
    <3>9. \A k \in 1..(L + 1) : conn'[Append(q, a)[k]][n] \in {"open", "closed"}
      <4>1. \A k \in 1..L : q[k] \in Apps /\ conn[q[k]][n] \in {"open", "closed"}
        BY <1>0, <3>1 DEF Known
      <4>2. \A k \in 1..L : conn'[q[k]][n] \in {"open", "closed"}
        BY <3>4, <4>1
      <4>. QED BY <3>3, <3>4, <3>6, <4>2
    <3>. QED BY <3>2, <3>3, <3>7, <3>8, <3>9 DEF Known
  <2>. QED BY <2>5, <2>6, <2>7
<1>2. ASSUME NEW a \in Apps, Operate(a) \/ OperateInVain(a) \/ Crash(a)
      PROVE  Known(n)'
  <2>1. serving' = serving /\ backlog' = backlog /\ alive' = alive
    BY <1>2 DEF Operate, OperateInVain, Crash, nodeVars
  <2>2. \A b \in Apps : conn'[b][n] = conn[b][n] \/ conn'[b][n] = "closed"
    <3>1. CASE Operate(a)
      <4>1. PICK m \in Nodes : m = Here(a)
        BY HereInNodes
      <4>2. conn' = [conn EXCEPT ![a][m] = IF pc[a] = "unload" THEN "closed" ELSE @]
        BY <3>1, <4>1 DEF Operate
      <4>. QED BY <1>0, <4>1, <4>2
    <3>2. CASE OperateInVain(a)
      BY <3>2 DEF OperateInVain
    <3>3. CASE Crash(a)
      BY <1>0, <3>3 DEF Crash
    <3>. QED BY <1>2, <3>1, <3>2, <3>3
  <2>. QED BY <1>0, <2>1, <2>2, KnownCloses
<1>3. ASSUME NEW m \in Nodes, NodeAccept(m) PROVE Known(n)'
  <2>1. /\ conn' = conn /\ alive' = alive /\ serving[m] = NULL /\ backlog[m] # << >>
        /\ serving' = [serving EXCEPT ![m] = Head(backlog[m])]
        /\ backlog' = [backlog EXCEPT ![m] = Tail(@)]
    BY <1>3 DEF NodeAccept
  <2>2. backlog \in [Nodes -> Seq(Apps)] /\ serving \in [Nodes -> Apps \cup {NULL}]
    BY <1>0 DEF TypeOK
  <2>3. CASE n # m
    <3>1. backlog'[n] = backlog[n] /\ serving'[n] = serving[n]
      BY <2>1, <2>2, <2>3
    <3>. QED BY <1>0, <2>1, <3>1, KnownCloses
  <2>4. CASE n = m
    <3>1. PICK q \in Seq(Apps), L \in Nat : q = backlog[n] /\ L = Len(q) /\ q # << >>
      BY <1>0, <2>1, <2>4
    <3>2. backlog'[n] = Tail(q) /\ serving'[n] = Head(q) /\ serving[n] = NULL
      BY <2>1, <2>2, <2>4, <3>1
    <3>3. /\ L >= 1 /\ Head(q) = q[1] /\ Len(Tail(q)) = L - 1
          /\ \A k \in 1..(L - 1) : Tail(q)[k] = q[k + 1]
      BY <3>1, EmptySeq, HeadTailProperties
    <3>4. \A k \in 1..L : q[k] \in Apps /\ conn[q[k]][n] \in {"open", "closed"}
      BY <1>0, <3>1 DEF Known
    <3>5. 1 \in 1..L /\ \A k \in 1..(L - 1) : k + 1 \in 1..L
      BY <3>3
    <3>6. \A b \in Apps : conn[b][n] = "open" =>
            n \in alive /\ (Head(q) = b \/ \E k \in 1..(L - 1) : Tail(q)[k] = b)
      <4>. SUFFICES ASSUME NEW b \in Apps, conn[b][n] = "open"
                    PROVE  n \in alive /\ (Head(q) = b \/ \E k \in 1..(L - 1) : Tail(q)[k] = b)
        OBVIOUS
      <4>1. n \in alive /\ serving[n] # b
        BY <1>0, <3>2 DEF Known
      <4>2. PICK k \in 1..L : q[k] = b
        BY <1>0, <3>1, <4>1 DEF Known
      <4>3. CASE k = 1
        BY <3>3, <4>1, <4>2, <4>3
      <4>4. CASE k # 1
        <5>1. k - 1 \in 1..(L - 1) /\ (k - 1) + 1 = k
          BY <4>4
        <5>2. Tail(q)[k - 1] = b
          BY <3>3, <4>2, <5>1
        <5>. QED BY <4>1, <5>1, <5>2
      <4>. QED BY <4>3, <4>4
    <3>7. \A k \in 1..(L - 1) : conn[Tail(q)[k]][n] \in {"open", "closed"}
      BY <3>3, <3>4, <3>5
    <3>8. conn[Head(q)][n] \in {"open", "closed"}
      BY <3>3, <3>4, <3>5
    <3>9. PICK r : r = Tail(q) /\ r = backlog'[n] /\ Len(r) = L - 1
      BY <3>2, <3>3
    <3>10. PICK z : z = Head(q) /\ z = serving'[n]
      BY <3>2
    <3>11. \A b \in Apps : conn'[b][n] = "open" =>
             n \in alive' /\ (serving'[n] = b \/ \E k \in 1..Len(r) : r[k] = b)
      BY <2>1, <3>6, <3>9, <3>10
    <3>12. conn'[serving'[n]][n] \in {"open", "closed"}
      BY <2>1, <3>8, <3>10
    <3>13. \A k \in 1..Len(r) : conn'[r[k]][n] \in {"open", "closed"}
      BY <2>1, <3>7, <3>9
    <3>. QED BY <3>9, <3>11, <3>12, <3>13 DEF Known
  <2>. QED BY <2>3, <2>4
<1>4. ASSUME NEW m \in Nodes, NodeDisconnects(m) PROVE Known(n)'
  <2>1. /\ conn' = conn /\ alive' = alive /\ backlog' = backlog
        /\ serving[m] # NULL /\ conn[serving[m]][m] = "closed"
        /\ serving' = [serving EXCEPT ![m] = NULL]
    BY <1>4 DEF NodeDisconnects
  <2>2. serving \in [Nodes -> Apps \cup {NULL}]
    BY <1>0 DEF TypeOK
  <2>3. CASE n # m
    <3>1. serving'[n] = serving[n]
      BY <2>1, <2>2, <2>3
    <3>. QED BY <1>0, <2>1, <3>1, KnownCloses
  <2>4. CASE n = m
    <3>1. serving'[n] = NULL /\ conn[serving[n]][n] = "closed"
      BY <2>1, <2>2, <2>4
    <3>2. \A b \in Apps : conn[b][n] = "open" => serving[n] # b
      BY <3>1
    <3>. QED BY <1>0, <2>1, <3>1, <3>2 DEF Known
  <2>. QED BY <2>3, <2>4
<1>5. ASSUME NEW m \in Nodes, NodeDies(m) PROVE Known(n)'
  <2>1. /\ alive' = alive \ {m}
        /\ serving' = [serving EXCEPT ![m] = NULL]
        /\ backlog' = [backlog EXCEPT ![m] = << >>]
        /\ conn' = [b \in Apps |->
                      [conn[b] EXCEPT ![m] = IF @ = "open" THEN "failed" ELSE @]]
    BY <1>5 DEF NodeDies
  <2>2. backlog \in [Nodes -> Seq(Apps)] /\ serving \in [Nodes -> Apps \cup {NULL}]
    BY <1>0 DEF TypeOK
  <2>3. CASE n # m
    <3>1. /\ serving'[n] = serving[n] /\ backlog'[n] = backlog[n]
          /\ n \in alive' <=> n \in alive
      BY <2>1, <2>2, <2>3
    <3>2. \A b \in Apps : conn'[b][n] = conn[b][n]
      BY <1>0, <2>1, <2>3
    <3>. QED BY <1>0, <3>1, <3>2 DEF Known
  <2>4. CASE n = m
    <3>1. serving'[n] = NULL /\ backlog'[n] = << >>
      BY <2>1, <2>2, <2>4
    <3>2. \A b \in Apps : conn'[b][n] # "open"
      BY <1>0, <2>1, <2>4
    <3>3. Len(<< >>) = 0 /\ 1..0 = {}
      OBVIOUS
    <3>. QED BY <3>1, <3>2, <3>3 DEF Known
  <2>. QED BY <2>3, <2>4
<1>6. CASE UNCHANGED vars
  <2>1. conn' = conn /\ alive' = alive /\ serving' = serving /\ backlog' = backlog
    BY <1>6 DEF vars, nodeVars
  <2>. QED BY <1>0, <2>1, KnownCloses
<1>. QED BY <1>1, <1>2, <1>3, <1>4, <1>5, <1>6 DEF Next, App, Node

\* Nothing is connected at first.
LEMMA InitFull ==
  ASSUME Init
  PROVE  FullInv
<1>1. \A a \in Apps, n \in Nodes :
        pc[a] = "connect" /\ at[a] = 1 /\ conn[a][n] = "none"
  BY DEF Init
<1>2. \A n \in Nodes : n \in Nat /\ ~(n < 1)
  BY ConstantsAssumption DEF Nodes
<1>3. PhaseInv
  BY <1>1, <1>2 DEF PhaseInv, Phase
<1>4. \A n \in Nodes : serving[n] = NULL /\ backlog[n] = << >> /\ Len(<< >>) = 0
  BY DEF Init
<1>5. KnownInv
  BY <1>1, <1>4 DEF KnownInv, Known
<1>. QED BY <1>3, <1>5, InitInv DEF FullInv

\* The loops, the connections and what the nodes know of them agree at every
\* step.
THEOREM FullInvariance == Spec => []FullInv
<1>1. FullInv /\ [Next]_vars => FullInv'
  BY InvStep, PhaseStep, KnownStep DEF FullInv
<1>. QED BY <1>1, InitFull, PTL DEF Spec

\* For any number of applications and nodes, and whatever dies: when nobody
\* can go on, every application has ended or is in a circle of applications
\* that wait for each other (dic_nodes_connect_all against listen_loop).
THEOREM StandstillIsCircle == Spec => []StuckOnlyIfCrossed
<1>1. FullInv => StuckOnlyIfCrossed
  <2>. SUFFICES ASSUME FullInv, \A a \in Apps : ~CanOperate(a),
                       \A n \in Nodes : ~CanServe(n), NEW x \in Apps, ~Ended(x)
                PROVE  Crossed(x)
    BY DEF StuckOnlyIfCrossed
  <2>0. Inv /\ PhaseInv /\ KnownInv /\ TypeOK
    BY DEF FullInv, Inv
  <2>. DEFINE circle == {a \in Apps : ~Ended(a)}
  <2>1. ASSUME NEW a \in circle PROVE \E b \in circle : Waits(a, b)
    <3>0. a \in Apps /\ ~Ended(a) /\ ~CanOperate(a)
      OBVIOUS
    <3>1. PICK n \in Nodes : n = Here(a)
      BY <2>0, <3>0, HereInNodes
    <3>2. pc[a] \in {"so_load", "func_load", "run", "join", "unload"}
      BY <2>0, <3>0 DEF TypeOK, Ended, CanOperate
    <3>3. conn[a][n] \in Open
      <4>1. Phase(pc[a], at[a], n, conn[a][n])
        BY <2>0, <3>0 DEF PhaseInv
      <4>2. CASE pc[a] # "unload"
        BY <3>2, <4>1, <4>2 DEF Phase
      <4>3. CASE pc[a] = "unload"
        <5>1. n = at[a] /\ n \in Nat
          BY <3>1, <4>3 DEF Here, NodeOf, Nodes
        <5>. QED BY <4>1, <4>3, <5>1 DEF Phase
      <4>. QED BY <4>2, <4>3
    <3>4. conn[a][n] = "open" /\ serving[n] # a
      BY <3>0, <3>1, <3>3 DEF CanOperate, Open
    <3>5. n \in alive /\ \E k \in 1..Len(backlog[n]) : backlog[n][k] = a
      BY <2>0, <3>0, <3>4 DEF KnownInv, Known
    <3>6. backlog[n] \in Seq(Apps) /\ serving[n] \in Apps \cup {NULL}
      BY <2>0 DEF TypeOK
    <3>7. backlog[n] # << >>
      BY <3>5
    <3>8. serving[n] \in Apps /\ conn[serving[n]][n] # "closed"
      BY <3>5, <3>6, <3>7 DEF CanServe
    <3>9. PICK b \in Apps : b = serving[n] /\ conn[b][n] = "open"
      BY <2>0, <3>8, ConstantsAssumption DEF KnownInv, Known
    <3>10. ~Ended(b)
      <4>1. Phase(pc[b], at[b], n, conn[b][n])
        BY <2>0 DEF PhaseInv
      <4>. QED BY <3>9, <4>1 DEF Phase, Closed, Ended
    <3>11. DOMAIN backlog[n] = 1..Len(backlog[n])
      BY <3>6
    <3>12. Waits(a, b)
      BY <3>5, <3>9, <3>11 DEF Waits
    <3>. QED BY <3>10, <3>12
  <2>2. circle \in SUBSET Apps /\ x \in circle
    OBVIOUS
  <2>. HIDE DEF circle
  <2>. QED BY <2>1, <2>2 DEF Crossed
<1>. QED BY <1>1, FullInvariance, PTL

=============================================================================
