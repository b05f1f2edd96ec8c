------------------------ MODULE NodeLifecycle_proofs ------------------------
(***************************************************************************)
(* For any number of nodes, clients, starts, deaths and crashes: the       *)
(* types, what an entry of the main server's list stands for, and by whom  *)
(* a client can be refused.                                                *)
(*                                                                         *)
(* The argument: as long as a node has its connection, the handler at the  *)
(* other end is as far as the node's own program counter says; handlers of *)
(* earlier runs can only finish; and what a client has copied was once     *)
(* announced, and remains so or has ended.                                 *)
(***************************************************************************)
EXTENDS NodeLifecycle, TLAPS

\* A node that is running and its handler.
SessionInv ==
  \A n \in ByHand :
    pc[n] # "off" =>
      /\ run[n] >= 1
      /\ pc[n] \in {"connect", "sleep"} => link[n] = "none"
      /\ link[n] # "open" => sess[Current(n)] = "none"
      /\ link[n] = "open" =>
           /\ pc[n] = "head" => sess[Current(n)] = "accepted"
           /\ pc[n] = "body" => sess[Current(n)] = "head"
           /\ pc[n] = "reply" => sess[Current(n)] \in {"body", "acked", "listed"}
           /\ pc[n] \in {"bind", "listen"} => sess[Current(n)] \in {"acked", "listed"}

\* There are no handlers of runs that are yet to come, and every entry of
\* the list has its handler.
PastInv ==
  \A e \in Entries :
    /\ sess[e] # "none" => e[2] <= run[e[1]]
    /\ e \in listed => sess[e] = "listed"

\* The node has sent its whole announcement, or its process has ended.
Announced(e) ==
  /\ e[2] <= run[e[1]]
  /\ Ended(e) \/ pc[e[1]] \in {"reply", "bind", "listen"}

\* What clients have copied.
ClientInv ==
  \A c \in Clients : \A e \in answer[c] \cup got[c] : Announced(e)

Inv == TypeOK /\ SessionInv /\ PastInv /\ ClientInv

-----------------------------------------------------------------------------
\* An entry is a node and the number of a run.
LEMMA EntryParts ==
  /\ \A e \in Entries :
       e[1] \in ByHand /\ e[2] \in 1..MaxStarts /\ e = <<e[1], e[2]>>
  /\ \A n \in ByHand : \A k \in 1..MaxStarts : <<n, k>> \in Entries
BY DEF Entries

\* The invariant holds before the first start.
LEMMA InitInv == Init => Inv
<1>. SUFFICES ASSUME Init PROVE Inv
  OBVIOUS
<1>. USE ConstantsAssumption, EntryParts DEF Init, R!Init, Nodes
<1>1. TypeOK
  BY DEF TypeOK
<1>2. SessionInv /\ PastInv
  BY DEF SessionInv, PastInv
<1>3. ClientInv
  BY DEF ClientInv
<1>. QED BY <1>1, <1>2, <1>3 DEF Inv

\* An entry of the list is an announcement.
LEMMA ListedAnnounced ==
  ASSUME Inv, NEW e \in listed
  PROVE  /\ Announced(e)
         /\ Ended(e) \/ link[e[1]] = "open"
<1>1. e \in Entries /\ sess[e] = "listed" /\ e[2] <= run[e[1]]
  BY DEF Inv, TypeOK, PastInv
<1>2. CASE Ended(e)
  BY <1>1, <1>2 DEF Announced
<1>3. CASE ~Ended(e)
  <2>1. e = Current(e[1]) /\ pc[e[1]] # "off"
    BY <1>1, <1>3, EntryParts, ConstantsAssumption DEF Ended, Current, Inv, TypeOK
  <2>2. pc[e[1]] \in {"reply", "bind", "listen"} /\ link[e[1]] = "open"
    BY <1>1, <2>1, EntryParts DEF Inv, SessionInv, TypeOK, Nodes
  <2>. QED BY <1>1, <2>2 DEF Announced
<1>. QED BY <1>2, <1>3

\* The types.
LEMMA TypeStep == TypeOK /\ [Next]_vars => TypeOK'
<1>. SUFFICES ASSUME TypeOK, [Next]_vars PROVE TypeOK'
  OBVIOUS
<1>. USE ConstantsAssumption, EntryParts
         DEF GoTo, placeVars, nodeVars, serverVars, clientVars, TypeOK, Nodes, Current
<1>1. ASSUME NEW n \in ByHand, Start(n) PROVE TypeOK'
  BY <1>1 DEF Start
<1>2. ASSUME NEW n \in ByHand, Connect(n) PROVE TypeOK'
  BY <1>2 DEF Connect
<1>3. ASSUME NEW n \in ByHand, Sleep(n) PROVE TypeOK'
  BY <1>3 DEF Sleep
<1>4. ASSUME NEW n \in ByHand, SendHead(n) PROVE TypeOK'
  BY <1>4 DEF SendHead, Transmit
<1>5. ASSUME NEW n \in ByHand, SendBody(n) PROVE TypeOK'
  BY <1>5 DEF SendBody, Transmit
<1>6. ASSUME NEW n \in ByHand, SendBodyKills(n) PROVE TypeOK'
  BY <1>6 DEF SendBodyKills
<1>7. ASSUME NEW n \in ByHand, RecvReply(n) PROVE TypeOK'
  BY <1>7 DEF RecvReply
<1>8. ASSUME NEW n \in Managed, ManagerRuns(n) PROVE TypeOK'
  BY <1>8 DEF ManagerRuns
<1>9. ASSUME NEW n \in Nodes, Bind(n) PROVE TypeOK'
  BY <1>9 DEF Bind
<1>10. ASSUME NEW n \in Nodes, Die(n) PROVE TypeOK'
  BY <1>10 DEF Die
<1>11. ASSUME NEW n \in Nodes, TimeWaitEnds(n) PROVE TypeOK'
  BY <1>11 DEF TimeWaitEnds
<1>12. ASSUME NEW e \in Entries, ServerReply(e) PROVE TypeOK'
  BY <1>12 DEF ServerReply
<1>13. ASSUME NEW e \in Entries, ServerAppend(e) PROVE TypeOK'
  BY <1>13 DEF ServerAppend, R!Register
<1>14. ASSUME NEW e \in Entries, ServerEnds(e) PROVE TypeOK'
  BY <1>14 DEF ServerEnds, R!Unregister
<1>15. CASE ServerCrash
  <2>1. crashes' \in 0..MaxCrashes
    BY <1>15 DEF ServerCrash
  <2>2. sess' \in [Entries -> {"none", "accepted", "head", "body", "acked", "listed"}]
    BY <1>15 DEF ServerCrash
  <2>3. link' \in [ByHand -> {"none", "open", "broken", "poked"}]
    BY <1>15 DEF ServerCrash
  <2>. QED BY <1>15, <2>1, <2>2, <2>3 DEF ServerCrash
<1>16. CASE ServerStarts
  BY <1>16 DEF ServerStarts
<1>17. ASSUME NEW c \in Clients, GetNodesInfo(c) PROVE TypeOK'
  BY <1>17 DEF GetNodesInfo, R!Copy
<1>18. ASSUME NEW c \in Clients, NEW e \in Entries, NodeConnect(c, e) PROVE TypeOK'
  BY <1>18 DEF NodeConnect
<1>19. CASE UNCHANGED vars
  BY <1>19 DEF vars
<1>. QED BY <1>1, <1>2, <1>3, <1>4, <1>5, <1>6, <1>7, <1>8, <1>9, <1>10, <1>11,
            <1>12, <1>13, <1>14, <1>15, <1>16, <1>17, <1>18, <1>19
         DEF Next, NodeStep, ServerStep

\* The handlers of the main server and their nodes.
LEMMA SessionStep == Inv /\ [Next]_vars => SessionInv'
<1>. SUFFICES ASSUME Inv, [Next]_vars PROVE SessionInv'
  OBVIOUS
<1>. USE ConstantsAssumption, EntryParts
         DEF GoTo, placeVars, nodeVars, serverVars, clientVars, Inv, TypeOK, Nodes, SessionInv, Current, Ended
<1>1. ASSUME NEW n \in ByHand, Start(n) PROVE SessionInv'
  <2>1. PICK r \in Nat : r = run[n] /\ r + 1 \in 1..MaxStarts
    BY <1>1 DEF Start
  <2>2. PICK e \in Entries : e = <<n, r + 1>> /\ e[1] = n /\ e[2] = r + 1
    <3>1. <<n, r + 1>> \in Entries
      BY <2>1
    <3>. QED BY <3>1
  <2>3. sess[e] = "none"
    <3>1. ~(r + 1 <= r)
      BY <2>1
    <3>. QED BY <2>1, <2>2, <3>1 DEF PastInv
  <2>4. run'[n] = r + 1 /\ pc'[n] = "connect" /\ link'[n] = "none" /\ sess' = sess
    BY <1>1, <2>1 DEF Start
  <2>5. Current(n)' = e
    BY <2>2, <2>4
  <2>6. \A m \in ByHand : m # n =>
          pc'[m] = pc[m] /\ run'[m] = run[m] /\ link'[m] = link[m]
    BY <1>1 DEF Start
  <2>7. ASSUME NEW m \in ByHand, m # n PROVE Current(m)' = Current(m)
    BY <2>6, <2>7
  <2>8. r + 1 >= 1
    BY <2>1
  <2>. QED BY <2>3, <2>4, <2>5, <2>6, <2>7, <2>8
<1>2. ASSUME NEW n \in ByHand, Connect(n) PROVE SessionInv'
  <2>1. Current(n) \in Entries
    BY <1>2 DEF Connect
  <2>2. \A m \in ByHand : Current(m) = Current(n) => m = n
    OBVIOUS
  <2>3. ASSUME NEW m \in ByHand, m # n, pc[m] # "off"
        PROVE  /\ pc'[m] = pc[m] /\ link'[m] = link[m]
               /\ sess'[Current(m)] = sess[Current(m)]
    <3>1. Current(m) \in Entries
      BY <2>3
    <3>. QED BY <1>2, <2>1, <2>2, <2>3, <3>1 DEF Connect
  <2>4. /\ pc'[n] = IF srv THEN "head" ELSE "sleep"
        /\ srv => link'[n] = "open" /\ sess'[Current(n)] = "accepted"
        /\ ~srv => link'[n] = "none" /\ sess'[Current(n)] = "none"
    BY <1>2, <2>1 DEF Connect
  <2>5. run' = run /\ run[n] >= 1
    BY <1>2 DEF Connect
  <2>6. \A m \in ByHand : Current(m)' = Current(m)
    BY <2>5
  <2>7. ASSUME NEW m \in ByHand, m # n, pc'[m] # "off"
        PROVE  pc[m] # "off"
    BY <1>2, <2>7 DEF Connect
  <2>. QED BY <2>3, <2>4, <2>5, <2>6, <2>7
<1>3. ASSUME NEW n \in ByHand, Sleep(n) PROVE SessionInv'
  BY <1>3 DEF Sleep
<1>4. ASSUME NEW n \in ByHand, SendHead(n) PROVE SessionInv'
  BY <1>4 DEF SendHead, Transmit
<1>5. ASSUME NEW n \in ByHand, SendBody(n) PROVE SessionInv'
  BY <1>5 DEF SendBody, Transmit
<1>6. ASSUME NEW n \in ByHand, SendBodyKills(n) PROVE SessionInv'
  BY <1>6 DEF SendBodyKills
<1>7. ASSUME NEW n \in ByHand, RecvReply(n) PROVE SessionInv'
  BY <1>7 DEF RecvReply
<1>8. ASSUME NEW n \in Managed, ManagerRuns(n) PROVE SessionInv'
  BY <1>8 DEF ManagerRuns
<1>9. ASSUME NEW n \in Nodes, Bind(n) PROVE SessionInv'
  BY <1>9 DEF Bind
<1>10. ASSUME NEW n \in Nodes, Die(n) PROVE SessionInv'
  BY <1>10 DEF Die
<1>11. ASSUME NEW n \in Nodes, TimeWaitEnds(n) PROVE SessionInv'
  BY <1>11 DEF TimeWaitEnds
<1>12. ASSUME NEW e \in Entries, ServerReply(e) PROVE SessionInv'
  BY <1>12 DEF ServerReply
<1>13. ASSUME NEW e \in Entries, ServerAppend(e) PROVE SessionInv'
  BY <1>13 DEF ServerAppend, R!Register
<1>14. ASSUME NEW e \in Entries, ServerEnds(e) PROVE SessionInv'
  BY <1>14 DEF ServerEnds, R!Unregister
<1>15. CASE ServerCrash
  BY <1>15 DEF ServerCrash
<1>16. CASE ServerStarts
  BY <1>16 DEF ServerStarts
<1>17. ASSUME NEW c \in Clients, GetNodesInfo(c) PROVE SessionInv'
  BY <1>17 DEF GetNodesInfo, R!Copy
<1>18. ASSUME NEW c \in Clients, NEW e \in Entries, NodeConnect(c, e) PROVE SessionInv'
  BY <1>18 DEF NodeConnect
<1>19. CASE UNCHANGED vars
  BY <1>19 DEF vars
<1>. QED BY <1>1, <1>2, <1>3, <1>4, <1>5, <1>6, <1>7, <1>8, <1>9, <1>10, <1>11,
            <1>12, <1>13, <1>14, <1>15, <1>16, <1>17, <1>18, <1>19
         DEF Next, NodeStep, ServerStep

\* Handlers of earlier runs, and the list.
LEMMA PastStep == Inv /\ [Next]_vars => PastInv'
<1>. SUFFICES ASSUME Inv, [Next]_vars PROVE PastInv'
  OBVIOUS
<1>. USE ConstantsAssumption, EntryParts
         DEF GoTo, placeVars, nodeVars, serverVars, clientVars, Inv, TypeOK, Nodes, SessionInv, PastInv, Current, Ended
<1>1. ASSUME NEW n \in ByHand, Start(n) PROVE PastInv'
  BY <1>1 DEF Start
<1>2. ASSUME NEW n \in ByHand, Connect(n) PROVE PastInv'
  BY <1>2 DEF Connect
<1>3. ASSUME NEW n \in ByHand, Sleep(n) PROVE PastInv'
  BY <1>3 DEF Sleep
<1>4. ASSUME NEW n \in ByHand, SendHead(n) PROVE PastInv'
  BY <1>4 DEF SendHead, Transmit
<1>5. ASSUME NEW n \in ByHand, SendBody(n) PROVE PastInv'
  BY <1>5 DEF SendBody, Transmit
<1>6. ASSUME NEW n \in ByHand, SendBodyKills(n) PROVE PastInv'
  BY <1>6 DEF SendBodyKills
<1>7. ASSUME NEW n \in ByHand, RecvReply(n) PROVE PastInv'
  BY <1>7 DEF RecvReply
<1>8. ASSUME NEW n \in Managed, ManagerRuns(n) PROVE PastInv'
  BY <1>8 DEF ManagerRuns
<1>9. ASSUME NEW n \in Nodes, Bind(n) PROVE PastInv'
  BY <1>9 DEF Bind
<1>10. ASSUME NEW n \in Nodes, Die(n) PROVE PastInv'
  BY <1>10 DEF Die
<1>11. ASSUME NEW n \in Nodes, TimeWaitEnds(n) PROVE PastInv'
  BY <1>11 DEF TimeWaitEnds
<1>12. ASSUME NEW e \in Entries, ServerReply(e) PROVE PastInv'
  BY <1>12 DEF ServerReply
<1>13. ASSUME NEW e \in Entries, ServerAppend(e) PROVE PastInv'
  BY <1>13 DEF ServerAppend, R!Register
<1>14. ASSUME NEW e \in Entries, ServerEnds(e) PROVE PastInv'
  BY <1>14 DEF ServerEnds, R!Unregister
<1>15. CASE ServerCrash
  BY <1>15 DEF ServerCrash
<1>16. CASE ServerStarts
  BY <1>16 DEF ServerStarts
<1>17. ASSUME NEW c \in Clients, GetNodesInfo(c) PROVE PastInv'
  BY <1>17 DEF GetNodesInfo, R!Copy
<1>18. ASSUME NEW c \in Clients, NEW e \in Entries, NodeConnect(c, e) PROVE PastInv'
  BY <1>18 DEF NodeConnect
<1>19. CASE UNCHANGED vars
  BY <1>19 DEF vars
<1>. QED BY <1>1, <1>2, <1>3, <1>4, <1>5, <1>6, <1>7, <1>8, <1>9, <1>10, <1>11,
            <1>12, <1>13, <1>14, <1>15, <1>16, <1>17, <1>18, <1>19
         DEF Next, NodeStep, ServerStep

\* The clients' copies.
LEMMA ClientStep == Inv /\ [Next]_vars => ClientInv'
<1>. SUFFICES ASSUME Inv, [Next]_vars PROVE ClientInv'
  OBVIOUS
<1>. USE ConstantsAssumption, EntryParts
         DEF GoTo, placeVars, nodeVars, serverVars, clientVars, Inv, TypeOK, Nodes, SessionInv, PastInv, ClientInv, Announced, Current, Ended
<1>1. ASSUME NEW n \in ByHand, Start(n) PROVE ClientInv'
  BY <1>1 DEF Start
<1>2. ASSUME NEW n \in ByHand, Connect(n) PROVE ClientInv'
  BY <1>2 DEF Connect
<1>3. ASSUME NEW n \in ByHand, Sleep(n) PROVE ClientInv'
  BY <1>3 DEF Sleep
<1>4. ASSUME NEW n \in ByHand, SendHead(n) PROVE ClientInv'
  BY <1>4 DEF SendHead, Transmit
<1>5. ASSUME NEW n \in ByHand, SendBody(n) PROVE ClientInv'
  BY <1>5 DEF SendBody, Transmit
<1>6. ASSUME NEW n \in ByHand, SendBodyKills(n) PROVE ClientInv'
  BY <1>6 DEF SendBodyKills
<1>7. ASSUME NEW n \in ByHand, RecvReply(n) PROVE ClientInv'
  BY <1>7 DEF RecvReply
<1>8. ASSUME NEW n \in Managed, ManagerRuns(n) PROVE ClientInv'
  BY <1>8 DEF ManagerRuns
<1>9. ASSUME NEW n \in Nodes, Bind(n) PROVE ClientInv'
  BY <1>9 DEF Bind
<1>10. ASSUME NEW n \in Nodes, Die(n) PROVE ClientInv'
  BY <1>10 DEF Die
<1>11. ASSUME NEW n \in Nodes, TimeWaitEnds(n) PROVE ClientInv'
  BY <1>11 DEF TimeWaitEnds
<1>12. ASSUME NEW e \in Entries, ServerReply(e) PROVE ClientInv'
  BY <1>12 DEF ServerReply
<1>13. ASSUME NEW e \in Entries, ServerAppend(e) PROVE ClientInv'
  BY <1>13 DEF ServerAppend, R!Register
<1>14. ASSUME NEW e \in Entries, ServerEnds(e) PROVE ClientInv'
  BY <1>14 DEF ServerEnds, R!Unregister
<1>15. CASE ServerCrash
  BY <1>15 DEF ServerCrash
<1>16. CASE ServerStarts
  BY <1>16 DEF ServerStarts
<1>17. ASSUME NEW c \in Clients, GetNodesInfo(c) PROVE ClientInv'
  BY <1>17, ListedAnnounced DEF GetNodesInfo, R!Copy
<1>18. ASSUME NEW c \in Clients, NEW e \in Entries, NodeConnect(c, e) PROVE ClientInv'
  BY <1>18 DEF NodeConnect
<1>19. CASE UNCHANGED vars
  BY <1>19 DEF vars
<1>. QED BY <1>1, <1>2, <1>3, <1>4, <1>5, <1>6, <1>7, <1>8, <1>9, <1>10, <1>11,
            <1>12, <1>13, <1>14, <1>15, <1>16, <1>17, <1>18, <1>19
         DEF Next, NodeStep, ServerStep

-----------------------------------------------------------------------------
\* Inv is an invariant.
THEOREM Invariance == Spec => []Inv
<1>1. Inv /\ [Next]_vars => Inv'
  BY TypeStep, SessionStep, PastStep, ClientStep DEF Inv
<1>. QED BY <1>1, InitInv, PTL DEF Spec

\* Every variable of nodes, main server and clients keeps its type.
THEOREM TypeCorrectness == Spec => []TypeOK
<1>1. Inv => TypeOK
  BY DEF Inv
<1>. QED BY <1>1, Invariance, PTL

\* However often nodes and the main server crash and are started again, an
\* entry of the list is a whole announcement on a connection that its node
\* still holds, or belongs to a process that has ended (handle_push_info,
\* notify_main_server).
THEOREM EntriesAreAnnouncements == Spec => []EntriesAnnounced
<1>1. Inv => EntriesAnnounced
  BY ListedAnnounced DEF Announced, EntriesAnnounced
<1>. QED BY <1>1, Invariance, PTL

\* A client is refused only by a node that has ended or is still between its
\* announcement and bind, however old the client's list is
\* (dic_nodes_connect_all).
THEOREM RefusalsExplained == Spec => []RefusedByStarting
<1>1. Inv => RefusedByStarting
  BY DEF Inv, ClientInv, Announced, RefusedByStarting
<1>. QED BY <1>1, Invariance, PTL
=============================================================================
