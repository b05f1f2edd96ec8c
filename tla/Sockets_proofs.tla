--------------------------- MODULE Sockets_proofs ---------------------------
(***************************************************************************)
(* For any number of threads and any descriptors: the types, that          *)
(* descriptors are neither leaked nor closed twice, and where a message    *)
(* may go.                                                                 *)
(*                                                                         *)
(* The argument: a connection that a thread is using is neither opened nor *)
(* disconnected, and only one thread receives on it; so conn->sockfd stays *)
(* what the receiver has read until that receiver itself clears it, and a  *)
(* sender finds it either as it has read it or cleared.                    *)
(***************************************************************************)
EXTENDS Sockets, TLAPS

Sending == {"get_send", "send", "lock_recv"}
Receiving == {"get_recv", "recv", "close", "clear"}

\* Which thread uses which connection.
UseInv ==
  \A t \in Threads :
    /\ pc[t] = "idle" <=> on[t] = NULL
    /\ server => /\ on[t] \in {t, NULL}
                 /\ pc[t] \notin {"connect", "lock_recv"}
                 /\ pc[t] = "idle" => sockfd[t] = -1
    /\ ~server => /\ pc[t] \in Sending => sendMut[on[t]] = t
                  /\ pc[t] \in Receiving => recvMut[on[t]] = t

\* tcp_connect has the connection to itself.
ConnectInv ==
  \A t \in Threads :
    pc[t] = "connect" =>
      /\ on[t] = t
      /\ \A u \in Threads : on[u] = t => u = t
      /\ sockfd[t] = -1
      /\ loc[t] \in Fds
      /\ table[loc[t]] = t

\* What a thread has read from conn->sockfd, and that a descriptor is closed
\* once.
LocInv ==
  \A t \in Threads :
    /\ pc[t] \in {"recv", "close", "clear"} => loc[t] = sockfd[on[t]]
    /\ pc[t] = "clear" /\ loc[t] # -1 => table[loc[t]] # on[t]
    /\ pc[t] = "send" /\ loc[t] # -1 =>
         loc[t] = sockfd[on[t]] \/ (~server /\ sockfd[on[t]] = -1)

Inv == TypeOK /\ UseInv /\ ConnectInv /\ LocInv /\ DescriptorsOwned

-----------------------------------------------------------------------------
\* -1 is no descriptor.
LEMMA NoFd == -1 \notin Fds
BY ConstantsAssumption

-----------------------------------------------------------------------------
\* The invariant holds before anything is opened.
LEMMA InitInv == Init => Inv
<1>. SUFFICES ASSUME Init PROVE Inv
  OBVIOUS
<1>. USE ConstantsAssumption, NoFd
<1>1. TypeOK
  BY DEF Init, TypeOK, Conns
<1>2. UseInv /\ ConnectInv /\ LocInv
  BY DEF Init, UseInv, ConnectInv, LocInv, Sending, Receiving, Conns
<1>3. DescriptorsOwned
  BY DEF Init, DescriptorsOwned, Conns
<1>. QED BY <1>1, <1>2, <1>3 DEF Inv

\* The types.
LEMMA TypeStep == TypeOK /\ UseInv /\ [Next]_vars => TypeOK'
<1>. SUFFICES ASSUME TypeOK, UseInv, [Next]_vars PROVE TypeOK'
  OBVIOUS
<1>. USE ConstantsAssumption, NoFd DEF TypeOK, Conns, GoTo, Return, mutVars, threadVars
<1>0. \A t \in Threads : pc[t] # "idle" => on[t] \in Threads
  BY DEF UseInv
<1>1. ASSUME NEW t \in Threads, Socket(t) PROVE TypeOK'
  BY <1>1 DEF Socket
<1>2. ASSUME NEW t \in Threads, ConnectSucceeds(t) PROVE TypeOK'
  BY <1>2 DEF ConnectSucceeds
<1>3. ASSUME NEW t \in Threads, ConnectFails(t) PROVE TypeOK'
  BY <1>3 DEF ConnectFails
<1>4. ASSUME NEW t \in Threads, Accept(t) PROVE TypeOK'
  BY <1>4 DEF Accept
<1>5. ASSUME NEW t \in Threads, NEW c \in Conns, LockSend(t, c) PROVE TypeOK'
  BY <1>5 DEF LockSend
<1>6. ASSUME NEW t \in Threads, GetSend(t) PROVE TypeOK'
  BY <1>0, <1>6 DEF GetSend, ReadSockfd
<1>7. ASSUME NEW t \in Threads, Send(t) PROVE TypeOK'
  BY <1>7 DEF Send
<1>8. ASSUME NEW t \in Threads, LockRecv(t) PROVE TypeOK'
  BY <1>8 DEF LockRecv
<1>9. ASSUME NEW t \in Threads, GetRecv(t) PROVE TypeOK'
  BY <1>0, <1>9 DEF GetRecv, ReadSockfd
<1>10. ASSUME NEW t \in Threads, RecvSucceeds(t) PROVE TypeOK'
  BY <1>10 DEF RecvSucceeds
<1>11. ASSUME NEW t \in Threads, RecvFails(t) PROVE TypeOK'
  BY <1>11 DEF RecvFails
<1>12. ASSUME NEW t \in Threads, Close(t) PROVE TypeOK'
  BY <1>12 DEF Close
<1>13. ASSUME NEW t \in Threads, Clear(t) PROVE TypeOK'
  BY <1>13 DEF Clear, AfterFailure
<1>14. CASE AcceptFails
  BY <1>14 DEF AcceptFails
<1>15. ASSUME NEW c \in Conns, Disconnect(c) PROVE TypeOK'
  BY <1>15 DEF Disconnect
<1>16. ASSUME NEW c \in Conns, LinkBreaks(c) PROVE TypeOK'
  BY <1>16 DEF LinkBreaks
<1>17. CASE UNCHANGED vars
  BY <1>17 DEF vars
<1>. QED BY <1>1, <1>2, <1>3, <1>4, <1>5, <1>6, <1>7, <1>8, <1>9, <1>10, <1>11,
            <1>12, <1>13, <1>14, <1>15, <1>16, <1>17 DEF Next, Step

\* Which thread uses which connection.
LEMMA UseStep == Inv /\ [Next]_vars => UseInv'
<1>. SUFFICES ASSUME Inv, [Next]_vars PROVE UseInv'
  OBVIOUS
<1>. USE ConstantsAssumption, NoFd
         DEF Inv, TypeOK, Conns, GoTo, Return, mutVars, threadVars, UseInv, Sending, Receiving
<1>1. ASSUME NEW t \in Threads, Socket(t) PROVE UseInv'
  BY <1>1 DEF Socket, IsLowest, FreeFds, Unused
<1>2. ASSUME NEW t \in Threads, ConnectSucceeds(t) PROVE UseInv'
  BY <1>2 DEF ConnectSucceeds
<1>3. ASSUME NEW t \in Threads, ConnectFails(t) PROVE UseInv'
  BY <1>3 DEF ConnectFails
<1>4. ASSUME NEW t \in Threads, Accept(t) PROVE UseInv'
  BY <1>4 DEF Accept, IsLowest, FreeFds
<1>5. ASSUME NEW t \in Threads, NEW c \in Conns, LockSend(t, c) PROVE UseInv'
  BY <1>5 DEF LockSend
<1>6. ASSUME NEW t \in Threads, GetSend(t) PROVE UseInv'
  BY <1>6 DEF GetSend, ReadSockfd
<1>7. ASSUME NEW t \in Threads, Send(t) PROVE UseInv'
  BY <1>7 DEF Send
<1>8. ASSUME NEW t \in Threads, LockRecv(t) PROVE UseInv'
  BY <1>8 DEF LockRecv
<1>9. ASSUME NEW t \in Threads, GetRecv(t) PROVE UseInv'
  BY <1>9 DEF GetRecv, ReadSockfd
<1>10. ASSUME NEW t \in Threads, RecvSucceeds(t) PROVE UseInv'
  BY <1>10 DEF RecvSucceeds
<1>11. ASSUME NEW t \in Threads, RecvFails(t) PROVE UseInv'
  BY <1>11 DEF RecvFails
<1>12. ASSUME NEW t \in Threads, Close(t) PROVE UseInv'
  BY <1>12 DEF Close
<1>13. ASSUME NEW t \in Threads, Clear(t) PROVE UseInv'
  BY <1>13 DEF Clear, AfterFailure
<1>14. CASE AcceptFails
  BY <1>14 DEF AcceptFails
<1>15. ASSUME NEW c \in Conns, Disconnect(c) PROVE UseInv'
  BY <1>15 DEF Disconnect, Unused
<1>16. ASSUME NEW c \in Conns, LinkBreaks(c) PROVE UseInv'
  BY <1>16 DEF LinkBreaks
<1>17. CASE UNCHANGED vars
  BY <1>17 DEF vars
<1>. QED BY <1>1, <1>2, <1>3, <1>4, <1>5, <1>6, <1>7, <1>8, <1>9, <1>10, <1>11,
            <1>12, <1>13, <1>14, <1>15, <1>16, <1>17 DEF Next, Step

\* tcp_connect.
LEMMA ConnectStep == Inv /\ [Next]_vars => ConnectInv'
<1>. SUFFICES ASSUME Inv, [Next]_vars PROVE ConnectInv'
  OBVIOUS
<1>. USE ConstantsAssumption, NoFd
         DEF Inv, TypeOK, Conns, GoTo, Return, mutVars, threadVars, UseInv, ConnectInv, DescriptorsOwned
<1>1. ASSUME NEW t \in Threads, Socket(t) PROVE ConnectInv'
  BY <1>1 DEF Socket, IsLowest, FreeFds, Unused
<1>2. ASSUME NEW t \in Threads, ConnectSucceeds(t) PROVE ConnectInv'
  BY <1>2 DEF ConnectSucceeds
<1>3. ASSUME NEW t \in Threads, ConnectFails(t) PROVE ConnectInv'
  BY <1>3 DEF ConnectFails
<1>4. ASSUME NEW t \in Threads, Accept(t) PROVE ConnectInv'
  BY <1>4 DEF Accept, IsLowest, FreeFds
<1>5. ASSUME NEW t \in Threads, NEW c \in Conns, LockSend(t, c) PROVE ConnectInv'
  BY <1>5 DEF LockSend
<1>6. ASSUME NEW t \in Threads, GetSend(t) PROVE ConnectInv'
  BY <1>6 DEF GetSend, ReadSockfd
<1>7. ASSUME NEW t \in Threads, Send(t) PROVE ConnectInv'
  BY <1>7 DEF Send
<1>8. ASSUME NEW t \in Threads, LockRecv(t) PROVE ConnectInv'
  BY <1>8 DEF LockRecv
<1>9. ASSUME NEW t \in Threads, GetRecv(t) PROVE ConnectInv'
  BY <1>9 DEF GetRecv, ReadSockfd
<1>10. ASSUME NEW t \in Threads, RecvSucceeds(t) PROVE ConnectInv'
  BY <1>10 DEF RecvSucceeds
<1>11. ASSUME NEW t \in Threads, RecvFails(t) PROVE ConnectInv'
  BY <1>11 DEF RecvFails
<1>12. ASSUME NEW t \in Threads, Close(t) PROVE ConnectInv'
  BY <1>12 DEF Close
<1>13. ASSUME NEW t \in Threads, Clear(t) PROVE ConnectInv'
  BY <1>13 DEF Clear, AfterFailure
<1>14. CASE AcceptFails
  BY <1>14 DEF AcceptFails
<1>15. ASSUME NEW c \in Conns, Disconnect(c) PROVE ConnectInv'
  BY <1>15 DEF Disconnect, Unused
<1>16. ASSUME NEW c \in Conns, LinkBreaks(c) PROVE ConnectInv'
  BY <1>16 DEF LinkBreaks
<1>17. CASE UNCHANGED vars
  BY <1>17 DEF vars
<1>. QED BY <1>1, <1>2, <1>3, <1>4, <1>5, <1>6, <1>7, <1>8, <1>9, <1>10, <1>11,
            <1>12, <1>13, <1>14, <1>15, <1>16, <1>17 DEF Next, Step

\* What threads have read.
LEMMA LocStep == Inv /\ [Next]_vars => LocInv'
<1>. SUFFICES ASSUME Inv, [Next]_vars PROVE LocInv'
  OBVIOUS
<1>. USE ConstantsAssumption, NoFd
         DEF Inv, TypeOK, Conns, GoTo, Return, mutVars, threadVars, UseInv, ConnectInv, LocInv, Sending, Receiving
<1>1. ASSUME NEW t \in Threads, Socket(t) PROVE LocInv'
  BY <1>1 DEF Socket, IsLowest, FreeFds, Unused
<1>2. ASSUME NEW t \in Threads, ConnectSucceeds(t) PROVE LocInv'
  BY <1>2 DEF ConnectSucceeds
<1>3. ASSUME NEW t \in Threads, ConnectFails(t) PROVE LocInv'
  BY <1>3 DEF ConnectFails
<1>4. ASSUME NEW t \in Threads, Accept(t) PROVE LocInv'
  BY <1>4 DEF Accept, IsLowest, FreeFds
<1>5. ASSUME NEW t \in Threads, NEW c \in Conns, LockSend(t, c) PROVE LocInv'
  BY <1>5 DEF LockSend
<1>6. ASSUME NEW t \in Threads, GetSend(t) PROVE LocInv'
  BY <1>6 DEF GetSend, ReadSockfd
<1>7. ASSUME NEW t \in Threads, Send(t) PROVE LocInv'
  BY <1>7 DEF Send
<1>8. ASSUME NEW t \in Threads, LockRecv(t) PROVE LocInv'
  BY <1>8 DEF LockRecv
<1>9. ASSUME NEW t \in Threads, GetRecv(t) PROVE LocInv'
  BY <1>9 DEF GetRecv, ReadSockfd
<1>10. ASSUME NEW t \in Threads, RecvSucceeds(t) PROVE LocInv'
  BY <1>10 DEF RecvSucceeds
<1>11. ASSUME NEW t \in Threads, RecvFails(t) PROVE LocInv'
  BY <1>11 DEF RecvFails
<1>12. ASSUME NEW t \in Threads, Close(t) PROVE LocInv'
  BY <1>12 DEF Close
<1>13. ASSUME NEW t \in Threads, Clear(t) PROVE LocInv'
  BY <1>13 DEF Clear, AfterFailure
<1>14. CASE AcceptFails
  BY <1>14 DEF AcceptFails
<1>15. ASSUME NEW c \in Conns, Disconnect(c) PROVE LocInv'
  BY <1>15 DEF Disconnect, Unused
<1>16. ASSUME NEW c \in Conns, LinkBreaks(c) PROVE LocInv'
  BY <1>16 DEF LinkBreaks
<1>17. CASE UNCHANGED vars
  BY <1>17 DEF vars
<1>. QED BY <1>1, <1>2, <1>3, <1>4, <1>5, <1>6, <1>7, <1>8, <1>9, <1>10, <1>11,
            <1>12, <1>13, <1>14, <1>15, <1>16, <1>17 DEF Next, Step

\* The descriptors.
LEMMA OwnedStep == Inv /\ [Next]_vars => DescriptorsOwned'
<1>. SUFFICES ASSUME Inv, [Next]_vars PROVE DescriptorsOwned'
  OBVIOUS
<1>. USE ConstantsAssumption, NoFd
         DEF Inv, TypeOK, Conns, GoTo, Return, mutVars, threadVars, UseInv, ConnectInv, LocInv, DescriptorsOwned, Receiving
<1>1. ASSUME NEW t \in Threads, Socket(t) PROVE DescriptorsOwned'
  BY <1>1 DEF Socket, IsLowest, FreeFds, Unused
<1>2. ASSUME NEW t \in Threads, ConnectSucceeds(t) PROVE DescriptorsOwned'
  BY <1>2 DEF ConnectSucceeds
<1>3. ASSUME NEW t \in Threads, ConnectFails(t) PROVE DescriptorsOwned'
  BY <1>3 DEF ConnectFails
<1>4. ASSUME NEW t \in Threads, Accept(t) PROVE DescriptorsOwned'
  BY <1>4 DEF Accept, IsLowest, FreeFds
<1>5. ASSUME NEW t \in Threads, NEW c \in Conns, LockSend(t, c) PROVE DescriptorsOwned'
  BY <1>5 DEF LockSend
<1>6. ASSUME NEW t \in Threads, GetSend(t) PROVE DescriptorsOwned'
  BY <1>6 DEF GetSend, ReadSockfd
<1>7. ASSUME NEW t \in Threads, Send(t) PROVE DescriptorsOwned'
  BY <1>7 DEF Send
<1>8. ASSUME NEW t \in Threads, LockRecv(t) PROVE DescriptorsOwned'
  BY <1>8 DEF LockRecv
<1>9. ASSUME NEW t \in Threads, GetRecv(t) PROVE DescriptorsOwned'
  BY <1>9 DEF GetRecv, ReadSockfd
<1>10. ASSUME NEW t \in Threads, RecvSucceeds(t) PROVE DescriptorsOwned'
  BY <1>10 DEF RecvSucceeds
<1>11. ASSUME NEW t \in Threads, RecvFails(t) PROVE DescriptorsOwned'
  BY <1>11 DEF RecvFails
<1>12. ASSUME NEW t \in Threads, Close(t) PROVE DescriptorsOwned'
  BY <1>12 DEF Close
<1>13. ASSUME NEW t \in Threads, Clear(t) PROVE DescriptorsOwned'
  BY <1>13 DEF Clear, AfterFailure
<1>14. CASE AcceptFails
  BY <1>14 DEF AcceptFails
<1>15. ASSUME NEW c \in Conns, Disconnect(c) PROVE DescriptorsOwned'
  BY <1>15 DEF Disconnect, Unused
<1>16. ASSUME NEW c \in Conns, LinkBreaks(c) PROVE DescriptorsOwned'
  BY <1>16 DEF LinkBreaks
<1>17. CASE UNCHANGED vars
  BY <1>17 DEF vars
<1>. QED BY <1>1, <1>2, <1>3, <1>4, <1>5, <1>6, <1>7, <1>8, <1>9, <1>10, <1>11,
            <1>12, <1>13, <1>14, <1>15, <1>16, <1>17 DEF Next, Step

-----------------------------------------------------------------------------
\* Inv is an invariant.
THEOREM Invariance == Spec => []Inv
<1>1. Inv /\ [Next]_vars => Inv'
  BY TypeStep, UseStep, ConnectStep, LocStep, OwnedStep DEF Inv
<1>. QED BY <1>1, InitInv, PTL DEF Spec

\* Every variable of the sockets layer keeps its type, for any threads and
\* descriptors.
THEOREM TypeCorrectness == Spec => []TypeOK
<1>1. Inv => TypeOK
  BY DEF Inv
<1>. QED BY <1>1, Invariance, PTL

\* dic_conn_recv, tcp_connect and dic_conn_disconnect neither leak a
\* descriptor nor close one that is not theirs, for any number of threads.
THEOREM NoLeakNoDoubleClose == Spec => []DescriptorsOwned
<1>1. Inv => DescriptorsOwned
  BY DEF Inv
<1>. QED BY <1>1, Invariance, PTL

\* dic_conn_send reaches the peer of its own connection, except in a client
\* after a failed receive on the same connection; in a server always.
THEOREM SendsToOwnPeer == Spec => []SentToOwnPeer
<1>1. Inv => SentToOwnPeer
  <2>. SUFFICES ASSUME Inv, NEW t \in Threads,
                       pc[t] = "send", loc[t] # -1, table[loc[t]] # on[t]
                PROVE  /\ ~server
                       /\ \/ sockfd[on[t]] = -1
                          \/ \E u \in Threads : pc[u] = "clear" /\ on[u] = on[t]
    BY DEF SentToOwnPeer
  <2>1. on[t] \in Conns
    BY DEF Inv, TypeOK, UseInv
  <2>2. CASE ~server /\ sockfd[on[t]] = -1
    BY <2>2
  <2>3. CASE loc[t] = sockfd[on[t]]
    <3>1. PICK u \in Threads : pc[u] = "clear" /\ on[u] = on[t]
      BY <2>1, <2>3 DEF Inv, DescriptorsOwned
    <3>2. ~server
      BY <2>1, <3>1, ConstantsAssumption DEF Inv, UseInv, Conns
    <3>. QED BY <3>1, <3>2
  <2>. QED BY <2>2, <2>3 DEF Inv, LocInv
<1>. QED BY <1>1, Invariance, PTL
=============================================================================
