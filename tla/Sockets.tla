------------------------------ MODULE Sockets ------------------------------
(***************************************************************************)
(* The sockets layer and the descriptor table of one process.  The kernel  *)
(* hands out the lowest free descriptor, so a descriptor that one thread   *)
(* closes stands for something else as soon as another thread opens a      *)
(* connection, while conn->sockfd is read and used in separate steps.      *)
(*                                                                         *)
(* In a server each connection is accepted and belongs to one thread that  *)
(* receives and answers.  In a client the connections are made by          *)
(* tcp_connect, and all threads use them through dic_atomic_send_recv,     *)
(* under send_mut and recv_mut.  A connection has the name of the thread   *)
(* that opens it; that thread connects, reconnects and disconnects only    *)
(* while nobody is using the connection.  SIGPIPE is the subject of other  *)
(* modules.                                                                *)
(***************************************************************************)
EXTENDS Integers

CONSTANTS
  Threads,
  Fds,       \* the descriptors that the process may have
  NULL

Conns == Threads

ASSUME ConstantsAssumption ==
  /\ Fds \subseteq Nat
  /\ NULL \notin Threads

VARIABLES
  server,    \* is the process a server, or a client?
  up,        \* FALSE: the process has used a null pointer
  table,     \* table[f]: the connection whose socket f is, NULL if f is free
  link,      \* link[c]: is the socket of c connected, and the peer there?
  sockfd,    \* sockfd[c]: conn->sockfd
  pc,        \* pc[t]: where thread t is
  on,        \* on[t]: the connection that t is using
  loc,       \* loc[t]: the local variable sockfd of the function t is in
  sendMut,
  recvMut

threadVars == <<pc, on, loc>>
mutVars == <<sendMut, recvMut>>
vars == <<server, up, table, link, sockfd, threadVars, mutVars>>

TypeOK ==
  /\ server \in BOOLEAN
  /\ up \in BOOLEAN
  /\ table \in [Fds -> Conns \cup {NULL}]
  /\ link \in [Conns -> BOOLEAN]
  /\ sockfd \in [Conns -> Fds \cup {-1}]
  /\ pc \in [Threads -> {"idle", "connect", "get_send", "send", "lock_recv",
                         "get_recv", "recv", "close", "clear"}]
  /\ on \in [Threads -> Conns \cup {NULL}]
  /\ loc \in [Threads -> Fds \cup {-1}]
  /\ sendMut \in [Conns -> Threads \cup {NULL}]
  /\ recvMut \in [Conns -> Threads \cup {NULL}]

Init ==
  /\ server \in BOOLEAN
  /\ up = TRUE
  /\ table = [f \in Fds |-> NULL]
  /\ link = [c \in Conns |-> FALSE]
  /\ sockfd = [c \in Conns |-> -1]
  /\ pc = [t \in Threads |-> "idle"]
  /\ on = [t \in Threads |-> NULL]
  /\ loc = [t \in Threads |-> -1]
  /\ sendMut = [c \in Conns |-> NULL]
  /\ recvMut = [c \in Conns |-> NULL]

GoTo(t, from, to) ==
  /\ up
  /\ pc[t] = from
  /\ pc' = [pc EXCEPT ![t] = to]

\* The thread is back in its caller, and its local variables are gone.
Return(t) ==
  /\ on' = [on EXCEPT ![t] = NULL]
  /\ loc' = [loc EXCEPT ![t] = -1]

FreeFds == {f \in Fds : table[f] = NULL}
IsLowest(f) == f \in FreeFds /\ \A g \in FreeFds : f <= g
Unused(c) == \A u \in Threads : on[u] # c

-----------------------------------------------------------------------------
(***************************************************************************)
(* Opening and closing.                                                    *)
(***************************************************************************)
\* dic_conn_new or dic_conn_tryconnect: tcp_connect creates a socket.
Socket(t) ==
  /\ ~server
  /\ sockfd[t] = -1
  /\ Unused(t)
  /\ GoTo(t, "idle", "connect")
  /\ \E f \in Fds :
       /\ IsLowest(f)
       /\ table' = [table EXCEPT ![f] = t]
       /\ loc' = [loc EXCEPT ![t] = f]
  /\ on' = [on EXCEPT ![t] = t]
  /\ UNCHANGED <<server, up, link, sockfd, mutVars>>

ConnectSucceeds(t) ==
  /\ GoTo(t, "connect", "idle")
  /\ sockfd' = [sockfd EXCEPT ![t] = loc[t]]
  /\ link' = [link EXCEPT ![t] = TRUE]
  /\ Return(t)
  /\ UNCHANGED <<server, up, table, mutVars>>

\* Mutant: the socket is not closed.
ConnectFailsLeaks(t) ==
  /\ GoTo(t, "connect", "idle")
  /\ Return(t)
  /\ UNCHANGED <<server, up, table, link, sockfd, mutVars>>

\* The socket is closed again; sockfd stays -1.
ConnectFails(t) ==
  /\ GoTo(t, "connect", "idle")
  /\ table' = [table EXCEPT ![loc[t]] = NULL]
  /\ Return(t)
  /\ UNCHANGED <<server, up, link, sockfd, mutVars>>

\* dic_conn_accept, and the loop of the thread that is given the connection.
Accept(t) ==
  /\ server
  /\ GoTo(t, "idle", "get_recv")
  /\ \E f \in Fds :
       /\ IsLowest(f)
       /\ table' = [table EXCEPT ![f] = t]
       /\ sockfd' = [sockfd EXCEPT ![t] = f]
  /\ link' = [link EXCEPT ![t] = TRUE]
  /\ on' = [on EXCEPT ![t] = t]
  /\ UNCHANGED <<server, up, loc, mutVars>>

\* accept fails for want of a descriptor; dic_conn_accept returns NULL, and
\* its callers use it.
AcceptFails ==
  /\ server
  /\ up
  /\ FreeFds = {}
  /\ up' = FALSE
  /\ UNCHANGED <<server, table, link, sockfd, threadVars, mutVars>>

\* dic_conn_disconnect
Disconnect(c) ==
  /\ up
  /\ sockfd[c] # -1
  /\ Unused(c)
  /\ table' = [table EXCEPT ![sockfd[c]] = NULL]
  /\ sockfd' = [sockfd EXCEPT ![c] = -1]
  /\ link' = [link EXCEPT ![c] = FALSE]
  /\ UNCHANGED <<server, up, threadVars, mutVars>>

\* The peer goes away.
LinkBreaks(c) ==
  /\ up
  /\ link[c]
  /\ link' = [link EXCEPT ![c] = FALSE]
  /\ UNCHANGED <<server, up, table, sockfd, threadVars, mutVars>>

-----------------------------------------------------------------------------
(***************************************************************************)
(* Sending and receiving.                                                  *)
(***************************************************************************)
\* dic_atomic_send_recv: lock send_mut.
LockSend(t, c) ==
  /\ ~server
  /\ pc[c] # "connect"
  /\ GoTo(t, "idle", "get_send")
  /\ sendMut[c] = NULL
  /\ sendMut' = [sendMut EXCEPT ![c] = t]
  /\ on' = [on EXCEPT ![t] = c]
  /\ UNCHANGED <<server, up, table, link, sockfd, loc, recvMut>>

\* dic_conn_send and dic_conn_recv begin by reading conn->sockfd.
ReadSockfd(t, from, to) ==
  /\ GoTo(t, from, to)
  /\ loc' = [loc EXCEPT ![t] = sockfd[on[t]]]
  /\ UNCHANGED <<server, up, table, link, sockfd, on, mutVars>>

GetSend(t) == ReadSockfd(t, "get_send", "send")
GetRecv(t) == ReadSockfd(t, "get_recv", "recv")

\* send() reaches the peer of whatever the descriptor stands for by now.  In
\* a server the thread goes on to receive the next request.
Send(t) ==
  /\ GoTo(t, "send", IF server THEN "get_recv" ELSE "lock_recv")
  /\ UNCHANGED <<server, up, table, link, sockfd, on, loc, mutVars>>

\* dic_atomic_send_recv: lock recv_mut, unlock send_mut.
LockRecv(t) ==
  /\ GoTo(t, "lock_recv", "get_recv")
  /\ recvMut[on[t]] = NULL
  /\ recvMut' = [recvMut EXCEPT ![on[t]] = t]
  /\ sendMut' = [sendMut EXCEPT ![on[t]] = NULL]
  /\ UNCHANGED <<server, up, table, link, sockfd, on, loc>>

\* recv() succeeds: a client's call returns, a server's thread answers.
RecvSucceeds(t) ==
  /\ pc[t] = "recv" /\ loc[t] # -1 /\ link[on[t]]
  /\ IF server
     THEN /\ GoTo(t, "recv", "get_send")
          /\ UNCHANGED <<on, loc, recvMut>>
     ELSE /\ GoTo(t, "recv", "idle")
          /\ recvMut' = [recvMut EXCEPT ![on[t]] = NULL]
          /\ Return(t)
  /\ UNCHANGED <<server, up, table, link, sockfd, sendMut>>

\* recv() fails.  The descriptor is closed, then conn->sockfd set to -1.
RecvFails(t) ==
  /\ GoTo(t, "recv", "close")
  /\ loc[t] = -1 \/ ~link[on[t]]
  /\ UNCHANGED <<server, up, table, link, sockfd, on, loc, mutVars>>

Close(t) ==
  /\ GoTo(t, "close", "clear")
  /\ table' = [f \in Fds |-> IF f = loc[t] THEN NULL ELSE table[f]]
  /\ UNCHANGED <<server, up, link, sockfd, on, loc, mutVars>>

\* The function returns 1: a client's call is over, a server's thread ends,
\* or goes on to answer (handle_push_info does not look at the result).
AfterFailure(t) ==
  \/ /\ GoTo(t, "clear", "idle")
     /\ Return(t)
  \/ /\ server
     /\ GoTo(t, "clear", "get_send")
     /\ UNCHANGED <<on, loc>>

\* Mutant: conn->sockfd keeps the number of the closed descriptor.
ClearForgets(t) ==
  /\ AfterFailure(t)
  /\ recvMut' = [recvMut EXCEPT ![on[t]] = NULL]
  /\ UNCHANGED <<server, up, table, link, sockfd, sendMut>>

\* Mutant: conn->sockfd is set to 0.
ClearToZero(t) ==
  /\ AfterFailure(t)
  /\ sockfd' = [sockfd EXCEPT ![on[t]] = 0]
  /\ recvMut' = [recvMut EXCEPT ![on[t]] = NULL]
  /\ UNCHANGED <<server, up, table, link, sendMut>>

Clear(t) ==
  /\ AfterFailure(t)
  /\ sockfd' = [sockfd EXCEPT ![on[t]] = -1]
  /\ recvMut' = [recvMut EXCEPT ![on[t]] = NULL]
  /\ UNCHANGED <<server, up, table, link, sendMut>>

-----------------------------------------------------------------------------
Step(t) ==
  \/ Socket(t) \/ ConnectSucceeds(t) \/ ConnectFails(t) \/ Accept(t)
  \/ \E c \in Conns : LockSend(t, c)
  \/ GetSend(t) \/ Send(t) \/ LockRecv(t) \/ GetRecv(t)
  \/ RecvSucceeds(t) \/ RecvFails(t) \/ Close(t) \/ Clear(t)

Next ==
  \/ \E t \in Threads : Step(t)
  \/ AcceptFails
  \/ \E c \in Conns : Disconnect(c) \/ LinkBreaks(c)

Spec == Init /\ [][Next]_vars

-----------------------------------------------------------------------------
\* No descriptor leaks and none is closed twice: what conn->sockfd names is
\* the connection's own socket, except between close() and the assignment of
\* -1; every open descriptor is named by its connection or by the tcp_connect
\* that is making it; and a thread that is about to receive, or to close
\* after a failed receive, has its own connection's descriptor, although the
\* kernel reuses numbers at once (dic_conn_recv, tcp_connect).
DescriptorsOwned ==
  /\ \A c \in Conns : sockfd[c] # -1 =>
       \/ table[sockfd[c]] = c
       \/ \E t \in Threads : pc[t] = "clear" /\ on[t] = c /\ loc[t] = sockfd[c]
  /\ \A f \in Fds : table[f] # NULL =>
       \/ sockfd[table[f]] = f
       \/ pc[table[f]] = "connect" /\ loc[table[f]] = f
  /\ \A t \in Threads :
       pc[t] \in {"recv", "close"} /\ loc[t] # -1 => table[loc[t]] = on[t]

\* A message goes to the peer of its own connection, with one exception: in a
\* client, when a receive of another thread has failed on the connection
\* between reading conn->sockfd and send(), and the descriptor has been
\* reused.  In a server it has none (dic_conn_send, dic_conn_recv).
SentToOwnPeer ==
  \A t \in Threads :
    pc[t] = "send" /\ loc[t] # -1 /\ table[loc[t]] # on[t] =>
      /\ ~server
      /\ \/ sockfd[on[t]] = -1
         \/ \E u \in Threads : pc[u] = "clear" /\ on[u] = on[t]
=============================================================================
