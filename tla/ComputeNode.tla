---------------------------- MODULE ComputeNode ----------------------------
(***************************************************************************)
(* The compute node and the operations that its clients perform on it.     *)
(* listen_loop serves one client at a time, one request at a time; the     *)
(* next clients wait in the backlog of the listening socket.  What a       *)
(* client creates on the node (memory, loaded objects, threads) belongs to *)
(* the process and outlives the client: nothing is released when a client  *)
(* leaves, and its threads run on while the next client is served.         *)
(*                                                                         *)
(* A client has at most one request under way (AtomicSendRecv is about the *)
(* threads that share a connection).  The answer reaches the client in the *)
(* step of the handler, unless the client has left by then.  Clients keep  *)
(* to the rules of any C program: they use their own memory, handles and   *)
(* threads only, leave memory alone while one of their threads works on    *)
(* it, unload an object when none of their threads runs its code, and join *)
(* a thread once.  They do not use a null pointer they were given.         *)
(*                                                                         *)
(* A memory block holds a token: "in" is what a client copies to the node, *)
(* "out" what a remote function computes from "in", "junk" anything else.  *)
(* A shared object on disk is a version; as loaded it is the version that  *)
(* was mapped, or "torn" once the file has been overwritten under it.      *)
(***************************************************************************)
EXTENDS Naturals, Sequences, FiniteSets

CONSTANTS
  Clients,    \* the client processes
  Blocks,     \* the memory that malloc on the node can hand out
  Tids,       \* the threads that the node can have, until they are joined
  Objects,    \* the names of shared objects
  Versions,   \* what can be uploaded under a name
  MaxRefs,    \* how often an object may be loaded without being unloaded
  NULL

ASSUME ConstantsAssumption ==
  /\ MaxRefs \in Nat
  /\ NULL \notin Clients \cup Blocks \cup Tids \cup Objects \cup Versions
  /\ {"torn", "handle", "none"} \cap Versions = {}
  /\ "torn" # NULL /\ "handle" # NULL /\ "none" # NULL

VARIABLES
  \* the connections
  conn,       \* conn[k]: what client k is doing
  req,        \* req[k]: the request of k that the node has yet to handle
  backlog,    \* the connections that the node has yet to accept
  \* the node process
  nodePc,     \* where listen_loop is
  serving,    \* the client whose connection was accepted last
  alloc,      \* the blocks that are allocated
  mem,        \* mem[b]: what block b holds
  file,       \* file[o]: user_objects/o.so, NULL if there is none
  image,      \* image[o]: o as dlopen has mapped it, NULL if it has not
  refs,       \* refs[o]: how many dlopen calls no dlclose has undone
  thread,     \* thread[t]: "none", "running", "done"
  arg,        \* arg[t]: the block that thread t works on
  code,       \* code[t]: the object whose code thread t runs
  \* what the clients know
  own,        \* own[b]: the client that has a pointer to block b
  known,      \* known[b]: what that client takes b to hold, or "unknown"
  loads,      \* loads[k][o]: the handles of o that client k holds
  funcs,      \* funcs[k]: the objects that k has a function pointer into
  joiner,     \* joiner[t]: the client that may join t
  verdict     \* verdict[k]: what dic_so_verify has just returned

connVars == <<conn, req, backlog>>
loopVars == <<nodePc, serving>>
memVars == <<alloc, mem, own, known>>
objVars == <<file, image, refs, loads, funcs>>
threadVars == <<thread, arg, code, joiner>>
vars == <<connVars, loopVars, memVars, objVars, threadVars, verdict>>

Sizes == {0, 1}

Request ==
  [op : {"malloc"}, size : Sizes]
    \cup [op : {"realloc"}, ptr : Blocks \cup {NULL}, size : Sizes]
    \cup [op : {"free"}, ptr : Blocks \cup {NULL}]
    \cup [op : {"memcpy_c2n", "memcpy_n2c"}, ptr : Blocks]
    \cup [op : {"so_load"}, obj : Objects, verify : BOOLEAN]
    \cup [op : {"so_unload", "func_load"}, obj : Objects]
    \cup [op : {"so_upload"}, obj : Objects, version : Versions]
    \cup [op : {"run"}, obj : Objects, ptr : Blocks]
    \cup [op : {"join"}, tid : Tids]

NoRequest == [op |-> "none"]

TypeOK ==
  /\ conn \in [Clients -> {"off", "waiting", "served", "gone"}]
  /\ req \in [Clients -> Request \cup {NoRequest}]
  /\ backlog \in Seq(Clients)
  /\ nodePc \in {"accept", "serve", "destroy", "hung", "dead"}
  /\ serving \in Clients \cup {NULL}
  /\ alloc \in SUBSET Blocks
  /\ mem \in [Blocks -> {"junk", "in", "out"}]
  /\ file \in [Objects -> Versions \cup {NULL}]
  /\ image \in [Objects -> Versions \cup {"torn", NULL}]
  /\ refs \in [Objects -> Nat]
  /\ thread \in [Tids -> {"none", "running", "done"}]
  /\ arg \in [Tids -> Blocks \cup {NULL}]
  /\ code \in [Tids -> Objects \cup {NULL}]
  /\ own \in [Blocks -> Clients \cup {NULL}]
  /\ known \in [Blocks -> {"unknown", "in", "out"}]
  /\ loads \in [Clients -> [Objects -> Nat]]
  /\ funcs \in [Clients -> SUBSET Objects]
  /\ joiner \in [Tids -> Clients \cup {NULL}]
  /\ verdict \in [Clients -> Versions \cup {"none", "handle", NULL}]

Init ==
  /\ conn = [k \in Clients |-> "off"]
  /\ req = [k \in Clients |-> NoRequest]
  /\ backlog = << >>
  /\ nodePc = "accept"
  /\ serving = NULL
  /\ alloc = {}
  /\ mem = [b \in Blocks |-> "junk"]
  /\ file = [o \in Objects |-> NULL]
  /\ image = [o \in Objects |-> NULL]
  /\ refs = [o \in Objects |-> 0]
  /\ thread = [t \in Tids |-> "none"]
  /\ arg = [t \in Tids |-> NULL]
  /\ code = [t \in Tids |-> NULL]
  /\ own = [b \in Blocks |-> NULL]
  /\ known = [b \in Blocks |-> "unknown"]
  /\ loads = [k \in Clients |-> [o \in Objects |-> 0]]
  /\ funcs = [k \in Clients |-> {}]
  /\ joiner = [t \in Tids |-> NULL]
  /\ verdict = [k \in Clients |-> "none"]

Up == nodePc \notin {"hung", "dead"}

-----------------------------------------------------------------------------
(***************************************************************************)
(* The clients.                                                            *)
(***************************************************************************)
\* dic_node_connect: the kernel completes the connection before the node
\* accepts it, and buffers a request as well.
Connect(k) ==
  /\ Up
  /\ conn[k] = "off"
  /\ conn' = [conn EXCEPT ![k] = "waiting"]
  /\ backlog' = Append(backlog, k)
  /\ UNCHANGED <<req, loopVars, memVars, objVars, threadVars, verdict>>

\* An operation of diconlib sends its request.
Ask(k, r) ==
  /\ Up
  /\ conn[k] \in {"waiting", "served"}
  /\ req[k] = NoRequest
  /\ req' = [req EXCEPT ![k] = r]
  /\ verdict' = [verdict EXCEPT ![k] = "none"]
  /\ UNCHANGED <<conn, backlog, loopVars, memVars, objVars, threadVars>>

\* The blocks and the objects that no unjoined thread of k is using.
Usable(k) ==
  {b \in Blocks : own[b] = k /\ ~\E t \in Tids : joiner[t] = k /\ arg[t] = b}
Unloadable(k) ==
  {o \in Objects : loads[k][o] > 0
                     /\ ~\E t \in Tids : joiner[t] = k /\ code[t] = o}

RMalloc(k) == \E n \in Sizes : Ask(k, [op |-> "malloc", size |-> n])

RRealloc(k) ==
  \E b \in Usable(k) \cup {NULL}, n \in Sizes :
    Ask(k, [op |-> "realloc", ptr |-> b, size |-> n])

RFree(k) ==
  \E b \in Usable(k) \cup {NULL} : Ask(k, [op |-> "free", ptr |-> b])

\* dic_memcpy, in its two modes.
Memcpy(k) ==
  \E b \in Usable(k), dir \in {"memcpy_c2n", "memcpy_n2c"} :
    Ask(k, [op |-> dir, ptr |-> b])

SoLoad(k) ==
  \E o \in Objects :
    /\ refs[o] < MaxRefs
    /\ Ask(k, [op |-> "so_load", obj |-> o, verify |-> FALSE])

\* dic_so_verify sends what dic_so_load sends.
SoVerify(k) ==
  \E o \in Objects :
    /\ refs[o] < MaxRefs
    /\ Ask(k, [op |-> "so_load", obj |-> o, verify |-> TRUE])

SoUnload(k) ==
  \E o \in Unloadable(k) : Ask(k, [op |-> "so_unload", obj |-> o])

SoUpload(k) ==
  \E o \in Objects, v \in Versions :
    Ask(k, [op |-> "so_upload", obj |-> o, version |-> v])

FuncLoad(k) ==
  \E o \in Objects :
    loads[k][o] > 0 /\ Ask(k, [op |-> "func_load", obj |-> o])

RthreadRun(k) ==
  \E o \in funcs[k], b \in Usable(k) :
    /\ \E t \in Tids : thread[t] = "none"
    /\ Ask(k, [op |-> "run", obj |-> o, ptr |-> b])

RthreadJoin(k) ==
  \E t \in Tids : joiner[t] = k /\ Ask(k, [op |-> "join", tid |-> t])

\* The client ends, or drops the connection; a request that has not arrived
\* is lost.  Its memory, handles and threads on the node stay.
Leave(k) ==
  /\ Up
  /\ conn[k] \in {"waiting", "served"}
  /\ conn' = [conn EXCEPT ![k] = "gone"]
  /\ \E r \in {req[k], NoRequest} : req' = [req EXCEPT ![k] = r]
  /\ own' = [b \in Blocks |-> IF own[b] = k THEN NULL ELSE own[b]]
  /\ known' = [b \in Blocks |-> IF own[b] = k THEN "unknown" ELSE known[b]]
  /\ loads' = [loads EXCEPT ![k] = [o \in Objects |-> 0]]
  /\ funcs' = [funcs EXCEPT ![k] = {}]
  /\ joiner' = [t \in Tids |-> IF joiner[t] = k THEN NULL ELSE joiner[t]]
  /\ verdict' = [verdict EXCEPT ![k] = "none"]
  /\ UNCHANGED <<backlog, loopVars, alloc, mem, file, image, refs, thread,
                 arg, code>>

Client(k) ==
  \/ Connect(k) \/ Leave(k)
  \/ RMalloc(k) \/ RRealloc(k) \/ RFree(k) \/ Memcpy(k)
  \/ SoLoad(k) \/ SoVerify(k) \/ SoUnload(k) \/ SoUpload(k) \/ FuncLoad(k)
  \/ RthreadRun(k) \/ RthreadJoin(k)

-----------------------------------------------------------------------------
(***************************************************************************)
(* listen_loop and client_handling_loop.                                   *)
(***************************************************************************)
Accept ==
  /\ nodePc = "accept"
  /\ backlog # << >>
  /\ serving' = Head(backlog)
  /\ backlog' = Tail(backlog)
  /\ conn' = [conn EXCEPT ![Head(backlog)] =
                IF @ = "waiting" THEN "served" ELSE @]
  /\ nodePc' = "serve"
  /\ UNCHANGED <<req, memVars, objVars, threadVars, verdict>>

\* Mutant: client_handling_loop ignores that the client has left.
ClientGoneUnnoticed ==
  /\ nodePc = "serve"
  /\ conn[serving] = "gone"
  /\ req[serving] = NoRequest
  /\ UNCHANGED vars

\* Mutant: the memory of a client is released when it leaves.
ClientGoneReleases ==
  /\ nodePc = "serve"
  /\ conn[serving] = "gone"
  /\ req[serving] = NoRequest
  /\ nodePc' = "destroy"
  /\ alloc' = {b \in alloc : own[b] # NULL}
  /\ UNCHANGED <<connVars, serving, mem, own, known, objVars, threadVars,
                 verdict>>

\* dic_conn_recv fails: the client has left and nothing is left to read.
ClientGone ==
  /\ nodePc = "serve"
  /\ conn[serving] = "gone"
  /\ req[serving] = NoRequest
  /\ nodePc' = "destroy"
  /\ UNCHANGED <<connVars, serving, memVars, objVars, threadVars, verdict>>

\* dic_conn_destroy.  dic_conn_accept has not initialised queue_cond, and
\* pthread_cond_destroy waits if the memory happens to look like a condition
\* variable in use.
DestroyConn ==
  /\ nodePc = "destroy"
  /\ nodePc' \in {"accept", "hung"}
  /\ conn' = [conn EXCEPT ![serving] = "off"]
  /\ serving' = NULL
  /\ UNCHANGED <<req, backlog, memVars, objVars, threadVars, verdict>>

(***************************************************************************)
(* dic_node_recv_send.  Handles(op) picks up a request, and answers it: if *)
(* the client has left, SIGPIPE may kill the node.                         *)
(***************************************************************************)
Handles(op) ==
  /\ nodePc = "serve"
  /\ req[serving].op = op
  /\ req' = [req EXCEPT ![serving] = NoRequest]
  /\ nodePc' \in IF conn[serving] = "gone" THEN {"serve", "dead"} ELSE {"serve"}
  /\ UNCHANGED <<conn, backlog, serving>>

\* The value that a client learns, if it is still there.
Told(value, otherwise) == IF conn[serving] = "served" THEN value ELSE otherwise

\* malloc: a free block with arbitrary contents, or NULL if none is left.
GiveBlock ==
  \/ \E b \in Blocks \ alloc :
       /\ alloc' = alloc \cup {b}
       /\ own' = [own EXCEPT ![b] = Told(serving, NULL)]
       /\ UNCHANGED <<mem, known>>
  \/ /\ alloc = Blocks
     /\ UNCHANGED memVars

\* free: what is left in the block may be overwritten at once.
FreeBlock(b) ==
  /\ alloc' = alloc \ {b}
  /\ mem' = [mem EXCEPT ![b] = "junk"]
  /\ own' = [own EXCEPT ![b] = NULL]
  /\ known' = [known EXCEPT ![b] = "unknown"]

\* realloc of a block to a nonzero size: in place, or by moving it.
MoveBlock(b) ==
  \/ UNCHANGED memVars
  \/ \E n \in Blocks \ alloc :
       /\ alloc' = (alloc \ {b}) \cup {n}
       /\ mem' = [mem EXCEPT ![n] = mem[b], ![b] = "junk"]
       /\ own' = [own EXCEPT ![n] = own[b], ![b] = NULL]
       /\ known' = [known EXCEPT ![n] = known[b], ![b] = "unknown"]

HandleMalloc ==
  /\ Handles("malloc")
  /\ IF req[serving].size = 0 THEN UNCHANGED memVars ELSE GiveBlock
  /\ UNCHANGED <<objVars, threadVars, verdict>>

HandleRealloc ==
  /\ Handles("realloc")
  /\ LET r == req[serving]
     IN  CASE r.ptr = NULL -> GiveBlock
           [] r.ptr # NULL /\ r.size = 0 -> FreeBlock(r.ptr)
           [] r.ptr # NULL /\ r.size # 0 -> MoveBlock(r.ptr)
  /\ UNCHANGED <<objVars, threadVars, verdict>>

HandleFree ==
  /\ Handles("free")
  /\ IF req[serving].ptr = NULL THEN UNCHANGED memVars
                                ELSE FreeBlock(req[serving].ptr)
  /\ UNCHANGED <<objVars, threadVars, verdict>>

HandleMemcpyC2N ==
  /\ Handles("memcpy_c2n")
  /\ LET b == req[serving].ptr
     IN  /\ mem' = [mem EXCEPT ![b] = "in"]
         /\ known' = [known EXCEPT ![b] = Told("in", @)]
  /\ UNCHANGED <<alloc, own, objVars, threadVars, verdict>>

\* The contents of a block go back to the client.
HandleMemcpyN2C ==
  /\ Handles("memcpy_n2c")
  /\ UNCHANGED <<memVars, objVars, threadVars, verdict>>

\* Mutant: a second dlopen of an object is not counted.
HandleSoLoadOnce ==
  /\ Handles("so_load")
  /\ \E opened \in BOOLEAN :
       LET o == req[serving].obj
           verify == req[serving].verify
       IN  /\ opened => file[o] # NULL
           /\ refs' = [refs EXCEPT ![o] = IF opened THEN 1 ELSE @]
           /\ image' = [image EXCEPT ![o] = IF opened /\ @ = NULL THEN file[o]
                                                                ELSE @]
           /\ loads' = [loads EXCEPT ![serving][o] =
                          IF opened /\ ~verify THEN Told(@ + 1, @) ELSE @]
           /\ verdict' = [verdict EXCEPT ![serving] =
                            IF ~verify THEN @
                            ELSE Told(IF opened THEN "handle" ELSE NULL, @)]
  /\ UNCHANGED <<file, funcs, memVars, threadVars>>

\* dlopen maps the file, or counts one more user of what is mapped already;
\* it fails if there is no file, or none that it can load.
\* A caller of dic_so_verify takes the handle for a checksum and drops it.
HandleSoLoad ==
  /\ Handles("so_load")
  /\ \E opened \in BOOLEAN :
       LET o == req[serving].obj
           verify == req[serving].verify
       IN  /\ opened => file[o] # NULL
           /\ refs' = [refs EXCEPT ![o] = IF opened THEN @ + 1 ELSE @]
           /\ image' = [image EXCEPT ![o] = IF opened /\ @ = NULL THEN file[o]
                                                                ELSE @]
           /\ loads' = [loads EXCEPT ![serving][o] =
                          IF opened /\ ~verify THEN Told(@ + 1, @) ELSE @]
           /\ verdict' = [verdict EXCEPT ![serving] =
                            IF ~verify THEN @
                            ELSE Told(IF opened THEN "handle" ELSE NULL, @)]
  /\ UNCHANGED <<file, funcs, memVars, threadVars>>

\* Mutant: an unload closes the object twice.
HandleSoUnloadTwice ==
  /\ Handles("so_unload")
  /\ LET o == req[serving].obj
     IN  /\ refs' = [refs EXCEPT ![o] = @ - 2]
         /\ image' = [image EXCEPT ![o] = NULL]
         /\ loads' = [loads EXCEPT ![serving][o] = 0]
         /\ funcs' = [funcs EXCEPT ![serving] = @ \ {o}]
  /\ UNCHANGED <<file, memVars, threadVars, verdict>>

\* dlclose: the last one unmaps the object.
HandleSoUnload ==
  /\ Handles("so_unload")
  /\ LET o == req[serving].obj
         left == Told(loads[serving][o] - 1, 0)
     IN  /\ refs' = [refs EXCEPT ![o] = @ - 1]
         /\ image' = [image EXCEPT ![o] = IF refs[o] = 1 THEN NULL ELSE @]
         /\ loads' = [loads EXCEPT ![serving][o] = left]
         /\ funcs' = [funcs EXCEPT ![serving] = IF left = 0 THEN @ \ {o}
                                                           ELSE @]
  /\ UNCHANGED <<file, memVars, threadVars, verdict>>

\* fopen truncates the file and fwrite fills it again, in place, under the
\* image that is mapped from it: even the same bytes tear that image.
HandleSoUpload ==
  /\ Handles("so_upload")
  /\ LET o == req[serving].obj
         v == req[serving].version
     IN  /\ file' = [file EXCEPT ![o] = v]
         /\ image' = [image EXCEPT ![o] = IF @ = NULL THEN NULL ELSE "torn"]
  /\ UNCHANGED <<refs, loads, funcs, memVars, threadVars, verdict>>

\* A handler kills the node, and nobody gets an answer: the upload uses the
\* NULL of a failed fopen, and the load writes its path three bytes behind
\* the end of the buffer, which free may find.
HandlerDies ==
  /\ nodePc = "serve"
  /\ req[serving].op \in {"so_upload", "so_load"}
  /\ nodePc' = "dead"
  /\ UNCHANGED <<connVars, serving, memVars, objVars, threadVars, verdict>>

\* dlsym: it may not find the symbol, which is sent without its final 0.
HandleFuncLoad ==
  /\ Handles("func_load")
  /\ \E found \in SUBSET {req[serving].obj} :
       funcs' = [funcs EXCEPT ![serving] = Told(@ \cup found, @)]
  /\ UNCHANGED <<file, image, refs, loads, memVars, threadVars, verdict>>

\* pthread_create.
HandleRun ==
  /\ Handles("run")
  /\ \E t \in Tids :
       /\ thread[t] = "none"
       /\ thread' = [thread EXCEPT ![t] = "running"]
       /\ arg' = [arg EXCEPT ![t] = req[serving].ptr]
       /\ code' = [code EXCEPT ![t] = req[serving].obj]
       /\ joiner' = [joiner EXCEPT ![t] = Told(serving, NULL)]
  /\ UNCHANGED <<memVars, objVars, verdict>>

\* pthread_join keeps the whole node waiting for the thread.  Then the client
\* takes its argument block to hold the result, if it had copied the input
\* there and the code has stayed what it was.
HandleJoin ==
  /\ Handles("join")
  /\ LET t == req[serving].tid
         b == arg[t]
         result == IF known[b] = "in" /\ image[code[t]] # "torn"
                   THEN "out" ELSE "unknown"
     IN  /\ thread[t] = "done"
         /\ thread' = [thread EXCEPT ![t] = "none"]
         /\ arg' = [arg EXCEPT ![t] = NULL]
         /\ code' = [code EXCEPT ![t] = NULL]
         /\ joiner' = [joiner EXCEPT ![t] = NULL]
         /\ known' = [known EXCEPT ![b] = Told(result, @)]
  /\ UNCHANGED <<alloc, mem, own, objVars, verdict>>

Node ==
  \/ Accept \/ ClientGone \/ DestroyConn
  \/ HandleMalloc \/ HandleRealloc \/ HandleFree
  \/ HandleMemcpyC2N \/ HandleMemcpyN2C
  \/ HandleSoLoad \/ HandleSoUnload
  \/ HandleSoUpload \/ HandlerDies \/ HandleFuncLoad
  \/ HandleRun \/ HandleJoin

-----------------------------------------------------------------------------
(***************************************************************************)
(* The remote functions (the code of the applications): each turns its     *)
(* argument block from input into result, at any moment while it runs.     *)
(***************************************************************************)
ThreadEnds(t) ==
  /\ nodePc # "dead"
  /\ thread[t] = "running"
  /\ thread' = [thread EXCEPT ![t] = "done"]
  /\ mem' = [mem EXCEPT ![arg[t]] =
               IF @ = "in" /\ image[code[t]] # "torn" THEN "out" ELSE "junk"]
  /\ UNCHANGED <<connVars, loopVars, alloc, own, known, objVars, arg, code,
                 joiner, verdict>>

\* Code whose file is or was overwritten under it faults: the node dies.
CodeFaults(t) ==
  /\ nodePc # "dead"
  /\ thread[t] = "running"
  /\ \/ image[code[t]] = "torn"
     \/ /\ nodePc = "serve"
        /\ req[serving].op = "so_upload"
        /\ req[serving].obj = code[t]
  /\ nodePc' = "dead"
  /\ UNCHANGED <<connVars, serving, memVars, objVars, threadVars, verdict>>

Next ==
  \/ \E k \in Clients : Client(k)
  \/ Node
  \/ \E t \in Tids : ThreadEnds(t) \/ CodeFaults(t)

Spec == Init /\ [][Next]_vars

\* The node runs when it can, and remote functions end.
FairSpec ==
  /\ Spec
  /\ WF_vars(Node)
  /\ \A t \in Tids : WF_vars(ThreadEnds(t))

-----------------------------------------------------------------------------
\* A client finds in its memory on the node what it has copied there, or what
\* the threads that it has joined have made of it, although memory moves, is
\* reused, and threads of clients that have left are still writing (the node
\* releases nothing of a client that leaves, and JOIN waits).
Coherent ==
  \A k \in Clients : \A b \in Usable(k) :
    b \in alloc /\ known[b] \in {"unknown", mem[b]}

\* The code of a running thread, and of a function pointer that a client
\* holds, is mapped: no unload by another client takes it away (one dlclose
\* undoes one dlopen, and nothing undoes those of a client that left).
CodeMapped ==
  \A o \in Objects :
    (\/ \E t \in Tids : thread[t] = "running" /\ code[t] = o
     \/ \E k \in Clients : o \in funcs[k])
      => refs[o] > 0 /\ image[o] # NULL

\* The blocks on which the clients' threads work, or have worked.  Threads of
\* clients that have left do not count.
WorkedOn(state) ==
  {b \in Blocks : \E t \in Tids : joiner[t] # NULL /\ arg[t] = b /\ thread[t] = state}

\* What a client sees of the heap.
Visible == [b \in Blocks |-> IF own[b] = NULL THEN "free" ELSE mem[b]]

Memory == INSTANCE RemoteMemory
            WITH contents <- Visible, running <- WorkedOn("running"),
                 done <- WorkedOn("done")

\* The node implements RemoteMemory: no handler, and no thread or request that
\* a client has left behind, ever touches the memory of another client, and
\* JOIN is answered when the thread has ended (the handlers of the node).
ImplementsRemoteMemory == Memory!Spec

\* When the client that is being served leaves, the next one in the backlog
\* is served, even if the node is still joining a thread of the first; the
\* code leaves two ways out: the node is killed, or hangs in
\* dic_conn_destroy.
NextClientServed ==
  \A k \in Clients :
    (/\ backlog # << >> /\ Head(backlog) = k
     /\ serving # NULL /\ conn[serving] = "gone")
      ~> (serving = k \/ ~Up)

\* dic_so_verify returns a checksum of the object on the node, or 0 if there
\* is no such object (the field "checksum" of dic_resp_so_verify, and how
\* find-primes means to use it).
VerifyReturnsChecksum ==
  \A k \in Clients : verdict[k] \in Versions \cup {"none", NULL}
=============================================================================
