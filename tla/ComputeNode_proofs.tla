------------------------- MODULE ComputeNode_proofs -------------------------
(***************************************************************************)
(* For any number of clients, blocks, threads, objects and versions: the   *)
(* types, that a client finds in its memory what it takes to be there,     *)
(* that code in use is mapped, and that the node implements RemoteMemory.  *)
(*                                                                         *)
(* Memory: a block is used by one party at a time, its owner's request, or *)
(* one thread, and stays allocated as long.  A client that leaves orphans  *)
(* its blocks, threads and request together, so this stays true of them.   *)
(*                                                                         *)
(* Code: every dlopen that a client may still undo is a token, <<k, j>>    *)
(* for its j-th handle and <<k, 0>> for an unload that it has left behind. *)
(* The count of dlopen never falls below the number of tokens, and is      *)
(* greater where an orphan runs: what its client had loaded is never       *)
(* unloaded.                                                               *)
(***************************************************************************)
EXTENDS ComputeNode, SequenceTheorems, FiniteSetTheorems, TLAPS

Live(k) == conn[k] \in {"waiting", "served"}

\* Who owns what the request of k is about: nobody once k has left.
OwnerOf(k) == IF Live(k) THEN k ELSE NULL

PtrOps == {"realloc", "free", "memcpy_c2n", "memcpy_n2c", "run"}

\* The request of k is about block b, about thread t.
Uses(k, b) == req[k].op \in PtrOps /\ req[k].ptr = b
Joins(k, t) == req[k].op = "join" /\ req[k].tid = t

\* One client is served, the ones in the backlog are not.
LoopInv ==
  /\ nodePc \in {"accept", "hung"} => serving = NULL
  /\ nodePc \in {"serve", "destroy"} =>
       serving \in Clients /\ conn[serving] \in {"served", "gone"}
  /\ nodePc = "destroy" => conn[serving] = "gone" /\ req[serving] = NoRequest
  /\ \A k \in Clients :
       /\ conn[k] = "served" => serving = k
       /\ req[k] # NoRequest => conn[k] # "off"
  /\ \A i \in 1..Len(backlog) :
       conn[backlog[i]] \in {"waiting", "gone"} /\ backlog[i] # serving
  /\ \A i, j \in 1..Len(backlog) : backlog[i] = backlog[j] => i = j

\* Blocks, and the threads that work on them.
MemInv ==
  /\ \A b \in Blocks :
       /\ own[b] # NULL => b \in alloc
       /\ own[b] = NULL => known[b] = "unknown"
       /\ (\A t \in Tids : thread[t] = "none" \/ arg[t] # b) =>
            known[b] \in {"unknown", mem[b]}
  /\ \A t \in Tids :
       IF thread[t] = "none"
         THEN joiner[t] = NULL /\ arg[t] = NULL /\ code[t] = NULL
         ELSE arg[t] \in alloc /\ own[arg[t]] = joiner[t] /\ code[t] \in Objects
  /\ \A t, u \in Tids : thread[t] # "none" /\ arg[t] = arg[u] => t = u

\* What a thread makes of its block.
WorkInv ==
  \A t \in Tids :
    /\ thread[t] = "running" => known[arg[t]] \in {"unknown", mem[arg[t]]}
    /\ thread[t] = "done" /\ known[arg[t]] = "in" /\ image[code[t]] # "torn" =>
         mem[arg[t]] = "out"

\* A request speaks of what is its client's, or was when it left.
ReqInv ==
  \A k \in Clients :
    /\ \A b \in Blocks :
         Uses(k, b) =>
           /\ b \in alloc /\ own[b] = OwnerOf(k)
           /\ \A t \in Tids : arg[t] # b
           /\ \A l \in Clients : Uses(l, b) => l = k
    /\ \A t \in Tids :
         Joins(k, t) =>
           /\ thread[t] # "none" /\ joiner[t] = OwnerOf(k)
           /\ \A l \in Clients : Joins(l, t) => l = k
    /\ Live(k) /\ req[k].op = "so_unload" =>
         /\ loads[k][req[k].obj] > 0
         /\ \A t \in Tids : ~(joiner[t] = k /\ code[t] = req[k].obj)
    /\ Live(k) /\ req[k].op = "func_load" => loads[k][req[k].obj] > 0
    /\ Live(k) /\ req[k].op = "run" => req[k].obj \in funcs[k]

\* The unloads that are still to come.
Tokens(o) ==
  {x \in Clients \X Nat :
     \/ x[2] \in 1..loads[x[1]][o]
     \/ /\ x[2] = 0 /\ ~Live(x[1])
        /\ req[x[1]].op = "so_unload" /\ req[x[1]].obj = o}

\* Code that nobody will unload is, or will be, run.
Orphaned(o) ==
  \/ \E t \in Tids : thread[t] # "none" /\ joiner[t] = NULL /\ code[t] = o
  \/ \E k \in Clients : ~Live(k) /\ req[k].op = "run" /\ req[k].obj = o

\* What a client or one of its threads uses, the client has loaded.
LoadInv ==
  /\ \A k \in Clients, o \in Objects :
       /\ ~Live(k) => loads[k][o] = 0
       /\ o \in funcs[k] => loads[k][o] > 0
  /\ \A t \in Tids : joiner[t] # NULL => loads[joiner[t]][code[t]] > 0

\* The count of dlopen covers the unloads to come, with one to spare where
\* an orphan runs.
CountInv(o) ==
  /\ refs[o] = 0 <=> image[o] = NULL
  /\ IsFiniteSet(Tokens(o))
  /\ Cardinality(Tokens(o)) <= refs[o]
  /\ Orphaned(o) => Cardinality(Tokens(o)) < refs[o]

CodeInv == LoadInv /\ \A o \in Objects : CountInv(o)

Inv ==
  /\ TypeOK
  /\ LoopInv
  /\ MemInv
  /\ WorkInv
  /\ ReqInv
  /\ CodeInv

-----------------------------------------------------------------------------
(***************************************************************************)
(* Requests.                                                               *)
(***************************************************************************)

\* The fields of a request.
LEMMA RequestFields ==
  ASSUME NEW r \in Request
  PROVE  /\ r.op # "none"
         /\ r.op \in {"realloc", "free"} => r.ptr \in Blocks \cup {NULL}
         /\ r.op \in {"memcpy_c2n", "memcpy_n2c", "run"} => r.ptr \in Blocks
         /\ r.op \in {"so_load", "so_unload", "func_load", "so_upload", "run"} =>
              r.obj \in Objects
         /\ r.op = "so_load" => r.verify \in BOOLEAN
         /\ r.op = "so_upload" => r.version \in Versions
         /\ r.op = "join" => r.tid \in Tids
<1>1. CASE r \in [op : {"malloc"}, size : Sizes]
  BY <1>1
<1>2. CASE r \in [op : {"realloc"}, ptr : Blocks \cup {NULL}, size : Sizes]
  BY <1>2
<1>3. CASE r \in [op : {"free"}, ptr : Blocks \cup {NULL}]
  BY <1>3
<1>4. CASE r \in [op : {"memcpy_c2n", "memcpy_n2c"}, ptr : Blocks]
  BY <1>4
<1>5. CASE r \in [op : {"so_load"}, obj : Objects, verify : BOOLEAN]
  BY <1>5
<1>6. CASE r \in [op : {"so_unload", "func_load"}, obj : Objects]
  BY <1>6
<1>7. CASE r \in [op : {"so_upload"}, obj : Objects, version : Versions]
  BY <1>7
<1>8. CASE r \in [op : {"run"}, obj : Objects, ptr : Blocks]
  BY <1>8
<1>9. CASE r \in [op : {"join"}, tid : Tids]
  BY <1>9
<1>. QED BY <1>1, <1>2, <1>3, <1>4, <1>5, <1>6, <1>7, <1>8, <1>9 DEF Request

\* A client speaks of its own blocks, threads and handles.
Proper(k, r) ==
  /\ r \in Request
  /\ r.op \in PtrOps => r.ptr \in Usable(k) \cup {NULL}
  /\ r.op = "join" => joiner[r.tid] = k
  /\ r.op = "so_unload" => r.obj \in Unloadable(k)
  /\ r.op = "func_load" => loads[k][r.obj] > 0
  /\ r.op = "run" => r.obj \in funcs[k]

Asks(k) == \E r : Ask(k, r) /\ Proper(k, r)

\* What a client does is connect, leave or ask for something proper.
LEMMA ClientAsks ==
  ASSUME TypeOK, NEW k \in Clients, Client(k)
  PROVE  Connect(k) \/ Leave(k) \/ Asks(k)
<1>0. /\ Usable(k) \subseteq Blocks /\ Unloadable(k) \subseteq Objects
      /\ funcs[k] \subseteq Objects
  BY DEF Usable, Unloadable, TypeOK
<1>1. ASSUME RMalloc(k) PROVE Asks(k)
  <2>1. PICK n \in Sizes : Ask(k, [op |-> "malloc", size |-> n])
    BY <1>1 DEF RMalloc
  <2>2. Proper(k, [op |-> "malloc", size |-> n])
    BY DEF Proper, Request, PtrOps
  <2>. QED BY <2>1, <2>2 DEF Asks
<1>2. ASSUME RRealloc(k) PROVE Asks(k)
  <2>1. PICK b \in Usable(k) \cup {NULL}, n \in Sizes :
          Ask(k, [op |-> "realloc", ptr |-> b, size |-> n])
    BY <1>2 DEF RRealloc
  <2>2. Proper(k, [op |-> "realloc", ptr |-> b, size |-> n])
    BY <1>0 DEF Proper, Request, PtrOps
  <2>. QED BY <2>1, <2>2 DEF Asks
<1>3. ASSUME RFree(k) PROVE Asks(k)
  <2>1. PICK b \in Usable(k) \cup {NULL} : Ask(k, [op |-> "free", ptr |-> b])
    BY <1>3 DEF RFree
  <2>2. Proper(k, [op |-> "free", ptr |-> b])
    BY <1>0 DEF Proper, Request, PtrOps
  <2>. QED BY <2>1, <2>2 DEF Asks
<1>4. ASSUME Memcpy(k) PROVE Asks(k)
  <2>1. PICK b \in Usable(k), dir \in {"memcpy_c2n", "memcpy_n2c"} :
          Ask(k, [op |-> dir, ptr |-> b])
    BY <1>4 DEF Memcpy
  <2>2. Proper(k, [op |-> dir, ptr |-> b])
    BY <1>0 DEF Proper, Request, PtrOps
  <2>. QED BY <2>1, <2>2 DEF Asks
<1>5. ASSUME SoLoad(k) \/ SoVerify(k) PROVE Asks(k)
  <2>1. PICK o \in Objects, v \in BOOLEAN :
          Ask(k, [op |-> "so_load", obj |-> o, verify |-> v])
    BY <1>5 DEF SoLoad, SoVerify
  <2>2. Proper(k, [op |-> "so_load", obj |-> o, verify |-> v])
    BY DEF Proper, Request, PtrOps
  <2>. QED BY <2>1, <2>2 DEF Asks
<1>6. ASSUME SoUnload(k) PROVE Asks(k)
  <2>1. PICK o \in Unloadable(k) : Ask(k, [op |-> "so_unload", obj |-> o])
    BY <1>6 DEF SoUnload
  <2>2. Proper(k, [op |-> "so_unload", obj |-> o])
    BY <1>0 DEF Proper, Request, PtrOps
  <2>. QED BY <2>1, <2>2 DEF Asks
<1>7. ASSUME SoUpload(k) PROVE Asks(k)
  <2>1. PICK o \in Objects, v \in Versions :
          Ask(k, [op |-> "so_upload", obj |-> o, version |-> v])
    BY <1>7 DEF SoUpload
  <2>2. Proper(k, [op |-> "so_upload", obj |-> o, version |-> v])
    BY DEF Proper, Request, PtrOps
  <2>. QED BY <2>1, <2>2 DEF Asks
<1>8. ASSUME FuncLoad(k) PROVE Asks(k)
  <2>1. PICK o \in Objects :
          loads[k][o] > 0 /\ Ask(k, [op |-> "func_load", obj |-> o])
    BY <1>8 DEF FuncLoad
  <2>2. Proper(k, [op |-> "func_load", obj |-> o])
    BY <2>1 DEF Proper, Request, PtrOps
  <2>. QED BY <2>1, <2>2 DEF Asks
<1>9. ASSUME RthreadRun(k) PROVE Asks(k)
  <2>1. PICK o \in funcs[k], b \in Usable(k) :
          Ask(k, [op |-> "run", obj |-> o, ptr |-> b])
    BY <1>9 DEF RthreadRun
  <2>2. Proper(k, [op |-> "run", obj |-> o, ptr |-> b])
    BY <1>0 DEF Proper, Request, PtrOps
  <2>. QED BY <2>1, <2>2 DEF Asks
<1>10. ASSUME RthreadJoin(k) PROVE Asks(k)
  <2>1. PICK t \in Tids : joiner[t] = k /\ Ask(k, [op |-> "join", tid |-> t])
    BY <1>10 DEF RthreadJoin
  <2>2. Proper(k, [op |-> "join", tid |-> t])
    BY <2>1 DEF Proper, Request, PtrOps
  <2>. QED BY <2>1, <2>2 DEF Asks
<1>. QED BY <1>1, <1>2, <1>3, <1>4, <1>5, <1>6, <1>7, <1>8, <1>9, <1>10
         DEF Client

\* A handler works on a request of the client that is being served.
LEMMA HandlerFacts ==
  ASSUME TypeOK, LoopInv, NEW op, op # "none", nodePc = "serve",
         req[serving].op = op
  PROVE  /\ serving \in Clients
         /\ req[serving] \in Request
         /\ conn[serving] \in {"served", "gone"}
         /\ Live(serving) <=> conn[serving] = "served"
         /\ OwnerOf(serving) = Told(serving, NULL)
<1>1. serving \in Clients /\ conn[serving] \in {"served", "gone"}
  BY DEF LoopInv
<1>2. req[serving] \in Request \cup {NoRequest}
  BY <1>1 DEF TypeOK
<1>3. NoRequest.op = "none"
  BY DEF NoRequest
<1>. QED BY <1>1, <1>2, <1>3 DEF Live, OwnerOf, Told

-----------------------------------------------------------------------------
\* What the steps do to the connections, and the ways they can be told apart.
Handler(k) ==
  /\ nodePc = "serve" /\ k = serving
  /\ req[k] \in Request
  /\ req' = [req EXCEPT ![k] = NoRequest]
  /\ nodePc' \in {"serve", "dead"}
  /\ UNCHANGED <<conn, backlog, serving>>

\* Every handler takes the request of the client that is being served.
LEMMA HandlersHandle ==
  ASSUME TypeOK, LoopInv, NEW op, op # "none", Handles(op)
  PROVE  /\ Handler(serving)
         /\ serving \in Clients
         /\ req[serving].op = op
         /\ conn[serving] \in {"served", "gone"}
         /\ Live(serving) <=> conn[serving] = "served"
         /\ OwnerOf(serving) = Told(serving, NULL)
         /\ \A k : Live(k)' <=> Live(k)
         /\ \A k : OwnerOf(k)' = OwnerOf(k)
         /\ req'[serving] = NoRequest
         /\ \A l \in Clients : l # serving => req'[l] = req[l]
<1>1. /\ nodePc = "serve" /\ req[serving].op = op
      /\ req' = [req EXCEPT ![serving] = NoRequest]
      /\ nodePc' \in {"serve", "dead"}
      /\ UNCHANGED <<conn, backlog, serving>>
  BY DEF Handles
<1>2. /\ serving \in Clients
      /\ req[serving] \in Request
      /\ conn[serving] \in {"served", "gone"}
      /\ Live(serving) <=> conn[serving] = "served"
      /\ OwnerOf(serving) = Told(serving, NULL)
  BY <1>1, HandlerFacts
<1>3. \A k : Live(k)' <=> Live(k)
  BY <1>1 DEF Live
<1>4. \A k : OwnerOf(k)' = OwnerOf(k)
  BY <1>3 DEF OwnerOf
<1>5. /\ req'[serving] = NoRequest
      /\ \A l \in Clients : l # serving => req'[l] = req[l]
  BY <1>1, <1>2 DEF TypeOK
<1>. QED BY <1>1, <1>2, <1>3, <1>4, <1>5 DEF Handler

\* The handlers, as one case for the parts of the invariant that only look at
\* the connections.
AnyHandler ==
  \/ HandleMalloc \/ HandleRealloc \/ HandleFree
  \/ HandleMemcpyC2N \/ HandleMemcpyN2C
  \/ HandleSoLoad \/ HandleSoUnload \/ HandleSoUpload \/ HandleFuncLoad
  \/ HandleRun \/ HandleJoin

\* listen_loop serves one connection at a time, and a connection is in the
\* backlog once.
LEMMA LoopStep ==
  ASSUME TypeOK, LoopInv, [Next]_vars
  PROVE  LoopInv'
<1>0. backlog \in Seq(Clients) /\ Len(backlog) \in Nat
  BY LenProperties DEF TypeOK
<1>n. NULL \notin Clients
  BY ConstantsAssumption
<1>e. \A i \in 1..Len(backlog) : backlog[i] \in Clients
  BY <1>0, ElementOfSeq
<1>1. ASSUME NEW k \in Clients, Connect(k) PROVE LoopInv'
  <2>1. /\ conn[k] = "off" /\ conn' = [conn EXCEPT ![k] = "waiting"]
        /\ backlog' = Append(backlog, k)
        /\ UNCHANGED <<req, nodePc, serving>>
    BY <1>1 DEF Connect, loopVars
  <2>2. /\ conn'[k] = "waiting"
        /\ \A l \in Clients : l # k => conn'[l] = conn[l]
    BY <2>1 DEF TypeOK
  <2>3. /\ Len(backlog') = Len(backlog) + 1
        /\ \A i \in 1..Len(backlog) : backlog'[i] = backlog[i] /\ backlog[i] # k
        /\ backlog'[Len(backlog) + 1] = k
        /\ \A i \in 1..Len(backlog') : i \in 1..Len(backlog) \/ i = Len(backlog) + 1
    <3>1. \A i \in 1..Len(backlog) : backlog[i] # k
      BY <2>1 DEF LoopInv
    <3>2. /\ Len(backlog') = Len(backlog) + 1
          /\ \A i \in 1..Len(backlog) : backlog'[i] = backlog[i]
          /\ backlog'[Len(backlog) + 1] = k
      BY <1>0, <2>1, AppendProperties
    <3>. QED BY <1>0, <3>1, <3>2
  <2>4. k # serving
    BY <1>1, <1>n, <2>1 DEF LoopInv, Connect, Up, TypeOK
  <2>5. /\ nodePc \in {"serve", "destroy"} => serving # k
        /\ \A l \in Clients : conn'[l] = "served" => serving = l
        /\ \A l \in Clients : req[l] # NoRequest => conn'[l] # "off"
    BY <2>1, <2>2 DEF LoopInv
  <2>6. \A i \in 1..Len(backlog') :
          conn'[backlog'[i]] \in {"waiting", "gone"} /\ backlog'[i] # serving
    BY <1>e, <2>2, <2>3, <2>4 DEF LoopInv
  <2>7. \A i, j \in 1..Len(backlog') : backlog'[i] = backlog'[j] => i = j
    BY <2>3 DEF LoopInv
  <2>8. nodePc \in {"serve", "destroy"} =>
          serving \in Clients /\ conn'[serving] = conn[serving]
    BY <2>2, <2>5 DEF LoopInv
  <2>. QED BY <2>1, <2>5, <2>6, <2>7, <2>8 DEF LoopInv
<1>2. ASSUME NEW k \in Clients, Leave(k) PROVE LoopInv'
  <2>1. /\ conn[k] \in {"waiting", "served"}
        /\ conn' = [conn EXCEPT ![k] = "gone"]
        /\ UNCHANGED <<backlog, nodePc, serving>>
    BY <1>2 DEF Leave, loopVars
  <2>2. /\ conn'[k] = "gone"
        /\ \A l \in Clients : l # k => conn'[l] = conn[l]
    BY <2>1 DEF TypeOK
  <2>3. \A l \in Clients : l # k => req'[l] = req[l]
    BY <1>2 DEF Leave, TypeOK
  <2>4. nodePc = "destroy" => serving # k
    BY <2>1 DEF LoopInv
  <2>. QED BY <1>e, <2>1, <2>2, <2>3, <2>4 DEF LoopInv
<1>3. ASSUME NEW k \in Clients, Asks(k) PROVE LoopInv'
  <2>1. PICK r : Ask(k, r)
    BY <1>3 DEF Asks
  <2>2. /\ conn[k] \in {"waiting", "served"}
        /\ req' = [req EXCEPT ![k] = r]
        /\ UNCHANGED <<conn, backlog, nodePc, serving>>
    BY <2>1 DEF Ask, loopVars
  <2>3. \A l \in Clients : l # k => req'[l] = req[l]
    BY <2>2 DEF TypeOK
  <2>4. nodePc = "destroy" => serving # k
    BY <2>2 DEF LoopInv
  <2>. QED BY <2>2, <2>3, <2>4 DEF LoopInv
<1>4. CASE Accept
  <2>1. /\ nodePc = "accept" /\ backlog # << >> /\ nodePc' = "serve"
        /\ serving' = Head(backlog) /\ backlog' = Tail(backlog)
        /\ UNCHANGED req
    BY <1>4 DEF Accept
  <2>2. /\ Len(backlog') = Len(backlog) - 1
        /\ \A i \in 1..Len(backlog') : backlog'[i] = backlog[i + 1]
    <3>1. /\ Len(Tail(backlog)) = Len(backlog) - 1
          /\ \A i \in 1..Len(Tail(backlog)) : Tail(backlog)[i] = backlog[i + 1]
      BY <1>0, <2>1, HeadTailProperties
    <3>. QED BY <2>1, <3>1
  <2>3. serving' = backlog[1] /\ 1 \in 1..Len(backlog)
    <3>1. Len(backlog) # 0
      BY <1>0, <2>1, EmptySeq
    <3>. QED BY <1>0, <2>1, <3>1
  <2>4. PICK k \in Clients : k = serving' /\ conn[k] \in {"waiting", "gone"}
    BY <1>e, <2>3 DEF LoopInv
  <2>5. /\ conn'[k] \in {"served", "gone"}
        /\ \A l \in Clients : l # k => conn'[l] = conn[l]
    <3>1. conn' = [conn EXCEPT ![k] = IF @ = "waiting" THEN "served" ELSE @]
      BY <1>4, <2>1, <2>4 DEF Accept
    <3>. QED BY <2>4, <3>1 DEF TypeOK
  <2>6. \A i \in 1..Len(backlog') :
          /\ i + 1 \in 1..Len(backlog) /\ backlog'[i] = backlog[i + 1]
          /\ backlog'[i] \in Clients /\ backlog'[i] # k
    <3>1. \A i \in 1..Len(backlog') : i + 1 \in 1..Len(backlog) /\ i + 1 # 1
      BY <1>0, <2>2
    <3>2. \A i \in 1..Len(backlog') : backlog[i + 1] # backlog[1]
      BY <2>3, <3>1 DEF LoopInv
    <3>. QED BY <1>e, <2>2, <2>3, <2>4, <3>1, <3>2
  <2>7. \A i, j \in 1..Len(backlog') : backlog'[i] = backlog'[j] => i = j
    <3>1. \A i, j \in 1..Len(backlog') : backlog'[i] = backlog'[j] => i + 1 = j + 1
      BY <2>6 DEF LoopInv
    <3>2. \A i, j \in 1..Len(backlog') : i + 1 = j + 1 => i = j
      OBVIOUS
    <3>. QED BY <3>1, <3>2
  <2>8. serving = NULL
    BY <2>1 DEF LoopInv
  <2>9. \A l \in Clients : conn'[l] = "served" => l = k
    BY <1>n, <2>5, <2>8 DEF LoopInv
  <2>10. \A l \in Clients : req[l] # NoRequest => conn'[l] # "off"
    BY <2>5 DEF LoopInv
  <2>11. \A i \in 1..Len(backlog') : conn'[backlog'[i]] \in {"waiting", "gone"}
    BY <2>5, <2>6 DEF LoopInv
  <2>. QED BY <2>1, <2>4, <2>5, <2>6, <2>7, <2>9, <2>10, <2>11 DEF LoopInv
<1>5. CASE ClientGone
  BY <1>5 DEF ClientGone, connVars, LoopInv
<1>6. CASE DestroyConn
  <2>1. /\ nodePc = "destroy" /\ nodePc' \in {"accept", "hung"}
        /\ conn' = [conn EXCEPT ![serving] = "off"]
        /\ serving' = NULL
        /\ UNCHANGED <<req, backlog>>
    BY <1>6 DEF DestroyConn
  <2>2. PICK k \in Clients : k = serving /\ conn[k] = "gone" /\ req[k] = NoRequest
    BY <2>1 DEF LoopInv
  <2>3. conn'[k] = "off" /\ \A l \in Clients : l # k => conn'[l] = conn[l]
    BY <2>1, <2>2 DEF TypeOK
  <2>4. \A l \in Clients : conn'[l] # "served"
    BY <2>2, <2>3 DEF LoopInv
  <2>5. \A i \in 1..Len(backlog) :
          conn'[backlog[i]] \in {"waiting", "gone"} /\ backlog[i] # NULL
    BY <1>e, <1>n, <2>2, <2>3 DEF LoopInv
  <2>6. \A l \in Clients : req[l] # NoRequest => conn'[l] # "off"
    BY <2>2, <2>3 DEF LoopInv
  <2>. QED BY <2>1, <2>4, <2>5, <2>6 DEF LoopInv
<1>7. CASE AnyHandler
  <2>1. PICK op : op # "none" /\ Handles(op)
    BY <1>7 DEF AnyHandler, HandleMalloc, HandleRealloc, HandleFree,
                HandleMemcpyC2N, HandleMemcpyN2C, HandleSoLoad,
                HandleSoUnload, HandleSoUpload, HandleFuncLoad, HandleRun,
                HandleJoin
  <2>2. /\ Handler(serving) /\ serving \in Clients
        /\ conn[serving] \in {"served", "gone"}
        /\ req'[serving] = NoRequest
        /\ \A l \in Clients : l # serving => req'[l] = req[l]
    BY <2>1, HandlersHandle
  <2>3. \A l \in Clients : req'[l] # NoRequest => req[l] # NoRequest
    BY <2>2
  <2>4. nodePc = "serve" /\ nodePc' \in {"serve", "dead"} /\ UNCHANGED <<conn, backlog, serving>>
    BY <2>2 DEF Handler
  <2>. QED BY <2>2, <2>3, <2>4 DEF LoopInv
<1>8. ASSUME \/ HandlerDies
             \/ \E t \in Tids : ThreadEnds(t) \/ CodeFaults(t)
             \/ UNCHANGED vars
      PROVE  LoopInv'
  <2>1. /\ UNCHANGED <<conn, req, backlog, serving>>
        /\ nodePc' \in {nodePc, "dead"}
    BY <1>8 DEF HandlerDies, ThreadEnds, CodeFaults, connVars,
                loopVars, vars
  <2>. QED BY <2>1 DEF LoopInv
<1>9. ASSUME NEW k \in Clients, Client(k) PROVE LoopInv'
  BY <1>1, <1>2, <1>3, <1>9, ClientAsks
<1>. QED BY <1>4, <1>5, <1>6, <1>7, <1>8, <1>9 DEF Next, Node, AnyHandler

-----------------------------------------------------------------------------
(***************************************************************************)
(* The code: counting the unloads to come.                                 *)
(***************************************************************************)

\* Fewer tokens need no more loads.
LEMMA CountShrinks ==
  ASSUME TypeOK, TypeOK', NEW o \in Objects, CountInv(o),
         Tokens(o)' \subseteq Tokens(o), refs'[o] >= refs[o],
         refs'[o] = 0 <=> image'[o] = NULL,
         Orphaned(o)' => Orphaned(o)
  PROVE  CountInv(o)'
<1>1. /\ IsFiniteSet(Tokens(o)')
      /\ Cardinality(Tokens(o)') <= Cardinality(Tokens(o))
  BY FS_Subset DEF CountInv
<1>2. /\ Cardinality(Tokens(o)) \in Nat /\ Cardinality(Tokens(o)') \in Nat
      /\ refs[o] \in Nat /\ refs'[o] \in Nat
  BY <1>1, FS_CardinalityType DEF CountInv, TypeOK
<1>3. /\ Cardinality(Tokens(o)') <= refs'[o]
      /\ Orphaned(o)' => Cardinality(Tokens(o)') < refs'[o]
  <2>1. PICK c \in Nat, d \in Nat, m \in Nat, n \in Nat :
          /\ c = Cardinality(Tokens(o)) /\ d = Cardinality(Tokens(o)')
          /\ m = refs[o] /\ n = refs'[o]
    BY <1>2
  <2>2. d <= c /\ c <= m /\ n >= m /\ (Orphaned(o)' => c < m)
    BY <1>1, <2>1 DEF CountInv
  <2>3. d <= n /\ (Orphaned(o)' => d < n)
    BY <2>2
  <2>. QED BY <2>1, <2>3
<1>. QED BY <1>1, <1>3 DEF CountInv

\* One load makes room for one token.
LEMMA CountGrows ==
  ASSUME TypeOK, TypeOK', NEW o \in Objects, CountInv(o), NEW x,
         Tokens(o)' \subseteq Tokens(o) \cup {x}, refs'[o] = refs[o] + 1,
         image'[o] # NULL,
         Orphaned(o)' => Orphaned(o)
  PROVE  CountInv(o)'
<1>1. /\ IsFiniteSet(Tokens(o) \cup {x})
      /\ Cardinality(Tokens(o) \cup {x}) \in
           {Cardinality(Tokens(o)), Cardinality(Tokens(o)) + 1}
  BY FS_AddElement DEF CountInv
<1>2. /\ IsFiniteSet(Tokens(o)')
      /\ Cardinality(Tokens(o)') <= Cardinality(Tokens(o) \cup {x})
  BY <1>1, FS_Subset
<1>3. /\ Cardinality(Tokens(o)) \in Nat /\ Cardinality(Tokens(o)') \in Nat
      /\ refs[o] \in Nat
  BY <1>2, FS_CardinalityType DEF CountInv, TypeOK
<1>4. PICK c \in Nat, d \in Nat, m \in Nat :
        /\ c = Cardinality(Tokens(o)) /\ d = Cardinality(Tokens(o)')
        /\ m = refs[o] /\ m + 1 = refs'[o]
  BY <1>3
<1>5. d <= c + 1 /\ c <= m /\ (Orphaned(o)' => c < m)
  <2>1. d <= c \/ d <= c + 1
    BY <1>1, <1>2, <1>4
  <2>2. d <= c + 1
    BY <2>1
  <2>. QED BY <1>4, <2>2 DEF CountInv
<1>6. d <= m + 1 /\ (Orphaned(o)' => d < m + 1) /\ m + 1 # 0
  BY <1>5
<1>. QED BY <1>2, <1>4, <1>6 DEF CountInv

\* A token gone: then the count of loads may fall by one, and an orphan may
\* appear if it does not.
LEMMA CountFalls ==
  ASSUME TypeOK, TypeOK', NEW o \in Objects, CountInv(o), NEW x \in Tokens(o),
         Tokens(o)' \subseteq Tokens(o) \ {x},
         refs'[o] = 0 <=> image'[o] = NULL,
         \/ refs'[o] = refs[o]
         \/ refs'[o] = refs[o] - 1 /\ (Orphaned(o)' => Orphaned(o))
  PROVE  CountInv(o)'
<1>1. /\ IsFiniteSet(Tokens(o) \ {x})
      /\ Cardinality(Tokens(o) \ {x}) = Cardinality(Tokens(o)) - 1
  BY FS_RemoveElement DEF CountInv
<1>2. /\ IsFiniteSet(Tokens(o)')
      /\ Cardinality(Tokens(o)') <= Cardinality(Tokens(o) \ {x})
  BY <1>1, FS_Subset
<1>3. /\ Cardinality(Tokens(o)) \in Nat /\ Cardinality(Tokens(o)') \in Nat
      /\ refs[o] \in Nat /\ refs'[o] \in Nat
  BY <1>2, FS_CardinalityType DEF CountInv, TypeOK
<1>4. PICK c \in Nat, d \in Nat, m \in Nat, n \in Nat :
        /\ c = Cardinality(Tokens(o)) /\ d = Cardinality(Tokens(o)')
        /\ m = refs[o] /\ n = refs'[o]
  BY <1>3
<1>5. d <= c - 1 /\ c <= m /\ (Orphaned(o) => c < m)
  BY <1>1, <1>2, <1>4 DEF CountInv
<1>6. CASE n = m
  <2>1. d <= n /\ d < n
    BY <1>5, <1>6
  <2>. QED BY <1>2, <1>4, <2>1 DEF CountInv
<1>7. CASE n = m - 1 /\ (Orphaned(o)' => Orphaned(o))
  <2>1. d <= n /\ (Orphaned(o) => d < n)
    BY <1>5, <1>7
  <2>. QED BY <1>2, <1>4, <1>7, <2>1 DEF CountInv
<1>. QED BY <1>4, <1>6, <1>7

\* A token gone and another one in its place.
LEMMA CountSwaps ==
  ASSUME TypeOK, TypeOK', NEW o \in Objects, CountInv(o), NEW x \in Tokens(o),
         NEW y, Tokens(o)' \subseteq (Tokens(o) \ {x}) \cup {y},
         refs'[o] = refs[o], image'[o] = image[o],
         Orphaned(o)' => Orphaned(o)
  PROVE  CountInv(o)'
<1>1. /\ IsFiniteSet(Tokens(o) \ {x})
      /\ Cardinality(Tokens(o) \ {x}) = Cardinality(Tokens(o)) - 1
  BY FS_RemoveElement DEF CountInv
<1>2. PICK S : S = Tokens(o) \ {x}
  OBVIOUS
<1>3. /\ IsFiniteSet(S \cup {y})
      /\ Cardinality(S \cup {y}) \in {Cardinality(S), Cardinality(S) + 1}
  BY <1>1, <1>2, FS_AddElement
<1>4. /\ IsFiniteSet(Tokens(o)')
      /\ Cardinality(Tokens(o)') <= Cardinality(S \cup {y})
  BY <1>2, <1>3, FS_Subset
<1>5. /\ Cardinality(Tokens(o)) \in Nat /\ Cardinality(Tokens(o)') \in Nat
      /\ Cardinality(S) \in Nat /\ refs[o] \in Nat
  BY <1>1, <1>2, <1>4, FS_CardinalityType DEF CountInv, TypeOK
<1>6. PICK c \in Nat, d \in Nat, e \in Nat, m \in Nat :
        /\ c = Cardinality(Tokens(o)) /\ d = Cardinality(Tokens(o)')
        /\ e = Cardinality(S) /\ m = refs[o]
  BY <1>5
<1>7. e = c - 1 /\ (d <= e \/ d <= e + 1) /\ c <= m /\ (Orphaned(o)' => c < m)
  BY <1>1, <1>2, <1>3, <1>4, <1>6 DEF CountInv
<1>8. d <= m /\ (Orphaned(o)' => d < m)
  BY <1>7
<1>. QED BY <1>4, <1>6, <1>8 DEF CountInv

\* A client's handle is a token, and what has a token is mapped.
LEMMA TokenMapped ==
  ASSUME TypeOK, NEW o \in Objects, CountInv(o), NEW x \in Tokens(o)
  PROVE  refs[o] > 0 /\ image[o] # NULL
<1>1. IsFiniteSet(Tokens(o)) /\ Tokens(o) # {}
  BY DEF CountInv
<1>2. Cardinality(Tokens(o)) \in Nat /\ Cardinality(Tokens(o)) # 0
  BY <1>1, FS_CardinalityType, FS_EmptySet
<1>3. refs[o] \in Nat
  BY DEF TypeOK
<1>4. refs[o] > 0
  BY <1>2, <1>3 DEF CountInv
<1>. QED BY <1>3, <1>4 DEF CountInv

\* An object that a client has loaded is mapped on the node.
LEMMA LoadedMapped ==
  ASSUME TypeOK, NEW k \in Clients, NEW o \in Objects, CountInv(o),
         loads[k][o] > 0
  PROVE  <<k, 1>> \in Tokens(o) /\ refs[o] > 0 /\ image[o] # NULL
<1>1. loads[k][o] \in Nat
  BY DEF TypeOK
<1>2. 1 \in 1..loads[k][o]
  BY <1>1
<1>3. PICK x : x = <<k, 1>>
  OBVIOUS
<1>4. x \in Clients \X Nat /\ x[1] = k /\ x[2] = 1
  BY <1>3
<1>5. x \in Tokens(o)
  BY <1>2, <1>4 DEF Tokens
<1>. QED BY <1>3, <1>5, TokenMapped

-----------------------------------------------------------------------------
\* A table of tables with one entry changed.
LEMMA EntryChanged ==
  ASSUME NEW S, NEW T, NEW V, NEW f \in [S -> [T -> V]], NEW s \in S, NEW t \in T,
         NEW v \in V
  PROVE  /\ [f EXCEPT ![s][t] = v] \in [S -> [T -> V]]
         /\ [f EXCEPT ![s][t] = v][s][t] = v
         /\ \A a \in S, b \in T :
              a # s \/ b # t => [f EXCEPT ![s][t] = v][a][b] = f[a][b]
OBVIOUS

\* Every step keeps the types: what is unloaded had been loaded, what a
\* thread works on is a block.
LEMMA TypeStep ==
  ASSUME Inv, [Next]_vars
  PROVE  TypeOK'
<1>. USE ConstantsAssumption
<1>0. TypeOK /\ LoopInv /\ MemInv /\ ReqInv /\ CodeInv
  BY DEF Inv
<1>1. ASSUME NEW k \in Clients, Connect(k) PROVE TypeOK'
  <2>1. backlog' \in Seq(Clients)
    BY <1>0, <1>1, AppendProperties DEF TypeOK, Connect
  <2>. QED BY <1>0, <1>1, <2>1 DEF TypeOK, Connect, loopVars, memVars, objVars,
                                   threadVars
<1>2. ASSUME NEW k \in Clients, Leave(k) PROVE TypeOK'
  <2>1. req' \in [Clients -> Request \cup {NoRequest}]
    BY <1>0, <1>2 DEF TypeOK, Leave
  <2>2. conn' \in [Clients -> {"off", "waiting", "served", "gone"}]
    BY <1>0, <1>2 DEF TypeOK, Leave
  <2>3. /\ own' \in [Blocks -> Clients \cup {NULL}]
        /\ known' \in [Blocks -> {"unknown", "in", "out"}]
        /\ joiner' \in [Tids -> Clients \cup {NULL}]
    BY <1>0, <1>2 DEF TypeOK, Leave
  <2>4. /\ loads' \in [Clients -> [Objects -> Nat]]
        /\ funcs' \in [Clients -> SUBSET Objects]
    BY <1>0, <1>2 DEF TypeOK, Leave
  <2>5. verdict' \in [Clients -> Versions \cup {"none", "handle", NULL}]
    BY <1>0, <1>2 DEF TypeOK, Leave
  <2>. QED BY <1>0, <1>2, <2>1, <2>2, <2>3, <2>4, <2>5 DEF TypeOK, Leave, loopVars
<1>3. ASSUME NEW k \in Clients, Asks(k) PROVE TypeOK'
  <2>1. PICK r : Ask(k, r) /\ r \in Request
    BY <1>3 DEF Asks, Proper
  <2>2. req' \in [Clients -> Request \cup {NoRequest}]
    BY <1>0, <2>1 DEF TypeOK, Ask
  <2>3. verdict' \in [Clients -> Versions \cup {"none", "handle", NULL}]
    BY <1>0, <2>1 DEF TypeOK, Ask
  <2>. QED BY <1>0, <2>1, <2>2, <2>3 DEF TypeOK, Ask, loopVars, memVars, objVars,
                                         threadVars
<1>4. CASE Accept
  <2>1. Head(backlog) \in Clients /\ Tail(backlog) \in Seq(Clients)
    BY <1>0, <1>4, HeadTailProperties DEF TypeOK, Accept
  <2>2. conn' \in [Clients -> {"off", "waiting", "served", "gone"}]
    BY <1>0, <1>4 DEF TypeOK, Accept
  <2>. QED BY <1>0, <1>4, <2>1, <2>2 DEF TypeOK, Accept, memVars, objVars,
                                         threadVars
<1>5. CASE ClientGone \/ HandlerDies
  BY <1>0, <1>5 DEF TypeOK, ClientGone, HandlerDies, connVars, memVars,
                    objVars, threadVars
<1>6. CASE DestroyConn
  <2>1. conn' \in [Clients -> {"off", "waiting", "served", "gone"}]
    BY <1>0, <1>6 DEF TypeOK, DestroyConn
  <2>. QED BY <1>0, <1>6, <2>1 DEF TypeOK, DestroyConn, memVars, objVars,
                                   threadVars
<1>7. ASSUME AnyHandler
      PROVE  /\ req' \in [Clients -> Request \cup {NoRequest}]
             /\ conn' \in [Clients -> {"off", "waiting", "served", "gone"}]
             /\ backlog' \in Seq(Clients)
             /\ nodePc' \in {"accept", "serve", "destroy", "hung", "dead"}
             /\ serving' \in Clients \cup {NULL}
             /\ serving \in Clients
             /\ req[serving] \in Request
  <2>1. PICK op : op # "none" /\ Handles(op)
    BY <1>7 DEF AnyHandler, HandleMalloc, HandleRealloc, HandleFree,
                HandleMemcpyC2N, HandleMemcpyN2C, HandleSoLoad,
                HandleSoUnload, HandleSoUpload, HandleFuncLoad, HandleRun,
                HandleJoin
  <2>2. Handler(serving) /\ serving \in Clients
    BY <1>0, <2>1, HandlersHandle
  <2>. QED BY <1>0, <2>2 DEF TypeOK, Handler
<1>m. ASSUME AnyHandler, UNCHANGED <<objVars, threadVars, verdict>>,
             /\ alloc' \in SUBSET Blocks
             /\ mem' \in [Blocks -> {"junk", "in", "out"}]
             /\ own' \in [Blocks -> Clients \cup {NULL}]
             /\ known' \in [Blocks -> {"unknown", "in", "out"}]
      PROVE  TypeOK'
  BY <1>0, <1>7, <1>m DEF TypeOK, objVars, threadVars
<1>8. CASE HandleMalloc \/ HandleRealloc \/ HandleFree
  <2>1. AnyHandler /\ UNCHANGED <<objVars, threadVars, verdict>>
    BY <1>8 DEF AnyHandler, HandleMalloc, HandleRealloc, HandleFree
  <2>2. serving \in Clients
    BY <1>7, <2>1
  <2>3. \/ UNCHANGED memVars
        \/ GiveBlock
        \/ \E b : FreeBlock(b)
        \/ \E b \in Blocks : MoveBlock(b)
    <3>1. CASE HandleMalloc
      BY <3>1 DEF HandleMalloc
    <3>2. CASE HandleFree
      BY <3>2 DEF HandleFree
    <3>3. CASE HandleRealloc
      <4>1. req[serving] \in Request /\ req[serving].op = "realloc"
        BY <1>7, <2>1, <3>3 DEF HandleRealloc, Handles
      <4>2. req[serving].ptr \in Blocks \cup {NULL}
        BY <4>1, RequestFields
      <4>. QED BY <3>3, <4>2 DEF HandleRealloc
    <3>. QED BY <1>8, <3>1, <3>2, <3>3
  <2>4. CASE UNCHANGED memVars
    BY <1>0, <1>m, <2>1, <2>4 DEF TypeOK, memVars
  <2>5. CASE GiveBlock
    <3>1. CASE UNCHANGED memVars
      BY <2>4, <3>1
    <3>2. ASSUME NEW b \in Blocks \ alloc,
                 /\ alloc' = alloc \cup {b}
                 /\ own' = [own EXCEPT ![b] = Told(serving, NULL)]
                 /\ UNCHANGED <<mem, known>>
          PROVE  TypeOK'
      <4>1. own' \in [Blocks -> Clients \cup {NULL}]
        BY <1>0, <2>2, <3>2 DEF TypeOK, Told
      <4>. QED BY <1>0, <1>m, <2>1, <3>2, <4>1 DEF TypeOK
    <3>. QED BY <2>5, <3>1, <3>2 DEF GiveBlock
  <2>6. ASSUME NEW b, FreeBlock(b) PROVE TypeOK'
    BY <1>0, <1>m, <2>1, <2>6 DEF TypeOK, FreeBlock
  <2>7. ASSUME NEW b \in Blocks, MoveBlock(b) PROVE TypeOK'
    <3>1. CASE UNCHANGED memVars
      BY <2>4, <3>1
    <3>2. ASSUME NEW n \in Blocks \ alloc,
                 /\ alloc' = (alloc \ {b}) \cup {n}
                 /\ mem' = [mem EXCEPT ![n] = mem[b], ![b] = "junk"]
                 /\ own' = [own EXCEPT ![n] = own[b], ![b] = NULL]
                 /\ known' = [known EXCEPT ![n] = known[b], ![b] = "unknown"]
          PROVE  TypeOK'
      <4>1. alloc' \in SUBSET Blocks
        BY <1>0, <3>2 DEF TypeOK
      <4>2. mem' \in [Blocks -> {"junk", "in", "out"}]
        BY <1>0, <2>7, <3>2 DEF TypeOK
      <4>3. own' \in [Blocks -> Clients \cup {NULL}]
        BY <1>0, <2>7, <3>2 DEF TypeOK
      <4>4. known' \in [Blocks -> {"unknown", "in", "out"}]
        BY <1>0, <2>7, <3>2 DEF TypeOK
      <4>. QED BY <1>m, <2>1, <4>1, <4>2, <4>3, <4>4
    <3>. QED BY <2>7, <3>1, <3>2 DEF MoveBlock
  <2>. QED BY <2>3, <2>4, <2>5, <2>6, <2>7
<1>9. CASE HandleMemcpyC2N
  <2>1. AnyHandler /\ UNCHANGED <<objVars, threadVars, verdict>>
    BY <1>9 DEF AnyHandler, HandleMemcpyC2N
  <2>2. /\ mem' \in [Blocks -> {"junk", "in", "out"}]
        /\ known' \in [Blocks -> {"unknown", "in", "out"}]
    BY <1>0, <1>9 DEF TypeOK, HandleMemcpyC2N, Told
  <2>. QED BY <1>0, <1>9, <1>m, <2>1, <2>2 DEF TypeOK, HandleMemcpyC2N
<1>10. CASE HandleMemcpyN2C
  <2>1. AnyHandler /\ UNCHANGED <<memVars, objVars, threadVars, verdict>>
    BY <1>10 DEF AnyHandler, HandleMemcpyN2C
  <2>. QED BY <1>0, <1>m, <2>1 DEF TypeOK, memVars
<1>11. CASE HandleSoLoad
  <2>1. AnyHandler /\ Handles("so_load")
    BY <1>11 DEF AnyHandler, HandleSoLoad
  <2>2. PICK k \in Clients, o \in Objects : k = serving /\ o = req[k].obj
    BY <1>7, <2>1, RequestFields DEF Handles
  <2>3. refs' \in [Objects -> Nat]
    BY <1>0, <1>11, <2>2 DEF TypeOK, HandleSoLoad
  <2>4. image' \in [Objects -> Versions \cup {"torn", NULL}]
    BY <1>0, <1>11, <2>2 DEF TypeOK, HandleSoLoad
  <2>5. loads' \in [Clients -> [Objects -> Nat]]
    <3>1. loads[k] \in [Objects -> Nat] /\ loads[k][o] + 1 \in Nat
      BY <1>0, <2>2 DEF TypeOK
    <3>2. \E n \in {loads[k][o], loads[k][o] + 1} :
            loads' = [loads EXCEPT ![k][o] = n]
      BY <1>11, <2>2 DEF HandleSoLoad, Told
    <3>3. loads[k][o] \in Nat
      BY <3>1
    <3>. QED BY <1>0, <2>2, <3>1, <3>2, <3>3, EntryChanged DEF TypeOK
  <2>6. verdict' \in [Clients -> Versions \cup {"none", "handle", NULL}]
    BY <1>0, <1>11, <2>2 DEF TypeOK, HandleSoLoad, Told
  <2>. QED BY <1>0, <1>7, <1>11, <2>1, <2>3, <2>4, <2>5, <2>6
           DEF TypeOK, HandleSoLoad, memVars, threadVars
<1>12. CASE HandleSoUnload
  <2>1. AnyHandler /\ Handles("so_unload")
    BY <1>12 DEF AnyHandler, HandleSoUnload
  <2>2. PICK k \in Clients, o \in Objects :
          k = serving /\ o = req[k].obj /\ req[k].op = "so_unload"
    BY <1>7, <2>1, RequestFields DEF Handles
  <2>3. Live(k) <=> conn[k] = "served"
    BY <1>0, <2>1, <2>2, HandlersHandle
  <2>4. conn[k] = "served" => loads[k][o] > 0
    BY <1>0, <2>2, <2>3 DEF ReqInv
  <2>5. refs[o] > 0
    <3>1. CASE conn[k] = "served"
      BY <1>0, <2>4, <3>1, LoadedMapped DEF CodeInv
    <3>2. CASE conn[k] # "served"
      <4>1. PICK x : x = <<k, 0>>
        OBVIOUS
      <4>2. x \in Clients \X Nat /\ x[1] = k /\ x[2] = 0
        BY <4>1
      <4>3. x \in Tokens(o)
        BY <2>2, <2>3, <3>2, <4>2 DEF Tokens
      <4>. QED BY <1>0, <4>3, TokenMapped DEF CodeInv
    <3>. QED BY <3>1, <3>2
  <2>6. refs' \in [Objects -> Nat]
    BY <1>0, <1>12, <2>2, <2>5 DEF TypeOK, HandleSoUnload
  <2>7. image' \in [Objects -> Versions \cup {"torn", NULL}]
    BY <1>0, <1>12, <2>2 DEF TypeOK, HandleSoUnload
  <2>8. loads' \in [Clients -> [Objects -> Nat]]
    <3>1. loads[k] \in [Objects -> Nat] /\ loads[k][o] \in Nat
      BY <1>0, <2>2 DEF TypeOK
    <3>2. PICK left : left = Told(loads[k][o] - 1, 0)
      OBVIOUS
    <3>3. left \in Nat
      BY <2>2, <2>4, <3>1, <3>2 DEF Told
    <3>4. loads' = [loads EXCEPT ![k][o] = left]
      BY <1>12, <2>2, <3>2 DEF HandleSoUnload
    <3>. QED BY <1>0, <2>2, <3>3, <3>4, EntryChanged DEF TypeOK
  <2>9. funcs' \in [Clients -> SUBSET Objects]
    BY <1>0, <1>12, <2>2 DEF TypeOK, HandleSoUnload
  <2>. QED BY <1>0, <1>7, <1>12, <2>1, <2>6, <2>7, <2>8, <2>9
           DEF TypeOK, HandleSoUnload, memVars, threadVars
<1>13. CASE HandleSoUpload
  <2>1. AnyHandler /\ Handles("so_upload")
    BY <1>13 DEF AnyHandler, HandleSoUpload
  <2>2. PICK k \in Clients, o \in Objects, v \in Versions :
          k = serving /\ o = req[k].obj /\ v = req[k].version
    BY <1>7, <2>1, RequestFields DEF Handles
  <2>3. /\ file' \in [Objects -> Versions \cup {NULL}]
        /\ image' \in [Objects -> Versions \cup {"torn", NULL}]
    BY <1>0, <1>13, <2>2 DEF TypeOK, HandleSoUpload
  <2>. QED BY <1>0, <1>7, <1>13, <2>1, <2>3
           DEF TypeOK, HandleSoUpload, memVars, threadVars
<1>14. CASE HandleFuncLoad
  <2>1. AnyHandler /\ Handles("func_load")
    BY <1>14 DEF AnyHandler, HandleFuncLoad
  <2>2. PICK k \in Clients, o \in Objects : k = serving /\ o = req[k].obj
    BY <1>7, <2>1, RequestFields DEF Handles
  <2>3. funcs' \in [Clients -> SUBSET Objects]
    BY <1>0, <1>14, <2>2 DEF TypeOK, HandleFuncLoad, Told
  <2>. QED BY <1>0, <1>7, <1>14, <2>1, <2>3
           DEF TypeOK, HandleFuncLoad, memVars, threadVars
<1>15. CASE HandleRun
  <2>1. AnyHandler /\ Handles("run")
    BY <1>15 DEF AnyHandler, HandleRun
  <2>2. PICK k \in Clients, o \in Objects, b \in Blocks :
          k = serving /\ o = req[k].obj /\ b = req[k].ptr
    BY <1>7, <2>1, RequestFields DEF Handles
  <2>3. PICK t \in Tids : /\ thread' = [thread EXCEPT ![t] = "running"]
                          /\ arg' = [arg EXCEPT ![t] = b]
                          /\ code' = [code EXCEPT ![t] = o]
                          /\ joiner' = [joiner EXCEPT ![t] = Told(k, NULL)]
    BY <1>15, <2>2 DEF HandleRun
  <2>. QED BY <1>0, <1>7, <1>15, <2>1, <2>3
           DEF TypeOK, HandleRun, Told, memVars, objVars
<1>16. CASE HandleJoin
  <2>1. AnyHandler /\ Handles("join")
    BY <1>16 DEF AnyHandler, HandleJoin
  <2>2. PICK k \in Clients, t \in Tids : k = serving /\ t = req[k].tid
    BY <1>7, <2>1, RequestFields DEF Handles
  <2>3. /\ thread' \in [Tids -> {"none", "running", "done"}]
        /\ arg' \in [Tids -> Blocks \cup {NULL}]
        /\ code' \in [Tids -> Objects \cup {NULL}]
        /\ joiner' \in [Tids -> Clients \cup {NULL}]
    BY <1>0, <1>16, <2>2 DEF TypeOK, HandleJoin
  <2>4. known' \in [Blocks -> {"unknown", "in", "out"}]
    <3>1. arg[t] \in Blocks
      BY <1>0, <1>16, <2>2 DEF MemInv, TypeOK, HandleJoin
    <3>2. \E z \in {"unknown", "in", "out"} : known' = [known EXCEPT ![arg[t]] = z]
      BY <1>0, <1>16, <2>2, <3>1 DEF TypeOK, HandleJoin, Told
    <3>. QED BY <1>0, <3>2 DEF TypeOK
  <2>. QED BY <1>0, <1>7, <1>16, <2>1, <2>3, <2>4 DEF TypeOK, HandleJoin, objVars
<1>17. ASSUME NEW t \in Tids, ThreadEnds(t) \/ CodeFaults(t) PROVE TypeOK'
  <2>1. CASE ThreadEnds(t)
    <3>1. /\ mem' \in [Blocks -> {"junk", "in", "out"}]
          /\ thread' \in [Tids -> {"none", "running", "done"}]
      BY <1>0, <2>1 DEF TypeOK, ThreadEnds
    <3>. QED BY <1>0, <2>1, <3>1 DEF TypeOK, ThreadEnds, connVars, loopVars,
                                     objVars
  <2>2. CASE CodeFaults(t)
    BY <1>0, <2>2 DEF TypeOK, CodeFaults, connVars, memVars, objVars, threadVars
  <2>. QED BY <1>17, <2>1, <2>2
<1>18. CASE UNCHANGED vars
  BY <1>0, <1>18 DEF TypeOK, vars, connVars, loopVars, memVars, objVars, threadVars
<1>19. ASSUME NEW k \in Clients, Client(k) PROVE TypeOK'
  BY <1>0, <1>1, <1>2, <1>3, <1>19, ClientAsks
<1>. QED BY <1>4, <1>5, <1>6, <1>8, <1>9, <1>10, <1>11, <1>12, <1>13, <1>14,
            <1>15, <1>16, <1>17, <1>18, <1>19 DEF Next, Node

-----------------------------------------------------------------------------
\* The requests that clients have left behind do not grow.
Settled ==
  \A k \in Clients :
    /\ ~Live(k)' => ~Live(k)
    /\ ~Live(k)' /\ req'[k].op \in {"so_unload", "run"} => req'[k] = req[k]

\* Where they do not, tokens change with the loads only.
LEMMA TokensSettled ==
  ASSUME Settled, NEW o \in Objects
  PROVE  \A x \in Tokens(o)' : x \in Tokens(o) \/ x[2] \in 1..loads'[x[1]][o]
<1>. SUFFICES ASSUME NEW x \in Tokens(o)', ~(x[2] \in 1..loads'[x[1]][o])
              PROVE  x \in Tokens(o)
  OBVIOUS
<1>1. /\ x \in Clients \X Nat /\ x[2] = 0 /\ ~Live(x[1])'
      /\ req'[x[1]].op = "so_unload" /\ req'[x[1]].obj = o
  BY DEF Tokens
<1>2. x[1] \in Clients
  BY <1>1
<1>3. ~Live(x[1]) /\ req'[x[1]] = req[x[1]]
  BY <1>1, <1>2 DEF Settled
<1>. QED BY <1>1, <1>3 DEF Tokens

\* Steps that leave loads, threads and their code alone.
LEMMA CodeFrame ==
  ASSUME TypeOK, TypeOK', CodeInv, Settled,
         UNCHANGED <<refs, loads, funcs, joiner, code>>,
         \A o \in Objects : image'[o] = NULL <=> image[o] = NULL,
         \A t \in Tids : thread'[t] # "none" => thread[t] # "none"
  PROVE  CodeInv'
<1>1. LoadInv'
  BY DEF CodeInv, LoadInv, Settled
<1>2. ASSUME NEW o \in Objects PROVE CountInv(o)'
  <2>1. Tokens(o)' \subseteq Tokens(o)
    <3>1. \A x \in Tokens(o)' : x \in Clients \X Nat
      BY DEF Tokens
    <3>2. \A x \in Tokens(o)' : x[2] \in 1..loads[x[1]][o] => x \in Tokens(o)
      BY <3>1 DEF Tokens
    <3>. QED BY <3>2, TokensSettled
  <2>2. Orphaned(o)' => Orphaned(o)
    BY DEF Orphaned, Settled
  <2>3. refs'[o] >= refs[o] /\ (refs'[o] = 0 <=> image'[o] = NULL)
    BY DEF CodeInv, CountInv, TypeOK
  <2>. QED BY <2>1, <2>2, <2>3, CountShrinks DEF CodeInv
<1>. QED BY <1>1, <1>2 DEF CodeInv

\* Handlers settle requests.
LEMMA HandlersSettle ==
  ASSUME TypeOK, LoopInv, NEW op, op # "none", Handles(op)
  PROVE  Settled
<1>1. /\ serving \in Clients
      /\ \A k : Live(k)' <=> Live(k)
      /\ req'[serving] = NoRequest
      /\ \A l \in Clients : l # serving => req'[l] = req[l]
  BY HandlersHandle
<1>2. NoRequest.op = "none"
  BY DEF NoRequest
<1>. QED BY <1>1, <1>2 DEF Settled

\* A client that leaves forgets its handles, but the node does not: the
\* tokens become fewer, the loads do not.
LEMMA CodeLeave ==
  ASSUME Inv, TypeOK', NEW k \in Clients, Leave(k)
  PROVE  CodeInv'
<1>. USE ConstantsAssumption
<1>0. TypeOK /\ ReqInv /\ CodeInv /\ LoadInv /\ MemInv
  BY DEF Inv, CodeInv
<1>1. /\ Live(k) /\ ~Live(k)'
      /\ \A l \in Clients : l # k => (Live(l)' <=> Live(l)) /\ req'[l] = req[l]
      /\ req'[k] \in {req[k], NoRequest}
  BY <1>0 DEF Leave, Live, TypeOK
<1>2. /\ \A o \in Objects : loads'[k][o] = 0
      /\ \A l \in Clients : l # k => loads'[l] = loads[l] /\ funcs'[l] = funcs[l]
      /\ funcs'[k] = {}
      /\ UNCHANGED <<refs, image, thread, code>>
  BY <1>0 DEF Leave, TypeOK
<1>3. \A t \in Tids : joiner'[t] = IF joiner[t] = k THEN NULL ELSE joiner[t]
  BY DEF Leave
<1>4. LoadInv'
  <2>1. \A l \in Clients, o \in Objects :
          /\ ~Live(l)' => loads'[l][o] = 0
          /\ o \in funcs'[l] => loads'[l][o] > 0
    BY <1>0, <1>1, <1>2 DEF LoadInv
  <2>2. ASSUME NEW t \in Tids, joiner'[t] # NULL
        PROVE  loads'[joiner'[t]][code'[t]] > 0
    <3>1. joiner'[t] = joiner[t] /\ joiner[t] # k /\ joiner[t] \in Clients
      BY <1>0, <1>3, <2>2 DEF TypeOK
    <3>. QED BY <1>0, <1>2, <2>2, <3>1 DEF LoadInv
  <2>. QED BY <2>1, <2>2 DEF LoadInv
<1>5. ASSUME NEW o \in Objects PROVE CountInv(o)'
  <2>0. CountInv(o) /\ loads[k][o] \in Nat
    BY <1>0 DEF CodeInv, TypeOK
  <2>1. NoRequest.op = "none"
    BY DEF NoRequest
  <2>2. ASSUME NEW x \in Tokens(o)'
        PROVE  /\ x \in Tokens(o) /\ x[1] # k
               \/ /\ x = <<k, 0>>
                  /\ req'[k].op = "so_unload" /\ req'[k].obj = o
    <3>1. /\ x \in Clients \X Nat
          /\ \/ x[2] \in 1..loads'[x[1]][o]
             \/ /\ x[2] = 0 /\ ~Live(x[1])'
                /\ req'[x[1]].op = "so_unload" /\ req'[x[1]].obj = o
      BY <2>2 DEF Tokens
    <3>2. CASE x[1] = k
      BY <1>2, <3>1, <3>2
    <3>3. CASE x[1] # k
      <4>1. x[1] \in Clients
        BY <3>1
      <4>2. /\ Live(x[1])' <=> Live(x[1]) 
            /\ req'[x[1]] = req[x[1]] /\ loads'[x[1]] = loads[x[1]]
        BY <1>1, <1>2, <3>3, <4>1
      <4>3. x \in Tokens(o)
        BY <3>1, <4>2 DEF Tokens
      <4>. QED BY <3>3, <4>3
    <3>. QED BY <3>2, <3>3
  <2>3. ASSUME Orphaned(o)', ~Orphaned(o)
        PROVE  /\ loads[k][o] > 0
               /\ ~(req'[k].op = "so_unload" /\ req'[k].obj = o)
    <3>1. CASE \E t \in Tids : thread'[t] # "none" /\ joiner'[t] = NULL /\ code'[t] = o
      <4>1. PICK t \in Tids : thread[t] # "none" /\ joiner[t] = k /\ code[t] = o
        BY <1>2, <1>3, <2>3, <3>1 DEF Orphaned
      <4>2. loads[k][o] > 0
        BY <1>0, <4>1 DEF LoadInv
      <4>. QED BY <1>0, <1>1, <2>1, <4>1, <4>2 DEF ReqInv
    <3>2. CASE \E l \in Clients : ~Live(l)' /\ req'[l].op = "run" /\ req'[l].obj = o
      <4>1. req'[k].op = "run" /\ req'[k].obj = o
        BY <1>1, <2>3, <3>2 DEF Orphaned
      <4>2. o \in funcs[k]
        BY <1>0, <1>1, <2>1, <4>1 DEF ReqInv
      <4>. QED BY <1>0, <4>1, <4>2 DEF LoadInv
    <3>. QED BY <2>3, <3>1, <3>2 DEF Orphaned
  <2>4. CASE req'[k].op = "so_unload" /\ req'[k].obj = o
    <3>1. loads[k][o] > 0
      BY <1>0, <1>1, <2>1, <2>4 DEF ReqInv
    <3>2. PICK y : y = <<k, 1>>
      OBVIOUS
    <3>3. y \in Tokens(o) /\ y[1] = k
      BY <1>0, <2>0, <3>1, <3>2, LoadedMapped
    <3>4. Tokens(o)' \subseteq (Tokens(o) \ {y}) \cup {<<k, 0>>}
      BY <2>2, <3>3
    <3>5. Orphaned(o)' => Orphaned(o)
      BY <2>3, <2>4
    <3>. QED BY <1>0, <1>2, <2>0, <3>3, <3>4, <3>5, CountSwaps
  <2>5. CASE ~(req'[k].op = "so_unload" /\ req'[k].obj = o) /\ loads[k][o] > 0
    <3>2. PICK y : y = <<k, 1>>
      OBVIOUS
    <3>3. y \in Tokens(o) /\ y[1] = k
      BY <1>0, <2>0, <2>5, <3>2, LoadedMapped
    <3>4. Tokens(o)' \subseteq Tokens(o) \ {y}
      BY <2>2, <2>5, <3>3
    <3>5. refs'[o] = refs[o] /\ (refs'[o] = 0 <=> image'[o] = NULL)
      BY <1>2, <2>0 DEF CountInv
    <3>. QED BY <1>0, <2>0, <3>3, <3>4, <3>5, CountFalls
  <2>6. CASE ~(req'[k].op = "so_unload" /\ req'[k].obj = o) /\ ~(loads[k][o] > 0)
    <3>1. Tokens(o)' \subseteq Tokens(o)
      BY <2>2, <2>6
    <3>2. Orphaned(o)' => Orphaned(o)
      BY <2>3, <2>6
    <3>3. refs'[o] >= refs[o] /\ (refs'[o] = 0 <=> image'[o] = NULL)
      BY <1>0, <1>2, <2>0 DEF CountInv, TypeOK
    <3>. QED BY <1>0, <2>0, <3>1, <3>2, <3>3, CountShrinks
  <2>. QED BY <2>4, <2>5, <2>6
<1>. QED BY <1>4, <1>5 DEF CodeInv

\* An object that no client loads or unloads keeps its tokens.
LEMMA TokensKept ==
  ASSUME Settled, NEW o \in Objects,
         \A k \in Clients : loads'[k][o] = loads[k][o]
  PROVE  Tokens(o)' \subseteq Tokens(o)
<1>1. \A x \in Tokens(o)' : x \in Clients \X Nat
  BY DEF Tokens
<1>2. \A x \in Tokens(o)' : x[2] \in 1..loads'[x[1]][o] => x \in Tokens(o)
  BY <1>1 DEF Tokens
<1>. QED BY <1>2, TokensSettled

\* Without new threads there are no new orphans.
LEMMA OrphansKept ==
  ASSUME Settled, NEW o \in Objects,
         \A t \in Tids : thread'[t] # "none" =>
           thread[t] # "none" /\ joiner'[t] = joiner[t] /\ code'[t] = code[t]
  PROVE  Orphaned(o)' => Orphaned(o)
BY DEF Orphaned, Settled

\* dlopen: one more load, and at most one more token.
LEMMA CodeSoLoad ==
  ASSUME Inv, TypeOK', HandleSoLoad
  PROVE  CodeInv'
<1>. USE ConstantsAssumption
<1>0. TypeOK /\ LoopInv /\ CodeInv /\ LoadInv
  BY DEF Inv, CodeInv
<1>1. Handles("so_load") /\ Settled
  BY <1>0, HandlersSettle DEF HandleSoLoad
<1>2. /\ serving \in Clients /\ req[serving].op = "so_load"
      /\ Handler(serving)
      /\ Live(serving) <=> conn[serving] = "served"
      /\ \A l : Live(l)' <=> Live(l)
  BY <1>0, <1>1, HandlersHandle
<1>3. PICK k \in Clients, o \in Objects : k = serving /\ o = req[k].obj
  BY <1>2, RequestFields DEF Handler
<1>4. PICK opened \in BOOLEAN :
        /\ opened => file[o] # NULL
        /\ refs' = [refs EXCEPT ![o] = IF opened THEN @ + 1 ELSE @]
        /\ image' = [image EXCEPT ![o] = IF opened /\ @ = NULL THEN file[o] ELSE @]
        /\ \E n \in {loads[k][o], loads[k][o] + 1} :
             /\ loads' = [loads EXCEPT ![k][o] = n]
             /\ n # loads[k][o] => Live(k) /\ opened
  BY <1>2, <1>3 DEF HandleSoLoad, Told
<1>5. PICK n \in {loads[k][o], loads[k][o] + 1} :
        /\ loads' = [loads EXCEPT ![k][o] = n]
        /\ n # loads[k][o] => Live(k) /\ opened
  BY <1>4
<1>6. loads[k][o] \in Nat /\ n \in Nat /\ loads \in [Clients -> [Objects -> Nat]]
  BY <1>0, <1>3, <1>5 DEF TypeOK
<1>7. /\ loads'[k][o] = n
      /\ \A l \in Clients, p \in Objects :
           l # k \/ p # o => loads'[l][p] = loads[l][p]
  BY <1>3, <1>5, <1>6, EntryChanged
<1>8. UNCHANGED <<funcs, thread, joiner, code, file>>
  BY DEF HandleSoLoad, threadVars
<1>9. LoadInv'
  <2>1. \A l \in Clients, p \in Objects : loads[l][p] > 0 => loads'[l][p] > 0
    BY <1>5, <1>6, <1>7
  <2>2. \A l \in Clients, p \in Objects : ~Live(l) => loads'[l][p] = 0
    BY <1>0, <1>5, <1>7 DEF LoadInv
  <2>3. ASSUME NEW t \in Tids, joiner[t] # NULL PROVE loads'[joiner[t]][code[t]] > 0
    <3>1. joiner[t] \in Clients /\ code[t] \in Objects
      BY <1>0, <2>3 DEF TypeOK, Inv, MemInv
    <3>. QED BY <1>0, <2>1, <2>3, <3>1 DEF LoadInv
  <2>. QED BY <1>0, <1>2, <1>8, <2>1, <2>2, <2>3 DEF LoadInv
<1>10. ASSUME NEW p \in Objects PROVE CountInv(p)'
  <2>0. CountInv(p)
    BY <1>0 DEF CodeInv
  <2>1. Orphaned(p)' => Orphaned(p)
    BY <1>1, <1>8, OrphansKept
  <2>2. CASE p # o \/ ~opened
    <3>1. refs'[p] = refs[p] /\ image'[p] = image[p]
      BY <1>0, <1>4, <2>2 DEF TypeOK
    <3>2. \A l \in Clients : loads'[l][p] = loads[l][p]
      BY <1>5, <1>7, <2>2
    <3>3. refs'[p] >= refs[p] /\ (refs'[p] = 0 <=> image'[p] = NULL)
      BY <1>0, <2>0, <3>1 DEF CountInv, TypeOK
    <3>. QED BY <1>0, <1>1, <2>0, <2>1, <3>2, <3>3, TokensKept, CountShrinks
  <2>3. CASE p = o /\ opened
    <3>1. refs'[p] = refs[p] + 1
      BY <1>0, <1>4, <2>3 DEF TypeOK
    <3>2. image'[p] # NULL
      BY <1>0, <1>4, <2>3 DEF TypeOK
    <3>3. PICK x : x = <<k, loads[k][o] + 1>>
      OBVIOUS
    <3>4. ASSUME NEW y \in Tokens(p)' PROVE y \in Tokens(p) \/ y = x
      <4>1. y \in Clients \X Nat
        BY <3>4 DEF Tokens
      <4>2. CASE y \in Tokens(p)
        BY <4>2
      <4>3. CASE y[2] \in 1..loads'[y[1]][p] /\ y[1] # k
        <5>1. loads'[y[1]][p] = loads[y[1]][p]
          BY <1>7, <4>1, <4>3
        <5>. QED BY <4>1, <4>3, <5>1 DEF Tokens
      <4>4. CASE y[2] \in 1..loads'[y[1]][p] /\ y[1] = k
        <5>1. y[2] \in 1..n
          BY <1>7, <2>3, <4>4
        <5>2. y[2] \in 1..loads[k][o] \/ y[2] = loads[k][o] + 1
          <6>1. PICK m \in Nat : m = loads[k][o]
            BY <1>6
          <6>2. PICK j : j = y[2]
            OBVIOUS
          <6>3. n = m \/ n = m + 1
            BY <6>1
          <6>4. j \in 1..m \/ j \in 1..(m + 1)
            BY <5>1, <6>2, <6>3
          <6>5. j \in 1..m \/ j = m + 1
            BY <6>4
          <6>. QED BY <6>1, <6>2, <6>5
        <5>3. CASE y[2] \in 1..loads[k][o]
          BY <2>3, <4>1, <4>4, <5>3 DEF Tokens
        <5>4. CASE y[2] = loads[k][o] + 1
          BY <3>3, <4>1, <4>4, <5>4
        <5>. QED BY <5>2, <5>3, <5>4
      <4>. QED BY <1>1, <3>4, <4>2, <4>3, <4>4, TokensSettled
    <3>5. Tokens(p)' \subseteq Tokens(p) \cup {x}
      BY <3>4
    <3>. QED BY <1>0, <2>0, <2>1, <3>1, <3>2, <3>5, CountGrows
  <2>. QED BY <2>2, <2>3
<1>. QED BY <1>9, <1>10 DEF CodeInv

\* dlclose: it undoes the dlopen of a token.
LEMMA CodeSoUnload ==
  ASSUME Inv, TypeOK', HandleSoUnload
  PROVE  CodeInv'
<1>. USE ConstantsAssumption
<1>0. TypeOK /\ LoopInv /\ MemInv /\ ReqInv /\ CodeInv /\ LoadInv
  BY DEF Inv, CodeInv
<1>1. Handles("so_unload") /\ Settled
  BY <1>0, HandlersSettle DEF HandleSoUnload
<1>2. /\ serving \in Clients /\ req[serving].op = "so_unload"
      /\ Handler(serving)
      /\ Live(serving) <=> conn[serving] = "served"
      /\ \A l : Live(l)' <=> Live(l)
      /\ req'[serving] = NoRequest
  BY <1>0, <1>1, HandlersHandle
<1>3. PICK k \in Clients, o \in Objects :
        k = serving /\ o = req[k].obj /\ req[k].op = "so_unload"
  BY <1>2, RequestFields DEF Handler
<1>4. Live(k) => /\ loads[k][o] > 0
                 /\ \A t \in Tids : ~(joiner[t] = k /\ code[t] = o)
  BY <1>0, <1>3 DEF ReqInv
<1>5. ~Live(k) => \A p \in Objects : loads[k][p] = 0
  BY <1>0 DEF LoadInv
<1>6. PICK n : n = Told(loads[k][o] - 1, 0)
  OBVIOUS
<1>7. /\ n \in Nat /\ loads[k][o] \in Nat
      /\ loads \in [Clients -> [Objects -> Nat]]
      /\ Live(k) => n = loads[k][o] - 1
      /\ ~Live(k) => n = 0
  BY <1>0, <1>2, <1>3, <1>4, <1>6 DEF TypeOK, Told
<1>8. /\ loads'[k][o] = n
      /\ \A l \in Clients, p \in Objects :
           l # k \/ p # o => loads'[l][p] = loads[l][p]
  <2>1. loads' = [loads EXCEPT ![k][o] = n]
    BY <1>3, <1>6 DEF HandleSoUnload
  <2>. QED BY <1>3, <1>7, <2>1, EntryChanged
<1>9. UNCHANGED <<thread, joiner, code, file>>
  BY DEF HandleSoUnload, threadVars
<1>10. /\ funcs'[k] = IF n = 0 THEN funcs[k] \ {o} ELSE funcs[k]
       /\ \A l \in Clients : l # k => funcs'[l] = funcs[l]
  BY <1>0, <1>3, <1>6 DEF HandleSoUnload, TypeOK
<1>11. LoadInv'
  <2>1. \A l \in Clients, p \in Objects : ~Live(l) => loads'[l][p] = 0
    BY <1>0, <1>7, <1>8 DEF LoadInv
  <2>2. ASSUME NEW l \in Clients, NEW p \in Objects, p \in funcs'[l]
        PROVE  loads'[l][p] > 0
    <3>1. p \in funcs[l] /\ (l = k /\ p = o => n # 0)
      BY <1>10, <2>2
    <3>2. CASE l = k /\ p = o
      BY <1>7, <1>8, <3>1, <3>2
    <3>3. CASE ~(l = k /\ p = o)
      BY <1>0, <1>8, <3>1, <3>3 DEF LoadInv
    <3>. QED BY <3>2, <3>3
  <2>3. ASSUME NEW t \in Tids, joiner[t] # NULL PROVE loads'[joiner[t]][code[t]] > 0
    <3>1. /\ joiner[t] \in Clients /\ code[t] \in Objects
          /\ loads[joiner[t]][code[t]] > 0
      BY <1>0, <2>3 DEF TypeOK, MemInv, LoadInv
    <3>2. ~(joiner[t] = k /\ code[t] = o)
      BY <1>4, <1>5, <3>1
    <3>. QED BY <1>8, <3>1, <3>2
  <2>. QED BY <1>2, <1>9, <2>1, <2>2, <2>3 DEF LoadInv
<1>12. ASSUME NEW p \in Objects PROVE CountInv(p)'
  <2>0. CountInv(p)
    BY <1>0 DEF CodeInv
  <2>1. Orphaned(p)' => Orphaned(p)
    BY <1>1, <1>9, OrphansKept
  <2>2. CASE p # o
    <3>1. refs'[p] = refs[p] /\ image'[p] = image[p]
      BY <1>0, <1>3, <2>2 DEF HandleSoUnload, TypeOK
    <3>2. \A l \in Clients : loads'[l][p] = loads[l][p]
      BY <1>8, <2>2
    <3>3. refs'[p] >= refs[p] /\ (refs'[p] = 0 <=> image'[p] = NULL)
      BY <1>0, <2>0, <3>1 DEF CountInv, TypeOK
    <3>. QED BY <1>0, <1>1, <2>0, <2>1, <3>2, <3>3, TokensKept, CountShrinks
  <2>3. CASE p = o
    <3>1. PICK x : x = <<k, loads[k][o]>>
      OBVIOUS
    <3>2. x \in Clients \X Nat /\ x[1] = k /\ x[2] = loads[k][o]
      BY <1>7, <3>1
    <3>3. x \in Tokens(o)
      <4>1. CASE Live(k)
        <5>1. loads[k][o] \in 1..loads[k][o]
          BY <1>4, <1>7, <4>1
        <5>. QED BY <3>2, <5>1 DEF Tokens
      <4>2. CASE ~Live(k)
        BY <1>3, <1>5, <3>2, <4>2 DEF Tokens
      <4>. QED BY <4>1, <4>2
    <3>4. ASSUME NEW y \in Tokens(o)' PROVE y \in Tokens(o) /\ y # x
      <4>1. /\ y \in Clients \X Nat
            /\ \/ y[2] \in 1..loads'[y[1]][o]
               \/ /\ y[2] = 0 /\ ~Live(y[1])'
                  /\ req'[y[1]].op = "so_unload" /\ req'[y[1]].obj = o
        BY <3>4 DEF Tokens
      <4>2. CASE y[1] # k
        <5>1. loads'[y[1]][o] = loads[y[1]][o]
          BY <1>8, <4>1, <4>2
        <5>2. y[2] \in 1..loads'[y[1]][o] => y \in Tokens(o)
          BY <4>1, <5>1 DEF Tokens
        <5>3. y \in Tokens(o)
          BY <1>1, <3>4, <5>2, TokensSettled
        <5>. QED BY <3>2, <4>2, <5>3
      <4>3. CASE y[1] = k
        <5>1. NoRequest.op # "so_unload"
          BY DEF NoRequest
        <5>2. y[2] \in 1..n
          BY <1>2, <1>3, <1>8, <4>1, <4>3, <5>1
        <5>3. y[2] \in 1..loads[k][o] /\ y[2] # loads[k][o]
          BY <1>7, <5>2
        <5>4. y \in Tokens(o)
          BY <4>1, <4>3, <5>3 DEF Tokens
        <5>. QED BY <3>2, <5>3, <5>4
      <4>. QED BY <4>2, <4>3
    <3>5. Tokens(o)' \subseteq Tokens(o) \ {x}
      BY <3>4
    <3>6. refs[o] > 0 /\ image[o] # NULL /\ refs[o] \in Nat
      BY <1>0, <2>0, <2>3, <3>3, TokenMapped DEF TypeOK
    <3>7. refs'[o] = refs[o] - 1 /\ (image'[o] = NULL <=> refs[o] = 1)
      BY <1>0, <1>3, <3>6 DEF HandleSoUnload, TypeOK
    <3>8. refs'[o] = 0 <=> image'[o] = NULL
      BY <3>6, <3>7
    <3>. QED BY <1>0, <2>0, <2>1, <2>3, <3>3, <3>5, <3>7, <3>8, CountFalls
  <2>. QED BY <2>2, <2>3
<1>. QED BY <1>11, <1>12 DEF CodeInv

\* A thread of a client that has left was an orphan before it ran.
LEMMA CodeRun ==
  ASSUME Inv, TypeOK', HandleRun
  PROVE  CodeInv'
<1>. USE ConstantsAssumption
<1>0. TypeOK /\ LoopInv /\ ReqInv /\ CodeInv /\ LoadInv
  BY DEF Inv, CodeInv
<1>1. Handles("run") /\ Settled
  BY <1>0, HandlersSettle DEF HandleRun
<1>2. /\ serving \in Clients /\ req[serving].op = "run"
      /\ Handler(serving)
      /\ Live(serving) <=> conn[serving] = "served"
      /\ \A l : Live(l)' <=> Live(l)
  BY <1>0, <1>1, HandlersHandle
<1>3. PICK k \in Clients, o \in Objects :
        k = serving /\ o = req[k].obj /\ req[k].op = "run"
  BY <1>2, RequestFields DEF Handler
<1>4. PICK t \in Tids : /\ thread[t] = "none"
                        /\ thread' = [thread EXCEPT ![t] = "running"]
                        /\ code' = [code EXCEPT ![t] = o]
                        /\ joiner' = [joiner EXCEPT ![t] = Told(k, NULL)]
  BY <1>3 DEF HandleRun
<1>5. /\ code'[t] = o
      /\ joiner'[t] = IF Live(k) THEN k ELSE NULL
      /\ \A u \in Tids : u # t => /\ thread'[u] = thread[u]
                                  /\ code'[u] = code[u]
                                  /\ joiner'[u] = joiner[u]
  BY <1>0, <1>2, <1>3, <1>4 DEF TypeOK, Told
<1>6. UNCHANGED <<refs, image, loads, funcs>>
  BY DEF HandleRun, objVars
<1>7. Live(k) => loads[k][o] > 0
  BY <1>0, <1>3 DEF ReqInv, LoadInv
<1>8. LoadInv'
  <2>1. \A l \in Clients, p \in Objects :
          /\ ~Live(l)' => loads'[l][p] = 0
          /\ p \in funcs'[l] => loads'[l][p] > 0
    BY <1>0, <1>2, <1>6 DEF LoadInv
  <2>2. ASSUME NEW u \in Tids, joiner'[u] # NULL
        PROVE  loads[joiner'[u]][code'[u]] > 0
    <3>1. CASE u = t
      BY <1>5, <1>7, <2>2, <3>1
    <3>2. CASE u # t
      BY <1>0, <1>5, <2>2, <3>2 DEF LoadInv
    <3>. QED BY <3>1, <3>2
  <2>. QED BY <1>6, <2>1, <2>2 DEF LoadInv
<1>9. ASSUME NEW p \in Objects PROVE CountInv(p)'
  <2>0. CountInv(p)
    BY <1>0 DEF CodeInv
  <2>1. Orphaned(p)' => Orphaned(p)
    <3>1. ASSUME NEW u \in Tids, thread'[u] # "none", joiner'[u] = NULL, code'[u] = p
          PROVE  Orphaned(p)
      <4>1. CASE u = t
        BY <1>3, <1>5, <3>1, <4>1 DEF Orphaned
      <4>2. CASE u # t
        BY <1>5, <3>1, <4>2 DEF Orphaned
      <4>. QED BY <4>1, <4>2
    <3>2. ASSUME NEW l \in Clients, ~Live(l)', req'[l].op = "run", req'[l].obj = p
          PROVE  Orphaned(p)
      BY <1>1, <3>2 DEF Orphaned, Settled
    <3>. QED BY <3>1, <3>2 DEF Orphaned
  <2>2. refs'[p] >= refs[p] /\ (refs'[p] = 0 <=> image'[p] = NULL)
    BY <1>0, <1>6, <2>0 DEF CountInv, TypeOK
  <2>3. Tokens(p)' \subseteq Tokens(p)
    BY <1>1, <1>6, TokensKept
  <2>. QED BY <1>0, <2>0, <2>1, <2>2, <2>3, CountShrinks
<1>. QED BY <1>8, <1>9 DEF CodeInv

\* A function pointer is into an object that its client has loaded.
LEMMA CodeFuncLoad ==
  ASSUME Inv, TypeOK', HandleFuncLoad
  PROVE  CodeInv'
<1>. USE ConstantsAssumption
<1>0. TypeOK /\ LoopInv /\ ReqInv /\ CodeInv /\ LoadInv
  BY DEF Inv, CodeInv
<1>1. Handles("func_load") /\ Settled
  BY <1>0, HandlersSettle DEF HandleFuncLoad
<1>2. /\ serving \in Clients /\ req[serving].op = "func_load"
      /\ Handler(serving)
      /\ Live(serving) <=> conn[serving] = "served"
      /\ \A l : Live(l)' <=> Live(l)
  BY <1>0, <1>1, HandlersHandle
<1>3. PICK k \in Clients, o \in Objects :
        k = serving /\ o = req[k].obj /\ req[k].op = "func_load"
  BY <1>2, RequestFields DEF Handler
<1>4. UNCHANGED <<refs, image, loads, thread, joiner, code>>
  BY DEF HandleFuncLoad, threadVars
<1>5. /\ \A l \in Clients : l # k => funcs'[l] = funcs[l]
      /\ funcs'[k] \subseteq IF Live(k) THEN funcs[k] \cup {o} ELSE funcs[k]
  BY <1>0, <1>2, <1>3 DEF HandleFuncLoad, TypeOK, Told
<1>6. LoadInv'
  <2>1. Live(k) => loads[k][o] > 0
    BY <1>0, <1>3 DEF ReqInv
  <2>2. \A l \in Clients, p \in Objects : p \in funcs'[l] => loads[l][p] > 0
    BY <1>0, <1>5, <2>1 DEF LoadInv
  <2>. QED BY <1>0, <1>2, <1>4, <2>2 DEF LoadInv
<1>7. ASSUME NEW p \in Objects PROVE CountInv(p)'
  <2>0. CountInv(p)
    BY <1>0 DEF CodeInv
  <2>1. Orphaned(p)' => Orphaned(p)
    BY <1>1, <1>4, OrphansKept
  <2>2. refs'[p] >= refs[p] /\ (refs'[p] = 0 <=> image'[p] = NULL)
    BY <1>0, <1>4, <2>0 DEF CountInv, TypeOK
  <2>3. Tokens(p)' \subseteq Tokens(p)
    BY <1>1, <1>4, TokensKept
  <2>. QED BY <1>0, <2>0, <2>1, <2>2, <2>3, CountShrinks
<1>. QED BY <1>6, <1>7 DEF CodeInv

\* A join ends a thread.
LEMMA CodeJoin ==
  ASSUME Inv, TypeOK', HandleJoin
  PROVE  CodeInv'
<1>. USE ConstantsAssumption
<1>0. TypeOK /\ LoopInv /\ CodeInv /\ LoadInv
  BY DEF Inv, CodeInv
<1>1. Handles("join") /\ Settled
  BY <1>0, HandlersSettle DEF HandleJoin
<1>2. /\ serving \in Clients /\ req[serving].op = "join"
      /\ Handler(serving)
      /\ \A l : Live(l)' <=> Live(l)
  BY <1>0, <1>1, HandlersHandle
<1>3. PICK k \in Clients, t \in Tids : k = serving /\ t = req[k].tid
  BY <1>2, RequestFields DEF Handler
<1>4. /\ thread'[t] = "none" /\ joiner'[t] = NULL
      /\ \A u \in Tids : u # t => /\ thread'[u] = thread[u]
                                  /\ code'[u] = code[u]
                                  /\ joiner'[u] = joiner[u]
  BY <1>0, <1>3 DEF TypeOK, HandleJoin
<1>5. UNCHANGED <<refs, image, loads, funcs>>
  BY DEF HandleJoin, objVars
<1>6. LoadInv'
  <2>1. \A u \in Tids : joiner'[u] # NULL => loads[joiner'[u]][code'[u]] > 0
    BY <1>0, <1>4 DEF LoadInv
  <2>. QED BY <1>0, <1>2, <1>5, <2>1 DEF LoadInv
<1>7. ASSUME NEW p \in Objects PROVE CountInv(p)'
  <2>0. CountInv(p)
    BY <1>0 DEF CodeInv
  <2>1. Orphaned(p)' => Orphaned(p)
    BY <1>1, <1>4, OrphansKept
  <2>2. refs'[p] >= refs[p] /\ (refs'[p] = 0 <=> image'[p] = NULL)
    BY <1>0, <1>5, <2>0 DEF CountInv, TypeOK
  <2>3. Tokens(p)' \subseteq Tokens(p)
    BY <1>1, <1>5, TokensKept
  <2>. QED BY <1>0, <2>0, <2>1, <2>2, <2>3, CountShrinks
<1>. QED BY <1>6, <1>7 DEF CodeInv

\* No step unloads code that is in use.
LEMMA CodeStep ==
  ASSUME Inv, TypeOK', [Next]_vars
  PROVE  CodeInv'
<1>. USE ConstantsAssumption
<1>0. TypeOK /\ LoopInv /\ MemInv /\ ReqInv /\ CodeInv /\ LoadInv
  BY DEF Inv, CodeInv
<1>r. NoRequest.op = "none"
  BY DEF NoRequest
<1>1. ASSUME NEW k \in Clients, Connect(k) PROVE CodeInv'
  <2>1. /\ conn[k] = "off" /\ Live(k)'
        /\ \A l \in Clients : l # k => conn'[l] = conn[l]
        /\ UNCHANGED req
    BY <1>0, <1>1 DEF Connect, Live, TypeOK
  <2>2. Settled
    BY <2>1 DEF Settled, Live
  <2>. QED BY <1>0, <1>1, <2>2, CodeFrame DEF Connect, objVars, threadVars
<1>2. ASSUME NEW k \in Clients, Asks(k) PROVE CodeInv'
  <2>1. PICK r : Ask(k, r)
    BY <1>2 DEF Asks
  <2>2. /\ Live(k) /\ UNCHANGED conn
        /\ \A l \in Clients : l # k => req'[l] = req[l]
    BY <1>0, <2>1 DEF Ask, Live, TypeOK
  <2>3. Settled
    BY <2>2 DEF Settled, Live
  <2>. QED BY <1>0, <2>1, <2>3, CodeFrame DEF Ask, objVars, threadVars
<1>3. CASE Accept
  <2>2. \A l \in Clients : Live(l)' <=> Live(l)
    BY <1>0, <1>3 DEF Accept, Live, TypeOK
  <2>3. Settled
    BY <1>3, <2>2 DEF Settled, Accept
  <2>. QED BY <1>0, <1>3, <2>3, CodeFrame DEF Accept, objVars, threadVars
<1>4. CASE DestroyConn
  <2>1. \A l \in Clients : Live(l)' <=> Live(l)
    BY <1>0, <1>4 DEF DestroyConn, Live, LoopInv, TypeOK
  <2>2. Settled
    BY <1>4, <2>1 DEF Settled, DestroyConn
  <2>. QED BY <1>0, <1>4, <2>2, CodeFrame DEF DestroyConn, objVars, threadVars
<1>5. ASSUME \/ ClientGone \/ HandlerDies \/ UNCHANGED vars
             \/ \E t \in Tids : CodeFaults(t)
      PROVE  CodeInv'
  <2>1. UNCHANGED <<connVars, objVars, threadVars>>
    BY <1>5 DEF ClientGone, HandlerDies, CodeFaults, vars
  <2>2. Settled
    BY <2>1 DEF Settled, Live, connVars
  <2>. QED BY <1>0, <2>1, <2>2, CodeFrame DEF objVars, threadVars
<1>6. ASSUME NEW t \in Tids, ThreadEnds(t) PROVE CodeInv'
  <2>1. /\ UNCHANGED <<conn, req, refs, image, loads, funcs, joiner, code>>
        /\ thread[t] = "running" /\ thread' = [thread EXCEPT ![t] = "done"]
    BY <1>6 DEF ThreadEnds, connVars, objVars
  <2>2. Settled
    BY <2>1 DEF Settled, Live
  <2>3. \A u \in Tids : thread'[u] # "none" => thread[u] # "none"
    BY <1>0, <2>1 DEF TypeOK
  <2>. QED BY <1>0, <2>1, <2>2, <2>3, CodeFrame
<1>7. ASSUME \/ HandleMalloc \/ HandleRealloc \/ HandleFree
             \/ HandleMemcpyC2N \/ HandleMemcpyN2C
      PROVE  CodeInv'
  <2>1. PICK op : op # "none" /\ Handles(op)
    BY <1>7 DEF HandleMalloc, HandleRealloc, HandleFree, HandleMemcpyC2N,
                HandleMemcpyN2C
  <2>2. UNCHANGED <<objVars, threadVars>>
    BY <1>7 DEF HandleMalloc, HandleRealloc, HandleFree, HandleMemcpyC2N,
                HandleMemcpyN2C
  <2>3. Settled
    BY <1>0, <2>1, HandlersSettle
  <2>. QED BY <1>0, <2>2, <2>3, CodeFrame DEF objVars, threadVars
<1>8. CASE HandleSoUpload
  <2>1. Settled
    BY <1>0, <1>8, HandlersSettle DEF HandleSoUpload
  <2>2. \A o \in Objects : image'[o] = NULL <=> image[o] = NULL
    BY <1>0, <1>8 DEF HandleSoUpload, TypeOK
  <2>. QED BY <1>0, <1>8, <2>1, <2>2, CodeFrame DEF HandleSoUpload, threadVars
<1>9. ASSUME NEW k \in Clients, Client(k) PROVE CodeInv'
  BY <1>0, <1>1, <1>2, <1>9, ClientAsks, CodeLeave
<1>. QED BY <1>3, <1>4, <1>5, <1>6, <1>7, <1>8, <1>9, CodeSoLoad, CodeSoUnload,
            CodeFuncLoad, CodeRun, CodeJoin DEF Next, Node

-----------------------------------------------------------------------------
(***************************************************************************)
(* The memory: who uses a block, and what it holds.                        *)
(***************************************************************************)

\* A request that is still there is the one that was there, of a client that
\* has not left meanwhile.
Quiet ==
  \A l \in Clients :
    req'[l].op # "none" => req'[l] = req[l] /\ (Live(l)' <=> Live(l))

\* Requests stay proper where their blocks, threads and handles stay.
LEMMA ReqFrame ==
  ASSUME TypeOK, ReqInv, Quiet,
         \A l \in Clients, b \in Blocks :
           req'[l].op # "none" /\ Uses(l, b) =>
             b \in alloc' /\ own'[b] = own[b] /\ \A t \in Tids : arg'[t] # b,
         \A l \in Clients, t \in Tids :
           req'[l].op # "none" /\ Joins(l, t) =>
             thread'[t] # "none" /\ joiner'[t] = joiner[t],
         \A l \in Clients :
           req'[l].op # "none" /\ Live(l) =>
             /\ funcs[l] \subseteq funcs'[l]
             /\ \A o \in Objects : loads[l][o] > 0 => loads'[l][o] > 0
             /\ \A t \in Tids :
                  joiner'[t] = l => joiner[t] = l /\ code'[t] = code[t]
  PROVE  ReqInv'
<1>0. \A l \in Clients :
        req[l].op \in {"so_unload", "func_load", "run"} => req[l].obj \in Objects
  <2>1. \A l \in Clients : req[l].op # "none" => req[l] \in Request
    BY DEF TypeOK, NoRequest
  <2>. QED BY <2>1, RequestFields
<1>. SUFFICES ASSUME NEW k \in Clients, req'[k].op # "none"
              PROVE  /\ \A b \in Blocks :
                          Uses(k, b)' =>
                            /\ b \in alloc' /\ own'[b] = OwnerOf(k)'
                            /\ \A t \in Tids : arg'[t] # b
                            /\ \A l \in Clients : Uses(l, b)' => l = k
                     /\ \A t \in Tids :
                          Joins(k, t)' =>
                            /\ thread'[t] # "none" /\ joiner'[t] = OwnerOf(k)'
                            /\ \A l \in Clients : Joins(l, t)' => l = k
                     /\ Live(k)' /\ req'[k].op = "so_unload" =>
                          /\ loads'[k][req'[k].obj] > 0
                          /\ \A t \in Tids :
                               ~(joiner'[t] = k /\ code'[t] = req'[k].obj)
                     /\ Live(k)' /\ req'[k].op = "func_load" =>
                          loads'[k][req'[k].obj] > 0
                     /\ Live(k)' /\ req'[k].op = "run" =>
                          req'[k].obj \in funcs'[k]
  BY DEF ReqInv, Uses, Joins, PtrOps
<1>1. req'[k] = req[k] /\ (Live(k)' <=> Live(k))
  BY DEF Quiet
<1>2. /\ OwnerOf(k)' = OwnerOf(k)
      /\ \A b : Uses(k, b)' <=> Uses(k, b)
      /\ \A t : Joins(k, t)' <=> Joins(k, t)
  BY <1>1 DEF OwnerOf, Uses, Joins
<1>3. /\ \A l \in Clients : \A b : Uses(l, b)' => Uses(l, b)
      /\ \A l \in Clients : \A t : Joins(l, t)' => Joins(l, t)
  BY DEF Quiet, Uses, Joins, PtrOps
<1>4. ASSUME NEW b \in Blocks, Uses(k, b)'
      PROVE  /\ b \in alloc' /\ own'[b] = OwnerOf(k)'
             /\ \A t \in Tids : arg'[t] # b
             /\ \A l \in Clients : Uses(l, b)' => l = k
  BY <1>2, <1>3, <1>4 DEF ReqInv
<1>5. ASSUME NEW t \in Tids, Joins(k, t)'
      PROVE  /\ thread'[t] # "none" /\ joiner'[t] = OwnerOf(k)'
             /\ \A l \in Clients : Joins(l, t)' => l = k
  BY <1>2, <1>3, <1>5 DEF ReqInv
<1>6. ASSUME Live(k)', req'[k].op = "so_unload"
      PROVE  /\ loads'[k][req'[k].obj] > 0
             /\ \A t \in Tids : ~(joiner'[t] = k /\ code'[t] = req'[k].obj)
  BY <1>0, <1>1, <1>6 DEF ReqInv
<1>7. ASSUME Live(k)', req'[k].op = "func_load" PROVE loads'[k][req'[k].obj] > 0
  BY <1>0, <1>1, <1>7 DEF ReqInv
<1>8. ASSUME Live(k)', req'[k].op = "run" PROVE req'[k].obj \in funcs'[k]
  BY <1>0, <1>1, <1>8 DEF ReqInv
<1>. QED BY <1>4, <1>5, <1>6, <1>7, <1>8

\* Handlers leave the other requests alone.
LEMMA HandlersQuiet ==
  ASSUME TypeOK, LoopInv, NEW op, op # "none", Handles(op)
  PROVE  /\ Quiet
         /\ \A l \in Clients : req'[l].op # "none" => l # serving
<1>1. /\ serving \in Clients
      /\ \A k : Live(k)' <=> Live(k)
      /\ req'[serving] = NoRequest
      /\ \A l \in Clients : l # serving => req'[l] = req[l]
  BY HandlersHandle
<1>2. NoRequest.op = "none"
  BY DEF NoRequest
<1>. QED BY <1>1, <1>2 DEF Quiet

\* The blocks in S, used by the request that is handled if by anyone, change.
LEMMA BlocksHandled ==
  ASSUME Inv, TypeOK', NEW op, op # "none", Handles(op),
         UNCHANGED <<objVars, threadVars>>, NEW S \in SUBSET Blocks,
         \A c \in Blocks \ S :
           /\ c \in alloc' <=> c \in alloc
           /\ own'[c] = own[c] /\ known'[c] = known[c] /\ mem'[c] = mem[c],
         \A c \in S :
           /\ \A t \in Tids : arg[t] # c
           /\ \A l \in Clients : l # serving => ~Uses(l, c)
           /\ own'[c] # NULL => c \in alloc'
           /\ own'[c] = NULL => known'[c] = "unknown"
           /\ known'[c] \in {"unknown", mem'[c]}
  PROVE  MemInv' /\ WorkInv' /\ ReqInv'
<1>0. TypeOK /\ LoopInv /\ MemInv /\ WorkInv /\ ReqInv
  BY DEF Inv
<1>1. UNCHANGED <<image, thread, arg, code, joiner, loads, funcs>>
  BY DEF objVars, threadVars
<1>2. \A t \in Tids : thread[t] # "none" => arg[t] \in Blocks \ S
  BY <1>0 DEF MemInv, TypeOK
<1>3. MemInv'
  <2>1. ASSUME NEW b \in Blocks
        PROVE  /\ own'[b] # NULL => b \in alloc'
               /\ own'[b] = NULL => known'[b] = "unknown"
               /\ (\A t \in Tids : thread[t] = "none" \/ arg[t] # b) =>
                    known'[b] \in {"unknown", mem'[b]}
    BY <1>0 DEF MemInv
  <2>2. ASSUME NEW t \in Tids
        PROVE  IF thread[t] = "none"
                 THEN joiner[t] = NULL /\ arg[t] = NULL /\ code[t] = NULL
                 ELSE /\ arg[t] \in alloc' /\ own'[arg[t]] = joiner[t]
                      /\ code[t] \in Objects
    BY <1>0, <1>2 DEF MemInv
  <2>3. \A t, u \in Tids : thread[t] # "none" /\ arg[t] = arg[u] => t = u
    BY <1>0 DEF MemInv
  <2>. QED BY <1>1, <2>1, <2>2, <2>3 DEF MemInv
<1>4. WorkInv'
  BY <1>0, <1>1, <1>2 DEF WorkInv
<1>5. ReqInv'
  <2>1. Quiet /\ \A l \in Clients : req'[l].op # "none" => l # serving
    BY <1>0, HandlersQuiet
  <2>2. \A l \in Clients, b \in Blocks :
          req'[l].op # "none" /\ Uses(l, b) =>
            b \in alloc' /\ own'[b] = own[b] /\ \A t \in Tids : arg'[t] # b
    BY <1>0, <1>1, <2>1 DEF ReqInv
  <2>3. \A l \in Clients, t \in Tids :
          Joins(l, t) => thread'[t] # "none" /\ joiner'[t] = joiner[t]
    BY <1>0, <1>1 DEF ReqInv
  <2>. QED BY <1>0, <1>1, <2>1, <2>2, <2>3, ReqFrame
<1>. QED BY <1>3, <1>4, <1>5

\* The block that the request in hand is about is nobody else's.
LEMMA BlockInHand ==
  ASSUME Inv, NEW op \in PtrOps, Handles(op), NEW b \in Blocks,
         req[serving].ptr = b
  PROVE  /\ b \in alloc /\ own[b] = Told(serving, NULL)
         /\ \A t \in Tids : arg[t] # b
         /\ \A l \in Clients : l # serving => ~Uses(l, b)
         /\ known[b] \in {"unknown", mem[b]}
         /\ conn[serving] # "served" => known[b] = "unknown"
         /\ serving # NULL
<1>0. TypeOK /\ LoopInv /\ MemInv /\ ReqInv /\ op # "none"
  BY DEF Inv, PtrOps
<1>1. /\ serving \in Clients /\ req[serving].op = op
      /\ OwnerOf(serving) = Told(serving, NULL)
  BY <1>0, HandlersHandle
<1>2. Uses(serving, b)
  BY <1>1 DEF Uses
<1>3. /\ b \in alloc /\ own[b] = Told(serving, NULL)
      /\ \A t \in Tids : arg[t] # b
      /\ \A l \in Clients : l # serving => ~Uses(l, b)
  BY <1>0, <1>1, <1>2 DEF ReqInv
<1>4. /\ known[b] \in {"unknown", mem[b]}
      /\ own[b] = NULL => known[b] = "unknown"
  BY <1>0, <1>3 DEF MemInv
<1>. QED BY <1>1, <1>3, <1>4, ConstantsAssumption DEF Told

\* malloc, realloc, free and memcpy.
LEMMA BlocksStep ==
  ASSUME Inv, TypeOK',
         \/ HandleMalloc \/ HandleRealloc \/ HandleFree
         \/ HandleMemcpyC2N \/ HandleMemcpyN2C
  PROVE  MemInv' /\ WorkInv' /\ ReqInv'
<1>. USE ConstantsAssumption
<1>0. TypeOK /\ LoopInv /\ MemInv /\ ReqInv
  BY DEF Inv
<1>1. UNCHANGED <<objVars, threadVars>>
  BY DEF HandleMalloc, HandleRealloc, HandleFree, HandleMemcpyC2N,
         HandleMemcpyN2C
<1>2. ASSUME NEW op, op # "none", Handles(op), UNCHANGED memVars
      PROVE  MemInv' /\ WorkInv' /\ ReqInv'
  BY <1>1, <1>2, BlocksHandled DEF memVars
<1>3. ASSUME NEW op, op # "none", Handles(op), GiveBlock
      PROVE  MemInv' /\ WorkInv' /\ ReqInv'
  <2>1. CASE UNCHANGED memVars
    BY <1>2, <1>3, <2>1
  <2>2. ASSUME NEW b \in Blocks \ alloc,
               /\ alloc' = alloc \cup {b}
               /\ own' = [own EXCEPT ![b] = Told(serving, NULL)]
               /\ UNCHANGED <<mem, known>>
        PROVE  MemInv' /\ WorkInv' /\ ReqInv'
    <3>1. own[b] = NULL /\ known[b] = "unknown"
      BY <1>0, <2>2 DEF MemInv
    <3>2. \A t \in Tids : arg[t] # b
      BY <1>0, <2>2 DEF MemInv
    <3>3. \A l \in Clients : ~Uses(l, b)
      BY <1>0, <2>2 DEF ReqInv
    <3>4. \A c \in Blocks \ {b} :
            /\ c \in alloc' <=> c \in alloc
            /\ own'[c] = own[c] /\ known'[c] = known[c] /\ mem'[c] = mem[c]
      BY <1>0, <2>2 DEF TypeOK
    <3>5. b \in alloc' /\ known'[b] = "unknown"
      BY <2>2, <3>1
    <3>6. {b} \in SUBSET Blocks
      OBVIOUS
    <3>7. \A c \in {b} :
            /\ \A t \in Tids : arg[t] # c
            /\ \A l \in Clients : l # serving => ~Uses(l, c)
            /\ own'[c] # NULL => c \in alloc'
            /\ own'[c] = NULL => known'[c] = "unknown"
            /\ known'[c] \in {"unknown", mem'[c]}
      BY <3>2, <3>3, <3>5
    <3>. QED BY <1>1, <1>3, <3>4, <3>6, <3>7, BlocksHandled
  <2>. QED BY <1>3, <2>1, <2>2 DEF GiveBlock
<1>4. ASSUME NEW op \in PtrOps, Handles(op), NEW b \in Blocks,
             req[serving].ptr = b, FreeBlock(b)
      PROVE  MemInv' /\ WorkInv' /\ ReqInv'
  <2>1. /\ \A t \in Tids : arg[t] # b
        /\ \A l \in Clients : l # serving => ~Uses(l, b)
    BY <1>4, BlockInHand
  <2>2. \A c \in Blocks \ {b} :
          /\ c \in alloc' <=> c \in alloc
          /\ own'[c] = own[c] /\ known'[c] = known[c] /\ mem'[c] = mem[c]
    BY <1>0, <1>4 DEF TypeOK, FreeBlock
  <2>3. own'[b] = NULL /\ known'[b] = "unknown"
    BY <1>0, <1>4 DEF TypeOK, FreeBlock
  <2>4. op # "none"
    BY <1>4 DEF PtrOps
  <2>5. {b} \in SUBSET Blocks
    OBVIOUS
  <2>6. \A c \in {b} :
          /\ \A t \in Tids : arg[t] # c
          /\ \A l \in Clients : l # serving => ~Uses(l, c)
          /\ own'[c] # NULL => c \in alloc'
          /\ own'[c] = NULL => known'[c] = "unknown"
          /\ known'[c] \in {"unknown", mem'[c]}
    BY <2>1, <2>3
  <2>. QED BY <1>1, <1>4, <2>2, <2>4, <2>5, <2>6, BlocksHandled
<1>5. ASSUME NEW op \in PtrOps, Handles(op), NEW b \in Blocks,
             req[serving].ptr = b, MoveBlock(b)
      PROVE  MemInv' /\ WorkInv' /\ ReqInv'
  <2>0. op # "none"
    BY <1>5 DEF PtrOps
  <2>1. CASE UNCHANGED memVars
    BY <1>2, <1>5, <2>0, <2>1
  <2>2. ASSUME NEW n \in Blocks \ alloc,
               /\ alloc' = (alloc \ {b}) \cup {n}
               /\ mem' = [mem EXCEPT ![n] = mem[b], ![b] = "junk"]
               /\ own' = [own EXCEPT ![n] = own[b], ![b] = NULL]
               /\ known' = [known EXCEPT ![n] = known[b], ![b] = "unknown"]
        PROVE  MemInv' /\ WorkInv' /\ ReqInv'
    <3>1. /\ b \in alloc /\ b # n
          /\ \A t \in Tids : arg[t] # b
          /\ \A l \in Clients : l # serving => ~Uses(l, b)
          /\ known[b] \in {"unknown", mem[b]}
      BY <1>5, <2>2, BlockInHand
    <3>2. /\ \A t \in Tids : arg[t] # n
          /\ \A l \in Clients : ~Uses(l, n)
      BY <1>0, <2>2 DEF MemInv, ReqInv
    <3>3. \A c \in Blocks \ {b, n} :
            /\ c \in alloc' <=> c \in alloc
            /\ own'[c] = own[c] /\ known'[c] = known[c] /\ mem'[c] = mem[c]
      BY <1>0, <2>2 DEF TypeOK
    <3>4. own'[b] = NULL /\ known'[b] = "unknown"
      BY <1>0, <2>2 DEF TypeOK
    <3>5. /\ n \in alloc' /\ own'[n] = own[b] /\ known'[n] = known[b]
          /\ mem'[n] = mem[b]
      BY <1>0, <2>2, <3>1 DEF TypeOK
    <3>6. own[b] = NULL => known[b] = "unknown"
      BY <1>0 DEF MemInv
    <3>7. {b, n} \in SUBSET Blocks
      OBVIOUS
    <3>8. \A c \in {b, n} :
            /\ \A t \in Tids : arg[t] # c
            /\ \A l \in Clients : l # serving => ~Uses(l, c)
            /\ own'[c] # NULL => c \in alloc'
            /\ own'[c] = NULL => known'[c] = "unknown"
            /\ known'[c] \in {"unknown", mem'[c]}
      BY <3>1, <3>2, <3>4, <3>5, <3>6
    <3>. QED BY <1>1, <1>5, <2>0, <3>3, <3>7, <3>8, BlocksHandled
  <2>. QED BY <1>5, <2>1, <2>2 DEF MoveBlock
<1>6. CASE HandleMalloc
  BY <1>2, <1>3, <1>6 DEF HandleMalloc
<1>7. CASE HandleRealloc
  <2>1. Handles("realloc") /\ "realloc" \in PtrOps
    BY <1>7 DEF HandleRealloc, PtrOps
  <2>2. req[serving].op = "realloc" /\ req[serving] \in Request
    BY <1>0, <2>1, HandlersHandle DEF Handler
  <2>3. PICK p \in Blocks \cup {NULL} : req[serving].ptr = p
    BY <2>2, RequestFields
  <2>4. \/ p = NULL /\ GiveBlock
        \/ p \in Blocks /\ (FreeBlock(p) \/ MoveBlock(p))
    BY <1>7, <2>3 DEF HandleRealloc
  <2>. QED BY <1>3, <1>4, <1>5, <2>1, <2>3, <2>4
<1>8. CASE HandleFree
  <2>1. Handles("free") /\ "free" \in PtrOps
    BY <1>8 DEF HandleFree, PtrOps
  <2>2. req[serving].op = "free" /\ req[serving] \in Request
    BY <1>0, <2>1, HandlersHandle DEF Handler
  <2>3. PICK p \in Blocks \cup {NULL} : req[serving].ptr = p
    BY <2>2, RequestFields
  <2>4. UNCHANGED memVars \/ (p \in Blocks /\ FreeBlock(p))
    BY <1>8, <2>3 DEF HandleFree
  <2>. QED BY <1>2, <1>4, <2>1, <2>3, <2>4
<1>9. CASE HandleMemcpyC2N
  <2>1. Handles("memcpy_c2n") /\ "memcpy_c2n" \in PtrOps
    BY <1>9 DEF HandleMemcpyC2N, PtrOps
  <2>2. /\ req[serving].op = "memcpy_c2n" /\ req[serving] \in Request
        /\ serving \in Clients
    BY <1>0, <2>1, HandlersHandle DEF Handler
  <2>3. PICK b \in Blocks : req[serving].ptr = b
    BY <2>2, RequestFields
  <2>4. /\ b \in alloc /\ own[b] = Told(serving, NULL)
        /\ \A t \in Tids : arg[t] # b
        /\ \A l \in Clients : l # serving => ~Uses(l, b)
        /\ conn[serving] # "served" => known[b] = "unknown"
    BY <2>1, <2>3, BlockInHand
  <2>5. \A c \in Blocks \ {b} :
          /\ c \in alloc' <=> c \in alloc
          /\ own'[c] = own[c] /\ known'[c] = known[c] /\ mem'[c] = mem[c]
    BY <1>0, <1>9, <2>3 DEF TypeOK, HandleMemcpyC2N
  <2>6. /\ b \in alloc' /\ own'[b] = own[b] /\ mem'[b] = "in"
        /\ known'[b] = Told("in", known[b])
    BY <1>0, <1>9, <2>3, <2>4 DEF TypeOK, HandleMemcpyC2N
  <2>7. /\ own'[b] = NULL => known'[b] = "unknown"
        /\ known'[b] \in {"unknown", mem'[b]}
    BY <2>2, <2>4, <2>6 DEF Told
  <2>8. {b} \in SUBSET Blocks
    OBVIOUS
  <2>9. \A c \in {b} :
          /\ \A t \in Tids : arg[t] # c
          /\ \A l \in Clients : l # serving => ~Uses(l, c)
          /\ own'[c] # NULL => c \in alloc'
          /\ own'[c] = NULL => known'[c] = "unknown"
          /\ known'[c] \in {"unknown", mem'[c]}
    BY <2>4, <2>6, <2>7
  <2>. QED BY <1>1, <2>1, <2>5, <2>8, <2>9, BlocksHandled
<1>10. CASE HandleMemcpyN2C
  BY <1>2, <1>10 DEF HandleMemcpyN2C
<1>. QED BY <1>6, <1>7, <1>8, <1>9, <1>10

\* Steps that leave blocks and threads alone keep what is known of them, if
\* the code of a thread that has ended does not come out unharmed.
LEMMA MemFrame ==
  ASSUME MemInv, WorkInv, UNCHANGED <<memVars, threadVars>>,
         \A t \in Tids :
           thread[t] = "done" /\ known[arg[t]] = "in" /\ image'[code[t]] # "torn" =>
             image[code[t]] # "torn"
  PROVE  MemInv' /\ WorkInv'
<1>1. UNCHANGED <<alloc, mem, own, known, thread, arg, code, joiner>>
  BY DEF memVars, threadVars
<1>2. MemInv'
  BY <1>1 DEF MemInv
<1>3. WorkInv'
  BY <1>1 DEF WorkInv
<1>. QED BY <1>2, <1>3

\* What a client has loaded is mapped, after a step as before it.
LEMMA StillMapped ==
  ASSUME TypeOK', NEW k \in Clients, NEW o \in Objects, CountInv(o)',
         loads'[k][o] > 0
  PROVE  image'[o] # NULL
<1>1. loads'[k][o] \in Nat /\ refs'[o] \in Nat
  BY DEF TypeOK
<1>2. 1 \in 1..loads'[k][o]
  BY <1>1
<1>3. PICK x : x = <<k, 1>>
  OBVIOUS
<1>4. x \in Clients \X Nat /\ x[1] = k /\ x[2] = 1
  BY <1>3
<1>5. x \in Tokens(o)'
  BY <1>2, <1>4 DEF Tokens
<1>6. IsFiniteSet(Tokens(o)') /\ Tokens(o)' # {}
  BY <1>5 DEF CountInv
<1>7. Cardinality(Tokens(o)') \in Nat /\ Cardinality(Tokens(o)') # 0
  BY <1>6, FS_CardinalityType, FS_EmptySet
<1>8. refs'[o] # 0
  BY <1>1, <1>7 DEF CountInv
<1>. QED BY <1>8 DEF CountInv

\* dlopen, dlclose, an upload and dlsym: code that a client relies on is not
\* unmapped, and not mapped anew.
LEMMA ObjectsStep ==
  ASSUME Inv, TypeOK', CodeInv',
         HandleSoLoad \/ HandleSoUnload \/ HandleSoUpload \/ HandleFuncLoad
  PROVE  MemInv' /\ WorkInv' /\ ReqInv'
<1>. USE ConstantsAssumption
<1>0. TypeOK /\ LoopInv /\ MemInv /\ WorkInv /\ ReqInv /\ CodeInv
  BY DEF Inv
<1>1. UNCHANGED <<memVars, threadVars>>
  BY DEF HandleSoLoad, HandleSoUnload, HandleSoUpload, HandleFuncLoad
<1>u. UNCHANGED <<alloc, own, thread, arg, joiner, code>>
  BY <1>1 DEF memVars, threadVars
<1>2. PICK op : /\ op \in {"so_load", "so_unload", "so_upload", "func_load"}
                /\ Handles(op)
  BY DEF HandleSoLoad, HandleSoUnload, HandleSoUpload, HandleFuncLoad
<1>3. Quiet /\ \A l \in Clients : req'[l].op # "none" => l # serving
  BY <1>0, <1>2, HandlersQuiet
<1>4. /\ serving \in Clients /\ req[serving].op = op /\ req[serving] \in Request
  BY <1>0, <1>2, HandlersHandle DEF Handler
<1>5. PICK k \in Clients, o \in Objects : k = serving /\ req[k].obj = o
  BY <1>2, <1>4, RequestFields
<1>6. ASSUME NEW t \in Tids, thread[t] = "done", known[arg[t]] = "in",
             image'[code[t]] # "torn"
      PROVE  image[code[t]] # "torn"
  <2>1. arg[t] \in Blocks /\ own[arg[t]] = joiner[t] /\ code[t] \in Objects
    BY <1>0, <1>6 DEF MemInv, TypeOK
  <2>2. joiner[t] \in Clients
    BY <1>0, <1>6, <2>1 DEF MemInv, TypeOK
  <2>3. image'[code[t]] # NULL
    BY <1>u, <2>1, <2>2, StillMapped DEF CodeInv, LoadInv
  <2>4. CASE HandleSoLoad
    BY <1>0, <1>5, <1>6, <2>1, <2>4 DEF HandleSoLoad, TypeOK
  <2>5. CASE HandleSoUnload
    BY <1>0, <1>5, <1>6, <2>1, <2>3, <2>5 DEF HandleSoUnload, TypeOK
  <2>6. CASE HandleSoUpload
    BY <1>0, <1>5, <1>6, <2>1, <2>6 DEF HandleSoUpload, TypeOK
  <2>7. CASE HandleFuncLoad
    BY <1>6, <2>7 DEF HandleFuncLoad
  <2>. QED BY <2>4, <2>5, <2>6, <2>7
<1>7. MemInv' /\ WorkInv'
  BY <1>0, <1>1, <1>6, MemFrame
<1>8. ASSUME NEW l \in Clients, l # k
      PROVE  funcs'[l] = funcs[l] /\ loads'[l] = loads[l]
  <2>1. CASE HandleSoLoad
    BY <1>0, <1>5, <1>8, <2>1 DEF HandleSoLoad, TypeOK
  <2>2. CASE HandleSoUnload
    BY <1>0, <1>5, <1>8, <2>2 DEF HandleSoUnload, TypeOK
  <2>3. CASE HandleSoUpload
    BY <2>3 DEF HandleSoUpload
  <2>4. CASE HandleFuncLoad
    BY <1>0, <1>5, <1>8, <2>4 DEF HandleFuncLoad, TypeOK
  <2>. QED BY <2>1, <2>2, <2>3, <2>4
<1>9. ReqInv'
  <2>1. \A l \in Clients, b \in Blocks :
          Uses(l, b) =>
            b \in alloc' /\ own'[b] = own[b] /\ \A t \in Tids : arg'[t] # b
    BY <1>0, <1>u DEF ReqInv
  <2>2. \A l \in Clients, t \in Tids :
          Joins(l, t) => thread'[t] # "none" /\ joiner'[t] = joiner[t]
    BY <1>0, <1>u DEF ReqInv
  <2>3. \A l \in Clients :
          req'[l].op # "none" =>
            /\ funcs[l] \subseteq funcs'[l]
            /\ \A p \in Objects : loads[l][p] > 0 => loads'[l][p] > 0
            /\ \A t \in Tids :
                 joiner'[t] = l => joiner[t] = l /\ code'[t] = code[t]
    BY <1>3, <1>5, <1>8, <1>u
  <2>. QED BY <1>0, <1>3, <2>1, <2>2, <2>3, ReqFrame
<1>. QED BY <1>7, <1>9

\* A thread takes over the block of the request that starts it.
LEMMA RunStep ==
  ASSUME Inv, TypeOK', HandleRun
  PROVE  MemInv' /\ WorkInv' /\ ReqInv'
<1>. USE ConstantsAssumption
<1>0. TypeOK /\ LoopInv /\ MemInv /\ WorkInv /\ ReqInv
  BY DEF Inv
<1>1. Handles("run") /\ "run" \in PtrOps
  BY DEF HandleRun, PtrOps
<1>2. /\ serving \in Clients /\ req[serving].op = "run"
      /\ req[serving] \in Request
  BY <1>0, <1>1, HandlersHandle DEF Handler
<1>3. PICK k \in Clients, o \in Objects, b \in Blocks :
        k = serving /\ o = req[k].obj /\ b = req[k].ptr
  BY <1>2, RequestFields
<1>4. /\ b \in alloc /\ own[b] = Told(k, NULL)
      /\ \A t \in Tids : arg[t] # b
      /\ \A l \in Clients : l # k => ~Uses(l, b)
      /\ known[b] \in {"unknown", mem[b]}
  BY <1>1, <1>3, BlockInHand
<1>5. PICK t \in Tids : /\ thread[t] = "none"
                        /\ thread' = [thread EXCEPT ![t] = "running"]
                        /\ arg' = [arg EXCEPT ![t] = b]
                        /\ code' = [code EXCEPT ![t] = o]
                        /\ joiner' = [joiner EXCEPT ![t] = Told(k, NULL)]
  BY <1>3 DEF HandleRun
<1>6. /\ thread'[t] = "running" /\ arg'[t] = b /\ code'[t] = o
      /\ joiner'[t] = Told(k, NULL)
      /\ \A u \in Tids : u # t => /\ thread'[u] = thread[u]
                                  /\ arg'[u] = arg[u]
                                  /\ code'[u] = code[u]
                                  /\ joiner'[u] = joiner[u]
  BY <1>0, <1>5 DEF TypeOK
<1>7. UNCHANGED <<alloc, mem, own, known, image, loads, funcs>>
  BY DEF HandleRun, memVars, objVars
<1>8. MemInv'
  <2>1. \A c \in Blocks :
          /\ own[c] # NULL => c \in alloc
          /\ own[c] = NULL => known[c] = "unknown"
          /\ (\A u \in Tids : thread'[u] = "none" \/ arg'[u] # c) =>
               known[c] \in {"unknown", mem[c]}
    BY <1>0, <1>5, <1>6 DEF MemInv
  <2>2. ASSUME NEW u \in Tids
        PROVE  IF thread'[u] = "none"
                 THEN joiner'[u] = NULL /\ arg'[u] = NULL /\ code'[u] = NULL
                 ELSE /\ arg'[u] \in alloc /\ own[arg'[u]] = joiner'[u]
                      /\ code'[u] \in Objects
    BY <1>0, <1>4, <1>6 DEF MemInv
  <2>3. \A u, v \in Tids : thread'[u] # "none" /\ arg'[u] = arg'[v] => u = v
    BY <1>0, <1>4, <1>6 DEF MemInv
  <2>. QED BY <1>7, <2>1, <2>2, <2>3 DEF MemInv
<1>9. WorkInv'
  BY <1>0, <1>4, <1>6, <1>7 DEF WorkInv
<1>10. ReqInv'
  <2>1. Quiet /\ \A l \in Clients : req'[l].op # "none" => l # serving
    BY <1>0, <1>1, HandlersQuiet
  <2>2. \A l \in Clients, c \in Blocks :
          req'[l].op # "none" /\ Uses(l, c) =>
            c \in alloc' /\ own'[c] = own[c] /\ \A u \in Tids : arg'[u] # c
    BY <1>0, <1>3, <1>4, <1>6, <1>7, <2>1 DEF ReqInv
  <2>3. \A l \in Clients, u \in Tids :
          Joins(l, u) => thread'[u] # "none" /\ joiner'[u] = joiner[u]
    BY <1>0, <1>5, <1>6 DEF ReqInv
  <2>4. \A l \in Clients :
          req'[l].op # "none" =>
            \A u \in Tids : joiner'[u] = l => joiner[u] = l /\ code'[u] = code[u]
    BY <1>3, <1>6, <2>1 DEF Told
  <2>. QED BY <1>0, <1>7, <2>1, <2>2, <2>3, <2>4, ReqFrame
<1>. QED BY <1>8, <1>9, <1>10

\* A client that has joined a thread knows what it did.
LEMMA JoinStep ==
  ASSUME Inv, TypeOK', HandleJoin
  PROVE  MemInv' /\ WorkInv' /\ ReqInv'
<1>. USE ConstantsAssumption
<1>0. TypeOK /\ LoopInv /\ MemInv /\ WorkInv /\ ReqInv
  BY DEF Inv
<1>1. Handles("join")
  BY DEF HandleJoin
<1>2. /\ serving \in Clients /\ req[serving].op = "join"
      /\ req[serving] \in Request
      /\ OwnerOf(serving) = Told(serving, NULL)
  BY <1>0, <1>1, HandlersHandle DEF Handler
<1>3. PICK k \in Clients, t \in Tids : k = serving /\ t = req[k].tid
  BY <1>2, RequestFields
<1>4. /\ thread[t] = "done"
      /\ joiner[t] = Told(k, NULL)
      /\ \A l \in Clients : l # k => ~Joins(l, t)
  BY <1>0, <1>2, <1>3 DEF HandleJoin, ReqInv, Joins
<1>5. PICK b \in Blocks : /\ b = arg[t] /\ b \in alloc
                          /\ own[b] = Told(k, NULL)
                          /\ \A u \in Tids : u # t => arg[u] # b
  BY <1>0, <1>4 DEF MemInv, TypeOK
<1>6. /\ thread'[t] = "none" /\ arg'[t] = NULL /\ code'[t] = NULL
      /\ joiner'[t] = NULL
      /\ \A u \in Tids : u # t => /\ thread'[u] = thread[u]
                                  /\ arg'[u] = arg[u]
                                  /\ code'[u] = code[u]
                                  /\ joiner'[u] = joiner[u]
  BY <1>0, <1>3 DEF TypeOK, HandleJoin
<1>7. UNCHANGED <<alloc, mem, own, image, loads, funcs>>
  BY DEF HandleJoin, objVars
<1>8. /\ \A c \in Blocks : c # b => known'[c] = known[c]
      /\ known'[b] \in {"unknown", mem[b]}
      /\ own[b] = NULL => known'[b] = "unknown"
  <2>1. PICK z : z = IF known[b] = "in" /\ image[code[t]] # "torn"
                     THEN "out" ELSE "unknown"
    OBVIOUS
  <2>2. known' = [known EXCEPT ![b] = Told(z, @)]
    BY <1>3, <1>5, <2>1 DEF HandleJoin
  <2>3. z \in {"unknown", mem[b]}
    BY <1>0, <1>4, <1>5, <2>1 DEF WorkInv
  <2>4. conn[k] # "served" => known[b] = "unknown"
    BY <1>0, <1>3, <1>5 DEF MemInv, Told
  <2>5. own[b] = NULL => conn[k] # "served"
    BY <1>3, <1>5 DEF Told
  <2>. QED BY <1>0, <1>3, <2>2, <2>3, <2>4, <2>5 DEF TypeOK, Told
<1>9. MemInv'
  <2>1. ASSUME NEW c \in Blocks
        PROVE  /\ own[c] # NULL => c \in alloc
               /\ own[c] = NULL => known'[c] = "unknown"
               /\ (\A u \in Tids : thread'[u] = "none" \/ arg'[u] # c) =>
                    known'[c] \in {"unknown", mem[c]}
    BY <1>0, <1>5, <1>6, <1>8 DEF MemInv
  <2>2. ASSUME NEW u \in Tids
        PROVE  IF thread'[u] = "none"
                 THEN joiner'[u] = NULL /\ arg'[u] = NULL /\ code'[u] = NULL
                 ELSE /\ arg'[u] \in alloc /\ own[arg'[u]] = joiner'[u]
                      /\ code'[u] \in Objects
    BY <1>0, <1>6 DEF MemInv
  <2>3. \A u, v \in Tids : thread'[u] # "none" /\ arg'[u] = arg'[v] => u = v
    <3>1. \A u \in Tids : thread'[u] # "none" => u # t /\ arg'[u] # NULL
      BY <1>0, <1>6 DEF MemInv, TypeOK
    <3>. QED BY <1>0, <1>6, <3>1 DEF MemInv
  <2>. QED BY <1>7, <2>1, <2>2, <2>3 DEF MemInv
<1>10. WorkInv'
  <2>1. \A u \in Tids : thread'[u] # "none" => u # t /\ arg[u] \in Blocks /\ arg[u] # b
    BY <1>0, <1>5, <1>6 DEF MemInv, TypeOK
  <2>. QED BY <1>0, <1>6, <1>7, <1>8, <2>1 DEF WorkInv
<1>11. ReqInv'
  <2>1. Quiet /\ \A l \in Clients : req'[l].op # "none" => l # serving
    BY <1>0, <1>1, HandlersQuiet
  <2>2. \A l \in Clients, c \in Blocks :
          Uses(l, c) =>
            c \in alloc' /\ own'[c] = own[c] /\ \A u \in Tids : arg'[u] # c
    BY <1>0, <1>6, <1>7 DEF ReqInv
  <2>3. \A l \in Clients, u \in Tids :
          req'[l].op # "none" /\ Joins(l, u) =>
            thread'[u] # "none" /\ joiner'[u] = joiner[u]
    BY <1>0, <1>3, <1>4, <1>6, <2>1 DEF ReqInv
  <2>4. \A l \in Clients :
          \A u \in Tids : joiner'[u] = l => joiner[u] = l /\ code'[u] = code[u]
    BY <1>6
  <2>. QED BY <1>0, <1>7, <2>1, <2>2, <2>3, <2>4, ReqFrame
<1>. QED BY <1>9, <1>10, <1>11

\* A thread works on its own block.
LEMMA ThreadStep ==
  ASSUME Inv, NEW t \in Tids, ThreadEnds(t)
  PROVE  MemInv' /\ WorkInv' /\ ReqInv'
<1>. USE ConstantsAssumption
<1>0. TypeOK /\ MemInv /\ WorkInv /\ ReqInv
  BY DEF Inv
<1>1. PICK b \in Blocks : /\ b = arg[t]
                          /\ \A u \in Tids : u # t => arg[u] # b
  BY <1>0 DEF ThreadEnds, MemInv, TypeOK
<1>2. /\ thread[t] = "running" /\ thread'[t] = "done"
      /\ \A u \in Tids : u # t => thread'[u] = thread[u]
      /\ mem'[b] = IF mem[b] = "in" /\ image[code[t]] # "torn" THEN "out" ELSE "junk"
      /\ \A c \in Blocks : c # b => mem'[c] = mem[c]
  BY <1>0, <1>1 DEF ThreadEnds, TypeOK
<1>3. UNCHANGED <<conn, req, alloc, own, known, image, loads, funcs, arg, code,
                  joiner>>
  BY DEF ThreadEnds, connVars, objVars
<1>4. MemInv'
  <2>1. \A c \in Blocks :
          (\A u \in Tids : thread'[u] = "none" \/ arg[u] # c) =>
            known[c] \in {"unknown", mem'[c]}
    BY <1>0, <1>1, <1>2 DEF MemInv
  <2>2. \A u \in Tids : thread'[u] = "none" <=> thread[u] = "none"
    BY <1>2
  <2>. QED BY <1>0, <1>3, <2>1, <2>2 DEF MemInv
<1>5. WorkInv'
  <2>1. known[b] \in {"unknown", mem[b]}
    BY <1>0, <1>1, <1>2 DEF WorkInv
  <2>2. \A u \in Tids : u # t /\ thread[u] # "none" => arg[u] \in Blocks /\ arg[u] # b
    BY <1>0, <1>1 DEF MemInv, TypeOK
  <2>3. ASSUME NEW u \in Tids
        PROVE  /\ thread'[u] = "running" => known[arg[u]] \in {"unknown", mem'[arg[u]]}
               /\ /\ thread'[u] = "done" /\ known[arg[u]] = "in"
                  /\ image[code[u]] # "torn"
                  => mem'[arg[u]] = "out"
    <3>1. CASE u = t
      BY <1>1, <1>2, <2>1, <3>1
    <3>2. CASE u # t
      BY <1>0, <1>2, <2>2, <3>2 DEF WorkInv
    <3>. QED BY <3>1, <3>2
  <2>. QED BY <1>3, <2>3 DEF WorkInv
<1>6. ReqInv'
  <2>1. Quiet
    BY <1>3 DEF Quiet, Live
  <2>2. \A l \in Clients, c \in Blocks :
          Uses(l, c) =>
            c \in alloc' /\ own'[c] = own[c] /\ \A u \in Tids : arg'[u] # c
    BY <1>0, <1>3 DEF ReqInv
  <2>3. \A l \in Clients, u \in Tids :
          Joins(l, u) => thread'[u] # "none" /\ joiner'[u] = joiner[u]
    BY <1>0, <1>2, <1>3 DEF ReqInv
  <2>. QED BY <1>0, <1>3, <2>1, <2>2, <2>3, ReqFrame
<1>. QED BY <1>4, <1>5, <1>6

\* A client that leaves orphans its blocks, its threads and its request.
LEMMA LeaveStep ==
  ASSUME Inv, NEW k \in Clients, Leave(k)
  PROVE  MemInv' /\ WorkInv' /\ ReqInv'
<1>. USE ConstantsAssumption
<1>0. TypeOK /\ MemInv /\ WorkInv /\ ReqInv
  BY DEF Inv
<1>1. /\ Live(k) /\ ~Live(k)'
      /\ \A l \in Clients : l # k => (Live(l)' <=> Live(l)) /\ req'[l] = req[l]
      /\ req'[k] \in {req[k], NoRequest}
  BY <1>0 DEF Leave, Live, TypeOK
<1>2. /\ \A b \in Blocks : own'[b] = IF own[b] = k THEN NULL ELSE own[b]
      /\ \A b \in Blocks : known'[b] = IF own[b] = k THEN "unknown" ELSE known[b]
      /\ \A t \in Tids : joiner'[t] = IF joiner[t] = k THEN NULL ELSE joiner[t]
  BY DEF Leave
<1>3. UNCHANGED <<alloc, mem, image, thread, arg, code>>
  BY DEF Leave
<1>4. \A t \in Tids : thread[t] # "none" => arg[t] \in Blocks
  BY <1>0 DEF MemInv, TypeOK
<1>5. MemInv'
  <2>1. \A b \in Blocks :
          /\ own'[b] # NULL => b \in alloc
          /\ own'[b] = NULL => known'[b] = "unknown"
          /\ (\A t \in Tids : thread[t] = "none" \/ arg[t] # b) =>
               known'[b] \in {"unknown", mem[b]}
    BY <1>0, <1>2 DEF MemInv
  <2>2. \A t \in Tids :
          IF thread[t] = "none"
            THEN joiner'[t] = NULL /\ arg[t] = NULL /\ code[t] = NULL
            ELSE /\ arg[t] \in alloc /\ own'[arg[t]] = joiner'[t]
                 /\ code[t] \in Objects
    BY <1>0, <1>2, <1>4 DEF MemInv
  <2>. QED BY <1>0, <1>3, <2>1, <2>2 DEF MemInv
<1>6. WorkInv'
  <2>1. \A t \in Tids : thread[t] # "none" =>
          known'[arg[t]] \in {"unknown", known[arg[t]]}
    BY <1>2, <1>4
  <2>. QED BY <1>0, <1>3, <2>1 DEF WorkInv
<1>7. ReqInv'
  <2>0. NoRequest.op = "none"
    BY DEF NoRequest
  <2>1. /\ \A l \in Clients : \A b : Uses(l, b)' => Uses(l, b)
        /\ \A l \in Clients : \A t : Joins(l, t)' => Joins(l, t)
    BY <1>1, <2>0 DEF Uses, Joins, PtrOps
  <2>2. \A l \in Clients : OwnerOf(l)' = IF OwnerOf(l) = k THEN NULL ELSE OwnerOf(l)
    BY <1>1 DEF OwnerOf
  <2>3. ASSUME NEW l \in Clients, NEW b \in Blocks, Uses(l, b)'
        PROVE  /\ b \in alloc /\ own'[b] = OwnerOf(l)'
               /\ \A t \in Tids : arg[t] # b
               /\ \A m \in Clients : Uses(m, b)' => m = l
    BY <1>0, <1>2, <2>1, <2>2, <2>3 DEF ReqInv
  <2>4. ASSUME NEW l \in Clients, NEW t \in Tids, Joins(l, t)'
        PROVE  /\ thread[t] # "none" /\ joiner'[t] = OwnerOf(l)'
               /\ \A m \in Clients : Joins(m, t)' => m = l
    BY <1>0, <1>2, <2>1, <2>2, <2>4 DEF ReqInv
  <2>5. ASSUME NEW l \in Clients, Live(l)'
        PROVE  /\ req'[l].op = "so_unload" =>
                    /\ loads'[l][req'[l].obj] > 0
                    /\ \A t \in Tids : ~(joiner'[t] = l /\ code[t] = req'[l].obj)
               /\ req'[l].op = "func_load" => loads'[l][req'[l].obj] > 0
               /\ req'[l].op = "run" => req'[l].obj \in funcs'[l]
    <3>1. l # k /\ Live(l) /\ req'[l] = req[l]
      BY <1>1, <2>5
    <3>2. loads'[l] = loads[l] /\ funcs'[l] = funcs[l]
      BY <1>0, <3>1 DEF Leave, TypeOK
    <3>3. \A t \in Tids : joiner'[t] = l => joiner[t] = l
      BY <1>2
    <3>. QED BY <1>0, <3>1, <3>2, <3>3 DEF ReqInv
  <2>. QED BY <1>3, <2>3, <2>4, <2>5 DEF ReqInv
<1>. QED BY <1>5, <1>6, <1>7

\* A client asks about blocks, threads and handles of its own.
LEMMA AskStep ==
  ASSUME Inv, NEW k \in Clients, Asks(k)
  PROVE  MemInv' /\ WorkInv' /\ ReqInv'
<1>. USE ConstantsAssumption
<1>0. TypeOK /\ MemInv /\ WorkInv /\ ReqInv
  BY DEF Inv
<1>1. PICK r : Ask(k, r) /\ Proper(k, r)
  BY DEF Asks
<1>2. /\ Live(k) /\ req'[k] = r
      /\ \A l \in Clients : l # k => req'[l] = req[l]
      /\ UNCHANGED <<conn, memVars, objVars, threadVars>>
  BY <1>0, <1>1 DEF Ask, Live, TypeOK
<1>3. UNCHANGED <<alloc, own, image, loads, funcs, thread, arg, code, joiner>>
  BY <1>2 DEF memVars, objVars, threadVars
<1>4. /\ \A l : Live(l)' <=> Live(l)
      /\ \A l : OwnerOf(l)' = OwnerOf(l)
      /\ OwnerOf(k) = k
      /\ \A l \in Clients : OwnerOf(l) = k => l = k
  BY <1>2 DEF Live, OwnerOf
<1>5. MemInv' /\ WorkInv'
  BY <1>0, <1>2, <1>3, MemFrame
<1>6. ASSUME NEW b \in Blocks, Uses(k, b)'
      PROVE  /\ b \in alloc /\ own[b] = k
             /\ \A t \in Tids : arg[t] # b
  <2>1. b \in Usable(k)
    BY <1>1, <1>2, <1>6 DEF Proper, Uses
  <2>2. own[b] = k /\ \A t \in Tids : ~(joiner[t] = k /\ arg[t] = b)
    BY <2>1 DEF Usable
  <2>3. b \in alloc
    BY <1>0, <2>2 DEF MemInv
  <2>4. \A t \in Tids : arg[t] # b
    BY <1>0, <2>2 DEF MemInv
  <2>. QED BY <2>2, <2>3, <2>4
<1>7. ASSUME NEW t \in Tids, Joins(k, t)'
      PROVE  thread[t] # "none" /\ joiner[t] = k
  <2>1. joiner[t] = k
    BY <1>1, <1>2, <1>7 DEF Proper, Joins
  <2>. QED BY <1>0, <2>1 DEF MemInv
<1>8. ReqInv'
  <2>1. /\ \A l \in Clients : \A b : l # k => (Uses(l, b)' <=> Uses(l, b))
        /\ \A l \in Clients : \A t : l # k => (Joins(l, t)' <=> Joins(l, t))
    BY <1>2 DEF Uses, Joins
  <2>2. ASSUME NEW l \in Clients, NEW b \in Blocks, Uses(l, b)'
        PROVE  /\ b \in alloc /\ own[b] = OwnerOf(l)
               /\ \A t \in Tids : arg[t] # b
    BY <1>0, <1>4, <1>6, <2>1, <2>2 DEF ReqInv
  <2>3. ASSUME NEW l \in Clients, NEW b \in Blocks, Uses(l, b)',
               NEW m \in Clients, Uses(m, b)'
        PROVE  m = l
    <3>1. OwnerOf(l) = OwnerOf(m)
      BY <2>2, <2>3
    <3>. QED BY <1>0, <1>4, <2>1, <2>3, <3>1 DEF ReqInv
  <2>4. ASSUME NEW l \in Clients, NEW t \in Tids, Joins(l, t)'
        PROVE  thread[t] # "none" /\ joiner[t] = OwnerOf(l)
    BY <1>0, <1>4, <1>7, <2>1, <2>4 DEF ReqInv
  <2>5. ASSUME NEW l \in Clients, NEW t \in Tids, Joins(l, t)',
               NEW m \in Clients, Joins(m, t)'
        PROVE  m = l
    <3>1. OwnerOf(l) = OwnerOf(m)
      BY <2>4, <2>5
    <3>. QED BY <1>0, <1>4, <2>1, <2>5, <3>1 DEF ReqInv
  <2>6. ASSUME NEW l \in Clients, Live(l)
        PROVE  /\ req'[l].op = "so_unload" =>
                    /\ loads[l][req'[l].obj] > 0
                    /\ \A t \in Tids : ~(joiner[t] = l /\ code[t] = req'[l].obj)
               /\ req'[l].op = "func_load" => loads[l][req'[l].obj] > 0
               /\ req'[l].op = "run" => req'[l].obj \in funcs[l]
    <3>1. CASE l = k
      BY <1>1, <1>2, <3>1 DEF Proper, Unloadable
    <3>2. CASE l # k
      BY <1>0, <1>2, <2>6, <3>2 DEF ReqInv
    <3>. QED BY <3>1, <3>2
  <2>. QED BY <1>3, <1>4, <2>2, <2>3, <2>4, <2>5, <2>6 DEF ReqInv
<1>. QED BY <1>5, <1>8

\* No step lets two parties use a block, or a client mistake what is in one.
LEMMA HeapStep ==
  ASSUME Inv, TypeOK', CodeInv', [Next]_vars
  PROVE  MemInv' /\ WorkInv' /\ ReqInv'
<1>0. TypeOK /\ LoopInv /\ MemInv /\ WorkInv /\ ReqInv
  BY DEF Inv
<1>1. ASSUME Quiet, UNCHANGED <<memVars, objVars, threadVars>>
      PROVE  MemInv' /\ WorkInv' /\ ReqInv'
  <2>1. UNCHANGED <<alloc, own, image, loads, funcs, thread, arg, code, joiner>>
    BY <1>1 DEF memVars, objVars, threadVars
  <2>2. MemInv' /\ WorkInv'
    BY <1>0, <1>1, <2>1, MemFrame
  <2>3. \A l \in Clients, b \in Blocks :
          Uses(l, b) =>
            b \in alloc' /\ own'[b] = own[b] /\ \A t \in Tids : arg'[t] # b
    BY <1>0, <2>1 DEF ReqInv
  <2>4. \A l \in Clients, t \in Tids :
          Joins(l, t) => thread'[t] # "none" /\ joiner'[t] = joiner[t]
    BY <1>0, <2>1 DEF ReqInv
  <2>. QED BY <1>0, <1>1, <2>1, <2>2, <2>3, <2>4, ReqFrame
<1>2. ASSUME NEW k \in Clients, Connect(k) PROVE MemInv' /\ WorkInv' /\ ReqInv'
  <2>1. /\ conn[k] = "off"
        /\ \A l \in Clients : l # k => conn'[l] = conn[l]
        /\ UNCHANGED req
    BY <1>0, <1>2 DEF Connect, TypeOK
  <2>2. req[k].op = "none"
    BY <1>0, <2>1 DEF LoopInv, NoRequest
  <2>3. Quiet
    BY <2>1, <2>2 DEF Quiet, Live
  <2>. QED BY <1>1, <1>2, <2>3 DEF Connect
<1>3. CASE Accept
  <2>1. \A l \in Clients : Live(l)' <=> Live(l)
    BY <1>0, <1>3 DEF Accept, Live, TypeOK
  <2>2. Quiet
    BY <1>3, <2>1 DEF Quiet, Accept
  <2>. QED BY <1>1, <1>3, <2>2 DEF Accept
<1>4. CASE DestroyConn
  <2>1. \A l \in Clients : Live(l)' <=> Live(l)
    BY <1>0, <1>4 DEF DestroyConn, Live, LoopInv, TypeOK
  <2>2. Quiet
    BY <1>4, <2>1 DEF Quiet, DestroyConn
  <2>. QED BY <1>1, <1>4, <2>2 DEF DestroyConn
<1>5. ASSUME \/ ClientGone \/ HandlerDies \/ UNCHANGED vars
             \/ \E t \in Tids : CodeFaults(t)
      PROVE  MemInv' /\ WorkInv' /\ ReqInv'
  <2>1. UNCHANGED <<connVars, memVars, objVars, threadVars>>
    BY <1>5 DEF ClientGone, HandlerDies, CodeFaults, vars
  <2>2. Quiet
    BY <2>1 DEF Quiet, Live, connVars
  <2>. QED BY <1>1, <2>1, <2>2
<1>6. ASSUME NEW k \in Clients, Client(k) PROVE MemInv' /\ WorkInv' /\ ReqInv'
  BY <1>0, <1>2, <1>6, ClientAsks, LeaveStep, AskStep
<1>. QED BY <1>3, <1>4, <1>5, <1>6, BlocksStep, ObjectsStep, RunStep, JoinStep,
            ThreadStep DEF Next, Node

-----------------------------------------------------------------------------
(***************************************************************************)
(* The theorems.                                                           *)
(***************************************************************************)

\* At first nobody is connected and nothing is loaded.
LEMMA InitInv ==
  ASSUME Init
  PROVE  Inv
<1>. USE ConstantsAssumption
<1>1. TypeOK
  <2>1. backlog \in Seq(Clients)
    BY DEF Init
  <2>2. 0 \in Nat /\ {} \in SUBSET Objects /\ {} \in SUBSET Blocks
    OBVIOUS
  <2>. QED BY <2>1, <2>2 DEF Init, TypeOK
<1>2. LoopInv
  <2>1. Len(backlog) = 0
    BY DEF Init
  <2>2. \A i \in 1..Len(backlog) : FALSE
    BY <2>1
  <2>. QED BY <2>2 DEF Init, LoopInv
<1>3. MemInv /\ WorkInv
  <2>1. MemInv
    BY DEF Init, MemInv
  <2>2. WorkInv
    BY DEF Init, WorkInv
  <2>. QED BY <2>1, <2>2
<1>4. \A k \in Clients : req[k].op = "none"
  BY DEF Init, NoRequest
<1>5. ReqInv
  BY <1>4 DEF ReqInv, Uses, Joins, PtrOps
<1>6. CodeInv
  <2>1. LoadInv
    BY DEF Init, LoadInv
  <2>2. ASSUME NEW o \in Objects PROVE CountInv(o)
    <3>1. ASSUME NEW x \in Tokens(o) PROVE FALSE
      <4>1. x \in Clients \X Nat /\ (x[2] \in 1..loads[x[1]][o] \/ req[x[1]].op = "so_unload")
        BY <3>1 DEF Tokens
      <4>2. x[1] \in Clients
        BY <4>1
      <4>3. loads[x[1]][o] = 0
        BY <4>2 DEF Init
      <4>. QED BY <1>4, <4>1, <4>2, <4>3
    <3>2. Tokens(o) = {}
      BY <3>1
    <3>3. IsFiniteSet(Tokens(o)) /\ Cardinality(Tokens(o)) = 0
      BY <3>2, FS_EmptySet
    <3>4. ~Orphaned(o)
      BY <1>4 DEF Init, Orphaned
    <3>5. refs[o] = 0 /\ image[o] = NULL
      BY DEF Init
    <3>. QED BY <3>3, <3>4, <3>5 DEF CountInv
  <2>. QED BY <2>1, <2>2 DEF CodeInv
<1>. QED BY <1>1, <1>2, <1>3, <1>5, <1>6 DEF Inv

\* The inductive invariant holds of every execution of a node and its
\* clients, whatever they ask for and whenever they leave.
THEOREM Invariance == Spec => []Inv
<1>1. Init => Inv
  BY InitInv
<1>2. Inv /\ [Next]_vars => Inv'
  <2>. SUFFICES ASSUME Inv, [Next]_vars PROVE Inv'
    OBVIOUS
  <2>1. TypeOK'
    BY TypeStep
  <2>2. LoopInv'
    BY LoopStep DEF Inv
  <2>3. CodeInv'
    BY <2>1, CodeStep
  <2>4. MemInv' /\ WorkInv' /\ ReqInv'
    BY <2>1, <2>3, HeapStep
  <2>. QED BY <2>1, <2>2, <2>3, <2>4 DEF Inv
<1>. QED BY <1>1, <1>2, PTL DEF Spec

\* The types: what the node unloads had been loaded (its counts do not become
\* negative), and what it joins is a thread with a block to work on.
THEOREM TypeCorrectness == Spec => []TypeOK
<1>1. Inv => TypeOK
  BY DEF Inv
<1>. QED BY <1>1, Invariance, PTL

\* Whatever other clients do, have done or have left running, a client finds
\* in its memory on the node what it takes to be there.
THEOREM MemoryCoherent == Spec => []Coherent
<1>1. Inv => Coherent
  <2>. SUFFICES ASSUME Inv, NEW k \in Clients, NEW b \in Usable(k)
                PROVE  b \in alloc /\ known[b] \in {"unknown", mem[b]}
    BY DEF Coherent
  <2>1. /\ b \in Blocks /\ own[b] = k
        /\ \A t \in Tids : ~(joiner[t] = k /\ arg[t] = b)
    BY DEF Usable
  <2>2. \A t \in Tids : thread[t] = "none" \/ arg[t] # b
    BY <2>1 DEF Inv, MemInv
  <2>. QED BY <2>1, <2>2, ConstantsAssumption DEF Inv, MemInv
<1>. QED BY <1>1, Invariance, PTL

\* Code that a thread runs or a client can call is mapped, for any number of
\* clients that load and unload it, and leave before they have unloaded it.
THEOREM CodeInUseMapped == Spec => []CodeMapped
<1>1. Inv => CodeMapped
  <2>. SUFFICES ASSUME Inv, NEW o \in Objects,
                       \/ \E t \in Tids : thread[t] = "running" /\ code[t] = o
                       \/ \E k \in Clients : o \in funcs[k]
                PROVE  refs[o] > 0 /\ image[o] # NULL
    BY DEF CodeMapped
  <2>0. TypeOK /\ CountInv(o) /\ LoadInv
    BY DEF Inv, CodeInv
  <2>1. ASSUME Orphaned(o) PROVE refs[o] > 0 /\ image[o] # NULL
    <3>1. PICK c \in Nat, n \in Nat : c = Cardinality(Tokens(o)) /\ n = refs[o]
      BY <2>0, FS_CardinalityType DEF CountInv, TypeOK
    <3>2. c < n
      BY <2>0, <2>1, <3>1 DEF CountInv
    <3>3. n > 0
      BY <3>2
    <3>. QED BY <2>0, <3>1, <3>3 DEF CountInv
  <2>2. ASSUME NEW k \in Clients, loads[k][o] > 0
        PROVE  refs[o] > 0 /\ image[o] # NULL
    BY <2>0, <2>2, LoadedMapped
  <2>3. CASE \E k \in Clients : o \in funcs[k]
    BY <2>0, <2>2, <2>3 DEF LoadInv
  <2>4. ASSUME NEW t \in Tids, thread[t] = "running", code[t] = o
        PROVE  refs[o] > 0 /\ image[o] # NULL
    <3>1. CASE joiner[t] = NULL
      BY <2>1, <2>4, <3>1 DEF Orphaned
    <3>2. CASE joiner[t] # NULL
      <4>1. joiner[t] \in Clients /\ loads[joiner[t]][o] > 0
        BY <2>0, <2>4, <3>2 DEF LoadInv, TypeOK
      <4>. QED BY <2>2, <4>1
    <3>. QED BY <3>1, <3>2
  <2>. QED BY <2>3, <2>4
<1>. QED BY <1>1, Invariance, PTL

-----------------------------------------------------------------------------
(***************************************************************************)
(* The refinement of RemoteMemory.                                         *)
(***************************************************************************)

\* A step that clients do not see, and one that they do.
Unseen == UNCHANGED <<own, Visible, WorkedOn("running"), WorkedOn("done")>>
Refines == Memory!Next \/ Unseen

LEMMA MemoryInit == Init => Memory!Init
<1>. SUFFICES ASSUME Init PROVE Memory!Init
  OBVIOUS
<1>1. Visible = [b \in Blocks |-> "free"]
  BY DEF Init, Visible
<1>2. WorkedOn("running") = {} /\ WorkedOn("done") = {}
  BY DEF Init, WorkedOn
<1>. QED BY <1>1, <1>2 DEF Init, Memory!Init

LEMMA ThreadsUnseen ==
  ASSUME UNCHANGED threadVars
  PROVE  \A s : WorkedOn(s)' = WorkedOn(s)
BY DEF threadVars, WorkedOn

LEMMA HeapUnseen ==
  ASSUME UNCHANGED <<own, mem, threadVars>>
  PROVE  Refines
<1>1. Visible' = Visible
  BY DEF Visible
<1>2. WorkedOn("running")' = WorkedOn("running") /\ WorkedOn("done")' = WorkedOn("done")
  BY ThreadsUnseen
<1>. QED BY <1>1, <1>2 DEF Refines, Unseen

\* Nobody works on a block that no thread has for its argument.
LEMMA RestingBlock ==
  ASSUME NEW b \in Blocks, \A t \in Tids : arg[t] # b, own[b] # NULL
  PROVE  Memory!AtRest(b)
BY DEF Memory!AtRest, WorkedOn

LEMMA GiveRefines ==
  ASSUME Inv, GiveBlock, UNCHANGED threadVars, serving \in Clients
  PROVE  Refines
<1>0. TypeOK /\ MemInv
  BY DEF Inv
<1>1. CASE UNCHANGED memVars
  BY <1>1, HeapUnseen DEF memVars
<1>2. ASSUME NEW b \in Blocks \ alloc,
             own' = [own EXCEPT ![b] = Told(serving, NULL)], mem' = mem
      PROVE  Refines
  <2>1. own[b] = NULL /\ mem[b] \in {"junk", "in", "out"}
    BY <1>0 DEF MemInv, TypeOK
  <2>2. CASE Told(serving, NULL) = NULL
    <3>1. own' = own
      BY <1>0, <1>2, <2>1, <2>2 DEF TypeOK
    <3>. QED BY <1>2, <3>1, HeapUnseen
  <2>3. CASE Told(serving, NULL) # NULL
    <3>1. Told(serving, NULL) = serving
      BY <2>3 DEF Told
    <3>2. own' = [own EXCEPT ![b] = serving] /\ serving # NULL
      BY <1>2, <2>3, <3>1
    <3>3. Visible' = [Visible EXCEPT ![b] = mem[b]]
      BY <1>0, <1>2, <3>2 DEF Visible, TypeOK
    <3>4. Memory!Allocate(serving, b)
      BY <2>1, <3>2, <3>3, ThreadsUnseen DEF Memory!Allocate
    <3>. QED BY <3>4 DEF Memory!Next, Refines
  <2>. QED BY <2>2, <2>3
<1>. QED BY <1>1, <1>2 DEF GiveBlock, memVars

LEMMA FreeRefines ==
  ASSUME Inv, UNCHANGED threadVars, NEW b \in Blocks, FreeBlock(b),
         \A t \in Tids : arg[t] # b
  PROVE  Refines
<1>0. TypeOK
  BY DEF Inv
<1>1. Visible' = [Visible EXCEPT ![b] = "free"]
  BY <1>0 DEF Visible, FreeBlock, TypeOK
<1>2. CASE own[b] = NULL
  <2>1. own' = own /\ Visible' = Visible
    BY <1>0, <1>1, <1>2 DEF FreeBlock, TypeOK, Visible
  <2>. QED BY <2>1, ThreadsUnseen DEF Refines, Unseen
<1>3. CASE own[b] # NULL
  <2>1. Memory!AtRest(b)
    BY <1>3, RestingBlock
  <2>2. Memory!Release(b)
    BY <1>1, <2>1, ThreadsUnseen DEF Memory!Release, FreeBlock
  <2>. QED BY <2>2 DEF Memory!Next, Refines
<1>. QED BY <1>2, <1>3

LEMMA MoveRefines ==
  ASSUME Inv, UNCHANGED threadVars, NEW b \in Blocks, MoveBlock(b), b \in alloc,
         \A t \in Tids : arg[t] # b
  PROVE  Refines
<1>0. TypeOK /\ MemInv
  BY DEF Inv
<1>1. CASE UNCHANGED memVars
  BY <1>1, HeapUnseen DEF memVars
<1>2. ASSUME NEW n \in Blocks \ alloc,
             mem' = [mem EXCEPT ![n] = mem[b], ![b] = "junk"],
             own' = [own EXCEPT ![n] = own[b], ![b] = NULL]
      PROVE  Refines
  <2>1. n # b /\ own[n] = NULL
    BY <1>0 DEF MemInv
  <2>2. Visible' = [Visible EXCEPT ![n] = Visible[b], ![b] = "free"]
    BY <1>0, <1>2, <2>1 DEF Visible, TypeOK
  <2>3. CASE own[b] = NULL
    <3>1. own' = own /\ Visible' = Visible
      BY <1>0, <1>2, <2>1, <2>2, <2>3 DEF TypeOK, Visible
    <3>. QED BY <3>1, ThreadsUnseen DEF Refines, Unseen
  <2>4. CASE own[b] # NULL
    <3>1. Memory!AtRest(b)
      BY <2>4, RestingBlock
    <3>2. Memory!Move(b, n)
      BY <1>2, <2>1, <2>2, <3>1, ThreadsUnseen DEF Memory!Move
    <3>. QED BY <3>2 DEF Memory!Next, Refines
  <2>. QED BY <2>3, <2>4
<1>. QED BY <1>1, <1>2 DEF MoveBlock

\* malloc, realloc, free and memcpy.
LEMMA BlocksRefine ==
  ASSUME Inv,
         \/ HandleMalloc \/ HandleRealloc \/ HandleFree
         \/ HandleMemcpyC2N \/ HandleMemcpyN2C
  PROVE  Refines
<1>0. TypeOK /\ LoopInv
  BY DEF Inv
<1>1. UNCHANGED threadVars
  BY DEF HandleMalloc, HandleRealloc, HandleFree, HandleMemcpyC2N, HandleMemcpyN2C
<1>2. CASE HandleMalloc
  <2>1. serving \in Clients
    <3>1. "malloc" # "none" /\ Handles("malloc")
      BY <1>2 DEF HandleMalloc
    <3>. QED BY <1>0, <3>1, HandlersHandle
  <2>2. UNCHANGED memVars \/ GiveBlock
    BY <1>2 DEF HandleMalloc
  <2>. QED BY <1>1, <2>1, <2>2, GiveRefines, HeapUnseen DEF memVars
<1>3. CASE HandleRealloc
  <2>1. "realloc" # "none" /\ "realloc" \in PtrOps /\ Handles("realloc")
    BY <1>3 DEF HandleRealloc, PtrOps
  <2>2. serving \in Clients /\ req[serving].op = "realloc" /\ req[serving] \in Request
    BY <1>0, <2>1, HandlersHandle DEF Handler
  <2>3. PICK p \in Blocks \cup {NULL} : p = req[serving].ptr
    BY <2>2, RequestFields
  <2>4. CASE p = NULL
    <3>1. GiveBlock
      BY <1>3, <2>3, <2>4 DEF HandleRealloc
    <3>. QED BY <1>1, <2>2, <3>1, GiveRefines
  <2>5. CASE p # NULL
    <3>1. p \in Blocks /\ (FreeBlock(p) \/ MoveBlock(p))
      BY <1>3, <2>3, <2>5 DEF HandleRealloc
    <3>2. p \in alloc /\ \A t \in Tids : arg[t] # p
      BY <2>1, <2>3, <3>1, BlockInHand
    <3>. QED BY <1>1, <3>1, <3>2, FreeRefines, MoveRefines
  <2>. QED BY <2>4, <2>5
<1>4. CASE HandleFree
  <2>1. "free" # "none" /\ "free" \in PtrOps /\ Handles("free")
    BY <1>4 DEF HandleFree, PtrOps
  <2>2. serving \in Clients /\ req[serving].op = "free" /\ req[serving] \in Request
    BY <1>0, <2>1, HandlersHandle DEF Handler
  <2>3. PICK p \in Blocks \cup {NULL} : p = req[serving].ptr
    BY <2>2, RequestFields
  <2>4. CASE p = NULL
    <3>1. UNCHANGED memVars
      BY <1>4, <2>3, <2>4 DEF HandleFree
    <3>. QED BY <1>1, <3>1, HeapUnseen DEF memVars
  <2>5. CASE p # NULL
    <3>1. p \in Blocks /\ FreeBlock(p)
      BY <1>4, <2>3, <2>5 DEF HandleFree
    <3>2. \A t \in Tids : arg[t] # p
      BY <2>1, <2>3, <3>1, BlockInHand
    <3>. QED BY <1>1, <3>1, <3>2, FreeRefines
  <2>. QED BY <2>4, <2>5
<1>5. CASE HandleMemcpyC2N
  <2>1. "memcpy_c2n" # "none" /\ "memcpy_c2n" \in PtrOps /\ Handles("memcpy_c2n")
    BY <1>5 DEF HandleMemcpyC2N, PtrOps
  <2>2. req[serving].op = "memcpy_c2n" /\ req[serving] \in Request
    BY <1>0, <2>1, HandlersHandle DEF Handler
  <2>3. PICK b \in Blocks : b = req[serving].ptr
    BY <2>2, RequestFields
  <2>4. mem' = [mem EXCEPT ![b] = "in"] /\ own' = own
    BY <1>5, <2>3 DEF HandleMemcpyC2N
  <2>5. CASE own[b] = NULL
    <3>1. Visible' = Visible
      BY <1>0, <2>4, <2>5 DEF Visible, TypeOK
    <3>. QED BY <1>1, <2>4, <3>1, ThreadsUnseen DEF Refines, Unseen
  <2>6. CASE own[b] # NULL
    <3>1. Visible' = [Visible EXCEPT ![b] = "in"]
      BY <1>0, <2>4, <2>6 DEF Visible, TypeOK
    <3>2. \A t \in Tids : arg[t] # b
      BY <2>1, <2>3, BlockInHand
    <3>3. Memory!AtRest(b)
      BY <2>6, <3>2, RestingBlock
    <3>4. Memory!Write(b)
      BY <1>1, <2>4, <3>1, <3>3, ThreadsUnseen DEF Memory!Write
    <3>. QED BY <3>4 DEF Memory!Next, Refines
  <2>. QED BY <2>5, <2>6
<1>6. CASE HandleMemcpyN2C
  BY <1>6, HeapUnseen DEF HandleMemcpyN2C, memVars
<1>. QED BY <1>2, <1>3, <1>4, <1>5, <1>6

\* pthread_create: of the threads, only the new one works on the block.
LEMMA RunRefines ==
  ASSUME Inv, HandleRun
  PROVE  Refines
<1>. USE ConstantsAssumption
<1>0. TypeOK /\ LoopInv /\ MemInv
  BY DEF Inv
<1>1. "run" # "none" /\ "run" \in PtrOps /\ Handles("run")
  BY DEF HandleRun, PtrOps
<1>2. serving \in Clients /\ req[serving].op = "run" /\ req[serving] \in Request
  BY <1>0, <1>1, HandlersHandle DEF Handler
<1>3. PICK b \in Blocks : b = req[serving].ptr
  BY <1>2, RequestFields
<1>4. own[b] = Told(serving, NULL) /\ \A u \in Tids : arg[u] # b
  BY <1>1, <1>3, BlockInHand
<1>5. PICK t \in Tids :
        /\ thread[t] = "none"
        /\ thread' = [thread EXCEPT ![t] = "running"]
        /\ arg' = [arg EXCEPT ![t] = b]
        /\ joiner' = [joiner EXCEPT ![t] = own[b]]
  BY <1>3, <1>4 DEF HandleRun
<1>6. UNCHANGED <<own, mem>> /\ Visible' = Visible
  BY DEF HandleRun, memVars, Visible
<1>7. /\ thread'[t] = "running" /\ arg'[t] = b /\ joiner'[t] = own[b]
      /\ \A u \in Tids : u # t => /\ thread'[u] = thread[u] /\ arg'[u] = arg[u]
                                  /\ joiner'[u] = joiner[u]
  BY <1>0, <1>5 DEF TypeOK
<1>8. joiner[t] = NULL
  BY <1>0, <1>5 DEF MemInv
<1>9. WorkedOn("done")' = WorkedOn("done")
  BY <1>5, <1>7 DEF WorkedOn
<1>10. CASE own[b] = NULL
  <2>1. WorkedOn("running")' = WorkedOn("running")
    BY <1>7, <1>8, <1>10 DEF WorkedOn
  <2>. QED BY <1>6, <1>9, <2>1 DEF Refines, Unseen
<1>11. CASE own[b] # NULL
  <2>1. WorkedOn("running")' = WorkedOn("running") \cup {b}
    BY <1>7, <1>8, <1>11 DEF WorkedOn
  <2>2. Memory!AtRest(b)
    BY <1>4, <1>11, RestingBlock
  <2>3. Memory!Start(b)
    BY <1>6, <1>9, <2>1, <2>2 DEF Memory!Start
  <2>. QED BY <2>3 DEF Memory!Next, Refines
<1>. QED BY <1>10, <1>11

\* pthread_join: the thread has ended.
LEMMA JoinRefines ==
  ASSUME Inv, HandleJoin
  PROVE  Refines
<1>. USE ConstantsAssumption
<1>0. TypeOK /\ LoopInv /\ MemInv
  BY DEF Inv
<1>1. "join" # "none" /\ Handles("join")
  BY DEF HandleJoin
<1>2. serving \in Clients /\ req[serving].op = "join" /\ req[serving] \in Request
  BY <1>0, <1>1, HandlersHandle DEF Handler
<1>3. PICK t \in Tids : t = req[serving].tid
  BY <1>2, RequestFields
<1>4. /\ thread[t] = "done"
      /\ thread' = [thread EXCEPT ![t] = "none"]
      /\ arg' = [arg EXCEPT ![t] = NULL]
      /\ joiner' = [joiner EXCEPT ![t] = NULL]
  BY <1>3 DEF HandleJoin
<1>5. UNCHANGED <<own, mem>> /\ Visible' = Visible
  BY DEF HandleJoin, Visible
<1>6. /\ thread'[t] = "none" /\ joiner'[t] = NULL
      /\ \A u \in Tids : u # t => /\ thread'[u] = thread[u] /\ arg'[u] = arg[u]
                                  /\ joiner'[u] = joiner[u]
  BY <1>0, <1>4 DEF TypeOK
<1>7. PICK b \in Blocks : b = arg[t]
  BY <1>0, <1>4 DEF MemInv, TypeOK
<1>8. WorkedOn("running")' = WorkedOn("running")
  BY <1>4, <1>6 DEF WorkedOn
<1>9. CASE joiner[t] = NULL
  <2>1. WorkedOn("done")' = WorkedOn("done")
    BY <1>6, <1>9 DEF WorkedOn
  <2>. QED BY <1>5, <1>8, <2>1 DEF Refines, Unseen
<1>10. CASE joiner[t] # NULL
  <2>1. b \in WorkedOn("done")
    BY <1>4, <1>7, <1>10 DEF WorkedOn
  <2>2. \A u \in Tids : u # t => arg[u] # b
    BY <1>0, <1>4, <1>7 DEF MemInv
  <2>3. WorkedOn("done")' = WorkedOn("done") \ {b}
    BY <1>6, <1>7, <2>2 DEF WorkedOn
  <2>4. Memory!Join(b)
    BY <1>5, <1>8, <2>1, <2>3 DEF Memory!Join
  <2>. QED BY <2>4 DEF Memory!Next, Refines
<1>. QED BY <1>9, <1>10

\* A thread writes to a block of the client that has started it, or to one
\* that has become nobody's together with the thread.
LEMMA ThreadRefines ==
  ASSUME Inv, NEW t \in Tids, ThreadEnds(t)
  PROVE  Refines
<1>. USE ConstantsAssumption
<1>0. TypeOK /\ MemInv
  BY DEF Inv
<1>1. thread[t] = "running" /\ UNCHANGED <<own, arg, joiner>>
  BY DEF ThreadEnds
<1>2. PICK b \in Blocks : b = arg[t] /\ own[b] = joiner[t]
  BY <1>0, <1>1 DEF MemInv, TypeOK
<1>3. \A u \in Tids : u # t => arg[u] # b
  BY <1>0, <1>1, <1>2 DEF MemInv
<1>4. PICK x \in {"junk", "out"} :
        /\ x = "out" => mem[b] = "in"
        /\ mem' = [mem EXCEPT ![b] = x]
  BY <1>0, <1>2 DEF ThreadEnds, TypeOK
<1>5. thread'[t] = "done" /\ \A u \in Tids : u # t => thread'[u] = thread[u]
  BY <1>0 DEF ThreadEnds, TypeOK
<1>6. CASE own[b] = NULL
  <2>1. Visible' = Visible
    BY <1>0, <1>1, <1>4, <1>6 DEF Visible, TypeOK
  <2>2. \A s : WorkedOn(s)' = WorkedOn(s)
    BY <1>1, <1>2, <1>5, <1>6 DEF WorkedOn
  <2>. QED BY <1>1, <2>1, <2>2 DEF Refines, Unseen
<1>7. CASE own[b] # NULL
  <2>1. Visible' = [Visible EXCEPT ![b] = x] /\ Visible[b] = mem[b]
    <3>1. \A c \in Blocks : mem'[c] = IF c = b THEN x ELSE mem[c]
      BY <1>0, <1>4 DEF TypeOK
    <3>2. Visible' = [c \in Blocks |-> IF c = b THEN x ELSE Visible[c]]
      BY <1>1, <1>7, <3>1 DEF Visible
    <3>. QED BY <1>7, <3>2 DEF Visible
  <2>2. b \in WorkedOn("running")
    BY <1>1, <1>2, <1>7 DEF WorkedOn
  <2>3. WorkedOn("running")' = WorkedOn("running") \ {b}
    BY <1>1, <1>2, <1>3, <1>5 DEF WorkedOn
  <2>4. WorkedOn("done")' = WorkedOn("done") \cup {b}
    BY <1>1, <1>2, <1>3, <1>5, <1>7 DEF WorkedOn
  <2>5. Memory!Compute(b)
    BY <1>1, <1>4, <2>1, <2>2, <2>3, <2>4 DEF Memory!Compute
  <2>. QED BY <2>5 DEF Memory!Next, Refines
<1>. QED BY <1>6, <1>7

LEMMA LeaveRefines ==
  ASSUME Inv, NEW k \in Clients, Leave(k)
  PROVE  Refines
<1>. USE ConstantsAssumption
<1>0. TypeOK /\ MemInv
  BY DEF Inv
<1>. DEFINE left == {b \in Blocks : own[b] = k}
<1>1. own' = [b \in Blocks |-> IF b \in left THEN NULL ELSE own[b]]
  BY DEF Leave
<1>2. Visible' = [b \in Blocks |-> IF b \in left THEN "free" ELSE Visible[b]]
  BY <1>1 DEF Visible, Leave
<1>3. \A t \in Tids : joiner'[t] # NULL <=> joiner[t] # NULL /\ arg[t] \notin left
  <2>. SUFFICES ASSUME NEW t \in Tids
                PROVE  joiner'[t] # NULL <=> joiner[t] # NULL /\ arg[t] \notin left
    OBVIOUS
  <2>1. joiner'[t] = IF joiner[t] = k THEN NULL ELSE joiner[t]
    BY DEF Leave
  <2>2. joiner[t] # NULL => arg[t] \in Blocks /\ own[arg[t]] = joiner[t]
    BY <1>0 DEF MemInv, TypeOK
  <2>. QED BY <2>1, <2>2
<1>4. \A s : WorkedOn(s)' = WorkedOn(s) \ left
  BY <1>3 DEF WorkedOn, Leave
<1>5. Memory!Leave(k)
  BY <1>1, <1>2, <1>4 DEF Memory!Leave
<1>. QED BY <1>5 DEF Memory!Next, Refines

\* The memory of a client on the node is its own, for any number of clients,
\* blocks and threads: no handler, and nothing that a client has left behind,
\* touches that of another.
THEOREM NodeImplementsMemory == Spec => ImplementsRemoteMemory
<1>1. ASSUME Inv, [Next]_vars PROVE Refines
  <2>1. ASSUME NEW k \in Clients, Client(k) PROVE Refines
    <3>1. CASE Connect(k)
      BY <3>1, HeapUnseen DEF Connect, memVars
    <3>2. CASE Leave(k)
      BY <1>1, <3>2, LeaveRefines
    <3>3. ASSUME NEW r, Ask(k, r) PROVE Refines
      BY <3>3, HeapUnseen DEF Ask, memVars
    <3>. QED BY <1>1, <2>1, <3>1, <3>2, <3>3, ClientAsks DEF Asks, Inv
  <2>2. CASE \/ Accept \/ ClientGone \/ DestroyConn \/ HandleSoLoad \/ HandleSoUnload
             \/ HandleSoUpload \/ HandlerDies \/ HandleFuncLoad
             \/ UNCHANGED vars \/ \E t \in Tids : CodeFaults(t)
    <3>1. UNCHANGED <<own, mem, threadVars>>
      BY <2>2 DEF Accept, ClientGone, DestroyConn, HandleSoLoad, HandleSoUnload,
                  HandleSoUpload, HandlerDies, HandleFuncLoad, CodeFaults,
                  vars, memVars
    <3>. QED BY <3>1, HeapUnseen
  <2>3. ASSUME NEW t \in Tids, ThreadEnds(t) PROVE Refines
    BY <1>1, <2>3, ThreadRefines
  <2>. QED BY <1>1, <2>1, <2>2, <2>3, BlocksRefine, RunRefines, JoinRefines
           DEF Next, Node
<1>2. Inv /\ [Next]_vars =>
        [Memory!Next]_<<own, Visible, WorkedOn("running"), WorkedOn("done")>>
  BY <1>1 DEF Refines, Unseen
<1>. QED BY <1>2, MemoryInit, Invariance, PTL
         DEF Spec, ImplementsRemoteMemory, Memory!Spec, Memory!vars

=============================================================================
