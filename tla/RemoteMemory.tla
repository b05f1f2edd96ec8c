---------------------------- MODULE RemoteMemory ----------------------------
(***************************************************************************)
(* What a compute node promises its clients: memory of their own.  A block *)
(* changes when its owner asks for it, or when a thread that its owner has *)
(* started on it ends, and for no other reason: not because of other       *)
(* clients, nor of what clients that have left are still doing.  A thread  *)
(* that is joined has ended.                                               *)
(***************************************************************************)
CONSTANTS Clients, Blocks, NULL

VARIABLES
  own,        \* own[b]: the client that block b belongs to
  contents,   \* contents[b]: what b holds, "free" if it is nobody's
  running,    \* the blocks on which a thread of their owner is working,
  done        \* or has worked, until it is joined

vars == <<own, contents, running, done>>

Init ==
  /\ own = [b \in Blocks |-> NULL]
  /\ contents = [b \in Blocks |-> "free"]
  /\ running = {} /\ done = {}

\* What is somebody's, and not in the hands of a thread.
AtRest(b) == own[b] # NULL /\ b \notin running \cup done

\* dic_rmalloc, with arbitrary contents.
Allocate(k, b) ==
  /\ own[b] = NULL
  /\ own' = [own EXCEPT ![b] = k]
  /\ \E x \in {"junk", "in", "out"} : contents' = [contents EXCEPT ![b] = x]
  /\ UNCHANGED <<running, done>>

\* dic_rfree
Release(b) ==
  /\ AtRest(b)
  /\ own' = [own EXCEPT ![b] = NULL]
  /\ contents' = [contents EXCEPT ![b] = "free"]
  /\ UNCHANGED <<running, done>>

\* dic_rrealloc keeps the contents.
Move(b, n) ==
  /\ AtRest(b) /\ own[n] = NULL
  /\ own' = [own EXCEPT ![n] = own[b], ![b] = NULL]
  /\ contents' = [contents EXCEPT ![n] = contents[b], ![b] = "free"]
  /\ UNCHANGED <<running, done>>

\* dic_memcpy to the node.
Write(b) ==
  /\ AtRest(b)
  /\ contents' = [contents EXCEPT ![b] = "in"]
  /\ UNCHANGED <<own, running, done>>

\* dic_rthread_run
Start(b) ==
  /\ AtRest(b)
  /\ running' = running \cup {b}
  /\ UNCHANGED <<own, contents, done>>

\* The thread turns input into output, or fails to.
Compute(b) ==
  /\ b \in running
  /\ \E x \in {"junk", "out"} :
       /\ x = "out" => contents[b] = "in"
       /\ contents' = [contents EXCEPT ![b] = x]
  /\ running' = running \ {b}
  /\ done' = done \cup {b}
  /\ UNCHANGED own

\* dic_rthread_join
Join(b) ==
  /\ b \in done
  /\ done' = done \ {b}
  /\ UNCHANGED <<own, contents, running>>

\* The client ends, and gives up what it had.
Leave(k) ==
  LET left == {b \in Blocks : own[b] = k}
  IN  /\ own' = [b \in Blocks |-> IF b \in left THEN NULL ELSE own[b]]
      /\ contents' = [b \in Blocks |-> IF b \in left THEN "free" ELSE contents[b]]
      /\ running' = running \ left
      /\ done' = done \ left

Next ==
  \/ \E k \in Clients : Leave(k) \/ \E b \in Blocks : Allocate(k, b)
  \/ \E b \in Blocks : Release(b) \/ Write(b) \/ Start(b) \/ Compute(b) \/ Join(b)
  \/ \E b, n \in Blocks : Move(b, n)

Spec == Init /\ [][Next]_vars
=============================================================================
