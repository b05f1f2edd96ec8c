# A TLA+ verification of DiCoN

DiCoN lets a client program run its own C functions on the machines of a LAN.
This directory models the parts of it that run concurrently or outlive each
other, checks them with TLC on small instances, and proves with TLAPS, for every
number of threads, nodes and clients, all the safety properties that the passing
runs check, the three refinements among them.

## The system

| part | source | state | operations |
|---|---|---|---|
| diconlib, calls | `diconlib/src/client_node_communication.c` 53-76 | per connection: `send_mut`, `recv_mut`, `sockfd` | `dic_atomic_send_recv`, used by every operation, from any number of threads |
| diconlib, operations | same file, 85-504 | remote pointers, handles and thread ids held by the application | `dic_rmalloc`, `dic_rrealloc`, `dic_rfree`, `dic_memcpy`, `dic_so_load/unload/upload/verify`, `dic_func_load`, `dic_rthread_run/join` |
| compute node | `node/src/node_client_communication.c`, `node/src/main.c` | heap, loaded objects, files in `user_objects/`, remote threads | `listen_loop`, `client_handling_loop`, `dic_node_recv_send`, one handler per operation |
| node start-up | `node/src/main.c` 64-119, `node_main_communication.c` | connection to the main server | connect with retries, announce, then listen |
| main-server | `main-server/src/main.c` | the list `NODES_INFO` under `NODES_INFO_MUT`; per connection one handler thread | announce (`handle_push_info`), query (`handle_get_info`), removal at the end of a connection |
| client of the main server | `diconlib/src/client_main_communication.c` | | `dic_get_nodes_info`, `dic_nodes_connect_all` |
| sockets layer | `common/src/dicon_sockets.c` | `sockfd`, the process's descriptors | connect, reconnect, listen, accept, `dic_conn_send`, `dic_conn_recv`, destroy |
| node-manager | `node-manager/src/main.c` | | restarts a node for ever |
| applications | `demo/find-primes/main.c`, `demo/hash-cracker/` | the list of nodes, one connection to each, remote threads | connect to all, upload and load, run a thread per core, join, unload |
| checksum | `common/src/so_operations.c` | | `dic_checksum` |

How they interact: a node connects to the main server, announces itself and
keeps the connection; the handler thread of that connection removes its entry
when the connection ends. A client asks the main server for the list and
connects to the nodes. A node serves one client at a time and one request at a
time; other clients wait in the backlog of its listening socket. The threads
of a client share the connection to a node. The functions that a client starts
run as threads of the node process, beside the serving thread.

What is hard:

* two mutexes taken hand over hand around one stream, and socket buffers that
  make senders wait (`dic_atomic_send_recv`);
* errors that nobody looks at: the results of `send()` and of most
  `dic_conn_recv` calls are ignored, and `send()` to a peer that has gone may
  raise SIGPIPE, for which no process has a handler;
* a mutex held across blocking I/O, and a list that several threads change
  (main-server);
* what a client leaves behind on a node: memory, references to objects, running
  threads;
* `JOIN`, which stops the node's only serving thread;
* processes that die and are started again: the list of the main server, the
  port of a node and the connections of clients each notice at another time;
* descriptors that are closed by one thread and reused by another;
* applications that each need every node, and nodes that serve one application
  at a time.

What makes each part correct is what its properties below say.

## Modules

| module | what it is |
|---|---|
| `RemoteCalls` | abstract: what a call promises the threads of an application |
| `AtomicSendRecv` | `dic_atomic_send_recv`, the connection and the node's request loop |
| `AtomicSendRecv_proofs` | its theorems |
| `MainServer` | main-server with its nodes and clients |
| `MainServer_proofs` | its theorems |
| `Registry` | abstract: what the main server promises those who announce and ask |
| `ComputeNode` | the node's handlers and serving loop, and the operations of its clients |
| `RemoteMemory` | abstract: what a compute node promises its clients of their memory |
| `ComputeNode_proofs` | its theorems |
| `NodeLifecycle` | nodes, node-manager, main server and clients that start, crash and restart; composes `Registry` |
| `NodeLifecycle_proofs` | its theorems |
| `Sockets` | the sockets layer on the descriptor table of one process |
| `Sockets_proofs` | its theorems |
| `Framing` | messages as bytes: `send()`, `tcp_recv_n` |
| `Framing_proofs` | its theorems |
| `Applications` | several applications on several nodes |
| `Applications_proofs` | its theorems |
| `Chunks`, `FindPrimes` | the division of work in the demos, and find-primes |
| `Checksum` | `dic_checksum` |
| `Algorithms_proofs` | theorems about these three |
| `MCAlgorithms` | `FindPrimes` and `Checksum` side by side, each on every input up to a bound |
| other `MC...` | symmetry sets for TLC; the `.cfg` files give the constants |

Definitions called "Mutant" in their comments are wrong variants of the
definition that follows them. No specification uses them: each one, put in the
place of the correct definition, breaks one property (`PROJECT.json`,
"mutants"), which shows that the property has something to say.

### AtomicSendRecv and RemoteCalls

`pc[t]` is the place of thread `t` in `dic_atomic_send_recv`; each lock,
unlock, send and receive is an action. Both directions of the connection are
sequences of at most `Cap` parts. A message is a head and a body, and each part
is tagged with the call it belongs to. The code sees no such tag; the tags are
how the properties can tell one response from another. Sending the parts one
by one lets the node begin to read a request that is not yet complete and makes
senders wait for readers. `Break` and `NodeCrash` cut both streams at arbitrary
places. After that `send()` fails silently or kills the process, and
`dic_conn_recv` fails, closes the socket and leaves the caller with what it
has. The data of requests is abstracted away: which operation it is matters
only in `ComputeNode`. Call ids wrap at `NumIds`; a thread has one call under
way, so two ids tell a call from the previous one.

`RemoteCalls` is the promise "1 request -> 1 response, thread safe"
(`client_node_communication.h`): a call is executed at most once and returns
its own answer, or an undefined one after the connection has broken.
`ImplementsRemoteCalls` is the refinement; the mapping reads how far a call has
come from the history variable `execs`, and what it returned from `buf`.

### MainServer

`h[c]` is the place of the handler thread of connection `c`, `peer[c]` what the
process at the other end is doing. The heap is explicit: `live` cells with
`next` and `prev`. Walks over the list are sets (`List` is what is reachable
from `NODES_INFO`). Handling an announcement has six steps between lock and
unlock, since it blocks in a receive and sends twice. A send to a peer that has
gone succeeds the first time and may kill the server the next time, as TCP
does. The buffers of a connection hold `Cap` parts of a reply: a send waits,
with the mutex held, until the peer has read enough or has gone. A connection name is used again after its handler is done.

`Registry` is the list without its cells, threads and mutex: a set of entries
that announcements add to, that removals shrink, and that answers are copies
of. `ImplementsRegistry` maps the cells that are reachable from `NODES_INFO` to
the set. It promises no more than the code keeps: a removal takes the entry
alone or empties the set, since that is what `remove_info` does.

### ComputeNode

Each operation of diconlib is a client action that sends a request, and each
handler a node action. The node state is the heap, the files and loaded
objects with their reference counts, and the threads. The client state is what
the clients know: which pointers, handles and threads they hold, and what they
believe their memory to contain (`known`). A client may leave at any moment,
also with a request under way, and connect again later; the node releases
nothing. Remote functions are the applications' code: each turns its argument
from "in" into "out" at an arbitrary moment. The clients keep the rules that
the demos keep (own memory only, no access to memory in use by an own thread,
one join per thread, no unload under an own running thread). An upload
truncates the file and fills it again in place, so an object that is loaded is
"torn" afterwards, even by the same bytes, and threads that run its code may
fault. `dlopen` may fail with the file in place, and `dlsym` may not find its
symbol, which arrives without its final 0. `dic_so_verify` is modelled as it
is: it sends a load request. Two handlers may kill the node (`HandlerDies`):
the upload, if `fopen` fails, by using the null stream, and the load, whose
path is three bytes longer than the buffer for it.

`RemoteMemory` is what remains when requests, backlog, code and everything that
clients have left behind are taken away: blocks with an owner and contents, and
the blocks on which a thread of their owner is working or has worked.
`ImplementsRemoteMemory` maps the heap to the part of it that belongs to
somebody (`Visible`), and threads to the blocks of those that can still be
joined (`WorkedOn`). A block whose owner has left is free in `RemoteMemory`
although the node never frees it, and an orphaned thread that still writes to
it is no step at all. A step that changed a block of one client on behalf of
another would be a step of neither.

### NodeLifecycle

`pc[n]` is the place of node `n` in `main`: connect to the main server, sleep
and try again, send head and body of the announcement, read the answer, bind,
listen. Nodes in `ByHand` are started with `-m`, those in `Managed` by
node-manager, which goes straight to bind because it does not pass `-m`. The
main server is `Registry` plus, per announcement, how far its handler has come
(`sess`); `MainServer` has the details. The handler acknowledges an
announcement (`ServerReply`) before it makes the entry (`ServerAppend`), so a
node may listen before it is listed. An entry is a pair of a node and the
number of its run, so that a restarted node is told from its predecessor, whose
entry may still be there. Crashes may happen between any two steps: a node
dies, also half way through its announcement; the main server dies and comes
back with an empty list; the port of a dead node may stay taken for a while
(`lingering`: no SO_REUSEADDR). Whether the nodes share a machine (`oneHost`),
and with it the one port that they all bind, is chosen at the beginning. Clients
copy the list and connect to its entries one by one while all this goes on; on
one machine a connection reaches whichever node listens there (`Answers`).

### Sockets

`table` is the kernel's descriptor table, `sockfd[c]` the field of connection
`c`, `loc[t]` the local variable into which `dic_conn_send` and `dic_conn_recv`
copy it. That the three are read, used, closed and cleared in separate steps is
what the module is about. The kernel hands out the lowest free descriptor, so
reuse happens at once. The process is, by a choice at the beginning, a client (shared connections, two
mutexes, `tcp_connect`) or a server (`accept`, one thread per connection).
A thread reconnects or disconnects only a connection that nobody is using, as
all callers in the repository do.

### Framing

Bytes are tagged with message and place. `send()` passes on any number of
bytes at a time, `recv()` gets any number of those that have arrived, up to what
it asks for, and a break cuts the stream anywhere. The receiver is
`dic_node_recv_send`. This justifies that the other modules move heads and
bodies as units.

### Applications

An application is a program counter over the loops of find-primes, with one
round per node or per core. Each operation is a whole call (`AtomicSendRecv`,
`ComputeNode`) that is done once the node serves the application. `connect()`
succeeds as soon as the connection is in the backlog. An operation on a
connection that has failed returns garbage, after which the application may do
anything up to crashing.

### Chunks, FindPrimes and Checksum

In `FindPrimes` main starts one thread per core and joins them in order; the
threads run beside it, one number per step, and let their arrays grow. `Prime`
is the textbook definition that `is_prime` is checked against. `Checksum` is
`dic_checksum` buffer by buffer and byte by byte, with the widths as
parameters; numbers are functions from the places of their bits. It is checked
against a definition without rotations or loops: bit `j` of the sum is the
parity of the number of bits in the file that meet there (`BitsAt`,
`BitOfSum`). `fopen` may fail, and the sum is then 0.

External code modelled from its use: `malloc`, `realloc`, `free`, `dlopen`
reference counting, TCP resets, the remote functions.

## Runs

| run | instance | checks | result |
|---|---|---|---|
| `rpc_break` | 3 threads, buffers of half a message, connection may break | `TypeOK`, `OwnResponse`, `RequestsFramed`, `ImplementsRemoteCalls`, `SentCallReturns` | hold |
| `server_list` | 3 nodes, 1 client, buffers of 1 part | `TypeOK`, `NoDangling`, `ReplyMatchesList`, `NoStaleEntries`, `ImplementsRegistry` | hold |
| `server_mutex` | 2 nodes, 1 client, buffers of 1 part | `MutexReleased` | holds |
| `server_online` | 2 nodes, 1 client, buffers of 1 part | `OnlineNodesListed` | violated |
| `node_memory` | 2 clients, 2 blocks, 2 threads, 1 object in 2 versions | `TypeOK`, `Coherent`, `CodeMapped`, `ImplementsRemoteMemory` | hold |
| `node_next` | 2 clients, 1 block, 1 thread, 1 object | `NextClientServed` | holds |
| `node_verify` | 1 client | `VerifyReturnsChecksum` | violated |
| `life` | 1 node started twice, 1 managed node, on one machine or two, 1 client, 2 deaths, 1 server crash | `TypeOK`, `EntriesAnnounced`, `RefusedByStarting`, `DeadNodesUnlisted`, `AnnouncedListed`, `StartupEnds`, `BackInService` | hold |
| `sockets_fds` | a client or a server with 3 threads, 3 connections, 2 descriptors | `TypeOK`, `DescriptorsOwned`, `SentToOwnPeer` | hold |
| `framing_bytes` | 3 messages, heads of 2 and bodies of 0 to 2 bytes | `TypeOK`, `WholeMessages`, `EveryMessageArrives` | hold |
| `apps` | 3 applications, 2 nodes of 2 cores, 1 death | `TypeOK`, `StuckOnlyIfCrossed`, `EndsUnlessCrossed`, `NodesReleased` | hold |
| `algorithms` | ranges of 1 to 16 numbers, 1 to 4 cores; files of 0 to 5 bytes of 2 bits, sum of 3 bits, buffer of 2 bytes | `EveryPrimeOnce`, `WritesInBounds`, `SumOfWholeFile`, `OneByteDetected` | hold |

Why the bounds are enough. Three threads: one reads its response, one has sent
its request and waits for `recv_mut`, one waits for `send_mut`. Buffers of a
single part make senders wait in the middle of a message, the main server too.
Three nodes: a cell can be the first, a middle and the last one, and cut off
from the list. Two clients, two blocks and two threads on a compute node: a block and a
thread can be abandoned while another client uses the others, and a block can
move. `MaxRefs` is 2, the least number that lets two clients load the same
object. Names are used again, so sequences of clients are unbounded. Two starts
of a node: the entry of the first run can outlive it while the second is
announced; two deaths let both runs end, or a managed node die twice. Fewer
descriptors than connections: they run out, and the next one to be opened is
the last one that was closed. Three messages on a connection that holds six
bytes: the end of one message, a whole one and the beginning of a third can be
there when `recv()` is called. Three applications on two nodes: two can be
crossed and the third wait behind them, or wait for one that ends or dies. More cores than numbers, and ranges that the
number of cores does not divide. Files longer than the sum is wide, and not a
multiple of the buffer.

Symmetry is used in safety runs only.

What the violations show:

* `OnlineNodesListed`: when the first node of the list leaves, `remove_info`
  sets `NODES_INFO` to `NULL` even if there is a second cell. The other nodes
  are still connected and no longer listed. `NoDangling` still holds: the cut
  off cells stay consistent and are freed correctly, so the damage never
  becomes a memory error.
* `VerifyReturnsChecksum`: `dic_so_verify` returns a `dlopen` handle and leaves
  the object loaded.

Some of the properties that hold name an exception, which is what the code
really does, and which is reachable in the run:

* `MutexReleased`, `ImplementsRemoteCalls`: a send to a peer that has gone may
  kill the process through SIGPIPE, the main server too.
* `RefusedByStarting`: nodes announce themselves before they listen; a client
  that is refused goes on with `sockfd = -1`.
* `AnnouncedListed`: nodes announce themselves once. A node whose connection
  breaks, as when the main server is restarted, serves on unlisted. And to be
  listed is not to remain so: see `OnlineNodesListed`.
* `BackInService`: node-manager passes `-p` to a node that has no such option,
  so all nodes of a machine compete for one port. A managed node listens and is
  never listed, for the address that `-a` gives is dropped.
* `SentToOwnPeer`: in a client, one thread's receive fails and closes the
  descriptor, a second thread opens a connection and gets the same number, and
  a third sends the request that it had prepared for the first connection to
  the second. In a server there is no exception: there the thread that closes
  is the thread that sends.
* `EndsUnlessCrossed`: two applications whose connections reached two nodes in
  different orders are each served by one node and wait in the backlog of the
  other, for ever, and so do those behind them.

A failing `accept` (`AcceptFails`) is modelled too: `dic_conn_accept` returns
NULL, both listen loops use it, and the process is gone.

## Fairness

* `AtomicSendRecv`: a thread that can take a step inside a call does
  (`WF` of `Proceed(t)`), and so does the node. Threads are scheduled by the
  operating system, and handlers return, if the remote functions they join end.
  Mutexes are not assumed to be fair: `SentCallReturns` starts where the thread
  holds `send_mut`, since POSIX promises nothing to those that wait for it.
* `MainServer`: the same for handler threads, except that `dic_conn_destroy`
  may hang. A peer in the middle of an exchange goes on with it or dies: the two
  sends and the two receives follow each other in `notify_main_server`, and so
  do the send and the receives in `dic_get_nodes_info`. Without it
  `MutexReleased` fails: a machine that freezes between its two sends, or before
  it has read a reply that the buffers do not hold, and keeps its connection
  blocks the list for everybody.
* `ComputeNode`: the node runs when it can, and remote functions end. The
  latter is an assumption about applications; a function that never ends makes
  its join, and the node, wait for ever. Nothing is assumed of clients: in
  particular they need not leave.
* `NodeLifecycle`: processes and handler threads that can run do, TIME_WAIT
  ends, and node-manager goes on for ever. Nobody has to start a node or the
  main server: properties that need the server assume `<>[]srv`. Deaths and
  crashes are bounded in number, and not fair.
* `Applications`: applications and nodes go on when they can; remote functions
  end. Nothing has to fail.
* `Framing`: the kernel passes on bytes and the receiver reads. The sender
  needs no fairness: a message counts from the moment its `send()` begins.

## What is proved

All proofs are checked by TLAPS, for every value of the constants that
satisfies the named assumptions of the module (`ConstantsAssumption`,
`PrimesAssumption`, `SumAssumption`): a main server has finitely many connections, sizes and counts
are numbers and not 0 where the code needs it, and `NULL` is none of the other
values; a range does not begin with 0, and a byte is not wider than a sum. TLC
evaluates them in every run.

| module | theorem | states |
|---|---|---|
| `AtomicSendRecv_proofs` | `TypeCorrectness`, `ResponsesNotStolen`, `WholeRequestsExecuted`, `ProtocolImplementsCalls` | `TypeOK`, `OwnResponse`, `RequestsFramed`, `ImplementsRemoteCalls` |
| `MainServer_proofs` | `TypeCorrectness`, `ListNeverDangles`, `RepliesMatchList`, `EntriesHaveHandlers`, `ServerImplementsRegistry` | `TypeOK`, `NoDangling`, `ReplyMatchesList`, `NoStaleEntries`, `ImplementsRegistry` |
| `ComputeNode_proofs` | `TypeCorrectness`, `MemoryCoherent`, `CodeInUseMapped`, `NodeImplementsMemory` | `TypeOK`, `Coherent`, `CodeMapped`, `ImplementsRemoteMemory` |
| `NodeLifecycle_proofs` | `TypeCorrectness`, `EntriesAreAnnouncements`, `RefusalsExplained` | `TypeOK`, `EntriesAnnounced`, `RefusedByStarting` |
| `Sockets_proofs` | `TypeCorrectness`, `NoLeakNoDoubleClose`, `SendsToOwnPeer` | `TypeOK`, `DescriptorsOwned`, `SentToOwnPeer` |
| `Framing_proofs` | `TypeCorrectness`, `MessagesWhole` | `TypeOK`, `WholeMessages` |
| `Applications_proofs` | `TypeCorrectness`, `StandstillIsCircle`, `RoundsWithinList` | `TypeOK`, `StuckOnlyIfCrossed`; that the loops only address nodes of the list |
| `Algorithms_proofs` | `PrimesCollected`, `PrimesFitInArrays`, `ChecksumOfWholeFile`, `ChecksumDetectsOneByte` | `EveryPrimeOnce`, `WritesInBounds`, `SumOfWholeFile`, `OneByteDetected` |
| | `ChunksInRange`, `ChunksCover`, `ChunksDisjoint`, `PrimesRecognised` | facts about the operators, not about a specification |

`AtomicSendRecv`. `OwnResponse` speaks of what has been read and is not
inductive. The invariant `Inv` adds what is in flight: lay the stream to the
client, the message in the node's hands and the stream to the node in a row. The
row is what the owner of `recv_mut` has yet to read, followed by what the owner
of `send_mut` has sent (`StreamInv`). The node only moves parts along the row, a
sender appends at its end, a receiver takes its own response from its front,
and a break cuts off the end, after which what reached the client is still a
prefix. `MutexInv` says who is where when a mutex is taken; handing `send_mut`
back only after `recv_mut` is taken is what turns the second half of the row
into the first. Lemmas about sequences (`ConsumeRow`, `MoveAlongRow`, `CutRow`)
carry the steps. After a break the callers go on without the row, so the part of
it that the node has yet to answer has an invariant of its own (`WireInv`):
whole messages, at most one per thread, executed exactly when they are on their
way back. With it a call is executed at most once (`ExecInv`). That gives
`RequestsFramed`, and every step is a step of `RemoteCalls` or none.

`MainServer`. `NoDangling` needs who holds the mutex (`MutexInv`), that a node
announces itself once and so has one cell (`NodeInv`, `ClientInv`, `ConnInv`),
that a cell is allocated exactly as long as its handler will free it
(`LiveInv`), that links of allocated cells agree in both directions
(`LinksInv`), and that the cell where the walk of `append_info` ended is still
the last one when it is linked (`WalkInv`). `LinksInv` speaks of all allocated
cells, not of those on the list, which is why it survives what `remove_info`
does to the first cell. What is on the list needs `FullInv`. `List` is the least
set that holds the first cell and the next of each of its cells, so no induction
along the list is needed: linking a cell behind the last one (`EndInv`) adds
just that cell, and a removal takes its cell or, if it is the first, all. These
are the steps of `Registry`. What a handler has counted or copied stays true
because it holds the mutex until it has sent it.

`ComputeNode`. A block of memory is used by one party at a time, a request of
its owner or one thread, and remains allocated as long (`MemInv`, `ReqInv`). A
client that leaves orphans its blocks, threads and request together, so this
stays true of them, and nobody else can come to use them. `WorkInv` says what a
thread makes of its block. `MemInv` and `ReqInv` are also what makes each step
one of `RemoteMemory`: a handler finds the block it is about to change owned by
the client that it serves, or by nobody because that client has left, and in no
thread's hands. For the code, every `dlopen` that a client may still
undo is a token (`Tokens`). The count of `dlopen` is never below the number of
tokens, and above it wherever an orphan runs (`CountInv`): its client has left
without unloading. So no unload takes the code from a thread that runs, and
counts do not become negative.

`NodeLifecycle`. While a node has its connection, the handler at the other end
is as far as the node's program counter says (`SessionInv`). Handlers of
earlier runs can only finish, and there are none of later runs (`PastInv`). What
a client has copied had been announced, and that remains so or the process has
ended (`ClientInv`).

`Sockets`. A connection that a thread uses is neither opened nor disconnected,
and one thread at a time receives on it (`UseInv`, `ConnectInv`). So
`conn->sockfd` remains what the receiver has read until the receiver clears it,
and a sender finds it as it has read it or cleared (`LocInv`).

`Framing`. What has been read and not delivered, what is on its way and what
`send()` has yet to pass on are one stream that begins where a message begins.
The invariant says of any two bytes of it where they are with respect to each
other (`BlockInv`, `OrderInv`), so it needs no induction along the stream. Steps
move the borders within the stream, cut off its end, take a whole message from
its front or put one at its end.

`Applications`. A loop's counter stays within the loop, and rounds of loops per
core are divided among the nodes without going past the last. An application has
closed or lost all its connections when it ends (`PhaseInv`), and the node knows
each open one, as the one it serves or in its backlog (`KnownInv`). So an
application that cannot go on is in the backlog of a node, which is busy with
another one, and that one has not ended and cannot go on either: the
applications that have not ended are the circle. That applications do go on
when they can, and end, is `EndsUnlessCrossed`, and left to TLC.

`FindPrimes`. The chunks are in the range, cover it and are disjoint, for every
range and number of cores; `is_prime` agrees with the definition of a prime for
every number: of two factors the smaller is not above the square root, and
factors of odd numbers are odd. The loops need no induction over data, for their
rounds are steps. What a thread has found are the primes from the start of its
chunk to where it is (`Scanned`), with room for one more in its array (`Room`);
what main has collected are the primes up to the chunk that it joins next
(`Gathered`), since each chunk begins where the one before ends (`Frontiers`).

`Checksum`. The sum is at all times that of the bytes that have been added
(`SumSoFar`), and the bytes in the buffer are the next ones of the file. A
round moves every bit that has met at place `j` to the next place, and the new
byte brings at most one more to it; the parity of a set with one more element
is the other one. Two files that differ in one byte differ in a bit of it, and
the bits of a byte go to different places because it is not wider than the sum:
at the place of that bit the two sums count sets that differ in one element.

Only model-checked are the liveness properties, for the prover has no fairness
reasoning: `SentCallReturns`, `MutexReleased`, `NextClientServed`,
`DeadNodesUnlisted`, `AnnouncedListed`, `StartupEnds`, `BackInService`,
`EveryMessageArrives`, `EndsUnlessCrossed`, `NodesReleased`.

## Not modelled

* logging, which keeps no state, and the asynchronous prototype, which is a
  text file;
* the demos hello_world, main-server-test and mem_manipulation, which are
  straight sequences of calls, and the search of hash-cracker, which is
  unfinished: it passes `DIC_MEMCPY_C2N` for a mode of `dic_memcpy`, so that the
  hash is never copied, tries only candidates of another length than the target,
  and reads the string that a thread returns as an array of numbers;
* the layout of structures in messages, and parsing of addresses and options;
* failure of `pthread_create` (the client gets an uninitialised thread id, and
  joining it may do anything), short writes and read errors of files, and the
  memory that the load handler overwrites, other than by the node's death;
* clients that break the rules of C on remote memory, or that reconnect a
  connection while other threads use it.

## Plan

1. Done: `AtomicSendRecv` with `RemoteCalls`, `MainServer`, `ComputeNode`, and
   their first theorems.
2. Done: `Registry` and its refinement, `NodeLifecycle`, `Sockets`, `Framing`,
   `Applications`, `FindPrimes`, `Checksum`.
3. Done: the theorems above: every safety invariant of a passing run, and
   `ImplementsRemoteCalls`, `ImplementsRegistry`, `ImplementsRemoteMemory`.
4. Left: an abstract channel of whole messages that `Framing` implements (now
   `WholeMessages` says it of the messages that have arrived), and a
   specification of the code and threads of a node beside that of its memory.
