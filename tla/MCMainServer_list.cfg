\* Three nodes, so that a cell can be first, in the middle and last, and a
\* client that reads the list.
CONSTANTS
  Nodes = {n1, n2, n3}
  Clients = {c1}
  Cap = 1
  NULL = NULL
SYMMETRY PeerSymmetry
SPECIFICATION Spec
INVARIANT TypeOK
INVARIANT NoDangling
INVARIANT ReplyMatchesList
INVARIANT NoStaleEntries
PROPERTY ImplementsRegistry
\* SIGPIPE may kill the server.
CHECK_DEADLOCK FALSE
