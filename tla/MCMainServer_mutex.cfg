\* Two nodes and a client compete for the mutex.
CONSTANTS
  Nodes = {n1, n2}
  Clients = {c1}
  Cap = 1
  NULL = NULL
SPECIFICATION FairSpec
PROPERTY MutexReleased
\* SIGPIPE may kill the server.
CHECK_DEADLOCK FALSE
