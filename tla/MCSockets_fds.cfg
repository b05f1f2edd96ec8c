\* A client or a server with three threads and three connections; two
\* descriptors, so that they run out and are reused.
CONSTANTS
  Threads = {t1, t2, t3}
  Fds = {3, 4}
  NULL = NULL
SYMMETRY ThreadSymmetry
SPECIFICATION Spec
INVARIANT TypeOK
INVARIANT DescriptorsOwned
INVARIANT SentToOwnPeer
\* A failed accept kills the server.
CHECK_DEADLOCK FALSE
