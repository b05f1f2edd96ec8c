\* The first of two nodes leaves.
CONSTANTS
  Nodes = {n1, n2}
  Clients = {c1}
  Cap = 1
  NULL = NULL
SPECIFICATION Spec
INVARIANT OnlineNodesListed
CHECK_DEADLOCK FALSE
