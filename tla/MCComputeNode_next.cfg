\* One client leaves, perhaps while the node joins its thread, another waits.
CONSTANTS
  Clients = {k1, k2}
  Blocks = {b1}
  Tids = {t1}
  Objects = {o}
  Versions = {v1}
  MaxRefs = 1
  NULL = NULL
SPECIFICATION FairSpec
PROPERTY NextClientServed
\* The node may be killed.
CHECK_DEADLOCK FALSE
