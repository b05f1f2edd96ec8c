\* Two clients that come and go, memory and threads of the one in the way of
\* the other.
CONSTANTS
  Clients = {k1, k2}
  Blocks = {b1, b2}
  Tids = {t1, t2}
  Objects = {o}
  Versions = {v1, v2}
  MaxRefs = 2
  NULL = NULL
SYMMETRY NodeSymmetry
SPECIFICATION Spec
INVARIANT TypeOK
INVARIANT Coherent
INVARIANT CodeMapped
PROPERTY ImplementsRemoteMemory
\* The node may be killed.
CHECK_DEADLOCK FALSE
