\* A client uploads an object and has it verified.
CONSTANTS
  Clients = {k1}
  Blocks = {b1}
  Tids = {t1}
  Objects = {o}
  Versions = {v1}
  MaxRefs = 1
  NULL = NULL
SPECIFICATION Spec
INVARIANT VerifyReturnsChecksum
CHECK_DEADLOCK FALSE
