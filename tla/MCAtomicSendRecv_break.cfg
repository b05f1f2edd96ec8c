\* Three threads, a connection that may break, buffers that hold a single part:
\* senders really wait for readers.
CONSTANTS
  Threads = {t1, t2, t3}
  None = None
  Cap = 1
  NumIds = 2
  MayBreak = TRUE
SPECIFICATION FairSpec
INVARIANT TypeOK
INVARIANT OwnResponse
INVARIANT RequestsFramed
PROPERTY ImplementsRemoteCalls
PROPERTY SentCallReturns
\* The client may be killed and the node may die.
CHECK_DEADLOCK FALSE
