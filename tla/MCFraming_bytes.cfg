\* Three messages with bodies of at most two bytes.  The connection holds the
\* end of one message, the next one and the beginning of a third, so that a
\* recv() can be offered bytes of several messages.
CONSTANTS
  HeadLen = 2
  MaxBody = 2
  NumMsgs = 3
  Cap = 6
  MayBreak = TRUE
SPECIFICATION FairSpec
INVARIANT TypeOK
INVARIANT WholeMessages
PROPERTY EveryMessageArrives
\* The sender may have nothing more to send.
CHECK_DEADLOCK FALSE
