\* Three applications, two nodes of two cores, one of which may die.
CONSTANTS
  Apps = {a1, a2, a3}
  NumNodes = 2
  Cores = 2
  MaxDeaths = 1
  NULL = NULL
SPECIFICATION FairSpec
INVARIANT TypeOK
INVARIANT StuckOnlyIfCrossed
PROPERTY EndsUnlessCrossed
PROPERTY NodesReleased
\* Applications end.
CHECK_DEADLOCK FALSE
