\* Three children, and every number of requests the parent may wait for.
CONSTANTS
  N = 3
SPECIFICATION FairSpec
INVARIANTS
  NoChildLeftBehind
PROPERTIES
  EndsUnlessLost
\* A parent that missed a signal waits for ever.
CHECK_DEADLOCK FALSE
