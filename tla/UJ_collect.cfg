SPECIFICATION FairSpec
CONSTANTS
  Writers = 2
  MaxCalls = 4
  MaxLocks = 2
  MaxCrashes = 2
CHECK_DEADLOCK FALSE
INVARIANT CountedOnce
PROPERTIES OnlyLeftoversLost Replayed Collected
