SPECIFICATION Spec
CONSTANTS
  Writers = 2
  MaxCalls = 3
  MaxLocks = 2
  MaxCrashes = 0
CHECK_DEADLOCK FALSE
INVARIANT LockLosesNothing
