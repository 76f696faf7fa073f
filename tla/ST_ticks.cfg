SPECIFICATION FairSpec
CONSTANTS
  Contexts = {TRUE}
  Priorities = {5}
  MaxTasks = 3
  MaxRequests = 1
  MaxUpsets = 1
  MaxRuns = 2
CHECK_DEADLOCK FALSE
INVARIANTS OneRunPerTask BusyIsFreed OnlyKnownLosses
PROPERTY TasksEnd
