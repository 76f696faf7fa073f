SPECIFICATION Spec
CONSTANTS
  route = route
  gui1 = gui1
  gui2 = gui2
  Clients <- MCClients
  Door <- MCDoor
  Refs = {t1}
  Nothing = Nothing
  MaxJobs = 2
  MaxCuts = 0
CHECK_DEADLOCK FALSE
INVARIANT RunOnce
