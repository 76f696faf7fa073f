SPECIFICATION Spec
CONSTANTS
  a1 = a1
  a2 = a2
  t1 = t1
  t2 = t2
  m1 = m1
  afd = afd
  gw = gw
  NoAgent = NoAgent
  Agents = {a1}
  Existing = {a1}
  Threads = {t1, t2}
  Admitters = {}
  Procs = {afd}
  CallProcs = {afd}
  TickProcs = {afd}
  SyncProcs = {afd}
  Priority <- MCPriority
  Preemptible = {a1}
  MaxPid = 2
  MaxKills = 1
  Latency = 1
  MaxAge = 2
CHECK_DEADLOCK FALSE
PROPERTY TickEvictsOnlyDead
