SPECIFICATION Spec
CONSTANTS
  a1 = a1
  a2 = a2
  t1 = t1
  t2 = t2
  m1 = m1
  afd = afd
  gw = gw
  NoAgent = NoAgent
  Agents = {a1, a2}
  Existing = {a1}
  Threads = {t1}
  Admitters = {m1}
  Procs = {afd, gw}
  CallProcs = {gw}
  TickProcs = {afd}
  SyncProcs = {afd}
  Priority <- MCPriority
  Preemptible = {a1}
  MaxPid = 2
  MaxKills = 1
  Latency = 0
  MaxAge = 1
INVARIANT RowSupervised
CHECK_DEADLOCK FALSE
