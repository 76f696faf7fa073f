SPECIFICATION WorkSpec
CONSTANTS
  wh = wh
  ask = ask
  ifs = ifs
  brk = brk
  set = set
  fin = fin
  for = for
  grp = grp
  cal = cal
  cnt = cnt
  sw = sw
  slp = slp
  d1 = d1
  d2 = d2
  d3 = d3
  d4 = d4
  s1 = s1
  s2 = s2
  s3 = s3
  s4 = s4
  Nil = Nil
  Flows <- MCFlows
  Node <- MCNode
  Body <- MCBody
  Items <- MCItems
  MaxIter = 7
  b1 = b1
  b2 = b2
  Buses = {b1, b2}
  Home = b1
  MaxKept = 2
  MaxChunks = 4
  MaxRuns = 2
  o1 = o1
  o2 = o2
  f1 = f1
  f2 = f2
  Objects = {o1, o2}
  Files = {f1, f2}
  Sizes = {1, 2}
  Quotas = {3, 5}
  DefaultQuota = 2
  MaxQuota = 4
  n1 = n1
  n2 = n2
  todo = todo
  plan = plan
  Executions = {e1, e2}
  Names = {n1, n2}
  Stem <- MCStem
  Outside = Outside
  Messages = {x1, x2}
  Receivers = {r1, r2}
  Agents = {a1, a2}
  Facts = {t1, t2}
  Uses = {u1, u2}
  NoAgent = NoAgent
  Owners = {a1, a2}
  Threads = {t1, t2}
  Common = Common
  Nobody = Nobody
  MaxLeft = 1
CHECK_DEADLOCK FALSE
INVARIANTS KilledSoon NothingSkipped  AliasLeadsToFile MessageKept MemoryKept WorksAtHome
PROPERTY WorkEnds
