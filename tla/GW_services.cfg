SPECIFICATION GatewaySpec
CONSTANTS
  p1 = p1
  p2 = p2
  m1 = m1
  m2 = m2
  k1 = k1
  k2 = k2
  k3 = k3
  gw = gw
  afd = afd
  apt = apt
  c1 = c1
  c2 = c2
  cloud = cloud
  anthropic = anthropic
  groq = groq
  ollama = ollama
  Callers = {a1}
  Offers <- MCOffers
  MaxRetries = 3
  Limit = 0
  Providers = {p1}
  Threads = {k1, k2, k3}
  Process <- MCProcess
  None = None
  MaxRefs = 2
  Clients = {r1, r2}
  Window <- MCWindow
  Most <- MCMost
  Interval = 1
  MaxTime = 8
  MaxEvents = 3
  Daemons = {d1, d2}
  Requests = {q1, q2}
  NoSocket = NoSocket
  Starts = {s1, s2, s3}
  Nobody = Nobody
  Managers <- MCManagers
  Pip = Pip
  Runners = {u1, u2}
  Nil = Nil
  Offering = {p1, p2}
  Offered = {m1}
  Costs = {c1, c2}
  Unknown = Unknown
  Absent = Absent
  Seeds <- MCSeeds
  Writers = {w1, w2}
  Suppliers <- MCSuppliers
  Shelf <- MCShelf
  KeyRefs = {Public, n1}
  Public = Public
  Refreshers = {x1}
  NoOne = NoOne
  Choosers = {h1}
  Vendors <- MCVendors
  Engine = ollama
  Advice <- MCAdvice
  Unnamed = Unnamed
  Openers = {o1, o2, o3}
  Endpoints = 2
  NoOpener = NoOpener
CHECK_DEADLOCK FALSE
INVARIANTS AnswersPaidOnce  WithinLimits  OneInstance InventoryTrue   OpenedIsSeeded
 
