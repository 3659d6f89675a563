SPECIFICATION ServerSpec
CONSTANTS
  o1 = o1  o2 = o2  s1 = s1  s2 = s2  p1 = p1  dl = dl
  t1 = t1  t2 = t2  c1 = c1  c2 = c2  c3 = c3  j1 = j1  j2 = j2
  k1 = k1  k2 = k2  k3 = k3  a1 = a1  a2 = a2  h1 = h1
  Objs = {o1, o2}
  Sessions = {s1, s2}
  Pollers = {p1}
  Client = dl
  Delays = {0, 1}
  Wait = 2
  MaxStored = 1
  MaxConcurrent = 1
  MaxTime = 2
  Ids = {t1, t2}
  Commands = {c1, c2, c3}
  MaxCommands = 3
  MaxReloads = 1
  MaxFailures = 1
  Uploads = {s1, s2}
  Slots = {1, 2}
  MaxChanges = 3
  Jobs = {j1, j2}
  Sizes = {2}
  Total = 5
  Floor = 1
  HardFree = 2
  MaxDeletes = 1
  Conns = {k1, k2, k3}
  Dialogues = {k1}
  Attempts = {a1, a2}
  Addrs = {1, 2}
  MaxConns = 2
  MaxConnsPerIP = 2
  Budget = 1
  Window = 2
  MaxClock = 2
  Handshakes = {h1}
  MaxIssues = 3
INVARIANTS CountersExact NoLostWakeup QuotaBound NothingLost SlotsExact ReservedFits ConnsCounted FailureBudget
PROPERTIES AccountsApplied CertPickedUp
CHECK_DEADLOCK FALSE
