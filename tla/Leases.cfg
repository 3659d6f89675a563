SPECIFICATION LeaseSpec
CONSTANTS
  o1 = o1  o2 = o2  l1 = l1  l2 = l2  l3 = l3  c1 = c1  c2 = c2
  t1 = t1  t2 = t2  a = a  d = d  dx = dx  tmp = tmp
  NoLease = NoLease
  Ids = {o1, o2}
  Leases = {l1, l2}
  Tenants = {t1}
  Claimers = {c1, c2}
  Paths <- OnePath
  HeldPaths = {}
  Shadows <- NoShadow
  Supersede = {t1}
  Prefixes <- Everything
  TTLs = {1}
  RetryAfters = {0, 1}
  MaxAttempts = 2
  PublishDelay = 0
  MaxBatch = 1
  MaxScan = 2
  PartialTTL = 1
  TombstoneTTL = 1
  MaxTime = 2
  MaxSeq = 4
  MaxCrashes = 0
  MaxFailures = 0
  MaxRebuilds = 1
SYMMETRY MCSymmetry
INVARIANTS IndexesAgree OneHolder
PROPERTIES DelayHonoured ImplementsRelay
CHECK_DEADLOCK FALSE
