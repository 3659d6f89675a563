SPECIFICATION NamespaceSpec
CONSTANTS
  o1 = o1  o2 = o2  l1 = l1  l2 = l2  l3 = l3  c1 = c1  c2 = c2
  t1 = t1  t2 = t2  a = a  d = d  dx = dx  tmp = tmp
  NoLease = NoLease
  Ids = {o1, o2}
  Leases = {l1, l2, l3}
  Tenants = {t1, t2}
  Claimers = {c1}
  Paths <- AllPaths
  HeldPaths <- TmpPaths
  Shadows <- DirShadow
  Supersede = {t1}
  Prefixes <- UnderDir
  TTLs = {1}
  RetryAfters = {0}
  MaxAttempts = 2
  PublishDelay = 0
  MaxBatch = 2
  MaxScan = 2
  PartialTTL = 1
  TombstoneTTL = 0
  MaxTime = 0
  MaxSeq = 4
  MaxCrashes = 0
  MaxFailures = 0
  MaxRebuilds = 0
SYMMETRY MCSymmetry
INVARIANTS IndexesAgree CurrentOnly AttemptBudget
PROPERTIES HeldBack ImplementsRelay
CHECK_DEADLOCK FALSE
