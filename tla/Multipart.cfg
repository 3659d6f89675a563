SPECIFICATION SceneSpec
CONSTANTS
  u1 = u1 u2 = u2 r1 = r1 r2 = r2 e1 = e1 e2 = e2
  Uploads = {u1, u2}
  Numbers = {1, 2}
  Contents = {e1, e2}
  Lists <- AllLists
  Requests = {r1, r2}
  Cleaner = cleaner
  Locks = {1, 2, 3}
  None = none
  MaxAssemblies = 1
  TTL = 1
  MaxTime = 1
  MaxCrashes = 1
  MaxFailures = 1
INVARIANTS LifecycleExclusive CompletedOnce
PROPERTIES AssembledAsNamed IdleOnly AbandonedRemoved RequestsEnd
CHECK_DEADLOCK FALSE
