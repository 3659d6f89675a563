SPECIFICATION LegacySpec
CONSTANTS
  t1 = t1  c1 = c1
  Ids = {t1}
  Commands = {c1}
  MaxCommands = 2
  MaxReloads = 0
  MaxFailures = 0
PROPERTIES AppliedWithoutRestart
CHECK_DEADLOCK FALSE
