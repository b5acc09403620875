CONSTANTS
  u1 = u1
  r1 = r1
  r2 = r2
  rc = rc
  Users = {u1}
  Recoveries = {r1, r2}
  Reconnector = rc
  MaxCalls = 1
  Attempts = 2
  Threshold = 2
  Tries = 1
  MaxDeaf = 1
  MaxDrops = 1
SPECIFICATION ManagerSpec
INVARIANTS ManagerConsistent
PROPERTIES DeafNoticed DataRestored
CHECK_DEADLOCK FALSE
