\* Three calls of kinds that contend, the watchdog, one WaitIdle caller; fair.
SPECIFICATION FairSpec
CONSTANTS
  r1 = r1
  r2 = r2
  r3 = r3
  w1 = w1
  NoRequest = NoRequest
  Requests = {r1, r2, r3}
  Idlers = {w1}
  Calls <- AllCalls
  Mixes <- MadeTogether
  MaxSessions = 2
  MaxQMITransports = 2
CHECK_DEADLOCK FALSE
INVARIANTS Consistent SharedSafely NoLostWakeup
PROPERTIES QueueOrder TouchedLeaseSurvives ServedUnlessAged
