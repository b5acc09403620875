\* Three waiters and three invalidations, in every order, under fair scheduling.
SPECIFICATION GateFairSpec
CONSTANTS
  w1 = w1
  w2 = w2
  w3 = w3
  NoChannel = NoChannel
  Waiters = {w1, w2, w3}
  MaxGeneration = 3
CHECK_DEADLOCK FALSE
INVARIANT GateConsistent
PROPERTIES PassesVerified Answered
