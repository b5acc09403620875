\* Three goroutines of six mixes, at most four starts, recoveries of one scan.
SPECIFICATION FairSpec
CONSTANTS
  g1 = g1
  g2 = g2
  g3 = g3
  Procs = {g1, g2, g3}
  Programs <- Mixes
  MaxAttempts = 4
  Rounds = 1
  Cap = 1
CHECK_DEADLOCK FALSE
INVARIANTS Consistent
PROPERTIES MarksReleased
