\* Two calls of seven mixes and the reloader, one indication or reset of the modem.
SPECIFICATION FairSpec
CONSTANTS
  c1 = c1
  c2 = c2
  p1 = p1
  p2 = p2
  Reloader = Reloader
  NoCall = NoCall
  NoProfile = NoProfile
  NoSnapshot = NoSnapshot
  Calls = {c1, c2}
  Profiles = {p1, p2}
  Programs <- Mixes
  Leftover = p1
  MaxIndications = 1
CHECK_DEADLOCK FALSE
INVARIANTS Consistent OperatorInformed
PROPERTIES Returns
