\* Two switches among two profiles, with readers of the identity and watchdogs.
SPECIFICATION FairSpec
CONSTANTS
  s1 = s1
  s2 = s2
  p1 = p1
  p2 = p2
  NoSwitch = NoSwitch
  NoProfile = NoProfile
  Switches = {s1, s2}
  Profiles = {p1, p2}
  Targets <- Pairs
  Configs <- OneDevice
CHECK_DEADLOCK FALSE
INVARIANT Consistent
PROPERTIES MarkKept TransitionEndsAtTarget MarkReleased
