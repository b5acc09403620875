\* Two of three parts, one index in each of two storages, one failure or restart; fair.
CONSTANTS
  single = single
  long = long
  a = a
  b1 = b1
  b2 = b2
  Messages = {single, long}
  Parts = {a, b1, b2}
  Of <- PartsInMessages
  Indexes = {1}
  MaxArrivals = 2
  MaxFaults = 1
  Handler = Handler
  Poll = Poll
  Raw = Raw
  None = None
SPECIFICATION Spec
INVARIANTS Consistent NothingDropped
PROPERTIES EventuallyHandedOn
CHECK_DEADLOCK FALSE
