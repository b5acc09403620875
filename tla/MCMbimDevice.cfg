CONSTANTS
  opener = opener
  c1 = c1
  c2 = c2
  Callers <- AllCallers
  Opener = opener
  MaxTx = 3
  Sizes = {2}
  MaxFragments = 2
  MaxIndications = 2
  Capacity = 1
  MaxFaults = 1
SPECIFICATION Spec
INVARIANTS Consistent
PROPERTIES ImplementsRpc
CHECK_DEADLOCK FALSE
