\* One request of the user, recoveries that fail once, a card pulled or put in.
CONSTANTS
    Calls = {u1, r1, r2, x}
    Recoveries = {r1, r2}
    Remover = x
    Kinds = {"enable", "disable", "recover", "retry"}
    MaxPreempting = 0
    MaxFailures = 1
    MaxCardEvents = 1
    None = None
SPECIFICATION DesiredSpec
INVARIANTS DesiredConsistent
PROPERTIES DisableOutlastsRetries Returns DesiredReached StopsWhenUnwanted
CHECK_DEADLOCK FALSE
