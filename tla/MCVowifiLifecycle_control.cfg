\* Three calls of any kind, one of them a restart or a switch.
CONSTANTS
    Calls = {c1, c2, c3}
    Kinds = {"enable", "disable", "restart", "recover", "retry", "reconnect", "remove", "switchBegin", "switchEnd"}
    MaxPreempting = 1
    None = None
SPECIFICATION Spec
SYMMETRY CallSymmetry
INVARIANTS Consistent QuietDuringSwitch
PROPERTIES ClaimsFresh
\* Every call returns and nothing is left to do.
CHECK_DEADLOCK FALSE
