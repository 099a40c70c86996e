SPECIFICATION RecoveringSpec
CONSTANTS
    Callers = {c1}
    Ops = {o1, o2, o3, o4}
    NoOp = NoOp
PROPERTIES
    CloseStopsCycle
    Recovers
    BlockedReturns
CHECK_DEADLOCK FALSE
