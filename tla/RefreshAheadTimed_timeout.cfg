\* A call of the Admin API that takes longer than the refresh timeout.
CONSTANTS
    Callers = {c1}
    Ops = {o1, o2, o3, o4}
    NoOp = NoOp
    Hour = 30
    Buffer = 8
    Interval = 1
    Burst = 2
    RefreshTimeout = 2
    Lifetimes = {30}
    MaxFetch = 4
    MaxFailures = 0
SPECIFICATION TimedSpec
SYMMETRY Symmetry
CHECK_DEADLOCK FALSE
INVARIANT TimeoutEndsRefresh
