\* WithRefreshTimeout chose less than the limiter's interval.
CONSTANTS
    Callers = {c1}
    Ops = {o1, o2, o3, o4}
    NoOp = NoOp
    Hour = 60
    Buffer = 16
    Interval = 2
    Burst = 2
    RefreshTimeout = 1
    Lifetimes = {60}
    MaxFetch = 1
    MaxFailures = 2
SPECIFICATION TimedSpec
SYMMETRY Symmetry
CHECK_DEADLOCK FALSE
INVARIANT CyclesAreLimited
