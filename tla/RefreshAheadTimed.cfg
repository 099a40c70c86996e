\* In units of 30 seconds: interval, burst and timeout as in the program, a
\* buffer of 2:30 and an hour of 5 minutes.  Two failures and a success, each
\* with 30 s of call, and their waits in the limiter just fit into the buffer:
\* with one of 2 minutes NeverLapses fails.
CONSTANTS
    Callers = {c1}
    Ops = {o1, o2, o3, o4}
    NoOp = NoOp
    Hour = 10
    Buffer = 5
    Interval = 1
    Burst = 2
    RefreshTimeout = 2
    Lifetimes = {0, 5, 9, 10}
    MaxFetch = 1
    MaxFailures = 2
SPECIFICATION TimedSpec
SYMMETRY Symmetry
CHECK_DEADLOCK FALSE
INVARIANTS
    RefreshesAhead
    CyclesAreLimited
    NeverLapses
