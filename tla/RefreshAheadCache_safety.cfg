SPECIFICATION Spec
CONSTANTS
    Callers = {c1, c2}
    Ops = {o1, o2, o3, o4, o5}
    NoOp = NoOp
SYMMETRY Symmetry
INVARIANTS
    SingleRefresh
    CycleAlive
    CurNeverDangling
PROPERTIES
    ImplementsAbstract
    ForceReplacesExpired
CHECK_DEADLOCK FALSE
