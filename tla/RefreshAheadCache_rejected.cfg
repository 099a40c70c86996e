SPECIFICATION Spec
CONSTANTS
    Callers = {c1}
    Ops = {o1, o2, o3, o4}
    NoOp = NoOp
PROPERTY
    RejectedIsReplaced
CHECK_DEADLOCK FALSE
