SPECIFICATION Spec
CONSTANTS
    Dials = {d1}
    Closers = {x1, x2}
    URIs = {u1}
    Known = {}
    Kinds = {"ahead"}
    NoCache = NoCache
SYMMETRY Symmetry
INVARIANTS
    CloseNeverPanics
CHECK_DEADLOCK FALSE
