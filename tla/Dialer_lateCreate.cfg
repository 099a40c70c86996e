SPECIFICATION Spec
CONSTANTS
    Dials = {d1}
    Closers = {x1}
    URIs = {u1}
    Known = {}
    Kinds = {"ahead"}
    NoCache = NoCache
SYMMETRY Symmetry
INVARIANTS
    NoRefreshAfterClose
CHECK_DEADLOCK FALSE
