SPECIFICATION Spec
CONSTANTS
    Dials = {d1, d2, d3}
    Closers = {}
    URIs = {u1}
    Known = {}
    Kinds = {"ahead"}
    NoCache = NoCache
SYMMETRY Symmetry
INVARIANTS
    UnmappedIsStopped
CHECK_DEADLOCK FALSE
