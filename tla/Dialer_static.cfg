SPECIFICATION Spec
CONSTANTS
    Dials = {d1, d2}
    Closers = {}
    URIs = {u1, u2}
    Known = {u1, u2}
    Kinds = {"static"}
    NoCache = NoCache
SYMMETRY Symmetry
INVARIANTS
    StaticServesAllKnown
CHECK_DEADLOCK FALSE
