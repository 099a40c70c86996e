SPECIFICATION Spec
CONSTANTS
    Dials = {d1}
    Closers = {}
    URIs = {u1}
    Known = {}
    Kinds = {"ahead"}
    NoCache = NoCache
SYMMETRY Symmetry
INVARIANTS
    EveryFailureClosesSocket
CHECK_DEADLOCK FALSE
