SPECIFICATION Spec
CONSTANTS
    Dials = {d1, d2, d3}
    Closers = {x1}
    URIs = {u1, u2}
    Known = {u1}
    Kinds = {"ahead", "lazy", "static"}
    NoCache = NoCache
SYMMETRY Symmetry
INVARIANTS
    LeakNeedsRemoval
    MappedIsOpen
    CloseStopsExisting
    FailedDialClosesSocket
    KeyFailureIsFinal
CHECK_DEADLOCK FALSE
