\* Two Dials with their connections, of one or two caches, and a refresh.
CONSTANTS
    Conns = {c1, c2}
    Caches = {k1, k2}
    Modulus = 8
    Refreshes = {f1}
    Sizes = {1}
    MaxIO = 1
SPECIFICATION TelSpec
SYMMETRY Symmetry
CHECK_DEADLOCK FALSE
INVARIANT EveryByteCounts
