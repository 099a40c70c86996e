\* Two connections of one cache.
SPECIFICATION Spec
CONSTANTS
    Conns = {c1, c2}
    Caches = {k1}
    Modulus = 8
INVARIANTS
    GaugeIsCurrent
CHECK_DEADLOCK FALSE
