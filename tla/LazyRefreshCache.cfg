SPECIFICATION FairSpec
CONSTANTS
    Callers = {c1, c2, c3}
    Nobody = Nobody
    Life = 3
    Buffer = 1
INVARIANTS
    HolderFetches
PROPERTIES
    ForcedInfoIsNew
    CallReturns
