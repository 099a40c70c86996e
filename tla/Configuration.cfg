\* Two NewDialer calls in one process and two Dials of the Dialers they make.
CONSTANTS
    Creates = {n1, n2}
    Dials = {d1, d2}
    NoDialer = NoDialer
    Identities = {"a", "b", "bad"}
    Groups <- MCGroups
    MaxGroups = 2
    DialOpts <- MCDialOpts
    MaxDialOpts = 1
SPECIFICATION Spec
SYMMETRY Symmetry
CHECK_DEADLOCK FALSE
INVARIANTS
    CreatedMeansUsable
    IdentityAsGiven
    MetricsFailureIsFinal
    DialsAreIndependent
