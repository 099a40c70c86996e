SPECIFICATION FairSpec
CONSTANT
    MaxChain = 2
INVARIANTS
    SuccessIsComplete
    FailureHasItsReason
PROPERTIES
    CancelReturns
    GoroutinesEnd
CHECK_DEADLOCK FALSE
