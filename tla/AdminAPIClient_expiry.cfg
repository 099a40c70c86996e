\* Not one of the runs: TLC refutes ExpiryIsPresented, as its comment explains.
SPECIFICATION FairSpec
CONSTANT
    MaxChain = 2
INVARIANT
    ExpiryIsPresented
CHECK_DEADLOCK FALSE
