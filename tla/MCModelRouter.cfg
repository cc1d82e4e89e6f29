SPECIFICATION FairSpec
CONSTANTS
    Registered <- MCRegistered
    Rank <- MCRank
    Fits <- MCFits
    Caller <- MCCaller
    MaxRequests = 5
    Attempts = 2
    Threshold = 2
INVARIANTS CircuitFollowsFailures OpenCircuitSpares
PROPERTY RequestsEnd
CHECK_DEADLOCK FALSE
