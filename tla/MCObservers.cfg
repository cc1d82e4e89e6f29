SPECIFICATION FairSpec
CONSTANTS
    Order <- MCOrder
    Caller <- MCCaller
    MaxRequests = 5
    MaxStarts = 2
INVARIANT ReconciledIsStopped
PROPERTIES TakenSincePurge RequestsReturn
CHECK_DEADLOCK FALSE
