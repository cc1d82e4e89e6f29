SPECIFICATION Spec
CONSTANTS
    Order <- MCWaiting
    Caller <- MCCaller
    MaxRequests = 5
    MaxStarts = 2
INVARIANT RevokedIsStopped
CHECK_DEADLOCK FALSE
