SPECIFICATION Spec
CONSTANTS
    Device <- MCDevice
    Field <- MCField
    Change <- MCChange
    Granted <- MCGranted
    MaxOverlap = 2
    MaxSuspended = 2
    MaxLog = 3
INVARIANTS NothingSkipped NothingLost Converged
PROPERTIES AppliedOnce
CHECK_DEADLOCK FALSE
