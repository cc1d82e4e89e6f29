SPECIFICATION Spec
CONSTANTS
    Task = {t1, t2, t3, t4}
    MaxConcurrent = 2
    StarvationThreshold = 2
    MaxTime = 5
    MaxEntries = 4
INVARIANTS SlotsBounded
PROPERTIES OvertakingIsBounded ImplementsAdmission
CHECK_DEADLOCK FALSE
