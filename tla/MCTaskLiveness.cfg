SPECIFICATION FairSpec
CONSTANTS
    Task = {t1, t2}
    MaxConcurrent = 1
    MaxRetries = 0
    MaxSteps = 1
    MaxFaults = 0
    MaxCrashes = 0
INVARIANTS NeverStuck
PROPERTIES DrainEnds AckedTasksSettle
CHECK_DEADLOCK FALSE
