SPECIFICATION Spec
CONSTANTS
    Task = {t1}
    MaxConcurrent = 1
    MaxRetries = 1
    MaxSteps = 2
    MaxFaults = 1
    MaxCrashes = 1
INVARIANTS TypeOK OneDriver ToolOnlyWhileExecuting ToolRunIsNeverForgotten CompletedMeansVerified SlotsHeldByRuns
PROPERTY ImplementsLifecycle
CHECK_DEADLOCK FALSE
