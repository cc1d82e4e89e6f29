SPECIFICATION Spec
CONSTANTS
    a = a
    b = b
    c = c
    Job <- Jobs
    Definition <- Definitions
    Store = "injected"
    MaxTime = 1
    MaxMishaps = 1
INVARIANTS GroupsExclude DependenciesFirst NobodyWaitsForItself FileIsCurrent
PROPERTIES DelayedJobsSucceedOnce StartsWhenDue
CHECK_DEADLOCK FALSE
