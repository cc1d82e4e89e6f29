SPECIFICATION Spec
CONSTANTS
    Task = {t1, t2, t3}
    Resource = {r1, r2}
    MaxDuration = 2
    MaxTime = 4
    MaxTickets = 3
SYMMETRY Symmetry
INVARIANTS StepKeepsItsLocks MutualExclusion NoLostGrant
CHECK_DEADLOCK FALSE
