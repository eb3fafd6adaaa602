SPECIFICATION MCFairSpec
CONSTANTS
    r1 = r1
    d1 = d1
    d2 = d2
    l1 = l1
    l2 = l2
    Roots = {r1, r2}
    Dirs = {d1, d2}
    Launches = {l1, l2}
    None = None
    MaxCrashes = 2
    MaxFaults = 1
INVARIANTS
    Consistent
    PolicyHolds
PROPERTIES
    StartupRecovers
    AttemptsSettle
CHECK_DEADLOCK FALSE
