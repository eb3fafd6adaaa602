SPECIFICATION MCFairSpec
CONSTANTS
    p1 = p1
    Pids = {p1, p2}
    Nobody = Nobody
    MaxStarts = 3
    MaxFaults = 1
INVARIANT
    Consistent
PROPERTIES
    ServedSocketKept
    CallEnds
CHECK_DEADLOCK FALSE
