SPECIFICATION MCFairSpec
CONSTANTS
    s1 = s1
    s2 = s2
    w1 = w1
    w2 = w2
    r1 = r1
    Sessions = {s1, s2}
    Checkouts = {w1, w2}
    Paths = {p}
    Stems = {a}
    Fresh = {f, g}
    Roots = {r1, r2}
    None = None
    ATTEMPTS = 2
    MaxFaults = 2
    MaxActs = 2
    MaxCrashes = 2
INVARIANTS
    Consistent
    KnownOrTold
PROPERTIES
    OwnMoved
    InUseStays
    DeleteCompletes
CHECK_DEADLOCK FALSE
