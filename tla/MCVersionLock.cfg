SPECIFICATION MCFairSpec
CONSTANTS
    Versions = {v1, v2, v3}
    Commands = {c1}
    Servers = {s1}
    Windows = {w1}
    Uninstallers = {u1}
    Nothing = Nothing
    Present = {v1, v2}
    Installed0 = v2
    MaxInstalls = 1
INVARIANTS
    VersionsKept
    GivesUpOnlyIfDisturbed
PROPERTY
    LocksLetGo
CHECK_DEADLOCK FALSE
