SPECIFICATION FairSpec
CHECK_DEADLOCK FALSE
CONSTANTS
    Starts = {s1, s2}
    Blocked = {s2}
    MaxRemovals = 1
    NoSocket = NoSocket
INVARIANTS
    AnswerIsTrue
PROPERTIES
    OthersLeftAlone
    StartsSettle
