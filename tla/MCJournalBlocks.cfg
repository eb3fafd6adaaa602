SPECIFICATION MCSpec
CONSTANTS
    Small = Small
    Large = Large
    Wide = Wide
    None = None
    Sizes <- MCSizes
    InitialSize = Small
    Cap = 4
    RECORD_COST = 2
    MAX_OUTPUT_CHUNK = 2
    MaxBytes = 4
    MaxResizes = 2
INVARIANTS
    TailSound
    StreamTold
    BlocksExact
PROPERTIES
    ImplementsJournal
    ExitReachesReader
