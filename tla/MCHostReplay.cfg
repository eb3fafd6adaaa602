SPECIFICATION Spec
CONSTANTS
    Small = Small
    Large = Large
    None = None
    Sizes <- MCSizes
    InitialSize = Small
    Cap = 3
    RECORD_COST = 2
    MaxBytes = 3
    MaxResizes = 1
    Programs <- Three
    Seeded = TRUE
    CHECKPOINT = 2
    QUEUE = 2
    MaxSupervisors = 2
    MaxLosses = 1
CONSTRAINT ToLarge
CHECK_DEADLOCK FALSE
INVARIANTS
    ScreenTrue
    AnsweredOnce
PROPERTIES
    ShownLive
