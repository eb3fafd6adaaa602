SPECIFICATION MCSpec
CHECK_DEADLOCK FALSE
CONSTANTS
    None = None
    Conns = {c1, c2, c3}
    Foreign = {c3}
    Hellos = {"Hello", "HelloTakeOver", "HelloZero", "NotHello"}
    Frames = {"Hello", "Info", "Read", "Input", "Resize", "Shutdown", "Malformed"}
    Faults = {"exit", "let_go", "sigterm", "descriptors", "half_close"}
    FRAME = 2
    INPUT_LEN = 2
    INPUT_COST = 1
    MAX_PENDING_INPUT = 4
    OUTGOING_HIGH_WATER = 2
    RECEIVE_LIMIT = 2
    MAX_BEFORE_HELLO = 2
    MAX_PENDING_CONNECTIONS = 1
    READ_BUDGET = 1
    EXIT_DRAIN_BYTES = 1
    SOCKET_ROOM = 3
    PTY_ROOM = 3
    MaxFrames = 3
    MaxOutput = 2
SYMMETRY SameUser
INVARIANTS
    Consistent
    NoLostWakeup
    CloseActsOnEverything
    AcksAccounted
    OutputInOrder
