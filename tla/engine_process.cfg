\* The whole process: with the listener, a PAUSE and a STOP; without it, a signal.
CONSTANTS
    N = 2
    MaxMeals = 1
    Strategy = 0
    InitSpeed = 50
    Speeds = {}
    Commands = {"PAUSE", "STOP"}
    Callers = {"main", "listener", "handler", "cleanup"}
    CreateMayFail = TRUE
    Signals = {"batch"}
SPECIFICATION EngineFairSpec
INVARIANTS
    QuietInBatch
    NobodyDines
PROPERTY
    ProcessExits
CHECK_DEADLOCK FALSE
