\* Every command at any time, and a sim_start that may fail.
CONSTANTS
    N = 2
    MaxMeals = 1
    Strategy = 0
    InitSpeed = 50
    Speeds = {20, 201}
    Commands = {"PAUSE", "RESUME", "STEP", "SPEED", "STOP"}
    Callers = {main}
    CreateMayFail = TRUE
SPECIFICATION Spec
INVARIANTS
    ForkRecordsAgree
    PermitAccounting PermitCountTrails
    StoppedMeansQuiet
    NoLostWakeup
PROPERTIES
    StepsPayForCheckpoints
    DiningSpec
