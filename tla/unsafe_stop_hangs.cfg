\* A STOP before the barrier is complete.
CONSTANTS
    N = 2
    MaxMeals = 1
    Strategy = 1
    InitSpeed = 50
    Speeds = {}
    Commands = {"STOP"}
    Callers = {main}
    CreateMayFail = FALSE
SPECIFICATION FairSpec
PROPERTY
    StopReturns
CHECK_DEADLOCK FALSE
