\* Every call returns and every run ends that the user lets end.
CONSTANTS
    N = 2
    MaxMeals = 1
    Strategy = 0
    InitSpeed = 50
    Speeds = {}
    Commands = {"PAUSE", "RESUME", "STEP", "STOP"}
    Callers = {main}
    CreateMayFail = TRUE
SPECIFICATION FairSpec
PROPERTIES
    StopReturns
    ResumedRunEnds
    SteppedRunEnds
