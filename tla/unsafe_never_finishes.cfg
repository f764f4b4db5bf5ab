\* The watchdog's verdict is overwritten.
CONSTANTS
    N = 2
    MaxMeals = 1
    Strategy = 1
    InitSpeed = 50
    Speeds = {}
    Commands = {}
    Callers = {main}
    CreateMayFail = FALSE
SPECIFICATION FairSpec
PROPERTY
    WatchedDemoReturns
