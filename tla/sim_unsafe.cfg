\* Strategy 1 with stops and a failing sim_start, which may hang it.
CONSTANTS
    N = 3
    MaxMeals = 1
    Strategy = 1
    InitSpeed = 50
    Speeds = {}
    Commands = {"STOP"}
    Callers = {main}
    CreateMayFail = TRUE
SPECIFICATION Spec
INVARIANTS
    UnsafeReportsDeadlock
PROPERTIES
    DeadlockOnlyIfReal
CHECK_DEADLOCK FALSE
