\* A whole run of strategy 0, left alone.
CONSTANTS
    N = 3
    MaxMeals = 2
    Strategy = 0
    InitSpeed = 50
    Speeds = {}
    Commands = {}
    Callers = {main}
    CreateMayFail = FALSE
SPECIFICATION FairSpec
INVARIANTS
    TypeOK
    NeighboursNeverEatTogether
    NoCircularWait
    SomeoneCanGoOn
    EatingCountRight
    FullUnlessStopped
    FinishedMeansReturned
PROPERTY
    EveryoneEats
