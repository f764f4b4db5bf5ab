\* Two requests at a time, two engines one after the other, one event stream.
CONSTANTS
    Requests = {r1, r2}
    Clients = {c1}
    MaxEngines = 2
    Demos = {1}
    MaxEvents = 1
    Pipe = 1
    QueueSize = 1
SPECIFICATION FairSpec
INVARIANTS
    RunningIsTrue
    NoEngineForgotten
    StreamsAreComplete
PROPERTY
    RequestsReturn
