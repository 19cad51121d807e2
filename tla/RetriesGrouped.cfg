SPECIFICATION Spec

CONSTANTS
    login = login
    Streams = {1, 2}
    Items <- SpecRows
    Queue <- SpecRowQueue
    MaxRetry = 1
    FaultModes <- NoFault
    MaxFaults = 0
    MaxRepeats = 1
    MaxSteps = 1
    MaxTime = 1
    None = None

INVARIANTS
    RetriesGrouped
