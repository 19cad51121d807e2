SPECIFICATION Spec

CONSTANTS
    login = login
    Streams = {1, 2}
    Items <- ScenarioRows
    Queue <- ScenarioRowQueue
    MaxRetry = 1
    FaultModes <- OneFault
    MaxFaults = 1
    MaxRepeats = 1
    MaxSteps = 1
    MaxTime = 1
    None = None

INVARIANTS
    TypeOK
    OwnStart
    StartsInUse
    LiveRangeSound
    AttemptsApart
    ThreadKept
    HistoryIdentifiesRow

PROPERTIES
    TimesKept
