SPECIFICATION Spec

CONSTANTS
    MaximumNestingDepth = 1
    StrictModes = {FALSE, TRUE}
    ContextModes = {"fixtures"}
    TeardownModes = {"flat"}
    Starts = {1, 4}
    Durations = {0, 3}
    StepEvidence <- SomeSteps
    ScenarioEvidence <- SomeScenarios
    Limit = 8
    MaxItems = 3
    MaxFailures = 1
    None = None

INVARIANTS
    TypeOK
    StepsInParent
    StepsInOrder
    
    FailedExplained
    FallbackAfterEarlier
