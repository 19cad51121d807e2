SPECIFICATION Spec

CONSTANTS
    MaximumNestingDepth = 1
    StrictModes = {FALSE}
    ContextModes = {"grouped"}
    TeardownModes = {"flat"}
    Starts = {1, 4}
    Durations = {0, 2, 7}
    StepEvidence <- SomeSteps
    ScenarioEvidence <- PassedScenarios
    Limit = 1000
    MaxItems = 2
    MaxFailures = 1
    None = None

INVARIANTS
    StopAfterStart
