SPECIFICATION Spec

CONSTANTS
    MaximumNestingDepth = 1
    StrictModes = {FALSE}
    ContextModes = {"grouped"}
    TeardownModes = {"flat"}
    Starts = {1}
    Durations = {0, 2, 7}
    StepEvidence <- PassedSteps
    ScenarioEvidence <- PassedScenarios
    Limit = 1000
    MaxItems = 3
    MaxFailures = 1
    None = None

INVARIANTS
    FailuresReported
