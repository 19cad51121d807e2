SPECIFICATION Spec

CONSTANTS
    c1 = c1
    c2 = c2
    a1 = a1
    a2 = a2
    ScenarioCalls = {c1, c2}
    SuiteCalls = {s1}
    KillCalls = {k1}
    Attempts = {a1, a2}
    AttemptOf <- RepeatedAttempt
    Diagnostics = {}
    NilSuite = nilSuite
    EmptySuite = emptySuite
    Streaming = FALSE
    Strict = FALSE
    ProtoDump = FALSE
    Configured = {}
    Faults = {}
    SuiteLast = TRUE
    KillLast = FALSE
    None = None

INVARIANTS
    InterruptionVisible
