SPECIFICATION Spec

CONSTANTS
    c1 = c1
    c2 = c2
    a1 = a1
    a2 = a2
    ScenarioCalls = {c1, c2}
    SuiteCalls = {s1, s2}
    KillCalls = {k1}
    Attempts = {a1, a2}
    AttemptOf <- OwnAttempt
    Diagnostics = {d1}
    NilSuite = nilSuite
    EmptySuite = emptySuite
    Streaming = TRUE
    Strict = FALSE
    ProtoDump = TRUE
    Configured = {"executor", "categories"}
    Faults = {"mapping", "write", "metadata"}
    SuiteLast = TRUE
    KillLast = TRUE
    None = None

INVARIANTS
    SummaryCountsDisk
    MemoryMatchesDisk

PROPERTIES
    
    SummaryMadeOnce
