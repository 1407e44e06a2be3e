CONSTANTS
    e1 = e1
    e2 = e2
    c1 = c1
    c2 = c2
    Executions = {e1}
    Connections = {c1}
    ConnectionOf <- SharedConnection
    Goroutines = {g1, g2}
    Operators = {o1, o2}
    OperatorActions = {"retry", "repair", "attention"}
    MaxJobs = 2
    NodeCount = 2
    MaxAttempts = 2
    MaxCrashes = 1
    SlowRuns = FALSE
    StoreErrors = FALSE
    RetentionEnds = FALSE
    NoGoroutine = NoGoroutine
    NoExecution = NoExecution
SYMMETRY WorkerSymmetry
SPECIFICATION Spec
INVARIANT AttentionMatchesStatus
CHECK_DEADLOCK FALSE
