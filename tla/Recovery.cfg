CONSTANTS
    e1 = e1
    e2 = e2
    c1 = c1
    c2 = c2
    Executions = {e1}
    Connections = {c1}
    ConnectionOf <- SharedConnection
    Goroutines = {g1, g2}
    Operators = {o1}
    OperatorActions = {"retry", "repair"}
    MaxJobs = 3
    NodeCount = 3
    MaxAttempts = 2
    MaxCrashes = 1
    SlowRuns = FALSE
    StoreErrors = FALSE
    RetentionEnds = TRUE
    NoGoroutine = NoGoroutine
    NoExecution = NoExecution
SYMMETRY WorkerSymmetry
SPECIFICATION Spec
INVARIANT TypeOK
INVARIANT NoStrandedExecution
PROPERTY OutcomeIsFinal
PROPERTY ImplementsLedger
CHECK_DEADLOCK FALSE
