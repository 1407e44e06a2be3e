CONSTANTS
    e1 = e1
    e2 = e2
    c1 = c1
    c2 = c2
    Executions = {e1, e2}
    Connections = {c1}
    ConnectionOf <- SharedConnection
    Goroutines = {g1, g2}
    Operators = {}
    OperatorActions = {"replay"}
    MaxJobs = 2
    NodeCount = 2
    MaxAttempts = 2
    MaxCrashes = 1
    SlowRuns = FALSE
    StoreErrors = FALSE
    RetentionEnds = FALSE
    NoGoroutine = NoGoroutine
    NoExecution = NoExecution
SPECIFICATION FairSpec
PROPERTY ExecutionSettles
PROPERTY JobsEnd
CHECK_DEADLOCK FALSE
