CONSTANTS
    e1 = e1
    e2 = e2
    c1 = c1
    c2 = c2
    Executions = {e1, e2}
    Connections = {c1}
    ConnectionOf <- SharedConnection
    Goroutines = {g1, g2}
    Operators = {}
    OperatorActions = {"replay"}
    MaxJobs = 2
    NodeCount = 2
    MaxAttempts = 2
    MaxCrashes = 1
    SlowRuns = TRUE
    StoreErrors = TRUE
    RetentionEnds = FALSE
    NoGoroutine = NoGoroutine
    NoExecution = NoExecution
SYMMETRY RunSymmetry
SPECIFICATION Spec
INVARIANT LeaseProtectsRun
INVARIANT SerialPerConnection
INVARIANT SuccessIsCheckpointed
PROPERTY CheckpointIsKept
CHECK_DEADLOCK FALSE
