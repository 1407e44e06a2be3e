CONSTANTS
    f1 = f1
    f2 = f2
    ch1 = ch1
    p1 = p1
    p2 = p2
    p3 = p3
    archive = archive
    abandon = abandon
    Flows = {f1, f2}
    Changes = {ch1}
    Publishes = {p1, p2}
    Completes = {archive}
    Abandons = {abandon}
    FlowOf <- FlowOfPublish
    ChangeOf <- OneChange
    IssueChanges = {ch1}
    Cards = {f1, f2}
    CardOf <- OwnCards
    RejectsDuplicates = TRUE
    Faults = TRUE
    MaxIssues = 3
    MaxAttempts = 2
    MaxRetries = 1
    MaxCrashes = 1
    NoExecution = NoExecution
    NoKey = NoKey
SPECIFICATION Spec
INVARIANT TerminalMatchesIssue
INVARIANT OneProjectionPerFlow
INVARIANT SuccessIsCorrelated
PROPERTY TerminalIsFrozen
PROPERTY ClosedAfterProjections
CHECK_DEADLOCK FALSE
