CONSTANTS
    f1 = f1
    f2 = f2
    ch1 = ch1
    p1 = p1
    p2 = p2
    p3 = p3
    archive = archive
    abandon = abandon
    Flows = {f1}
    Changes = {ch1}
    Publishes = {p1}
    Completes = {archive}
    Abandons = {}
    FlowOf <- FlowOfPublish
    ChangeOf <- OneChange
    IssueChanges = {ch1}
    Cards = {f1}
    CardOf <- OwnCards
    RejectsDuplicates = FALSE
    Faults = TRUE
    MaxIssues = 1
    MaxAttempts = 2
    MaxRetries = 1
    MaxCrashes = 0
    NoExecution = NoExecution
    NoKey = NoKey
SPECIFICATION Spec
INVARIANT SuccessClosesIssue
CHECK_DEADLOCK FALSE
