CONSTANTS
    f1 = f1
    abandon = abandon
    Requests = {o1}
    MaxSecrets = 1
    MaxFaults = 1
    Flows = {f1, abandon}
    ReservedFlows <- OneReserved
    Drafts = {a}
    ValidDrafts = {a}
    TemplateDraft = a
    MaxVersion = 2
    Handlers = {h1}
    Deliveries <- PushAndAbandon
    Changes <- TwoChanges
    Heads <- OneHead
    TestedFlows = {}
    BehaviorOf <- PushOrAbandon
SYMMETRY HandlerSymmetry
SPECIFICATION Spec
INVARIANT AcceptedCompletely
INVARIANT ExecutionsCarryTheirAction
CHECK_DEADLOCK FALSE
