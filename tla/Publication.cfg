CONSTANTS
    f1 = f1
    abandon = abandon
    Requests = {o1, o2}
    MaxSecrets = 2
    MaxFaults = 1
    Flows = {abandon}
    ReservedFlows <- OneReserved
    Drafts = {a, b}
    ValidDrafts = {a, b}
    TemplateDraft = a
    MaxVersion = 2
    Handlers = {}
    Deliveries <- PushOnly
    Changes <- TwoChanges
    Heads <- OneHead
    TestedFlows = {abandon}
    BehaviorOf <- PushOrAbandon
SYMMETRY RequestSymmetry
SPECIFICATION Spec
INVARIANT ControlTypeOK
INVARIANT ActiveIsNewest
INVARIANT OneActiveRoute
INVARIANT RouteIsVerifiable
INVARIANT PublishedIsRouted
INVARIANT HookTokensAgree
PROPERTY VersionsAreImmutable
CHECK_DEADLOCK FALSE
