CONSTANTS
    s1 = s1
    o1 = o1
    o2 = o2
    Runs = {r1, r2}
    Operations = {o1, o2}
    Sources = {s1}
    RequestsOf <- CreateOrChoose
    Existing = 1
    MaxProjects = 3
    MaxConnections = 2
    MaxFaults = 1
    Steps <- ProjectOnly
    Foreign <- ForeignResource
SYMMETRY RunSymmetry
SPECIFICATION Spec
INVARIANT TypeOK
INVARIANT OneToOne
INVARIANT OneProjectPerSource
INVARIANT ManagedIsOurs
INVARIANT ConfiguredIsComplete
CHECK_DEADLOCK FALSE
