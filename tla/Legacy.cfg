\* Deliveries that overlap, repeat and outlive crashes, while projects come and go.
SPECIFICATION Spec
CONSTANTS
    p = p
    c = c
    s1 = s1
    Project = {p}
    Target = {t2}
    DefaultTarget = t1
    Unmapped = unmapped
    FirstAllowed = {p}
    SharedTokens = 1
    AdminRequests = {a1}
    MaxTokens = 1
    MaxStops = 1
    Issue = {i1}
    Publication <- Published
    Archive <- Archived
    Handlers = {h1, h2}
    MaxLost = 1
    MaxCards = 2
SYMMETRY Symmetry
INVARIANT OneCardPerKey
PROPERTY CreatedStands
INVARIANT ClosedAfterDone
CHECK_DEADLOCK FALSE
