\* Overlapping administration of two projects, through restarts.
SPECIFICATION AdminSpec
CONSTANTS
    Project = {p, q}
    Target = {t2}
    DefaultTarget = t1
    Unmapped = unmapped
    FirstAllowed = {p}
    SharedTokens = 2
    AdminRequests = {a1, a2}
    MaxTokens = 4
    MaxStops = 2
SYMMETRY Symmetry
INVARIANT IndexedIsAccepted
INVARIANT MapCoversAllowlist
CHECK_DEADLOCK FALSE
