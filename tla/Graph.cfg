CONSTANTS
    p = p
    Node = {n1, n2, n3, n4}
    Port = {p, q}
    Required = {p}
    MaxEdges = 4
    MaxParallel = 4
    Graphs <- AllGraphs
SYMMETRY NodeSymmetry
SPECIFICATION Spec
INVARIANT CycleIsFound
INVARIANT AcceptedHasOrder
INVARIANT OrderRespectsEdges
INVARIANT PathsAreTerminated
PROPERTY InputsAreFinal
CHECK_DEADLOCK FALSE
