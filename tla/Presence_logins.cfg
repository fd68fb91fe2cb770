SPECIFICATION Spec
CONSTANTS
    Nodes = {n1, n2}
    Conns = {c1, c2}
    EdgeConns = {c2}
    Sockets = {s1, s2}
    Failing = {}
    None = None
    MaxFaults = 0
    PostMatch = TRUE
SYMMETRY Symmetry
INVARIANTS TypeOK Announced
PROPERTIES HolderReleases
CHECK_DEADLOCK FALSE
