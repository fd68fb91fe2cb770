SPECIFICATION LiveSpec
CONSTANTS
    Nodes = {n1, n2}
    Conns = {c1}
    EdgeConns = {c1}
    Sockets = {s1, s2}
    Failing = {n1}
    None = None
    MaxFaults = 1
    PostMatch = FALSE
PROPERTIES PresenceDrains HolderReleases
CHECK_DEADLOCK FALSE
