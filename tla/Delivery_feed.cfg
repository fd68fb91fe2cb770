SPECIFICATION LiveSpec
CONSTANTS
    Nodes = {n1, n2}
    MaxLinks = 2
    Kinds = {"message", "close", "other"}
    MaxEntries = 2
    MaxFaults = 1
    Failing = {n1}
    None = None
INVARIANTS TypeOK
PROPERTIES EveryMessageArrives ClosesInAGap FeedSpec
CHECK_DEADLOCK FALSE
