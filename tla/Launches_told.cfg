SPECIFICATION LiveSpec
CONSTANTS
  None = None
  p1 = p1
  p2 = p2
  Players = {p1, p2}
  Searching = {p1}
  Parties <- Each
  Kinds <- KindsOfMatch
  Replicas = {r1, r2}
  Calls = {c1}
  MaxDeliveries = 2
  Restless = {p2}
  MaxConns = 2
  MaxFaults = 1
INVARIANTS TypeOK ToldOnce OneVerdict LostOnlyOnceClaimed
PROPERTIES Settles NobodyLeftLoading
CHECK_DEADLOCK FALSE
