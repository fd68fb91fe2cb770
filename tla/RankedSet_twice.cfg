SPECIFICATION Spec
CONSTANTS
  r1 = r1
  r2 = r2
  Requests = {r1, r2}
  None = None
  Behaviours = {"concede", "said"}
  MaxGames = 2
  MaxReports = 1
  MaxFaults = 2
SYMMETRY SameRequests
INVARIANT RatedOnce
CHECK_DEADLOCK FALSE
