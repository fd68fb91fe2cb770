SPECIFICATION Spec
CONSTANTS
  r1 = r1
  r2 = r2
  Requests = {r1, r2}
  None = None
  Behaviours = {"early", "concede", "faceoff", "drop", "login"}
  MaxGames = 2
  MaxReports = 2
  MaxFaults = 2
SYMMETRY SameRequests
INVARIANTS TypeOK RatedByKey NoStall CheckinsCurrent
CHECK_DEADLOCK FALSE
