SPECIFICATION Spec
CONSTANTS
  r1 = r1
  r2 = r2
  Requests = {r1, r2}
  None = None
  Behaviours = {"stale", "disagree", "concede", "drop", "gone", "lost", "said", "error", "port"}
  MaxGames = 3
  MaxReports = 1
  MaxFaults = 2
SYMMETRY SameRequests
INVARIANTS WinnerWon ScoreCounts
PROPERTY CrashUnrated
CHECK_DEADLOCK FALSE
