SPECIFICATION Spec
CONSTANTS
  None = None
  p1 = p1
  p2 = p2
  p3 = p3
  Players = {p1, p2, p3}
  r1 = r1
  r2 = r2
  r3 = r3
  Modes = {"1v1"}
  Requests = {r1, r2, r3}
  Kinds <- KindsOfEach
  Customs = {p2}
  Starts <- Beginnings
  Attempts = 2
SYMMETRY EitherOrder
INVARIANTS TypeOK NoTwice BeatenOnly
PROPERTIES RoomsSpec JoinLands
CHECK_DEADLOCK FALSE
