SPECIFICATION Spec
CONSTANTS
  None = None
  p1 = p1
  p2 = p2
  p3 = p3
  p4 = p4
  Players = {p1, p2}
  Workers = {w1, w2}
  Requests = {r1, r2, r3}
  Lists = {"1v1"}
  Searches <- SoloSearches
  Skill <- Even
  Blocks <- NoBlocks
  StrictFor = 0
  LooseFor = 0
  MaxTime = 0
  LastAsk = 0
  Faults = {"crash", "fail", "gone", "replaced"}
  MaxFaults = 1
  MaxCancels = 1
SYMMETRY SameGames
INVARIANTS TypeOK MatchedOnce TicksStop
