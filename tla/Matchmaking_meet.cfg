SPECIFICATION FairSpec
CONSTANTS
  None = None
  p1 = p1
  p2 = p2
  p3 = p3
  p4 = p4
  Players = {p1, p2, p3}
  Workers = {w1, w2}
  Requests = {r1, r2}
  Lists = {"1v1"}
  Searches <- SoloSearches
  Skill <- Ratings
  Blocks <- NoBlocks
  StrictFor = 1
  LooseFor = 2
  MaxTime = 4
  LastAsk = 0
  Faults = {"crash", "slow"}
  MaxFaults = 1
  MaxCancels = 0
PROPERTIES PairMatched
