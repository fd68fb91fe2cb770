SPECIFICATION Spec
CONSTANTS
  None = None
  p1 = p1
  p2 = p2
  p3 = p3
  p4 = p4
  Players = {p1, p2, p3, p4}
  Workers = {w1}
  Requests = {r1, r2, r3, r4}
  Lists = {"FFA"}
  Searches <- FourSearches
  Skill <- Even
  Blocks <- NoBlocks
  StrictFor = 0
  LooseFor = 0
  MaxTime = 0
  LastAsk = 0
  Faults = {"window"}
  MaxFaults = 1
  MaxCancels = 0
SYMMETRY SameGames
INVARIANT StatusHeld
