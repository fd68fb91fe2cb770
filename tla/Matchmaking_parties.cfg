SPECIFICATION Spec
CONSTANTS
  None = None
  p1 = p1
  p2 = p2
  p3 = p3
  p4 = p4
  Players = {p1, p2, p3, p4}
  Workers = {w1, w2}
  Requests = {r1, r2, r3}
  Lists = {"2v2"}
  Searches <- PartySearches
  Skill <- Even
  Blocks <- NoBlocks
  StrictFor = 0
  LooseFor = 0
  MaxTime = 0
  LastAsk = 0
  Faults = {"port", "crash", "fail"}
  MaxFaults = 1
  MaxCancels = 0
SYMMETRY SameParties
INVARIANT NoPlayerTwice
