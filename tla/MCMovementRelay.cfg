SPECIFICATION Spec
CONSTANTS
  None = None
  p1 = p1  p2 = p2
  Players = {p1, p2}
  Maps = {town, field}
  Reports <- ReportsOf
  MaxNumber = 3
  MaxJump = 2
  MaxVisits = 2
  MaxBatch = 1
  Limit = 2
  Pack = 1
INVARIANTS
  RelayExact
  JumpsAlternate
