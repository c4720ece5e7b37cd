SPECIFICATION ClientSpec
CONSTANTS
  None = None
  Players = {p1, p2}
  Maps = {town, field}
  Reports <- NoReports
  MaxNumber = 3
  MaxJump = 2
  MaxVisits = 2
  MaxBatch = 1
  Limit = 2
  Pack = 1
INVARIANTS
  LandedCanJump
