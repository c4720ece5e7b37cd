SPECIFICATION Spec
CONSTANTS
  a = a
  b = b
  d1 = d1
  d2 = d2
  None = None
  Characters = {a, b}
  Drops = {d1, d2}
  MaxDrops = 1
  QueueLimit = 2
SYMMETRY MCSymmetry
INVARIANTS
  GrantedOnce
  AnswersTruthful
