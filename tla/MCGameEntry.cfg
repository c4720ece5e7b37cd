SPECIFICATION ChatSpec
CONSTANTS
  None = None
  c1 = c1  c2 = c2  c3 = c3  a1 = a1  a2 = a2
  Characters = {c1, c2, c3}
  Accounts = {a1, a2}
  Owner <- OwnerOf
  Sessions = {s1, s2}
  Keys = {k1, k2}
  Maps = {town, field}
  Start = town
  Capacity = 3
  Cost = 2
  Speakers = {a1}
INVARIANTS
  IndexesAgree
  KeysSpentOnce
  PresenceAgrees
  SpeechExact
PROPERTIES
  EntrySettles
