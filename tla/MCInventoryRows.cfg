SPECIFICATION Spec
CONSTANTS
  a = a
  b = b
  d1 = d1
  d2 = d2
  h1 = h1
  t1 = t1
  None = None
  Characters = {a, b}
  Categories = {0, 1}
  Slots = 2
  Limit <- MCLimit
  MaxHp = 2
  MaxMp = 1
  Heal = 1
  Mana = 1
  MaxRevision = 4
  MaxMesos = 3
  MaxItems = 1
  StarterPack <- MCStarterPack
  Drops <- MCDrops
  Hits <- MCHits
  Trades = {t1}
  Players = {a}
  Pairs <- MCPairs
INVARIANTS
  StoredLoads
  NothingRefused
  ItemsConserved
  FullMeansFull
PROPERTIES
  ImplementsStore
  ExchangeExact
