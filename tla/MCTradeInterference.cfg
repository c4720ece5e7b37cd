SPECIFICATION Spec
CONSTANTS
  a = a
  b = b
  t1 = t1
  sword = sword
  shield = shield
  Characters = {a, b}
  TradeIds = {t1}
  Goods = {sword}
  InitialGoods <- MCOwners
  Operations <- MCOperations
  OperationsA = {"change", "damage", "query"}
  OperationsB = {}
  Faults = {"storage", "timeout"}
  Capacity = 2
  QueueLimit = 1
  HitLimit = 1
  MaxRevision = 5
  MaxInventory = 2
INVARIANTS
  NoDuplication
  CommittingUndisturbed
  CacheSound
  ExchangedAsConfirmed
PROPERTIES
  NothingConjured
CHECK_DEADLOCK FALSE
