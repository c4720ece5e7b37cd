SPECIFICATION Spec
CONSTANTS
  a = a
  b = b
  t1 = t1
  sword = sword
  shield = shield
  Characters = {a, b}
  TradeIds = {t1}
  Goods = {sword, shield}
  InitialGoods <- MCOwners
  Operations <- MCOperations
  OperationsA = {"query"}
  OperationsB = {}
  Faults = {"storage", "crash", "disconnect"}
  Capacity = 1
  QueueLimit = 2
  HitLimit = 1
  MaxRevision = 6
  MaxInventory = 2
INVARIANTS
  VerdictsTruthful
PROPERTIES
  ImplementsContract
