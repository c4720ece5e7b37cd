SPECIFICATION FairSpec
CONSTANTS
  a = a
  b = b
  t1 = t1
  sword = sword
  shield = shield
  Characters = {a, b}
  TradeIds = {t1}
  Goods = {sword}
  InitialGoods <- MCOwners
  Operations <- MCOperations
  OperationsA = {"damage"}
  OperationsB = {}
  Faults = {"storage"}
  Capacity = 2
  QueueLimit = 1
  HitLimit = 1
  MaxRevision = 5
  MaxInventory = 1
PROPERTIES
  CommitSettles
  RecoveryEnds
CHECK_DEADLOCK FALSE
