CONSTANTS
  Thread = {t1, t2}
  NoThread = NoThread
  u1 = u1
  u2 = u2
  Use = {u1, u2}
  Token <- MCToken
  NoUse = NoUse
  Acceptor = {a}
  Idents <- MCIdents
  Filters <- MCFilters
  Continues = {"getCacheStatus", "getAllocatorStatus"}
  Kinds = {"registerUse", "unregisterUse", "unregisterAll", "getHeap", "getAllocatorStatus",
           "addAllocated", "clearAllocated", "findRelevant", "subscribe", "unsubscribe",
           "publish", "getCacheStatus"}
  MaxCalls = 3
  MaxHeaps = 2
  MaxBlocks = 1
SPECIFICATION Spec
PROPERTIES RelevantCleared
CHECK_DEADLOCK FALSE
