CONSTANTS
  Own = {o1}
  None = None
  MaxBlocks = 3
  MaxTrades = 3
  LiveCap = 1
  RetailCap = 1
SPECIFICATION FairSpec
INVARIANTS TypeOK CountedOnce NoTradeSkipped NetExact NetNotLow NoLostWakeup
PROPERTY EveryTradeCounted
CHECK_DEADLOCK FALSE
