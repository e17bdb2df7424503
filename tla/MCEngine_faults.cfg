\* Every fault and every race, after a fresh launch, on one wallet.
SPECIFICATION Spec
CONSTANTS
  w1 = w1
  w2 = w2
  Wallets <- OneMaker
  Makers <- OneMaker
  MaxBuys = 2
  MaxRetail = 1
  MaxExits = 0
  BatchSizes = {1}
  Responses = {"batch", "buy"}
  Fresh = TRUE
  Faults = {"lostReply", "timeout", "readError", "sendError", "graduate", "stop"}
  Races = {"count", "round"}
INVARIANTS
  TypeOK
  PendingBuysExact
