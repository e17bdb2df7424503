\* Progress under the races, lost replies and failed reads.
SPECIFICATION FairSpec
CONSTANTS
  w1 = w1
  w2 = w2
  Wallets <- OneMaker
  Makers <- OneMaker
  MaxBuys = 1
  MaxRetail = 2
  MaxExits = 1
  BatchSizes = {1}
  Responses = {"batch"}
  Fresh = FALSE
  Faults = {"lostReply", "readError"}
  Races = {"count", "round"}
PROPERTIES
  LiquidationEnds
  RetailServed
