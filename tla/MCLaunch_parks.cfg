\* One atomic launch whose maker has to park its spend.
SPECIFICATION FairSpec
CONSTANTS
  m1 = m1
  m2 = m2
  treasury = treasury
  other = other
  None = None
  Accounts <- FourAccounts
  Curves <- ThreeCurves
  Funds <- NineEach
  Fee = 1
  Room = 4
  MaxBlock = 2
  Makers <- TwoMakers
  Treasury = treasury
  Other = other
  Modes = {"atomic"}
  ConcurrentBuys = TRUE
  BundleBuyCount = 2
  Window = 0
  DevBuy = 1
  EarlierDeposit = 3
  Gas = 1
  MaxFaults = 1
PROPERTIES ParkingEnds
CHECK_DEADLOCK FALSE
