\* Every mode of a launch, two makers, two attempts.
SPECIFICATION FairSpec
CONSTANTS
  m1 = m1
  m2 = m2
  treasury = treasury
  other = other
  None = None
  Accounts <- FourAccounts
  Curves <- ThreeCurves
  Funds <- NineEach
  Fee = 1
  Room = 4
  MaxBlock = 2
  Makers <- TwoMakers
  Treasury = treasury
  Other = other
  Modes = {"v1", "off", "window", "atomic"}
  ConcurrentBuys = TRUE
  BundleBuyCount = 2
  Window = 0
  DevBuy = 1
  EarlierDeposit = 3
  Gas = 1
  MaxFaults = 1
INVARIANTS TypeOK Solvent NobodyLoses LaunchCovered BookedIsHeld
PROPERTIES BuysSettle LeftoverReturned
CHECK_DEADLOCK FALSE
