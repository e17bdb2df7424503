\* A well-behaved network and scheduler: the strategy and one one-click exit.
SPECIFICATION Spec
CONSTANTS
  w1 = w1
  w2 = w2
  Wallets <- TwoWallets
  Makers <- TwoWallets
  MaxBuys = 2
  MaxRetail = 2
  MaxExits = 1
  BatchSizes = {1}
  Responses = {"batch", "sell"}
  Fresh = FALSE
  Faults = {}
  Races = {}
INVARIANTS
  NoHiddenTokens
  DoneMeansDrained
  NoOversellBeforeExit
PROPERTIES
  BuyOncePerCycle
