\* Retail trades after a one-click exit.
SPECIFICATION Spec
CONSTANTS
  w1 = w1
  w2 = w2
  Wallets <- TwoWallets
  Makers <- TwoWallets
  MaxBuys = 2
  MaxRetail = 2
  MaxExits = 1
  BatchSizes = {1}
  Responses = {"batch"}
  Fresh = FALSE
  Faults = {}
  Races = {}
INVARIANTS
  ExitIsFinal
