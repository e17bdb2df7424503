CONSTANTS
  Strategies = {s1}
  Trading = {w1, w2}
  Funding = {}
  EditCalls = {c1}
  RunCalls = {c2}
  Selections <- OneWallet
  None = None
  MaxRuns = 1
  MaxEdits = 0
  MaxFaults = 0
SPECIFICATION MCSpec
PROPERTY ExitEnds
CHECK_DEADLOCK FALSE
