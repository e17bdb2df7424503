CONSTANTS
  Strategies = {s1, s2}
  Trading = {w1, w2}
  Funding = {f}
  EditCalls = {c1}
  RunCalls = {c2}
  Selections <- OneWallet
  None = None
  MaxRuns = 2
  MaxEdits = 1
  MaxFaults = 1
SPECIFICATION MCSpec
INVARIANTS TypeOK Exclusive KeysKept AckedKeysDurable BoundTokenStored
SYMMETRY Symmetry
CHECK_DEADLOCK FALSE
