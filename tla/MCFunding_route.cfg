CONSTANTS
  Tasks = {t1}
  Kinds = {"distribute", "withdraw"}
  None = None
  RelayCount = 1
  BatchCount = 1
  Slots = 2
  Reserve = 2
  Cost = 1
  Funds = 12
  MaxCalls = 1
  MaxFaults = 2
SPECIFICATION FairSpec
INVARIANTS TypeOK RunsRegistered NothingLeftBehind NoPhantomRun RunIsRecorded
PROPERTY EventuallyDone
CHECK_DEADLOCK FALSE
