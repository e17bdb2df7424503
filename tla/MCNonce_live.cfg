\* A liquidation with one sender while another program uses the key.
SPECIFICATION FairSpec
CONSTANTS
  t1 = t1
  t2 = t2
  r1 = r1
  None = None
  Senders <- OneSender
  Readers <- OneReader
  MaxNonce = 3
  Windows = {TRUE, FALSE}
  Faults = {"refuse", "outside"}
INVARIANTS
  TypeOK
PROPERTIES
  CatchesUp
