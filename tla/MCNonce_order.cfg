\* Two senders, a refresh and a pre-signed buy, lost and refused calls, lagging answers.
SPECIFICATION Spec
CONSTANTS
  t1 = t1
  t2 = t2
  r1 = r1
  None = None
  Senders <- TwoSenders
  Readers <- OneReader
  MaxNonce = 3
  Windows = {TRUE, FALSE}
  Faults = {"refuse", "lost", "reprice", "lag", "timeout"}
SYMMETRY SenderSymmetry
INVARIANTS
  NoGap
  OrderKept
  OneApproval
PROPERTIES
  LogSpec
