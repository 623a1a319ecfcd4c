\* Two receive queues, one of UDP and one of TCP, that stats_core serves in turn.
CONSTANTS
  NumRings = 2
  HttpRings = {2}
  Nums = 2
  Warps = {w1}
  Classes = {"others"}
  MaxPkts = 1
  None = None
SPECIFICATION FairSpec
CONSTRAINT SomeRingSound
INVARIANTS TypeOK NoTornAccess ReadyInOrder
PROPERTIES ImplementsLedger EventuallyCounted
\* Once both flags are set the thread and the kernels end.
CHECK_DEADLOCK FALSE
