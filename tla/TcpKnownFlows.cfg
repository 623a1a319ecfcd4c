\* One thread: which connections the GPU pipe forwards.
CONSTANTS
  k1 = k1
  k2 = k2
  k3 = k3
  q1 = q1
  q2 = q2
  Queues = {q1}
  Keys = {k1, k2, k3}
  RssQueue <- OneQueue
  Entries = {e1, e2, e3}
  Flows = {f1, f2}
  Slots = {s1, s2}
  PoolSize = 2
  MaxBurst = 2
  NoKey = NoKey
  NoEntry = NoEntry
  NoFlow = NoFlow
  NoSlot = NoSlot
SPECIFICATION Spec
SYMMETRY Symmetry
INVARIANT OnlyKnownFlows
\* Once force_quit is set the thread ends, and with it every step.
CHECK_DEADLOCK FALSE
