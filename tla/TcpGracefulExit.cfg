\* One thread, one connection: does ctrl-c end it.
CONSTANTS
  k1 = k1
  k2 = k2
  k3 = k3
  q1 = q1
  q2 = q2
  Queues = {q1}
  Keys = {k1}
  RssQueue <- OneQueue
  Entries = {e1}
  Flows = {f1}
  Slots = {s1}
  PoolSize = 2
  MaxBurst = 1
  NoKey = NoKey
  NoEntry = NoEntry
  NoFlow = NoFlow
  NoSlot = NoSlot
SPECIFICATION FairSpec
PROPERTY QuitStopsThreads
\* Once force_quit is set the thread ends, and with it every step.
CHECK_DEADLOCK FALSE
