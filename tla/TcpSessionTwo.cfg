\* Two threads, each with a connection of its own, on one table.
CONSTANTS
  k1 = k1
  k2 = k2
  k3 = k3
  q1 = q1
  q2 = q2
  Queues = {q1, q2}
  Keys = {k1, k2}
  RssQueue <- TwoQueues
  Entries = {e1, e2}
  Flows = {f1}
  Slots = {s1, s2}
  PoolSize = 1
  MaxBurst = 1
  NoKey = NoKey
  NoEntry = NoEntry
  NoFlow = NoFlow
  NoSlot = NoSlot
SPECIFICATION FairSpec
INVARIANT TableSound
PROPERTIES QuitStopsOrSpins
\* Once force_quit is set the threads end, and with them every step.
CHECK_DEADLOCK FALSE
