\* Two queues of each protocol, with and without the HTTP server; on the ICMP
\* queue a warp of two lanes and four packets in three slots.
CONSTANTS
  Queues = {q1, q2}
  MaxFailures = 4
  RingSize = 3
  WarpSize = 2
  MaxRecv = 3
  SlotSize = 512
  Sizes = {98, 474}
  OtherSizes = {99}
  Leftover = 0
  MaxPackets = 4
SPECIFICATION IcmpSpec
INVARIANTS TypeOK MemoryOutlivesQueues DevicesLast ReleasedOnce NothingLeft UpMeansUsable
  EchoTypeOK EchoAnswers EchoComplete
\* The queues are down, or the program has given up creating them.
CHECK_DEADLOCK FALSE
