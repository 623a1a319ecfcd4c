\* Up to five events, every batch size, every pattern of price moves.
CONSTANTS
  MaxTotal = 5
  BatchArgs <- MCBatchArgs
  Garbage <- MCGarbage
  NoEvent = NoEvent
SPECIFICATION FairSpec
INVARIANTS TypeOK BufferIdle TotalRight
PROPERTIES Terminates ImplementsOnce
\* The program ends.
CHECK_DEADLOCK FALSE
