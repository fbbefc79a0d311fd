SPECIFICATION FairSpec
CONSTANTS
  Entry = {1, 2, 3}
  Handler = {h1, h2}
  Sweeper = sweeper
  Window = 2
  MaxFreed = 3
  MaxFaults = 1
CHECK_DEADLOCK FALSE
INVARIANTS
  TypeOK
  
PROPERTIES
  OffersEnd
  QueueMovesUnlessFailed
