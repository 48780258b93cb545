CONSTANTS
  Rows <- MCRows
  PriceOf <- MCPriceOf
  Messages <- MCMessages
  FirstStock <- MCFirstStock
  MaxChanges = 1
  Cases <- MCCases
  Limit = 3
  MaxPages = 3
  MaxRecords = 5
  MaxRows = 5
  Threads <- MCThreads
  InFlight = 1
  Track = 2
  Pause = 2
  MaxTime = 2
  MaxPosts = 3
  ThreadBounds <- MCThreadBounds
SPECIFICATION MCSpec
INVARIANTS  ReadKept
PROPERTIES  ChatsKept
CHECK_DEADLOCK FALSE
