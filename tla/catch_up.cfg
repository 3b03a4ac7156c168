SPECIFICATION FairSpec
CONSTANTS
  p1 = p1
  p2 = p2
  Peers = {p1, p2}
  InitHead <- MCInitHead
  MaxHeight = 3
  FirstRequestBlocks = 1
  MaxRequestBlocks = 1
  MaxRequestShards = 2
  RequestLimit = 2
  MaxQueueMemory = 4
  Word = 1000
  MaxFaults = 1
INVARIANTS TypeOK AskedBlocksExist MergeExact
PROPERTIES CatchesUp
CHECK_DEADLOCK FALSE
