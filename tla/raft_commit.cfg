SPECIFICATION RaftSpec
CONSTANTS
  RaftNodes = {"r1", "r2", "r3"}
  RaftMajority = 2
  ClearBeats = 1
  MaxTerm <- MCMaxTerm
  MaxRaftBlocks = 1
  MaxWire = 2
CONSTRAINT WireBound
INVARIANTS MajorityHolds
CHECK_DEADLOCK FALSE
