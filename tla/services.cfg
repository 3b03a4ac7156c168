SPECIFICATION ServicesSpec
CONSTANTS
  PoolTxs = {"t1", "t2", "t3"}
  Nonce <- MCNonce
  Capacity <- MCCapacity
  Importers = 2
  PoolLimit = 2
  MaxPoolMemory = 2
  BlockLimit = 1
  MaxLoad = 1
  MaxPoolBlocks = 2
  RaftNodes = {"r1", "r2", "r3"}
  RaftMajority = 2
  ClearBeats = 1
  MaxTerm <- MCMaxTerm
  MaxRaftBlocks = 1
  MaxWire = 2
  StoreKeys = {"k1"}
  ForceKeys = {}
  Selectors = {"s1"}
  MaxForward = 1
  MaxStored = 2
  Interval = 2
  MaxLogged = 3
  TableValues = {1, 2}
  MaxRowId = 2
  MaxChanges = 2
  MaxSavepoints = 1
  Peerage = {"a", "b"}
  Statics <- MCStatics
  Listers = {"b"}
  MaxConns = 2
  Requests = {"m1", "m2"}
  Timed = {"m1"}
  TxCount = 3
  Fields = {"f1", "f2"}
  DagThreads = {"w1", "w2"}
  SealersNum = 3
  EpochSealers = 2
  RotatingInterval = 2
  MaxRotated = 12
  MaxRotatedView = 3
  TreeSizes = {1, 5}
  TreeWidths = {2}
  ChainBlocks <- MCBlocks
  Genesis = "g"
  ParentHash <- MCParentHash
  BlockNumber <- MCBlockNumber
  TxsOf <- MCTxsOf
  BlockCommitters = {"engine", "sync"}
  BlockReaders = {"q1", "q2"}
  BlockCacheSize = 1
  MaxHeight = 2
  MaxQueued = 3
  TopicNames = {"v", "c"}
  NeedVerify = {"v"}
  CertRoute <- MCCertRoute
  Sdks = {"s1", "s2"}
  MaxTopicSeq = 2
  MaxTopicFlight = 2
  FilterIds = {"e1", "e2"}
  Matching = {0, 2, 3}
  FromBlocks = {0, 9}
  ToBlocks = {2}
  MAX_BLOCK_NUMBER = 9
  MaxBlockRange = 3
  MaxBlockPerLoop = 3
  MaxTop = 3
  MaxFilters = 2
  Accounts = {"a", "b", "c"}
  MemberWeights = {2}
  Thresholds = {70}
  PermitInputs = {"cns"}
  Users = {"c"}
  VoteValidLimit = 2
  MaxVotes = 1
  MaxGovBlock = 2
CONSTRAINT WireBound
INVARIANTS
  ServicesTypeOK
  MemoryAccounted 
  TermOrder AcksTrue
  
  RecoveredIntact
  TableExact
  SessionsExact
  NothingStranded
   DagNeverStalls
  
  
  OwnerAwaited
  ChainLinked ReadsExact
  TopicsCurrent
  EventsExact
  CommitteeSound
PROPERTIES GrantsRaiseTerm ResponseGiven DecisionsBacked
CHECK_DEADLOCK FALSE
