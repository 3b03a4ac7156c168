SPECIFICATION Spec
CONSTANTS
  N = 2
  Txs = {t1}
  Holders = {0, 1}
  MaxBlockTxs = 2
  StartRound = 0
  MaxRound = 1
  Stage1 = 9
  Stage2 = 9
  Stage3 = 9
  Seal0 = 2
  Seal1 = 2
  Seal2 = 2
  Seal3 = 2
  MaxTTL = 1
  MaxCommitFails = 1
  MaxRestarts = 1
  TimeoutNodes = {0}
  ViewChangeNodes = {1}
  Down = {}
INVARIANTS SavedHasQuorum CommitBacked
CHECK_DEADLOCK FALSE
