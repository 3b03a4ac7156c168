SPECIFICATION FairSpec
CONSTANTS
  N = 4
  Txs = {t1, t2}
  Holders = {3}
  MaxBlockTxs = 1
  StartRound = 11
  MaxRound = 12
  Stage1 = 3
  Stage2 = 6
  Stage3 = 10
  Seal0 = 4
  Seal1 = 2
  Seal2 = 3
  Seal3 = 1
  MaxTTL = 1
  MaxCommitFails = 0
  MaxRestarts = 0
  TimeoutNodes = {0}
  ViewChangeNodes = {}
  Down = {2}
PROPERTIES RoundCompletes
CHECK_DEADLOCK FALSE
