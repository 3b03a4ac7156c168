SPECIFICATION Spec
CONSTANTS
  N = 4
  Txs = {t1}
  Holders = {3}
  MaxBlockTxs = 1
  StartRound = 11
  MaxRound = 12
  Stage1 = 3
  Stage2 = 6
  Stage3 = 10
  Seal0 = 4
  Seal1 = 2
  Seal2 = 3
  Seal3 = 1
  MaxTTL = 1
  MaxCommitFails = 0
  MaxRestarts = 0
  TimeoutNodes = {}
  ViewChangeNodes = {}
  Down = {}
INVARIANTS RoundSettled
CHECK_DEADLOCK FALSE
ACTION_CONSTRAINT PromptNode
