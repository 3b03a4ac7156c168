SPECIFICATION TimelySpec
CONSTANTS
  N = 2
  Txs = {t1, t2, t3}
  Holders = {0, 1}
  MaxBlockTxs = 2
  StartRound = 0
  MaxRound = 2
  Stage1 = 9
  Stage2 = 9
  Stage3 = 9
  Seal0 = 2
  Seal1 = 2
  Seal2 = 2
  Seal3 = 2
  MaxTTL = 1
  MaxCommitFails = 0
  MaxRestarts = 0
  TimeoutNodes = {0, 1}
  ViewChangeNodes = {0, 1}
  Down = {}
SYMMETRY TxSymmetry
INVARIANTS TypeOK RoundAgreement RoundIsHeight NoTransactionLost
CHECK_DEADLOCK FALSE
