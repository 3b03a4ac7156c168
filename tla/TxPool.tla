-------------------------------- MODULE TxPool --------------------------------
(***************************************************************************)
(* One node's transaction pool with the chain's nonce checker, and the three *)
(* threads that take transactions out of it: the sealer, which loads and   *)
(* drops what it proposes, the PBFT worker, which drops the proposals it   *)
(* hears of and the merged block it commits, and the block-sync thread,    *)
(* which drops the blocks it downloads.  dropBlockTrans updates the nonces  *)
(* under one lock and the pool under another, as two steps.                *)
(* The pool's own nonce checker is left out: txPoolNonceCheck ignores what  *)
(* it answers.                                                             *)
(***************************************************************************)
EXTENDS Integers, Sequences, FiniteSets, FiniteSetsExt

CONSTANTS
  PoolTxs,        \* the transactions
  Nonce,          \* the nonce of each
  Capacity,       \* the memory each occupies
  Importers,      \* how many threads call import: the submit pool and RPC callers
  PoolLimit,      \* m_limit
  MaxPoolMemory,  \* m_maxMemoryLimit
  BlockLimit,     \* m_maxBlockLimit
  MaxLoad,        \* maxBlockCanSeal(); bound on a downloaded block too
  MaxPoolBlocks   \* bound: blocks committed

VARIABLES
  pool,        \* m_txsQueue and m_txsHash
  memory,      \* m_usedMemorySize
  importing,   \* for each transaction, how many importers are past the memory check
  nonceCache,  \* m_txNonceCheck's m_cache
  blockNonces, \* the keys of m_blockNonceCache
  startblk, endblk,
  ledger,      \* the blocks of the chain, as sets of transactions
  sealing,     \* m_sealing
  proposals,   \* transactions of the proposals held for the next round
  dropper      \* per thread: where it is inside dropBlockTrans

poolVars == <<pool, memory, importing, nonceCache, blockNonces, startblk, endblk,
              ledger, sealing, proposals, dropper>>

nonceVars == <<nonceCache, blockNonces, startblk, endblk>>

NoncesOf(txs) == {Nonce[t] : t \in txs}

Number == Len(ledger)

BlockNonces(n) == IF n \in 1 .. Number THEN NoncesOf(ledger[n]) ELSE {}

\* local: the transactions are the pool's own objects, on which insert set
\* original_hash; a block decoded from the network leaves it zero
Idle == [stage |-> "idle", txs |-> {}, local |-> TRUE]

Dropping(txs, local) == [stage |-> "update", txs |-> txs, local |-> local]

PoolInit ==
  /\ pool = {} /\ memory = 0
  /\ importing = [t \in PoolTxs |-> 0]
  /\ nonceCache = {} /\ blockNonces = {}
  /\ startblk = 0 /\ endblk = 0
  /\ ledger = <<>>
  /\ sealing = [number |-> 1, txs |-> {}, sealed |-> FALSE]
  /\ proposals = {}
  /\ dropper = [th \in {"sealer", "engine", "sync"} |-> Idle]

-----------------------------------------------------------------------------
(* import: the memory check reads m_usedMemorySize before the pool's lock   *)
(* is taken; the rest runs under the lock.                                  *)
CheckMemory(t) ==
  /\ memory + Capacity[t] <= MaxPoolMemory
  /\ MapThenSumSet(LAMBDA u : importing[u], PoolTxs) < Importers
  /\ importing' = [importing EXCEPT ![t] = @ + 1]
  /\ UNCHANGED <<pool, memory, nonceVars, ledger, sealing, proposals, dropper>>

IsNonceOk(t) == Nonce[t] \notin nonceCache

\* verify: the block limit check is switched off and txPoolNonceCheck always
\* passes; a transaction of another chain or group, or with a bad signature, is
\* refused without a trace
Verified(t) == t \notin pool /\ IsNonceOk(t)

Full == Cardinality(pool) >= PoolLimit

Import(t) ==
  LET inserted == ~Full /\ Verified(t)
  IN  /\ importing[t] > 0
      /\ importing' = [importing EXCEPT ![t] = @ - 1]
      /\ pool' = IF inserted THEN pool \union {t} ELSE pool
      /\ memory' = IF inserted THEN memory + Capacity[t] ELSE memory
      /\ UNCHANGED <<nonceVars, ledger, sealing, proposals, dropper>>

-----------------------------------------------------------------------------
(* dropBlockTrans(block), called by thread th.                              *)

WindowStart == IF Number > BlockLimit THEN Number - BlockLimit ELSE 0

\* Mutant: the first block of the new window expires too
ExpiredOneMore == startblk .. WindowStart

Expired == startblk .. (WindowStart - 1)

Fresh == Max({endblk + 1, WindowStart}) .. Number

\* getNonceAndUpdateCache keeps a block's nonces while there is room
Remembered ==
  LET kept == blockNonces \ Expired
  IN  kept \union {n \in Fresh : Cardinality(kept) + Cardinality({m \in Fresh : m < n}) < BlockLimit}

\* TransactionNonceCheck::updateCache(false)
UpdateCache(th) ==
  /\ dropper[th].stage = "update"
  /\ nonceCache' = (nonceCache \ UNION {BlockNonces(n) : n \in Expired})
                     \union UNION {BlockNonces(n) : n \in Fresh}
  /\ blockNonces' = Remembered
  /\ startblk' = WindowStart
  /\ endblk' = Number
  /\ dropper' = [dropper EXCEPT ![th].stage = "remove"]
  /\ UNCHANGED <<pool, memory, importing, ledger, sealing, proposals>>

\* Mutant: the memory of a block's transactions is released whether the pool
\* holds them or not
DropUncounted(th) ==
  LET gone == IF dropper[th].local THEN dropper[th].txs ELSE {}
  IN  /\ dropper[th].stage = "remove"
      /\ pool' = pool \ gone
      /\ memory' = memory - MapThenSumSet(LAMBDA t : Capacity[t], gone)
      /\ dropper' = [dropper EXCEPT ![th] = Idle]
      /\ UNCHANGED <<importing, nonceVars, ledger, sealing, proposals>>

\* dropTransactions looks a transaction up by its original_hash
DropTransactions(th) ==
  LET gone == IF dropper[th].local THEN dropper[th].txs \intersect pool ELSE {}
  IN  /\ dropper[th].stage = "remove"
      /\ pool' = pool \ gone
      /\ memory' = memory - MapThenSumSet(LAMBDA t : Capacity[t], gone)
      /\ dropper' = [dropper EXCEPT ![th] = Idle]
      /\ UNCHANGED <<importing, nonceVars, ledger, sealing, proposals>>

DropBlockTrans(th) == UpdateCache(th) \/ DropTransactions(th)

-----------------------------------------------------------------------------
(* The sealer thread.  reportNewBlock resets a block that is sealed or no   *)
(* longer next; topTransactions loads any of the pool's transactions whose  *)
(* nonce is not in the chain's cache (the queue's order is import time,     *)
(* which the threads set before they take the lock).                        *)
ReportNewBlock == IF sealing.number <= Number
                  THEN [number |-> Number + 1, txs |-> {}, sealed |-> FALSE]
                  ELSE sealing

TopTransactions(limit, avoid) ==
  LET ok == {t \in pool : IsNonceOk(t) /\ t \notin avoid}
  IN  kSubset(IF Cardinality(ok) < limit THEN Cardinality(ok) ELSE limit, ok)

LoadTransactions ==
  LET s == ReportNewBlock
  IN  /\ dropper["sealer"].stage = "idle"
      /\ ~s.sealed /\ Number < MaxPoolBlocks
      /\ \E txs \in TopTransactions(MaxLoad - Cardinality(s.txs), s.txs) :
           sealing' = [s EXCEPT !.txs = @ \union txs]
      /\ sealing' # sealing
      /\ UNCHANGED <<pool, memory, importing, nonceVars, ledger, proposals, dropper>>

\* doWork once the block has enough transactions or its time is up:
\* dropBlockTrans, then handleBlock proposes the block
SealBlock ==
  /\ dropper["sealer"].stage = "idle"
  /\ ~sealing.sealed /\ sealing.number > Number /\ sealing.txs # {}
  /\ sealing' = [sealing EXCEPT !.sealed = TRUE]
  /\ proposals' = proposals \union sealing.txs
  /\ dropper' = [dropper EXCEPT !["sealer"] = Dropping(sealing.txs, TRUE)]
  /\ UNCHANGED <<pool, memory, importing, nonceVars, ledger>>

-----------------------------------------------------------------------------
(* What the other threads bring.  Another node seals only transactions      *)
(* whose nonces the last BlockLimit blocks do not hold.                     *)
Window(n) == {m \in 1 .. Number : m >= n - BlockLimit}

Sealable(txs) ==
  NoncesOf(txs) \intersect UNION {BlockNonces(n) : n \in Window(Number)} = {}

\* handlePrepareMsg4nl: initPartiallyBlock replaces every transaction of the
\* proposal by the pool's own, and they are dropped
HandlePrepare(txs) ==
  /\ dropper["engine"].stage = "idle"
  /\ txs # {} /\ txs \subseteq pool /\ Sealable(txs) /\ Number < MaxPoolBlocks
  /\ proposals' = proposals \union txs
  /\ dropper' = [dropper EXCEPT !["engine"] = Dropping(txs, TRUE)]
  /\ UNCHANGED <<pool, memory, importing, nonceVars, ledger, sealing>>

\* checkAndSave4nl: commitBlock, then dropHandledTransactions
CommitRound ==
  /\ dropper["engine"].stage = "idle"
  /\ proposals # {} /\ Number < MaxPoolBlocks
  /\ ledger' = Append(ledger, proposals)
  /\ proposals' = {}
  /\ dropper' = [dropper EXCEPT !["engine"] = Dropping(proposals, TRUE)]
  /\ UNCHANGED <<pool, memory, importing, nonceVars, sealing>>

\* maintainDownloadingQueue: commitBlock, then dropBlockTrans on a block
\* decoded from the network
CommitDownloaded(txs) ==
  /\ dropper["sync"].stage = "idle"
  /\ txs # {} /\ Sealable(txs) /\ Number < MaxPoolBlocks
  /\ ledger' = Append(ledger, txs)
  /\ proposals' = {}
  /\ dropper' = [dropper EXCEPT !["sync"] = Dropping(txs, FALSE)]
  /\ UNCHANGED <<pool, memory, importing, nonceVars, sealing>>

PoolNext ==
  \/ \E t \in PoolTxs : CheckMemory(t) \/ Import(t)
  \/ \E th \in DOMAIN dropper : DropBlockTrans(th)
  \/ LoadTransactions \/ SealBlock \/ CommitRound
  \/ \E txs \in SUBSET PoolTxs :
       Cardinality(txs) <= MaxLoad /\ (HandlePrepare(txs) \/ CommitDownloaded(txs))

PoolSpec == PoolInit /\ [][PoolNext]_poolVars

-----------------------------------------------------------------------------
\* The pool holds at most m_limit transactions, and every
\* variable has its type.
PoolTypeOK ==
  /\ pool \subseteq PoolTxs /\ Cardinality(pool) <= PoolLimit
  /\ memory \in Int
  /\ importing \in [PoolTxs -> 0 .. Importers]
  /\ nonceCache \subseteq NoncesOf(PoolTxs)
  /\ blockNonces \subseteq 1 .. MaxPoolBlocks
  /\ startblk \in 0 .. endblk /\ endblk \in 0 .. Number
  /\ ledger \in Seq(SUBSET PoolTxs)
  /\ sealing \in [number : 1 .. MaxPoolBlocks + 1, txs : SUBSET PoolTxs, sealed : BOOLEAN]
  /\ proposals \subseteq PoolTxs
  /\ dropper \in [{"sealer", "engine", "sync"} ->
                    [stage : {"idle", "update", "remove"},
                     txs : SUBSET PoolTxs, local : BOOLEAN]]

\* m_usedMemorySize is the memory of exactly the transactions in the pool,
\* whatever threads import and drop at once; and, since import reads it before
\* it takes the lock, it can pass the limit by at most the transactions that
\* the other importing threads had already let through.
MemoryAccounted ==
  /\ memory = MapThenSumSet(LAMBDA t : Capacity[t], pool)
  /\ memory <= MaxPoolMemory
       + (Importers - 1) * Max({Capacity[t] : t \in PoolTxs})

\* As long as no nonce repeats within BlockLimit blocks of the chain, the nonce
\* cache is exactly the nonces of the blocks startblk .. endblk, however many
\* blocks were committed between two updates and whichever threads made them.
\* "we cache at most m_maxBlockLimit entries": m_blockNonceCache, from which the
\* nonces of an expired block are taken, holds blocks of the window only and
\* never more than the limit, although the window spans one block more.
NonceWindow ==
  /\ (\A m, n \in 1 .. Number :
        m < n /\ n - m <= BlockLimit => BlockNonces(m) \intersect BlockNonces(n) = {})
     => nonceCache = UNION {BlockNonces(n) : n \in startblk .. endblk}
  /\ blockNonces \subseteq startblk .. endblk
  /\ Cardinality(blockNonces) <= BlockLimit
===============================================================================
