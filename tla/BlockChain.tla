----------------------------- MODULE BlockChain -----------------------------
(***************************************************************************)
(* The block chain of a node (BlockChainImp): commitBlock, which the       *)
(* consensus engine and block sync call from threads of their own, with    *)
(* blocks that may compete for a height; the cached number of the newest   *)
(* block; and the cache of decoded blocks that readers fill (BlockCache).  *)
(*                                                                         *)
(* A block is its hash.  The rows of one commit (hash to block, hash to    *)
(* header, transaction to block, nonces) reach the storage together and    *)
(* are not told apart; the rows of number to hash are, since a second      *)
(* commit of a number would leave two.  The storage below is CachedStorage *)
(* and is taken here as one step that happens or throws.                   *)
(***************************************************************************)
EXTENDS Integers, Sequences, FiniteSets, Folds

CONSTANTS
    ChainBlocks,    \* the hashes of the blocks there may be
    Genesis,        \* the hash of the genesis block
    ParentHash,     \* the parentHash of each block's header
    BlockNumber,    \* the number of each block's header
    TxsOf,          \* how many transactions each block has
    BlockCommitters, \* the threads that commit
    BlockReaders,   \* the threads that read blocks
    BlockCacheSize, \* c_blockCacheSize
    MaxHeight,      \* bound: the highest number a block has
    MaxQueued       \* bound: no reader starts when the queue is this long

ASSUME BlockChainAssumption ==
    /\ Genesis \in ChainBlocks
    /\ ParentHash \in [ChainBlocks -> ChainBlocks]
    /\ MaxHeight \in Nat
    /\ BlockNumber \in [ChainBlocks -> 0 .. MaxHeight]
    /\ TxsOf \in [ChainBlocks -> Nat]
    /\ BlockCacheSize \in Nat
    /\ MaxQueued \in Nat

VARIABLES
    currentNumber, \* SYS_CURRENT_STATE in the storage: the number
    totalTxs,   \* and the count of transactions
    number2Hash, \* SYS_NUMBER_2_HASH: the rows of each number
    hash2Block, \* SYS_HASH_2_BLOCK: the blocks stored
    newest,     \* m_blockNumber, -1 before number() is first called
    commit,     \* how far the commitBlock of each thread is
    blockCache, \* the hashes in m_blockCache
    cacheFIFO,  \* m_blockCacheFIFO
    reading,    \* the hash each reader missed in the cache
    noticed     \* the highest number that onReady has announced

disk == <<currentNumber, totalTxs, number2Hash, hash2Block>>

chainVars == <<disk, newest, commit, blockCache, cacheFIFO, reading, noticed>>

Unread == -1
NoHash == "none"

\* Where a thread stands in commitBlock.
CommitSteps == {"out", "numbered", "linked", "locked", "stored", "unlocked", "cached"}

NotCommitting == [step |-> "out", block |-> Genesis]

\* number(), which fetches the number from the table on its first call.
ChainNumber == IF newest = Unread THEN currentNumber ELSE newest

\* numberHash: the first row of the number.
NumberHash(i) == Head(number2Hash[i])

\* commitMutex is free.
CommitMutexFree == \A c \in BlockCommitters : commit[c].step \notin {"locked", "stored"}

\* A group that has its genesis block.
ChainInit ==
    /\ currentNumber = 0
    /\ totalTxs = 0
    /\ number2Hash = [i \in 0 .. MaxHeight |-> IF i = 0 THEN <<Genesis>> ELSE <<>>]
    /\ hash2Block = {Genesis}
    /\ newest = Unread
    /\ commit = [c \in BlockCommitters |-> NotCommitting]
    /\ blockCache = {}
    /\ cacheFIFO = <<>>
    /\ reading = [r \in BlockReaders |-> NoHash]
    /\ noticed = 0

-----------------------------------------------------------------------------

\* Mutant: a cache whose queue names blocks that are gone is not cleared.
AddUncleared(b) ==
    LET full == Cardinality(blockCache) > BlockCacheSize
    IN /\ blockCache' = (IF full THEN blockCache \ {Head(cacheFIFO)} ELSE blockCache) \cup {b}
       /\ cacheFIFO' = (IF full THEN Tail(cacheFIFO) ELSE cacheFIFO) \o <<b>>

\* BlockCache::add.  A full cache drops the block at the head of the queue; a
\* block that two readers added is in the queue twice, and when the second
\* entry drops nothing the cache is cleared.
BlockCacheAdd(b) ==
    LET full == Cardinality(blockCache) > BlockCacheSize
        left == IF full THEN blockCache \ {Head(cacheFIFO)} ELSE blockCache
        queue == IF full THEN Tail(cacheFIFO) ELSE cacheFIFO
        unsynced == Cardinality(left) > BlockCacheSize
    IN /\ blockCache' = (IF unsynced THEN {} ELSE left) \cup {b}
       /\ cacheFIFO' = Append(IF unsynced THEN <<>> ELSE queue, b)

\* isBlockShouldCommit, for block b of the execution that thread c finished.
\* A block of another number is refused: ERROR_NUMBER.
CheckNumber(c, b) ==
    /\ commit[c].step = "out"
    /\ BlockNumber[b] = ChainNumber + 1
    /\ newest' = ChainNumber
    /\ commit' = [commit EXCEPT ![c] = [step |-> "numbered", block |-> b]]
    /\ UNCHANGED <<disk, blockCache, cacheFIFO, reading, noticed>>

\* The parent is compared with the hash of the newest number, which may have
\* moved on since: ERROR_PARENT_HASH.
CheckParent(c) ==
    /\ commit[c].step = "numbered"
    /\ commit' = [commit EXCEPT ![c] =
                    IF ParentHash[commit[c].block] = NumberHash(ChainNumber)
                    THEN [@ EXCEPT !.step = "linked"] ELSE NotCommitting]
    /\ UNCHANGED <<disk, newest, blockCache, cacheFIFO, reading, noticed>>

\* Mutant: the number is not looked at again under the lock.
LockOnly(c) ==
    /\ commit[c].step = "linked"
    /\ CommitMutexFree
    /\ commit' = [commit EXCEPT ![c].step = "locked"]
    /\ UNCHANGED <<disk, newest, blockCache, cacheFIFO, reading, noticed>>

\* commitMutex is taken and the number is compared again.
LockAndRecheck(c) ==
    /\ commit[c].step = "linked"
    /\ CommitMutexFree
    /\ commit' = [commit EXCEPT ![c] =
                    IF BlockNumber[commit[c].block] = ChainNumber + 1
                    THEN [@ EXCEPT !.step = "locked"] ELSE NotCommitting]
    /\ UNCHANGED <<disk, newest, blockCache, cacheFIFO, reading, noticed>>

\* The write functions of commitBlock: writeNumber, writeNumber2Hash,
\* writeHash2Block, writeTotalTransactionCount and the rows not told apart.
WriteBlock(b) ==
    /\ currentNumber' = BlockNumber[b]
    /\ totalTxs' = totalTxs + TxsOf[b]
    /\ number2Hash' = [number2Hash EXCEPT ![BlockNumber[b]] = Append(@, b)]
    /\ hash2Block' = hash2Block \cup {b}

\* dbCommit; or it throws, and ERROR_COMMITTING gives the lock back.
DbCommit(c) ==
    /\ commit[c].step = "locked"
    /\ \/ /\ WriteBlock(commit[c].block)
          /\ commit' = [commit EXCEPT ![c].step = "stored"]
       \/ /\ commit' = [commit EXCEPT ![c] = NotCommitting]
          /\ UNCHANGED disk
    /\ UNCHANGED <<newest, blockCache, cacheFIFO, reading, noticed>>

\* m_blockNumber is set and commitMutex released.
SetNumber(c) ==
    /\ commit[c].step = "stored"
    /\ newest' = BlockNumber[commit[c].block]
    /\ commit' = [commit EXCEPT ![c].step = "unlocked"]
    /\ UNCHANGED <<disk, blockCache, cacheFIFO, reading, noticed>>

\* The committed block goes into the cache.
CacheCommitted(c) ==
    /\ commit[c].step = "unlocked"
    /\ BlockCacheAdd(commit[c].block)
    /\ commit' = [commit EXCEPT ![c].step = "cached"]
    /\ UNCHANGED <<disk, newest, reading, noticed>>

\* onReady(m_blockNumber), read outside of both locks: by now it may be the
\* number of a block that another thread committed.
Announce(c) ==
    /\ commit[c].step = "cached"
    /\ noticed' = IF newest > noticed THEN newest ELSE noticed
    /\ commit' = [commit EXCEPT ![c] = NotCommitting]
    /\ UNCHANGED <<disk, newest, blockCache, cacheFIFO, reading>>

\* getBlock up to the look into the cache; a future block is refused.
LookUp(r, i) ==
    /\ reading[r] = NoHash
    /\ Len(cacheFIFO) < MaxQueued
    /\ i <= ChainNumber
    /\ newest' = ChainNumber
    /\ reading' = [reading EXCEPT ![r] =
                     IF NumberHash(i) \in blockCache THEN NoHash ELSE NumberHash(i)]
    /\ UNCHANGED <<disk, commit, blockCache, cacheFIFO, noticed>>

\* The rest of getBlock after a miss: the block is read, decoded and cached.
FillCache(r) ==
    /\ reading[r] # NoHash
    /\ IF reading[r] \in hash2Block THEN BlockCacheAdd(reading[r])
       ELSE UNCHANGED <<blockCache, cacheFIFO>>
    /\ reading' = [reading EXCEPT ![r] = NoHash]
    /\ UNCHANGED <<disk, newest, commit, noticed>>

\* The process dies, wherever its threads are, and starts again; what listens
\* to onReady reads the number when it starts.
RestartChain ==
    /\ newest' = Unread
    /\ commit' = [c \in BlockCommitters |-> NotCommitting]
    /\ blockCache' = {}
    /\ cacheFIFO' = <<>>
    /\ reading' = [r \in BlockReaders |-> NoHash]
    /\ noticed' = currentNumber
    /\ UNCHANGED disk

ChainNext ==
    \/ \E c \in BlockCommitters, b \in ChainBlocks : CheckNumber(c, b)
    \/ \E c \in BlockCommitters : CheckParent(c)
    \/ \E c \in BlockCommitters : LockAndRecheck(c)
    \/ \E c \in BlockCommitters : DbCommit(c)
    \/ \E c \in BlockCommitters : SetNumber(c)
    \/ \E c \in BlockCommitters : CacheCommitted(c)
    \/ \E c \in BlockCommitters : Announce(c)
    \/ \E r \in BlockReaders, i \in 0 .. MaxHeight : LookUp(r, i)
    \/ \E r \in BlockReaders : FillCache(r)
    \/ RestartChain

ChainSpec == ChainInit /\ [][ChainNext]_chainVars

-----------------------------------------------------------------------------

\* The fields stay in their ranges.
ChainTypeOK ==
    /\ currentNumber \in 0 .. MaxHeight
    /\ totalTxs \in Nat
    /\ number2Hash \in [0 .. MaxHeight -> Seq(ChainBlocks)]
    /\ hash2Block \subseteq ChainBlocks
    /\ newest \in {Unread} \cup 0 .. MaxHeight
    /\ commit \in [BlockCommitters -> [step: CommitSteps, block: ChainBlocks]]
    /\ blockCache \subseteq ChainBlocks
    /\ cacheFIFO \in Seq(ChainBlocks)
    /\ reading \in [BlockReaders -> ChainBlocks \cup {NoHash}]
    /\ noticed \in 0 .. MaxHeight

\* The stored chain is a chain: every number up to the newest has one hash,
\* of a block with that number whose parent is the block one below, and no
\* number above it has any.  The parent is compared before commitMutex is
\* taken and never again; what makes this hold when the engine and sync race
\* with blocks that compete, when a commit throws and when the process dies
\* after the storage has the block, is the number compared under the lock.
ChainLinked ==
    \A i \in 0 .. MaxHeight :
        /\ i > currentNumber => number2Hash[i] = <<>>
        /\ i <= currentNumber =>
              /\ Len(number2Hash[i]) = 1
              /\ i > 0 => /\ BlockNumber[NumberHash(i)] = i
                          /\ ParentHash[NumberHash(i)] = NumberHash(i - 1)

\* What readers are given agrees with the chain: only committed blocks are
\* cached, each of them can be dropped again (the queue names it) and there
\* are never more than one above the size, although readers that miss the
\* same block queue it twice; the total counts every transaction of the chain
\* once; and when no commit is under way the newest block was announced.
ReadsExact ==
    /\ blockCache \subseteq hash2Block \cap {cacheFIFO[i] : i \in DOMAIN cacheFIFO}
    /\ Cardinality(blockCache) <= BlockCacheSize + 1
    /\ totalTxs = MapThenFoldSet(+, 0, LAMBDA i : TxsOf[NumberHash(i)],
                                 LAMBDA s : CHOOSE i \in s : TRUE, 1 .. currentNumber)
    /\ (\A c \in BlockCommitters : commit[c] = NotCommitting) => noticed = ChainNumber
=============================================================================
