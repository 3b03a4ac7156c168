----------------------------- MODULE LedgerProofs -----------------------------
(***************************************************************************)
(* Proofs about the ledger of a node, for any number of blocks and         *)
(* threads and any crashes: the chain is linked (BlockChain), and recovery *)
(* from the binary log is intact (BinLog).                                 *)
(***************************************************************************)
EXTENDS BlockChain, BinLog, FiniteSetTheorems, TLAPS

\* A leaf that names no prover is for the SMT solver, with a minute of time.
USE SMTT(60)

-----------------------------------------------------------------------------
(***************************************************************************)
(* BlockChain: the chain is linked.  The parent of a block is compared     *)
(* before the lock is taken.  What is carried from there to the lock is    *)
(* conditional: IF the number is still the one below the block, the parent *)
(* is right (LinkKept).  The number compared under the lock then makes the *)
(* condition true.                                                         *)
(***************************************************************************)
\* The types of the part of the state that commitBlock depends on.
CommitTypeOK ==
    /\ currentNumber \in 0 .. MaxHeight
    /\ number2Hash \in [0 .. MaxHeight -> Seq(ChainBlocks)]
    /\ newest \in {Unread} \cup 0 .. MaxHeight
    /\ commit \in [BlockCommitters -> [step: CommitSteps, block: ChainBlocks]]

\* m_blockNumber is behind the storage only between dbCommit and its update,
\* and then by the one block that is being committed.
NumberKept ==
    /\ newest = Unread => \A c \in BlockCommitters : commit[c].step = "out"
    /\ (\A c \in BlockCommitters : commit[c].step # "stored") =>
          newest = Unread \/ newest = currentNumber
    /\ \A c \in BlockCommitters : commit[c].step = "stored" =>
          /\ currentNumber = newest + 1
          /\ BlockNumber[commit[c].block] = currentNumber

\* commitMutex has one holder.
OneHolder ==
    \A c, d \in BlockCommitters :
        commit[c].step \in {"locked", "stored"} /\ commit[d].step \in {"locked", "stored"}
            => c = d

\* What the comparisons leave true until the block is stored.
LinkKeptBy(c) ==
    /\ commit[c].step \in {"numbered", "linked", "locked"} =>
          BlockNumber[commit[c].block] \in 1 .. newest + 1
    /\ commit[c].step \in {"linked", "locked"} /\ BlockNumber[commit[c].block] = newest + 1 =>
          ParentHash[commit[c].block] = NumberHash(newest)
    /\ commit[c].step = "locked" => BlockNumber[commit[c].block] = newest + 1

LinkKept == \A c \in BlockCommitters : LinkKeptBy(c)

ChainInv == CommitTypeOK /\ ChainLinked /\ NumberKept /\ OneHolder /\ LinkKept

-----------------------------------------------------------------------------

\* The first state of a group satisfies the invariant.
LEMMA ChainInitInv == ChainInit => ChainInv
<1> SUFFICES ASSUME ChainInit PROVE ChainInv
  OBVIOUS
<1> USE BlockChainAssumption DEF ChainInit
<1>1. CommitTypeOK
  BY DEF CommitTypeOK, NotCommitting, CommitSteps, Unread
<1>2. ChainLinked
  BY DEF ChainLinked, NumberHash
<1>3. NumberKept /\ OneHolder /\ LinkKept
  BY DEF NumberKept, OneHolder, LinkKept, LinkKeptBy, NotCommitting
<1> QED
  BY <1>1, <1>2, <1>3 DEF ChainInv

\* A step that leaves the storage, the number and the threads that commit
\* alone keeps the invariant: the cache and its readers are of no concern.
LEMMA ChainStutter == ChainInv /\ UNCHANGED <<currentNumber, number2Hash, newest, commit>> => ChainInv'
  BY DEF ChainInv, CommitTypeOK, ChainLinked, NumberKept, OneHolder, LinkKept, LinkKeptBy, NumberHash

\* A thread that leaves commitBlock without storing its block.
LEMMA LeaveKeeps ==
    ASSUME ChainInv, NEW c \in BlockCommitters,
           UNCHANGED <<currentNumber, number2Hash, newest>>, commit[c].step # "stored",
           commit' = [commit EXCEPT ![c] = NotCommitting]
    PROVE  ChainInv'
<1> USE BlockChainAssumption DEF ChainInv
<1>1. CommitTypeOK'
  BY DEF CommitTypeOK, NotCommitting, CommitSteps
<1>2. ChainLinked'
  BY DEF ChainLinked, NumberHash
<1>3. NumberKept' /\ OneHolder' /\ LinkKept'
  BY ZenonT(60) DEF CommitTypeOK, NumberKept, OneHolder, LinkKept, LinkKeptBy, NotCommitting, NumberHash
<1> QED
  BY <1>1, <1>2, <1>3

\* A thread that goes on to a step that holds no lock and says nothing of its
\* block: after the storage has it.
LEMMA MoveOnKeeps ==
    ASSUME ChainInv, NEW c \in BlockCommitters,
           UNCHANGED <<currentNumber, number2Hash, newest>>, commit[c].step = "unlocked",
           commit' = [commit EXCEPT ![c].step = "cached"]
    PROVE  ChainInv'
<1> USE BlockChainAssumption DEF ChainInv
<1>1. CommitTypeOK'
  BY ZenonT(60) DEF CommitTypeOK, CommitSteps
<1>2. ChainLinked'
  BY DEF ChainLinked, NumberHash
<1>3. NumberKept' /\ OneHolder' /\ LinkKept'
  BY ZenonT(60) DEF CommitTypeOK, NumberKept, OneHolder, LinkKept, LinkKeptBy, NumberHash
<1> QED
  BY <1>1, <1>2, <1>3

\* number() returns a number of the chain, and fixes m_blockNumber to it.
LEMMA NumberRead ==
    ASSUME ChainInv
    PROVE  /\ ChainNumber \in 0 .. MaxHeight
           /\ newest # Unread => ChainNumber = newest
           /\ newest = Unread => ChainNumber = currentNumber
  BY BlockChainAssumption DEF ChainInv, CommitTypeOK, ChainNumber, Unread

\* The first comparison of commitBlock keeps the invariant.
LEMMA CheckNumberKeeps ==
    ASSUME ChainInv, NEW c \in BlockCommitters, NEW b \in ChainBlocks, CheckNumber(c, b)
    PROVE  ChainInv'
<1> USE BlockChainAssumption DEF disk, ChainInv, CheckNumber
<1>1. CommitTypeOK'
  BY NumberRead, ZenonT(60) DEF CommitTypeOK, CommitSteps
<1>2. ChainLinked'
  BY ZenonT(60) DEF ChainLinked, NumberHash
<1>3. NumberKept'
  <2>1. newest' # Unread
    BY NumberRead DEF Unread
  <2>2. CASE newest = Unread
    BY <2>1, <2>2, NumberRead DEF CommitTypeOK, NumberKept
  <2>3. CASE newest # Unread
    BY <2>1, <2>3, NumberRead, ZenonT(60) DEF CommitTypeOK, NumberKept
  <2> QED
    BY <2>2, <2>3
<1>4. OneHolder'
  BY ZenonT(60) DEF CommitTypeOK, OneHolder
<1>5. LinkKept'
  <2>1. \A d \in BlockCommitters : d # c => commit'[d] = commit[d]
    BY DEF CommitTypeOK
  <2>2. commit'[c] = [step |-> "numbered", block |-> b]
    BY DEF CommitTypeOK
  <2>3. LinkKeptBy(c)'
    BY <2>2, NumberRead DEF LinkKeptBy
  <2>4. ASSUME NEW d \in BlockCommitters, d # c PROVE LinkKeptBy(d)'
    <3>1. CASE newest = Unread
      BY <2>1, <2>4, <3>1 DEF NumberKept, LinkKeptBy
    <3>2. CASE newest # Unread
      BY <2>1, <2>4, <3>2, NumberRead DEF LinkKept, LinkKeptBy, NumberHash
    <3> QED
      BY <3>1, <3>2
  <2> QED
    BY <2>3, <2>4 DEF LinkKept
<1> QED
  BY <1>1, <1>2, <1>3, <1>4, <1>5

\* The comparison of the parent keeps the invariant.
LEMMA CheckParentKeeps ==
    ASSUME ChainInv, NEW c \in BlockCommitters, CheckParent(c)
    PROVE  ChainInv'
<1> USE BlockChainAssumption DEF disk, ChainInv, CheckParent
<1>1. CASE ParentHash[commit[c].block] # NumberHash(ChainNumber)
  <2>1. commit' = [commit EXCEPT ![c] = NotCommitting]
    BY <1>1
  <2> QED
    BY <2>1, LeaveKeeps, ZenonT(60)
<1>2. CASE ParentHash[commit[c].block] = NumberHash(ChainNumber)
  <2>1. commit' = [commit EXCEPT ![c].step = "linked"]
    BY <1>2 DEF CommitTypeOK
  <2>2. newest # Unread /\ ChainNumber = newest
    BY NumberRead DEF NumberKept
  <2>3. \A d \in BlockCommitters : d # c => commit'[d] = commit[d]
    BY <2>1 DEF CommitTypeOK
  <2>4. commit'[c].step = "linked" /\ commit'[c].block = commit[c].block
    BY <2>1 DEF CommitTypeOK
  <2>5. CommitTypeOK'
    <3>1. UNCHANGED <<currentNumber, number2Hash, newest>>
      OBVIOUS
    <3> HIDE DEF CheckParent
    <3> QED
      BY <2>1, <3>1, ZenonT(60) DEF CommitTypeOK, CommitSteps
  <2>6. ChainLinked'
    BY DEF ChainLinked, NumberHash
  <2>7. NumberKept' /\ OneHolder'
    BY <2>2, <2>3, <2>4 DEF NumberKept, OneHolder
  <2>8. LinkKeptBy(c)'
    BY <1>2, <2>2, <2>4 DEF LinkKept, LinkKeptBy, NumberHash
  <2>9. \A d \in BlockCommitters : d # c => LinkKeptBy(d)'
    BY <2>3 DEF LinkKept, LinkKeptBy, NumberHash
  <2> QED
    BY <2>5, <2>6, <2>7, <2>8, <2>9 DEF LinkKept
<1> QED
  BY <1>1, <1>2

\* Taking the lock and comparing the number again keeps the invariant.
LEMMA LockAndRecheckKeeps ==
    ASSUME ChainInv, NEW c \in BlockCommitters, LockAndRecheck(c)
    PROVE  ChainInv'
<1> USE BlockChainAssumption DEF disk, ChainInv, LockAndRecheck
<1>1. CASE BlockNumber[commit[c].block] # ChainNumber + 1
  <2>1. commit' = [commit EXCEPT ![c] = NotCommitting]
    BY <1>1
  <2> QED
    BY <2>1, LeaveKeeps, ZenonT(60)
<1>2. CASE BlockNumber[commit[c].block] = ChainNumber + 1
  <2>1. commit' = [commit EXCEPT ![c].step = "locked"]
    BY <1>2 DEF CommitTypeOK
  <2>2. newest # Unread /\ ChainNumber = newest
    BY NumberRead DEF NumberKept
  <2>3. \A d \in BlockCommitters : d # c => commit'[d] = commit[d]
    BY <2>1 DEF CommitTypeOK
  <2>4. commit'[c].step = "locked" /\ commit'[c].block = commit[c].block
    BY <2>1 DEF CommitTypeOK
  <2>5. CommitTypeOK'
    <3>1. UNCHANGED <<currentNumber, number2Hash, newest>>
      OBVIOUS
    <3> HIDE DEF LockAndRecheck
    <3> QED
      BY <2>1, <3>1, ZenonT(60) DEF CommitTypeOK, CommitSteps
  <2>6. ChainLinked'
    BY DEF ChainLinked, NumberHash
  <2>7. NumberKept' /\ OneHolder'
    BY <2>2, <2>3, <2>4 DEF NumberKept, OneHolder, CommitMutexFree
  <2>8. LinkKeptBy(c)'
    BY <1>2, <2>2, <2>4 DEF LinkKept, LinkKeptBy, NumberHash
  <2>9. \A d \in BlockCommitters : d # c => LinkKeptBy(d)'
    BY <2>3 DEF LinkKept, LinkKeptBy, NumberHash
  <2> QED
    BY <2>5, <2>6, <2>7, <2>8, <2>9 DEF LinkKept
<1> QED
  BY <1>1, <1>2

\* Setting m_blockNumber and releasing the lock keeps the invariant: what the
\* other threads found out about their parents no longer applies.
LEMMA SetNumberKeeps ==
    ASSUME ChainInv, NEW c \in BlockCommitters, SetNumber(c)
    PROVE  ChainInv'
<1> USE BlockChainAssumption DEF disk, ChainInv, SetNumber
<1>1. newest' = currentNumber /\ newest' = newest + 1
  BY DEF NumberKept
<1>2. \A d \in BlockCommitters : d # c => commit'[d] = commit[d]
  BY DEF CommitTypeOK
<1>3. commit'[c].step = "unlocked"
  BY DEF CommitTypeOK
<1>4. newest \in 0 .. MaxHeight /\ newest' # Unread
  BY <1>1 DEF CommitTypeOK, NumberKept, Unread
<1>5. \A d \in BlockCommitters : d # c => commit[d].step \notin {"locked", "stored"}
  BY DEF OneHolder
<1>6. CommitTypeOK'
  BY <1>1, ZenonT(60) DEF CommitTypeOK, CommitSteps
<1>7. ChainLinked'
  BY DEF ChainLinked, NumberHash
<1>8. NumberKept' /\ OneHolder'
  BY <1>1, <1>2, <1>3, <1>4, <1>5 DEF NumberKept, OneHolder
<1>9. ASSUME NEW d \in BlockCommitters PROVE LinkKeptBy(d)'
  <2>1. CASE d = c
    BY <1>3, <2>1 DEF LinkKeptBy
  <2>2. CASE d # c
    BY <1>1, <1>2, <1>4, <1>5, <2>2 DEF LinkKept, LinkKeptBy
  <2> QED
    BY <2>1, <2>2
<1> QED
  BY <1>6, <1>7, <1>8, <1>9 DEF LinkKept

\* A block with the number one above the newest and the newest block as its
\* parent continues the chain, and leaves the rows below it alone.
LEMMA WrittenLinks ==
    ASSUME CommitTypeOK, ChainLinked, NEW b \in ChainBlocks,
           BlockNumber[b] = currentNumber + 1,
           ParentHash[b] = NumberHash(currentNumber),
           WriteBlock(b)
    PROVE  /\ currentNumber' \in 0 .. MaxHeight
           /\ number2Hash' \in [0 .. MaxHeight -> Seq(ChainBlocks)]
           /\ currentNumber' = currentNumber + 1
           /\ \A i \in 0 .. currentNumber : NumberHash(i)' = NumberHash(i)
           /\ ChainLinked'
<1> USE BlockChainAssumption
<1> DEFINE n == currentNumber + 1
<1>1. n \in 1 .. MaxHeight /\ currentNumber' = n
  BY DEF CommitTypeOK, WriteBlock
<1>2. number2Hash[n] = <<>>
  BY <1>1 DEF ChainLinked, CommitTypeOK
<1>3. Append(number2Hash[n], b) = <<b>>
  BY <1>2
<1>4. number2Hash' = [number2Hash EXCEPT ![n] = <<b>>]
  BY <1>3 DEF WriteBlock
<1>5. <<b>> \in Seq(ChainBlocks) /\ Len(<<b>>) = 1 /\ Head(<<b>>) = b
  OBVIOUS
<1>6. number2Hash' \in [0 .. MaxHeight -> Seq(ChainBlocks)] /\ number2Hash'[n] = <<b>>
  BY <1>1, <1>4, <1>5 DEF CommitTypeOK
<1>7. \A i \in 0 .. MaxHeight : i # n => number2Hash'[i] = number2Hash[i]
  BY <1>4 DEF CommitTypeOK
<1>8. \A i \in 0 .. currentNumber : NumberHash(i)' = NumberHash(i)
  <2> TAKE i \in 0 .. currentNumber
  <2>1. number2Hash'[i] = number2Hash[i]
    <3>1. currentNumber \in 0 .. MaxHeight /\ n <= MaxHeight
      BY <1>1 DEF CommitTypeOK
    <3>2. i \in 0 .. MaxHeight /\ i # n
      BY <3>1
    <3> QED
      BY <1>7, <3>2, ZenonT(60)
  <2> QED
    BY <2>1 DEF NumberHash
<1>9. Head(number2Hash'[n]) = b
  BY <1>5, <1>6
<1>10. ChainLinked'
  <2> SUFFICES ASSUME NEW i \in 0 .. MaxHeight
               PROVE  /\ i > n => number2Hash'[i] = <<>>
                      /\ i <= n => Len(number2Hash'[i]) = 1
                      /\ i <= n /\ i > 0 => /\ BlockNumber[NumberHash(i)'] = i
                                            /\ ParentHash[NumberHash(i)'] = NumberHash(i - 1)'
    BY <1>1 DEF ChainLinked, NumberHash
  <2>1. CASE i = n
    <3>1. Len(number2Hash'[i]) = 1 /\ NumberHash(i)' = b
      BY <1>5, <1>6, <1>9, <2>1, ZenonT(60) DEF NumberHash
    <3>2. i - 1 = currentNumber /\ i - 1 \in 0 .. currentNumber
      BY <2>1 DEF CommitTypeOK
    <3>3. NumberHash(i - 1)' = NumberHash(currentNumber)
      BY <1>8, <3>2
    <3> QED
      BY <2>1, <3>1, <3>3 DEF CommitTypeOK
  <2>2. CASE i < n
    <3>1. Len(number2Hash'[i]) = 1
      BY <1>1, <1>7, <2>2 DEF CommitTypeOK, ChainLinked
    <3>2. NumberHash(i)' = NumberHash(i)
      BY <1>8, <2>2 DEF CommitTypeOK
    <3>3. i > 0 => NumberHash(i - 1)' = NumberHash(i - 1)
      BY <1>8, <2>2 DEF CommitTypeOK
    <3>4. i > 0 => BlockNumber[NumberHash(i)] = i /\ ParentHash[NumberHash(i)] = NumberHash(i - 1)
      <4>1. i <= currentNumber
        BY <2>2 DEF CommitTypeOK
      <4> QED
        BY <4>1 DEF ChainLinked, NumberHash
    <3> QED
      BY <2>2, <3>1, <3>2, <3>3, <3>4 DEF CommitTypeOK
  <2>3. CASE i > n
    <3>1. i > currentNumber /\ i # n /\ ~(i <= n)
      BY <2>3 DEF CommitTypeOK
    <3>2. number2Hash[i] = <<>>
      BY <3>1 DEF ChainLinked
    <3> QED
      BY <1>7, <3>1, <3>2, ZenonT(60)
  <2> QED
    BY <1>1, <2>1, <2>2, <2>3 DEF CommitTypeOK
<1> QED
  BY <1>1, <1>6, <1>8, <1>10

\* Storing a block keeps the invariant.
LEMMA DbCommitKeeps ==
    ASSUME ChainInv, NEW c \in BlockCommitters, DbCommit(c)
    PROVE  ChainInv'
<1> USE BlockChainAssumption DEF disk, ChainInv, DbCommit
<1>1. CASE UNCHANGED disk /\ commit' = [commit EXCEPT ![c] = NotCommitting]
  BY <1>1, LeaveKeeps, ZenonT(60)
<1>2. CASE /\ WriteBlock(commit[c].block)
           /\ commit' = [commit EXCEPT ![c].step = "stored"]
  <2>1. PICK b \in ChainBlocks : b = commit[c].block
    BY DEF CommitTypeOK
  <2>2. newest = currentNumber /\ newest \in 0 .. MaxHeight
    BY ZenonT(60) DEF CommitTypeOK, NumberKept, OneHolder, Unread
  <2>3. BlockNumber[b] = currentNumber + 1 /\ ParentHash[b] = NumberHash(currentNumber)
    BY <2>1, <2>2 DEF LinkKept, LinkKeptBy
  <2>4. /\ currentNumber' \in 0 .. MaxHeight
        /\ number2Hash' \in [0 .. MaxHeight -> Seq(ChainBlocks)]
        /\ currentNumber' = currentNumber + 1
        /\ \A i \in 0 .. currentNumber : NumberHash(i)' = NumberHash(i)
        /\ ChainLinked'
    BY <1>2, <2>1, <2>3, WrittenLinks
  <2>5. CommitTypeOK'
    BY <1>2, <2>4, ZenonT(60) DEF CommitTypeOK, CommitSteps
  <2>6. NumberHash(newest)' = NumberHash(newest)
    <3>1. newest \in 0 .. currentNumber /\ newest' = newest
      BY <2>2
    <3> QED
      BY <2>4, <3>1, ZenonT(60) DEF NumberHash
  <2>7. \A d \in BlockCommitters : d # c => commit'[d] = commit[d]
    BY <1>2 DEF CommitTypeOK
  <2>8. commit'[c].step = "stored" /\ commit'[c].block = b
    BY <1>2, <2>1 DEF CommitTypeOK
  <2>9. \A d \in BlockCommitters : d # c => commit[d].step \notin {"locked", "stored"}
    BY DEF OneHolder
  <2>10. NumberKept' /\ OneHolder'
    BY <2>1, <2>2, <2>3, <2>4, <2>7, <2>8, <2>9, ZenonT(60) DEF NumberKept, OneHolder
  <2>11. ASSUME NEW d \in BlockCommitters PROVE LinkKeptBy(d)'
    <3>1. CASE d = c
      BY <2>8, <3>1 DEF LinkKeptBy
    <3>2. CASE d # c
      BY <2>7, <2>6, <3>2 DEF LinkKept, LinkKeptBy
    <3> QED
      BY <3>1, <3>2
  <2> QED
    BY <2>4, <2>5, <2>10, <2>11 DEF LinkKept
<1> QED
  BY <1>1, <1>2

\* A restart keeps the invariant, wherever the threads were.
LEMMA RestartKeeps == ChainInv /\ RestartChain => ChainInv'
<1> SUFFICES ASSUME ChainInv, RestartChain PROVE ChainInv'
  OBVIOUS
<1> USE BlockChainAssumption DEF disk, ChainInv, RestartChain
<1>1. CommitTypeOK'
  BY DEF CommitTypeOK, NotCommitting, CommitSteps
<1>2. ChainLinked'
  BY ZenonT(60) DEF ChainLinked, NumberHash
<1>3. NumberKept' /\ OneHolder' /\ LinkKept'
  BY DEF NumberKept, OneHolder, LinkKept, LinkKeptBy, NotCommitting
<1> QED
  BY <1>1, <1>2, <1>3

\* Reading a block keeps the invariant: it may be what fixes m_blockNumber.
LEMMA LookUpKeeps ==
    ASSUME ChainInv, NEW r \in BlockReaders, NEW i \in 0 .. MaxHeight, LookUp(r, i)
    PROVE  ChainInv'
<1> USE BlockChainAssumption DEF disk, ChainInv, LookUp
<1>1. CASE newest # Unread
  BY <1>1, NumberRead, ChainStutter
<1>2. CASE newest = Unread
  <2>1. newest' = currentNumber /\ UNCHANGED <<currentNumber, number2Hash, commit>>
    BY <1>2, NumberRead
  <2>2. \A c \in BlockCommitters : commit[c].step = "out"
    BY <1>2 DEF NumberKept
  <2>3. CommitTypeOK'
    BY <2>1 DEF CommitTypeOK
  <2>4. ChainLinked'
    BY <2>1 DEF ChainLinked, NumberHash
  <2>5. NumberKept' /\ OneHolder' /\ LinkKept'
    BY <2>1, <2>2 DEF NumberKept, OneHolder, LinkKept, LinkKeptBy
  <2> QED
    BY <2>3, <2>4, <2>5
<1> QED
  BY <1>1, <1>2

\* The stored chain is linked in every behaviour: whichever threads commit
\* whichever blocks, whether a commit throws, and wherever the process dies.
THEOREM ChainStaysLinked == ChainSpec => []ChainLinked
<1>1. ChainInv /\ [ChainNext]_chainVars => ChainInv'
  <2> SUFFICES ASSUME ChainInv, [ChainNext]_chainVars PROVE ChainInv'
    OBVIOUS
  <2>1. CASE \E c \in BlockCommitters, b \in ChainBlocks : CheckNumber(c, b)
    BY <2>1, CheckNumberKeeps
  <2>2. CASE \E c \in BlockCommitters : CheckParent(c)
    BY <2>2, CheckParentKeeps
  <2>3. CASE \E c \in BlockCommitters : LockAndRecheck(c)
    BY <2>3, LockAndRecheckKeeps
  <2>4. CASE \E c \in BlockCommitters : DbCommit(c)
    BY <2>4, DbCommitKeeps
  <2>5. CASE \E c \in BlockCommitters : SetNumber(c)
    BY <2>5, SetNumberKeeps
  <2>6. CASE \E c \in BlockCommitters : CacheCommitted(c)
    BY <2>6, MoveOnKeeps, ZenonT(60) DEF CacheCommitted, disk
  <2>7. CASE \E c \in BlockCommitters : Announce(c)
    BY <2>7, LeaveKeeps, ZenonT(60) DEF Announce, disk
  <2>8. CASE \E r \in BlockReaders, i \in 0 .. MaxHeight : LookUp(r, i)
    BY <2>8, LookUpKeeps
  <2>9. CASE \E r \in BlockReaders : FillCache(r)
    BY <2>9, ChainStutter DEF FillCache, disk
  <2>10. CASE RestartChain
    BY <2>10, RestartKeeps
  <2>11. CASE UNCHANGED chainVars
    BY <2>11, ChainStutter DEF chainVars, disk
  <2> QED
    BY <2>1, <2>2, <2>3, <2>4, <2>5, <2>6, <2>7, <2>8, <2>9, <2>10, <2>11 DEF ChainNext
<1>2. ChainInv => ChainLinked
  BY DEF ChainInv
<1> QED
  BY ChainInitInv, <1>1, <1>2, PTL DEF ChainSpec

-----------------------------------------------------------------------------
(***************************************************************************)
(* BinLog: recovery is exact.  As long as no record is cut, the log files  *)
(* are consecutive runs of blocks that together hold every block from the  *)
(* first to the last one, and a window of recovery continues the database  *)
(* where it ends.                                                          *)
(***************************************************************************)
\* The types of the state, the recovery loop's included.
LogShape ==
  /\ BinLogTypeOK
  /\ recovery \in [num: Int, last: Int, i: Nat \ {0}, data: SUBSET LogBlocks]
  /\ everTorn \in BOOLEAN

\* Where the process is tells which file is open and what is in it.
OpenFile ==
  /\ logPhase \in {"down", "open", "recover"} => fd = NoFile
  /\ logPhase \in {"write", "commit"} => fd # NoFile /\ Upcoming <= MaxLogged
  /\ fd # NoFile => files[fd].exists /\ fd <= Upcoming
  /\ logPhase = "commit" => Upcoming <= files[fd].last

\* A block that is not on disk is in the log, and so is one to be recovered.
LogBacks ==
  /\ live \ flushed \subseteq Logged
  /\ logPhase = "recover" => recovery.data \subseteq Logged

\* Without a cut record, the files follow each other and nothing is missing
\* from the first block on.
WholeFiles ==
  /\ \A f \in LogBlocks : files[f].tail = 1
  /\ \A f, g \in Files : f < g => files[f].last < g
  /\ \A n \in Logged : 0 .. n \subseteq Logged
  /\ live \subseteq Logged
  /\ logPhase \in {"open", "recover", "up", "commit"} =>
        \A f \in Files : f <= files[f].last
  /\ logPhase = "write" => \A f \in Files \ {fd} : f <= files[f].last

\* The database has no gap, and is behind the log only before recovery is over
\* and between the write and the commit of a block.
WholeDatabase ==
  /\ live = 0 .. LastOf(live)
  /\ flushed = 0 .. LastOf(flushed)
  /\ logPhase \in {"up", "write"} => Logged \subseteq live
  /\ logPhase = "commit" => Logged \subseteq live \cup {Upcoming}
  /\ fd # NoFile => \A f \in Files : f <= fd

\* A window of the recovery loop continues the database.
WindowFits ==
  logPhase = "recover" =>
    /\ recovery.last \in Logged
    /\ Logged \subseteq 0 .. recovery.last
    /\ recovery.num \in NoFile .. recovery.last
    /\ recovery.data = (recovery.num + 1 .. recovery.num + Interval) \cap Logged
    /\ live = 0 .. recovery.num + recovery.i - 1
    /\ recovery.i - 1 <= Interval
    /\ recovery.num + recovery.i - 1 <= recovery.last

\* The inductive invariant.
BinLogInv ==
  /\ LogShape /\ OpenFile /\ LogBacks
  /\ ~everTorn => WholeFiles /\ WholeDatabase /\ WindowFits

-----------------------------------------------------------------------------

\* A bounded set of numbers has a greatest element.
LEMMA Greatest ==
  ASSUME NEW S \in SUBSET LogBlocks, S # {}
  PROVE  \E n \in S : \A m \in S : m <= n
<1> DEFINE T == {MaxLogged - n : n \in S}
<1>0. \A n \in S : n \in Nat /\ MaxLogged - n \in Nat
  BY BinLogAssumption DEF LogBlocks
<1>1. T \subseteq Nat /\ T # {}
  BY <1>0
<1>2. PICK x \in T : \A y \in T : ~ (<<y, x>> \in OpToRel(<, Nat))
  BY <1>1, NatLessThanWellFounded, WFMin, ZenonT(60)
<1>3. \A y \in T : ~ (y < x)
  BY <1>1, <1>2, ZenonT(60) DEF OpToRel
<1>4. PICK n \in S : x = MaxLogged - n
  BY ZenonT(60)
<1>5. ASSUME NEW m \in S PROVE m <= n
  <2>1. MaxLogged - m \in T
    BY ZenonT(60)
  <2>2. ~ (MaxLogged - m < MaxLogged - n)
    BY <1>3, <1>4, <2>1
  <2> QED
    BY <1>0, <2>2, BinLogAssumption
<1> QED
  BY <1>5

\* The size of a run of numbers.
LEMMA RunSize ==
  ASSUME NEW a \in Int, NEW b \in Int, a <= b
  PROVE  Cardinality(a + 1 .. b) = b - a
<1>1. a + 1 \in Int
  OBVIOUS
<1>2. Cardinality(a + 1 .. b) = IF a + 1 > b THEN 0 ELSE b - (a + 1) + 1
  BY <1>1, FS_Interval, ZenonT(60)
<1> QED
  BY <1>2

\* getBlockNumberFromStorage returns the highest block, or NoFile.
LEMMA LastOfSet ==
  ASSUME NEW S \in SUBSET LogBlocks
  PROVE  /\ LastOf(S) \in S \cup {NoFile} /\ LastOf(S) \in NoFile .. MaxLogged
         /\ \A m \in S : m <= LastOf(S)
         /\ S = {} => LastOf(S) = NoFile
         /\ S # {} => LastOf(S) \in S
<1>1. \E n \in S \cup {NoFile} : \A m \in S : m <= n
  BY Greatest
<1>2. LastOf(S) \in S \cup {NoFile} /\ \A m \in S : m <= LastOf(S)
  BY <1>1 DEF LastOf
<1>3. NoFile \in NoFile .. MaxLogged /\ S \subseteq NoFile .. MaxLogged
  BY BinLogAssumption DEF LogBlocks, NoFile
<1>4. ASSUME S # {} PROVE LastOf(S) # NoFile
  <2>0. \A m \in S : m \in Nat
    BY BinLogAssumption DEF LogBlocks
  <2>1. PICK m \in S : m \in Nat
    BY <1>4, <2>0
  <2> QED
    BY <1>2, <2>1 DEF NoFile
<1> QED
  BY <1>2, <1>3, <1>4, ZenonT(60)

\* The highest block of a database without gap is its end.
LEMMA LastOfRun ==
  ASSUME NEW k \in NoFile .. MaxLogged
  PROVE  LastOf(0 .. k) = k
<1>1. 0 .. k \in SUBSET LogBlocks
  BY BinLogAssumption DEF LogBlocks, NoFile
<1>2. LastOf(0 .. k) \in (0 .. k) \cup {NoFile} /\ \A m \in 0 .. k : m <= LastOf(0 .. k)
  BY <1>1, LastOfSet
<1> QED
  BY <1>2, BinLogAssumption DEF NoFile

\* A block is in the log when some file has a complete record of it.
LEMMA LoggedIn ==
  ASSUME BinLogTypeOK, NEW n
  PROVE  n \in Logged <=> /\ n \in LogBlocks
                         /\ \E f \in Files : f <= n /\ n <= files[f].last
<1>1. \A f \in Files : f \in LogBlocks /\ files[f].last \in NoFile .. MaxLogged
  BY DEF BinLogTypeOK, Files
<1>2. n \in Logged <=> \E f \in Files : n \in f .. files[f].last
  BY DEF Logged, Records
<1>3. ASSUME NEW f \in Files
      PROVE  n \in f .. files[f].last <=> n \in LogBlocks /\ f <= n /\ n <= files[f].last
  BY <1>1, BinLogAssumption DEF LogBlocks, NoFile
<1> QED
  BY <1>2, <1>3

\* What is in the log depends on the files and their last records alone.
LEMMA SameLog ==
  ASSUME \A f \in LogBlocks : files'[f].exists = files[f].exists /\ files'[f].last = files[f].last
  PROVE  Files' = Files /\ Logged' = Logged
<1>1. Files' = Files
  BY DEF Files
<1>2. \A f \in Files : Records(f)' = Records(f)
  BY DEF Files, Records
<1> QED
  BY <1>1, <1>2 DEF Logged

\* A process that dies keeps the invariant, whatever its crash cut off.
LEMMA DieKeeps ==
  ASSUME BinLogInv, Die, flushed' = flushed, BinLogTypeOK',
         \A f \in LogBlocks : files'[f].exists = files[f].exists /\ files'[f].last = files[f].last,
         everTorn' \in BOOLEAN,
         ~everTorn' => ~everTorn /\ files' = files
  PROVE  BinLogInv'
<1>1. Files' = Files /\ Logged' = Logged
  BY SameLog
<1>2. live' = flushed /\ fd' = NoFile /\ logPhase' = "down" /\ recovery' = NoRecovery
  BY DEF Die
<1>3. LogShape'
  BY <1>2 DEF LogShape, NoRecovery, NoFile
<1>4. OpenFile' /\ LogBacks'
  BY <1>2 DEF OpenFile, LogBacks
<1>5. ASSUME ~everTorn' PROVE WholeFiles' /\ WholeDatabase' /\ WindowFits'
  <2>1. WholeFiles /\ WholeDatabase /\ files' = files /\ flushed \subseteq live
    BY <1>5 DEF BinLogInv, LogShape, BinLogTypeOK
  <2>2. WholeFiles'
    BY <1>1, <1>2, <2>1 DEF WholeFiles
  <2>3. WholeDatabase' /\ WindowFits'
    BY <1>2, <2>1 DEF WholeDatabase, WindowFits
  <2> QED
    BY <2>2, <2>3
<1> QED
  BY <1>3, <1>4, <1>5 DEF BinLogInv

\* The blocks of a window are the logged ones: a file that has one of them is
\* among those that are scanned.
LEMMA WindowData ==
  ASSUME LogShape, NEW num \in Int
  PROVE  /\ GetMissingBlocksFromBinLog(num, num + Interval) \subseteq Logged
         /\ WholeFiles => GetMissingBlocksFromBinLog(num, num + Interval)
                            = (num + 1 .. num + Interval) \cap Logged
<1> DEFINE D == GetMissingBlocksFromBinLog(num, num + Interval)
           W == num + 1 .. num + Interval
<1>1. \A f \in Files : f \in Int /\ files[f].last \in Int
  BY BinLogAssumption DEF LogShape, BinLogTypeOK, Files, LogBlocks, NoFile
<1>2. D = {n \in W : \E f \in Scanned(num) : n \in Records(f)}
  BY DEF GetMissingBlocksFromBinLog
<1>3. Scanned(num) \subseteq Files
  BY DEF Scanned
<1>4. D \subseteq W \cap Logged
  BY <1>2, <1>3 DEF Logged
<1>5. ASSUME WholeFiles, NEW n \in W, NEW f \in Files, n \in Records(f)
      PROVE  f \in Scanned(num)
  <2>1. n \in Int /\ n > num /\ n <= files[f].last
    BY <1>1, <1>5, BinLogAssumption DEF Records
  <2>2. ASSUME NEW g \in Files, g > f PROVE g > num
    <3>1. files[f].last < g
      BY <1>1, <1>5, <2>2 DEF WholeFiles
    <3> QED
      BY <1>1, <2>1, <3>1
  <2> QED
    BY <2>2 DEF Scanned
<1>6. ASSUME WholeFiles PROVE W \cap Logged \subseteq D
  BY <1>2, <1>5, <1>6 DEF Logged
<1> QED
  BY <1>4, <1>6

\* Opening a window of the recovery loop.
LEMMA WindowOpens ==
  ASSUME BinLogInv, logPhase \in {"open", "recover"}, NEW num \in Int, NEW last \in Int,
         RecoverWindow(num, last), UNCHANGED <<files, flushed, everTorn>>,
         ~everTorn => /\ num \in NoFile .. last /\ last \in Logged
                      /\ Logged \subseteq 0 .. last /\ live = 0 .. num
  PROVE  BinLogInv'
<1>1. CASE Die
  <2>1. BinLogTypeOK'
    BY <1>1 DEF Die, BinLogInv, LogShape, BinLogTypeOK
  <2> QED
    BY <1>1, <2>1, DieKeeps DEF BinLogInv, LogShape
<1>2. CASE /\ recovery' = [num |-> num, last |-> last, i |-> 1,
                          data |-> GetMissingBlocksFromBinLog(num, num + Interval)]
           /\ logPhase' = "recover" /\ UNCHANGED <<live, fd>>
  <2> DEFINE D == GetMissingBlocksFromBinLog(num, num + Interval)
  <2>0. /\ recovery'.num = num /\ recovery'.last = last /\ recovery'.i = 1
        /\ recovery'.data = D
    BY <1>2
  <2>1. Files' = Files /\ Logged' = Logged
    BY SameLog
  <2>2. D \subseteq Logged /\ (WholeFiles => D = (num + 1 .. num + Interval) \cap Logged)
    BY WindowData DEF BinLogInv
  <2>3. Logged \subseteq LogBlocks
    BY LoggedIn DEF BinLogInv, LogShape
  <2> HIDE DEF D
  <2>4. LogShape'
    BY <1>2, <2>0, <2>2, <2>3 DEF BinLogInv, LogShape, BinLogTypeOK, D
  <2>5. OpenFile' /\ LogBacks'
    BY <1>2, <2>0, <2>1, <2>2 DEF BinLogInv, OpenFile, LogBacks
  <2>6. ASSUME ~everTorn PROVE WholeFiles' /\ WholeDatabase' /\ WindowFits'
    <3>1. WholeFiles /\ WholeDatabase /\ fd = NoFile
      BY <2>6 DEF BinLogInv, OpenFile
    <3>2. WholeFiles'
      BY <1>2, <2>1, <3>1 DEF WholeFiles
    <3>3. WholeDatabase'
      BY <1>2, <3>1 DEF WholeDatabase
    <3>4. num + 1 - 1 = num /\ 0 <= Interval /\ num <= last
      BY <2>6, BinLogAssumption DEF NoFile
    <3>5. WindowFits'
      BY <1>2, <2>0, <2>1, <2>2, <2>6, <3>1, <3>4 DEF WindowFits
    <3> QED
      BY <3>2, <3>3, <3>5
  <2> QED
    BY <2>4, <2>5, <2>6 DEF BinLogInv
<1> QED
  BY <1>1, <1>2 DEF RecoverWindow

\* The start of a process removes files without a record.
LEMMA StartKeeps ==
  ASSUME BinLogInv, StartNode
  PROVE  BinLogInv'
<1>1. /\ logPhase = "down" /\ files' = CheckBinLogSize /\ logPhase' = "open"
      /\ UNCHANGED <<fd, live, flushed, recovery, everTorn>>
  BY DEF StartNode
<1>2. BinLogTypeOK' /\ LogShape'
  <2>1. NoLog \in [exists : BOOLEAN, last : NoFile .. MaxLogged, tail : 1 .. Len(Tails)]
    BY BinLogAssumption DEF NoLog, NoFile, Tails
  <2> QED
    BY <1>1, <2>1 DEF BinLogInv, LogShape, BinLogTypeOK, CheckBinLogSize
<1>3. ASSUME NEW f \in LogBlocks
      PROVE  \/ files'[f] = files[f] /\ ~(files[f].tail = 1 /\ Records(f) = {})
             \/ files'[f] = NoLog /\ Records(f) = {}
  BY <1>1 DEF CheckBinLogSize
<1>4. Files' \subseteq Files /\ \A f \in Files' : files'[f] = files[f]
  BY <1>3 DEF Files, NoLog
<1>5. \A f \in Files : f \in Files' \/ Records(f) = {}
  BY <1>3 DEF Files
<1>6. Logged' = Logged
  BY <1>4, <1>5 DEF Logged, Records
<1>7. OpenFile' /\ LogBacks'
  BY <1>1, <1>6 DEF BinLogInv, OpenFile, LogBacks
<1>8. ASSUME ~everTorn PROVE WholeFiles' /\ WholeDatabase' /\ WindowFits'
  <2>1. WholeFiles /\ WholeDatabase /\ fd = NoFile
    BY <1>1, <1>8 DEF BinLogInv, OpenFile
  <2>2. \A f \in LogBlocks : files'[f].tail = 1
    BY <1>3, <2>1 DEF WholeFiles, NoLog
  <2>3. ASSUME NEW f \in Files' PROVE f <= files'[f].last
    <3>1. f \in LogBlocks /\ Records(f) # {} /\ files'[f] = files[f]
      BY <1>3, <1>4, <2>1, <2>3 DEF Files, WholeFiles, NoLog
    <3>2. files[f].last \in Int /\ f \in Int
      BY <3>1 DEF BinLogInv, LogShape, BinLogTypeOK, LogBlocks, NoFile
    <3> QED
      BY <3>1, <3>2 DEF Records
  <2>4. WholeFiles'
    BY <1>1, <1>4, <1>6, <2>1, <2>2, <2>3 DEF WholeFiles
  <2>5. WholeDatabase' /\ WindowFits'
    BY <1>1, <2>1 DEF WholeDatabase, WindowFits
  <2> QED
    BY <2>4, <2>5
<1> QED
  BY <1>1, <1>2, <1>7, <1>8 DEF BinLogInv

\* The start of recovery: the end of the newest file is the end of the log.
LEMMA RecoverKeeps ==
  ASSUME BinLogInv, RecoverFromBinaryLog
  PROVE  BinLogInv'
<1> DEFINE L == LastOf(live)
           E == GetLastBlockNum
<1>1. /\ logPhase = "open" /\ UNCHANGED <<files, flushed, everTorn>>
      /\ IF L >= E THEN logPhase' = "up" /\ UNCHANGED <<fd, live, recovery>>
                   ELSE RecoverWindow(L, E)
  BY DEF RecoverFromBinaryLog
<1>2. L \in NoFile .. MaxLogged /\ L \in Int
  BY LastOfSet DEF BinLogInv, LogShape, BinLogTypeOK, NoFile
<1>3. Files \in SUBSET LogBlocks
  BY DEF Files
<1>4. \A f \in Files : f \in Int /\ files[f].last \in Int
  BY <1>3 DEF BinLogInv, LogShape, BinLogTypeOK, LogBlocks, NoFile
<1>5. Files # {} => Newest \in Files /\ \A f \in Files : f <= Newest
  BY <1>3, LastOfSet DEF Newest
<1>6. E \in Int
  BY <1>4, <1>5 DEF GetLastBlockNum
<1>7. ASSUME ~everTorn, Files # {}
      PROVE  E \in Logged /\ Logged \subseteq 0 .. E
  <2>1. WholeFiles /\ Newest \in Files /\ Newest <= files[Newest].last
    BY <1>1, <1>5, <1>7 DEF BinLogInv, WholeFiles
  <2>2. files[Newest].tail = 1 /\ Records(Newest) # {}
    BY <1>3, <1>4, <2>1 DEF WholeFiles, Records
  <2>3. E = files[Newest].last
    BY <1>7, <2>2 DEF GetLastBlockNum, Tails
  <2>4. \A f \in Files : files[f].last <= E
    BY <1>4, <1>5, <1>7, <2>1, <2>3 DEF WholeFiles
  <2>5. E \in Logged
    BY <1>4, <2>1, <2>3 DEF Logged, Records
  <2>6. ASSUME NEW n \in Logged PROVE n \in 0 .. E
    BY <1>4, <1>6, <2>4, LoggedIn DEF BinLogInv, LogShape, LogBlocks
  <2> QED
    BY <2>5, <2>6
<1>8. Files = {} => Logged = {}
  BY DEF Logged
<1> HIDE DEF L, E
<1>9. CASE L >= E
  <2>1. logPhase' = "up" /\ UNCHANGED <<fd, live, recovery>>
    BY <1>1, <1>9
  <2>2. Files' = Files /\ Logged' = Logged
    BY <1>1, SameLog
  <2>3. LogShape' /\ OpenFile' /\ LogBacks'
    BY <1>1, <2>1, <2>2 DEF BinLogInv, LogShape, BinLogTypeOK, OpenFile, LogBacks, Upcoming
  <2>4. ASSUME ~everTorn PROVE WholeFiles' /\ WholeDatabase' /\ WindowFits'
    <3>1. WholeFiles /\ WholeDatabase /\ fd = NoFile
      BY <1>1, <2>4 DEF BinLogInv, OpenFile
    <3>2. live = 0 .. L
      BY <3>1 DEF WholeDatabase, L
    <3>3. Logged \subseteq live
      BY <1>2, <1>6, <1>7, <1>8, <1>9, <2>4, <3>2
    <3>4. WholeFiles'
      BY <1>1, <2>1, <2>2, <3>1 DEF WholeFiles
    <3>5. WholeDatabase' /\ WindowFits'
      BY <1>1, <2>1, <2>2, <3>1, <3>3 DEF WholeDatabase, WindowFits
    <3> QED
      BY <3>4, <3>5
  <2> QED
    BY <1>1, <2>3, <2>4 DEF BinLogInv
<1>10. CASE ~(L >= E)
  <2>1. RecoverWindow(L, E)
    BY <1>1, <1>10
  <2>2. Files # {}
    BY <1>2, <1>10 DEF E, GetLastBlockNum, NoFile
  <2>3. ASSUME ~everTorn PROVE L \in NoFile .. E /\ live = 0 .. L
    BY <1>2, <1>6, <1>10, <2>3 DEF BinLogInv, WholeDatabase, L
  <2> QED
    BY <1>1, <1>2, <1>6, <1>7, <2>1, <2>2, <2>3, WindowOpens
<1> QED
  BY <1>9, <1>10

\* Without a cut record the data of a window is the run of blocks up to the end
\* of the window or of the log, and its size tells where that is.
LEMMA WindowRun ==
  ASSUME BinLogInv, ~everTorn, logPhase = "recover"
  PROVE  \E end \in Int :
           /\ end <= recovery.num + Interval /\ end <= recovery.last
           /\ end = recovery.num + Interval \/ end = recovery.last
           /\ recovery.data = recovery.num + 1 .. end
           /\ Cardinality(recovery.data) = end - recovery.num
<1> DEFINE num == recovery.num
           last == recovery.last
           end == IF num + Interval <= last THEN num + Interval ELSE last
<1>1. /\ last \in Logged /\ Logged \subseteq 0 .. last /\ num \in NoFile .. last
      /\ recovery.data = (num + 1 .. num + Interval) \cap Logged
  BY DEF BinLogInv, WindowFits
<1>2. num \in Int /\ last \in Int /\ Interval \in Nat \ {0} /\ NoFile <= num /\ num <= last
  BY <1>1, BinLogAssumption DEF BinLogInv, LogShape, NoFile
<1>3. Logged = 0 .. last
  BY <1>1, ZenonT(60) DEF BinLogInv, WholeFiles
<1> HIDE DEF num, last
<1>4. end \in Int /\ num <= end
  BY <1>2
<1>5. recovery.data = num + 1 .. end
  BY <1>1, <1>2, <1>3 DEF NoFile
<1> HIDE DEF end
<1>6. Cardinality(num + 1 .. end) = end - num
  BY <1>2, <1>4, RunSize
<1> QED
  BY <1>2, <1>4, <1>5, <1>6 DEF end, num, last

\* Recovering one block of a window.
LEMMA BlockKeeps ==
  ASSUME BinLogInv, RecoverBlock
  PROVE  BinLogInv'
<1> DEFINE n == recovery.num + recovery.i
<1>1. /\ logPhase = "recover" /\ recovery.i <= Cardinality(recovery.data)
      /\ UNCHANGED <<files, flushed, everTorn>>
      /\ IF n \in recovery.data
         THEN /\ live' = live \cup {n} /\ recovery' = [recovery EXCEPT !.i = @ + 1]
              /\ UNCHANGED <<fd, logPhase>>
         ELSE Die
  BY DEF RecoverBlock
<1>2. CASE n \notin recovery.data
  <2>1. Die
    BY <1>1, <1>2
  <2>2. BinLogTypeOK'
    BY <1>1, <2>1 DEF Die, BinLogInv, LogShape, BinLogTypeOK
  <2> QED
    BY <1>1, <2>1, <2>2, DieKeeps DEF BinLogInv, LogShape
<1>3. CASE n \in recovery.data
  <2>1. /\ live' = live \cup {n} /\ recovery' = [recovery EXCEPT !.i = @ + 1]
        /\ UNCHANGED <<fd, logPhase>>
    BY <1>1, <1>3
  <2>2. /\ recovery'.num = recovery.num /\ recovery'.last = recovery.last
        /\ recovery'.i = recovery.i + 1 /\ recovery'.data = recovery.data
        /\ recovery.num \in Int /\ recovery.last \in Int /\ recovery.i \in Nat \ {0}
        /\ recovery.data \subseteq LogBlocks
    BY <2>1 DEF BinLogInv, LogShape
  <2>3. Files' = Files /\ Logged' = Logged
    BY <1>1, SameLog
  <2>4. n \in LogBlocks /\ n \in Logged
    BY <1>1, <1>3, <2>2 DEF BinLogInv, LogBacks
  <2>5. LogShape'
    <3>1. recovery' \in [num: Int, last: Int, i: Nat \ {0}, data: SUBSET LogBlocks]
      BY <2>1, <2>2 DEF BinLogInv, LogShape
    <3> QED
      BY <1>1, <2>1, <2>4, <3>1, ZenonT(60) DEF BinLogInv, LogShape, BinLogTypeOK
  <2>6. OpenFile'
    BY <1>1, <2>1 DEF BinLogInv, OpenFile
  <2>7. LogBacks'
    BY <1>1, <2>1, <2>2, <2>3, <2>4 DEF BinLogInv, LogBacks
  <2>8. ASSUME ~everTorn PROVE WholeFiles' /\ WholeDatabase' /\ WindowFits'
    <3>1. WholeFiles /\ WholeDatabase /\ WindowFits /\ fd = NoFile
      BY <1>1, <2>8 DEF BinLogInv, OpenFile
    <3>2. PICK end \in Int :
             /\ end <= recovery.num + Interval /\ end <= recovery.last
             /\ Cardinality(recovery.data) = end - recovery.num
      BY <1>1, <2>8, WindowRun
    <3>3. n <= end /\ n \in Nat /\ n <= MaxLogged
      BY <1>1, <2>2, <2>4, <3>2, BinLogAssumption DEF LogBlocks
    <3>a. logPhase = "recover"
      BY <1>1
    <3>b. live = 0 .. recovery.num + recovery.i - 1
      BY <3>1, <3>a, ZenonT(60) DEF WindowFits
    <3>4. live = 0 .. n - 1
      BY <2>2, <3>b
    <3>5. live' = 0 .. n
      BY <2>1, <3>3, <3>4
    <3>6. LastOf(live') = n
      BY <3>3, <3>5, LastOfRun DEF NoFile
    <3>7. WholeFiles'
      BY <1>1, <2>1, <2>3, <2>4, <3>1 DEF WholeFiles
    <3>8. WholeDatabase'
      BY <1>1, <2>1, <3>1, <3>5, <3>6 DEF WholeDatabase
    <3>9. /\ n = recovery'.num + recovery'.i - 1
          /\ recovery'.i - 1 <= Interval
          /\ recovery'.num + recovery'.i - 1 <= recovery'.last
      BY <2>2, <3>2, <3>3, BinLogAssumption
    <3>10. /\ recovery.last \in Logged /\ Logged \subseteq 0 .. recovery.last
           /\ recovery.num \in NoFile .. recovery.last
           /\ recovery.data = (recovery.num + 1 .. recovery.num + Interval) \cap Logged
      BY <3>1, <3>a, ZenonT(60) DEF WindowFits
    <3>11. WindowFits'
      BY <2>2, <2>3, <3>5, <3>9, <3>10, ZenonT(60) DEF WindowFits
    <3> QED
      BY <3>7, <3>8, <3>11
  <2> QED
    BY <1>1, <2>5, <2>6, <2>7, <2>8 DEF BinLogInv
<1> QED
  BY <1>2, <1>3

\* The end of a window: what it held is in the database, so the next one
\* continues there, or the log is exhausted.
LEMMA NextKeeps ==
  ASSUME BinLogInv, NextWindow
  PROVE  BinLogInv'
<1> DEFINE num == recovery.num
           last == recovery.last
<1>1. /\ logPhase = "recover" /\ recovery.i > Cardinality(recovery.data)
      /\ UNCHANGED <<files, flushed, everTorn>>
      /\ IF num + Interval <= last THEN RecoverWindow(num + Interval, last)
         ELSE logPhase' = "up" /\ recovery' = NoRecovery /\ UNCHANGED <<fd, live>>
  BY DEF NextWindow
<1>2. num \in Int /\ last \in Int /\ recovery.i \in Nat /\ Interval \in Nat \ {0}
  BY BinLogAssumption DEF BinLogInv, LogShape
<1>3. ASSUME ~everTorn
      PROVE  /\ last \in Logged /\ Logged \subseteq 0 .. last /\ num \in NoFile .. last
             /\ live = 0 .. IF num + Interval <= last THEN num + Interval ELSE last
  <2>1. /\ last \in Logged /\ Logged \subseteq 0 .. last /\ num \in NoFile .. last
        /\ live = 0 .. num + recovery.i - 1
        /\ recovery.i - 1 <= Interval /\ num + recovery.i - 1 <= last
    BY <1>1, <1>3 DEF BinLogInv, WindowFits
  <2>2. PICK end \in Int :
           /\ end = num + Interval \/ end = last
           /\ end <= num + Interval /\ end <= last
           /\ Cardinality(recovery.data) = end - num
    BY <1>1, <1>3, WindowRun
  <2> HIDE DEF num, last
  <2>3. num + recovery.i - 1 = IF num + Interval <= last THEN num + Interval ELSE last
    BY <1>1, <1>2, <2>1, <2>2
  <2> QED
    BY <2>1, <2>3
<1> HIDE DEF num, last
<1>4. CASE num + Interval <= last
  <2>1. RecoverWindow(num + Interval, last) /\ num + Interval \in Int
    BY <1>1, <1>2, <1>4
  <2>2. ~everTorn => num + Interval \in NoFile .. last /\ live = 0 .. num + Interval
    BY <1>2, <1>3, <1>4 DEF NoFile
  <2> QED
    BY <1>1, <1>2, <1>3, <2>1, <2>2, WindowOpens
<1>5. CASE ~(num + Interval <= last)
  <2>1. logPhase' = "up" /\ recovery' = NoRecovery /\ UNCHANGED <<fd, live>>
    BY <1>1, <1>5
  <2>2. Files' = Files /\ Logged' = Logged
    BY <1>1, SameLog
  <2>3. LogShape'
    BY <1>1, <2>1 DEF BinLogInv, LogShape, BinLogTypeOK, NoRecovery, NoFile
  <2>4. OpenFile' /\ LogBacks'
    BY <1>1, <2>1, <2>2 DEF BinLogInv, OpenFile, LogBacks
  <2>5. ASSUME ~everTorn PROVE WholeFiles' /\ WholeDatabase' /\ WindowFits'
    <3>1. WholeFiles /\ WholeDatabase /\ fd = NoFile
      BY <1>1, <2>5 DEF BinLogInv, OpenFile
    <3>2. Logged \subseteq live
      BY <1>3, <1>5, <2>5
    <3>3. WholeFiles'
      BY <1>1, <2>1, <2>2, <3>1 DEF WholeFiles
    <3>4. WholeDatabase' /\ WindowFits'
      BY <1>1, <2>1, <2>2, <3>1, <3>2 DEF WholeDatabase, WindowFits
    <3> QED
      BY <3>3, <3>4
  <2> QED
    BY <1>1, <2>3, <2>4, <2>5 DEF BinLogInv
<1> QED
  BY <1>4, <1>5

\* The file for the next block: the one that is open, or one named after it.
LEMMA OpenKeeps ==
  ASSUME BinLogInv, OpenForWrite
  PROVE  BinLogInv'
<1> DEFINE u == Upcoming
<1>0. /\ LogShape /\ BinLogTypeOK /\ OpenFile /\ LogBacks /\ logPhase = "up" /\ u <= MaxLogged
      /\ logPhase' = "write" /\ UNCHANGED <<live, flushed, recovery, everTorn>>
  BY DEF BinLogInv, LogShape, OpenForWrite
<1>1. LastOf(live) \in NoFile .. MaxLogged /\ u = LastOf(live) + 1 /\ Upcoming' = u
      /\ \A m \in live : m <= LastOf(live)
  BY <1>0, LastOfSet DEF BinLogTypeOK, Upcoming
<1>2. u \in LogBlocks /\ u \in Nat
  BY <1>0, <1>1, BinLogAssumption DEF LogBlocks, NoFile
<1> HIDE DEF u
<1>3. CASE fd # NoFile /\ UNCHANGED <<files, fd>>
  <2>1. Files' = Files /\ Logged' = Logged
    BY <1>3, SameLog
  <2>2. LogShape' /\ OpenFile' /\ LogBacks'
    BY <1>0, <1>1, <1>3, <2>1 DEF LogShape, BinLogTypeOK, OpenFile, LogBacks, u
  <2>3. ASSUME ~everTorn PROVE WholeFiles' /\ WholeDatabase' /\ WindowFits'
    <3>1. WholeFiles /\ WholeDatabase
      BY <2>3 DEF BinLogInv
    <3>2. WholeFiles'
      BY <1>0, <1>3, <2>1, <3>1 DEF WholeFiles
    <3>3. WholeDatabase' /\ WindowFits'
      BY <1>0, <1>3, <2>1, <3>1 DEF WholeDatabase, WindowFits
    <3> QED
      BY <3>2, <3>3
  <2> QED
    BY <1>0, <2>2, <2>3 DEF BinLogInv
<1>4. CASE /\ fd' = u
           /\ files' = [files EXCEPT ![u] =
                 IF @.exists THEN @ ELSE [exists |-> TRUE, last |-> u - 1, tail |-> 1]]
  <2>1. /\ files'[u].exists
        /\ \A f \in LogBlocks \ {u} : files'[f] = files[f]
        /\ files[u].exists => files'[u] = files[u]
        /\ ~files[u].exists => files'[u].last = u - 1 /\ files'[u].tail = 1
    BY <1>0, <1>2, <1>4 DEF BinLogTypeOK
  <2>2. LogShape'
    <3>1. [exists |-> TRUE, last |-> u - 1, tail |-> 1]
            \in [exists : BOOLEAN, last : NoFile .. MaxLogged, tail : 1 .. Len(Tails)]
      BY <1>0, <1>2, BinLogAssumption DEF NoFile, Tails
    <3>2. files' \in [LogBlocks -> [exists : BOOLEAN, last : NoFile .. MaxLogged,
                                    tail : 1 .. Len(Tails)]]
      BY <1>0, <1>2, <1>4, <3>1 DEF BinLogTypeOK
    <3> QED
      BY <1>0, <1>2, <1>4, <3>2 DEF LogShape, BinLogTypeOK
  <2>3. Files' = Files \cup {u} /\ (u \notin Files <=> ~files[u].exists)
    BY <1>2, <2>1, ZenonT(60) DEF Files
  <2>4. /\ \A f \in Files : files'[f] = files[f]
        /\ u \notin Files => u .. files'[u].last = {}
    <3>1. Files \subseteq LogBlocks
      BY DEF Files
    <3>2. ASSUME NEW f \in Files PROVE files'[f] = files[f]
      BY <2>1, <2>3, <3>1, ZenonT(60)
    <3>3. u .. u - 1 = {}
      BY <1>2
    <3> QED
      BY <2>1, <2>3, <3>2, <3>3, ZenonT(60)
  <2>5. Logged' = Logged
    <3>1. Logged' = UNION {f .. files'[f].last : f \in Files'}
      BY DEF Logged, Records
    <3>2. Logged = UNION {f .. files[f].last : f \in Files}
      BY DEF Logged, Records
    <3> QED
      BY <2>3, <2>4, <3>1, <3>2
  <2>6. OpenFile'
    BY <1>0, <1>1, <1>2, <1>4, <2>1 DEF OpenFile, u, NoFile
  <2>7. LogBacks'
    BY <1>0, <2>5 DEF LogBacks
  <2>8. ASSUME ~everTorn PROVE WholeFiles' /\ WholeDatabase' /\ WindowFits'
    <3>1. WholeFiles /\ WholeDatabase
      BY <2>8 DEF BinLogInv
    <3>2. \A f \in Files : f \in Int /\ files[f].last \in Int
      BY <1>0 DEF BinLogTypeOK, Files, LogBlocks, NoFile
    <3>3. ASSUME NEW f \in Files
          PROVE  f <= files[f].last /\ files[f].last < u /\ f < u
      <4>1. f <= files[f].last
        BY <1>0, <3>1 DEF WholeFiles
      <4>2. files[f].last \in Logged
        BY <3>2, <4>1 DEF Logged, Records
      <4>3. files[f].last \in live
        BY <1>0, <3>1, <4>2 DEF WholeDatabase
      <4>4. files[f].last <= LastOf(live) /\ LastOf(live) \in Int
        BY <1>1, <4>3 DEF NoFile
      <4> QED
        BY <1>1, <1>2, <3>2, <4>1, <4>4
    <3>4. u \notin Files
      BY <1>2, <3>3
    <3>5. \A f \in LogBlocks : files'[f].tail = 1
      BY <2>1, <2>3, <3>1, <3>4 DEF WholeFiles
    <3>6. \A f \in Files : files'[f] = files[f]
      BY <2>1, <3>4 DEF Files
    <3>7. ASSUME NEW f \in Files', NEW g \in Files', f < g PROVE files'[f].last < g
      <4>1. f # u
        BY <1>2, <2>3, <3>2, <3>3, <3>7
      <4> QED
        BY <2>3, <3>1, <3>3, <3>6, <3>7, <4>1 DEF WholeFiles
    <3>8. \A f \in Files' \ {fd'} : f <= files'[f].last
      BY <1>4, <2>3, <3>3, <3>6
    <3>9. WholeFiles'
      BY <1>0, <2>5, <3>1, <3>5, <3>7, <3>8 DEF WholeFiles
    <3>10. \A f \in Files' : f <= fd'
      BY <1>2, <1>4, <2>3, <3>2, <3>3
    <3>11. WholeDatabase' /\ WindowFits'
      BY <1>0, <2>5, <3>1, <3>10 DEF WholeDatabase, WindowFits
    <3> QED
      BY <3>9, <3>11
  <2> QED
    BY <1>0, <2>2, <2>6, <2>7, <2>8 DEF BinLogInv
<1> QED
  BY <1>3, <1>4 DEF OpenForWrite, u

\* Writing the block: a record that is there already is written as it was.
LEMMA WriteKeeps ==
  ASSUME BinLogInv, WriteBlockToBinLog
  PROVE  BinLogInv'
<1> DEFINE u == Upcoming
<1>0. /\ LogShape /\ BinLogTypeOK /\ OpenFile /\ LogBacks /\ logPhase = "write"
      /\ logPhase' = "commit" /\ UNCHANGED <<fd, live, flushed, recovery, everTorn>>
      /\ files' = IF u \in Records(fd) THEN files
                  ELSE [files EXCEPT ![fd].last = u, ![fd].tail = 1]
  BY DEF BinLogInv, LogShape, WriteBlockToBinLog
<1>1. LastOf(live) \in NoFile .. MaxLogged /\ u = LastOf(live) + 1 /\ Upcoming' = u
      /\ \A m \in live : m <= LastOf(live)
  BY <1>0, LastOfSet DEF BinLogTypeOK, Upcoming
<1>2. fd \in LogBlocks /\ files[fd].exists /\ fd <= u /\ u <= MaxLogged
      /\ u \in LogBlocks /\ u \in Nat /\ fd \in Nat /\ files[fd].last \in Int
  <2>1. fd # NoFile /\ u <= MaxLogged
    BY <1>0 DEF OpenFile
  <2>2. fd \in LogBlocks /\ files[fd].exists /\ fd <= u
    BY <1>0, <2>1 DEF OpenFile, BinLogTypeOK
  <2>3. files[fd].last \in NoFile .. MaxLogged
    BY <1>0, <2>2 DEF BinLogTypeOK
  <2> QED
    BY <1>1, <2>1, <2>2, <2>3, BinLogAssumption DEF LogBlocks, NoFile
<1> HIDE DEF u
<1>3. CASE u \in Records(fd)
  <2>1. files' = files
    BY <1>0, <1>3
  <2>2. Files' = Files /\ Logged' = Logged
    BY <2>1, SameLog
  <2>3. LogShape' /\ OpenFile' /\ LogBacks'
    BY <1>0, <1>1, <1>2, <1>3, <2>1, <2>2 DEF LogShape, BinLogTypeOK, OpenFile, LogBacks, Records, u
  <2>4. ASSUME ~everTorn PROVE FALSE
    <3>1. u \in Logged
      BY <1>2, <1>3 DEF Logged, Files
    <3>2. u \in live
      BY <1>0, <2>4, <3>1 DEF BinLogInv, WholeDatabase
    <3> QED
      BY <1>1, <1>2, <3>2 DEF NoFile
  <2> QED
    BY <1>0, <2>3, <2>4 DEF BinLogInv
<1>4. CASE u \notin Records(fd)
  <2>1. /\ files'[fd].exists = files[fd].exists /\ files'[fd].last = u /\ files'[fd].tail = 1
        /\ \A f \in LogBlocks \ {fd} : files'[f] = files[f]
    BY <1>0, <1>2, <1>4, ZenonT(60) DEF BinLogTypeOK
  <2>2. LogShape'
    <3>0. u \in NoFile .. MaxLogged /\ 1 \in 1 .. Len(Tails)
      BY <1>2, BinLogAssumption DEF NoFile, Tails
    <3>1. files' \in [LogBlocks -> [exists : BOOLEAN, last : NoFile .. MaxLogged,
                                    tail : 1 .. Len(Tails)]]
      BY <1>0, <1>2, <1>4, <3>0, ZenonT(60) DEF BinLogTypeOK
    <3> QED
      BY <1>0, <3>1 DEF LogShape, BinLogTypeOK
  <2>3. Files' = Files /\ fd \in Files
    BY <1>2, <2>1, ZenonT(60) DEF Files
  <2>4. /\ \A f \in Files \ {fd} : files'[f] = files[f]
        /\ fd .. files[fd].last \subseteq fd .. u
    BY <1>2, <1>4, <2>1 DEF Files, Records
  <2>5. Logged' = Logged \cup (fd .. u)
    <3>1. Logged' = UNION {f .. files'[f].last : f \in Files}
      BY <2>3 DEF Logged, Records
    <3>2. Logged = UNION {f .. files[f].last : f \in Files}
      BY DEF Logged, Records
    <3> QED
      BY <2>1, <2>3, <2>4, <3>1, <3>2
  <2>6. OpenFile'
    <3>1. fd' = fd /\ files'[fd].exists /\ Upcoming' <= MaxLogged /\ fd <= Upcoming'
          /\ Upcoming' <= files'[fd].last /\ logPhase' = "commit" /\ fd # NoFile
      <4>1. fd' = fd /\ logPhase' = "commit" /\ Upcoming' = u
        BY <1>0, <1>1
      <4>2. files'[fd].exists /\ u <= files'[fd].last /\ fd # NoFile
        BY <1>2, <2>1 DEF NoFile
      <4> QED
        BY <1>2, <4>1, <4>2
    <3> QED
      BY <3>1 DEF OpenFile
  <2>7. LogBacks'
    BY <1>0, <2>5 DEF LogBacks
  <2>8. ASSUME ~everTorn PROVE WholeFiles' /\ WholeDatabase' /\ WindowFits'
    <3>1. WholeFiles /\ WholeDatabase
      BY <2>8 DEF BinLogInv
    <3>2. live = 0 .. u - 1 /\ Logged = live
      BY <1>0, <1>1, <3>1, ZenonT(60) DEF WholeFiles, WholeDatabase, NoFile
    <3>3. Logged' = 0 .. u
      BY <1>2, <2>5, <3>2
    <3>4. \A f \in LogBlocks : files'[f].tail = 1
      BY <2>1, <3>1 DEF WholeFiles
    <3>5. \A f \in Files \ {fd} : files'[f] = files[f]
      BY <2>1 DEF Files
    <3>6. \A f \in Files : f \in Int /\ f <= fd
      BY <1>2, <3>1 DEF WholeDatabase, Files, LogBlocks, NoFile
    <3>7. ASSUME NEW f \in Files, NEW g \in Files, f < g PROVE files'[f].last < g
      <4>1. f # fd
        BY <1>2, <3>6, <3>7
      <4> QED
        BY <3>1, <3>5, <3>7, <4>1 DEF WholeFiles
    <3>8. \A f \in Files : f <= files'[f].last
      BY <1>0, <1>2, <2>1, <3>1, <3>5, ZenonT(60) DEF WholeFiles
    <3>9. \A n \in 0 .. u : 0 .. n \subseteq 0 .. u
      BY <1>2
    <3>10. live \subseteq 0 .. u /\ 0 .. u \subseteq live \cup {u}
      BY <1>2, <3>2
    <3>11. WholeFiles'
      BY <1>0, <2>3, <3>3, <3>4, <3>7, <3>8, <3>9, <3>10, ZenonT(60) DEF WholeFiles
    <3>12. WholeDatabase' /\ WindowFits'
      BY <1>0, <1>1, <2>3, <3>1, <3>3, <3>10 DEF WholeDatabase, WindowFits
    <3> QED
      BY <3>11, <3>12
  <2> QED
    BY <1>0, <2>2, <2>6, <2>7, <2>8 DEF BinLogInv
<1> QED
  BY <1>3, <1>4

\* Committing the block that has been written.
LEMMA CommitKeeps ==
  ASSUME BinLogInv, CommitLogged
  PROVE  BinLogInv'
<1> DEFINE u == Upcoming
<1>0. /\ LogShape /\ BinLogTypeOK /\ OpenFile /\ LogBacks /\ logPhase = "commit"
      /\ logPhase' = "up" /\ live' = live \cup {u}
      /\ UNCHANGED <<files, fd, flushed, recovery, everTorn>>
  BY DEF BinLogInv, LogShape, CommitLogged
<1>1. LastOf(live) \in NoFile .. MaxLogged /\ u = LastOf(live) + 1
      /\ \A m \in live : m <= LastOf(live)
  BY <1>0, LastOfSet DEF BinLogTypeOK, Upcoming
<1>2. fd \in LogBlocks /\ files[fd].exists /\ fd <= u /\ u <= files[fd].last
      /\ u \in LogBlocks /\ u \in Nat /\ fd \in Nat /\ u <= MaxLogged /\ files[fd].last \in Int
  <2>1. fd # NoFile /\ u <= MaxLogged /\ u <= files[fd].last
    BY <1>0 DEF OpenFile
  <2>2. fd \in LogBlocks /\ files[fd].exists /\ fd <= u
    BY <1>0, <2>1 DEF OpenFile, BinLogTypeOK
  <2>3. files[fd].last \in NoFile .. MaxLogged
    BY <1>0, <2>2 DEF BinLogTypeOK
  <2> QED
    BY <1>1, <2>1, <2>2, <2>3, BinLogAssumption DEF LogBlocks, NoFile
<1> HIDE DEF u
<1>3. Files' = Files /\ Logged' = Logged
  BY <1>0, SameLog
<1>4. u \in Logged
  BY <1>2 DEF Logged, Files, Records
<1>5. LastOf(live') = u
  <2>1. live' \in SUBSET LogBlocks /\ \A m \in live' : m <= u
    <3>1. live' \in SUBSET LogBlocks
      BY <1>0, <1>2 DEF BinLogTypeOK
    <3>2. \A m \in live : m \in Int
      BY <1>0 DEF BinLogTypeOK, LogBlocks
    <3>3. LastOf(live) \in Int
      BY <1>1 DEF NoFile
    <3> QED
      BY <1>0, <1>1, <1>2, <3>1, <3>2, <3>3
  <2>2. LastOf(live') \in live' /\ u <= LastOf(live')
    BY <1>0, <2>1, LastOfSet
  <2>3. LastOf(live') \in Int
    <3>1. LogBlocks \subseteq Int
      BY DEF LogBlocks
    <3> QED
      BY <2>1, <2>2, <3>1, ZenonT(60)
  <2> QED
    BY <1>2, <2>1, <2>2, <2>3
<1>6. LogShape'
  BY <1>0, <1>2 DEF LogShape, BinLogTypeOK
<1>7. OpenFile'
  <2>1. fd' = fd /\ files'[fd].exists /\ Upcoming' = u + 1 /\ logPhase' = "up"
    BY <1>0, <1>2, <1>5 DEF Upcoming
  <2>2. fd <= u + 1
    BY <1>2
  <2> QED
    BY <2>1, <2>2 DEF OpenFile
<1>8. LogBacks'
  BY <1>0, <1>3, <1>4 DEF LogBacks
<1>9. ASSUME ~everTorn PROVE WholeFiles' /\ WholeDatabase' /\ WindowFits'
  <2>1. WholeFiles /\ WholeDatabase
    BY <1>9 DEF BinLogInv
  <2>2. live' = 0 .. u
    BY <1>0, <1>1, <1>2, <2>1 DEF WholeDatabase, NoFile
  <2>3. Logged \subseteq live'
    BY <1>0, <2>1 DEF WholeDatabase, u
  <2>4. WholeFiles'
    BY <1>0, <1>3, <1>4, <2>1 DEF WholeFiles
  <2>5. WholeDatabase' /\ WindowFits'
    BY <1>0, <1>3, <1>5, <2>1, <2>2, <2>3 DEF WholeDatabase, WindowFits
  <2> QED
    BY <2>4, <2>5
<1> QED
  BY <1>0, <1>6, <1>7, <1>8, <1>9 DEF BinLogInv

\* The database writes blocks to disk in order.
LEMMA FlushKeeps ==
  ASSUME BinLogInv, FlushDatabase
  PROVE  BinLogInv'
<1>0. /\ LogShape /\ BinLogTypeOK /\ OpenFile /\ LogBacks
      /\ UNCHANGED <<files, fd, live, logPhase, recovery, everTorn>>
  BY DEF BinLogInv, LogShape, FlushDatabase
<1>1. PICK n \in live : flushed' = flushed \cup {m \in live : m <= n}
  BY DEF FlushDatabase
<1>2. Files' = Files /\ Logged' = Logged /\ Upcoming' = Upcoming
  BY <1>0, SameLog DEF Upcoming
<1>3. LogShape'
  BY <1>0, <1>1 DEF LogShape, BinLogTypeOK
<1>4. OpenFile' /\ LogBacks'
  BY <1>0, <1>1, <1>2 DEF OpenFile, LogBacks
<1>5. ASSUME ~everTorn PROVE WholeFiles' /\ WholeDatabase' /\ WindowFits'
  <2>1. WholeFiles /\ WholeDatabase /\ WindowFits
    BY <1>5 DEF BinLogInv
  <2> DEFINE l == LastOf(live)
             k == LastOf(flushed)
             e == IF k <= n THEN n ELSE k
  <2>2. l \in NoFile .. MaxLogged /\ k \in NoFile .. MaxLogged
    BY <1>0, LastOfSet DEF BinLogTypeOK
  <2>3. live = 0 .. l /\ flushed = 0 .. k
    BY <2>1 DEF WholeDatabase
  <2>4. n \in Nat /\ n <= l /\ n <= MaxLogged
    BY <2>2, <2>3, BinLogAssumption DEF NoFile
  <2> HIDE DEF l, k
  <2>5. flushed' = 0 .. e /\ e \in NoFile .. MaxLogged
    BY <1>1, <2>2, <2>3, <2>4, BinLogAssumption DEF NoFile
  <2> HIDE DEF e
  <2>6. flushed' = 0 .. LastOf(flushed')
    BY <2>5, LastOfRun
  <2>7. WholeFiles'
    BY <1>0, <1>2, <2>1 DEF WholeFiles
  <2>8. WholeDatabase'
    BY <1>0, <1>2, <2>1, <2>6 DEF WholeDatabase
  <2>9. WindowFits'
    BY <1>0, <1>2, <2>1 DEF WindowFits
  <2> QED
    BY <2>7, <2>8, <2>9
<1> QED
  BY <1>0, <1>3, <1>4, <1>5 DEF BinLogInv

\* A crash, with or without a cut record.
LEMMA CrashKeeps ==
  ASSUME BinLogInv, CrashLogged
  PROVE  BinLogInv'
<1>0. LogShape /\ BinLogTypeOK /\ OpenFile /\ Die /\ flushed' = flushed
  BY DEF BinLogInv, LogShape, CrashLogged
<1>1. CASE UNCHANGED <<files, everTorn>>
  <2>1. BinLogTypeOK'
    BY <1>0, <1>1 DEF Die, BinLogTypeOK
  <2> QED
    BY <1>0, <1>1, <2>1, DieKeeps DEF LogShape
<1>2. CASE /\ logPhase = "write" /\ everTorn' = TRUE
           /\ \E tail \in files[fd].tail .. Len(Tails) : files' = [files EXCEPT ![fd].tail = tail]
  <2>1. PICK tail \in files[fd].tail .. Len(Tails) : files' = [files EXCEPT ![fd].tail = tail]
    BY <1>2, ZenonT(60)
  <2>2. fd \in LogBlocks
    BY <1>0, <1>2 DEF OpenFile, BinLogTypeOK
  <2>3. files[fd].tail \in 1 .. Len(Tails)
    BY <1>0, <2>2 DEF BinLogTypeOK
  <2>4. tail \in 1 .. Len(Tails)
    BY <2>3 DEF Tails
  <2>5. files' \in [LogBlocks -> [exists : BOOLEAN, last : NoFile .. MaxLogged,
                                  tail : 1 .. Len(Tails)]]
    BY <1>0, <2>1, <2>2, <2>4 DEF BinLogTypeOK
  <2>6. \A f \in LogBlocks : files'[f].exists = files[f].exists /\ files'[f].last = files[f].last
    BY <1>0, <2>1, <2>2 DEF BinLogTypeOK
  <2>7. BinLogTypeOK'
    BY <1>0, <2>5 DEF Die, BinLogTypeOK
  <2> QED
    BY <1>0, <1>2, <2>6, <2>7, DieKeeps
<1> QED
  BY <1>1, <1>2, ZenonT(60) DEF CrashLogged

\* The first start of a node.
LEMMA LogStarts ==
  ASSUME BinLogInit
  PROVE  BinLogInv
<1>1. Files = {} /\ Logged = {}
  BY DEF BinLogInit, Files, NoLog, Logged
<1>2. LogShape
  <2>1. NoLog \in [exists : BOOLEAN, last : NoFile .. MaxLogged, tail : 1 .. Len(Tails)]
    BY BinLogAssumption DEF NoLog, NoFile, Tails
  <2>2. NoRecovery \in [num: Int, last: Int, i: Nat \ {0}, data: SUBSET LogBlocks]
    BY DEF NoRecovery, NoFile
  <2> QED
    BY <2>1, <2>2, ZenonT(60) DEF BinLogInit, LogShape, BinLogTypeOK
<1>3. OpenFile /\ LogBacks
  BY DEF BinLogInit, OpenFile, LogBacks
<1>4. LastOf({}) = NoFile
  BY LastOfSet
<1>5. {} = 0 .. NoFile
  BY DEF NoFile
<1>6. WholeFiles
  BY <1>1 DEF BinLogInit, WholeFiles, NoLog
<1>7. WholeDatabase /\ WindowFits
  BY <1>4, <1>5 DEF BinLogInit, WholeDatabase, WindowFits
<1> QED
  BY <1>2, <1>3, <1>6, <1>7 DEF BinLogInv

\* Every step keeps the invariant.
LEMMA LogSteps ==
  ASSUME BinLogInv, [BinLogNext]_logVars
  PROVE  BinLogInv'
<1>1. CASE UNCHANGED logVars
  <2>0. UNCHANGED <<files, fd, live, flushed, logPhase, recovery, everTorn>>
    BY <1>1 DEF logVars
  <2>1. Files' = Files /\ Logged' = Logged /\ Upcoming' = Upcoming
    BY <2>0, SameLog DEF Upcoming
  <2>2. LogShape' = LogShape
    BY <2>0 DEF LogShape, BinLogTypeOK
  <2>3. OpenFile' = OpenFile /\ LogBacks' = LogBacks
    BY <2>0, <2>1 DEF OpenFile, LogBacks
  <2>4. WholeFiles' = WholeFiles
    BY <2>0, <2>1 DEF WholeFiles
  <2>5. WholeDatabase' = WholeDatabase
    BY <2>0, <2>1 DEF WholeDatabase
  <2>6. WindowFits' = WindowFits
    BY <2>0, <2>1 DEF WindowFits
  <2> QED
    BY <2>0, <2>2, <2>3, <2>4, <2>5, <2>6 DEF BinLogInv
<1> QED
  BY <1>1, StartKeeps, RecoverKeeps, BlockKeeps, NextKeeps, OpenKeeps, WriteKeeps,
     CommitKeeps, FlushKeeps, CrashKeeps DEF BinLogNext

\* The invariant says what recovery promises.
LEMMA LogIntact ==
  ASSUME BinLogInv
  PROVE  RecoveredIntact
<1>1. ASSUME NEW n \in live \ flushed PROVE \E f \in Files : n \in Records(f)
  BY DEF BinLogInv, LogBacks, Logged
<1>2. ~everTorn => /\ live = 0 .. LastOf(live) /\ flushed = 0 .. LastOf(flushed)
                   /\ logPhase = "up" => Logged \subseteq live
  BY DEF BinLogInv, WholeDatabase
<1> QED
  BY <1>1, <1>2 DEF RecoveredIntact

\* For logs of any length, windows of any size and any sequence of crashes,
\* in recovery too: without a cut record the database has no gap and a node
\* that is up has every block that was logged; with one as well, what a crash
\* would take from the database is complete in the log.
THEOREM RecoveryIsIntact == BinLogSpec => []RecoveredIntact
<1>1. BinLogInit => BinLogInv
  BY LogStarts
<1>2. BinLogInv /\ [BinLogNext]_logVars => BinLogInv'
  BY LogSteps
<1>3. BinLogInv => RecoveredIntact
  BY LogIntact
<1> QED
  BY <1>1, <1>2, <1>3, PTL DEF BinLogSpec
=============================================================================
