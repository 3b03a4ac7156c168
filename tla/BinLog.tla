-------------------------------- MODULE BinLog --------------------------------
(***************************************************************************)
(* The binary log of a node's storage, and recovery from it.  Every block   *)
(* is appended to a log file before it is committed to the database.  With  *)
(* the log on, RocksDB keeps no log of its own: a crash takes the database  *)
(* back to its last flush.  At the next start the blocks that were lost are *)
(* read from the log files and committed again.                            *)
(*                                                                         *)
(* A log file is named after its first block and holds consecutive blocks;  *)
(* a crash in the middle of a write leaves a prefix of the next record.    *)
(* The same block has the same encoding each time it is written, which is   *)
(* what opening an existing file without truncating it relies on.           *)
(***************************************************************************)
EXTENDS Integers, Sequences, FiniteSets

CONSTANTS
  Interval,   \* blocks recovered in one go
  MaxLogged   \* bound: the highest block

ASSUME BinLogAssumption == Interval \in Nat \ {0} /\ MaxLogged \in Nat

VARIABLES
  files,    \* the log files by name
  fd,       \* the file that is open, or NoFile
  live,     \* the blocks in the database as the process sees it
  flushed,  \* the blocks of it that are on disk
  logPhase, \* where the process is
  recovery, \* the loop of recoverFromBinaryLog
  everTorn  \* history: a crash cut a record

logVars == <<files, fd, live, flushed, logPhase, recovery, everTorn>>

LogBlocks == 0 .. MaxLogged
NoFile == -1

\* How much of the record after the last complete one is there: nothing, less
\* than its length field, less than its block number, or more
Tails == <<"none", "stub", "short", "long">>

NoLog == [exists |-> FALSE, last |-> NoFile, tail |-> 1]
NoRecovery == [num |-> NoFile, last |-> NoFile, i |-> 1, data |-> {}]

Files == {f \in LogBlocks : files[f].exists}

\* The complete records of file f
Records(f) == f .. files[f].last

\* getBlockNumberFromStorage
LastOf(blocks) == CHOOSE n \in blocks \union {NoFile} : \A m \in blocks : m <= n

BinLogInit ==
  /\ files = [f \in LogBlocks |-> NoLog] /\ fd = NoFile
  /\ live = {} /\ flushed = {}
  /\ logPhase = "down" /\ recovery = NoRecovery
  /\ everTorn = FALSE

-----------------------------------------------------------------------------
(* Start and recovery                                                       *)

\* A file that got no more than its version is removed
CheckBinLogSize ==
  [f \in LogBlocks |-> IF files[f].tail = 1 /\ Records(f) = {} THEN NoLog ELSE files[f]]

\* getFirstBlockNumInBinLog returns the name
Readable(f) == Records(f) # {} \/ Tails[files[f].tail] = "long"

Newest == LastOf(Files)

\* 0 when the newest file has no complete record, and an error, -1, when there
\* is less than a length field at its end
GetLastBlockNum ==
  IF Files = {} \/ Tails[files[Newest].tail] = "stub" THEN -1
  ELSE IF Records(Newest) = {} THEN 0 ELSE files[Newest].last

\* Mutant: the scan stops before the file that startNum falls into
ScannedNewer(startNum) == {f \in Files : f > startNum}

\* The files newer than startNum, and the one it falls into
Scanned(startNum) ==
  {f \in Files : \A g \in Files : g > f => g > startNum}

GetMissingBlocksFromBinLog(startNum, endNum) ==
  {n \in startNum + 1 .. endNum : \E f \in Scanned(startNum) : n \in Records(f)}

Die == live' = flushed /\ fd' = NoFile /\ logPhase' = "down" /\ recovery' = NoRecovery

\* The loop's next window, at num
RecoverWindow(num, last) ==
  IF \A f \in Scanned(num) : Readable(f)
  THEN /\ recovery' = [num |-> num, last |-> last, i |-> 1,
                       data |-> GetMissingBlocksFromBinLog(num, num + Interval)]
       /\ logPhase' = "recover"
       /\ UNCHANGED <<live, fd>>
  ELSE Die

StartNode ==
  /\ logPhase = "down"
  /\ files' = CheckBinLogSize
  /\ logPhase' = "open"
  /\ UNCHANGED <<fd, live, flushed, recovery, everTorn>>

\* initTableFactory2 throws when the newest file's first block cannot be read:
\* the node does not come up
RecoverFromBinaryLog ==
  LET startNum == LastOf(live)
  IN  /\ logPhase = "open"
      /\ Files # {} => Readable(Newest)
      /\ IF startNum >= GetLastBlockNum
         THEN logPhase' = "up" /\ UNCHANGED <<fd, live, recovery>>
         ELSE RecoverWindow(startNum, GetLastBlockNum)
      /\ UNCHANGED <<files, flushed, everTorn>>

\* A block that is not there is a FATAL log, which aborts the process
RecoverBlock ==
  /\ logPhase = "recover" /\ recovery.i <= Cardinality(recovery.data)
  /\ LET n == recovery.num + recovery.i
     IN  IF n \in recovery.data
         THEN /\ live' = live \union {n}
              /\ recovery' = [recovery EXCEPT !.i = @ + 1]
              /\ UNCHANGED <<fd, logPhase>>
         ELSE Die
  /\ UNCHANGED <<files, flushed, everTorn>>

NextWindow ==
  /\ logPhase = "recover" /\ recovery.i > Cardinality(recovery.data)
  /\ IF recovery.num + Interval <= recovery.last
     THEN RecoverWindow(recovery.num + Interval, recovery.last)
     ELSE logPhase' = "up" /\ recovery' = NoRecovery /\ UNCHANGED <<fd, live>>
  /\ UNCHANGED <<files, flushed, everTorn>>

-----------------------------------------------------------------------------
(* BinaryLogStorage::commit of the next block                               *)
Upcoming == LastOf(live) + 1

\* The first write of a process, and one that would exceed the size limit,
\* opens a file named after the block; it may exist from an earlier run
OpenForWrite ==
  /\ logPhase = "up" /\ Upcoming <= MaxLogged
  /\ \/ fd # NoFile /\ UNCHANGED <<files, fd>>
     \/ /\ fd' = Upcoming
        /\ files' = [files EXCEPT ![Upcoming] =
             IF @.exists THEN @ ELSE [exists |-> TRUE, last |-> Upcoming - 1, tail |-> 1]]
  /\ logPhase' = "write"
  /\ UNCHANGED <<live, flushed, recovery, everTorn>>

WriteBlockToBinLog ==
  /\ logPhase = "write"
  /\ files' = IF Upcoming \in Records(fd) THEN files
              ELSE [files EXCEPT ![fd].last = Upcoming, ![fd].tail = 1]
  /\ logPhase' = "commit"
  /\ UNCHANGED <<fd, live, flushed, recovery, everTorn>>

CommitLogged ==
  /\ logPhase = "commit"
  /\ live' = live \union {Upcoming}
  /\ logPhase' = "up"
  /\ UNCHANGED <<files, fd, flushed, recovery, everTorn>>

-----------------------------------------------------------------------------
(* The database and the machine                                             *)
FlushDatabase ==
  /\ \E n \in live : flushed' = flushed \union {m \in live : m <= n}
  /\ flushed' # flushed
  /\ UNCHANGED <<files, fd, live, logPhase, recovery, everTorn>>

\* A crash; the record being written may be cut anywhere
CrashLogged ==
  /\ logPhase # "down"
  /\ \/ UNCHANGED <<files, everTorn>>
     \/ /\ logPhase = "write" /\ Upcoming \notin Records(fd)
        /\ \E tail \in files[fd].tail .. Len(Tails) : files' = [files EXCEPT ![fd].tail = tail]
        /\ everTorn' = TRUE
  /\ Die
  /\ UNCHANGED flushed

BinLogNext ==
  \/ StartNode \/ RecoverFromBinaryLog \/ RecoverBlock \/ NextWindow
  \/ OpenForWrite \/ WriteBlockToBinLog \/ CommitLogged
  \/ FlushDatabase \/ CrashLogged

BinLogSpec == BinLogInit /\ [][BinLogNext]_logVars

-----------------------------------------------------------------------------
\* Every variable has its type.
BinLogTypeOK ==
  /\ files \in [LogBlocks -> [exists : BOOLEAN, last : NoFile .. MaxLogged, tail : 1 .. Len(Tails)]]
  /\ fd \in LogBlocks \union {NoFile}
  /\ live \subseteq LogBlocks /\ flushed \subseteq live
  /\ logPhase \in {"down", "open", "recover", "up", "write", "commit"}

Logged == UNION {Records(f) : f \in Files}

\* As long as no crash cut a record, and wherever else the process died, in
\* recovery too: the database never misses a block below one that it has, and
\* a node that is up again has every block that was logged.  Torn record or
\* not, "write block data to binlog before commit data": a block that a crash
\* would take from the database is complete in the log.
RecoveredIntact ==
  /\ ~everTorn => /\ live = 0 .. LastOf(live)
                  /\ flushed = 0 .. LastOf(flushed)
                  /\ logPhase = "up" => Logged \subseteq live
  /\ \A n \in live \ flushed : \E f \in Files : n \in Records(f)
===============================================================================
