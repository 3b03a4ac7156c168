----------------------------- MODULE BlockSync -----------------------------
(***************************************************************************)
(* Block synchronisation (libsync): one node that may be behind, its       *)
(* download thread and its queues, and the peers that serve it blocks.     *)
(*                                                                         *)
(* A block is its number: committed chains do not fork, so that parent     *)
(* hashes agree.  Every block weighs one unit of queue memory.  Time is    *)
(* abstract: a request is outstanding until the answer has been committed  *)
(* or its timeout has passed.                                              *)
(***************************************************************************)
EXTENDS Integers, Sequences, FiniteSets, SequencesExt, FiniteSetsExt

CONSTANTS Peers,             \* the other members of the group
          MaxHeight,         \* bound: highest block of the instance
          InitHead,          \* the chain every peer starts with
          FirstRequestBlocks, \* initial value of m_maxRequestBlocks
          MaxRequestBlocks,  \* c_maxRequestBlocks
          MaxRequestShards,  \* c_maxRequestShards
          RequestLimit,      \* c_maxReceivedDownloadRequestPerPeer
          MaxQueueMemory,    \* m_maxBlockQueueSize
          Word,              \* 2^64: the range of size_t
          MaxFaults          \* bound: lost sessions, failed executions, seals

VARIABLES number,        \* m_blockChain->number() of this node
          sealing,       \* m_currentSealingNumber
          state,         \* SyncMasterStatus::state
          peerNumber,    \* m_peersStatus: the number a known peer reported
          known,         \* knownHighestNumber
          waiting,       \* the last request turn has not timed out
          maxRequest,    \* m_maxRequestNumber
          step,          \* where the download thread is
          buffer,        \* m_buffer: packets of blocks, in order of arrival
          blocks,        \* m_blocks: the priority queue, sorted
          queueSize,     \* m_blockQueueSize
          average,       \* m_averageBlockSize: 0 until a block was measured
          head,          \* number of each peer
          link,          \* the peers this node has a session with
          requests,      \* reqQueue that each peer keeps for this node
          wire,          \* messages in flight
          faults         \* faults so far

queueVars == <<buffer, blocks, queueSize, average>>
peerVars  == <<head, link, requests>>
selfVars  == <<number, sealing, state, peerNumber, known, waiting, maxRequest, step>>
vars      == <<selfVars, queueVars, peerVars, wire, faults>>

\* c_maxDownloadingBlockQueueSize, c_maxDownloadingBlockQueueBufferSize
QueueLimit  == MaxRequestShards * MaxRequestBlocks * 2
BufferLimit == QueueLimit

Unknown == -1
Block   == 1 .. MaxHeight

Request(p, from, size) ==
  [type |-> "request", peer |-> p, range |-> [from |-> from, size |-> size]]
Packet(p, bs)      == [type |-> "blocks", peer |-> p, blocks |-> bs]

Known == {p \in Peers : peerNumber[p] # Unknown}
Top   == IF blocks = <<>> THEN MaxHeight + 2 ELSE Head(blocks)

Init ==
  /\ number = 0 /\ sealing = 0 /\ state = "Idle" /\ known = 0
  /\ peerNumber = [p \in Peers |-> Unknown]
  /\ waiting = FALSE /\ maxRequest = 0 /\ step = "buffer"
  /\ buffer = <<>> /\ blocks = <<>> /\ queueSize = 0 /\ average = 0
  /\ head = InitHead /\ link = Peers
  /\ requests = [p \in Peers |-> <<>>]
  /\ wire = {} /\ faults = 0

-----------------------------------------------------------------------------
(* Consensus and the network, as this code sees them. *)

\* Another node commits a block by consensus.
PeerCommit(p) ==
  /\ head[p] < MaxHeight
  /\ head' = [head EXCEPT ![p] = @ + 1]
  /\ UNCHANGED <<selfVars, queueVars, link, requests, wire, faults>>

\* This node starts to execute a block of the running round:
\* noteSealingBlockNumber keeps the download thread off that number.
StartSealing ==
  /\ faults < MaxFaults /\ sealing = number
  /\ number < MaxHeight
  /\ sealing' = number + 1
  /\ faults' = faults + 1
  /\ UNCHANGED <<number, state, peerNumber, known, waiting, maxRequest, step,
                 queueVars, peerVars, wire>>

\* The round ends: the block is committed, or given up.
EndSealing(committed) ==
  /\ sealing > number
  /\ number' = IF committed THEN number + 1 ELSE number
  /\ sealing' = number'
  /\ UNCHANGED <<state, peerNumber, known, waiting, maxRequest, step,
                 queueVars, peerVars, wire, faults>>

\* A session breaks: what is on it is lost, and the peer's
\* maintainPeersConnection drops this node with the requests queued for it.
Disconnect(p) ==
  /\ faults < MaxFaults /\ p \in link
  /\ link' = link \ {p}
  /\ wire' = {m \in wire : m.peer # p}
  /\ requests' = [requests EXCEPT ![p] = <<>>]
  /\ faults' = faults + 1
  /\ UNCHANGED <<selfVars, queueVars, head>>

Reconnect(p) ==
  /\ p \notin link
  /\ link' = link \cup {p}
  /\ UNCHANGED <<selfVars, queueVars, head, requests, wire, faults>>

InFlight == wire # {} \/ buffer # <<>> \/ \E p \in Peers : requests[p] # <<>>

\* Mutant: a lost answer is waited for
NoTimeout == FALSE /\ UNCHANGED vars

\* The timeout of the request turn passes: after the answers were lost, or
\* (a fault) while some of them are still on their way.
RequestTimeout ==
  /\ waiting
  /\ InFlight => faults < MaxFaults
  /\ faults' = IF InFlight THEN faults + 1 ELSE faults
  /\ waiting' = FALSE
  /\ UNCHANGED <<number, sealing, state, peerNumber, known, maxRequest, step,
                 queueVars, peerVars, wire>>

-----------------------------------------------------------------------------
(* The peer: requests and answers. *)

\* DownloadRequestQueue::push drops a request when the queue is full.
PushRequest(q, r) == IF Len(q) >= RequestLimit THEN q ELSE Append(q, r)

\* onPeerRequestBlocks
OnPeerRequestBlocks(m) ==
  /\ m \in wire /\ m.type = "request"
  /\ wire' = wire \ {m}
  /\ requests' = [requests EXCEPT ![m.peer] = PushRequest(@, m.range)]
  /\ UNCHANGED <<selfVars, queueVars, head, link, faults>>

\* RequestQueueCmp: increasing by first block, decreasing by size.
Sorted(q) ==
  SortSeq(q, LAMBDA a, b : \/ a.from < b.from
                           \/ a.from = b.from /\ a.size > b.size)

\* Mutant: a request that continues the first one is not merged
TopAndPopOverlapping(q) ==
  FoldLeft(LAMBDA acc, r :
             IF acc.size = 0 \/ acc.from + acc.size > r.from
             THEN [acc EXCEPT !.size = Max({@, r.from + r.size - acc.from})]
             ELSE [acc EXCEPT !.rest = Append(@, r)],
           [from |-> Sorted(q)[1].from, size |-> 0, rest |-> <<>>],
           Sorted(q))

\* DownloadRequestQueue::topAndPop merges the requests that continue or
\* overlap the first one.
TopAndPop(q) ==
  FoldLeft(LAMBDA acc, r :
             IF acc.from + acc.size >= r.from
             THEN [acc EXCEPT !.size = Max({@, r.from + r.size - acc.from})]
             ELSE [acc EXCEPT !.rest = Append(@, r)],
           [from |-> Sorted(q)[1].from, size |-> 0, rest |-> <<>>],
           Sorted(q))

\* maintainBlockRequest: one merged range is answered as far as blocks exist
\* and the time and bandwidth limits (sent) allow; the rest goes back.
MaintainBlockRequest(p) ==
  /\ requests[p] # <<>>
  /\ LET top  == TopAndPop(requests[p])
         have == Max({0, Min({top.size, head[p] - top.from + 1})})
     IN \E sent \in 0 .. have :
          /\ requests' = [requests EXCEPT ![p] =
               IF sent < top.size
               THEN PushRequest(top.rest, [from |-> top.from + sent,
                                           size |-> top.size - sent])
               ELSE top.rest]
          /\ wire' = IF sent = 0 THEN wire
                     ELSE wire \cup {Packet(p, [i \in 1 .. sent |-> top.from + i - 1])}
          /\ <<requests', wire'>> # <<requests, wire>>
  /\ UNCHANGED <<selfVars, queueVars, head, link, faults>>

-----------------------------------------------------------------------------
(* Message handlers of this node. *)

\* onPeerStatus: an unknown peer is added only if it is ahead; a known one
\* is overwritten with whatever the packet says.  Peers repeat their status;
\* a packet that was overtaken by a later one (a fault) brings an old number.
OnPeerStatus(p, n) ==
  /\ p \in link /\ peerNumber[p] # n
  /\ n # head[p] => n \in InitHead[p] .. head[p] /\ faults < MaxFaults
  /\ faults' = IF n = head[p] THEN faults ELSE faults + 1
  /\ peerNumber' = [peerNumber EXCEPT ![p] =
                      IF @ = Unknown /\ n <= number THEN @ ELSE n]
  /\ UNCHANGED <<number, sealing, state, known, waiting, maxRequest, step,
                 queueVars, peerVars, wire>>

\* onPeerBlocks: DownloadingBlockQueue::push drops the packet when the buffer
\* is full.
OnPeerBlocks(m) ==
  /\ m \in wire /\ m.type = "blocks"
  /\ wire' = wire \ {m}
  /\ buffer' = IF Len(buffer) >= BufferLimit THEN buffer ELSE Append(buffer, m.blocks)
  /\ UNCHANGED <<selfVars, blocks, queueSize, average, peerVars, faults>>

\* maintainPeersConnection: only an outsider that is not ahead is deleted; a
\* new member starts with number 0.
MaintainPeersConnection ==
  /\ peerNumber' = [p \in Peers |->
       IF p \notin link /\ peerNumber[p] <= number THEN Unknown
       ELSE IF p \in link /\ peerNumber[p] = Unknown THEN 0
       ELSE peerNumber[p]]
  /\ peerNumber' # peerNumber
  /\ UNCHANGED <<number, sealing, state, known, waiting, maxRequest, step,
                 queueVars, peerVars, wire, faults>>

-----------------------------------------------------------------------------
(* The download thread: buffer, then queue, then requests, and again. *)

\* clearQueue empties the queue and leaves m_blockQueueSize as it is.
ClearQueue == blocks' = <<>> /\ UNCHANGED <<queueSize, average>>

\* flushBufferToQueue: packets are decoded until one finds the queue full;
\* that packet has already left the buffer.  isNewerBlock drops old blocks.
Flush(start) ==
  FoldLeft(LAMBDA acc, packet :
             IF acc.full THEN [acc EXCEPT !.buffer = Append(@, packet)]
             ELSE IF Len(acc.blocks) >= QueueLimit THEN [acc EXCEPT !.full = TRUE]
             ELSE [acc EXCEPT !.blocks = @ \o
                     SelectSeq(packet, LAMBDA b : b > number)],
           [blocks |-> start, buffer |-> <<>>, full |-> FALSE],
           buffer)

\* clearFullQueueIfNotHas compares the size with the limit for equality.
Blocked == Len(blocks) = QueueLimit /\ Top > number + 1

MaintainDownloadingQueueBuffer ==
  /\ step = "buffer"
  /\ step' = IF state = "Idle" THEN "request" ELSE "enter"
  /\ IF state = "Idle"
     THEN buffer' = <<>> /\ ClearQueue
     ELSE LET start == IF Blocked THEN <<>> ELSE blocks
              after == Flush(start)
          IN /\ buffer' = after.buffer
             /\ blocks' = SortSeq(after.blocks, <)
             /\ queueSize' = queueSize + Len(after.blocks) - Len(start)
             /\ average' = IF Len(after.blocks) > Len(start) THEN 1 ELSE average
  /\ UNCHANGED <<number, sealing, state, peerNumber, known, waiting, maxRequest,
                 peerVars, wire, faults>>

\* maintainDownloadingQueue, entry: nothing to do once the node is level.
DownloadingQueueEnter ==
  /\ step = "enter"
  /\ IF number >= known
     THEN /\ buffer' = <<>> /\ ClearQueue
          /\ state' = "Idle" /\ step' = "request"
     ELSE /\ step' = "pop" /\ UNCHANGED <<queueVars, state>>
  /\ UNCHANGED <<number, sealing, peerNumber, known, waiting, maxRequest,
                 peerVars, wire, faults>>

\* Mutant: a block that failed stays in the queue
KeepFailedBlock(ok) ==
  /\ step = "pop" /\ Top <= number + 1
  /\ ok \/ faults < MaxFaults
  /\ faults' = IF ok THEN faults ELSE faults + 1
  /\ number' = IF ok /\ Top = number + 1 THEN number + 1 ELSE number
  /\ blocks' = IF ok THEN Tail(blocks) ELSE blocks
  /\ queueSize' = queueSize - 1
  /\ UNCHANGED <<sealing, state, peerNumber, known, waiting, maxRequest, step,
                 buffer, average, peerVars, wire>>

\* One turn of its loop: the next block is executed and committed, which may
\* fail; whatever happened, the block leaves the queue.
DownloadingQueuePop(ok) ==
  /\ step = "pop" /\ Top <= number + 1
  /\ ok \/ faults < MaxFaults
  /\ faults' = IF ok THEN faults ELSE faults + 1
  /\ number' = IF ok /\ Top = number + 1 THEN number + 1 ELSE number
  /\ blocks' = Tail(blocks)
  /\ queueSize' = queueSize - 1
  /\ UNCHANGED <<sealing, state, peerNumber, known, waiting, maxRequest, step,
                 buffer, average, peerVars, wire>>

\* Its end: ask again at once when this turn's blocks are in, leave the
\* Downloading state when the highest known block is in.
DownloadingQueueExit ==
  /\ step = "pop" /\ Top > number + 1
  /\ waiting' = (waiting /\ number < maxRequest)
  /\ state' = IF number >= known THEN "Idle" ELSE state
  /\ step' = "request"
  /\ UNCHANGED <<number, sealing, peerNumber, known, maxRequest,
                 queueVars, peerVars, wire, faults>>

\* adjustMaxRequestBlocks.  The division is one of size_t, so that a queue
\* above its memory limit has a huge free size.
AdjustMaxRequestBlocks ==
  LET free == (MaxQueueMemory - queueSize) % Word
      most == free \div (average * MaxRequestShards)
  IN IF average = 0 THEN FirstRequestBlocks
     ELSE IF most > MaxRequestBlocks THEN MaxRequestBlocks
     ELSE Max({1, most})

\* Mutant: every known peer is asked
AllKnown(highest) == Known

\* maintainPeersStatus asks only peers that have the highest known block.
Sources(highest) == {p \in Peers : peerNumber[p] = highest}

\* The ranges of one request turn, shard by shard.
Shards(last, size) ==
  [i \in 1 .. Min({MaxRequestShards, (last - number + size - 1) \div size}) |->
     [from |-> number + 1 + (i - 1) * size,
      size |-> Min({size, last - (number + (i - 1) * size)})]]

\* foreachPeerRandom: each pass over the sources gives every one of them at
\* most one shard.
Assignments(count, sources) ==
  {f \in [1 .. count -> sources] :
     \A i, j \in 1 .. count :
       /\ i < j
       /\ (i - 1) \div Cardinality(sources) = (j - 1) \div Cardinality(sources)
       => f[i] # f[j]}

MaintainPeersStatus ==
  /\ step = "request"
  /\ step' = "buffer"
  /\ LET maxPeer == Max({0} \cup {peerNumber[p] : p \in Peers})
         last    == Min({maxPeer, Top - 1})
         size    == AdjustMaxRequestBlocks
         shards  == Shards(last, size)
     IN \/ /\ state = "Downloading" /\ waiting
           /\ UNCHANGED <<known, state, waiting, maxRequest, wire>>
        \/ /\ ~ (state = "Downloading" /\ waiting)
           /\ known' = Max({maxPeer, number})
           /\ IF maxPeer <= number \/ maxPeer <= sealing
              THEN UNCHANGED <<state, waiting, maxRequest, wire>>
              ELSE /\ waiting' = TRUE
                   /\ state' = "Downloading"
                   /\ IF number >= last
                      THEN UNCHANGED <<maxRequest, wire>>
                      ELSE \E f \in Assignments(Len(shards), Sources(maxPeer)) :
                             /\ maxRequest' =
                                  Max({shards[i].from + shards[i].size - 1 :
                                         i \in DOMAIN shards})
                             /\ wire' = wire \cup
                                  {Request(f[i], shards[i].from, shards[i].size) :
                                     i \in {j \in DOMAIN shards : f[j] \in link}}
  /\ UNCHANGED <<number, sealing, peerNumber, buffer, blocks, queueSize, average,
                 peerVars, faults>>

-----------------------------------------------------------------------------
Thread == \/ MaintainDownloadingQueueBuffer
          \/ DownloadingQueueEnter
          \/ DownloadingQueuePop(TRUE)
          \/ DownloadingQueueExit
          \/ MaintainPeersStatus

Next ==
  \/ Thread
  \/ DownloadingQueuePop(FALSE)
  \/ MaintainPeersConnection
  \/ RequestTimeout
  \/ StartSealing
  \/ \E committed \in BOOLEAN : EndSealing(committed)
  \/ \E m \in wire : OnPeerBlocks(m) \/ OnPeerRequestBlocks(m)
  \/ \E p \in Peers : \/ PeerCommit(p) \/ Disconnect(p) \/ Reconnect(p)
                      \/ MaintainBlockRequest(p)
                      \/ \E n \in 0 .. MaxHeight : OnPeerStatus(p, n)

Spec == Init /\ [][Next]_vars

\* The sync worker wakes at least every idleWaitMs and runs its tasks; the
\* peers do the same and repeat their status every c_maintainBlocksTimeout;
\* sessions are re-established by the host; a round of consensus ends by
\* commit or by view change.
Peer(p) ==
  \/ Reconnect(p)
  \/ OnPeerStatus(p, head[p])
  \/ MaintainBlockRequest(p)
  \/ \E m \in wire : m.peer = p /\ (OnPeerBlocks(m) \/ OnPeerRequestBlocks(m))

Fairness ==
  /\ WF_vars(Thread)
  /\ WF_vars(MaintainPeersConnection)
  /\ WF_vars(RequestTimeout)
  /\ WF_vars(\E committed \in BOOLEAN : EndSealing(committed))
  /\ WF_vars(\E p \in Peers : Peer(p))

FairSpec == Spec /\ Fairness

-----------------------------------------------------------------------------
\* Every variable has its type: the numbers stay within the heights that exist,
\* whatever is downloaded.  m_blockQueueSize may be too large (clearQueue does
\* not reset it) but never counts less than the queue holds, so that taking
\* blocks out never makes it negative.
TypeOK ==
  /\ number \in 0 .. MaxHeight /\ sealing \in 0 .. MaxHeight
  /\ state \in {"Idle", "Downloading"}
  /\ peerNumber \in [Peers -> {Unknown} \cup 0 .. MaxHeight]
  /\ known \in 0 .. MaxHeight /\ maxRequest \in 0 .. MaxHeight
  /\ waiting \in BOOLEAN
  /\ step \in {"buffer", "enter", "pop", "request"}
  /\ \A i \in DOMAIN buffer : \A j \in DOMAIN buffer[i] : buffer[i][j] \in Block
  /\ \A i \in DOMAIN blocks : blocks[i] \in Block
  /\ queueSize \in Nat /\ Len(blocks) <= queueSize /\ average \in {0, 1}

\* No peer is asked for a block it does not have, so that
\* getBlockRLPByNumber never fails in maintainBlockRequest: a request goes
\* to a peer that reported the highest number, and numbers only grow.
AskedBlocksExist ==
  \A p \in Peers :
    /\ \A i \in DOMAIN requests[p] :
         requests[p][i].from + requests[p][i].size - 1 <= head[p]
    /\ \A m \in wire :
         m.type = "request" /\ m.peer = p => m.range.from + m.range.size - 1 <= head[p]

\* topAndPop serves exactly the longest run of requested blocks that starts
\* at the lowest one, and leaves every other request.
Covered(q, b) == \E i \in DOMAIN q : b \in q[i].from .. q[i].from + q[i].size - 1
MergeExact ==
  \A p \in Peers : requests[p] # <<>> =>
    LET q    == requests[p]
        top  == TopAndPop(q)
        low  == Min({q[i].from : i \in DOMAIN q})
        run  == {b \in Block : b >= low /\ \A c \in low .. b : Covered(q, c)}
    IN /\ top.from .. top.from + top.size - 1 = run
       /\ {b \in Block : Covered(top.rest, b)} = {b \in Block : Covered(q, b)} \ run

\* A node that is behind gets level with its peers and leaves the
\* Downloading state, whatever was lost, delayed or failed on the way.
CatchesUp == <>[](state = "Idle" /\ \A p \in Peers : head[p] <= number)
=============================================================================
