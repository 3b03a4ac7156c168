------------------------------ MODULE Leaderless ------------------------------
(***************************************************************************)
(* The leaderless round ("4nl", for none leader) that PBFTEngine runs in   *)
(* place of leader-based PBFT.  In round r each sealer proposes a          *)
(* sub-block of its own, every node signs and then commits every sub-block *)
(* it hears of, and a node that holds the scheduled number of sub-blocks,  *)
(* each with enough signatures and commits, merges them into one block     *)
(* and appends it to its chain.                                            *)
(*                                                                         *)
(* Three threads of a node interleave here: the PBFT worker (message       *)
(* handlers and checkTimeout, under m_mutex), the sealer thread (doWork,   *)
(* under x_sealing) and the timeout callback, which the worker runs after  *)
(* releasing m_mutex and which needs x_sealing.                            *)
(***************************************************************************)
EXTENDS Sealers, Sequences

CONSTANTS
  Txs,            \* the transactions
  Holders,        \* nodes whose pools the transactions have reached
  MaxBlockTxs,    \* maxBlockCanSeal()
  StartRound,     \* the round every node has saved when the model starts
  Stage1, Stage2, Stage3,      \* rounds at which the schedule changes
  Seal0, Seal1, Seal2, Seal3,  \* sealers per round in each stage
  MaxTTL,         \* 1: full mesh with TTL optimisation; 2: TTL forwarding
  MaxRound,       \* bound: a node's sealer thread stops at this height
  MaxCommitFails, \* bound on failing commitBlock calls, per node
  MaxRestarts,    \* bound on restarts, per node
  TimeoutNodes,    \* bound: nodes whose view timer may expire
  ViewChangeNodes, \* bound: nodes that may see a view change succeed
  Down             \* nodes that never take a step

ASSUME ConstantAssumption ==
  /\ MaxBlockTxs \in Nat /\ StartRound \in Nat /\ MaxRound \in Nat
  /\ Stage1 \in Nat /\ Stage2 \in Nat /\ Stage3 \in Nat
  /\ Stage1 <= Stage2 /\ Stage2 <= Stage3
  /\ {Seal0, Seal1, Seal2, Seal3} \subseteq Nat \ {0}
  /\ MaxTTL \in {1, 2} /\ MaxCommitFails \in Nat /\ MaxRestarts \in Nat
  /\ Holders \subseteq Nodes

VARIABLES
  node,    \* per node: chain, caches, globals of PBFTEngine.cpp, sealer state
  inbox,   \* per node: messages on their way to it or in its m_msgQueue
  sent     \* history: every vote and proposal ever broadcast

vars == <<node, inbox, sent>>

\* getLeader().second when there is no leader (MAXIDX)
NoLeader == N

-----------------------------------------------------------------------------
(***************************************************************************)
(* Data.  A proposal stands for a PrepareReq4nl and for its block_hash: two *)
(* proposals are equal exactly when their hashes are.  Within one life of  *)
(* a node they differ in transactions, which it drops from its pool when   *)
(* it seals; across a restart the header's timestamp tells them apart.  A  *)
(* vote names the proposal and the node whose key signed it.               *)
(***************************************************************************)
Proposal == [round : Nat, idx : Nodes, txs : SUBSET Txs, life : Nat]

Vote == [p : Proposal, by : Nodes]

\* by: the node that signed the request; from: the peer whose session
\* delivered this copy; ttl: hops left
Message == [type : {"prepare", "sign", "commit"}, p : Proposal, by : Nodes,
            from : Nodes, ttl : 1 .. MaxTTL]

Sent == [type : {"prepare", "sign", "commit"}, p : Proposal, by : Nodes]

\* A merged block: the round it was saved for and its sub-blocks in order
Block == [round : Nat, subs : Seq(Proposal)]

\* m_sealing: open, handled (setBlock done, generatePrepare not yet entered)
\* or sealed
Sealing == [phase : {"open", "handled", "sealed"}, number : Nat, txs : SUBSET Txs]

OpenSealing == [phase |-> "open", number |-> 0, txs |-> {}]

NodeState ==
  [chain : Seq(Block),               \* blocks committed since the start
   pool : SUBSET Txs,                \* m_txPool
   prepareCache : SUBSET Proposal,   \* m_prepareCache4nl
   signCache : SUBSET Vote,          \* m_signCache4nl
   commitCache : SUBSET Vote,        \* m_commitCache4nl
   highestblockNumber : Nat,
   globalSealingNodes : Nat \ {0},
   notifyNextLeaderSeal : BOOLEAN,   \* m_notifyNextLeaderSeal
   leader : Nodes \cup {NoLeader},   \* getLeader().second
   reported : Nat,                   \* m_highestBlock.number()
   sealing : Sealing,
   resetDue : BOOLEAN,               \* worker is about to run m_onViewChange
   commitFails : Nat,
   restarts : Nat]

-----------------------------------------------------------------------------
\* The nodes that pack in the round after r
GetSealingList(packNodeNum, r) ==
  {((r % N) + i) % N : i \in 0 .. packNodeNum - 1}

\* Mutant: each saved round costs the schedule a sealer
ShrinkingSchedule(k, r) == k - 1

\* globalSealingNodes after round r is saved, when it was k before
NextSealingNodes(k, r) ==
  IF r < Stage1 THEN k
  ELSE IF r < Stage2 THEN Seal1
  ELSE IF r < Stage3 THEN Seal2
  ELSE Seal3

\* m_notifyNextLeaderSeal of node n after round r is saved
NextNotify(n, k, r) ==
  r >= Stage1 /\ n \notin GetSealingList(NextSealingNodes(k, r), r)

Number(s) == StartRound + Len(s.chain)

InitState(n) ==
  [chain |-> <<>>, pool |-> IF n \in Holders THEN Txs ELSE {},
   prepareCache |-> {}, signCache |-> {}, commitCache |-> {},
   highestblockNumber |-> StartRound,
   globalSealingNodes |-> NextSealingNodes(Seal0, StartRound),
   notifyNextLeaderSeal |-> NextNotify(n, Seal0, StartRound),
   leader |-> IF StartRound = 0 THEN 0 ELSE NoLeader,
   reported |-> StartRound,
   sealing |-> OpenSealing, resetDue |-> FALSE,
   commitFails |-> 0, restarts |-> 0]

Init ==
  /\ node = [n \in Nodes |-> InitState(n)]
  /\ inbox = [n \in Nodes |-> {}]
  /\ sent = {}

-----------------------------------------------------------------------------
(***************************************************************************)
(* PBFTReqCache.                                                           *)
(***************************************************************************)
AddPrepareReq4nl(s, p) ==
  [s EXCEPT !.prepareCache =
     {q \in @ : ~(q.round = p.round /\ q.idx = p.idx)} \cup {p}]

AddSignReq4nl(s, v) ==
  IF v.p.round = s.highestblockNumber THEN s
  ELSE [s EXCEPT !.signCache = @ \cup {v}]

AddCommitReq4nl(s, v) ==
  IF v.p.round = s.highestblockNumber THEN s
  ELSE [s EXCEPT !.commitCache = @ \cup {v}]

GetSigCacheSize4nl(s, p) == Cardinality({v \in s.signCache : v.p = p})

GetCommitCacheSize4nl(s, p) == Cardinality({v \in s.commitCache : v.p = p})

\* m_prepareCache4nl[r]
PreparesOf(s, r) == {p \in s.prepareCache : p.round = r}

DelCache4nl(s, r) ==
  [s EXCEPT !.prepareCache = {p \in @ : p.round # r},
            !.signCache = {v \in @ : v.p \notin PreparesOf(s, r)},
            !.commitCache = {v \in @ : v.p \notin PreparesOf(s, r)}]

-----------------------------------------------------------------------------
(***************************************************************************)
(* PBFTEngine: from a quorum of signatures to a merged block.              *)
(***************************************************************************)
\* Mutant: only signatures are counted
EnoughSigns(s, p) == GetSigCacheSize4nl(s, p) >= MinValidNodes

CheckSignAndCommitOnePre4nl(s, p) ==
  /\ GetSigCacheSize4nl(s, p) >= MinValidNodes
  /\ GetCommitCacheSize4nl(s, p) >= MinValidNodes

\* Mutant: the cached prepares are taken for all prepares of the round
AllCachedHaveQuorum(s, r) ==
  \A p \in PreparesOf(s, r) : CheckSignAndCommitOnePre4nl(s, p)

CheckSignAndCommitAll4nl(s, r) ==
  /\ Cardinality(PreparesOf(s, r)) = s.globalSealingNodes
  /\ \A p \in PreparesOf(s, r) : CheckSignAndCommitOnePre4nl(s, p)

\* Mutant: the last sub-block is not appended
MergeAllButLast(P) ==
  {o \in [1 .. Cardinality(P) - 1 -> P] : \A i, j \in DOMAIN o : o[i] = o[j] => i = j}

\* The orders in which the sub-blocks can be appended: the iteration order of
\* an unordered_map, which depends on the order of insertion at this node
MergeOrders(P) ==
  {o \in [1 .. Cardinality(P) -> P] : \A p \in P : \E i \in DOMAIN o : o[i] = p}

\* The new sealing schedule, installed before commitBlock is called
Reschedule(n, s, r) ==
  [s EXCEPT !.globalSealingNodes = NextSealingNodes(@, r),
            !.notifyNextLeaderSeal = NextNotify(n, s.globalSealingNodes, r)]

\* Mutant: the commit empties the pool
CommittedEmptyPool(s, r, o) ==
  DelCache4nl([s EXCEPT !.chain = Append(@, [round |-> r, subs |-> o]),
                        !.highestblockNumber = r, !.pool = {}],
              r)

\* commitBlock returned OK for the merged block o of round r
Committed(s, r, o) ==
  DelCache4nl([s EXCEPT !.chain = Append(@, [round |-> r, subs |-> o]),
                        !.highestblockNumber = r,
                        !.pool = @ \ UNION {p.txs : p \in PreparesOf(s, r)}],
              r)

\* commitBlock returned an error: the caches stay as they are
CommitFailed(s) == [s EXCEPT !.commitFails = @ + 1]

\* The states a node can be in after checkAndSave4nl
CheckAndSave4nl(n, s, r, idx) ==
  IF /\ \E p \in PreparesOf(s, r) : p.idx = idx /\ CheckSignAndCommitOnePre4nl(s, p)
     /\ CheckSignAndCommitAll4nl(s, r)
  THEN LET t == Reschedule(n, s, r) IN
       {Committed(t, r, o) : o \in MergeOrders(PreparesOf(s, r))}
         \cup (IF s.commitFails < MaxCommitFails THEN {CommitFailed(t)} ELSE {})
  ELSE {s}

\* The node's own commit for p, and what checkAndSave4nl makes of it
Commit(n, s, p) ==
  CheckAndSave4nl(n, AddCommitReq4nl(s, [p |-> p, by |-> n]), p.round, p.idx)

\* Mutant: a node whose own signature comes late sends no commit
CommitTargetsExact(s, r, idx, byself) ==
  {p \in PreparesOf(s, r) : p.idx = idx /\ GetSigCacheSize4nl(s, p) = MinValidNodes}

\* Mutant: a commit takes more than a quorum
CommitTargetsAbove(s, r, idx, byself) ==
  {p \in PreparesOf(s, r) : p.idx = idx /\ GetSigCacheSize4nl(s, p) > MinValidNodes}

\* The proposals for which checkAndCommit4nl broadcasts a commit: at most one
CommitTargets(s, r, idx, byself) ==
  {p \in PreparesOf(s, r) :
     /\ p.idx = idx
     /\ \/ GetSigCacheSize4nl(s, p) = MinValidNodes
        \/ byself /\ GetSigCacheSize4nl(s, p) > MinValidNodes}

\* Results of checkAndCommit4nl: the node's state and the commits broadcast
CheckAndCommit4nl(n, s, r, idx, byself) ==
  LET P == CommitTargets(s, r, idx, byself) IN
  IF P = {}
  THEN {[st |-> s, out |-> {}]}
  ELSE UNION {{[st |-> t, out |-> {[type |-> "commit", p |-> p, by |-> n]}]
                 : t \in Commit(n, s, p)} : p \in P}

\* Results of OnlyGenerateSignMsg4nl
OnlyGenerateSignMsg4nl(n, s, p) ==
  {[st |-> x.st, out |-> x.out \cup {[type |-> "sign", p |-> p, by |-> n]}]
     : x \in CheckAndCommit4nl(n, AddSignReq4nl(s, [p |-> p, by |-> n]),
                               p.round, p.idx, TRUE)}

\* Results of handlePrepareMsg4nl
HandlePrepareMsg4nl(n, s, p) ==
  LET t == IF p.idx = n THEN s ELSE [s EXCEPT !.pool = @ \ p.txs] IN
  OnlyGenerateSignMsg4nl(n, AddPrepareReq4nl(t, p), p)

\* Results of handleSignMsg4nl
HandleSignMsg4nl(n, s, m) ==
  CheckAndCommit4nl(n, AddSignReq4nl(s, [p |-> m.p, by |-> m.by]),
                    m.p.round, m.p.idx, FALSE)

\* Results of handleCommitMsg4nl
HandleCommitMsg4nl(n, s, m) ==
  {[st |-> t, out |-> {}]
     : t \in CheckAndSave4nl(n, AddCommitReq4nl(s, [p |-> m.p, by |-> m.by]),
                             m.p.round, m.p.idx)}

-----------------------------------------------------------------------------
(***************************************************************************)
(* The sealer's decisions.                                                 *)
(***************************************************************************)
ShouldHandleBlock(n, s) == s.sealing.number = Number(s) + 1 /\ s.leader = n

IsSealed(s) == s.sealing.phase = "sealed"

ShouldResetSealing(n, s) ==
  /\ ~(IsSealed(s) /\ ShouldHandleBlock(n, s))
  /\ IsSealed(s) \/ s.sealing.number <= Number(s)
  /\ s.leader = n

\* A merged block has no sealer in its header, so that once one is the
\* highest block getLeader() has no answer in any view
LeadersOf(s) == IF s.reported = 0 THEN Nodes ELSE {NoLeader}

\* checkAndChangeView succeeded: some view was reached with enough requests
ChangedView(s) ==
  {[s EXCEPT !.leader = l, !.notifyNextLeaderSeal = FALSE] : l \in LeadersOf(s)}

ChainTxs(s) ==
  UNION {UNION {s.chain[b].subs[i].txs : i \in DOMAIN s.chain[b].subs}
           : b \in DOMAIN s.chain}

-----------------------------------------------------------------------------
(***************************************************************************)
(* Broadcast and forwarding.  A broadcast reaches each peer once, at any   *)
(* later time and in any order.  With TTL forwarding a node passes each    *)
(* request it handles on to the peers other than the one it came from and  *)
(* the proposer, so that a node meets copies of the same request.          *)
(***************************************************************************)
Broadcast(n, out) ==
  {[type |-> o.type, p |-> o.p, by |-> o.by, from |-> n, ttl |-> MaxTTL] : o \in out}

ForwardMsgByTTL(n, m, x) ==
  IF m.ttl > 1 /\ x \notin {n, m.from, m.p.idx}
  THEN {[m EXCEPT !.from = n, !.ttl = @ - 1]}
  ELSE {}

\* Node n broadcasts out of its own accord
Send(n, out) ==
  /\ inbox' = [x \in Nodes |-> IF x = n \/ x \in Down THEN inbox[x]
                               ELSE inbox[x] \cup Broadcast(n, out)]
  /\ sent' = sent \cup out

\* Node n takes m from its queue, broadcasts out and forwards m
Reply(n, m, out) ==
  /\ inbox' = [x \in Nodes |->
                 IF x = n THEN inbox[x] \ {m}
                 ELSE IF x \in Down THEN inbox[x]
                 ELSE inbox[x] \cup Broadcast(n, out) \cup ForwardMsgByTTL(n, m, x)]
  /\ sent' = sent \cup out

Update(n, s) == node' = [node EXCEPT ![n] = s]

-----------------------------------------------------------------------------
(***************************************************************************)
(* The sealer thread: one iteration of doWork is LoadTransactions, then    *)
(* HandleBlock and GeneratePrepare when the block is full or its time has  *)
(* come.                                                                   *)
(***************************************************************************)
LoadTransactions(n) ==
  LET s == node[n]
      room == (MaxBlockTxs \div s.globalSealingNodes) - Cardinality(s.sealing.txs)
      unpacked == s.pool \ s.sealing.txs
  IN /\ s.sealing.phase = "open"
     /\ Number(s) < MaxRound
     /\ room > 0
     /\ \E S \in SUBSET unpacked :
          /\ S # {}
          /\ Cardinality(S) = room \/ (Cardinality(S) < room /\ S = unpacked)
          /\ Update(n, [s EXCEPT !.sealing.txs = @ \cup S])
     /\ UNCHANGED <<inbox, sent>>

\* The height is read from the chain here, before m_mutex is taken
HandleBlock(n) ==
  LET s == node[n] IN
  /\ s.sealing.phase = "open"
  /\ Number(s) < MaxRound
  /\ s.sealing.txs # {}
  /\ ~s.notifyNextLeaderSeal
  /\ Update(n, [s EXCEPT !.pool = @ \ s.sealing.txs,
                         !.sealing.phase = "handled",
                         !.sealing.number = Number(s) + 1])
  /\ UNCHANGED <<inbox, sent>>

GeneratePrepare(n) ==
  LET s == node[n]
      p == [round |-> s.sealing.number, idx |-> n, txs |-> s.sealing.txs,
            life |-> s.restarts]
      t == [s EXCEPT !.notifyNextLeaderSeal = FALSE, !.sealing.phase = "sealed"]
  IN /\ s.sealing.phase = "handled"
     /\ \E x \in HandlePrepareMsg4nl(n, t, p) :
          /\ Update(n, x.st)
          /\ Send(n, x.out \cup {[type |-> "prepare", p |-> p, by |-> n]})

\* A block was committed since the sealer last looked (m_syncBlock)
ReportNewBlock(n) ==
  LET s == node[n]
      t == [s EXCEPT !.reported = Number(s), !.leader = NoLeader]
  IN /\ s.reported # Number(s)
     /\ Number(s) < MaxRound
     /\ s.sealing.phase # "handled"
     /\ Update(n, IF ShouldResetSealing(n, t)
                  THEN [t EXCEPT !.sealing = OpenSealing] ELSE t)
     /\ UNCHANGED <<inbox, sent>>

-----------------------------------------------------------------------------
(***************************************************************************)
(* The PBFT worker: handleMsg and checkTimeout.  It is busy from a timeout *)
(* until the callback has run, and the callback waits for the sealer       *)
(* thread to leave handleBlock.                                            *)
(***************************************************************************)
HandlePrepare(n) ==
  \E m \in inbox[n] :
    /\ m.type = "prepare" /\ ~node[n].resetDue
    /\ \E x \in HandlePrepareMsg4nl(n, node[n], m.p) :
         Update(n, x.st) /\ Reply(n, m, x.out)

HandleSign(n) ==
  \E m \in inbox[n] :
    /\ m.type = "sign" /\ ~node[n].resetDue
    /\ \E x \in HandleSignMsg4nl(n, node[n], m) :
         Update(n, x.st) /\ Reply(n, m, x.out)

HandleCommit(n) ==
  \E m \in inbox[n] :
    /\ m.type = "commit" /\ ~node[n].resetDue
    /\ \E x \in HandleCommitMsg4nl(n, node[n], m) :
         Update(n, x.st) /\ Reply(n, m, x.out)

CheckTimeout(n) ==
  LET t == [node[n] EXCEPT !.leader = NoLeader, !.resetDue = TRUE] IN
  /\ n \in TimeoutNodes
  /\ ~node[n].resetDue
  /\ \E u \in {t} \cup (IF n \in ViewChangeNodes THEN ChangedView(t) ELSE {}) :
       Update(n, u)
  /\ UNCHANGED <<inbox, sent>>

ResetBlockForViewChange(n) ==
  LET s == node[n] IN
  /\ s.resetDue
  /\ s.sealing.phase # "handled"
  /\ Update(n, [s EXCEPT !.resetDue = FALSE,
                         !.sealing = IF IsSealed(s) /\ ShouldHandleBlock(n, s)
                                     THEN @ ELSE OpenSealing])
  /\ UNCHANGED <<inbox, sent>>

\* Enough view change requests arrived
HandleViewChange(n) ==
  /\ n \in ViewChangeNodes
  /\ ~node[n].resetDue
  /\ \E u \in ChangedView(node[n]) : Update(n, u)
  /\ UNCHANGED <<inbox, sent>>

\* The process dies and comes back: only the chain survives.  Its pool is
\* refilled from the peers.
Restart(n) ==
  LET s == node[n] IN
  /\ s.restarts < MaxRestarts
  /\ Update(n,
       [chain |-> s.chain,
        pool |-> (UNION {node[x].pool : x \in Nodes \ {n}}) \ ChainTxs(s),
        prepareCache |-> {}, signCache |-> {}, commitCache |-> {},
        highestblockNumber |-> 0, globalSealingNodes |-> Seal0,
        notifyNextLeaderSeal |-> FALSE,
        leader |-> IF Number(s) = 0 THEN 0 ELSE NoLeader,
        reported |-> Number(s), sealing |-> OpenSealing, resetDue |-> FALSE,
        commitFails |-> s.commitFails, restarts |-> s.restarts + 1])
  /\ inbox' = [inbox EXCEPT ![n] = {}]
  /\ UNCHANGED sent

Handle(n) == HandlePrepare(n) \/ HandleSign(n) \/ HandleCommit(n)

\* The steps that neither start a proposal nor a timeout
OtherStep(n) ==
  \/ LoadTransactions(n) \/ GeneratePrepare(n) \/ ReportNewBlock(n)
  \/ HandlePrepare(n) \/ HandleSign(n) \/ HandleCommit(n)
  \/ ResetBlockForViewChange(n) \/ HandleViewChange(n) \/ Restart(n)

Next == \E n \in Nodes \ Down : HandleBlock(n) \/ CheckTimeout(n) \/ OtherStep(n)

Spec == Init /\ [][Next]_vars

-----------------------------------------------------------------------------
(***************************************************************************)
(* Fairness.  A message in m_msgQueue is handled before the worker looks   *)
(* at the clock again (workLoop pops, handles and only then calls          *)
(* checkTimeout), so that timeouts do not starve the queue: strong         *)
(* fairness.  The sealer thread leaves generatePrepare, and the callback   *)
(* runs.                                                                   *)
(***************************************************************************)
Fairness ==
  \A n \in Nodes \ Down :
    /\ SF_vars(Handle(n))
    /\ WF_vars(GeneratePrepare(n))
    /\ WF_vars(ResetBlockForViewChange(n))

FairSpec == Spec /\ Fairness

(***************************************************************************)
(* The timely executions: the view timeout never strikes a node between    *)
(* the sealing of its proposal and the end of that round.  This is the     *)
(* regime the timeout (3 s against rounds of milliseconds) is meant for.   *)
(***************************************************************************)
Proposing(s) == s.sealing.phase # "open" /\ s.sealing.number = Number(s) + 1

TimelyNext ==
  \E n \in Nodes \ Down :
    \/ HandleBlock(n) /\ ~node[n].resetDue
    \/ CheckTimeout(n) /\ ~Proposing(node[n])
    \/ OtherStep(n)

TimelySpec == Init /\ [][TimelyNext]_vars

-----------------------------------------------------------------------------
(***************************************************************************)
(* Properties.                                                             *)
(***************************************************************************)
\* Every variable holds values of its type.
TypeOK ==
  /\ node \in [Nodes -> NodeState]
  /\ inbox \in [Nodes -> SUBSET Message]
  /\ sent \subseteq Sent

Voters(type, p) == {n \in Nodes : [type |-> type, p |-> p, by |-> n] \in sent}

\* checkAndSave4nl: a sub-block that is part of any node's chain was signed by
\* more than two thirds of the nodes and committed by more than two thirds,
\* each of which really broadcast its vote, whatever was delayed, copied,
\* proposed twice, lost in a restart or left in a cache by a failed commit.
SavedHasQuorum ==
  \A n \in Nodes : \A b \in DOMAIN node[n].chain :
    \A i \in DOMAIN node[n].chain[b].subs :
      LET p == node[n].chain[b].subs[i] IN
      TwoThirds(Voters("sign", p)) /\ TwoThirds(Voters("commit", p))

\* checkAndCommit4nl: whenever a commit for a sub-block has been broadcast,
\* more than two thirds of the nodes had broadcast their signature of it.
CommitBacked ==
  \A c \in sent : c.type = "commit" => TwoThirds(Voters("sign", c.p))

SubBlocks(b) == {b.subs[i] : i \in DOMAIN b.subs}

\* checkSignAndCommitAll4nl: two nodes that save the same round merge the same
\* set of sub-blocks.
RoundAgreement ==
  \A n, m \in Nodes : \A b \in DOMAIN node[n].chain : \A c \in DOMAIN node[m].chain :
    node[n].chain[b].round = node[m].chain[c].round
      => SubBlocks(node[n].chain[b]) = SubBlocks(node[m].chain[c])

\* checkAndSave4nl numbers the merged block after the chain, not after the
\* round: the two agree, so that no round is skipped, repeated or saved out
\* of order.
RoundIsHeight ==
  \A n \in Nodes : \A b \in DOMAIN node[n].chain :
    node[n].chain[b].round = StartRound + b

Saved(n, r) == \E b \in DOMAIN node[n].chain : node[n].chain[b].round = r

ProposalsOf(r) == {o.p : o \in {x \in sent : x.type = "prepare" /\ x.p.round = r}}

Scheduled(r) == NextSealingNodes(Seal0, r - 1)

Rounds == StartRound + 1 .. MaxRound

\* No request is on its way and no proposal is about to be broadcast
Quiet == \A n \in Nodes : inbox[n] = {} /\ node[n].sealing.phase # "handled"

\* When a round has its scheduled number of proposals and every request has
\* been handled, every running node has saved it, whatever the order in which
\* prepares, signs and commits arrived: between them the two conditions under
\* which checkAndCommit4nl sends a commit miss no order.
RoundSettled ==
  Quiet => \A r \in Rounds :
    Cardinality(ProposalsOf(r)) = Scheduled(r) => \A n \in Nodes \ Down : Saved(n, r)

\* Once a round has its scheduled number of proposals, and no more come, every
\* running node saves it: the two conditions under which checkAndCommit4nl
\* sends a commit miss no order of arrival of prepares, signs and commits.
RoundCompletes ==
  \A r \in Rounds :
    [](Cardinality(ProposalsOf(r)) <= Scheduled(r))
      => (Cardinality(ProposalsOf(r)) = Scheduled(r)
            ~> \A n \in Nodes \ Down : Saved(n, r))

Holding(s) ==
  s.pool \cup s.sealing.txs \cup (UNION {p.txs : p \in s.prepareCache}) \cup ChainTxs(s)

\* Sealer::doWork and handlePrepareMsg4nl drop transactions from the pool
\* before the round is decided: a transaction that reached a pool stays in
\* the pool, the sealing block, a cached proposal or the chain of some node.
NoTransactionLost ==
  Holders # {} => Txs \subseteq UNION {Holding(node[n]) : n \in Nodes}

-----------------------------------------------------------------------------
(***************************************************************************)
(* What a check of the code states, and the code does not keep.            *)
(***************************************************************************)
\* SyncMaster.cpp:546-558 takes it for a state error when the hash of this
\* node's block differs from the hash its peers report at the same height.
SameHeightSameBlock ==
  \A n, m \in Nodes : \A b \in DOMAIN node[n].chain \cap DOMAIN node[m].chain :
    node[n].chain[b] = node[m].chain[b]
===============================================================================
