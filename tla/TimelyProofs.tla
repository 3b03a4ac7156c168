----------------------------- MODULE TimelyProofs -----------------------------
(***************************************************************************)
(* Proof that no transaction is lost in the timely executions of            *)
(* Leaderless, in which no view timeout strikes a node that is proposing    *)
(* and no node restarts, under any schedule of the sealers.                 *)
(*                                                                         *)
(* The heart of it is that a node proposes once per round (OnePerRound).    *)
(* That is not inductive: it takes the relation between what the sealer     *)
(* thread holds and the height of the chain (ProposalInv).                  *)
(***************************************************************************)
EXTENDS LeaderlessProofs

\* A leaf that names no prover is for the SMT solver, with a minute of time.
USE SMTT(60)

\* The proposals among the requests of S
Prepares(S) == {a.p : a \in {x \in S : x.type = "prepare"}}

OnePerRound(Q) ==
  \A p, q \in Q : p.round = q.round /\ p.idx = q.idx => p = q

CacheTxs(s) == UNION {p.txs : p \in s.prepareCache}

\* What a node has apart from the block it is sealing
Kept(s) == s.pool \cup CacheTxs(s) \cup ChainTxs(s)

\* What holds of the state s of node n when Q is what has been proposed: a
\* proposal of its own for the height it works on is the one it has sealed,
\* and what it handed to generatePrepare has not been proposed before.
ProposalInv(n, s, Q) ==
  /\ s.prepareCache \subseteq Q
  /\ s.sealing.phase # "open" => s.sealing.number <= Number(s) + 1
  /\ s.sealing.phase = "handled" => \A p \in Q : ~(p.idx = n /\ p.round = s.sealing.number)
  /\ \A p \in Q : p.idx = n =>
       /\ p.round <= Number(s) + 1
       /\ p.round = Number(s) + 1 => s.sealing.phase = "sealed" /\ Proposing(s)
  /\ s.resetDue => ~Proposing(s)
  /\ s.sealing.phase # "handled" => s.sealing.txs \subseteq Kept(s)

TimelyInv ==
  /\ OnePerRound(Prepares(sent))
  /\ \A n \in Nodes : ProposalInv(n, node[n], Prepares(sent))
  /\ NoTransactionLost

-----------------------------------------------------------------------------
(***************************************************************************)
(* What the functions called by the handlers do to a node's state: the      *)
(* sealer's side is left alone, the chain may grow, prepares may leave the  *)
(* cache, and no transaction gets lost on the way.                          *)
(***************************************************************************)
Advance(s, t) ==
  /\ s \in NodeState /\ t \in NodeState
  /\ t.sealing = s.sealing /\ t.resetDue = s.resetDue
  /\ Number(s) <= Number(t)
  /\ t.prepareCache \subseteq s.prepareCache
  /\ Kept(s) \subseteq Kept(t)

\* A state with the same chain, cache, pool and sealer side
LEMMA SameAdvance ==
  ASSUME NEW s \in NodeState, NEW t \in NodeState,
         t.chain = s.chain, t.pool = s.pool, t.prepareCache = s.prepareCache,
         t.sealing = s.sealing, t.resetDue = s.resetDue
  PROVE  Advance(s, t)
<1>1. Number(t) = Number(s) /\ Number(s) \in Nat
  BY NumberType DEF Number
<1>2. Kept(s) = Kept(t)
  BY DEF Kept, CacheTxs, ChainTxs
<1> QED
  BY <1>1, <1>2 DEF Advance

\* Advances can be put together.
LEMMA AdvanceTrans ==
  ASSUME NEW s, NEW t, NEW u, Advance(s, t), Advance(t, u)
  PROVE  Advance(s, u)
<1>1. Number(s) \in Nat /\ Number(t) \in Nat /\ Number(u) \in Nat
  BY NumberType DEF Advance
<1> QED
  BY <1>1 DEF Advance

\* addSignReq4nl and addCommitReq4nl touch the vote caches only.
LEMMA VotesAdvance ==
  ASSUME NEW s \in NodeState, NEW v \in Vote
  PROVE  Advance(s, AddSignReq4nl(s, v)) /\ Advance(s, AddCommitReq4nl(s, v))
<1>1. ASSUME NEW t \in {AddSignReq4nl(s, v), AddCommitReq4nl(s, v)}
      PROVE  /\ t \in NodeState
             /\ t.chain = s.chain /\ t.pool = s.pool /\ t.prepareCache = s.prepareCache
             /\ t.sealing = s.sealing /\ t.resetDue = s.resetDue
  BY DEF AddSignReq4nl, AddCommitReq4nl, NodeState
<1> QED
  BY <1>1, SameAdvance

\* The new schedule
LEMMA RescheduleFields ==
  ASSUME NEW s \in NodeState, NEW n \in Nodes, NEW r \in Nat
  PROVE  LET t == Reschedule(n, s, r)
         IN  /\ t \in NodeState
             /\ t.chain = s.chain /\ t.pool = s.pool /\ t.prepareCache = s.prepareCache
             /\ t.sealing = s.sealing /\ t.resetDue = s.resetDue
             /\ t.globalSealingNodes = NextSealingNodes(s.globalSealingNodes, r)
<1> DEFINE t == Reschedule(n, s, r)
           k == NextSealingNodes(s.globalSealingNodes, r)
           b == NextNotify(n, s.globalSealingNodes, r)
<1>2. k \in Nat \ {0} /\ b \in BOOLEAN
  BY ConstantAssumption DEF NextSealingNodes, NextNotify, NodeState
<1>3. t = [s EXCEPT !.globalSealingNodes = k, !.notifyNextLeaderSeal = b]
  BY DEF Reschedule
<1> HIDE DEF k, b, t
<1>4. /\ t \in NodeState
      /\ t.chain = s.chain /\ t.pool = s.pool /\ t.prepareCache = s.prepareCache
      /\ t.sealing = s.sealing /\ t.resetDue = s.resetDue
      /\ t.globalSealingNodes = k
  BY <1>2, <1>3, ZenonT(60) DEF NodeState
<1> QED
  BY <1>4 DEF t, k

\* A failing commitBlock counts and nothing else.
LEMMA FailFields ==
  ASSUME NEW s \in NodeState
  PROVE  LET t == CommitFailed(s)
         IN  /\ t \in NodeState
             /\ t.chain = s.chain /\ t.pool = s.pool /\ t.prepareCache = s.prepareCache
             /\ t.sealing = s.sealing /\ t.resetDue = s.resetDue
             /\ t.globalSealingNodes = s.globalSealingNodes
<1> DEFINE k == s.commitFails + 1
<1>1. k \in Nat
  BY DEF NodeState
<1>2. CommitFailed(s) = [s EXCEPT !.commitFails = k]
  BY DEF CommitFailed
<1> HIDE DEF k
<1> QED
  BY <1>1, <1>2 DEF NodeState

\* commitBlock appends the merged block, and its proposals leave cache and pool.
LEMMA CommittedFields ==
  ASSUME NEW s \in NodeState, NEW r \in Nat, NEW o \in Seq(Proposal)
  PROVE  LET t == Committed(s, r, o)
         IN  /\ t \in NodeState
             /\ t.chain = Append(s.chain, [round |-> r, subs |-> o])
             /\ t.pool = s.pool \ UNION {p.txs : p \in PreparesOf(s, r)}
             /\ t.prepareCache = {p \in s.prepareCache : p.round # r}
             /\ t.sealing = s.sealing /\ t.resetDue = s.resetDue
             /\ t.globalSealingNodes = s.globalSealingNodes
<1> DEFINE blk == [round |-> r, subs |-> o]
           pl == s.pool \ UNION {p.txs : p \in PreparesOf(s, r)}
           c == Append(s.chain, blk)
           u == [s EXCEPT !.chain = c, !.highestblockNumber = r, !.pool = pl]
           t == Committed(s, r, o)
<1>1. blk \in Block /\ pl \in SUBSET Txs
  BY DEF NodeState, Block
<1>2. t = DelCache4nl(u, r)
  BY DEF Committed
<1> HIDE DEF blk, t
<1>3. s.chain \in Seq(Block) /\ c \in Seq(Block)
  BY <1>1 DEF NodeState
<1> HIDE DEF c, pl
<1>4. /\ u \in NodeState /\ u.chain = c /\ u.pool = pl /\ u.prepareCache = s.prepareCache
      /\ u.sealing = s.sealing /\ u.resetDue = s.resetDue
      /\ u.globalSealingNodes = s.globalSealingNodes
  BY <1>1, <1>3, ZenonT(60) DEF NodeState
<1> HIDE DEF u
<1>5. /\ t \in NodeState /\ t.chain = u.chain /\ t.pool = u.pool
      /\ t.prepareCache = {p \in u.prepareCache : p.round # r}
      /\ t.sealing = u.sealing /\ t.resetDue = u.resetDue
      /\ t.globalSealingNodes = u.globalSealingNodes
  BY <1>2, <1>4, ZenonT(60) DEF DelCache4nl, NodeState
<1> QED
  BY <1>4, <1>5 DEF t, c, pl, blk

\* A longer chain has the transactions of the shorter one and of the new block.
LEMMA ChainTxsAppend ==
  ASSUME NEW s \in NodeState, NEW t, NEW r \in Nat, NEW o \in Seq(Proposal),
         t.chain = Append(s.chain, [round |-> r, subs |-> o])
  PROVE  /\ ChainTxs(s) \subseteq ChainTxs(t)
         /\ \A i \in DOMAIN o : o[i].txs \subseteq ChainTxs(t)
<1> DEFINE blk == [round |-> r, subs |-> o]
           k == Len(s.chain) + 1
<1>1. /\ s.chain \in Seq(Block) /\ blk \in Block /\ Len(s.chain) \in Nat
      /\ DOMAIN s.chain = 1 .. Len(s.chain)
  BY DEF NodeState, Block
<1> HIDE DEF blk
<1>2. /\ DOMAIN t.chain = 1 .. k
      /\ \A b \in 1 .. Len(s.chain) : t.chain[b] = s.chain[b]
      /\ t.chain[k] = blk
  BY <1>1, AppendFacts DEF blk
<1>3. ChainTxs(s) \subseteq ChainTxs(t)
  <2>1. DOMAIN s.chain \subseteq DOMAIN t.chain
    BY <1>1, <1>2
  <2> QED
    BY <1>1, <1>2, <2>1 DEF ChainTxs
<1>4. ASSUME NEW i \in DOMAIN o PROVE o[i].txs \subseteq ChainTxs(t)
  <2>1. blk.subs = o /\ k \in DOMAIN t.chain
    BY <1>1, <1>2 DEF blk
  <2> HIDE DEF k
  <2> QED
    BY <1>2, <2>1 DEF ChainTxs
<1> QED
  BY <1>3, <1>4

\* The merged block is a sequence of the round's proposals that leaves none out.
LEMMA MergedBlock ==
  ASSUME NEW s \in NodeState, NEW r, CheckSignAndCommitAll4nl(s, r),
         NEW o \in MergeOrders(PreparesOf(s, r))
  PROVE  /\ o \in Seq(Proposal)
         /\ \A i \in DOMAIN o : o[i] \in PreparesOf(s, r)
         /\ \A p \in PreparesOf(s, r) : \E i \in DOMAIN o : o[i] = p
<1> DEFINE P == PreparesOf(s, r)
<1>1. Cardinality(P) \in Nat /\ P \subseteq Proposal
  BY DEF CheckSignAndCommitAll4nl, NodeState, PreparesOf
<1>2. /\ o \in [1 .. Cardinality(P) -> P]
      /\ \A p \in P : \E i \in DOMAIN o : o[i] = p
  BY DEF MergeOrders
<1> HIDE DEF P
<1>3. o \in Seq(Proposal)
  BY <1>1, <1>2
<1> QED
  BY <1>2, <1>3 DEF P

\* What checkAndSave4nl leaves behind: nothing new, a new schedule after a
\* failure, or a block of all the round's proposals.
LEMMA SaveResults ==
  ASSUME NEW s \in NodeState, NEW n \in Nodes, NEW r \in Nat, NEW idx,
         NEW t \in CheckAndSave4nl(n, s, r, idx)
  PROVE  \/ t = s
         \/ t = CommitFailed(Reschedule(n, s, r))
         \/ /\ CheckSignAndCommitAll4nl(s, r)
            /\ \E o \in MergeOrders(PreparesOf(s, r)) : t = Committed(Reschedule(n, s, r), r, o)
BY DEF CheckAndSave4nl

\* checkAndSave4nl advances.
LEMMA SaveAdvance ==
  ASSUME NEW s \in NodeState, NEW n \in Nodes, NEW r \in Nat, NEW idx,
         NEW t \in CheckAndSave4nl(n, s, r, idx)
  PROVE  Advance(s, t)
<1> DEFINE u == Reschedule(n, s, r)
<1>1. /\ u \in NodeState
      /\ u.chain = s.chain /\ u.pool = s.pool /\ u.prepareCache = s.prepareCache
      /\ u.sealing = s.sealing /\ u.resetDue = s.resetDue
  BY RescheduleFields
<1>2. Advance(s, s) /\ Advance(s, u)
  BY <1>1, SameAdvance
<1> HIDE DEF u
<1>3. CASE t = CommitFailed(u)
  BY <1>1, <1>2, <1>3, FailFields, SameAdvance, AdvanceTrans
<1>4. CASE /\ CheckSignAndCommitAll4nl(s, r)
           /\ \E o \in MergeOrders(PreparesOf(s, r)) : t = Committed(u, r, o)
  <2>1. PICK o \in MergeOrders(PreparesOf(s, r)) : t = Committed(u, r, o)
    BY <1>4
  <2>2. /\ o \in Seq(Proposal)
        /\ \A p \in PreparesOf(s, r) : \E i \in DOMAIN o : o[i] = p
    BY <1>4, MergedBlock
  <2>3. PreparesOf(u, r) = PreparesOf(s, r)
    BY <1>1 DEF PreparesOf
  <2>4. /\ t \in NodeState
        /\ t.chain = Append(s.chain, [round |-> r, subs |-> o])
        /\ t.pool = s.pool \ UNION {p.txs : p \in PreparesOf(s, r)}
        /\ t.prepareCache = {p \in s.prepareCache : p.round # r}
        /\ t.sealing = s.sealing /\ t.resetDue = s.resetDue
    <3>0. u \in NodeState /\ o \in Seq(Proposal) /\ t = Committed(u, r, o)
      BY <1>1, <2>1, <2>2
    <3>1. /\ t \in NodeState
          /\ t.chain = Append(u.chain, [round |-> r, subs |-> o])
          /\ t.pool = u.pool \ UNION {p.txs : p \in PreparesOf(u, r)}
          /\ t.prepareCache = {p \in u.prepareCache : p.round # r}
          /\ t.sealing = u.sealing /\ t.resetDue = u.resetDue
      BY <3>0, CommittedFields
    <3> QED
      BY <1>1, <2>3, <3>1, ZenonT(60)
  <2>5. Number(s) <= Number(t)
    <3>1. s.chain \in Seq(Block) /\ [round |-> r, subs |-> o] \in Block
      BY <2>2 DEF NodeState, Block
    <3>2. Len(t.chain) = Len(s.chain) + 1 /\ Len(s.chain) \in Nat
      BY <2>4, <3>1, AppendFacts, SeqFacts
    <3> QED
      BY <3>2, ConstantAssumption DEF Number
  <2>6. \A p \in PreparesOf(s, r) : p.txs \subseteq ChainTxs(t)
    <3>1. \A i \in DOMAIN o : o[i].txs \subseteq ChainTxs(t)
      BY <2>2, <2>4, ChainTxsAppend, ZenonT(60)
    <3> QED
      BY <2>2, <3>1
  <2>7. ChainTxs(s) \subseteq ChainTxs(t)
    BY <2>2, <2>4, ChainTxsAppend
  <2>8. s.pool \subseteq Kept(t)
    BY <2>4, <2>6 DEF Kept
  <2>9. CacheTxs(s) \subseteq Kept(t)
    BY <2>4, <2>6 DEF Kept, CacheTxs, PreparesOf
  <2> QED
    BY <2>4, <2>5, <2>7, <2>8, <2>9 DEF Advance, Kept
<1> QED
  BY <1>2, <1>3, <1>4, SaveResults DEF u

-----------------------------------------------------------------------------
(***************************************************************************)
(* The handlers.                                                            *)
(***************************************************************************)
\* checkAndCommit4nl advances and proposes nothing.
LEMMA CommitAdvance ==
  ASSUME NEW s \in NodeState, NEW n \in Nodes, NEW r, NEW idx, NEW byself,
         NEW x \in CheckAndCommit4nl(n, s, r, idx, byself)
  PROVE  Advance(s, x.st) /\ \A a \in x.out : a.type # "prepare"
<1> DEFINE P == CommitTargets(s, r, idx, byself)
<1>1. CASE x = [st |-> s, out |-> {}]
  <2>1. x.st = s /\ x.out = {}
    BY <1>1
  <2> QED
    BY <2>1, SameAdvance
<1>2. CASE \E p \in P : \E t \in Commit(n, s, p) :
             x = [st |-> t, out |-> {[type |-> "commit", p |-> p, by |-> n]}]
  <2>1. PICK p \in P : \E t \in Commit(n, s, p) :
             x = [st |-> t, out |-> {[type |-> "commit", p |-> p, by |-> n]}]
    BY <1>2, ZenonT(60)
  <2>2. PICK t \in Commit(n, s, p) :
             x = [st |-> t, out |-> {[type |-> "commit", p |-> p, by |-> n]}]
    BY <2>1
  <2> DEFINE a == AddCommitReq4nl(s, [p |-> p, by |-> n])
  <2>3. p \in Proposal /\ p.round \in Nat /\ [p |-> p, by |-> n] \in Vote
    BY DEF CommitTargets, PreparesOf, NodeState, Proposal, Vote
  <2>4. Advance(s, a) /\ a \in NodeState
    BY <2>3, VotesAdvance DEF Advance
  <2>5. Advance(a, t)
    BY <2>3, <2>4, SaveAdvance DEF Commit
  <2>6. x.st = t /\ \A c \in x.out : c.type # "prepare"
    BY <2>2
  <2> QED
    BY <2>4, <2>5, <2>6, AdvanceTrans
<1> QED
  BY <1>1, <1>2 DEF CheckAndCommit4nl

\* So does OnlyGenerateSignMsg4nl.
LEMMA SignAdvance ==
  ASSUME NEW s \in NodeState, NEW n \in Nodes, NEW p \in Proposal,
         NEW x \in OnlyGenerateSignMsg4nl(n, s, p)
  PROVE  Advance(s, x.st) /\ \A a \in x.out : a.type # "prepare"
<1> DEFINE g == [type |-> "sign", p |-> p, by |-> n]
           b == AddSignReq4nl(s, [p |-> p, by |-> n])
<1>1. PICK y \in CheckAndCommit4nl(n, b, p.round, p.idx, TRUE) :
             x = [st |-> y.st, out |-> y.out \cup {g}]
  BY ZenonT(60) DEF OnlyGenerateSignMsg4nl
<1>2. Advance(s, b) /\ b \in NodeState
  BY VotesAdvance DEF Vote, Advance
<1>3. Advance(b, y.st) /\ \A a \in y.out : a.type # "prepare"
  BY <1>2, CommitAdvance, ZenonT(60)
<1>4. x.st = y.st /\ x.out = y.out \cup {g} /\ g.type # "prepare"
  BY <1>1
<1> QED
  BY <1>2, <1>3, <1>4, AdvanceTrans

\* An advance keeps what is known of a node's proposals.
LEMMA AdvanceProposal ==
  ASSUME NEW n \in Nodes, NEW s, NEW t, Advance(s, t), NEW Q \in SUBSET Proposal,
         ProposalInv(n, s, Q)
  PROVE  ProposalInv(n, t, Q)
<1>1. Number(s) \in Nat /\ Number(t) \in Nat /\ Number(s) <= Number(t)
  BY NumberType DEF Advance
<1>2. /\ s.sealing = t.sealing /\ s.sealing.number \in Nat /\ s.resetDue = t.resetDue
      /\ t.prepareCache \subseteq s.prepareCache /\ Kept(s) \subseteq Kept(t)
  BY DEF Advance, NodeState, Sealing
<1>3. \A p \in Q : p.round \in Nat
  BY DEF Proposal
<1>4. s.sealing.phase # "open" => s.sealing.number <= Number(t) + 1
  BY <1>1, <1>2 DEF ProposalInv
<1>5. ASSUME NEW p \in Q, p.idx = n
      PROVE  /\ p.round <= Number(t) + 1
             /\ p.round = Number(t) + 1 => t.sealing.phase = "sealed" /\ Proposing(t)
  <2>1. /\ p.round <= Number(s) + 1
        /\ p.round = Number(s) + 1 => s.sealing.phase = "sealed" /\ Proposing(s)
    BY <1>5 DEF ProposalInv
  <2>2. p.round = Number(t) + 1 => Number(t) = Number(s)
    BY <1>1, <1>3, <2>1
  <2> QED
    BY <1>1, <1>2, <1>3, <2>1, <2>2 DEF Proposing
<1>6. t.resetDue => ~Proposing(t)
  BY <1>1, <1>2 DEF ProposalInv, Proposing
<1> QED
  BY <1>2, <1>4, <1>5, <1>6 DEF ProposalInv

\* The node's state when a prepare is in the cache and not yet signed
Received(n, s, p) ==
  AddPrepareReq4nl(IF p.idx = n THEN s ELSE [s EXCEPT !.pool = @ \ p.txs], p)

\* handlePrepareMsg4nl caches the prepare and drops its transactions from the
\* pool.
LEMMA ReceivedFields ==
  ASSUME NEW s \in NodeState, NEW n \in Nodes, NEW p \in Proposal
  PROVE  LET a == Received(n, s, p)
         IN  /\ HandlePrepareMsg4nl(n, s, p) = OnlyGenerateSignMsg4nl(n, a, p)
             /\ a \in NodeState /\ a.chain = s.chain
             /\ a.prepareCache =
                  {q \in s.prepareCache : ~(q.round = p.round /\ q.idx = p.idx)} \cup {p}
             /\ s.pool \subseteq a.pool \cup p.txs
             /\ a.sealing = s.sealing /\ a.resetDue = s.resetDue
             /\ a.globalSealingNodes = s.globalSealingNodes
<1> DEFINE t == IF p.idx = n THEN s ELSE [s EXCEPT !.pool = @ \ p.txs]
           a == AddPrepareReq4nl(t, p)
<1>1. HandlePrepareMsg4nl(n, s, p) = OnlyGenerateSignMsg4nl(n, a, p) /\ a = Received(n, s, p)
  BY DEF HandlePrepareMsg4nl, Received
<1>2. /\ t \in NodeState /\ t.chain = s.chain /\ t.prepareCache = s.prepareCache
      /\ s.pool \subseteq t.pool \cup p.txs
      /\ t.sealing = s.sealing /\ t.resetDue = s.resetDue
      /\ t.globalSealingNodes = s.globalSealingNodes
  BY ZenonT(60) DEF NodeState
<1> HIDE DEF t
<1>3. /\ a \in NodeState /\ a.chain = t.chain /\ a.pool = t.pool
      /\ a.prepareCache = {q \in t.prepareCache : ~(q.round = p.round /\ q.idx = p.idx)} \cup {p}
      /\ a.sealing = t.sealing /\ a.resetDue = t.resetDue
      /\ a.globalSealingNodes = t.globalSealingNodes
  BY <1>2 DEF AddPrepareReq4nl, NodeState
<1> HIDE DEF a
<1> QED
  BY <1>1, <1>2, <1>3

\* A prepare that replaces only itself in the cache loses no transaction.
LEMMA ReceivedKeeps ==
  ASSUME NEW s \in NodeState, NEW n \in Nodes, NEW Q \in SUBSET Proposal, NEW p \in Q,
         OnePerRound(Q), s.prepareCache \subseteq Q
  PROVE  LET a == Received(n, s, p)
         IN  /\ a.prepareCache = s.prepareCache \cup {p}
             /\ Kept(s) \subseteq Kept(a) /\ p.txs \subseteq Kept(a)
<1> DEFINE a == Received(n, s, p)
<1>0. p \in Proposal
  OBVIOUS
<1>1. /\ a.chain = s.chain /\ s.pool \subseteq a.pool \cup p.txs
      /\ a.prepareCache = {q \in s.prepareCache : ~(q.round = p.round /\ q.idx = p.idx)} \cup {p}
  BY <1>0, ReceivedFields
<1> HIDE DEF a
<1>2. a.prepareCache = s.prepareCache \cup {p}
  BY <1>1 DEF OnePerRound
<1>3. p.txs \subseteq CacheTxs(a) /\ CacheTxs(s) \subseteq CacheTxs(a)
  BY <1>2 DEF CacheTxs
<1>4. ChainTxs(a) = ChainTxs(s)
  BY <1>1 DEF ChainTxs
<1>5. Kept(s) \subseteq Kept(a) /\ p.txs \subseteq Kept(a)
  BY <1>1, <1>3, <1>4 DEF Kept
<1> QED
  BY <1>2, <1>5 DEF a

\* A prepare that was proposed before keeps what is known of proposals.
LEMMA ReceivedInv ==
  ASSUME NEW s \in NodeState, NEW n \in Nodes, NEW Q \in SUBSET Proposal, NEW p \in Q,
         OnePerRound(Q), ProposalInv(n, s, Q)
  PROVE  ProposalInv(n, Received(n, s, p), Q)
<1> DEFINE a == Received(n, s, p)
<1>0. p \in Proposal /\ s.prepareCache \subseteq Q
  BY DEF ProposalInv
<1>1. /\ a.chain = s.chain /\ a.sealing = s.sealing /\ a.resetDue = s.resetDue
  BY <1>0, ReceivedFields
<1>2. a.prepareCache = s.prepareCache \cup {p} /\ Kept(s) \subseteq Kept(a)
  BY <1>0, ReceivedKeeps
<1> HIDE DEF a
<1>3. Number(a) = Number(s)
  BY <1>1 DEF Number
<1> QED
  BY <1>0, <1>1, <1>2, <1>3 DEF ProposalInv, Proposing, a

\* The state and the proposal of generatePrepare, before the prepare is handled
SealedState(s) == [s EXCEPT !.notifyNextLeaderSeal = FALSE, !.sealing.phase = "sealed"]

SealedProposal(n, s) ==
  [round |-> s.sealing.number, idx |-> n, txs |-> s.sealing.txs, life |-> s.restarts]

\* Sealing is marked, and the rest of the state stays.
LEMMA SealedFields ==
  ASSUME NEW s \in NodeState, NEW n \in Nodes
  PROVE  LET t == SealedState(s)
         IN  /\ SealedProposal(n, s) \in Proposal
             /\ t \in NodeState /\ t.chain = s.chain /\ t.pool = s.pool
             /\ t.prepareCache = s.prepareCache /\ t.resetDue = s.resetDue
             /\ t.globalSealingNodes = s.globalSealingNodes
             /\ t.sealing.phase = "sealed" /\ t.sealing.number = s.sealing.number
             /\ t.sealing.txs = s.sealing.txs
<1> DEFINE g == [s.sealing EXCEPT !.phase = "sealed"]
           t == SealedState(s)
<1>1. s.sealing \in Sealing /\ s.restarts \in Nat
  BY DEF NodeState
<1>2. /\ g \in Sealing /\ g.phase = "sealed" /\ g.number = s.sealing.number
      /\ g.txs = s.sealing.txs
  BY <1>1 DEF Sealing
<1>3. SealedProposal(n, s) \in Proposal
  BY <1>1 DEF Sealing, Proposal, SealedProposal
<1>4. t = [s EXCEPT !.notifyNextLeaderSeal = FALSE, !.sealing = g]
  BY DEF NodeState, SealedState
<1> HIDE DEF g, t
<1>5. /\ t \in NodeState /\ t.chain = s.chain /\ t.pool = s.pool
      /\ t.prepareCache = s.prepareCache /\ t.resetDue = s.resetDue
      /\ t.globalSealingNodes = s.globalSealingNodes /\ t.sealing = g
  BY <1>2, <1>4, ZenonT(60) DEF NodeState
<1> QED
  BY <1>2, <1>3, <1>5 DEF t

\* What generatePrepare proposes is new, and is the sealed block.
LEMMA ProposedInv ==
  ASSUME NEW s \in NodeState, NEW n \in Nodes, NEW Q \in SUBSET Proposal,
         OnePerRound(Q), ProposalInv(n, s, Q), s.sealing.phase = "handled"
  PROVE  LET p == SealedProposal(n, s)
             a == Received(n, SealedState(s), p)
         IN  /\ OnePerRound(Q \cup {p}) /\ ProposalInv(n, a, Q \cup {p})
             /\ Kept(s) \cup s.sealing.txs \subseteq Kept(a)
<1> DEFINE p == SealedProposal(n, s)
           t == SealedState(s)
           a == Received(n, t, p)
           R == Q \cup {p}
<1>1. /\ p \in Proposal /\ t \in NodeState /\ t.chain = s.chain /\ t.pool = s.pool
      /\ t.prepareCache = s.prepareCache /\ t.resetDue = s.resetDue
      /\ t.sealing.phase = "sealed" /\ t.sealing.number = s.sealing.number
      /\ t.sealing.txs = s.sealing.txs
  BY SealedFields
<1>2. p.idx = n /\ p.round = s.sealing.number /\ p.txs = s.sealing.txs
  BY DEF SealedProposal
<1> HIDE DEF p, t
<1>3. OnePerRound(R)
  BY <1>2 DEF OnePerRound, ProposalInv
<1>4. R \in SUBSET Proposal /\ t.prepareCache \subseteq R
  BY <1>1 DEF ProposalInv
<1>5. a.chain = t.chain /\ a.sealing = t.sealing /\ a.resetDue = t.resetDue
  BY <1>1, ReceivedFields
<1>6. /\ a.prepareCache = t.prepareCache \cup {p}
      /\ Kept(t) \subseteq Kept(a) /\ p.txs \subseteq Kept(a)
  BY <1>1, <1>3, <1>4, ReceivedKeeps
<1>7. Kept(t) = Kept(s)
  BY <1>1 DEF Kept, CacheTxs, ChainTxs
<1> HIDE DEF a
<1>8. Number(a) = Number(s)
  BY <1>1, <1>5 DEF Number
<1>9. ProposalInv(n, a, R)
  BY <1>1, <1>2, <1>4, <1>5, <1>6, <1>8 DEF ProposalInv, Proposing
<1> QED
  BY <1>2, <1>3, <1>6, <1>7, <1>9 DEF p, t, a

-----------------------------------------------------------------------------
(***************************************************************************)
(* Steps of the system.                                                    *)
(***************************************************************************)
\* Proposals are proposals.
LEMMA PreparesType ==
  ASSUME IInv
  PROVE  Prepares(sent) \in SUBSET Proposal
BY DEF IInv, TypeOK, Sent, Prepares

\* What else is broadcast changes no proposals.
LEMMA PreparesSame ==
  ASSUME NEW S, NEW out, \A a \in out : a.type # "prepare"
  PROVE  Prepares(S \cup out) = Prepares(S)
BY DEF Prepares

\* A prepare adds its proposal.
LEMMA PreparesAdd ==
  ASSUME NEW S, NEW e, e.type = "prepare"
  PROVE  Prepares(S \cup {e}) = Prepares(S) \cup {e.p}
BY DEF Prepares

\* The transactions of a node
LEMMA HoldingKept ==
  ASSUME NEW s
  PROVE  Holding(s) = Kept(s) \cup s.sealing.txs
BY DEF Holding, Kept, CacheTxs

\* A step of node n to t, with proposals of its own only, that keeps what is
\* known of n and its transactions, keeps the invariant.
LEMMA TimelyStep ==
  ASSUME IInv, TimelyInv, NEW n \in Nodes, NEW t, Update(n, t),
         NEW R, R = Prepares(sent'),
         Prepares(sent) \subseteq R, \A p \in R \ Prepares(sent) : p.idx = n,
         OnePerRound(R), ProposalInv(n, t, R), Holding(node[n]) \subseteq Holding(t)
  PROVE  TimelyInv'
<1>1. node \in [Nodes -> NodeState]
  BY DEF IInv, TypeOK
<1>2. node' = [node EXCEPT ![n] = t]
  BY DEF Update
<1>3. ASSUME NEW x \in Nodes PROVE ProposalInv(x, node'[x], R)
  <2>1. CASE x = n
    BY <1>1, <1>2, <2>1
  <2>2. CASE x # n
    <3>1. node'[x] = node[x] /\ ProposalInv(x, node[x], Prepares(sent))
      BY <1>1, <1>2, <2>2 DEF TimelyInv
    <3>2. \A p \in R : p.idx = x => p \in Prepares(sent)
      BY <2>2
    <3> QED
      BY <3>1, <3>2 DEF ProposalInv
  <2> QED
    BY <2>1, <2>2
<1>4. NoTransactionLost'
  <2>1. \A x \in Nodes : Holding(node[x]) \subseteq Holding(node'[x])
    BY <1>1, <1>2
  <2>2. UNION {Holding(node[x]) : x \in Nodes} \subseteq UNION {Holding(node'[x]) : x \in Nodes}
    BY <2>1
  <2>3. NoTransactionLost
    BY DEF TimelyInv
  <2>4. Holders # {} => Txs \subseteq UNION {Holding(node'[x]) : x \in Nodes}
    BY <2>2, <2>3 DEF NoTransactionLost
  <2> QED
    BY <2>4 DEF NoTransactionLost, Holding, ChainTxs
<1> QED
  BY <1>3, <1>4 DEF TimelyInv

\* A step of a handler whose result advances from a state in which what is
\* known of the proposals holds.
LEMMA TimelyResult ==
  ASSUME IInv, TimelyInv, NEW n \in Nodes, NEW x, Update(n, x.st),
         \A a \in x.out : a.type # "prepare", sent' = sent \cup x.out,
         NEW b, Advance(b, x.st), ProposalInv(n, b, Prepares(sent)),
         b.sealing = node[n].sealing, Kept(node[n]) \subseteq Kept(b)
  PROVE  TimelyInv'
<1>1. Prepares(sent') = Prepares(sent) /\ OnePerRound(Prepares(sent))
  BY PreparesSame, ZenonT(60) DEF TimelyInv
<1>2. ProposalInv(n, x.st, Prepares(sent))
  BY PreparesType, AdvanceProposal
<1>3. Holding(node[n]) \subseteq Holding(x.st)
  BY HoldingKept DEF Advance
<1> QED
  BY <1>1, <1>2, <1>3, TimelyStep, ZenonT(60)

\* The steps that handle no request leave chain, cache and schedule alone.
SameRest(s, t) ==
  /\ s \in NodeState /\ t \in NodeState
  /\ t.chain = s.chain /\ t.prepareCache = s.prepareCache
  /\ t.globalSealingNodes = s.globalSealingNodes

\* loadTransactions adds transactions of the pool to an open block.
LEMMA LoadFields ==
  ASSUME IInv, NEW n \in Nodes, LoadTransactions(n)
  PROVE  LET s == node[n]
             t == node'[n]
         IN  /\ Update(n, t) /\ UNCHANGED <<inbox, sent>> /\ SameRest(s, t)
             /\ t.pool = s.pool /\ t.resetDue = s.resetDue
             /\ s.sealing.phase = "open" /\ t.sealing.phase = "open"
             /\ s.sealing.txs \subseteq t.sealing.txs
             /\ t.sealing.txs \subseteq s.sealing.txs \cup s.pool
<1>1. node \in [Nodes -> NodeState] /\ node[n] \in NodeState
  BY DEF IInv, TypeOK
<1>2. PICK S \in SUBSET node[n].pool :
        Update(n, [node[n] EXCEPT !.sealing.txs = @ \cup S])
  BY ZenonT(60) DEF LoadTransactions
<1> DEFINE s == node[n]
           t == [s EXCEPT !.sealing.txs = @ \cup S]
           g == [s.sealing EXCEPT !.txs = @ \cup S]
<1>3. /\ g \in Sealing /\ g.phase = s.sealing.phase /\ g.txs = s.sealing.txs \cup S
  BY <1>1 DEF Sealing, NodeState
<1>4. t = [s EXCEPT !.sealing = g]
  BY <1>1 DEF NodeState
<1>5. node'[n] = t /\ Update(n, t)
  BY <1>1, <1>2 DEF Update
<1> HIDE DEF g, t
<1>6. /\ SameRest(s, t) /\ t.pool = s.pool /\ t.resetDue = s.resetDue /\ t.sealing = g
  BY <1>1, <1>3, <1>4 DEF NodeState, SameRest
<1> QED
  BY <1>3, <1>5, <1>6 DEF LoadTransactions

\* handleBlock hands the block over under the next height.
LEMMA HandleFields ==
  ASSUME IInv, NEW n \in Nodes, HandleBlock(n)
  PROVE  LET s == node[n]
             t == node'[n]
         IN  /\ Update(n, t) /\ UNCHANGED <<inbox, sent>> /\ SameRest(s, t)
             /\ t.pool = s.pool \ s.sealing.txs /\ t.resetDue = s.resetDue
             /\ s.sealing.phase = "open" /\ t.sealing.phase = "handled"
             /\ t.sealing.number = Number(s) + 1 /\ t.sealing.txs = s.sealing.txs
<1> DEFINE s == node[n]
           k == Number(s) + 1
           z == s.pool \ s.sealing.txs
           t == [s EXCEPT !.pool = @ \ s.sealing.txs, !.sealing.phase = "handled",
                          !.sealing.number = Number(s) + 1]
           g == [s.sealing EXCEPT !.phase = "handled", !.number = k]
<1>a. node \in [Nodes -> NodeState] /\ s \in NodeState
  BY DEF IInv, TypeOK
<1>1. node \in [Nodes -> NodeState] /\ s \in NodeState /\ k \in Nat /\ s.sealing \in Sealing
  <2>1. Number(s) \in Nat
    BY <1>a, NumberType
  <2> QED
    BY <1>a, <2>1 DEF NodeState
<1>2. node'[n] = t /\ Update(n, t)
  BY <1>1 DEF HandleBlock, Update
<1> HIDE DEF k
<1>3. /\ g \in Sealing /\ g.phase = "handled" /\ g.number = k /\ g.txs = s.sealing.txs
  BY <1>1, ZenonT(60) DEF Sealing
<1>4. t = [s EXCEPT !.pool = z, !.sealing = g]
  BY <1>1, ZenonT(60) DEF NodeState, k
<1>5. z \in SUBSET Txs
  BY <1>1 DEF NodeState
<1> HIDE DEF g, t, z
<1>6. SameRest(s, t) /\ t.pool = z /\ t.resetDue = s.resetDue /\ t.sealing = g
  BY <1>1, <1>3, <1>4, <1>5, ZenonT(60) DEF NodeState, SameRest
<1> QED
  BY <1>2, <1>3, <1>6 DEF HandleBlock, k, z

\* No leader is a node: reportNewBlock does not reset what is being sealed.
LEMMA ReportFields ==
  ASSUME IInv, NEW n \in Nodes, ReportNewBlock(n)
  PROVE  LET s == node[n]
             t == node'[n]
         IN  /\ Update(n, t) /\ UNCHANGED <<inbox, sent>> /\ SameRest(s, t)
             /\ t.pool = s.pool /\ t.resetDue = s.resetDue /\ t.sealing = s.sealing
<1> DEFINE s == node[n]
           k == Number(s)
           t == [s EXCEPT !.reported = Number(s), !.leader = NoLeader]
<1>a. node \in [Nodes -> NodeState] /\ s \in NodeState
  BY DEF IInv, TypeOK
<1>1. node \in [Nodes -> NodeState] /\ s \in NodeState /\ k \in Nat
  BY <1>a, NumberType
<1>2. t = [s EXCEPT !.reported = k, !.leader = NoLeader]
  OBVIOUS
<1>3. Update(n, IF ShouldResetSealing(n, t) THEN [t EXCEPT !.sealing = OpenSealing] ELSE t)
  BY DEF ReportNewBlock
<1> HIDE DEF k, t
<1>4. /\ SameRest(s, t) /\ t.pool = s.pool /\ t.resetDue = s.resetDue
      /\ t.sealing = s.sealing /\ t.leader = NoLeader
  BY <1>1, <1>2, ZenonT(60) DEF NodeState, SameRest
<1>5. ~ShouldResetSealing(n, t)
  BY <1>4, NAssumption DEF ShouldResetSealing, NoLeader, Nodes
<1>6. node'[n] = t /\ Update(n, t)
  BY <1>1, <1>3, <1>5 DEF Update
<1> QED
  BY <1>4, <1>6 DEF ReportNewBlock

\* A view change touches neither chain nor cache nor what is being sealed.
LEMMA ViewFields ==
  ASSUME NEW s \in NodeState, NEW u \in ChangedView(s)
  PROVE  /\ SameRest(s, u)
         /\ u.pool = s.pool /\ u.resetDue = s.resetDue /\ u.sealing = s.sealing
<1>1. PICK l \in LeadersOf(s) : u = [s EXCEPT !.leader = l, !.notifyNextLeaderSeal = FALSE]
  BY ZenonT(60) DEF ChangedView
<1>2. l \in Nodes \cup {NoLeader}
  BY DEF LeadersOf
<1> DEFINE v == [s EXCEPT !.leader = l]
<1>3. /\ SameRest(s, v)
      /\ v.pool = s.pool /\ v.resetDue = s.resetDue /\ v.sealing = s.sealing
  BY <1>2 DEF NodeState, SameRest
<1>4. u = [v EXCEPT !.notifyNextLeaderSeal = FALSE]
  BY <1>1 DEF NodeState
<1> HIDE DEF v
<1> QED
  BY <1>3, <1>4, ZenonT(60) DEF NodeState, SameRest

\* checkTimeout asks for the callback and gives up the leader.
LEMMA TimeoutFields ==
  ASSUME IInv, NEW n \in Nodes, CheckTimeout(n)
  PROVE  LET s == node[n]
             t == node'[n]
         IN  /\ Update(n, t) /\ UNCHANGED <<inbox, sent>> /\ SameRest(s, t)
             /\ t.pool = s.pool /\ t.sealing = s.sealing
<1> DEFINE s == node[n]
           t == [s EXCEPT !.leader = NoLeader, !.resetDue = TRUE]
<1>1. node \in [Nodes -> NodeState] /\ s \in NodeState
  BY DEF IInv, TypeOK
<1>2. SameRest(s, t) /\ t.pool = s.pool /\ t.sealing = s.sealing
  BY <1>1, ZenonT(60) DEF NodeState, SameRest
<1>3. PICK u \in {t} \cup ChangedView(t) : Update(n, u)
  BY DEF CheckTimeout
<1> HIDE DEF t
<1>4. SameRest(t, u) /\ u.pool = t.pool /\ u.sealing = t.sealing
  <2>1. t \in NodeState
    BY <1>2 DEF SameRest
  <2>2. CASE u = t
    BY <2>1, <2>2 DEF SameRest
  <2>3. CASE u \in ChangedView(t)
    BY <2>1, <2>3, ViewFields
  <2> QED
    BY <2>2, <2>3
<1>5. node'[n] = u
  BY <1>1, <1>3 DEF Update
<1> QED
  BY <1>2, <1>3, <1>4, <1>5 DEF SameRest, CheckTimeout

\* The callback opens the block anew, or leaves it.
LEMMA ResetFields ==
  ASSUME IInv, NEW n \in Nodes, ResetBlockForViewChange(n)
  PROVE  LET s == node[n]
             t == node'[n]
         IN  /\ Update(n, t) /\ UNCHANGED <<inbox, sent>> /\ SameRest(s, t)
             /\ t.pool = s.pool /\ s.resetDue /\ ~t.resetDue
             /\ s.sealing.phase # "handled" /\ t.sealing \in {s.sealing, OpenSealing}
<1> DEFINE s == node[n]
           g == IF IsSealed(s) /\ ShouldHandleBlock(n, s) THEN s.sealing ELSE OpenSealing
           t == [s EXCEPT !.resetDue = FALSE, !.sealing = g]
<1>1. node \in [Nodes -> NodeState] /\ s \in NodeState
  BY DEF IInv, TypeOK
<1>2. g \in Sealing /\ g \in {s.sealing, OpenSealing}
  BY <1>1 DEF NodeState, OpenSealing, Sealing
<1>3. node'[n] = t /\ Update(n, t)
  BY <1>1 DEF ResetBlockForViewChange, Update
<1> HIDE DEF g
<1>4. SameRest(s, t) /\ t.pool = s.pool /\ t.resetDue = FALSE /\ t.sealing = g
  BY <1>1, <1>2, ZenonT(60) DEF NodeState, SameRest
<1> QED
  BY <1>2, <1>3, <1>4 DEF ResetBlockForViewChange

\* handleViewChangeMsg
LEMMA ViewChangeFields ==
  ASSUME IInv, NEW n \in Nodes, HandleViewChange(n)
  PROVE  LET s == node[n]
             t == node'[n]
         IN  /\ Update(n, t) /\ UNCHANGED <<inbox, sent>> /\ SameRest(s, t)
             /\ t.pool = s.pool /\ t.resetDue = s.resetDue /\ t.sealing = s.sealing
<1>1. node \in [Nodes -> NodeState] /\ node[n] \in NodeState
  BY DEF IInv, TypeOK
<1>2. PICK u \in ChangedView(node[n]) : Update(n, u)
  BY DEF HandleViewChange
<1>3. node'[n] = u
  BY <1>1, <1>2 DEF Update
<1> QED
  BY <1>1, <1>2, <1>3, ViewFields DEF HandleViewChange

\* A step that leaves chain and cache alone changes no transactions but those
\* of the pool.
LEMMA SameRestKept ==
  ASSUME NEW s, NEW t, SameRest(s, t)
  PROVE  /\ Number(t) = Number(s) /\ Number(s) \in Nat
         /\ CacheTxs(t) = CacheTxs(s) /\ ChainTxs(t) = ChainTxs(s)
<1>1. Number(t) = Number(s) /\ Number(s) \in Nat
  BY NumberType DEF SameRest, Number
<1> QED
  BY <1>1 DEF SameRest, CacheTxs, ChainTxs

\* A step that proposes nothing
LEMMA LocalStep ==
  ASSUME IInv, TimelyInv, NEW n \in Nodes, Update(n, node'[n]), UNCHANGED sent,
         ProposalInv(n, node'[n], Prepares(sent)), Holding(node[n]) \subseteq Holding(node'[n])
  PROVE  TimelyInv'
<1>1. /\ Prepares(sent') = Prepares(sent) /\ OnePerRound(Prepares(sent))
  BY DEF TimelyInv
<1> QED
  BY <1>1, TimelyStep

-----------------------------------------------------------------------------
(***************************************************************************)
(* No node proposes twice in a round, and no transaction is lost.           *)
(***************************************************************************)
\* The sealer's and the timer's steps: none of them strikes a proposal.
LEMMA SealerSteps ==
  ASSUME IInv, TimelyInv, NEW n \in Nodes,
         \/ LoadTransactions(n) \/ ReportNewBlock(n)
         \/ HandleBlock(n) /\ ~node[n].resetDue
         \/ CheckTimeout(n) /\ ~Proposing(node[n])
         \/ ResetBlockForViewChange(n) \/ HandleViewChange(n)
  PROVE  TimelyInv'
<1> DEFINE s == node[n]
           t == node'[n]
           Q == Prepares(sent)
<1>1. ProposalInv(n, s, Q)
  BY DEF TimelyInv
<1>2. CASE LoadTransactions(n)
  <2>1. /\ Update(n, t) /\ UNCHANGED sent /\ SameRest(s, t)
        /\ t.pool = s.pool /\ t.resetDue = s.resetDue
        /\ s.sealing.phase = "open" /\ t.sealing.phase = "open"
        /\ s.sealing.txs \subseteq t.sealing.txs
        /\ t.sealing.txs \subseteq s.sealing.txs \cup s.pool
    BY <1>2, LoadFields
  <2>2. Number(t) = Number(s) /\ Kept(t) = Kept(s) /\ s.pool \subseteq Kept(s)
    BY <2>1, SameRestKept DEF Kept
  <2> HIDE DEF s, t, Q
  <2>3. ProposalInv(n, t, Q)
    <3>1. t.prepareCache \subseteq Q
      BY <1>1, <2>1, ZenonT(60) DEF ProposalInv, SameRest
    <3>2. ~Proposing(t) /\ t.sealing.phase # "handled"
      BY <2>1 DEF Proposing
    <3>3. ASSUME NEW p \in Q, p.idx = n
          PROVE  p.round <= Number(t) + 1 /\ p.round # Number(t) + 1
      <4>1. p.round <= Number(s) + 1 /\ (p.round = Number(s) + 1 => s.sealing.phase = "sealed")
        BY <1>1, <3>3, ZenonT(60) DEF ProposalInv
      <4> QED
        BY <2>1, <2>2, <4>1
    <3>4. t.sealing.txs \subseteq Kept(t)
      <4>1. s.sealing.txs \subseteq Kept(s)
        BY <1>1, <2>1 DEF ProposalInv
      <4> QED
        BY <2>1, <2>2, <4>1
    <3> QED
      BY <2>1, <3>1, <3>2, <3>3, <3>4, ZenonT(60) DEF ProposalInv
  <2>4. Holding(s) \subseteq Holding(t)
    BY <2>1, <2>2, HoldingKept
  <2> QED
    BY <2>1, <2>3, <2>4, LocalStep DEF s, t, Q
<1>3. CASE HandleBlock(n) /\ ~node[n].resetDue
  <2>1. /\ Update(n, t) /\ UNCHANGED sent /\ SameRest(s, t)
        /\ t.pool = s.pool \ s.sealing.txs /\ t.resetDue = s.resetDue
        /\ s.sealing.phase = "open" /\ t.sealing.phase = "handled"
        /\ t.sealing.number = Number(s) + 1 /\ t.sealing.txs = s.sealing.txs
    BY <1>3, HandleFields
  <2>2. Number(t) = Number(s) /\ Number(s) \in Nat /\ Kept(s) \subseteq Kept(t) \cup t.sealing.txs
    BY <2>1, SameRestKept DEF Kept
  <2>3. ~s.resetDue
    BY <1>3
  <2> HIDE DEF s, t, Q
  <2>4. ProposalInv(n, t, Q)
    <3>1. t.prepareCache \subseteq Q
      BY <1>1, <2>1, ZenonT(60) DEF ProposalInv, SameRest
    <3>2. t.sealing.number = Number(t) + 1 /\ t.sealing.number <= Number(t) + 1
      BY <2>1, <2>2
    <3>3. ASSUME NEW p \in Q, p.idx = n
          PROVE  p.round <= Number(t) + 1 /\ p.round # Number(t) + 1
      <4>1. p.round <= Number(s) + 1 /\ (p.round = Number(s) + 1 => s.sealing.phase = "sealed")
        BY <1>1, <3>3, ZenonT(60) DEF ProposalInv
      <4> QED
        BY <2>1, <2>2, <4>1
    <3>4. \A p \in Q : ~(p.idx = n /\ p.round = t.sealing.number)
      BY <3>2, <3>3, ZenonT(60)
    <3>5. ~t.resetDue
      BY <2>1, <2>3, ZenonT(60)
    <3> QED
      BY <2>1, <3>1, <3>2, <3>3, <3>4, <3>5, ZenonT(60) DEF ProposalInv
  <2>5. Holding(s) \subseteq Holding(t)
    BY <2>1, <2>2, HoldingKept
  <2> QED
    BY <2>1, <2>4, <2>5, LocalStep DEF s, t, Q
<1>4. ASSUME Update(n, t), UNCHANGED sent, SameRest(s, t),
             t.pool = s.pool, t.resetDue => s.resetDue \/ ~Proposing(s), t.sealing = s.sealing
      PROVE  TimelyInv'
  <2>1. Number(t) = Number(s) /\ Kept(t) = Kept(s)
    BY <1>4, SameRestKept DEF Kept
  <2>2. Holding(s) \subseteq Holding(t)
    BY <1>4, <2>1, HoldingKept
  <2> HIDE DEF s, t, Q
  <2>3. ProposalInv(n, t, Q)
    <3>1. t.prepareCache = s.prepareCache /\ (Proposing(t) <=> Proposing(s))
      BY <1>4, <2>1, ZenonT(60) DEF Proposing, SameRest
    <3>2. t.resetDue => ~Proposing(t)
      BY <1>1, <1>4, <3>1, ZenonT(60) DEF ProposalInv
    <3> QED
      BY <1>1, <1>4, <2>1, <3>1, <3>2, ZenonT(60) DEF ProposalInv
  <2> QED
    BY <1>4, <2>2, <2>3, LocalStep DEF s, t, Q
<1>5. CASE ReportNewBlock(n)
  BY <1>4, <1>5, ReportFields
<1>6. CASE CheckTimeout(n) /\ ~Proposing(node[n])
  BY <1>4, <1>6, TimeoutFields
<1>7. CASE HandleViewChange(n)
  BY <1>4, <1>7, ViewChangeFields
<1>8. CASE ResetBlockForViewChange(n)
  <2>1. /\ Update(n, t) /\ UNCHANGED sent /\ SameRest(s, t)
        /\ t.pool = s.pool /\ s.resetDue /\ ~t.resetDue
        /\ s.sealing.phase # "handled" /\ t.sealing \in {s.sealing, OpenSealing}
    BY <1>8, ResetFields
  <2>2. Number(t) = Number(s) /\ Kept(t) = Kept(s)
    BY <2>1, SameRestKept DEF Kept
  <2>3. OpenSealing.phase = "open" /\ OpenSealing.txs = {}
    BY DEF OpenSealing
  <2> HIDE DEF s, t, Q
  <2>4. ProposalInv(n, t, Q)
    <3>1. t.prepareCache \subseteq Q
      BY <1>1, <2>1, ZenonT(60) DEF ProposalInv, SameRest
    <3>2. ~Proposing(s)
      BY <1>1, <2>1, ZenonT(60) DEF ProposalInv
    <3>3. CASE t.sealing = s.sealing
      <4>1. Proposing(t) <=> Proposing(s)
        BY <2>2, <3>3, ZenonT(60) DEF Proposing
      <4> QED
        BY <1>1, <2>1, <2>2, <3>1, <3>2, <3>3, <4>1, ZenonT(60) DEF ProposalInv
    <3>4. CASE t.sealing = OpenSealing
      <4>1. t.sealing.phase = "open" /\ t.sealing.txs = {} /\ t.sealing.phase # "handled"
        BY <2>3, <3>4
      <4>2. ASSUME NEW p \in Q, p.idx = n
            PROVE  p.round <= Number(t) + 1 /\ p.round # Number(t) + 1
        BY <1>1, <2>2, <3>2, <4>2, ZenonT(60) DEF ProposalInv
      <4>3. t.sealing.txs \subseteq Kept(t)
        BY <4>1
      <4> QED
        BY <2>1, <3>1, <4>1, <4>2, <4>3, ZenonT(60) DEF ProposalInv
    <3> QED
      BY <2>1, <3>3, <3>4, ZenonT(60)
  <2>5. s.sealing.txs \subseteq Kept(s)
    BY <1>1, <2>1 DEF ProposalInv
  <2>6. Holding(s) \subseteq Holding(t)
    BY <2>2, <2>5, HoldingKept
  <2> QED
    BY <2>1, <2>4, <2>6, LocalStep DEF s, t, Q
<1> QED
  BY <1>2, <1>3, <1>5, <1>6, <1>7, <1>8

\* The votes a node handles
LEMMA VoteSteps ==
  ASSUME IInv, TimelyInv, NEW n \in Nodes, HandleSign(n) \/ HandleCommit(n)
  PROVE  TimelyInv'
<1>1. node[n] \in NodeState /\ inbox[n] \subseteq Message /\ ProposalInv(n, node[n], Prepares(sent))
  BY DEF IInv, TypeOK, TimelyInv
<1>2. ASSUME NEW x, Advance(node[n], x.st), \A a \in x.out : a.type # "prepare",
             Update(n, x.st), NEW m, Reply(n, m, x.out)
      PROVE  TimelyInv'
  <2>1. sent' = sent \cup x.out
    BY <1>2 DEF Reply
  <2> QED
    BY <1>1, <1>2, <2>1, TimelyResult
<1>3. ASSUME NEW m \in inbox[n]
      PROVE  [p |-> m.p, by |-> m.by] \in Vote /\ m.p.round \in Nat
  BY <1>1 DEF Message, Vote, Proposal
<1>4. CASE HandleSign(n)
  <2>1. PICK m \in inbox[n] : \E x \in HandleSignMsg4nl(n, node[n], m) :
               Update(n, x.st) /\ Reply(n, m, x.out)
    BY <1>4 DEF HandleSign
  <2>2. PICK x \in HandleSignMsg4nl(n, node[n], m) : Update(n, x.st) /\ Reply(n, m, x.out)
    BY <2>1
  <2> DEFINE b == AddSignReq4nl(node[n], [p |-> m.p, by |-> m.by])
  <2>3. Advance(node[n], b) /\ b \in NodeState
    BY <1>1, <1>3, VotesAdvance, ZenonT(60) DEF Advance
  <2>4. Advance(b, x.st) /\ \A a \in x.out : a.type # "prepare"
    BY <2>2, <2>3, CommitAdvance, ZenonT(60) DEF HandleSignMsg4nl
  <2> QED
    BY <1>2, <2>2, <2>3, <2>4, AdvanceTrans
<1>5. CASE HandleCommit(n)
  <2>1. PICK m \in inbox[n] : \E x \in HandleCommitMsg4nl(n, node[n], m) :
               Update(n, x.st) /\ Reply(n, m, x.out)
    BY <1>5 DEF HandleCommit
  <2>2. PICK x \in HandleCommitMsg4nl(n, node[n], m) : Update(n, x.st) /\ Reply(n, m, x.out)
    BY <2>1
  <2> DEFINE b == AddCommitReq4nl(node[n], [p |-> m.p, by |-> m.by])
  <2>3. Advance(node[n], b) /\ b \in NodeState
    BY <1>1, <1>3, VotesAdvance, ZenonT(60) DEF Advance
  <2>4. PICK u \in CheckAndSave4nl(n, b, m.p.round, m.p.idx) : x = [st |-> u, out |-> {}]
    BY <2>2, ZenonT(60) DEF HandleCommitMsg4nl
  <2>5. Advance(b, u)
    BY <1>3, <2>3, SaveAdvance, ZenonT(60)
  <2>6. x.st = u /\ x.out = {}
    BY <2>4, ZenonT(60)
  <2> QED
    BY <1>2, <2>2, <2>3, <2>5, <2>6, AdvanceTrans, ZenonT(60)
<1> QED
  BY <1>4, <1>5

\* The prepares a node handles were proposed.
LEMMA PrepareStep ==
  ASSUME IInv, TimelyInv, NEW n \in Nodes, HandlePrepare(n)
  PROVE  TimelyInv'
<1> DEFINE Q == Prepares(sent)
<1>1. /\ node[n] \in NodeState /\ ProposalInv(n, node[n], Q) /\ OnePerRound(Q)
      /\ Q \in SUBSET Proposal /\ node[n].prepareCache \subseteq Q
  BY PreparesType, ZenonT(60) DEF IInv, TypeOK, TimelyInv, ProposalInv
<1>2. PICK m \in inbox[n] :
        m.type = "prepare" /\ \E x \in HandlePrepareMsg4nl(n, node[n], m.p) :
                                Update(n, x.st) /\ Reply(n, m, x.out)
  BY DEF HandlePrepare
<1>3. PICK x \in HandlePrepareMsg4nl(n, node[n], m.p) : Update(n, x.st) /\ Reply(n, m, x.out)
  BY <1>2
<1>4. m.p \in Q /\ m.p \in Proposal
  <2>1. [type |-> m.type, p |-> m.p, by |-> m.by] \in sent
    BY DEF IInv, InboxSent
  <2> QED
    BY <1>1, <1>2, <2>1 DEF Prepares
<1> DEFINE b == Received(n, node[n], m.p)
<1>5. /\ x \in OnlyGenerateSignMsg4nl(n, b, m.p) /\ b \in NodeState
      /\ b.sealing = node[n].sealing
  BY <1>1, <1>3, <1>4, ReceivedFields
<1>6. ProposalInv(n, b, Q) /\ Kept(node[n]) \subseteq Kept(b)
  BY <1>1, <1>4, ReceivedInv, ReceivedKeeps
<1>7. Advance(b, x.st) /\ \A a \in x.out : a.type # "prepare"
  BY <1>4, <1>5, SignAdvance
<1>8. sent' = sent \cup x.out
  BY <1>3 DEF Reply
<1> HIDE DEF b
<1> QED
  BY <1>3, <1>5, <1>6, <1>7, <1>8, TimelyResult

\* generatePrepare proposes something new.
LEMMA ProposeStep ==
  ASSUME IInv, TimelyInv, NEW n \in Nodes, GeneratePrepare(n)
  PROVE  TimelyInv'
<1> DEFINE s == node[n]
           Q == Prepares(sent)
           p == SealedProposal(n, s)
           b == Received(n, SealedState(s), p)
           e == [type |-> "prepare", p |-> p, by |-> n]
<1>1. /\ s \in NodeState /\ ProposalInv(n, s, Q) /\ OnePerRound(Q)
      /\ Q \in SUBSET Proposal /\ s.sealing.phase = "handled"
  BY PreparesType DEF IInv, TypeOK, TimelyInv, GeneratePrepare
<1>2. PICK x \in HandlePrepareMsg4nl(n, SealedState(s), p) :
        Update(n, x.st) /\ Send(n, x.out \cup {e})
  BY ZenonT(60) DEF GeneratePrepare, SealedState, SealedProposal
<1>3. p \in Proposal /\ SealedState(s) \in NodeState /\ p.idx = n
  BY <1>1, SealedFields DEF SealedProposal
<1>4. /\ OnePerRound(Q \cup {p}) /\ ProposalInv(n, b, Q \cup {p})
      /\ Kept(s) \cup s.sealing.txs \subseteq Kept(b)
  BY <1>1, ProposedInv
<1> HIDE DEF s, Q, p
<1>5. x \in OnlyGenerateSignMsg4nl(n, b, p) /\ b \in NodeState
  BY <1>2, <1>3, ReceivedFields, ZenonT(60)
<1> HIDE DEF b
<1>6. Advance(b, x.st) /\ \A a \in x.out : a.type # "prepare"
  BY <1>3, <1>5, SignAdvance
<1>7. Prepares(sent') = Q \cup {p}
  <2>1. sent' = (sent \cup {e}) \cup x.out
    BY <1>2 DEF Send
  <2>2. Prepares(sent') = Prepares(sent \cup {e})
    BY <1>6, <2>1, PreparesSame
  <2>3. e.type = "prepare" /\ e.p = p
    OBVIOUS
  <2> HIDE DEF e
  <2>4. Prepares(sent \cup {e}) = Q \cup {p}
    BY <2>3, PreparesAdd DEF Q
  <2> QED
    BY <2>2, <2>4
<1>8. ProposalInv(n, x.st, Q \cup {p})
  <2>1. Q \cup {p} \in SUBSET Proposal
    BY <1>1, <1>3
  <2> QED
    BY <1>4, <1>6, <2>1, AdvanceProposal
<1>9. Holding(s) \subseteq Holding(x.st)
  BY <1>4, <1>6, HoldingKept DEF Advance
<1> QED
  BY <1>2, <1>3, <1>4, <1>7, <1>8, <1>9, TimelyStep DEF s, Q

\* Nothing is proposed at first, and the holders have all transactions.
LEMMA TimelyInit == Init => TimelyInv
<1> SUFFICES ASSUME Init PROVE TimelyInv
  OBVIOUS
<1>1. Prepares(sent) = {}
  BY DEF Init, Prepares
<1>2. ASSUME NEW n \in Nodes
      PROVE  /\ node[n].prepareCache = {} /\ node[n].resetDue = FALSE
             /\ node[n].sealing = OpenSealing
             /\ node[n].pool = IF n \in Holders THEN Txs ELSE {}
  <2>1. node[n] = InitState(n)
    BY DEF Init
  <2> QED
    BY <2>1 DEF InitState
<1>3. OpenSealing.phase = "open" /\ OpenSealing.txs = {}
  BY DEF OpenSealing
<1>4. \A n \in Nodes : ProposalInv(n, node[n], {})
  BY <1>2, <1>3, ZenonT(60) DEF ProposalInv
<1>5. NoTransactionLost
  <2>1. ASSUME NEW n \in Holders PROVE Txs \subseteq Holding(node[n]) /\ n \in Nodes
    <3>1. n \in Nodes
      BY ConstantAssumption
    <3> QED
      BY <1>2, <3>1, ZenonT(60) DEF Holding
  <2> QED
    BY <2>1 DEF NoTransactionLost
<1> QED
  BY <1>1, <1>4, <1>5 DEF TimelyInv, OnePerRound

\* Every step of a timely execution without restarts keeps the invariant.
LEMMA TimelyNextInv ==
  ASSUME MaxRestarts = 0, IInv, TimelyInv, [TimelyNext]_vars
  PROVE  TimelyInv'
<1>1. CASE UNCHANGED vars
  BY <1>1, ZenonT(60) DEF vars, TimelyInv, NoTransactionLost, Prepares
<1>2. ASSUME NEW n \in Nodes, Restart(n) PROVE FALSE
  <2>1. node[n].restarts \in Nat /\ node[n].restarts < MaxRestarts
    BY <1>2, ZenonT(60) DEF IInv, TypeOK, NodeState, Restart
  <2> QED
    BY <2>1
<1>3. CASE TimelyNext
  <2>0. PICK n \in Nodes \ Down : \/ HandleBlock(n) /\ ~node[n].resetDue
                                  \/ CheckTimeout(n) /\ ~Proposing(node[n])
                                  \/ OtherStep(n)
    BY <1>3, ZenonT(60) DEF TimelyNext
  <2>1. n \in Nodes
    OBVIOUS
  <2>2. CASE HandlePrepare(n)
    BY <2>1, <2>2, PrepareStep
  <2>3. CASE GeneratePrepare(n)
    BY <2>1, <2>3, ProposeStep
  <2>4. CASE HandleSign(n) \/ HandleCommit(n)
    BY <2>1, <2>4, VoteSteps
  <2>5. CASE \/ LoadTransactions(n) \/ ReportNewBlock(n)
             \/ HandleBlock(n) /\ ~node[n].resetDue
             \/ CheckTimeout(n) /\ ~Proposing(node[n])
             \/ ResetBlockForViewChange(n) \/ HandleViewChange(n)
    BY <2>1, <2>5, SealerSteps
  <2> QED
    BY <1>2, <2>0, <2>1, <2>2, <2>3, <2>4, <2>5, ZenonT(60) DEF OtherStep
<1> QED
  BY <1>1, <1>3

\* Timely executions are executions.
LEMMA TimelyIsNext == [TimelyNext]_vars => [Next]_vars
BY DEF TimelyNext, Next

\* A transaction that reached the pool of a node stays in the pool, the
\* sealing block, a cached proposal or the chain of some node: although
\* handleBlock and handlePrepareMsg4nl drop transactions before the round is
\* decided, under every schedule and however many commits fail, as long as
\* no timeout strikes a proposing node and no node restarts.
THEOREM TransactionsKept ==
  ASSUME MaxRestarts = 0
  PROVE  TimelySpec => []NoTransactionLost
<1>1. Init => IInv /\ TimelyInv
  BY InitInv, TimelyInit
<1>2. IInv /\ TimelyInv /\ [TimelyNext]_vars => IInv' /\ TimelyInv'
  BY NextInv, TimelyNextInv, TimelyIsNext
<1>3. TimelyInv => NoTransactionLost
  BY DEF TimelyInv
<1> QED
  BY <1>1, <1>2, <1>3, PTL DEF TimelySpec
===============================================================================
