------------------------------ MODULE RoundProofs ------------------------------
(***************************************************************************)
(* Proofs about the timely executions of Leaderless in which every node     *)
(* seals in every round: rounds are saved in order, and all nodes merge     *)
(* the same sub-blocks.                                                     *)
(***************************************************************************)
EXTENDS TimelyProofs

\* A leaf that names no prover is for the SMT solver, with a minute of time.
USE SMTT(60)

\* Every node seals in every round
FullSchedule == Seal0 = N /\ Seal1 = N /\ Seal2 = N /\ Seal3 = N

\* With a full schedule: the chain has one block per round, with a proposal of
\* every node, and a node caches its own proposal only until it is saved.
FullInv(n, s, Q) ==
  /\ s.globalSealingNodes = N
  /\ s.sealing.phase = "handled" => s.sealing.number = Number(s) + 1
  /\ \A p \in s.prepareCache : p.idx = n => p.round = Number(s) + 1
  /\ \A b \in DOMAIN s.chain :
       /\ s.chain[b].round = StartRound + b
       /\ \A p \in SubBlocks(s.chain[b]) : p \in Q /\ p.round = s.chain[b].round
       /\ \A i \in Nodes : \E p \in SubBlocks(s.chain[b]) : p.idx = i

\* No prepare is on its way to the node that proposed it
NoEcho == \A n \in Nodes : \A m \in inbox[n] : m.type = "prepare" => m.p.idx # n

RoundInv == TimelyInv /\ NoEcho /\ \A n \in Nodes : FullInv(n, node[n], Prepares(sent))

Good(n, s, Q) ==
  /\ s \in NodeState /\ Q \in SUBSET Proposal
  /\ OnePerRound(Q) /\ ProposalInv(n, s, Q) /\ FullInv(n, s, Q)

\* N proposals of different nodes are a proposal of every node.
LEMMA EveryNode ==
  ASSUME NEW P \in SUBSET Proposal, Cardinality(P) = N,
         \A p, q \in P : p.idx = q.idx => p = q
  PROVE  \A i \in Nodes : \E p \in P : p.idx = i
<1> DEFINE W == {p.idx : p \in P}
           f == [p \in P |-> p.idx]
<1>1. W \in SUBSET Nodes /\ f \in [P -> W] /\ \A a, b \in P : f[a] = f[b] => a = b
  BY DEF Proposal
<1> HIDE DEF f
<1>2. Cardinality(W) \in Nat /\ Cardinality(P) <= Cardinality(W)
  BY <1>1, OnePerNode
<1>3. Cardinality(Nodes) = N /\ N \in Nat
  BY NAssumption, FS_Interval DEF Nodes
<1>4. Cardinality(W) <= Cardinality(Nodes) /\ (Cardinality(W) = Cardinality(Nodes) => W = Nodes)
  BY <1>1, NodesFinite, FS_Subset
<1>5. W = Nodes
  <2> HIDE DEF W
  <2> QED
    BY <1>2, <1>3, <1>4
<1> QED
  BY <1>5

\* Under a full schedule a node that saves a round has every node's proposal
\* of it, its own included: the round is the next height.
LEMMA SavedRound ==
  ASSUME NEW n \in Nodes, NEW s, NEW Q, Good(n, s, Q), NEW r \in Nat,
         CheckSignAndCommitAll4nl(s, r)
  PROVE  /\ \A i \in Nodes : \E p \in PreparesOf(s, r) : p.idx = i
         /\ PreparesOf(s, r) \subseteq Q /\ r = Number(s) + 1
         /\ s.sealing.phase = "sealed"
<1> DEFINE P == PreparesOf(s, r)
<1>1. P \subseteq s.prepareCache /\ P \subseteq Q /\ \A p \in P : p.round = r
  BY DEF PreparesOf, Good, ProposalInv
<1>2. P \in SUBSET Proposal /\ \A p, q \in P : p.idx = q.idx => p = q
  BY <1>1 DEF Good, OnePerRound
<1>3. Cardinality(P) = N
  BY DEF CheckSignAndCommitAll4nl, Good, FullInv
<1> HIDE DEF P
<1>4. \A i \in Nodes : \E p \in P : p.idx = i
  BY <1>2, <1>3, EveryNode
<1>5. PICK p \in P : p.idx = n
  BY <1>4
<1>6. p.round = Number(s) + 1 /\ p \in Q
  BY <1>1, <1>5 DEF Good, FullInv
<1>7. s.sealing.phase = "sealed"
  BY <1>5, <1>6 DEF Good, ProposalInv
<1> QED
  BY <1>1, <1>4, <1>6, <1>7 DEF P

\* The full schedule does not change.
LEMMA FullScheduleStays ==
  ASSUME FullSchedule, NEW r \in Nat
  PROVE  NextSealingNodes(N, r) = N
BY DEF FullSchedule, NextSealingNodes

\* A state with the same chain, cache, schedule and sealing block
LEMMA SameFull ==
  ASSUME NEW n, NEW Q, NEW s, NEW t, FullInv(n, s, Q),
         t.chain = s.chain, t.prepareCache \subseteq s.prepareCache,
         t.globalSealingNodes = s.globalSealingNodes, t.sealing = s.sealing
  PROVE  FullInv(n, t, Q)
<1>1. Number(t) = Number(s)
  BY DEF Number
<1> QED
  BY <1>1 DEF FullInv

\* checkAndSave4nl saves the next round, of every node's proposal.
LEMMA SaveFull ==
  ASSUME FullSchedule, NEW n \in Nodes, NEW s, NEW Q, Good(n, s, Q), NEW r \in Nat, NEW idx,
         NEW t \in CheckAndSave4nl(n, s, r, idx)
  PROVE  FullInv(n, t, Q)
<1> DEFINE u == Reschedule(n, s, r)
<1>0. s \in NodeState /\ FullInv(n, s, Q) /\ s.globalSealingNodes = N
  BY DEF Good, FullInv
<1>1. /\ u \in NodeState
      /\ u.chain = s.chain /\ u.pool = s.pool /\ u.prepareCache = s.prepareCache
      /\ u.sealing = s.sealing /\ u.globalSealingNodes = s.globalSealingNodes
  BY <1>0, RescheduleFields, FullScheduleStays
<1> HIDE DEF u
<1>2. FullInv(n, u, Q)
  BY <1>0, <1>1, SameFull
<1>3. CASE t = CommitFailed(u)
  <2>1. /\ t.chain = u.chain /\ t.prepareCache = u.prepareCache
        /\ t.sealing = u.sealing /\ t.globalSealingNodes = u.globalSealingNodes
    BY <1>1, <1>3, FailFields
  <2> QED
    BY <1>2, <2>1, SameFull
<1>4. CASE /\ CheckSignAndCommitAll4nl(s, r)
           /\ \E o \in MergeOrders(PreparesOf(s, r)) : t = Committed(u, r, o)
  <2> DEFINE P == PreparesOf(s, r)
  <2>1. PICK o \in MergeOrders(P) : t = Committed(u, r, o)
    BY <1>4
  <2>2. /\ o \in Seq(Proposal) /\ \A i \in DOMAIN o : o[i] \in P
        /\ \A p \in P : \E i \in DOMAIN o : o[i] = p
    BY <1>0, <1>4, MergedBlock
  <2> DEFINE blk == [round |-> r, subs |-> o]
             k == Len(s.chain) + 1
  <2>c. /\ t.chain = Append(u.chain, blk)
        /\ t.prepareCache = {p \in u.prepareCache : p.round # r}
        /\ t.sealing = u.sealing /\ t.globalSealingNodes = u.globalSealingNodes
    <3> HIDE DEF P
    <3> QED
      BY <1>1, <2>1, <2>2, CommittedFields
  <2>3. /\ t.chain = Append(s.chain, blk)
        /\ t.prepareCache = {p \in s.prepareCache : p.round # r}
        /\ t.sealing = s.sealing /\ t.globalSealingNodes = N
    <3> HIDE DEF P, blk
    <3> QED
      BY <1>0, <1>1, <2>c
  <2>4. /\ \A i \in Nodes : \E p \in P : p.idx = i
        /\ P \subseteq Q /\ r = Number(s) + 1 /\ s.sealing.phase = "sealed"
    BY <1>4, SavedRound
  <2>5. SubBlocks(blk) = P /\ blk.round = r /\ \A p \in P : p.round = r
    <3>1. blk.subs = o
      OBVIOUS
    <3> QED
      BY <2>2, <3>1 DEF SubBlocks, PreparesOf
  <2>6. blk \in Block
    BY <2>2 DEF Block
  <2> HIDE DEF blk, P
  <2>7. /\ s.chain \in Seq(Block) /\ Len(s.chain) \in Nat
        /\ DOMAIN s.chain = 1 .. Len(s.chain) /\ DOMAIN t.chain = 1 .. k /\ Len(t.chain) = k
        /\ \A b \in 1 .. Len(s.chain) : t.chain[b] = s.chain[b]
        /\ t.chain[k] = blk
    <3>1. s.chain \in Seq(Block)
      BY <1>0 DEF NodeState
    <3> QED
      BY <2>3, <2>6, <3>1, AppendFacts, SeqFacts
  <2>8. r = StartRound + k
    BY <2>4, <2>7, ConstantAssumption DEF Number
  <2>9. ASSUME NEW b \in DOMAIN t.chain
        PROVE  /\ t.chain[b].round = StartRound + b
               /\ \A p \in SubBlocks(t.chain[b]) : p \in Q /\ p.round = t.chain[b].round
               /\ \A i \in Nodes : \E p \in SubBlocks(t.chain[b]) : p.idx = i
    <3>1. CASE b = k
      BY <2>4, <2>5, <2>7, <2>8, <3>1
    <3>2. CASE b # k
      <4>1. b \in DOMAIN s.chain /\ t.chain[b] = s.chain[b]
        BY <2>7, <3>2
      <4> QED
        BY <1>0, <4>1 DEF FullInv
    <3> QED
      BY <3>1, <3>2
  <2>10. \A p \in t.prepareCache : p.idx = n => p.round = Number(t) + 1
    BY <1>0, <2>3, <2>4 DEF FullInv
  <2> QED
    BY <2>3, <2>4, <2>9, <2>10 DEF FullInv
<1> QED
  BY <1>0, <1>3, <1>4, SaveResults DEF u

\* addSignReq4nl and addCommitReq4nl keep what is good.
LEMMA VotesGood ==
  ASSUME NEW n \in Nodes, NEW s, NEW Q, Good(n, s, Q), NEW v \in Vote
  PROVE  Good(n, AddSignReq4nl(s, v), Q) /\ Good(n, AddCommitReq4nl(s, v), Q)
<1>1. s \in NodeState /\ Q \in SUBSET Proposal /\ ProposalInv(n, s, Q) /\ FullInv(n, s, Q)
  BY DEF Good
<1>2. ASSUME NEW t \in {AddSignReq4nl(s, v), AddCommitReq4nl(s, v)}
      PROVE  Good(n, t, Q)
  <2>1. /\ t.chain = s.chain /\ t.prepareCache = s.prepareCache
        /\ t.sealing = s.sealing /\ t.globalSealingNodes = s.globalSealingNodes
    BY <1>1 DEF AddSignReq4nl, AddCommitReq4nl, NodeState
  <2>2. Advance(s, t)
    BY <1>1, VotesAdvance
  <2>3. ProposalInv(n, t, Q)
    BY <1>1, <2>2, AdvanceProposal
  <2>4. FullInv(n, t, Q)
    BY <1>1, <2>1, SameFull
  <2> QED
    BY <2>2, <2>3, <2>4 DEF Good, Advance
<1> QED
  BY <1>2

\* checkAndCommit4nl keeps what is good.
LEMMA CommitFull ==
  ASSUME FullSchedule, NEW n \in Nodes, NEW s, NEW Q, Good(n, s, Q), NEW r, NEW idx, NEW byself,
         NEW x \in CheckAndCommit4nl(n, s, r, idx, byself)
  PROVE  FullInv(n, x.st, Q)
<1> DEFINE P == CommitTargets(s, r, idx, byself)
<1>0. s \in NodeState
  BY DEF Good
<1>1. CASE x = [st |-> s, out |-> {}]
  BY <1>1 DEF Good
<1>2. CASE \E p \in P : \E t \in Commit(n, s, p) :
             x = [st |-> t, out |-> {[type |-> "commit", p |-> p, by |-> n]}]
  <2>1. PICK p \in P : \E t \in Commit(n, s, p) :
             x = [st |-> t, out |-> {[type |-> "commit", p |-> p, by |-> n]}]
    BY <1>2, ZenonT(60)
  <2>2. PICK t \in Commit(n, s, p) :
             x = [st |-> t, out |-> {[type |-> "commit", p |-> p, by |-> n]}]
    BY <2>1, ZenonT(60)
  <2> DEFINE a == AddCommitReq4nl(s, [p |-> p, by |-> n])
  <2>3. p.round \in Nat /\ [p |-> p, by |-> n] \in Vote
    BY <1>0 DEF CommitTargets, PreparesOf, NodeState, Proposal, Vote
  <2>4. Good(n, a, Q)
    BY <2>3, VotesGood
  <2>5. FullInv(n, t, Q)
    BY <2>3, <2>4, SaveFull DEF Commit
  <2> QED
    BY <2>2, <2>5
<1> QED
  BY <1>1, <1>2 DEF CheckAndCommit4nl

\* So does OnlyGenerateSignMsg4nl.
LEMMA SignFull ==
  ASSUME FullSchedule, NEW n \in Nodes, NEW s, NEW Q, Good(n, s, Q), NEW p \in Proposal,
         NEW x \in OnlyGenerateSignMsg4nl(n, s, p)
  PROVE  FullInv(n, x.st, Q)
<1> DEFINE b == AddSignReq4nl(s, [p |-> p, by |-> n])
<1>1. PICK y \in CheckAndCommit4nl(n, b, p.round, p.idx, TRUE) :
             x = [st |-> y.st, out |-> y.out \cup {[type |-> "sign", p |-> p, by |-> n]}]
  BY ZenonT(60) DEF OnlyGenerateSignMsg4nl
<1>2. Good(n, b, Q)
  BY VotesGood DEF Vote
<1>3. FullInv(n, y.st, Q)
  BY <1>2, CommitFull, ZenonT(60)
<1> QED
  BY <1>1, <1>3

\* A prepare of another node, or the node's own for the next height
LEMMA ReceivedFull ==
  ASSUME NEW s \in NodeState, NEW n \in Nodes, NEW Q, NEW p \in Proposal, FullInv(n, s, Q),
         p.idx = n => p.round = Number(s) + 1
  PROVE  FullInv(n, Received(n, s, p), Q)
<1> DEFINE a == Received(n, s, p)
<1>1. /\ a.chain = s.chain /\ a.sealing = s.sealing
      /\ a.globalSealingNodes = s.globalSealingNodes
      /\ a.prepareCache = {q \in s.prepareCache : ~(q.round = p.round /\ q.idx = p.idx)} \cup {p}
  BY ReceivedFields
<1> HIDE DEF a
<1>2. Number(a) = Number(s)
  BY <1>1 DEF Number
<1> QED
  BY <1>1, <1>2 DEF FullInv, a

\* More proposals do not undo what a node's chain is made of.
LEMMA FullGrows ==
  ASSUME NEW n, NEW s, NEW Q, NEW R, Q \subseteq R, FullInv(n, s, Q)
  PROVE  FullInv(n, s, R)
BY DEF FullInv

\* A node's own proposal does not come back to it: broadcast does not send it
\* to its sender and forwarding not to its proposer.
LEMMA NoEchoStep ==
  ASSUME NoEcho, NEW n \in Nodes, NEW out,
         \A a \in out : a.type = "prepare" => a.p.idx = n,
         Send(n, out) \/ \E m \in inbox[n] : Reply(n, m, out)
  PROVE  NoEcho'
<1>1. ASSUME NEW x \in Nodes, x # n, NEW y \in Broadcast(n, out), y.type = "prepare"
      PROVE  y.p.idx # x
  BY <1>1 DEF Broadcast
<1>2. ASSUME NEW x \in Nodes, NEW m \in inbox[n], NEW y \in ForwardMsgByTTL(n, m, x)
      PROVE  y.p.idx # x
  <2>1. y = [m EXCEPT !.from = n, !.ttl = @ - 1] /\ x # m.p.idx
    BY DEF ForwardMsgByTTL
  <2>2. y.p = m.p
    BY <2>1
  <2> QED
    BY <2>1, <2>2
<1>3. \A x \in Nodes : \A y \in inbox'[x] :
        \/ y \in inbox[x]
        \/ x # n /\ y \in Broadcast(n, out)
        \/ \E m \in inbox[n] : y \in ForwardMsgByTTL(n, m, x)
  BY DEF Send, Reply
<1> QED
  BY <1>1, <1>2, <1>3 DEF NoEcho

\* A step of node n that keeps what is known of n
LEMMA FullStep ==
  ASSUME IInv, RoundInv, TimelyInv', NEW n \in Nodes, NEW t, Update(n, t),
         Prepares(sent) \subseteq Prepares(sent'), FullInv(n, t, Prepares(sent')), NoEcho'
  PROVE  RoundInv'
<1>1. node \in [Nodes -> NodeState] /\ node' = [node EXCEPT ![n] = t]
  BY DEF IInv, TypeOK, Update
<1>2. ASSUME NEW x \in Nodes PROVE FullInv(x, node'[x], Prepares(sent'))
  <2>1. CASE x = n
    BY <1>1, <2>1
  <2>2. CASE x # n
    <3>1. node'[x] = node[x] /\ FullInv(x, node[x], Prepares(sent))
      BY <1>1, <2>2 DEF RoundInv
    <3> QED
      BY <3>1, FullGrows
  <2> QED
    BY <2>1, <2>2
<1> QED
  BY <1>2 DEF RoundInv, NoEcho

\* What is known of each node
LEMMA RoundGood ==
  ASSUME IInv, RoundInv, NEW n \in Nodes
  PROVE  Good(n, node[n], Prepares(sent))
BY PreparesType DEF IInv, TypeOK, RoundInv, TimelyInv, Good

\* The sealer's and the timer's steps
LEMMA SealerFull ==
  ASSUME IInv, RoundInv, TimelyInv', NEW n \in Nodes,
         \/ LoadTransactions(n) \/ HandleBlock(n) \/ ReportNewBlock(n)
         \/ CheckTimeout(n) \/ ResetBlockForViewChange(n) \/ HandleViewChange(n)
  PROVE  RoundInv'
<1> DEFINE s == node[n]
           t == node'[n]
           Q == Prepares(sent)
<1>1. FullInv(n, s, Q)
  BY DEF RoundInv
<1>2. ASSUME Update(n, t), UNCHANGED <<inbox, sent>>, SameRest(s, t),
             t.sealing.phase = "handled" => t.sealing.number = Number(t) + 1
      PROVE  RoundInv'
  <2>1. Number(t) = Number(s)
    BY <1>2, SameRestKept
  <2>2. FullInv(n, t, Q)
    <3> HIDE DEF s, t, Q
    <3> QED
      BY <1>1, <1>2, <2>1 DEF FullInv, SameRest
  <2>3. NoEcho' /\ Prepares(sent') = Q
    BY <1>2 DEF RoundInv, NoEcho
  <2> QED
    BY <1>2, <2>2, <2>3, FullStep
<1>3. ASSUME SameRest(s, t), t.sealing = s.sealing
      PROVE  t.sealing.phase = "handled" => t.sealing.number = Number(t) + 1
  <2>1. Number(t) = Number(s)
    BY <1>3, SameRestKept
  <2> QED
    BY <1>1, <1>3, <2>1 DEF FullInv
<1>4. CASE LoadTransactions(n)
  BY <1>2, <1>4, LoadFields
<1>5. CASE HandleBlock(n)
  <2>1. SameRest(s, t) /\ t.sealing.number = Number(s) + 1
    BY <1>5, HandleFields
  <2>2. Number(t) = Number(s)
    BY <2>1, SameRestKept
  <2> QED
    BY <1>2, <1>5, <2>1, <2>2, HandleFields
<1>6. CASE ReportNewBlock(n)
  BY <1>2, <1>3, <1>6, ReportFields
<1>7. CASE CheckTimeout(n)
  BY <1>2, <1>3, <1>7, TimeoutFields
<1>8. CASE HandleViewChange(n)
  BY <1>2, <1>3, <1>8, ViewChangeFields
<1>9. CASE ResetBlockForViewChange(n)
  <2>1. /\ Update(n, t) /\ UNCHANGED <<inbox, sent>> /\ SameRest(s, t)
        /\ s.sealing.phase # "handled" /\ t.sealing \in {s.sealing, OpenSealing}
    BY <1>9, ResetFields
  <2>2. t.sealing.phase # "handled"
    BY <2>1 DEF OpenSealing
  <2> QED
    BY <1>2, <2>1, <2>2
<1> QED
  BY <1>4, <1>5, <1>6, <1>7, <1>8, <1>9

\* The votes
LEMMA VoteFull ==
  ASSUME FullSchedule, IInv, RoundInv, TimelyInv', NEW n \in Nodes, HandleSign(n) \/ HandleCommit(n)
  PROVE  RoundInv'
<1> DEFINE Q == Prepares(sent)
<1>1. Good(n, node[n], Q) /\ inbox[n] \subseteq Message /\ NoEcho
  BY RoundGood DEF IInv, TypeOK, RoundInv
<1>2. ASSUME NEW x, FullInv(n, x.st, Q), \A a \in x.out : a.type # "prepare",
             Update(n, x.st), NEW m \in inbox[n], Reply(n, m, x.out)
      PROVE  RoundInv'
  <2>1. sent' = sent \cup x.out
    BY <1>2 DEF Reply
  <2>2. Prepares(sent') = Q
    BY <1>2, <2>1, PreparesSame, ZenonT(60)
  <2>3. NoEcho'
    BY <1>1, <1>2, NoEchoStep, ZenonT(60)
  <2> QED
    BY <1>2, <2>2, <2>3, FullStep
<1>3. ASSUME NEW m \in inbox[n]
      PROVE  [p |-> m.p, by |-> m.by] \in Vote /\ m.p.round \in Nat
  BY <1>1 DEF Message, Vote, Proposal
<1>4. CASE HandleSign(n)
  <2>1. PICK m \in inbox[n] : \E x \in HandleSignMsg4nl(n, node[n], m) :
               Update(n, x.st) /\ Reply(n, m, x.out)
    BY <1>4 DEF HandleSign
  <2>2. PICK x \in HandleSignMsg4nl(n, node[n], m) : Update(n, x.st) /\ Reply(n, m, x.out)
    BY <2>1
  <2> DEFINE b == AddSignReq4nl(node[n], [p |-> m.p, by |-> m.by])
  <2>3. Good(n, b, Q) /\ b \in NodeState
    BY <1>1, <1>3, VotesGood DEF Good
  <2>4. FullInv(n, x.st, Q) /\ \A a \in x.out : a.type # "prepare"
    BY <2>2, <2>3, CommitFull, CommitAdvance, ZenonT(60) DEF HandleSignMsg4nl
  <2> QED
    BY <1>2, <2>2, <2>4
<1>5. CASE HandleCommit(n)
  <2>1. PICK m \in inbox[n] : \E x \in HandleCommitMsg4nl(n, node[n], m) :
               Update(n, x.st) /\ Reply(n, m, x.out)
    BY <1>5 DEF HandleCommit
  <2>2. PICK x \in HandleCommitMsg4nl(n, node[n], m) : Update(n, x.st) /\ Reply(n, m, x.out)
    BY <2>1
  <2> DEFINE b == AddCommitReq4nl(node[n], [p |-> m.p, by |-> m.by])
  <2>3. Good(n, b, Q)
    BY <1>1, <1>3, VotesGood
  <2>4. PICK u \in CheckAndSave4nl(n, b, m.p.round, m.p.idx) : x = [st |-> u, out |-> {}]
    BY <2>2 DEF HandleCommitMsg4nl
  <2>5. FullInv(n, u, Q)
    BY <1>3, <2>3, SaveFull
  <2>6. x.st = u /\ x.out = {}
    BY <2>4
  <2> QED
    BY <1>2, <2>2, <2>5, <2>6, ZenonT(60)
<1> QED
  BY <1>4, <1>5

\* What a prepare on its way proposes has been proposed.
LEMMA PrepareSent ==
  ASSUME NEW S, NEW type, NEW p, NEW by, [type |-> type, p |-> p, by |-> by] \in S,
         type = "prepare"
  PROVE  p \in Prepares(S)
<1> DEFINE a == [type |-> type, p |-> p, by |-> by]
<1>1. a \in S /\ a.type = "prepare" /\ a.p = p
  OBVIOUS
<1> HIDE DEF a
<1> QED
  BY <1>1 DEF Prepares

\* The prepares of other nodes
LEMMA PrepareFull ==
  ASSUME FullSchedule, IInv, RoundInv, TimelyInv', NEW n \in Nodes, HandlePrepare(n)
  PROVE  RoundInv'
<1> DEFINE Q == Prepares(sent)
<1>1. /\ Good(n, node[n], Q) /\ NoEcho
      /\ node[n] \in NodeState /\ ProposalInv(n, node[n], Q) /\ OnePerRound(Q)
      /\ Q \in SUBSET Proposal /\ FullInv(n, node[n], Q)
  BY RoundGood DEF RoundInv, Good
<1>2. PICK m \in inbox[n] :
        m.type = "prepare" /\ \E x \in HandlePrepareMsg4nl(n, node[n], m.p) :
                                Update(n, x.st) /\ Reply(n, m, x.out)
  BY DEF HandlePrepare
<1>3. PICK x \in HandlePrepareMsg4nl(n, node[n], m.p) : Update(n, x.st) /\ Reply(n, m, x.out)
  BY <1>2
<1>4. m.p \in Q /\ m.p \in Proposal /\ m.p.idx # n
  <2>1. [type |-> m.type, p |-> m.p, by |-> m.by] \in sent
    BY DEF IInv, InboxSent
  <2>2. m.p \in Q
    BY <1>2, <2>1, PrepareSent
  <2>3. m.p.idx # n
    BY <1>1, <1>2 DEF NoEcho
  <2> HIDE DEF Q
  <2> QED
    BY <1>1, <2>2, <2>3
<1> DEFINE b == Received(n, node[n], m.p)
<1>5. x \in OnlyGenerateSignMsg4nl(n, b, m.p) /\ b \in NodeState
  BY <1>1, <1>3, <1>4, ReceivedFields
<1>6. Good(n, b, Q)
  <2>1. ProposalInv(n, b, Q)
    BY <1>1, <1>4, ReceivedInv
  <2>2. FullInv(n, b, Q)
    BY <1>1, <1>4, ReceivedFull
  <2> QED
    BY <1>1, <1>5, <2>1, <2>2 DEF Good
<1> HIDE DEF b
<1>7. FullInv(n, x.st, Q) /\ \A a \in x.out : a.type # "prepare"
  BY <1>4, <1>5, <1>6, SignFull, SignAdvance
<1>8. sent' = sent \cup x.out
  BY <1>3 DEF Reply
<1>9. Prepares(sent') = Q
  BY <1>7, <1>8, PreparesSame, ZenonT(60)
<1>10. NoEcho'
  BY <1>1, <1>3, <1>7, NoEchoStep, ZenonT(60)
<1> QED
  BY <1>3, <1>7, <1>9, <1>10, FullStep

\* The node's own, which is for the next height
LEMMA ProposeFull ==
  ASSUME FullSchedule, IInv, RoundInv, TimelyInv', NEW n \in Nodes, GeneratePrepare(n)
  PROVE  RoundInv'
<1> DEFINE s == node[n]
           Q == Prepares(sent)
           p == SealedProposal(n, s)
           t == SealedState(s)
           b == Received(n, t, p)
           e == [type |-> "prepare", p |-> p, by |-> n]
           R == Q \cup {p}
<1>1. /\ s \in NodeState /\ ProposalInv(n, s, Q) /\ OnePerRound(Q)
      /\ Q \in SUBSET Proposal /\ FullInv(n, s, Q) /\ s.sealing.phase = "handled" /\ NoEcho
  BY RoundGood DEF Good, GeneratePrepare, RoundInv
<1>2. PICK x \in HandlePrepareMsg4nl(n, t, p) : Update(n, x.st) /\ Send(n, x.out \cup {e})
  BY ZenonT(60) DEF GeneratePrepare, SealedState, SealedProposal
<1>3. /\ p \in Proposal /\ t \in NodeState /\ t.chain = s.chain
      /\ t.prepareCache = s.prepareCache /\ t.globalSealingNodes = s.globalSealingNodes
      /\ t.sealing.phase = "sealed"
  BY <1>1, SealedFields
<1>4. p.idx = n /\ p.round = Number(s) + 1
  BY <1>1 DEF SealedProposal, FullInv
<1>5. OnePerRound(R) /\ ProposalInv(n, b, R)
  BY <1>1, ProposedInv
<1>6. e.type = "prepare" /\ e.p = p
  OBVIOUS
<1> HIDE DEF s, Q, p, t, e
<1>7. FullInv(n, t, Q) /\ Number(t) = Number(s)
  <2>1. Number(t) = Number(s)
    BY <1>3 DEF Number
  <2>2. /\ t.globalSealingNodes = N
        /\ \A a \in t.prepareCache : a.idx = n => a.round = Number(t) + 1
    BY <1>1, <1>3, <2>1 DEF FullInv
  <2>3. \A k \in DOMAIN t.chain :
          /\ t.chain[k].round = StartRound + k
          /\ \A a \in SubBlocks(t.chain[k]) : a \in Q /\ a.round = t.chain[k].round
          /\ \A i \in Nodes : \E a \in SubBlocks(t.chain[k]) : a.idx = i
    BY <1>1, <1>3 DEF FullInv
  <2> QED
    BY <1>3, <2>1, <2>2, <2>3 DEF FullInv
<1>8. x \in OnlyGenerateSignMsg4nl(n, b, p) /\ b \in NodeState
  BY <1>2, <1>3, ReceivedFields
<1>9. FullInv(n, b, R)
  <2>1. FullInv(n, b, Q)
    BY <1>3, <1>4, <1>7, ReceivedFull
  <2> HIDE DEF b
  <2> QED
    BY <2>1, FullGrows
<1> HIDE DEF b
<1>10. R \in SUBSET Proposal
  BY <1>1, <1>3
<1>11. Good(n, b, R)
  BY <1>5, <1>8, <1>9, <1>10 DEF Good
<1>12. FullInv(n, x.st, R) /\ \A a \in x.out : a.type # "prepare"
  BY <1>3, <1>8, <1>11, SignFull, SignAdvance
<1>13. Prepares(sent') = R
  <2>1. sent' = (sent \cup {e}) \cup x.out
    BY <1>2 DEF Send
  <2>2. Prepares(sent') = Prepares(sent \cup {e})
    BY <1>12, <2>1, PreparesSame, ZenonT(60)
  <2> QED
    BY <1>6, <2>2, PreparesAdd DEF Q
<1>14. NoEcho'
  <2>1. \A a \in x.out \cup {e} : a.type = "prepare" => a.p.idx = n
    BY <1>4, <1>6, <1>12
  <2> QED
    BY <1>1, <1>2, <2>1, NoEchoStep
<1> QED
  BY <1>2, <1>12, <1>13, <1>14, FullStep DEF Q

\* No block is saved, no prepare cached or on its way at first.
LEMMA RoundInit ==
  ASSUME FullSchedule, Init
  PROVE  RoundInv
<1>1. ASSUME NEW n \in Nodes
      PROVE  FullInv(n, node[n], Prepares(sent))
  <2>1. node[n] = InitState(n)
    BY DEF Init
  <2>2. /\ node[n].chain = <<>> /\ node[n].prepareCache = {}
        /\ node[n].sealing = OpenSealing
        /\ node[n].globalSealingNodes = NextSealingNodes(Seal0, StartRound)
    BY <2>1 DEF InitState
  <2>3. node[n].globalSealingNodes = N
    BY <2>2, FullScheduleStays, ConstantAssumption DEF FullSchedule
  <2>4. OpenSealing.phase = "open" /\ DOMAIN <<>> = {}
    BY DEF OpenSealing
  <2> QED
    BY <2>2, <2>3, <2>4 DEF FullInv
<1>2. NoEcho
  BY DEF Init, NoEcho
<1> QED
  BY <1>1, <1>2, TimelyInit DEF RoundInv

\* Every step of a timely execution keeps the invariant.
LEMMA RoundNextInv ==
  ASSUME FullSchedule, MaxRestarts = 0, IInv, RoundInv, [TimelyNext]_vars
  PROVE  RoundInv'
<1>0. TimelyInv'
  BY TimelyNextInv DEF RoundInv
<1>1. CASE UNCHANGED vars
  BY <1>0, <1>1, ZenonT(60) DEF vars, RoundInv, NoEcho, Prepares
<1>2. ASSUME NEW n \in Nodes, Restart(n) PROVE FALSE
  <2>1. node[n].restarts \in Nat /\ node[n].restarts < MaxRestarts
    BY <1>2, ZenonT(60) DEF IInv, TypeOK, NodeState, Restart
  <2> QED
    BY <2>1
<1>3. CASE TimelyNext
  <2>0. PICK n \in Nodes \ Down : HandleBlock(n) \/ CheckTimeout(n) \/ OtherStep(n)
    BY <1>3, ZenonT(60) DEF TimelyNext
  <2>1. n \in Nodes
    OBVIOUS
  <2>2. CASE HandlePrepare(n)
    BY <1>0, <2>1, <2>2, PrepareFull
  <2>3. CASE GeneratePrepare(n)
    BY <1>0, <2>1, <2>3, ProposeFull
  <2>4. CASE HandleSign(n) \/ HandleCommit(n)
    BY <1>0, <2>1, <2>4, VoteFull
  <2>5. CASE \/ LoadTransactions(n) \/ HandleBlock(n) \/ ReportNewBlock(n)
             \/ CheckTimeout(n) \/ ResetBlockForViewChange(n) \/ HandleViewChange(n)
    BY <1>0, <2>1, <2>5, SealerFull
  <2> QED
    BY <1>2, <2>0, <2>1, <2>2, <2>3, <2>4, <2>5, ZenonT(60) DEF OtherStep
<1> QED
  BY <1>1, <1>3

\* The invariant always holds in timely executions without restarts.
LEMMA RoundInvariance ==
  ASSUME FullSchedule, MaxRestarts = 0
  PROVE  TimelySpec => [](IInv /\ RoundInv)
<1>1. Init => IInv /\ RoundInv
  BY InitInv, RoundInit
<1>2. IInv /\ RoundInv /\ [TimelyNext]_vars => IInv' /\ RoundInv'
  BY NextInv, RoundNextInv, TimelyIsNext
<1> QED
  BY <1>1, <1>2, PTL DEF TimelySpec

\* checkAndSave4nl numbers the merged block after the chain and not after the
\* round.  When every node seals in every round the two agree: no round is
\* skipped, repeated or saved out of order, for every number of nodes and
\* however many commits fail.
THEOREM RoundsInOrder ==
  ASSUME FullSchedule, MaxRestarts = 0
  PROVE  TimelySpec => []RoundIsHeight
<1>1. IInv /\ RoundInv => RoundIsHeight
  BY DEF RoundInv, FullInv, RoundIsHeight
<1> QED
  BY <1>1, RoundInvariance, PTL

\* checkSignAndCommitAll4nl counts the sub-blocks of a round and compares no
\* hashes between nodes.  When every node seals in every round, any two nodes
\* that save a round have nevertheless merged the same sub-blocks.
THEOREM NodesAgree ==
  ASSUME FullSchedule, MaxRestarts = 0
  PROVE  TimelySpec => []RoundAgreement
<1>1. IInv /\ RoundInv => RoundAgreement
  <2> SUFFICES ASSUME IInv, RoundInv, NEW n \in Nodes, NEW m \in Nodes,
                      NEW b \in DOMAIN node[n].chain, NEW c \in DOMAIN node[m].chain,
                      node[n].chain[b].round = node[m].chain[c].round
               PROVE  SubBlocks(node[n].chain[b]) = SubBlocks(node[m].chain[c])
    BY DEF RoundAgreement
  <2> DEFINE Q == Prepares(sent)
             A == SubBlocks(node[n].chain[b])
             B == SubBlocks(node[m].chain[c])
             r == node[n].chain[b].round
  <2>1. Q \in SUBSET Proposal /\ OnePerRound(Q)
    BY PreparesType DEF RoundInv, TimelyInv
  <2>2. /\ \A p \in A : p \in Q /\ p.round = r
        /\ \A p \in B : p \in Q /\ p.round = r
        /\ \A i \in Nodes : \E p \in A : p.idx = i
        /\ \A i \in Nodes : \E p \in B : p.idx = i
    BY DEF RoundInv, FullInv
  <2> HIDE DEF Q, A, B, r
  <2>3. ASSUME NEW p \in A PROVE p \in B
    <3>1. PICK q \in B : q.idx = p.idx
      BY <2>1, <2>2 DEF Proposal
    <3> QED
      BY <2>1, <2>2, <3>1 DEF OnePerRound
  <2>4. ASSUME NEW p \in B PROVE p \in A
    <3>1. PICK q \in A : q.idx = p.idx
      BY <2>1, <2>2 DEF Proposal
    <3> QED
      BY <2>1, <2>2, <3>1 DEF OnePerRound
  <2>5. A = B
    BY <2>3, <2>4, ZenonT(60)
  <2> QED
    BY <2>5 DEF A, B
<1> QED
  BY <1>1, RoundInvariance, PTL
===============================================================================
