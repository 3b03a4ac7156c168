--------------------------- MODULE LeaderlessProofs ---------------------------
(***************************************************************************)
(* Proofs about Leaderless, for every number of nodes, every schedule and  *)
(* every bound: type correctness, and the quorum behind every commit and   *)
(* every saved sub-block.                                                  *)
(*                                                                         *)
(* The inductive invariant says of each node that the votes in its caches  *)
(* were broadcast (Backed), of the network that it invents nothing, and    *)
(* carries the two quorum properties along.                                *)
(***************************************************************************)
EXTENDS Leaderless, FiniteSetTheorems, TLAPS

\* A leaf that names no prover is for the SMT solver, with a minute of time.
USE SMTT(60)

-----------------------------------------------------------------------------
\* Counting: what a number of votes or requests says about nodes.

\* A set of minValidNodes nodes is more than two thirds of them.
LEMMA QuorumIsTwoThirds ==
  /\ MinValidNodes \in Nat /\ F \in Nat
  /\ \A k \in Nat : k >= MinValidNodes => 3 * k > 2 * N
BY NAssumption DEF MinValidNodes, F

\* The set of nodes is finite.
LEMMA NodesFinite == IsFiniteSet(Nodes)
BY NAssumption, FS_Interval DEF Nodes

\* Sets of nodes have a size, which grows with the set.
LEMMA NodeSets ==
  ASSUME NEW W \in SUBSET Nodes, NEW V \in SUBSET W
  PROVE  /\ IsFiniteSet(W) /\ IsFiniteSet(V)
         /\ Cardinality(W) \in Nat /\ Cardinality(V) \in Nat
         /\ Cardinality(V) <= Cardinality(W)
<1>1. IsFiniteSet(W)
  BY NodesFinite, FS_Subset
<1>2. IsFiniteSet(V) /\ Cardinality(V) <= Cardinality(W)
  BY <1>1, FS_Subset
<1> QED
  BY <1>1, <1>2, FS_CardinalityType

\* Things that belong to different nodes are no more than the nodes they
\* belong to.
LEMMA OnePerNode ==
  ASSUME NEW C, NEW W \in SUBSET Nodes, NEW f \in [C -> W],
         \A a, b \in C : f[a] = f[b] => a = b
  PROVE  /\ Cardinality(C) \in Nat /\ Cardinality(W) \in Nat
         /\ Cardinality(C) <= Cardinality(W)
<1>1. f \in Injection(C, W)
  BY DEF Injection, IsInjective
<1>2. IsFiniteSet(W) /\ Cardinality(W) \in Nat
  BY NodeSets
<1>3. IsFiniteSet(C) /\ Cardinality(C) <= Cardinality(W)
  BY <1>1, <1>2, FS_Injection
<1> QED
  BY <1>2, <1>3, FS_CardinalityType

\* A set of nodes stays more than two thirds when it grows.
LEMMA TwoThirdsGrows ==
  ASSUME NEW W \in SUBSET Nodes, NEW V \in SUBSET W, TwoThirds(V)
  PROVE  TwoThirds(W)
<1>1. /\ Cardinality(W) \in Nat /\ Cardinality(V) \in Nat
      /\ Cardinality(V) <= Cardinality(W)
  BY NodeSets
<1> QED
  BY <1>1, NAssumption DEF TwoThirds

-----------------------------------------------------------------------------
VotersIn(S, type, p) == {n \in Nodes : [type |-> type, p |-> p, by |-> n] \in S}

\* Every vote in the caches of s is in S
Backed(s, S) ==
  /\ \A v \in s.signCache : [type |-> "sign", p |-> v.p, by |-> v.by] \in S
  /\ \A v \in s.commitCache : [type |-> "commit", p |-> v.p, by |-> v.by] \in S

Certified(p, S) ==
  TwoThirds(VotersIn(S, "sign", p)) /\ TwoThirds(VotersIn(S, "commit", p))

ChainCertified(s, S) ==
  \A b \in DOMAIN s.chain : \A i \in DOMAIN s.chain[b].subs :
    Certified(s.chain[b].subs[i], S)

\* What holds of one node's state when S is what has been broadcast
LocalInv(s, S) == s \in NodeState /\ Backed(s, S) /\ ChainCertified(s, S)

CommitsBackedIn(C, S) ==
  \A c \in C : c.type = "commit" => TwoThirds(VotersIn(S, "sign", c.p))

InboxSent ==
  \A n \in Nodes : \A m \in inbox[n] : [type |-> m.type, p |-> m.p, by |-> m.by] \in sent

IInv ==
  /\ TypeOK
  /\ \A n \in Nodes : LocalInv(node[n], sent)
  /\ InboxSent
  /\ CommitsBackedIn(sent, sent)

-----------------------------------------------------------------------------
(***************************************************************************)
(* Counting votes.                                                         *)
(***************************************************************************)
\* The votes a cache holds for a proposal are no more than the nodes that
\* broadcast one, when each cached vote was broadcast.
LEMMA CountVotes ==
  ASSUME NEW C \in SUBSET Vote, NEW S, NEW p, NEW type,
         \A v \in C : [type |-> type, p |-> v.p, by |-> v.by] \in S,
         Cardinality({v \in C : v.p = p}) >= MinValidNodes
  PROVE  TwoThirds(VotersIn(S, type, p))
<1> DEFINE V == {v \in C : v.p = p}
           W == VotersIn(S, type, p)
           f == [v \in V |-> v.by]
<1>1. W \in SUBSET Nodes
  BY DEF VotersIn
<1>2. f \in [V -> W]
  <2>1. \A v \in V : v.by \in W
    BY DEF VotersIn, Vote
  <2> QED
    BY <2>1
<1>3. \A a, b \in V : f[a] = f[b] => a = b
  BY DEF Vote
<1>4. /\ Cardinality(V) \in Nat /\ Cardinality(W) \in Nat
      /\ Cardinality(V) <= Cardinality(W)
  <2> HIDE DEF V, W, f
  <2> QED
    BY <1>1, <1>2, <1>3, OnePerNode
<1>5. Cardinality(W) >= MinValidNodes
  BY <1>4, QuorumIsTwoThirds
<1> QED
  BY <1>4, <1>5, QuorumIsTwoThirds DEF TwoThirds

\* More broadcasts never undo a quorum.
LEMMA VotersGrow ==
  ASSUME NEW S, NEW T, S \subseteq T, NEW p, NEW type, TwoThirds(VotersIn(S, type, p))
  PROVE  TwoThirds(VotersIn(T, type, p))
<1>1. /\ VotersIn(S, type, p) \in SUBSET VotersIn(T, type, p)
      /\ VotersIn(T, type, p) \in SUBSET Nodes
  BY DEF VotersIn
<1> QED
  BY <1>1, TwoThirdsGrows

-----------------------------------------------------------------------------
(***************************************************************************)
(* One node's state.                                                       *)
(***************************************************************************)
\* A node's invariant survives broadcasts, its own or another's.
LEMMA LocalInvGrows ==
  ASSUME NEW s, NEW S, NEW T, S \subseteq T, LocalInv(s, S)
  PROVE  LocalInv(s, T)
<1>1. Backed(s, T)
  BY DEF LocalInv, Backed
<1>2. ChainCertified(s, T)
  BY VotersGrow DEF LocalInv, ChainCertified, Certified
<1> QED
  BY <1>1, <1>2 DEF LocalInv

\* addSignReq4nl and addCommitReq4nl add only the vote they are given.
LEMMA AddVote ==
  ASSUME NEW s, NEW S, LocalInv(s, S), NEW v \in Vote
  PROVE  /\ [type |-> "sign", p |-> v.p, by |-> v.by] \in S
              => LocalInv(AddSignReq4nl(s, v), S)
         /\ [type |-> "commit", p |-> v.p, by |-> v.by] \in S
              => LocalInv(AddCommitReq4nl(s, v), S)
         /\ AddSignReq4nl(s, v).prepareCache = s.prepareCache
         /\ AddCommitReq4nl(s, v).prepareCache = s.prepareCache
         /\ AddCommitReq4nl(s, v).signCache = s.signCache
<1>1. s \in NodeState
  BY DEF LocalInv
<1>2. AddSignReq4nl(s, v) \in NodeState /\ AddCommitReq4nl(s, v) \in NodeState
  BY <1>1 DEF AddSignReq4nl, AddCommitReq4nl, NodeState
<1>3. /\ AddSignReq4nl(s, v).chain = s.chain
      /\ AddCommitReq4nl(s, v).chain = s.chain
      /\ AddSignReq4nl(s, v).commitCache = s.commitCache
      /\ AddCommitReq4nl(s, v).signCache = s.signCache
      /\ AddSignReq4nl(s, v).prepareCache = s.prepareCache
      /\ AddCommitReq4nl(s, v).prepareCache = s.prepareCache
      /\ AddSignReq4nl(s, v).signCache \subseteq s.signCache \cup {v}
      /\ AddCommitReq4nl(s, v).commitCache \subseteq s.commitCache \cup {v}
  BY <1>1 DEF AddSignReq4nl, AddCommitReq4nl, NodeState
<1> QED
  BY <1>2, <1>3 DEF LocalInv, Backed, ChainCertified

\* The schedule always names at least one sealer.
LEMMA RescheduleType ==
  ASSUME NEW s, NEW S, LocalInv(s, S), NEW n \in Nodes, NEW r \in Nat
  PROVE  /\ LocalInv(Reschedule(n, s, r), S)
         /\ \A q : PreparesOf(Reschedule(n, s, r), q) = PreparesOf(s, q)
<1> DEFINE t == Reschedule(n, s, r)
           k == NextSealingNodes(s.globalSealingNodes, r)
           b == NextNotify(n, s.globalSealingNodes, r)
<1>1. s \in NodeState
  BY DEF LocalInv
<1>2. k \in Nat \ {0} /\ b \in BOOLEAN
  BY <1>1, ConstantAssumption DEF NextSealingNodes, NextNotify, NodeState
<1>3. t = [s EXCEPT !.globalSealingNodes = k, !.notifyNextLeaderSeal = b]
  BY DEF Reschedule
<1> HIDE DEF k, b, t
<1>4. /\ t \in NodeState
      /\ t.chain = s.chain /\ t.prepareCache = s.prepareCache
      /\ t.signCache = s.signCache /\ t.commitCache = s.commitCache
  BY <1>1, <1>2, <1>3, ZenonT(60) DEF NodeState
<1>5. LocalInv(t, S)
  BY <1>4 DEF LocalInv, Backed, ChainCertified
<1> QED
  BY <1>4, <1>5 DEF t, PreparesOf

\* A sub-block that passes checkSignAndCommitOnePre4nl has its quorums.
LEMMA OnePreCertified ==
  ASSUME NEW s, NEW S, LocalInv(s, S), NEW p, CheckSignAndCommitOnePre4nl(s, p)
  PROVE  Certified(p, S)
<1>1. s.signCache \in SUBSET Vote /\ s.commitCache \in SUBSET Vote
  BY DEF LocalInv, NodeState
<1>2. TwoThirds(VotersIn(S, "sign", p))
  BY <1>1, CountVotes, ZenonT(60)
     DEF LocalInv, Backed, CheckSignAndCommitOnePre4nl, GetSigCacheSize4nl
<1>3. TwoThirds(VotersIn(S, "commit", p))
  BY <1>1, CountVotes
     DEF LocalInv, Backed, CheckSignAndCommitOnePre4nl, GetCommitCacheSize4nl
<1> QED
  BY <1>2, <1>3 DEF Certified

\* Committing a merged block of certified sub-blocks keeps a node's invariant.
LEMMA CommittedInv ==
  ASSUME NEW s, NEW S, LocalInv(s, S), NEW r \in Nat, NEW o \in Seq(Proposal),
         \A i \in DOMAIN o : Certified(o[i], S)
  PROVE  LocalInv(Committed(s, r, o), S)
<1> DEFINE blk == [round |-> r, subs |-> o]
           pl == s.pool \ UNION {p.txs : p \in PreparesOf(s, r)}
           c == Append(s.chain, blk)
           u == [s EXCEPT !.chain = c, !.highestblockNumber = r, !.pool = pl]
           t == Committed(s, r, o)
<1>1. s \in NodeState /\ blk \in Block /\ pl \in SUBSET Txs
  BY DEF LocalInv, NodeState, Block
<1>2. t = DelCache4nl(u, r)
  BY DEF Committed
<1> HIDE DEF blk, pl, t
<1>a. s.chain \in Seq(Block) /\ c \in Seq(Block)
  BY <1>1 DEF NodeState
<1> HIDE DEF c
<1>3. u \in NodeState
  BY <1>1, <1>a, ZenonT(60) DEF NodeState
<1>4. u.chain = c /\ u.signCache = s.signCache
       /\ u.commitCache = s.commitCache
  BY <1>1 DEF NodeState
<1> HIDE DEF u
<1>5. /\ t \in NodeState /\ t.chain = c
      /\ t.signCache \subseteq s.signCache /\ t.commitCache \subseteq s.commitCache
  BY <1>2, <1>3, <1>4, ZenonT(60) DEF DelCache4nl, NodeState
<1>6. ChainCertified(t, S)
  <2> SUFFICES ASSUME NEW b \in DOMAIN t.chain, NEW i \in DOMAIN t.chain[b].subs
               PROVE  Certified(t.chain[b].subs[i], S)
    BY DEF ChainCertified
  <2>1. CASE b \in DOMAIN s.chain
    <3>1. t.chain[b] = s.chain[b]
      BY <1>1, <1>a, <1>5, <2>1 DEF c
    <3> QED
      BY <2>1, <3>1 DEF LocalInv, ChainCertified
  <2>2. CASE b \notin DOMAIN s.chain
    <3>1. t.chain[b] = blk
      BY <1>1, <1>a, <1>5, <2>2 DEF c
    <3> QED
      BY <3>1 DEF blk
  <2> QED
    BY <2>1, <2>2
<1> QED
  BY <1>5, <1>6 DEF LocalInv, Backed, t

\* checkAndSave4nl keeps a node's invariant, whether it saves, fails or returns.
LEMMA CheckAndSaveInv ==
  ASSUME NEW s, NEW S, LocalInv(s, S), NEW n \in Nodes, NEW r \in Nat, NEW idx,
         NEW t \in CheckAndSave4nl(n, s, r, idx)
  PROVE  LocalInv(t, S)
<1> DEFINE u == Reschedule(n, s, r)
           P == PreparesOf(s, r)
<1>0. CASE t = s
  BY <1>0
<1>1. CASE /\ CheckSignAndCommitAll4nl(s, r)
           /\ \E o \in MergeOrders(P) : t = Committed(u, r, o)
  <2>1. PICK o \in MergeOrders(P) : t = Committed(u, r, o)
    BY <1>1
  <2>2. Cardinality(P) \in Nat /\ P \subseteq Proposal
    BY <1>1 DEF CheckSignAndCommitAll4nl, LocalInv, NodeState, PreparesOf
  <2>3. o \in [1 .. Cardinality(P) -> P]
    BY <2>1 DEF MergeOrders
  <2>4. o \in Seq(Proposal)
    BY <2>2, <2>3
  <2>5. \A p \in P : Certified(p, S)
    BY <1>1, OnePreCertified DEF CheckSignAndCommitAll4nl
  <2>6. \A i \in DOMAIN o : Certified(o[i], S)
    BY <2>3, <2>5
  <2> QED
    BY <2>1, <2>4, <2>6, RescheduleType, CommittedInv
<1>2. CASE t = CommitFailed(u)
  <2>1. LocalInv(u, S)
    BY RescheduleType
  <2>2. u \in NodeState
    BY <2>1 DEF LocalInv
  <2> HIDE DEF u
  <2>3. /\ t \in NodeState /\ t.chain = u.chain
        /\ t.signCache = u.signCache /\ t.commitCache = u.commitCache
    BY <1>2, <2>2 DEF CommitFailed, NodeState
  <2> QED
    BY <2>1, <2>3 DEF LocalInv, Backed, ChainCertified
<1> QED
  BY <1>0, <1>1, <1>2 DEF CheckAndSave4nl

\* Only the chain and the vote caches matter to a node's invariant.
LEMMA LocalInvSame ==
  ASSUME NEW s, NEW S, LocalInv(s, S), NEW t \in NodeState,
         t.chain = s.chain, t.signCache = s.signCache, t.commitCache = s.commitCache
  PROVE  LocalInv(t, S)
BY DEF LocalInv, Backed, ChainCertified

\* A cache counts a number of votes.
LEMMA VoteCountType ==
  ASSUME NEW C \in SUBSET Vote, NEW p
  PROVE  Cardinality({v \in C : v.p = p}) \in Nat
<1> DEFINE V == {v \in C : v.p = p}
           f == [v \in V |-> v.by]
<1>1. f \in [V -> Nodes] /\ \A a, b \in V : f[a] = f[b] => a = b
  BY DEF Vote
<1>2. f \in Injection(V, Nodes)
  BY <1>1 DEF Injection, IsInjective
<1>3. IsFiniteSet(V)
  BY <1>2, NodesFinite, FS_Injection
<1> QED
  BY <1>3, FS_CardinalityType

-----------------------------------------------------------------------------
(***************************************************************************)
(* The handlers.  A result is good when it broadcasts well-formed requests *)
(* and the node's invariant holds once they are broadcast.                 *)
(***************************************************************************)
GoodResult(x, S) ==
  /\ x.out \subseteq Sent
  /\ LocalInv(x.st, S \cup x.out)
  /\ CommitsBackedIn(x.out, S \cup x.out)

\* checkAndCommit4nl sends a commit only on top of a quorum of signatures.
LEMMA CheckAndCommitGood ==
  ASSUME NEW s, NEW S, LocalInv(s, S), NEW n \in Nodes, NEW r, NEW idx, NEW byself,
         NEW x \in CheckAndCommit4nl(n, s, r, idx, byself)
  PROVE  GoodResult(x, S)
<1> DEFINE P == CommitTargets(s, r, idx, byself)
<1>1. CASE x = [st |-> s, out |-> {}]
  <2>1. x.out = {} /\ x.st = s /\ S \cup x.out = S
    BY <1>1
  <2> QED
    BY <2>1 DEF GoodResult, CommitsBackedIn
<1>2. CASE \E p \in P : \E t \in Commit(n, s, p) :
             x = [st |-> t, out |-> {[type |-> "commit", p |-> p, by |-> n]}]
  <2>0. PICK p \in P : \E t \in Commit(n, s, p) :
             x = [st |-> t, out |-> {[type |-> "commit", p |-> p, by |-> n]}]
    BY <1>2, ZenonT(60)
  <2>1. PICK t \in Commit(n, s, p) :
             x = [st |-> t, out |-> {[type |-> "commit", p |-> p, by |-> n]}]
    BY <2>0, ZenonT(60)
  <2> DEFINE c == [type |-> "commit", p |-> p, by |-> n]
             T == S \cup {c}
             a == AddCommitReq4nl(s, [p |-> p, by |-> n])
  <2>2. p \in Proposal /\ p.round \in Nat
    BY DEF CommitTargets, PreparesOf, LocalInv, NodeState, Proposal
  <2>3. [p |-> p, by |-> n] \in Vote /\ c \in Sent
    BY <2>2 DEF Vote, Sent
  <2>4. LocalInv(s, T)
    BY LocalInvGrows
  <2>5. LocalInv(a, T)
    BY <2>3, <2>4, AddVote, ZenonT(60)
  <2>6. LocalInv(t, T)
    BY <2>2, <2>5, CheckAndSaveInv DEF Commit
  <2>7. s.signCache \in SUBSET Vote
    BY DEF LocalInv, NodeState
  <2>8. GetSigCacheSize4nl(s, p) >= MinValidNodes
    <3>1. GetSigCacheSize4nl(s, p) \in Nat
      BY <2>7, VoteCountType, ZenonT(60) DEF GetSigCacheSize4nl
    <3>2. \/ GetSigCacheSize4nl(s, p) = MinValidNodes
          \/ GetSigCacheSize4nl(s, p) > MinValidNodes
      BY DEF CommitTargets
    <3> QED
      BY <3>1, <3>2, QuorumIsTwoThirds
  <2>9. TwoThirds(VotersIn(S, "sign", p))
    BY <2>7, <2>8, CountVotes, ZenonT(60) DEF GetSigCacheSize4nl, LocalInv, Backed
  <2>10. TwoThirds(VotersIn(T, "sign", p))
    BY <2>9, VotersGrow
  <2>11. x.out = {c} /\ x.st = t
    BY <2>1
  <2> QED
    BY <2>3, <2>6, <2>10, <2>11 DEF GoodResult, CommitsBackedIn
<1> QED
  BY <1>1, <1>2 DEF CheckAndCommit4nl

\* OnlyGenerateSignMsg4nl broadcasts the node's signature and what follows.
LEMMA GenerateSignGood ==
  ASSUME NEW s, NEW S, LocalInv(s, S), NEW n \in Nodes, NEW p \in Proposal,
         NEW x \in OnlyGenerateSignMsg4nl(n, s, p)
  PROVE  GoodResult(x, S)
<1> DEFINE g == [type |-> "sign", p |-> p, by |-> n]
           a == AddSignReq4nl(s, [p |-> p, by |-> n])
           T == S \cup {g}
<1>1. PICK y \in CheckAndCommit4nl(n, a, p.round, p.idx, TRUE) :
             x = [st |-> y.st, out |-> y.out \cup {g}]
  BY ZenonT(60) DEF OnlyGenerateSignMsg4nl
<1>2. [p |-> p, by |-> n] \in Vote /\ g \in Sent
  BY DEF Vote, Sent
<1>3. LocalInv(a, T)
  <2>1. LocalInv(s, T)
    BY LocalInvGrows
  <2> QED
    BY <1>2, <2>1, AddVote, ZenonT(60)
<1>4. GoodResult(y, T)
  BY <1>1, <1>3, CheckAndCommitGood, ZenonT(60)
<1>5. x.st = y.st /\ x.out = y.out \cup {g}
  BY <1>1
<1>6. S \cup x.out = T \cup y.out
  BY <1>5
<1> HIDE DEF T
<1>7. LocalInv(x.st, S \cup x.out)
  BY <1>4, <1>5, <1>6 DEF GoodResult
<1>8. CommitsBackedIn(x.out, S \cup x.out)
  <2>1. CommitsBackedIn(y.out, S \cup x.out)
    BY <1>4, <1>6 DEF GoodResult
  <2>2. g.type # "commit"
    OBVIOUS
  <2> QED
    BY <1>5, <2>1, <2>2 DEF CommitsBackedIn
<1> QED
  BY <1>2, <1>4, <1>5, <1>7, <1>8 DEF GoodResult

\* The three message handlers, and generatePrepare's call of the first.
LEMMA HandlersGood ==
  ASSUME NEW s, NEW S, LocalInv(s, S), NEW n \in Nodes
  PROVE  /\ \A p \in Proposal : \A x \in HandlePrepareMsg4nl(n, s, p) : GoodResult(x, S)
         /\ \A m \in Message :
              /\ [type |-> "sign", p |-> m.p, by |-> m.by] \in S =>
                   \A x \in HandleSignMsg4nl(n, s, m) : GoodResult(x, S)
              /\ [type |-> "commit", p |-> m.p, by |-> m.by] \in S =>
                   \A x \in HandleCommitMsg4nl(n, s, m) : GoodResult(x, S)
<1>1. ASSUME NEW p \in Proposal, NEW x \in HandlePrepareMsg4nl(n, s, p)
      PROVE  GoodResult(x, S)
  <2> DEFINE t == IF p.idx = n THEN s ELSE [s EXCEPT !.pool = @ \ p.txs]
             a == AddPrepareReq4nl(t, p)
  <2>1. s \in NodeState
    BY DEF LocalInv
  <2>2. /\ t \in NodeState /\ t.chain = s.chain
        /\ t.signCache = s.signCache /\ t.commitCache = s.commitCache
    BY <2>1, ZenonT(60) DEF NodeState
  <2> HIDE DEF t
  <2>3. /\ a \in NodeState /\ a.chain = t.chain
        /\ a.signCache = t.signCache /\ a.commitCache = t.commitCache
    BY <2>2 DEF AddPrepareReq4nl, NodeState
  <2>4. LocalInv(a, S)
    BY <2>2, <2>3, LocalInvSame
  <2> QED
    BY <2>4, GenerateSignGood DEF HandlePrepareMsg4nl, t
<1>2. ASSUME NEW m \in Message
      PROVE  [p |-> m.p, by |-> m.by] \in Vote /\ m.p.round \in Nat
  BY DEF Message, Vote, Proposal
<1>3. ASSUME NEW m \in Message, [type |-> "sign", p |-> m.p, by |-> m.by] \in S,
             NEW x \in HandleSignMsg4nl(n, s, m)
      PROVE  GoodResult(x, S)
  <2>1. LocalInv(AddSignReq4nl(s, [p |-> m.p, by |-> m.by]), S)
    BY <1>2, <1>3, AddVote, ZenonT(60)
  <2> QED
    BY <1>3, <2>1, CheckAndCommitGood, ZenonT(60) DEF HandleSignMsg4nl
<1>4. ASSUME NEW m \in Message, [type |-> "commit", p |-> m.p, by |-> m.by] \in S,
             NEW x \in HandleCommitMsg4nl(n, s, m)
      PROVE  GoodResult(x, S)
  <2> DEFINE a == AddCommitReq4nl(s, [p |-> m.p, by |-> m.by])
  <2>1. LocalInv(a, S)
    BY <1>2, <1>4, AddVote, ZenonT(60)
  <2>2. PICK t \in CheckAndSave4nl(n, a, m.p.round, m.p.idx) : x = [st |-> t, out |-> {}]
    BY <1>4 DEF HandleCommitMsg4nl
  <2>3. LocalInv(t, S)
    BY <1>2, <2>1, <2>2, CheckAndSaveInv
  <2>4. x.st = t /\ x.out = {} /\ S \cup x.out = S
    BY <2>2
  <2> QED
    BY <2>3, <2>4 DEF GoodResult, CommitsBackedIn
<1> QED
  BY <1>1, <1>3, <1>4

-----------------------------------------------------------------------------
(***************************************************************************)
(* Steps of the system.                                                    *)
(***************************************************************************)
\* Neither a broadcast nor the forwarding of a request invents a request.
LEMMA NetworkStep ==
  ASSUME IInv, NEW n \in Nodes, NEW out, out \subseteq Sent,
         Send(n, out) \/ \E m \in inbox[n] : Reply(n, m, out)
  PROVE  /\ inbox' \in [Nodes -> SUBSET Message] /\ InboxSent'
         /\ sent' = sent \cup out
<1>1. \A m \in Broadcast(n, out) :
        m \in Message /\ [type |-> m.type, p |-> m.p, by |-> m.by] \in sent \cup out
  BY ConstantAssumption DEF Broadcast, Message, Sent
<1>2. ASSUME NEW m \in inbox[n], NEW x, NEW f \in ForwardMsgByTTL(n, m, x)
      PROVE  f \in Message /\ [type |-> f.type, p |-> f.p, by |-> f.by] \in sent
  <2>1. m \in Message /\ [type |-> m.type, p |-> m.p, by |-> m.by] \in sent
    BY DEF IInv, TypeOK, InboxSent
  <2>2. f = [m EXCEPT !.from = n, !.ttl = m.ttl - 1] /\ m.ttl > 1
    BY DEF ForwardMsgByTTL
  <2>3. m.ttl - 1 \in 1 .. MaxTTL
    BY <2>1, <2>2, ConstantAssumption DEF Message
  <2> QED
    BY <2>1, <2>2, <2>3, ZenonT(60) DEF Message
<1>3. inbox \in [Nodes -> SUBSET Message]
  BY DEF IInv, TypeOK
<1>4. sent' = sent \cup out
  BY DEF Send, Reply
<1>5. \A x \in Nodes : \A y \in inbox'[x] :
        \/ y \in inbox[x]
        \/ y \in Broadcast(n, out)
        \/ \E m \in inbox[n] : y \in ForwardMsgByTTL(n, m, x)
  BY DEF Send, Reply
<1>6. inbox' = [x \in Nodes |-> inbox'[x]]
  BY DEF Send, Reply
<1>7. \A x \in Nodes : \A y \in inbox'[x] :
        y \in Message /\ [type |-> y.type, p |-> y.p, by |-> y.by] \in sent'
  BY <1>1, <1>2, <1>3, <1>4, <1>5, ZenonT(60) DEF IInv, InboxSent
<1> QED
  BY <1>4, <1>6, <1>7, ZenonT(60) DEF InboxSent

\* A step of node n to t that broadcasts out keeps the invariant when t is
\* good and the network invents nothing.
LEMMA NodeStep ==
  ASSUME IInv, NEW n \in Nodes, NEW t, Update(n, t),
         NEW out, out \subseteq Sent, sent' = sent \cup out,
         LocalInv(t, sent'), CommitsBackedIn(out, sent'),
         inbox' \in [Nodes -> SUBSET Message], InboxSent'
  PROVE  IInv'
<1>1. node \in [Nodes -> NodeState] /\ sent \subseteq Sent
  BY DEF IInv, TypeOK
<1>2. t \in NodeState
  BY DEF LocalInv
<1>3. TypeOK'
  BY <1>1, <1>2 DEF TypeOK, Update
<1>4. \A x \in Nodes : LocalInv(node'[x], sent')
  <2> TAKE x \in Nodes
  <2>1. LocalInv(node[x], sent')
    BY LocalInvGrows DEF IInv
  <2>2. node'[x] = IF x = n THEN t ELSE node[x]
    BY <1>1 DEF Update
  <2> QED
    BY <2>1, <2>2
<1>5. CommitsBackedIn(sent', sent')
  BY VotersGrow DEF IInv, CommitsBackedIn
<1> QED
  BY <1>3, <1>4, <1>5 DEF IInv

\* A step that broadcasts nothing and leaves chain and vote caches alone
LEMMA QuietStep ==
  ASSUME IInv, NEW n \in Nodes, NEW t \in NodeState, Update(n, t),
         t.chain = node[n].chain, t.signCache = node[n].signCache,
         t.commitCache = node[n].commitCache, UNCHANGED <<inbox, sent>>
  PROVE  IInv'
<1>1. LocalInv(t, sent)
  BY LocalInvSame DEF IInv
<1>2. /\ sent' = sent \cup {} /\ LocalInv(t, sent') /\ CommitsBackedIn({}, sent')
      /\ inbox' \in [Nodes -> SUBSET Message] /\ InboxSent'
  BY <1>1 DEF IInv, TypeOK, InboxSent, CommitsBackedIn
<1> QED
  BY <1>2, NodeStep

\* A step that handles a request or proposes, with a good result
LEMMA ResultStep ==
  ASSUME IInv, NEW n \in Nodes, NEW x, GoodResult(x, sent), Update(n, x.st),
         NEW e, e \subseteq Sent, \A c \in e : c.type # "commit",
         Send(n, x.out \cup e) \/ \E m \in inbox[n] : Reply(n, m, x.out \cup e)
  PROVE  IInv'
<1> DEFINE out == x.out \cup e
<1>1. out \subseteq Sent
  BY DEF GoodResult
<1>2. /\ inbox' \in [Nodes -> SUBSET Message] /\ InboxSent'
      /\ sent' = sent \cup out
  BY <1>1, NetworkStep, ZenonT(60)
<1>3. LocalInv(x.st, sent')
  BY <1>2, LocalInvGrows DEF GoodResult
<1>4. CommitsBackedIn(out, sent')
  BY <1>2, VotersGrow DEF GoodResult, CommitsBackedIn
<1> QED
  BY <1>1, <1>2, <1>3, <1>4, NodeStep

-----------------------------------------------------------------------------
(***************************************************************************)
(* The inductive invariant.                                                *)
(***************************************************************************)
\* What a sequence is, and what appending to it gives.
LEMMA SeqFacts ==
  ASSUME NEW S, NEW seq \in Seq(S)
  PROVE  Len(seq) \in Nat /\ DOMAIN seq = 1 .. Len(seq) /\ \A i \in 1 .. Len(seq) : seq[i] \in S
OBVIOUS

\* What Append does to a chain.
LEMMA AppendFacts ==
  ASSUME NEW S, NEW seq \in Seq(S), NEW elt \in S
  PROVE  /\ Append(seq, elt) \in Seq(S)
         /\ Len(Append(seq, elt)) = Len(seq) + 1
         /\ DOMAIN Append(seq, elt) = 1 .. Len(seq) + 1
         /\ \A i \in 1 .. Len(seq) : Append(seq, elt)[i] = seq[i]
         /\ Append(seq, elt)[Len(seq) + 1] = elt
OBVIOUS

\* The height of a node's chain is a number.
LEMMA NumberType ==
  ASSUME NEW s \in NodeState
  PROVE  Number(s) \in Nat
<1>1. s.chain \in Seq(Block)
  BY DEF NodeState
<1> QED
  BY <1>1, SeqFacts, ConstantAssumption DEF Number

\* Every node starts with empty caches and an empty chain.
LEMMA InitStateType ==
  ASSUME NEW n \in Nodes
  PROVE  /\ InitState(n) \in NodeState
         /\ InitState(n).chain = <<>>
         /\ InitState(n).signCache = {} /\ InitState(n).commitCache = {}
<1> DEFINE k == NextSealingNodes(Seal0, StartRound)
           b == NextNotify(n, Seal0, StartRound)
           l == IF StartRound = 0 THEN 0 ELSE NoLeader
           z == IF n \in Holders THEN Txs ELSE {}
<1>1. k \in Nat \ {0} /\ b \in BOOLEAN
  BY ConstantAssumption DEF NextSealingNodes, NextNotify
<1>2. l \in Nodes \cup {NoLeader} /\ z \in SUBSET Txs
  BY NAssumption DEF Nodes
<1>3. OpenSealing \in Sealing
  BY DEF OpenSealing, Sealing
<1>4. <<>> \in Seq(Block)
  OBVIOUS
<1> HIDE DEF k, b, l, z
<1> QED
  BY <1>1, <1>2, <1>3, <1>4, ConstantAssumption, ZenonT(60) DEF InitState, NodeState, k, b, l, z

\* The invariant holds initially.
LEMMA InitInv == Init => IInv
<1> SUFFICES ASSUME Init PROVE IInv
  OBVIOUS
<1>1. TypeOK
  BY InitStateType DEF Init, TypeOK
<1>2. ASSUME NEW n \in Nodes PROVE LocalInv(node[n], sent)
  <2>1. node[n] = InitState(n)
    BY DEF Init
  <2> QED
    BY <2>1, InitStateType DEF LocalInv, Backed, ChainCertified
<1> QED
  BY <1>1, <1>2 DEF Init, IInv, InboxSent, CommitsBackedIn

\* A view change replaces the leader and nothing a vote or a commit depends on.
LEMMA ChangedViewQuiet ==
  ASSUME NEW s \in NodeState, NEW u \in ChangedView(s)
  PROVE  /\ u \in NodeState /\ u.chain = s.chain
         /\ u.signCache = s.signCache /\ u.commitCache = s.commitCache
<1>1. PICK l \in LeadersOf(s) : u = [s EXCEPT !.leader = l, !.notifyNextLeaderSeal = FALSE]
  BY ZenonT(60) DEF ChangedView
<1>2. l \in Nodes \cup {NoLeader}
  BY DEF LeadersOf
<1> DEFINE v == [s EXCEPT !.leader = l]
<1>3. v \in NodeState /\ v.chain = s.chain /\ v.signCache = s.signCache /\ v.commitCache = s.commitCache
  BY <1>2 DEF NodeState
<1>4. u = [v EXCEPT !.notifyNextLeaderSeal = FALSE]
  BY <1>1 DEF NodeState
<1> HIDE DEF v
<1> QED
  BY <1>3, <1>4, ZenonT(60) DEF NodeState

\* Every step of every thread of every node keeps it.
LEMMA NextInv == IInv /\ [Next]_vars => IInv'
<1> SUFFICES ASSUME IInv, [Next]_vars PROVE IInv'
  OBVIOUS
<1>0. CASE UNCHANGED vars
  BY <1>0 DEF vars, IInv, TypeOK, InboxSent
<1>n. ASSUME NEW n \in Nodes
      PROVE  /\ node[n] \in NodeState /\ LocalInv(node[n], sent)
             /\ Number(node[n]) \in Nat /\ node[n].sealing \in Sealing
             /\ inbox[n] \subseteq Message
  BY NumberType, ZenonT(60) DEF IInv, TypeOK, NodeState
<1>1. ASSUME NEW n \in Nodes, LoadTransactions(n) PROVE IInv'
  <2>1. PICK S \in SUBSET node[n].pool :
          Update(n, [node[n] EXCEPT !.sealing.txs = @ \cup S])
    BY <1>1, ZenonT(60) DEF LoadTransactions
  <2> DEFINE t == [node[n] EXCEPT !.sealing.txs = @ \cup S]
             g == [node[n].sealing EXCEPT !.txs = @ \cup S]
  <2>2. g \in Sealing
    BY <1>n DEF Sealing, NodeState
  <2>3. t = [node[n] EXCEPT !.sealing = g]
    BY <1>n DEF NodeState
  <2> HIDE DEF g
  <2>4. /\ t \in NodeState /\ t.chain = node[n].chain
        /\ t.signCache = node[n].signCache /\ t.commitCache = node[n].commitCache
    BY <1>n, <2>2, <2>3, ZenonT(60) DEF NodeState
  <2> QED
    BY <1>1, <2>1, <2>4, QuietStep, ZenonT(60) DEF LoadTransactions
<1>2. ASSUME NEW n \in Nodes, HandleBlock(n) PROVE IInv'
  <2> DEFINE s == node[n]
             t == [s EXCEPT !.pool = @ \ s.sealing.txs,
                            !.sealing.phase = "handled",
                            !.sealing.number = Number(s) + 1]
             k == Number(s) + 1
             g == [s.sealing EXCEPT !.phase = "handled", !.number = k]
  <2>1. k \in Nat /\ s.sealing \in Sealing
    BY <1>n
  <2>2. t = [s EXCEPT !.pool = @ \ s.sealing.txs, !.sealing = g]
    BY <1>n, ZenonT(60) DEF NodeState
  <2> HIDE DEF k
  <2>a. g \in Sealing
    BY <2>1, ZenonT(60) DEF Sealing
  <2> HIDE DEF g
  <2>3. /\ t \in NodeState /\ t.chain = s.chain
        /\ t.signCache = s.signCache /\ t.commitCache = s.commitCache
    BY <1>n, <2>a, <2>2, ZenonT(60) DEF NodeState
  <2> QED
    BY <1>2, <2>3, QuietStep, ZenonT(60) DEF HandleBlock
<1>3. ASSUME NEW n \in Nodes, GeneratePrepare(n) PROVE IInv'
  <2> DEFINE s == node[n]
             p == [round |-> s.sealing.number, idx |-> n, txs |-> s.sealing.txs,
                   life |-> s.restarts]
             t == [s EXCEPT !.notifyNextLeaderSeal = FALSE, !.sealing.phase = "sealed"]
             g == [s.sealing EXCEPT !.phase = "sealed"]
             e == [type |-> "prepare", p |-> p, by |-> n]
  <2>1. g \in Sealing /\ p \in Proposal
    BY <1>n DEF Sealing, Proposal, NodeState
  <2>2. t = [s EXCEPT !.notifyNextLeaderSeal = FALSE, !.sealing = g]
    BY <1>n DEF NodeState
  <2> HIDE DEF g
  <2>3. /\ t \in NodeState /\ t.chain = s.chain
        /\ t.signCache = s.signCache /\ t.commitCache = s.commitCache
    BY <1>n, <2>1, <2>2, ZenonT(60) DEF NodeState
  <2>4. PICK x \in HandlePrepareMsg4nl(n, t, p) :
          Update(n, x.st) /\ Send(n, x.out \cup {e})
    BY <1>3, ZenonT(60) DEF GeneratePrepare
  <2>5. e \in Sent /\ e.type # "commit"
    BY <2>1 DEF Sent
  <2> HIDE DEF t, p, e
  <2>6. LocalInv(t, sent)
    BY <1>n, <2>3, LocalInvSame
  <2>7. GoodResult(x, sent)
    BY <2>1, <2>4, <2>6, HandlersGood
  <2> QED
    BY <2>4, <2>5, <2>7, ResultStep, ZenonT(60)
<1>4. ASSUME NEW n \in Nodes, ReportNewBlock(n) PROVE IInv'
  <2> DEFINE s == node[n]
             t == [s EXCEPT !.reported = Number(s), !.leader = NoLeader]
             u == IF ShouldResetSealing(n, t) THEN [t EXCEPT !.sealing = OpenSealing] ELSE t
  <2>1. /\ t \in NodeState /\ t.chain = s.chain
        /\ t.signCache = s.signCache /\ t.commitCache = s.commitCache
    BY <1>n, ZenonT(60) DEF NodeState
  <2>2. Update(n, u)
    BY <1>4 DEF ReportNewBlock
  <2> HIDE DEF t
  <2>3. OpenSealing \in Sealing
    BY DEF OpenSealing, Sealing
  <2>4. /\ u \in NodeState /\ u.chain = s.chain
        /\ u.signCache = s.signCache /\ u.commitCache = s.commitCache
    BY <2>1, <2>3, ZenonT(60) DEF NodeState
  <2> QED
    BY <1>4, <2>2, <2>4, QuietStep, ZenonT(60) DEF ReportNewBlock
<1>5. ASSUME NEW n \in Nodes, NEW m \in inbox[n], NEW x, GoodResult(x, sent),
             Update(n, x.st), Reply(n, m, x.out)
      PROVE  IInv'
  <2> DEFINE e == {}
  <2>1. x.out \cup e = x.out
    OBVIOUS
  <2>2. \E y \in inbox[n] : Reply(n, y, x.out \cup e)
    BY <1>5, <2>1
  <2>3. e \subseteq Sent /\ \A c \in e : c.type # "commit"
    OBVIOUS
  <2> HIDE DEF e
  <2> QED
    BY <1>5, <2>2, <2>3, ResultStep
<1>6. ASSUME NEW n \in Nodes, HandlePrepare(n) PROVE IInv'
  <2>1. PICK m \in inbox[n] : \E x \in HandlePrepareMsg4nl(n, node[n], m.p) :
          Update(n, x.st) /\ Reply(n, m, x.out)
    BY <1>6 DEF HandlePrepare
  <2>2. m.p \in Proposal
    BY <1>n DEF Message
  <2> QED
    BY <1>n, <1>5, <2>1, <2>2, HandlersGood
<1>7. ASSUME NEW n \in Nodes, HandleSign(n) PROVE IInv'
  <2>1. PICK m \in inbox[n] :
          m.type = "sign" /\ \E x \in HandleSignMsg4nl(n, node[n], m) :
                               Update(n, x.st) /\ Reply(n, m, x.out)
    BY <1>7 DEF HandleSign
  <2>2. m \in Message /\ [type |-> "sign", p |-> m.p, by |-> m.by] \in sent
    BY <1>n, <2>1 DEF IInv, InboxSent
  <2> QED
    BY <1>n, <1>5, <2>1, <2>2, HandlersGood, ZenonT(60)
<1>8. ASSUME NEW n \in Nodes, HandleCommit(n) PROVE IInv'
  <2>1. PICK m \in inbox[n] :
          m.type = "commit" /\ \E x \in HandleCommitMsg4nl(n, node[n], m) :
                                 Update(n, x.st) /\ Reply(n, m, x.out)
    BY <1>8 DEF HandleCommit
  <2>2. m \in Message /\ [type |-> "commit", p |-> m.p, by |-> m.by] \in sent
    BY <1>n, <2>1 DEF IInv, InboxSent
  <2> QED
    BY <1>n, <1>5, <2>1, <2>2, HandlersGood, ZenonT(60)
<1>9. ASSUME NEW s \in NodeState, NEW u \in ChangedView(s)
      PROVE  /\ u \in NodeState /\ u.chain = s.chain
             /\ u.signCache = s.signCache /\ u.commitCache = s.commitCache
  BY ChangedViewQuiet
<1>10. ASSUME NEW n \in Nodes, CheckTimeout(n) PROVE IInv'
  <2> DEFINE t == [node[n] EXCEPT !.leader = NoLeader, !.resetDue = TRUE]
  <2>1. /\ t \in NodeState /\ t.chain = node[n].chain
        /\ t.signCache = node[n].signCache /\ t.commitCache = node[n].commitCache
    BY <1>n, ZenonT(60) DEF NodeState
  <2>2. PICK u \in {t} \cup ChangedView(t) : Update(n, u)
    BY <1>10 DEF CheckTimeout
  <2> HIDE DEF t
  <2>3. /\ u \in NodeState /\ u.chain = node[n].chain
        /\ u.signCache = node[n].signCache /\ u.commitCache = node[n].commitCache
    BY <1>9, <2>1
  <2> QED
    BY <1>10, <2>2, <2>3, QuietStep DEF CheckTimeout
<1>11. ASSUME NEW n \in Nodes, ResetBlockForViewChange(n) PROVE IInv'
  <2> DEFINE s == node[n]
             g == IF IsSealed(s) /\ ShouldHandleBlock(n, s) THEN s.sealing ELSE OpenSealing
             t == [s EXCEPT !.resetDue = FALSE, !.sealing = g]
  <2>1. g \in Sealing
    BY <1>n DEF OpenSealing, Sealing
  <2>2. Update(n, t)
    BY <1>11 DEF ResetBlockForViewChange
  <2> HIDE DEF g
  <2>3. /\ t \in NodeState /\ t.chain = s.chain
        /\ t.signCache = s.signCache /\ t.commitCache = s.commitCache
    BY <1>n, <2>1, ZenonT(60) DEF NodeState
  <2> QED
    BY <1>11, <2>2, <2>3, QuietStep, ZenonT(60) DEF ResetBlockForViewChange
<1>12. ASSUME NEW n \in Nodes, HandleViewChange(n) PROVE IInv'
  <2>1. PICK u \in ChangedView(node[n]) : Update(n, u)
    BY <1>12 DEF HandleViewChange
  <2> QED
    BY <1>n, <1>9, <1>12, <2>1, QuietStep DEF HandleViewChange
<1>13. ASSUME NEW n \in Nodes, Restart(n) PROVE IInv'
  <2> DEFINE s == node[n]
             z == (UNION {node[x].pool : x \in Nodes \ {n}}) \ ChainTxs(s)
             l == IF Number(s) = 0 THEN 0 ELSE NoLeader
             h == Number(s)
             k == s.restarts + 1
             t == [chain |-> s.chain, pool |-> z,
                   prepareCache |-> {}, signCache |-> {}, commitCache |-> {},
                   highestblockNumber |-> 0, globalSealingNodes |-> Seal0,
                   notifyNextLeaderSeal |-> FALSE, leader |-> l, reported |-> h,
                   sealing |-> OpenSealing, resetDue |-> FALSE,
                   commitFails |-> s.commitFails, restarts |-> k]
  <2>1. Update(n, t)
    BY <1>13 DEF Restart
  <2>2. z \in SUBSET Txs /\ l \in Nodes \cup {NoLeader}
    <3>1. \A x \in Nodes : node[x].pool \in SUBSET Txs
      BY <1>n DEF NodeState
    <3>2. z \in SUBSET Txs
      BY <3>1, ZenonT(60)
    <3>3. 0 \in Nodes
      BY NAssumption DEF Nodes
    <3>4. l \in Nodes \cup {NoLeader}
      BY <3>3, ZenonT(60)
    <3> QED
      BY <3>2, <3>4
  <2>3. s.chain \in Seq(Block) /\ s.commitFails \in Nat /\ k \in Nat
    BY <1>n DEF NodeState
  <2>a. h \in Nat /\ Seal0 \in Nat \ {0} /\ OpenSealing \in Sealing
    BY <1>n, ConstantAssumption DEF OpenSealing, Sealing
  <2> HIDE DEF s, z, l, h, k
  <2>4. /\ t \in NodeState /\ t.chain = s.chain
        /\ t.signCache = {} /\ t.commitCache = {}
    BY <2>2, <2>3, <2>a DEF NodeState
  <2> HIDE DEF t
  <2>5. LocalInv(t, sent)
    BY <1>n, <2>4 DEF LocalInv, Backed, ChainCertified, s
  <2>6. sent' = sent \cup {} /\ inbox' = [inbox EXCEPT ![n] = {}]
    BY <1>13 DEF Restart
  <2>7. inbox' \in [Nodes -> SUBSET Message] /\ InboxSent'
    BY <2>6 DEF IInv, TypeOK, InboxSent
  <2>8. LocalInv(t, sent') /\ CommitsBackedIn({}, sent')
    BY <2>5, <2>6 DEF CommitsBackedIn
  <2> QED
    BY <2>1, <2>6, <2>7, <2>8, NodeStep
<1> QED
  BY <1>0, <1>1, <1>2, <1>3, <1>4, <1>6, <1>7, <1>8, <1>10, <1>11, <1>12, <1>13
     DEF Next, OtherStep

-----------------------------------------------------------------------------
\* The invariant always holds.
LEMMA Invariance == Spec => []IInv
BY InitInv, NextInv, PTL DEF Spec

\* Every reachable state of the round is well typed, in particular
\* globalSealingNodes never becomes 0, whatever the schedule, the number of
\* nodes, and the threads' interleaving.
THEOREM TypeCorrect == Spec => []TypeOK
<1>1. IInv => TypeOK
  BY DEF IInv
<1> QED
  BY <1>1, Invariance, PTL

\* Every sub-block that checkAndSave4nl merges into a block was signed and
\* committed by more than two thirds of the nodes.
THEOREM SavedBlocksHaveQuorums == Spec => []SavedHasQuorum
<1>1. IInv => SavedHasQuorum
  BY DEF IInv, LocalInv, ChainCertified, Certified, SavedHasQuorum, Voters, VotersIn
<1> QED
  BY <1>1, Invariance, PTL

\* Every commit that checkAndCommit4nl broadcasts stands on the broadcast
\* signatures of more than two thirds of the nodes.
THEOREM CommitsAreBacked == Spec => []CommitBacked
<1>1. IInv => CommitBacked
  BY DEF IInv, CommitsBackedIn, CommitBacked, Voters, VotersIn
<1> QED
  BY <1>1, Invariance, PTL
===============================================================================
