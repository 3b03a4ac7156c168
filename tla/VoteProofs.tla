------------------------------ MODULE VoteProofs ------------------------------
(***************************************************************************)
(* Proofs about decisions by vote, for any number of nodes, accounts,      *)
(* weights and bounds: a view is entered on the requests of a quorum       *)
(* (ViewChange), the committee is sound and its decisions are backed by    *)
(* votes (Governance).                                                     *)
(***************************************************************************)
EXTENDS ViewChange, Governance, FiniteSetTheorems, TLAPS

\* A leaf that names no prover is for the SMT solver, with a minute of time.
USE SMTT(60)

-----------------------------------------------------------------------------
(***************************************************************************)
(* ViewChange.  The inductive invariant follows the request cache through  *)
(* the window between the commit and the report of a block: cached         *)
(* requests are never below m_highestBlock nor above the chain, and those  *)
(* at m_highestBlock carry its hash.  When the window is closed only one   *)
(* block is left.                                                          *)
(***************************************************************************)
\* Counting: what a number of votes or requests says about nodes.

\* A set of minValidNodes nodes is more than two thirds of them.
LEMMA QuorumIsTwoThirds ==
  /\ MinValidNodes \in Nat /\ F \in Nat
  /\ \A k \in Nat : k >= MinValidNodes => 3 * k > 2 * N
BY NAssumption DEF MinValidNodes, F

\* The set of nodes is finite.
LEMMA NodesFinite == IsFiniteSet(Nodes)
BY NAssumption, FS_Interval DEF Nodes

\* Sets of nodes have a size, which grows with the set.
LEMMA NodeSets ==
  ASSUME NEW W \in SUBSET Nodes, NEW V \in SUBSET W
  PROVE  /\ IsFiniteSet(W) /\ IsFiniteSet(V)
         /\ Cardinality(W) \in Nat /\ Cardinality(V) \in Nat
         /\ Cardinality(V) <= Cardinality(W)
<1>1. IsFiniteSet(W)
  BY NodesFinite, FS_Subset
<1>2. IsFiniteSet(V) /\ Cardinality(V) <= Cardinality(W)
  BY <1>1, FS_Subset
<1> QED
  BY <1>1, <1>2, FS_CardinalityType

\* Things that belong to different nodes are no more than the nodes they
\* belong to.
LEMMA OnePerNode ==
  ASSUME NEW C, NEW W \in SUBSET Nodes, NEW f \in [C -> W],
         \A a, b \in C : f[a] = f[b] => a = b
  PROVE  /\ Cardinality(C) \in Nat /\ Cardinality(W) \in Nat
         /\ Cardinality(C) <= Cardinality(W)
<1>1. f \in Injection(C, W)
  BY DEF Injection, IsInjective
<1>2. IsFiniteSet(W) /\ Cardinality(W) \in Nat
  BY NodeSets
<1>3. IsFiniteSet(C) /\ Cardinality(C) <= Cardinality(W)
  BY <1>1, <1>2, FS_Injection
<1> QED
  BY <1>2, <1>3, FS_CardinalityType

\* A set of nodes stays more than two thirds when it grows.
LEMMA TwoThirdsGrows ==
  ASSUME NEW W \in SUBSET Nodes, NEW V \in SUBSET W, TwoThirds(V)
  PROVE  TwoThirds(W)
<1>1. /\ Cardinality(W) \in Nat /\ Cardinality(V) \in Nat
      /\ Cardinality(V) <= Cardinality(W)
  BY NodeSets
<1> QED
  BY <1>1, NAssumption DEF TwoThirds

-----------------------------------------------------------------------------
\* The nodes that asked for view v of block b
BlockAskers(S, v, b) ==
  {i \in Nodes : [view |-> v, idx |-> i, height |-> b.number, hash |-> b.hash] \in S}

\* The nodes that asked for a view after v at height h or above
AheadAskers(S, v, h) ==
  {i \in Nodes : \E r \in S : r.idx = i /\ r.view > v /\ r.height >= h}

\* The nodes that asked for view v at height h or above
HeightAskers(S, v, h) ==
  {i \in Nodes : \E r \in S : r.idx = i /\ r.view = v /\ r.height >= h}

\* A cached request fits the node's blocks
Fits(r, s) ==
  /\ s.highest.number <= r.height /\ r.height <= s.tip.number
  /\ r.height = s.highest.number => r.hash = s.highest.hash

\* The request cache: broadcast requests that fit, one per view and node
CacheInv(s, S) ==
  /\ s.recv \subseteq S
  /\ \A r \in s.recv : Fits(r, s)
  /\ \A q, r \in s.recv : q.view = r.view /\ q.idx = r.idx => q = r

\* What holds of a node's state between the calls of a handler
BaseInv(s, S) ==
  /\ s \in NodeState
  /\ s.highest.number <= s.tip.number
  /\ s.highest.number = s.tip.number => s.highest = s.tip
  /\ s.view <= s.toView
  /\ CacheInv(s, S)

ViewInv(s, S) ==
  s.tip = s.highest /\ s.view > 0 => TwoThirds(BlockAskers(S, s.view, s.highest))

HurryInv(s, S) ==
  s.hurried => Cardinality(AheadAskers(S, s.toView, s.highest.number)) > F

LocalInv(s, S) == BaseInv(s, S) /\ ViewInv(s, S) /\ HurryInv(s, S)

\* What a handler may do to a node's view: nothing, or raise it to one that a
\* quorum asked for at the node's height or above
Rises(s, t, S) ==
  /\ t.highest = s.highest /\ t.restarts = s.restarts
  /\ \/ t.view = s.view
     \/ t.view > s.view
        /\ Cardinality(HeightAskers(S, t.view, s.highest.number)) >= MinValidNodes

InboxSent == \A n \in Nodes : \A m \in inbox[n] : m.req \in sent

IInv ==
  /\ TypeOK
  /\ \A n \in Nodes : LocalInv(node[n], sent)
  /\ InboxSent

-----------------------------------------------------------------------------
(***************************************************************************)
(* Counting requests.                                                      *)
(***************************************************************************)
\* The requests cached for a view are no more than the nodes they come from.
LEMMA CountRequests ==
  ASSUME NEW s, NEW S, BaseInv(s, S), NEW v, NEW W \in SUBSET Nodes,
         \A r \in s.recv : r.view = v => r.idx \in W
  PROVE  /\ GetViewChangeSize(s, v) \in Nat /\ Cardinality(W) \in Nat
         /\ GetViewChangeSize(s, v) <= Cardinality(W)
<1> DEFINE C == {q \in s.recv : q.view = v}
           f == [q \in C |-> q.idx]
<1>1. f \in [C -> W]
  OBVIOUS
<1>2. \A a, b \in C : f[a] = f[b] => a = b
  BY DEF BaseInv, CacheInv
<1>3. /\ Cardinality(C) \in Nat /\ Cardinality(W) \in Nat
      /\ Cardinality(C) <= Cardinality(W)
  <2> HIDE DEF C, f
  <2> QED
    BY <1>1, <1>2, OnePerNode
<1> QED
  BY <1>3 DEF GetViewChangeSize

\* A node's invariant survives the requests of others.
LEMMA LocalInvGrows ==
  ASSUME NEW s, NEW S, NEW T, S \subseteq T, LocalInv(s, S)
  PROVE  LocalInv(s, T)
<1>1. BaseInv(s, T)
  BY DEF LocalInv, BaseInv, CacheInv
<1>2. ViewInv(s, T)
  <2>1. /\ BlockAskers(S, s.view, s.highest) \in SUBSET BlockAskers(T, s.view, s.highest)
        /\ BlockAskers(T, s.view, s.highest) \in SUBSET Nodes
    BY DEF BlockAskers
  <2> QED
    BY <2>1, TwoThirdsGrows DEF LocalInv, ViewInv
<1>3. HurryInv(s, T)
  <2> DEFINE V == AheadAskers(S, s.toView, s.highest.number)
             W == AheadAskers(T, s.toView, s.highest.number)
  <2>1. V \in SUBSET W /\ W \in SUBSET Nodes
    BY DEF AheadAskers
  <2>2. /\ Cardinality(W) \in Nat /\ Cardinality(V) \in Nat
        /\ Cardinality(V) <= Cardinality(W)
    BY <2>1, NodeSets
  <2> QED
    BY <2>2, QuorumIsTwoThirds DEF LocalInv, HurryInv
<1> QED
  BY <1>1, <1>2, <1>3 DEF LocalInv

-----------------------------------------------------------------------------
(***************************************************************************)
(* The pieces of the handlers.                                             *)
(***************************************************************************)
\* addViewChangeReq changes nothing but the caches.
LEMMA AddType ==
  ASSUME NEW s \in NodeState, NEW r \in Request
  PROVE  LET t == AddViewChangeReq(s, r) IN
         /\ t \in NodeState
         /\ t.tip = s.tip /\ t.highest = s.highest /\ t.view = s.view
         /\ t.toView = s.toView /\ t.hurried = s.hurried /\ t.restarts = s.restarts
BY ZenonT(60) DEF AddViewChangeReq, NodeState

\* addViewChangeReq keeps the cache's invariant when it is given a request
\* that fits or is too old to be cached.
LEMMA AddInv ==
  ASSUME NEW s, NEW S, BaseInv(s, S), NEW r \in Request, r \in S,
         r.height < s.tip.number \/ Fits(r, s)
  PROVE  BaseInv(AddViewChangeReq(s, r), S)
<1> DEFINE t == AddViewChangeReq(s, r)
<1>1. /\ t \in NodeState
      /\ t.tip = s.tip /\ t.highest = s.highest /\ t.view = s.view
      /\ t.toView = s.toView
  BY AddType DEF BaseInv
<1>2. CASE t = s
  BY <1>2
<1>3. CASE t # s
  <2>1. /\ ~(r.height < s.tip.number)
        /\ t.recv \subseteq {q \in s.recv : q.view # r.view \/ q.idx # r.idx} \cup {r}
    BY <1>3 DEF AddViewChangeReq, BaseInv, NodeState
  <2>2. Fits(r, s)
    BY <2>1
  <2>3. BaseInv(t, S)
    <3> HIDE DEF t
    <3>1. CacheInv(t, S)
      BY <1>1, <2>1, <2>2 DEF BaseInv, CacheInv, Fits
    <3> QED
      BY <1>1, <3>1 DEF BaseInv
  <2> QED
    BY <2>3
<1> QED
  BY <1>2, <1>3

\* checkAndChangeView raises the view to v and no further, and only with a
\* quorum of requests for v.
LEMMA ChangeInv ==
  ASSUME NEW s, NEW S, LocalInv(s, S), NEW v \in Nat, v > s.view
  PROVE  LET t == CheckAndChangeView(s, v) IN
         /\ LocalInv(t, S)
         /\ Rises(s, t, S)
         /\ GetViewChangeSize(s, v) < MinValidNodes => t = s
<1> DEFINE t == CheckAndChangeView(s, v)
<1>0. GetViewChangeSize(s, v) \in Nat
  <2>1. \A r \in s.recv : r.idx \in Nodes
    BY DEF LocalInv, BaseInv, NodeState, Request
  <2> QED
    BY <2>1, CountRequests DEF LocalInv
<1>1. CASE GetViewChangeSize(s, v) < MinValidNodes
  BY <1>1 DEF CheckAndChangeView, Rises
<1>2. CASE ~(GetViewChangeSize(s, v) < MinValidNodes)
  <2>1. /\ t \in NodeState
        /\ t.tip = s.tip /\ t.highest = s.highest /\ t.view = v
        /\ t.toView = v /\ t.hurried = FALSE /\ t.restarts = s.restarts
        /\ t.recv \subseteq s.recv
    BY <1>2, ZenonT(60) DEF CheckAndChangeView, LocalInv, BaseInv, NodeState
  <2>2. GetViewChangeSize(s, v) >= MinValidNodes
    BY <1>0, <1>2, QuorumIsTwoThirds
  <2>3. ViewInv(t, S)
    <3> SUFFICES ASSUME s.tip = s.highest
                 PROVE  TwoThirds(BlockAskers(S, v, s.highest))
      BY <2>1 DEF ViewInv
    <3> DEFINE W == BlockAskers(S, v, s.highest)
    <3>1. \A r \in s.recv : r.view = v => r.idx \in W
      <4> TAKE r \in s.recv
      <4> HAVE r.view = v
      <4>1. /\ r \in Request /\ r \in S /\ s.highest \in BlockId
            /\ r.height = s.highest.number /\ r.hash = s.highest.hash
        BY DEF LocalInv, BaseInv, CacheInv, Fits, NodeState, Request, BlockId
      <4>2. r = [view |-> v, idx |-> r.idx, height |-> s.highest.number,
                 hash |-> s.highest.hash]
        BY <4>1 DEF Request
      <4> QED
        BY <4>1, <4>2 DEF BlockAskers, Request
    <3>2. W \in SUBSET Nodes
      BY DEF BlockAskers
    <3>3. Cardinality(W) \in Nat /\ Cardinality(W) >= MinValidNodes
      BY <2>2, <3>1, <3>2, CountRequests, QuorumIsTwoThirds DEF LocalInv
    <3> QED
      BY <3>3, QuorumIsTwoThirds DEF TwoThirds
  <2>4. LocalInv(t, S)
    <3> HIDE DEF t
    <3>1. BaseInv(t, S)
      BY <2>1 DEF LocalInv, BaseInv, CacheInv, Fits
    <3>2. HurryInv(t, S)
      BY <2>1 DEF HurryInv
    <3> QED
      BY <2>3, <3>1, <3>2 DEF LocalInv
  <2>5. Cardinality(HeightAskers(S, v, s.highest.number)) >= MinValidNodes
    <3> DEFINE W == HeightAskers(S, v, s.highest.number)
    <3>1. \A r \in s.recv : r.idx \in Nodes /\ r \in S /\ r.height >= s.highest.number
      BY DEF LocalInv, BaseInv, CacheInv, Fits, NodeState, Request, BlockId
    <3>2. W \in SUBSET Nodes /\ \A r \in s.recv : r.view = v => r.idx \in W
      BY <3>1 DEF HeightAskers
    <3> QED
      BY <2>2, <3>2, CountRequests, QuorumIsTwoThirds DEF LocalInv
  <2> QED
    BY <1>2, <2>1, <2>4, <2>5 DEF Rises
<1> QED
  BY <1>1, <1>2

\* handleViewChangeMsg, from the moment the request was found valid.
LEMMA ResultsInv ==
  ASSUME NEW n \in Nodes, NEW s, NEW S, LocalInv(s, S), NEW r \in Request, r \in S,
         IsValidViewChangeReq(n, s, r), NEW w \in Results(s, r)
  PROVE  LocalInv(w, S) /\ Rises(s, w, S)
<1> DEFINE t == AddViewChangeReq(s, r)
           u == CheckAndChangeView(t, r.view)
<1>1. /\ t \in NodeState
      /\ t.tip = s.tip /\ t.highest = s.highest /\ t.view = s.view
      /\ t.toView = s.toView /\ t.hurried = s.hurried /\ t.restarts = s.restarts
  BY AddType DEF LocalInv, BaseInv
<1>2. LocalInv(t, S)
  <2>1. Fits(r, s)
    BY DEF IsValidViewChangeReq, Considered, Fits, LocalInv, BaseInv, NodeState, BlockId, Request
  <2>2. BaseInv(t, S)
    BY <2>1, AddInv DEF LocalInv
  <2> HIDE DEF t
  <2> QED
    BY <1>1, <2>2 DEF LocalInv, ViewInv, HurryInv
<1>3. LocalInv(u, S) /\ Rises(t, u, S)
      /\ (GetViewChangeSize(t, r.view) < MinValidNodes => u = t)
  <2>1. r.view \in Nat /\ r.view > t.view
    BY <1>1 DEF IsValidViewChangeReq, Request
  <2> HIDE DEF t
  <2> QED
    BY <1>2, <2>1, ChangeInv
<1>4. CASE w = u
  <2> HIDE DEF t, u
  <2> QED
    BY <1>1, <1>3, <1>4 DEF Rises
<1>5. CASE /\ GetViewChangeSize(t, r.view) < MinValidNodes
           /\ CanTriggerViewChange(t)
           /\ \E v \in MinViews(u) : w = [u EXCEPT !.toView = v - 1, !.hurried = TRUE]
  <2>1. u = t
    BY <1>3, <1>5
  <2>2. PICK v \in MinViews(t) : w = [t EXCEPT !.toView = v - 1, !.hurried = TRUE]
    BY <1>5, <2>1, ZenonT(60)
  <2> HIDE DEF t, u
  <2>3. v \in Nat /\ v > t.toView /\ v - 1 \in Nat
    BY <1>1, <2>2 DEF MinViews, Ahead, NodeState, Request
  <2>4. /\ w \in NodeState
        /\ w.tip = t.tip /\ w.highest = t.highest /\ w.view = t.view
        /\ w.toView = v - 1 /\ w.restarts = t.restarts /\ w.recv = t.recv
    BY <1>1, <2>2, <2>3, ZenonT(60) DEF NodeState
  <2>5. BaseInv(w, S)
    BY <1>1, <1>2, <2>3, <2>4 DEF LocalInv, BaseInv, CacheInv, Fits, NodeState
  <2>6. ViewInv(w, S)
    BY <1>2, <2>4 DEF LocalInv, ViewInv
  <2>7. HurryInv(w, S)
    <3> DEFINE V == {q.idx : q \in Ahead(t)}
               W == AheadAskers(S, v - 1, t.highest.number)
    <3>1. W \in SUBSET Nodes
      BY DEF AheadAskers
    <3>2. V \in SUBSET W
      <4>1. SUFFICES ASSUME NEW i \in V PROVE i \in W
        OBVIOUS
      <4>2. PICK q \in Ahead(t) : q.idx = i /\ q.view >= v
        BY <2>2 DEF MinViews
      <4>3. q \in Request /\ q \in S /\ q.height >= t.highest.number
        BY <1>1, <1>2, <4>2 DEF Ahead, NodeState, LocalInv, BaseInv, CacheInv
      <4>4. q.view > v - 1 /\ q.idx \in Nodes
        BY <2>3, <4>2, <4>3 DEF Request
      <4> QED
        BY <4>2, <4>3, <4>4 DEF AheadAskers
    <3>3. /\ Cardinality(W) \in Nat /\ Cardinality(V) \in Nat
          /\ Cardinality(V) <= Cardinality(W)
      BY <3>1, <3>2, NodeSets
    <3>4. Cardinality(V) > F
      BY <1>5 DEF CanTriggerViewChange
    <3>5. Cardinality(W) > F
      BY <3>3, <3>4, QuorumIsTwoThirds
    <3> QED
      BY <2>4, <3>5 DEF HurryInv
  <2> QED
    BY <1>1, <2>4, <2>5, <2>6, <2>7 DEF LocalInv, Rises
<1> QED
  BY <1>4, <1>5, ZenonT(60) DEF Results

\* Dropping cached requests keeps a node's invariant.
LEMMA ShrinkInv ==
  ASSUME NEW s, NEW S, LocalInv(s, S), NEW t \in NodeState,
         t.tip = s.tip, t.highest = s.highest, t.view = s.view, t.toView = s.toView,
         t.hurried = s.hurried, t.restarts = s.restarts, t.recv \subseteq s.recv
  PROVE  LocalInv(t, S) /\ Rises(s, t, S)
<1>1. BaseInv(t, S)
  BY DEF LocalInv, BaseInv, CacheInv, Fits
<1>2. ViewInv(t, S) /\ HurryInv(t, S) /\ Rises(s, t, S)
  BY DEF LocalInv, ViewInv, HurryInv, Rises
<1> QED
  BY <1>1, <1>2 DEF LocalInv

\* checkTimeout.
LEMMA TimeoutInv ==
  ASSUME NEW n \in Nodes, NEW s0, NEW S, LocalInv(s0, S)
  PROVE  LET s == [s0 EXCEPT !.toView = @ + 1, !.leaderFailed = TRUE, !.hurried = FALSE]
             r == RequestOf(n, s)
             t == AddViewChangeReq(RemoveInvalidViewChange(s, s.toView), r)
             w == CheckAndChangeView(t, s.toView)
         IN r \in Request /\ (r \in S => LocalInv(w, S) /\ Rises(s0, w, S))
<1> DEFINE s == [s0 EXCEPT !.toView = @ + 1, !.leaderFailed = TRUE, !.hurried = FALSE]
           r == RequestOf(n, s)
           p == RemoveInvalidViewChange(s, s.toView)
           t == AddViewChangeReq(p, r)
           w == CheckAndChangeView(t, s.toView)
<1>1. /\ s \in NodeState /\ s.tip = s0.tip /\ s.highest = s0.highest /\ s.view = s0.view
      /\ s.toView = s0.toView + 1 /\ s.hurried = FALSE /\ s.restarts = s0.restarts
      /\ s.recv = s0.recv
  <2>1. s0 \in NodeState
    BY DEF LocalInv, BaseInv
  <2>2. s0.toView + 1 \in Nat
    BY <2>1 DEF NodeState
  <2> DEFINE k == s0.toView + 1
  <2>3. s = [s0 EXCEPT !.toView = k, !.leaderFailed = TRUE, !.hurried = FALSE]
    OBVIOUS
  <2>4. k \in Nat
    BY <2>2
  <2>5. /\ s \in NodeState /\ s.tip = s0.tip /\ s.highest = s0.highest /\ s.view = s0.view
        /\ s.toView = k /\ s.hurried = FALSE /\ s.restarts = s0.restarts
        /\ s.recv = s0.recv
    <3> HIDE DEF k, s
    <3> QED
      BY <2>1, <2>3, <2>4, ZenonT(60) DEF NodeState
  <2> QED
    BY <2>5
<1>2. LocalInv(s, S) /\ s.toView \in Nat /\ s.toView > s.view
  <2> HIDE DEF s
  <2>1. s0 \in NodeState
    BY DEF LocalInv, BaseInv
  <2>2. s.toView \in Nat /\ s.toView > s.view
    BY <1>1, <2>1 DEF LocalInv, BaseInv, NodeState
  <2>3. BaseInv(s, S)
    BY <1>1, <2>1, <2>2 DEF LocalInv, BaseInv, CacheInv, Fits, NodeState
  <2>4. ViewInv(s, S) /\ HurryInv(s, S)
    BY <1>1 DEF LocalInv, ViewInv, HurryInv
  <2> QED
    BY <2>2, <2>3, <2>4 DEF LocalInv
<1> HIDE DEF s
<1>3. /\ r \in Request /\ r.height = s.highest.number /\ r.hash = s.highest.hash
  BY <1>1 DEF RequestOf, Request, NodeState, BlockId
<1>4. /\ p \in NodeState /\ p.tip = s.tip /\ p.highest = s.highest /\ p.view = s.view
      /\ p.toView = s.toView /\ p.hurried = s.hurried /\ p.restarts = s.restarts
      /\ p.recv \subseteq s.recv
  BY <1>1, ZenonT(60) DEF RemoveInvalidViewChange, Valid, NodeState
<1>5. LocalInv(p, S)
  <2> HIDE DEF p
  <2> QED
    BY <1>2, <1>4, ShrinkInv
<1>6. ASSUME r \in S PROVE LocalInv(w, S) /\ Rises(s0, w, S)
  <2>1. Fits(r, p)
    <3> HIDE DEF r, p
    <3> QED
      BY <1>3, <1>4, <1>5 DEF Fits, LocalInv, BaseInv, NodeState, BlockId
  <2>2. BaseInv(t, S)
    <3> HIDE DEF r, p
    <3> QED
      BY <1>3, <1>5, <1>6, <2>1, AddInv DEF LocalInv
  <2>3. /\ t.tip = p.tip /\ t.highest = p.highest /\ t.view = p.view
        /\ t.toView = p.toView /\ t.hurried = p.hurried /\ t.restarts = p.restarts
    <3> HIDE DEF r, p
    <3> QED
      BY <1>3, <1>4, AddType
  <2>4. LocalInv(t, S)
    <3> HIDE DEF t
    <3> QED
      BY <1>5, <2>2, <2>3 DEF LocalInv, ViewInv, HurryInv
  <2>5. LocalInv(w, S) /\ Rises(t, w, S)
    <3>1. s.toView > t.view
      BY <1>2, <1>4, <2>3
    <3> HIDE DEF t
    <3> QED
      BY <1>2, <2>4, <3>1, ChangeInv
  <2> HIDE DEF w, t, p
  <2> QED
    BY <1>1, <1>4, <2>3, <2>5 DEF Rises
<1> QED
  BY <1>3, <1>6 DEF s

-----------------------------------------------------------------------------
(***************************************************************************)
(* The invariant is inductive.  Each action changes the state of one node  *)
(* and adds to sent; Moves is what the abstract specification sees of it.  *)
(***************************************************************************)
Moves(n) ==
  /\ sent \subseteq sent'
  /\ \E t : Update(n, t) /\ Rises(node[n], t, sent')

\* Back to view 0, on a new block or by starting again
Renews(n) ==
  /\ sent' = sent
  /\ \E t : /\ Update(n, t) /\ t.view = 0
            /\ \/ /\ t.restarts = node[n].restarts
                  /\ t.highest.number > node[n].highest.number
               \/ /\ t.restarts = node[n].restarts + 1
                  /\ t.highest.number >= node[n].highest.number

\* What an action has to show of the one node it changes, and of the network.
LEMMA OneNode ==
  ASSUME IInv, NEW n \in Nodes, NEW t, Update(n, t), LocalInv(t, sent'),
         sent \subseteq sent', sent' \subseteq Request,
         inbox' \in [Nodes -> SUBSET Message],
         \A x \in Nodes : \A m \in inbox'[x] : m.req \in sent'
  PROVE  IInv'
<1>1. node \in [Nodes -> NodeState] /\ t \in NodeState
  BY DEF IInv, TypeOK, LocalInv, BaseInv
<1>2. TypeOK'
  BY <1>1 DEF TypeOK, Update
<1>3. \A x \in Nodes : LocalInv(node'[x], sent')
  <2> TAKE x \in Nodes
  <2>1. CASE x = n
    BY <1>1, <2>1 DEF Update
  <2>2. CASE x # n
    <3>1. node'[x] = node[x]
      BY <1>1, <2>2 DEF Update
    <3>2. LocalInv(node[x], sent')
      BY LocalInvGrows DEF IInv
    <3> QED
      BY <3>1, <3>2
  <2> QED
    BY <2>1, <2>2
<1> QED
  BY <1>2, <1>3 DEF IInv, InboxSent

\* The messages that handling one puts on the wire are well formed.
LEMMA OutgoingType ==
  ASSUME NEW n \in Nodes, NEW m \in Message, NEW x \in Nodes
  PROVE  /\ ForwardMsgByTTL(n, m, x) \subseteq Message
         /\ \A q \in ForwardMsgByTTL(n, m, x) : q.req = m.req
         /\ \A r \in Request : [req |-> r, from |-> n, ttl |-> 1] \in Message
         /\ \A r \in Request : [req |-> r, from |-> n, ttl |-> MaxTTL] \in Message
<1>1. MaxTTL \in Nat /\ MaxTTL >= 1
  BY ConstantAssumption
<1>2. 1 \in 1 .. MaxTTL /\ MaxTTL \in 1 .. MaxTTL
  BY <1>1
<1>3. m.ttl > 1 => m.ttl - 1 \in 1 .. MaxTTL
  BY <1>1 DEF Message
<1>4. m.ttl > 1 => /\ [m EXCEPT !.from = n, !.ttl = m.ttl - 1] \in Message
                   /\ [m EXCEPT !.from = n, !.ttl = m.ttl - 1].req = m.req
  <2> DEFINE k == m.ttl - 1
  <2> SUFFICES k \in 1 .. MaxTTL => /\ [m EXCEPT !.from = n, !.ttl = k] \in Message
                                    /\ [m EXCEPT !.from = n, !.ttl = k].req = m.req
    BY <1>3
  <2> HIDE DEF k
  <2> QED
    BY ZenonT(60) DEF Message
<1>5. /\ ForwardMsgByTTL(n, m, x) \subseteq Message
      /\ \A q \in ForwardMsgByTTL(n, m, x) : q.req = m.req
  BY <1>4, ZenonT(60) DEF ForwardMsgByTTL
<1> QED
  BY <1>2, <1>5 DEF Message

\* The invariant holds before the first step.
LEMMA InitInv ==
  Init => IInv
<1> SUFFICES ASSUME Init PROVE IInv
  OBVIOUS
<1>1. PICK g \in Hashes :
        node = [n \in Nodes |-> InitState([number |-> 0, hash |-> g], 0)]
  BY DEF Init
<1> DEFINE e == {}
           s == InitState([number |-> 0, hash |-> g], 0)
<1>2. /\ s \in NodeState /\ s.tip = s.highest /\ s.highest.number = 0
      /\ s.view = 0 /\ s.toView = 0 /\ s.hurried = FALSE /\ s.recv = e
  BY DEF InitState, NodeState, BlockId
<1>3. LocalInv(s, sent)
  <2> HIDE DEF s
  <2>1. BaseInv(s, sent)
    BY <1>2 DEF BaseInv, CacheInv
  <2>2. ViewInv(s, sent) /\ HurryInv(s, sent)
    BY <1>2 DEF ViewInv, HurryInv
  <2> QED
    BY <2>1, <2>2 DEF LocalInv
<1>4. TypeOK
  <2> HIDE DEF s
  <2>1. node = [n \in Nodes |-> s]
    BY <1>1 DEF s
  <2> QED
    BY <1>2, <2>1 DEF TypeOK, Init
<1>5. \A n \in Nodes : LocalInv(node[n], sent)
  BY <1>1, <1>3
<1> QED
  BY <1>4, <1>5 DEF IInv, InboxSent, Init

\* handleViewChangeMsg keeps the invariant and moves the view as promised.
LEMMA HandleStep ==
  ASSUME IInv, NEW n \in Nodes, HandleViewChange(n)
  PROVE  IInv' /\ Moves(n)
<1>1. PICK m \in inbox[n] :
        LET r == m.req
            lags == CatchupView(n, node[n], m)
            s == IF lags THEN EraseLatest(node[n], r.idx) ELSE node[n]
            valid == IsValidViewChangeReq(n, s, r)
            reply == {[req |-> RequestOf(n, s), from |-> n, ttl |-> 1]}
        IN /\ \E t \in (IF valid THEN Results(s, r) ELSE {s}) : Update(n, t)
           /\ inbox' = [x \in Nodes |->
                IF x = n THEN inbox[x] \ {m}
                ELSE inbox[x] \cup (IF lags /\ x = r.idx THEN reply ELSE {})
                       \cup (IF valid THEN ForwardMsgByTTL(n, m, x) ELSE {})]
           /\ sent' = IF lags THEN sent \cup {RequestOf(n, s)} ELSE sent
  BY ZenonT(60) DEF HandleViewChange
<1> DEFINE lags == CatchupView(n, node[n], m)
           s == IF lags THEN EraseLatest(node[n], m.req.idx) ELSE node[n]
           valid == IsValidViewChangeReq(n, s, m.req)
           answer == RequestOf(n, s)
           reply == [req |-> answer, from |-> n, ttl |-> 1]
<1>2. /\ m \in Message /\ m.req \in Request /\ m.req \in sent
      /\ node[n] \in NodeState /\ LocalInv(node[n], sent)
  BY DEF IInv, TypeOK, InboxSent, Message
<1>3. LocalInv(s, sent) /\ Rises(node[n], s, sent) /\ answer \in Request
  <2>1. /\ s \in NodeState /\ s.tip = node[n].tip /\ s.highest = node[n].highest
        /\ s.view = node[n].view /\ s.toView = node[n].toView
        /\ s.hurried = node[n].hurried /\ s.restarts = node[n].restarts /\ s.recv = node[n].recv
    BY <1>2 DEF EraseLatest, NodeState
  <2> HIDE DEF s
  <2>2. answer \in Request
    BY <2>1 DEF RequestOf, Request, NodeState, BlockId
  <2> QED
    BY <1>2, <2>1, <2>2, ShrinkInv
<1>4. PICK t \in (IF valid THEN Results(s, m.req) ELSE {s}) : Update(n, t)
  BY <1>1
<1>5. sent' = IF lags THEN sent \cup {answer} ELSE sent
  BY <1>1
<1>6. inbox' = [x \in Nodes |->
        IF x = n THEN inbox[x] \ {m}
        ELSE inbox[x] \cup (IF lags /\ x = m.req.idx THEN {reply} ELSE {})
               \cup (IF valid THEN ForwardMsgByTTL(n, m, x) ELSE {})]
  BY <1>1
<1> HIDE DEF lags, s, valid, answer
<1>7. sent \subseteq sent' /\ sent' \subseteq Request
  BY <1>3, <1>5 DEF IInv, TypeOK
<1>8. LocalInv(t, sent') /\ Rises(node[n], t, sent')
  <2>1. LocalInv(s, sent')
    BY <1>3, <1>7, LocalInvGrows
  <2>2. LocalInv(t, sent') /\ Rises(s, t, sent')
    <3>1. CASE valid
      BY <1>2, <1>4, <1>7, <2>1, <3>1, ResultsInv DEF valid
    <3>2. CASE ~valid
      BY <1>4, <2>1, <3>2 DEF Rises
    <3> QED
      BY <3>1, <3>2
  <2>3. node[n].highest = s.highest /\ node[n].view = s.view /\ node[n].restarts = s.restarts
    BY <1>2 DEF s, EraseLatest, NodeState
  <2> QED
    BY <2>2, <2>3 DEF Rises
<1>9. /\ inbox' \in [Nodes -> SUBSET Message]
      /\ \A x \in Nodes : \A q \in inbox'[x] : q.req \in sent'
  <2>1. ASSUME NEW x \in Nodes, NEW q \in inbox'[x]
        PROVE  q \in Message /\ q.req \in sent'
    <3>1. \/ q \in inbox[x]
          \/ lags /\ q = reply
          \/ q \in ForwardMsgByTTL(n, m, x)
      BY <1>6, <2>1
    <3>2. CASE q \in inbox[x]
      BY <1>7, <3>2 DEF IInv, TypeOK, InboxSent
    <3>3. CASE lags /\ q = reply
      BY <1>2, <1>3, <1>5, <3>3, OutgoingType
    <3>4. CASE q \in ForwardMsgByTTL(n, m, x)
      BY <1>2, <1>7, <3>4, OutgoingType
    <3> QED
      BY <3>1, <3>2, <3>3, <3>4
  <2>2. inbox' \in [Nodes -> SUBSET Message]
    <3>1. \A x \in Nodes : inbox'[x] \in SUBSET Message
      BY <2>1
    <3> QED
      BY <1>6, <3>1
  <2> QED
    BY <2>1, <2>2
<1>10. IInv'
  BY <1>4, <1>7, <1>8, <1>9, OneNode
<1> QED
  BY <1>4, <1>7, <1>8, <1>10 DEF Moves

\* checkTimeout keeps the invariant and moves the view as promised.
LEMMA TimeoutStep ==
  ASSUME IInv, NEW n \in Nodes, CheckTimeout(n)
  PROVE  IInv' /\ Moves(n)
<1> DEFINE s == [node[n] EXCEPT !.toView = @ + 1, !.leaderFailed = TRUE, !.hurried = FALSE]
           r == RequestOf(n, s)
           t == CheckAndChangeView(
                  AddViewChangeReq(RemoveInvalidViewChange(s, s.toView), r), s.toView)
           msg == [req |-> r, from |-> n, ttl |-> MaxTTL]
<1>1. /\ Update(n, t) /\ sent' = sent \cup {r}
      /\ inbox' = [x \in Nodes |-> IF x = n THEN inbox[x] ELSE inbox[x] \cup {msg}]
  BY DEF CheckTimeout
<1>2. r \in Request
  BY TimeoutInv, ZenonT(60) DEF IInv
<1>3. LocalInv(node[n], sent')
  BY <1>1, LocalInvGrows DEF IInv
<1>4. LocalInv(t, sent') /\ Rises(node[n], t, sent')
  BY <1>1, <1>3, TimeoutInv, ZenonT(60)
<1> HIDE DEF s, t, r
<1>5. sent \subseteq sent' /\ sent' \subseteq Request
  BY <1>1, <1>2 DEF IInv, TypeOK
<1>6. msg \in Message /\ msg.req = r
  <2>1. MaxTTL \in 1 .. MaxTTL
    BY ConstantAssumption
  <2> QED
    BY <1>2, <2>1 DEF Message
<1>7. inbox' \in [Nodes -> SUBSET Message]
  BY <1>1, <1>6 DEF IInv, TypeOK
<1>8. \A x \in Nodes : \A q \in inbox'[x] : q.req \in sent'
  <2> HIDE DEF msg
  <2> QED
    BY <1>1, <1>6 DEF IInv, InboxSent
<1>9. IInv'
  BY <1>1, <1>4, <1>5, <1>7, <1>8, OneNode, ZenonT(60)
<1> QED
  BY <1>1, <1>4, <1>5, <1>9 DEF Moves

\* checkAndSave4nl opens the window in which m_highestBlock lags.
LEMMA CommitStep ==
  ASSUME IInv, NEW n \in Nodes, CommitBlock(n)
  PROVE  IInv' /\ Moves(n)
<1> DEFINE s == node[n]
<1>1. PICK h \in Hashes :
        Update(n, [s EXCEPT !.tip = [number |-> s.tip.number + 1, hash |-> h]])
  BY DEF CommitBlock
<1> DEFINE b == [number |-> s.tip.number + 1, hash |-> h]
           t == [s EXCEPT !.tip = b]
<1>2. s \in NodeState /\ LocalInv(s, sent) /\ UNCHANGED <<inbox, sent>>
  BY DEF IInv, TypeOK, CommitBlock
<1>3. /\ s.tip.number \in Nat /\ s.highest.number \in Nat
      /\ b \in BlockId /\ b.number = s.tip.number + 1
  BY <1>2 DEF NodeState, BlockId
<1>4. /\ t \in NodeState /\ t.tip = b /\ t.highest = s.highest /\ t.view = s.view
      /\ t.toView = s.toView /\ t.hurried = s.hurried /\ t.restarts = s.restarts /\ t.recv = s.recv
  <2> HIDE DEF b
  <2> QED
    BY <1>2, <1>3 DEF NodeState
<1>5. Update(n, t)
  BY <1>1
<1> HIDE DEF t, b, s
<1>6. LocalInv(t, sent)
  <2>1. t.highest.number < t.tip.number
    BY <1>2, <1>3, <1>4 DEF LocalInv, BaseInv
  <2>2. \A r \in s.recv : r.height \in Nat
    BY <1>2 DEF NodeState, Request
  <2>3. BaseInv(t, sent)
    BY <1>2, <1>3, <1>4, <2>1, <2>2 DEF LocalInv, BaseInv, CacheInv, Fits
  <2>4. ViewInv(t, sent) /\ HurryInv(t, sent)
    BY <1>2, <1>3, <1>4, <2>1 DEF LocalInv, ViewInv, HurryInv
  <2> QED
    BY <2>3, <2>4 DEF LocalInv
<1>7. IInv'
  BY <1>2, <1>5, <1>6, OneNode DEF IInv, TypeOK, InboxSent
<1> QED
  BY <1>2, <1>4, <1>5, <1>7 DEF Moves, Rises, s

\* reportBlock closes the window: the requests cached for other blocks of the
\* reported height go, and those above the chain were never cached.
LEMMA ReportStep ==
  ASSUME IInv, NEW n \in Nodes, ReportBlock(n)
  PROVE  IInv' /\ Renews(n)
<1> DEFINE s == node[n]
           t == [s EXCEPT !.highest = s.tip, !.view = 0, !.toView = 0,
                   !.leaderFailed = FALSE, !.hurried = FALSE, !.recv = Valid(s.recv, s.tip)]
<1>1. /\ s \in NodeState /\ LocalInv(s, sent) /\ UNCHANGED <<inbox, sent>>
      /\ Update(n, t) /\ s.highest.number < s.tip.number
  BY DEF IInv, TypeOK, ReportBlock
<1>2. /\ t \in NodeState /\ t.tip = s.tip /\ t.highest = s.tip /\ t.view = 0
      /\ t.toView = 0 /\ t.hurried = FALSE /\ t.restarts = s.restarts /\ t.recv = Valid(s.recv, s.tip)
  BY <1>1, ZenonT(60) DEF NodeState, Valid
<1> HIDE DEF t, s
<1>3. LocalInv(t, sent)
  <2>1. s.tip \in BlockId /\ \A r \in s.recv : r.height \in Nat
    BY <1>1 DEF NodeState, Request
  <2>2. CacheInv(t, sent)
    BY <1>1, <1>2, <2>1 DEF LocalInv, BaseInv, CacheInv, Fits, Valid, BlockId
  <2>3. BaseInv(t, sent)
    BY <1>2, <2>1, <2>2 DEF BaseInv, BlockId
  <2>4. ViewInv(t, sent) /\ HurryInv(t, sent)
    BY <1>2 DEF ViewInv, HurryInv
  <2> QED
    BY <2>3, <2>4 DEF LocalInv
<1>4. IInv'
  BY <1>1, <1>3, OneNode DEF IInv, TypeOK, InboxSent
<1>5. t.highest.number > s.highest.number
  BY <1>1, <1>2 DEF NodeState, BlockId
<1> QED
  BY <1>1, <1>2, <1>4, <1>5 DEF Renews, s

\* A restart begins from the chain, with empty caches.
LEMMA RestartStep ==
  ASSUME IInv, NEW n \in Nodes, Restart(n)
  PROVE  IInv' /\ Renews(n)
<1> DEFINE s == node[n]
           k == s.restarts + 1
           e == {}
           t == InitState(s.tip, k)
<1>1. /\ s \in NodeState /\ LocalInv(s, sent) /\ sent' = sent /\ Update(n, t)
      /\ inbox' = [inbox EXCEPT ![n] = e]
  BY DEF IInv, TypeOK, Restart
<1>2. k \in Nat /\ s.tip \in BlockId /\ s.highest \in BlockId
  BY <1>1 DEF NodeState
<1>3. /\ t \in NodeState /\ t.tip = s.tip /\ t.highest = s.tip /\ t.view = 0
      /\ t.toView = 0 /\ t.hurried = FALSE /\ t.restarts = k /\ t.recv = e
  <2> HIDE DEF k, s
  <2> QED
    BY <1>2, ZenonT(60) DEF InitState, NodeState
<1> HIDE DEF t, s
<1>4. LocalInv(t, sent)
  <2>1. BaseInv(t, sent)
    BY <1>2, <1>3 DEF BaseInv, CacheInv, BlockId
  <2>2. ViewInv(t, sent) /\ HurryInv(t, sent)
    BY <1>3 DEF ViewInv, HurryInv
  <2> QED
    BY <2>1, <2>2 DEF LocalInv
<1>5. /\ inbox' \in [Nodes -> SUBSET Message]
      /\ \A x \in Nodes : \A m \in inbox'[x] : m.req \in sent'
  BY <1>1 DEF IInv, TypeOK, InboxSent
<1>6. IInv'
  BY <1>1, <1>4, <1>5, OneNode DEF IInv, TypeOK
<1>7. t.highest.number >= s.highest.number
  BY <1>1, <1>2, <1>3 DEF LocalInv, BaseInv, BlockId
<1> QED
  BY <1>1, <1>3, <1>6, <1>7 DEF Renews, s

\* collectGarbage and a lost session only drop requests.
LEMMA DropStep ==
  ASSUME IInv, NEW n \in Nodes, CollectGarbage(n) \/ \E i \in Nodes : Disconnect(n, i)
  PROVE  IInv' /\ Moves(n)
<1> DEFINE s == node[n]
<1>1. s \in NodeState /\ LocalInv(s, sent) /\ sent' = sent
  BY DEF IInv, TypeOK, CollectGarbage, Disconnect
<1>2. /\ inbox' \in [Nodes -> SUBSET Message]
      /\ \A x \in Nodes : \A m \in inbox'[x] : m.req \in sent'
  BY <1>1 DEF IInv, TypeOK, InboxSent, CollectGarbage, Disconnect
<1>3. PICK t : /\ Update(n, t) /\ t \in NodeState
               /\ t.tip = s.tip /\ t.highest = s.highest /\ t.view = s.view
               /\ t.toView = s.toView /\ t.hurried = s.hurried /\ t.restarts = s.restarts /\ t.recv \subseteq s.recv
  <2>1. CASE CollectGarbage(n)
    <3> DEFINE t == [s EXCEPT !.recv = Valid(s.recv, s.highest),
                              !.latest = Valid(s.latest, s.highest)]
    <3>1. Update(n, t)
      BY <2>1 DEF CollectGarbage
    <3>2. /\ t \in NodeState
          /\ t.tip = s.tip /\ t.highest = s.highest /\ t.view = s.view
          /\ t.toView = s.toView /\ t.hurried = s.hurried /\ t.restarts = s.restarts /\ t.recv \subseteq s.recv
      BY <1>1, ZenonT(60) DEF NodeState, Valid
    <3> HIDE DEF t
    <3> QED
      BY <3>1, <3>2
  <2>2. CASE \E i \in Nodes : Disconnect(n, i)
    <3>1. PICK i \in Nodes : Disconnect(n, i)
      BY <2>2
    <3> DEFINE t == EraseLatest(s, i)
    <3>2. Update(n, t)
      BY <3>1 DEF Disconnect
    <3>3. /\ t \in NodeState
          /\ t.tip = s.tip /\ t.highest = s.highest /\ t.view = s.view
          /\ t.toView = s.toView /\ t.hurried = s.hurried /\ t.restarts = s.restarts /\ t.recv \subseteq s.recv
      BY <1>1 DEF NodeState, EraseLatest
    <3> HIDE DEF t
    <3> QED
      BY <3>2, <3>3
  <2> QED
    BY <2>1, <2>2
<1>4. LocalInv(t, sent) /\ Rises(s, t, sent)
  BY <1>1, <1>3, ShrinkInv
<1>5. IInv'
  BY <1>1, <1>2, <1>3, <1>4, OneNode DEF IInv, TypeOK
<1> QED
  BY <1>1, <1>3, <1>4, <1>5 DEF Moves

\* Every step keeps the invariant.
LEMMA NextInv ==
  IInv /\ [Next]_vars => IInv' /\ (UNCHANGED vars \/ \E n \in Nodes : Moves(n) \/ Renews(n))
<1> SUFFICES ASSUME IInv, [Next]_vars
             PROVE  IInv' /\ (UNCHANGED vars \/ \E n \in Nodes : Moves(n) \/ Renews(n))
  OBVIOUS
<1>1. CASE UNCHANGED vars
  BY <1>1 DEF vars, IInv, TypeOK, InboxSent
<1>2. CASE Next
  <2>1. PICK n \in Nodes :
          \/ HandleViewChange(n) \/ CheckTimeout(n) \/ CommitBlock(n) \/ ReportBlock(n)
          \/ CollectGarbage(n) \/ Restart(n) \/ \E i \in Nodes : Disconnect(n, i)
    BY <1>2 DEF Next
  <2>2. CASE HandleViewChange(n)
    BY <2>2, HandleStep
  <2>3. CASE CheckTimeout(n)
    BY <2>3, TimeoutStep
  <2>4. CASE CommitBlock(n)
    BY <2>4, CommitStep
  <2>5. CASE ReportBlock(n)
    BY <2>5, ReportStep
  <2>6. CASE CollectGarbage(n) \/ \E i \in Nodes : Disconnect(n, i)
    BY <2>6, DropStep
  <2>7. CASE Restart(n)
    BY <2>7, RestartStep
  <2> QED
    BY <2>1, <2>2, <2>3, <2>4, <2>5, <2>6, <2>7
<1> QED
  BY <1>1, <1>2

\* The invariant holds throughout.
LEMMA Invariance ==
  Spec => []IInv
<1>1. IInv /\ [Next]_vars => IInv'
  BY NextInv
<1> QED
  BY InitInv, <1>1, PTL DEF Spec

-----------------------------------------------------------------------------
(***************************************************************************)
(* The theorems.                                                           *)
(***************************************************************************)
\* Every handler of the view change keeps the types, forwarding included: a
\* request never travels with a TTL outside 1 .. MaxTTL.
THEOREM ViewChangeTypeCorrect ==
  Spec => []TypeOK
<1>1. IInv => TypeOK
  BY DEF IInv
<1> QED
  BY Invariance, <1>1, PTL

\* A node that is in a view of the block at the tip of its chain got there
\* with the requests of a quorum for that view and that block.
THEOREM ViewsAreBacked ==
  Spec => []ViewBacked
<1>1. IInv => ViewBacked
  BY DEF IInv, LocalInv, ViewInv, ViewBacked, BlockAskers
<1> QED
  BY Invariance, <1>1, PTL

\* A fast view change is caused by more than m_f nodes that are ahead.
THEOREM HurriesAreBacked ==
  Spec => []HurryBacked
<1>1. IInv => HurryBacked
  BY DEF IInv, LocalInv, HurryInv, HurryBacked, AheadAskers
<1> QED
  BY Invariance, <1>1, PTL

\* The view change implements Views.
THEOREM ViewChangeImplementsViews ==
  Spec => ImplementsViews
<1>1. Init => Abstract!Init
  <2> SUFFICES ASSUME Init PROVE Abstract!Init
    OBVIOUS
  <2>1. PICK g \in Hashes :
          node = [n \in Nodes |-> InitState([number |-> 0, hash |-> g], 0)]
    BY DEF Init
  <2>2. \A n \in Nodes : /\ node[n].view = 0 /\ node[n].restarts = 0
                         /\ node[n].highest = [number |-> 0, hash |-> g]
    BY <2>1 DEF InitState
  <2>3. sent = {}
    BY DEF Init
  <2> QED
    BY <2>2, <2>3 DEF Abstract!Init
<1>2. IInv /\ [Next]_vars => [Abstract!Next]_(Abstract!aVars)
  <2> SUFFICES ASSUME IInv, [Next]_vars
               PROVE  [Abstract!Next]_(Abstract!aVars)
    OBVIOUS
  <2>1. UNCHANGED vars \/ \E n \in Nodes : Moves(n) \/ Renews(n)
    BY NextInv
  <2>2. node \in [Nodes -> NodeState]
    BY DEF IInv, TypeOK
  <2>3. CASE UNCHANGED vars
    BY <2>3 DEF vars, Abstract!aVars
  <2>4. ASSUME NEW n \in Nodes, Moves(n)
        PROVE  Abstract!Change(n)
    <3>1. PICK t : Update(n, t) /\ Rises(node[n], t, sent') /\ sent \subseteq sent'
      BY <2>4 DEF Moves
    <3>2. node'[n] = t /\ \A x \in Nodes : x # n => node'[x] = node[x]
      BY <2>2, <3>1 DEF Update
    <3>3. \A x \in Nodes : /\ node'[x].highest = node[x].highest
                           /\ node'[x].restarts = node[x].restarts
      BY <3>1, <3>2 DEF Rises
    <3>4. \A v, h : Abstract!Askers(sent', v, h) = HeightAskers(sent', v, h)
      BY DEF Abstract!Askers, HeightAskers
    <3>5. \A v, h : HeightAskers(sent', v, h) \in SUBSET Nodes
      BY DEF HeightAskers
    <3>6. CASE t.view = node[n].view
      BY <3>1, <3>2, <3>3, <3>6 DEF Abstract!Change
    <3>7. CASE /\ t.view > node[n].view
               /\ Cardinality(HeightAskers(sent', t.view, node[n].highest.number))
                    >= MinValidNodes
      <4>1. Abstract!Askers(sent', t.view, node[n].highest.number) \in Quorums
        BY <3>4, <3>5, <3>7 DEF Quorums
      <4>2. [x \in Nodes |-> node[x].view]'
              = [[x \in Nodes |-> node[x].view] EXCEPT ![n] = t.view]
        BY <3>2, ZenonT(60)
      <4> QED
        BY <3>1, <3>2, <3>3, <3>7, <4>1, <4>2, ZenonT(60) DEF Abstract!Change
    <3> QED
      BY <3>1, <3>6, <3>7 DEF Rises
  <2>5. ASSUME NEW n \in Nodes, Renews(n)
        PROVE  Abstract!NewBlock(n) \/ Abstract!Restart(n)
    <3>1. PICK t : /\ Update(n, t) /\ sent' = sent /\ t.view = 0
                   /\ \/ /\ t.restarts = node[n].restarts
                         /\ t.highest.number > node[n].highest.number
                      \/ /\ t.restarts = node[n].restarts + 1
                         /\ t.highest.number >= node[n].highest.number
      BY <2>5 DEF Renews
    <3>2. node'[n] = t /\ \A x \in Nodes : x # n => node'[x] = node[x]
      BY <2>2, <3>1 DEF Update
    <3>3. CASE t.restarts = node[n].restarts /\ t.highest.number > node[n].highest.number
      BY <3>1, <3>2, <3>3, ZenonT(60) DEF Abstract!NewBlock
    <3>4. CASE /\ t.restarts = node[n].restarts + 1
               /\ t.highest.number >= node[n].highest.number
      BY <3>1, <3>2, <3>4, ZenonT(60) DEF Abstract!Restart
    <3> QED
      BY <3>1, <3>3, <3>4
  <2> QED
    BY <2>1, <2>3, <2>4, <2>5 DEF Abstract!Next
<1> QED
  BY Invariance, <1>1, <1>2, PTL DEF Spec, ImplementsViews, Abstract!Spec

-----------------------------------------------------------------------------
(***************************************************************************)
(* Governance: the committee is sound, for any accounts, weights and       *)
(* thresholds, and any number of blocks and votes.                         *)
(***************************************************************************)
GovShape ==
    /\ authorized \subseteq Accounts
    /\ members \subseteq Accounts
    /\ permits \in [PermitTables -> SUBSET Accounts]
    /\ weight \in [Accounts -> SUBSET (MemberWeights \cup {1})]

\* Who is no member has at most the weight a refused first grant left, so that
\* becoming a member leaves it with one weight.
NoOtherWeight == \A u \in Accounts \ members : weight[u] \subseteq {1}

OneVote == \A v, w \in votes : v.key = w.key /\ v.origin = w.origin => v = w

OneWeight == \A m \in members : \E w \in MemberWeights \cup {1} : weight[m] = {w}

NoOperator == members \cap (permits["tables"] \cup permits["cns"]) = {}

GovInv == GovShape /\ NoOtherWeight /\ OneVote /\ OneWeight /\ NoOperator

\* recordVote replaces the vote of the same origin on the same key, and neither
\* it nor deleteUsedVotes adds another: nobody gets two votes on one matter.
LEMMA RecordOneVote ==
    ASSUME OneVote, NEW o, NEW key, NEW value
    PROVE  /\ \A v, w \in RecordVote(o, key, value) :
                 v.key = w.key /\ v.origin = w.origin => v = w
           /\ DeleteUsedVotes(key, value, RecordVote(o, key, value))
                 \subseteq RecordVote(o, key, value)
<1> DEFINE vote == [key |-> key, value |-> value, origin |-> o,
                    limit |-> govNumber + VoteValidLimit]
           kept == { v \in votes : ~(v.key = key /\ v.origin = o) }
<1>1. vote.key = key /\ vote.origin = o
  OBVIOUS
<1>2. RecordVote(o, key, value) \subseteq kept \cup {vote}
  BY DEF RecordVote
<1>3. \A v, w \in kept \cup {vote} : v.key = w.key /\ v.origin = w.origin => v = w
  <2> HIDE DEF vote
  <2> QED
    BY <1>1 DEF OneVote
<1> HIDE DEF vote, kept
<1>4. QED
  BY <1>2, <1>3 DEF DeleteUsedVotes

\* A vote, decisive or not, keeps one vote per origin and key.
LEMMA VotingKeepsOneVote ==
    ASSUME OneVote, NEW o, NEW key, NEW value,
           Undecided(o, key, value) \/ Decided(o, key, value)
    PROVE  OneVote'
<1>1. votes' \subseteq RecordVote(o, key, value)
  BY RecordOneVote DEF Undecided, Decided
<1>2. QED
  BY <1>1, RecordOneVote DEF OneVote

\* What an undecided vote leaves alone.
LEMMA UndecidedKeeps ==
    ASSUME GovInv, NEW o, NEW key, NEW value, Undecided(o, key, value)
    PROVE  GovInv'
<1>1. OneVote'
  BY VotingKeepsOneVote DEF GovInv
<1>2. UNCHANGED <<authorized, members, permits, weight>>
  BY DEF Undecided
<1>3. QED
  BY <1>1, <1>2 DEF GovInv, GovShape, NoOtherWeight, OneWeight, NoOperator

\* Admitting u, who has no operator's permission, with the weight 1.
LEMMA AdmitKeeps ==
    ASSUME GovInv, NEW o \in Accounts, NEW u \in Accounts,
           ~HasOperatorPermissions(u), u \notin members,
           members' \in {members, members \cup {u}},
           permits' = Permitted(o, u, {"config", "consensus"}),
           weight' = [weight EXCEPT ![u] = @ \cup {1}]
    PROVE  NoOtherWeight' /\ OneWeight' /\ NoOperator'
           /\ members' \subseteq Accounts
           /\ permits' \in [PermitTables -> SUBSET Accounts]
           /\ weight' \in [Accounts -> SUBSET (MemberWeights \cup {1})]
<1> USE DEF GovInv, GovShape
<1>1. weight'[u] = {1} /\ \A x \in Accounts \ {u} : weight'[x] = weight[x]
  BY DEF NoOtherWeight
<1>2. permits'["tables"] = permits["tables"] /\ permits'["cns"] = permits["cns"]
  BY DEF Permitted, PermitTables
<1>3. permits' \in [PermitTables -> SUBSET Accounts]
  BY DEF Permitted
<1>4. weight' \in [Accounts -> SUBSET (MemberWeights \cup {1})]
  OBVIOUS
<1>5. NoOtherWeight'
  BY <1>1 DEF NoOtherWeight
<1>6. OneWeight'
  BY <1>1 DEF OneWeight
<1>7. NoOperator'
  BY <1>2 DEF NoOperator, HasOperatorPermissions
<1>8. QED
  BY <1>3, <1>4, <1>5, <1>6, <1>7

\* The first grant keeps the invariant, also when the access table refuses it
\* and only the weight is written.
LEMMA GrantFirstMemberKeeps ==
    ASSUME GovInv, NEW o \in Accounts, NEW u \in Accounts, GrantFirstMember(o, u)
    PROVE  GovInv'
<1>1. members' \in {members, members \cup {u}} /\ u \notin members
  BY DEF GrantFirstMember
<1>2. NoOtherWeight' /\ OneWeight' /\ NoOperator'
           /\ members' \subseteq Accounts
           /\ permits' \in [PermitTables -> SUBSET Accounts]
           /\ weight' \in [Accounts -> SUBSET (MemberWeights \cup {1})]
  BY <1>1, AdmitKeeps, ZenonT(60) DEF GrantFirstMember
<1>3. OneVote' /\ authorized' \subseteq Accounts
  BY DEF GovInv, GovShape, GrantFirstMember, OneVote
<1>4. QED
  BY <1>2, <1>3 DEF GovInv, GovShape

\* A grant by votes keeps the invariant.
LEMMA GrantCommitteeMemberKeeps ==
    ASSUME GovInv, NEW o \in Accounts, NEW u \in Accounts, GrantCommitteeMember(o, u)
    PROVE  GovInv'
<1>1. CASE Undecided(o, MemberKey(u), "grant")
  BY <1>1, UndecidedKeeps
<1>2. CASE /\ Decided(o, MemberKey(u), "grant")
           /\ members' = members \cup {u}
           /\ permits' = Permitted(o, u, {"config", "consensus"})
           /\ weight' = [weight EXCEPT ![u] = @ \cup {1}]
  <2>1. NoOtherWeight' /\ OneWeight' /\ NoOperator'
           /\ members' \subseteq Accounts
           /\ permits' \in [PermitTables -> SUBSET Accounts]
           /\ weight' \in [Accounts -> SUBSET (MemberWeights \cup {1})]
    BY <1>2, AdmitKeeps, ZenonT(60) DEF GrantCommitteeMember
  <2>2. OneVote'
    BY <1>2, VotingKeepsOneVote DEF GovInv
  <2>3. authorized' \subseteq Accounts
    BY <1>2 DEF Decided, GovInv, GovShape
  <2>4. QED
    BY <2>1, <2>2, <2>3 DEF GovInv, GovShape
<1>3. QED
  BY <1>1, <1>2 DEF GrantCommitteeMember

\* A member that leaves has no weight any more.
LEMMA RevokeCommitteeMemberKeeps ==
    ASSUME GovInv, NEW o \in Accounts, NEW u \in Accounts, RevokeCommitteeMember(o, u)
    PROVE  GovInv'
<1>1. CASE Undecided(o, MemberKey(u), "revoke")
  BY <1>1, UndecidedKeeps
<1>2. CASE /\ Decided(o, MemberKey(u), "revoke")
           /\ members' = members \ {u}
           /\ permits' = Revoked(o, u, {"config", "consensus"})
           /\ weight' = [weight EXCEPT ![u] = {}]
  <2> USE DEF GovInv, GovShape
  <2>1. weight'[u] = {} /\ \A x \in Accounts \ {u} : weight'[x] = weight[x]
    BY <1>2
  <2>2. weight' \in [Accounts -> SUBSET (MemberWeights \cup {1})]
    BY <1>2
  <2>3. /\ permits' \in [PermitTables -> SUBSET Accounts]
        /\ permits'["tables"] = permits["tables"]
        /\ permits'["cns"] = permits["cns"]
    BY <1>2 DEF Revoked, PermitTables
  <2>4. NoOtherWeight' /\ OneWeight'
    BY <1>2, <2>1 DEF NoOtherWeight, OneWeight
  <2>5. NoOperator'
    BY <1>2, <2>3 DEF NoOperator
  <2>6. OneVote'
    BY <1>2, VotingKeepsOneVote
  <2>7. authorized' \subseteq Accounts /\ members' \subseteq Accounts
    BY <1>2 DEF Decided
  <2>8. QED
    BY <2>2, <2>3, <2>4, <2>5, <2>6, <2>7
<1>3. QED
  BY <1>1, <1>2 DEF RevokeCommitteeMember

\* A new weight replaces the old one.
LEMMA UpdateWeightKeeps ==
    ASSUME GovInv, NEW o \in Accounts, NEW u \in Accounts, NEW w \in MemberWeights,
           UpdateCommitteeMemberWeight(o, u, w)
    PROVE  GovInv'
<1>1. CASE Undecided(o, WeightKey(u), w)
  BY <1>1, UndecidedKeeps
<1>2. CASE /\ Decided(o, WeightKey(u), w)
           /\ weight' = [weight EXCEPT ![u] = {w}]
           /\ UNCHANGED <<members, permits>>
  <2> USE DEF GovInv, GovShape
  <2>1. weight'[u] = {w} /\ \A x \in Accounts \ {u} : weight'[x] = weight[x]
    BY <1>2
  <2>2. weight' \in [Accounts -> SUBSET (MemberWeights \cup {1})]
    BY <1>2
  <2>3. NoOtherWeight' /\ OneWeight'
    BY <1>2, <2>1 DEF NoOtherWeight, OneWeight, UpdateCommitteeMemberWeight
  <2>4. OneVote'
    BY <1>2, VotingKeepsOneVote
  <2>5. QED
    BY <1>2, <2>2, <2>3, <2>4 DEF NoOperator, Decided
<1>3. QED
  BY <1>1, <1>2 DEF UpdateCommitteeMemberWeight

\* The threshold is no part of the invariant.
LEMMA UpdateThresholdKeeps ==
    ASSUME GovInv, NEW o \in Accounts, NEW t, UpdateThreshold(o, t)
    PROVE  GovInv'
<1>1. CASE Undecided(o, ThresholdKey, t)
  BY <1>1, UndecidedKeeps
<1>2. CASE Decided(o, ThresholdKey, t) /\ UNCHANGED <<members, permits, weight>>
  <2>1. OneVote'
    BY <1>2, VotingKeepsOneVote DEF GovInv
  <2>2. QED
    BY <1>2, <2>1 DEF Decided, GovInv, GovShape, NoOtherWeight, OneWeight, NoOperator
<1>3. QED
  BY <1>1, <1>2 DEF UpdateThreshold

\* A change of permits that gives members none of an operator's keeps the
\* invariant.
LEMMA PermitsKeep ==
    ASSUME GovInv, permits' \in [PermitTables -> SUBSET Accounts],
           members \cap (permits'["tables"] \cup permits'["cns"]) = {},
           authorized' \subseteq Accounts, UNCHANGED <<members, weight, votes>>
    PROVE  GovInv'
  BY DEF GovInv, GovShape, NoOtherWeight, OneVote, OneWeight, NoOperator

\* The committee is sound at first,
LEMMA GovInitInv == GovInit => GovInv
BY DEF GovInit, GovInv, GovShape, NoOtherWeight, OneVote, OneWeight, NoOperator, PermitTables

\* and every call of the two contracts keeps it so.
LEMMA GovNextInv ==
    ASSUME GovInv, [GovNext]_govVars
    PROVE  GovInv'
<1>1. ASSUME NEW o \in Accounts, NEW u \in Accounts, GrantFirstMember(o, u)
      PROVE  GovInv'
  BY <1>1, GrantFirstMemberKeeps
<1>2. ASSUME NEW o \in Accounts, NEW u \in Accounts, GrantCommitteeMember(o, u)
      PROVE  GovInv'
  BY <1>2, GrantCommitteeMemberKeeps
<1>3. ASSUME NEW o \in Accounts, NEW u \in Accounts, RevokeCommitteeMember(o, u)
      PROVE  GovInv'
  BY <1>3, RevokeCommitteeMemberKeeps
<1>4. ASSUME NEW o \in Accounts, NEW u \in Users, NEW w \in MemberWeights,
             UpdateCommitteeMemberWeight(o, u, w)
      PROVE  GovInv'
  BY <1>4, UpdateWeightKeeps, GovernanceAssumption
<1>5. ASSUME NEW o \in Accounts, NEW t \in Thresholds, UpdateThreshold(o, t)
      PROVE  GovInv'
  BY <1>5, UpdateThresholdKeeps
<1>6. ASSUME NEW o \in Accounts, NEW u \in Users, GrantOperator(o, u)
      PROVE  GovInv'
  <2> USE GovernanceAssumption DEF GovInv, GovShape, GrantOperator, Permitted, PermitTables
  <2>1. permits' \in [PermitTables -> SUBSET Accounts]
    BY <1>6
  <2>2. members \cap (permits'["tables"] \cup permits'["cns"]) = {}
    BY <1>6 DEF NoOperator
  <2>3. QED
    BY <1>6, <2>1, <2>2, PermitsKeep
<1>7. ASSUME NEW o \in Accounts, NEW u \in Users, RevokeOperator(o, u)
      PROVE  GovInv'
  <2> USE GovernanceAssumption DEF GovInv, GovShape, RevokeOperator, Revoked, PermitTables
  <2>1. permits' \in [PermitTables -> SUBSET Accounts]
    BY <1>7
  <2>2. members \cap (permits'["tables"] \cup permits'["cns"]) = {}
    BY <1>7 DEF NoOperator
  <2>3. QED
    BY <1>7, <2>1, <2>2, PermitsKeep
<1>8. ASSUME NEW o \in Accounts, NEW u \in Users, NEW t \in PermitInputs,
             InsertPermission(o, t, u) \/ RemovePermission(o, t, u)
      PROVE  GovInv'
  <2> USE GovernanceAssumption DEF GovInv, GovShape, InsertPermission, RemovePermission
  <2>1. permits' \in [PermitTables -> SUBSET Accounts]
    BY <1>8
  <2>2. members \cap (permits'["tables"] \cup permits'["cns"]) = {}
    BY <1>8 DEF NoOperator, PermitTables
  <2>3. QED
    BY <1>8, <2>1, <2>2, PermitsKeep
<1>9. CASE NextGovBlock
  BY <1>9 DEF NextGovBlock, GovInv, GovShape, NoOtherWeight, OneVote, OneWeight, NoOperator
<1>10. CASE UNCHANGED govVars
  BY <1>10 DEF govVars, GovInv, GovShape, NoOtherWeight, OneVote, OneWeight, NoOperator
<1>11. QED
  BY <1>1, <1>2, <1>3, <1>4, <1>5, <1>6, <1>7, <1>8, <1>9, <1>10 DEF GovNext

\* The committee is sound in every state that calls of the two contracts
\* reach: validate finds the one weight of each member, nobody is both a
\* member and an operator, and nobody has two votes on one matter.
THEOREM CommitteeStaysSound == GovSpec => []CommitteeSound
<1>1. GovInv => CommitteeSound
  BY DEF GovInv, CommitteeSound, OneVote, OneWeight, NoOperator
<1>2. QED
  BY <1>1, GovInitInv, GovNextInv, PTL DEF GovSpec

-----------------------------------------------------------------------------
(***************************************************************************)
(* Decisions are backed.  The rows of votes that have not expired are what *)
(* the members last said: the rows alone could hold a vote that its member *)
(* has replaced, or that a decision has used.                              *)
(***************************************************************************)
SaidBy(s, v) ==
    /\ v.key = s.key /\ v.value = s.value /\ v.origin = s.origin
    /\ v.limit = s.at + VoteValidLimit

VotesSaid ==
    /\ govNumber \in Nat
    /\ \A s \in said : /\ s.at \in Nat /\ s.at + VoteValidLimit > govNumber
                       /\ \E v \in votes : SaidBy(s, v)
    /\ \A v \in votes : /\ v.limit \in Nat
                        /\ v.limit > govNumber => \E s \in said : SaidBy(s, v)

NewVote(o, key, value) ==
    [key |-> key, value |-> value, origin |-> o, limit |-> govNumber + VoteValidLimit]

\* The members validate counts, and those who last said so.
Counted(o, key, value) ==
    { v.origin : v \in { w \in RecordVote(o, key, value) :
                          w.key = key /\ w.value = value /\ w.limit >= govNumber + 1 } }

Fresh(key, value) == { s.origin : s \in { r \in said : r.key = key /\ r.value = value } }

\* The votes on a key after recordVote: the new one, and those of others that
\* have not expired; the votes on other keys are left alone.
LEMMA Recorded ==
    ASSUME VotesSaid, NEW o, NEW key, NEW value
    PROVE  \A v : v \in RecordVote(o, key, value) <=>
                    \/ v = NewVote(o, key, value)
                    \/ v \in votes /\ v.key # key
                    \/ v \in votes /\ v.key = key /\ v.origin # o /\ v.limit > govNumber
<1> DEFINE vote == NewVote(o, key, value)
           kept == { v \in votes : ~(v.key = key /\ v.origin = o) }
<1>1. vote.key = key /\ vote.limit > govNumber
  BY GovernanceAssumption DEF NewVote, VotesSaid
<1>2. RecordVote(o, key, value) = { v \in kept \cup {vote} : v.key = key => v.limit > govNumber }
  BY DEF RecordVote, NewVote
<1> HIDE DEF vote
<1>3. \A v : v \in { w \in kept \cup {vote} : w.key = key => w.limit > govNumber } <=>
                    \/ v = vote
                    \/ v \in votes /\ v.key # key
                    \/ v \in votes /\ v.key = key /\ v.origin # o /\ v.limit > govNumber
  BY <1>1
<1> QED
  BY <1>2, <1>3 DEF vote

\* What validate counts is what the members last said, and the vote at hand.
LEMMA CountedSaid ==
    ASSUME VotesSaid, NEW o, NEW key, NEW value
    PROVE  Counted(o, key, value) = Fresh(key, value) \cup {o}
<1> DEFINE vote == NewVote(o, key, value)
           C == { w \in RecordVote(o, key, value) :
                     w.key = key /\ w.value = value /\ w.limit >= govNumber + 1 }
           R == { r \in said : r.key = key /\ r.value = value }
<1>0. /\ vote.key = key /\ vote.value = value /\ vote.origin = o
      /\ vote.limit \in Nat /\ vote.limit > govNumber /\ govNumber \in Nat
  BY GovernanceAssumption DEF NewVote, VotesSaid
<1>1. ASSUME NEW v \in C PROVE v.origin = o \/ \E s \in R : s.origin = v.origin
  <2>1. CASE v = vote
    BY <1>0, <2>1
  <2>2. CASE v \in votes
    <3>1. v.limit > govNumber
      BY <2>2 DEF VotesSaid
    <3>2. PICK s \in said : SaidBy(s, v)
      BY <2>2, <3>1 DEF VotesSaid
    <3> QED
      BY <3>2 DEF SaidBy
  <2> QED
    BY <2>1, <2>2, Recorded
<1>2. vote \in C
  BY <1>0, Recorded
<1>3. ASSUME NEW s \in R, s.origin # o PROVE \E v \in C : v.origin = s.origin
  <2>1. PICK v \in votes : SaidBy(s, v)
    BY DEF VotesSaid
  <2>2. /\ v.key = key /\ v.value = value /\ v.origin = s.origin
        /\ v.limit \in Nat /\ v.limit > govNumber
    BY <2>1 DEF SaidBy, VotesSaid
  <2>3. v \in RecordVote(o, key, value)
    BY <1>3, <2>2, Recorded
  <2> QED
    BY <1>0, <2>2, <2>3
<1> HIDE DEF C, R, vote
<1>4. { v.origin : v \in C } = { s.origin : s \in R } \cup {o}
  BY <1>0, <1>1, <1>2, <1>3
<1> QED
  BY <1>4 DEF C, R, Counted, Fresh

\* A decisive vote is backed.
LEMMA DecidedBacked ==
    ASSUME VotesSaid, NEW o, NEW key, NEW value, Decided(o, key, value)
    PROVE  Backed(key, value)
<1>1. /\ o \in members
      /\ 100 * WeightOfAll(Counted(o, key, value) \cap members) > threshold * WeightOfAll(members)
  BY DEF Decided, Validate, Counted
<1>2. Counted(o, key, value) = Fresh(key, value) \cup {o}
  BY CountedSaid
<1>3. \E p \in members :
         100 * WeightOfAll((Fresh(key, value) \cup {p}) \cap members)
            > threshold * WeightOfAll(members)
  BY <1>1, <1>2
<1> QED
  BY <1>3, ZenonT(60) DEF Backed, Fresh

\* A vote keeps the rows and what was said together.
LEMMA VotingKeepsSaid ==
    ASSUME VotesSaid, NEW o, NEW key, NEW value,
           Undecided(o, key, value) \/ Decided(o, key, value)
    PROVE  VotesSaid'
<1> DEFINE vote == NewVote(o, key, value)
           new == [key |-> key, value |-> value, origin |-> o, at |-> govNumber]
<1>0. /\ vote.key = key /\ vote.value = value /\ vote.origin = o
      /\ vote.limit \in Nat /\ vote.limit > govNumber /\ govNumber \in Nat /\ govNumber' = govNumber
  BY GovernanceAssumption DEF NewVote, VotesSaid, Undecided, Decided
<1>1. SaidBy(new, vote) /\ new.key = key /\ new.origin = o /\ new.at = govNumber
  BY DEF SaidBy, NewVote
<1>2. CASE Undecided(o, key, value)
  <2>1. /\ votes' = RecordVote(o, key, value)
        /\ said' = { s \in said : ~(s.key = key /\ s.origin = o) } \cup {new}
    BY <1>2 DEF Undecided
  <2> HIDE DEF vote, new
  <2>2. ASSUME NEW s \in said'
        PROVE  /\ s.at \in Nat /\ s.at + VoteValidLimit > govNumber
               /\ \E v \in votes' : SaidBy(s, v)
    <3>1. CASE s = new
      <4>1. vote \in votes'
        BY <2>1, Recorded DEF vote
      <4> QED
        BY <1>0, <1>1, <3>1, <4>1, GovernanceAssumption
    <3>2. CASE s \in said /\ ~(s.key = key /\ s.origin = o)
      <4>1. PICK v \in votes : SaidBy(s, v)
        BY <3>2 DEF VotesSaid
      <4>2. v.key = s.key /\ v.origin = s.origin /\ v.limit > govNumber
            /\ s.at \in Nat /\ s.at + VoteValidLimit > govNumber
        BY <3>2, <4>1 DEF SaidBy, VotesSaid
      <4>3. v \in votes'
        BY <2>1, <3>2, <4>2, Recorded
      <4> QED
        BY <4>1, <4>2, <4>3
    <3> QED
      BY <2>1, <3>1, <3>2
  <2>3. ASSUME NEW v \in votes'
        PROVE  v.limit \in Nat /\ (v.limit > govNumber => \E s \in said' : SaidBy(s, v))
    <3>1. CASE v = vote
      BY <1>0, <1>1, <2>1, <3>1
    <3>2. CASE v \in votes /\ ~(v.key = key /\ v.origin = o)
      <4>1. ASSUME v.limit > govNumber PROVE \E s \in said' : SaidBy(s, v)
        <5>1. PICK s \in said : SaidBy(s, v)
          BY <3>2, <4>1 DEF VotesSaid
        <5> QED
          BY <2>1, <3>2, <5>1 DEF SaidBy
      <4> QED
        BY <3>2, <4>1 DEF VotesSaid
    <3>3. v = vote \/ (v \in votes /\ ~(v.key = key /\ v.origin = o))
      BY <2>1, Recorded DEF vote
    <3> QED
      BY <3>1, <3>2, <3>3, ZenonT(60)
  <2> QED
    BY <1>0, <2>2, <2>3 DEF VotesSaid, SaidBy
<1>3. CASE Decided(o, key, value)
  <2>1. /\ votes' = { v \in RecordVote(o, key, value) : ~(v.key = key /\ v.value = value) }
        /\ said' = { s \in said : ~(s.key = key /\ (s.origin = o \/ s.value = value)) }
    BY <1>3 DEF Decided, DeleteUsedVotes
  <2> HIDE DEF vote, new
  <2>2. ASSUME NEW s \in said'
        PROVE  /\ s.at \in Nat /\ s.at + VoteValidLimit > govNumber
               /\ \E v \in votes' : SaidBy(s, v)
    <3>1. PICK v \in votes : SaidBy(s, v)
      BY <2>1 DEF VotesSaid
    <3>2. /\ v.key = s.key /\ v.value = s.value /\ v.origin = s.origin /\ v.limit > govNumber
          /\ s.at \in Nat /\ s.at + VoteValidLimit > govNumber
      BY <2>1, <3>1 DEF SaidBy, VotesSaid
    <3>3. v \in votes'
      BY <2>1, <3>2, Recorded
    <3> QED
      BY <3>1, <3>2, <3>3
  <2>3. ASSUME NEW v \in votes'
        PROVE  v.limit \in Nat /\ (v.limit > govNumber => \E s \in said' : SaidBy(s, v))
    <3>1. v \in votes /\ ~(v.key = key /\ (v.origin = o \/ v.value = value))
      BY <1>0, <2>1, Recorded DEF vote
    <3>2. ASSUME v.limit > govNumber PROVE \E s \in said' : SaidBy(s, v)
      <4>1. PICK s \in said : SaidBy(s, v)
        BY <3>1, <3>2 DEF VotesSaid
      <4> QED
        BY <2>1, <3>1, <4>1 DEF SaidBy
    <3> QED
      BY <3>1, <3>2 DEF VotesSaid
  <2> QED
    BY <1>0, <2>2, <2>3 DEF VotesSaid, SaidBy
<1> QED
  BY <1>2, <1>3

\* The committee stays sound and the votes are what was said.
LEMMA GovernanceInvariance == GovSpec => [](GovInv /\ VotesSaid)
<1>1. GovInit => GovInv /\ VotesSaid
  BY GovInitInv DEF GovInit, VotesSaid
<1>2. VotesSaid /\ [GovNext]_govVars => VotesSaid'
  <2> SUFFICES ASSUME VotesSaid, [GovNext]_govVars
               PROVE  VotesSaid'
    OBVIOUS
  <2>1. ASSUME UNCHANGED <<govNumber, votes, said>> PROVE VotesSaid'
    BY <2>1 DEF VotesSaid, SaidBy
  <2>2. ASSUME NEW o, NEW key, NEW value, Undecided(o, key, value) \/ Decided(o, key, value)
        PROVE  VotesSaid'
    BY <2>2, VotingKeepsSaid
  <2>3. CASE NextGovBlock
    <3>1. /\ govNumber' = govNumber + 1 /\ votes' = votes
          /\ said' = { s \in said : govNumber' < s.at + VoteValidLimit }
      BY <2>3 DEF NextGovBlock
    <3>2. govNumber' \in Nat /\ govNumber' > govNumber
      BY <3>1 DEF VotesSaid
    <3>3. ASSUME NEW s \in said'
          PROVE  /\ s.at \in Nat /\ s.at + VoteValidLimit > govNumber'
                 /\ \E v \in votes' : SaidBy(s, v)
      BY <3>1, <3>2, GovernanceAssumption DEF VotesSaid
    <3>4. ASSUME NEW v \in votes', v.limit > govNumber'
          PROVE  \E s \in said' : SaidBy(s, v)
      <4>1. v \in votes /\ v.limit > govNumber
        BY <3>1, <3>4 DEF VotesSaid
      <4>2. PICK s \in said : SaidBy(s, v)
        BY <4>1 DEF VotesSaid
      <4>3. s \in said'
        BY <3>1, <3>4, <4>2 DEF SaidBy, VotesSaid
      <4> QED
        BY <4>2, <4>3
    <3>5. \A v \in votes' : v.limit \in Nat
      BY <3>1 DEF VotesSaid
    <3> QED
      BY <3>2, <3>3, <3>4, <3>5 DEF VotesSaid, SaidBy
  <2>4. CASE UNCHANGED govVars
    BY <2>1, <2>4 DEF govVars
  <2>5. ASSUME NEW o \in Accounts, NEW u \in Accounts,
               \/ GrantCommitteeMember(o, u) \/ RevokeCommitteeMember(o, u)
        PROVE  VotesSaid'
    BY <2>2, <2>5 DEF GrantCommitteeMember, RevokeCommitteeMember
  <2>6. ASSUME NEW o \in Accounts, NEW u \in Users, NEW w \in MemberWeights,
               UpdateCommitteeMemberWeight(o, u, w)
        PROVE  VotesSaid'
    BY <2>2, <2>6 DEF UpdateCommitteeMemberWeight
  <2>7. ASSUME NEW o \in Accounts, NEW t \in Thresholds, UpdateThreshold(o, t)
        PROVE  VotesSaid'
    BY <2>2, <2>7 DEF UpdateThreshold
  <2> QED
    BY <2>1, <2>3, <2>4, <2>5, <2>6, <2>7 DEF GovNext, GrantFirstMember, GrantOperator,
         RevokeOperator, InsertPermission, RemovePermission
<1> QED
  BY <1>1, <1>2, GovNextInv, PTL DEF GovSpec

\* Members, weights and the threshold change only when members who outweigh
\* the threshold last said so: recordVote, validate and deleteUsedVotes use no
\* vote twice, none that its member replaced, and none that is too old, for
\* any accounts, weights, thresholds and limit.
THEOREM DecisionsAreBacked == GovSpec => DecisionsBacked
<1> DEFINE A == members # {} =>
         /\ \A u \in members' \ members : Backed(MemberKey(u), "grant")
         /\ \A u \in members \ members' : Backed(MemberKey(u), "revoke")
         /\ \A u \in members \cap members' :
               weight'[u] # weight[u] => \A w \in weight'[u] : Backed(WeightKey(u), w)
         /\ threshold' # threshold => Backed(ThresholdKey, threshold')
<1>1. GovInv /\ VotesSaid /\ [GovNext]_govVars => [A]_govVars
  <2> SUFFICES ASSUME GovInv, VotesSaid, GovNext, members # {}
               PROVE  /\ \A u \in members' \ members : Backed(MemberKey(u), "grant")
                      /\ \A u \in members \ members' : Backed(MemberKey(u), "revoke")
                      /\ \A u \in members \cap members' :
                            weight'[u] # weight[u] => \A w \in weight'[u] : Backed(WeightKey(u), w)
                      /\ threshold' # threshold => Backed(ThresholdKey, threshold')
    OBVIOUS
  <2> DEFINE Goal == A
  <2>a. members \subseteq Accounts /\ weight \in [Accounts -> SUBSET (MemberWeights \cup {1})]
    BY DEF GovInv, GovShape
  <2>b. ASSUME UNCHANGED <<members, weight, threshold>> PROVE Goal
    BY <2>b
  <2>1. ASSUME NEW o \in Accounts, NEW u \in Accounts, GrantCommitteeMember(o, u) PROVE Goal
    <3>1. CASE Undecided(o, MemberKey(u), "grant")
      BY <2>b, <3>1, ZenonT(60) DEF Undecided
    <3>2. CASE /\ Decided(o, MemberKey(u), "grant") /\ members' = members \cup {u}
               /\ weight' = [weight EXCEPT ![u] = @ \cup {1}] /\ UNCHANGED threshold
      <4>1. Backed(MemberKey(u), "grant")
        BY <3>2, DecidedBacked
      <4>2. \A m \in members : weight'[m] = weight[m]
        BY <2>a, <2>1, <3>2 DEF GrantCommitteeMember
      <4> QED
        BY <3>2, <4>1, <4>2
    <3> QED
      BY <2>1, <3>1, <3>2, ZenonT(60) DEF GrantCommitteeMember
  <2>2. ASSUME NEW o \in Accounts, NEW u \in Accounts, RevokeCommitteeMember(o, u) PROVE Goal
    <3>1. CASE Undecided(o, MemberKey(u), "revoke")
      BY <2>b, <3>1, ZenonT(60) DEF Undecided
    <3>2. CASE /\ Decided(o, MemberKey(u), "revoke") /\ members' = members \ {u}
               /\ weight' = [weight EXCEPT ![u] = {}] /\ UNCHANGED threshold
      <4>1. Backed(MemberKey(u), "revoke")
        BY <3>2, DecidedBacked
      <4>2. \A m \in members \ {u} : weight'[m] = weight[m]
        BY <2>a, <3>2
      <4> QED
        BY <3>2, <4>1, <4>2
    <3> QED
      BY <2>2, <3>1, <3>2 DEF RevokeCommitteeMember
  <2>3. ASSUME NEW o \in Accounts, NEW u \in Users, NEW w \in MemberWeights,
               UpdateCommitteeMemberWeight(o, u, w)
        PROVE  Goal
    <3>1. CASE Undecided(o, WeightKey(u), w)
      BY <2>b, <3>1, ZenonT(60) DEF Undecided
    <3>2. CASE /\ Decided(o, WeightKey(u), w) /\ weight' = [weight EXCEPT ![u] = {w}]
               /\ UNCHANGED <<members, threshold>>
      <4>1. Backed(WeightKey(u), w)
        BY <3>2, DecidedBacked
      <4>2. \A m \in members : weight'[m] # weight[m] => m = u /\ weight'[m] = {w}
        BY <2>a, <3>2
      <4> QED
        BY <3>2, <4>1, <4>2
    <3> QED
      BY <2>3, <3>1, <3>2 DEF UpdateCommitteeMemberWeight
  <2>4. ASSUME NEW o \in Accounts, NEW t \in Thresholds, UpdateThreshold(o, t) PROVE Goal
    <3>1. CASE Undecided(o, ThresholdKey, t)
      BY <2>b, <3>1, ZenonT(60) DEF Undecided
    <3>2. CASE /\ Decided(o, ThresholdKey, t) /\ threshold' = t
               /\ UNCHANGED <<members, weight>>
      BY <3>2, DecidedBacked
    <3> QED
      BY <2>4, <3>1, <3>2, ZenonT(60) DEF UpdateThreshold
  <2>5. ASSUME NEW o, NEW u, GrantFirstMember(o, u) PROVE FALSE
    BY <2>5 DEF GrantFirstMember
  <2> HIDE DEF Goal
  <2>6. Goal
    BY <2>b, <2>1, <2>2, <2>3, <2>4, <2>5 DEF GovNext, GrantOperator, RevokeOperator,
         InsertPermission, RemovePermission, NextGovBlock
  <2> QED
    BY <2>6 DEF Goal
<1> QED
  BY <1>1, GovernanceInvariance, PTL DEF GovSpec, DecisionsBacked
=============================================================================
