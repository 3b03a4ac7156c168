------------------------------ MODULE ViewChange ------------------------------
(***************************************************************************)
(* The view change of PBFTEngine, which stays active under the leaderless  *)
(* round.  A node whose timer expires asks for the view after the last it  *)
(* asked for, and enters a view when minValidNodes requests for it are     *)
(* cached.  A node that sees more than m_f nodes ahead of it hurries after *)
(* them, and one that hears from a node behind answers with its own        *)
(* request.                                                                *)
(*                                                                         *)
(* The PBFT worker handles requests, commits blocks and looks at the       *)
(* timer; the sealer thread reports a committed block later, so that       *)
(* between the two m_highestBlock lags behind the chain.                   *)
(***************************************************************************)
EXTENDS Sealers

CONSTANTS
  Hashes,       \* block hashes: nodes may merge different blocks at a height
  MaxTTL,       \* 1: no forwarding; 2: requests are forwarded once
  Timers,       \* bound: nodes whose timer may expire
  MaxView,      \* bound: the timer of a node that asked for it stops
  MaxHeight,    \* bound: blocks committed per node
  MaxRestarts,  \* bound on restarts, per node
  Flaky         \* bound: nodes that may lose their session with a peer

ASSUME ConstantAssumption ==
  /\ Hashes # {}
  /\ MaxTTL \in {1, 2} /\ MaxView \in Nat /\ MaxHeight \in Nat /\ MaxRestarts \in Nat
  /\ Timers \subseteq Nodes /\ Flaky \subseteq Nodes

VARIABLES
  node,    \* per node: chain, view, timers and the two request caches
  inbox,   \* per node: messages on their way to it or in its m_msgQueue
  sent     \* history: every request ever sent

vars == <<node, inbox, sent>>

-----------------------------------------------------------------------------
BlockId == [number : Nat, hash : Hashes]

\* ViewChangeReq; the timestamp only makes equal requests distinct
Request == [view : Nat, idx : Nodes, height : Nat, hash : Hashes]

\* from: the peer whose session delivered the request; ttl: hops left
Message == [req : Request, from : Nodes, ttl : 1 .. MaxTTL]

NodeState ==
  [tip : BlockId,            \* m_blockChain
   highest : BlockId,        \* m_highestBlock
   view : Nat,               \* m_view
   toView : Nat,             \* m_toView
   leaderFailed : BOOLEAN,   \* m_leaderFailed
   hurried : BOOLEAN,        \* m_lastConsensusTime is 0: the timer has expired
   recv : SUBSET Request,    \* m_recvViewChangeReq
   latest : SUBSET Request,  \* m_latestViewChangeReqCache
   restarts : Nat]

InitState(b, k) ==
  [tip |-> b, highest |-> b, view |-> 0, toView |-> 0, leaderFailed |-> FALSE,
   hurried |-> FALSE, recv |-> {}, latest |-> {}, restarts |-> k]

Init ==
  /\ \E g \in Hashes : node = [n \in Nodes |-> InitState([number |-> 0, hash |-> g], 0)]
  /\ inbox = [n \in Nodes |-> {}]
  /\ sent = {}

\* The request of node n in state s
RequestOf(n, s) ==
  [view |-> s.toView, idx |-> n, height |-> s.highest.number, hash |-> s.highest.hash]

-----------------------------------------------------------------------------
(***************************************************************************)
(* PBFTReqCache.                                                           *)
(***************************************************************************)
IsExistViewChange(s, r) == \E q \in s.recv : q.view = r.view /\ q.idx = r.idx

\* The requests that are not outdated by block b
Valid(R, b) ==
  {q \in R : q.height > b.number \/ (q.height = b.number /\ q.hash = b.hash)}

\* A request is cached unless it is outdated or the latest of its node is
\* newer.  An outdated latest request leaves both caches.
AddViewChangeReq(s, r) ==
  LET old == {q \in s.latest : q.idx = r.idx}
      expired == {q \in old : q.height < s.tip.number}
  IN IF \/ r.height < s.tip.number
        \/ \E q \in old \ expired : r.height < q.height \/ r.view < q.view
     THEN s
     ELSE [s EXCEPT
             !.recv = {q \in @ \ expired : q.view # r.view \/ q.idx # r.idx} \cup {r},
             !.latest = (@ \ old) \cup {r}]

GetViewChangeSize(s, v) == Cardinality({q \in s.recv : q.view = v})

\* removeInvalidViewChange(toView, m_highestBlock); the latest requests are
\* looked at only when the view has an entry.  (An emptied entry that is
\* still there amounts to CollectGarbage just before.)
RemoveInvalidViewChange(s, v) ==
  LET stale == {q \in s.recv : q.view = v} \ Valid(s.recv, s.highest) IN
  IF GetViewChangeSize(s, v) = 0 THEN s
  ELSE [s EXCEPT !.recv = @ \ stale, !.latest = Valid(@, s.highest)]

\* The requests that count towards a fast view change
Ahead(s) == {q \in s.recv : q.view > s.toView /\ q.height >= s.highest.number}

\* Mutant: m_f nodes ahead are enough to hurry
CanTriggerAtF(s) == Cardinality({q.idx : q \in Ahead(s)}) >= F

CanTriggerViewChange(s) == Cardinality({q.idx : q \in Ahead(s)}) > F

\* The values canTriggerViewChange may give minView: a view counts for a node
\* unless a higher one of that node came first in the unordered_map
MinViews(s) ==
  {v \in {q.view : q \in Ahead(s)} :
     \A i \in {q.idx : q \in Ahead(s)} : \E q \in Ahead(s) : q.idx = i /\ q.view >= v}

-----------------------------------------------------------------------------
(***************************************************************************)
(* Pieces of PBFTEngine's handlers.                                        *)
(***************************************************************************)
CheckAndChangeView(s, v) ==
  IF GetViewChangeSize(s, v) < MinValidNodes THEN s
  ELSE [s EXCEPT !.view = v, !.toView = v, !.leaderFailed = FALSE, !.hurried = FALSE,
                 !.recv = {q \in @ : q.view > v}, !.latest = {q \in @ : q.view > v}]

EraseLatest(s, i) == [s EXCEPT !.latest = {q \in @ : q.idx # i}]

\* The checks of isValidViewChangeReq before and after it may call catchupView
Considered(n, s, r) ==
  ~IsExistViewChange(s, r) /\ r.idx # n /\ r.height >= s.highest.number

IsValidViewChangeReq(n, s, r) ==
  /\ Considered(n, s, r)
  /\ r.view > s.view
  /\ r.height = s.highest.number => r.hash = s.highest.hash
  /\ r.height <= s.tip.number

\* The sender of m lags behind: it is sent this node's request
CatchupView(n, s, m) ==
  /\ Considered(n, s, m.req)
  /\ m.req.view + 1 < s.toView
  /\ m.req.idx = m.from

\* Mutant: a received request is cached and not counted
CacheOnly(s, r) == {AddViewChangeReq(s, r)}

\* States after handleViewChangeMsg has cached r
Results(s, r) ==
  LET t == AddViewChangeReq(s, r)
      u == CheckAndChangeView(t, r.view)
  IN IF GetViewChangeSize(t, r.view) < MinValidNodes
        /\ r.view > t.toView /\ CanTriggerViewChange(t)
     THEN {[u EXCEPT !.toView = v - 1, !.hurried = TRUE] : v \in MinViews(u)}
     ELSE {u}

-----------------------------------------------------------------------------
\* The copy of m that node n forwards to x
ForwardMsgByTTL(n, m, x) ==
  IF m.ttl > 1 /\ x \notin {n, m.from, m.req.idx}
  THEN {[m EXCEPT !.from = n, !.ttl = @ - 1]}
  ELSE {}

Update(n, s) == node' = [node EXCEPT ![n] = s]

\* handleMsg, case ViewChangeReqPacket
HandleViewChange(n) ==
  \E m \in inbox[n] :
    LET r == m.req
        lags == CatchupView(n, node[n], m)
        s == IF lags THEN EraseLatest(node[n], r.idx) ELSE node[n]
        valid == IsValidViewChangeReq(n, s, r)
        reply == {[req |-> RequestOf(n, s), from |-> n, ttl |-> 1]}
    IN /\ \E t \in (IF valid THEN Results(s, r) ELSE {s}) : Update(n, t)
       /\ inbox' = [x \in Nodes |->
            IF x = n THEN inbox[x] \ {m}
            ELSE inbox[x] \cup (IF lags /\ x = r.idx THEN reply ELSE {})
                   \cup (IF valid THEN ForwardMsgByTTL(n, m, x) ELSE {})]
       /\ sent' = IF lags THEN sent \cup {RequestOf(n, s)} ELSE sent

CheckTimeout(n) ==
  LET s == [node[n] EXCEPT !.toView = @ + 1, !.leaderFailed = TRUE, !.hurried = FALSE]
      r == RequestOf(n, s)
      t == AddViewChangeReq(RemoveInvalidViewChange(s, s.toView), r)
  IN /\ n \in Timers /\ node[n].toView < MaxView
     /\ Update(n, CheckAndChangeView(t, s.toView))
     /\ inbox' = [x \in Nodes |->
          IF x = n THEN inbox[x]
          ELSE inbox[x] \cup {[req |-> r, from |-> n, ttl |-> MaxTTL]}]
     /\ sent' = sent \cup {r}

\* checkAndSave4nl commits a block: the chain grows, m_highestBlock does not
CommitBlock(n) ==
  /\ node[n].tip.number < MaxHeight
  /\ \E h \in Hashes :
       Update(n, [node[n] EXCEPT !.tip = [number |-> @.number + 1, hash |-> h]])
  /\ UNCHANGED <<inbox, sent>>

\* Mutant: the report keeps the requests cached for other blocks
ReportKeepsRequests(n) ==
  LET b == node[n].tip IN
  /\ node[n].highest.number < b.number
  /\ Update(n, [node[n] EXCEPT !.highest = b, !.view = 0, !.toView = 0,
                  !.leaderFailed = FALSE, !.hurried = FALSE])
  /\ UNCHANGED <<inbox, sent>>

\* Mutant: the block that was reported last is reported again
ReportAgain(n) ==
  LET b == node[n].tip IN
  /\ node[n].highest.number <= b.number
  /\ Update(n, [node[n] EXCEPT !.highest = b, !.view = 0, !.toView = 0,
                  !.leaderFailed = FALSE, !.hurried = FALSE, !.recv = Valid(@, b)])
  /\ UNCHANGED <<inbox, sent>>

\* reportBlock, from the sealer thread
ReportBlock(n) ==
  LET b == node[n].tip IN
  /\ node[n].highest.number < b.number
  /\ Update(n, [node[n] EXCEPT !.highest = b, !.view = 0, !.toView = 0,
                  !.leaderFailed = FALSE, !.hurried = FALSE, !.recv = Valid(@, b)])
  /\ UNCHANGED <<inbox, sent>>

CollectGarbage(n) ==
  LET b == node[n].highest IN
  /\ Update(n, [node[n] EXCEPT !.recv = Valid(@, b), !.latest = Valid(@, b)])
  /\ UNCHANGED <<inbox, sent>>

\* The session with i ends: its latest request is forgotten, and what was on
\* the wire may be lost
Disconnect(n, i) ==
  /\ n \in Flaky /\ i # n
  /\ Update(n, EraseLatest(node[n], i))
  /\ \E lost \in SUBSET {m \in inbox[n] : m.from = i} :
       inbox' = [inbox EXCEPT ![n] = @ \ lost]
  /\ UNCHANGED sent

Restart(n) ==
  /\ node[n].restarts < MaxRestarts
  /\ Update(n, InitState(node[n].tip, node[n].restarts + 1))
  /\ inbox' = [inbox EXCEPT ![n] = {}]
  /\ UNCHANGED sent

Next ==
  \E n \in Nodes :
    \/ HandleViewChange(n) \/ CheckTimeout(n) \/ CommitBlock(n) \/ ReportBlock(n)
    \/ CollectGarbage(n) \/ Restart(n) \/ \E i \in Nodes : Disconnect(n, i)

Spec == Init /\ [][Next]_vars

(***************************************************************************)
(* Fairness.  workLoop pops a message or waits 5 ms and then looks at the  *)
(* timer, whose interval is bounded (kMaxChangeCycle): requests are        *)
(* handled and timers expire.                                              *)
(***************************************************************************)
Fairness ==
  \A n \in Nodes : SF_vars(HandleViewChange(n)) /\ WF_vars(CheckTimeout(n))

FairSpec == Spec /\ Fairness

-----------------------------------------------------------------------------
(***************************************************************************)
(* Properties.                                                             *)
(***************************************************************************)
\* Every variable holds values of its type.
TypeOK ==
  /\ node \in [Nodes -> NodeState]
  /\ inbox \in [Nodes -> SUBSET Message]
  /\ sent \subseteq Request

\* checkAndChangeView counts cached requests without looking at their block:
\* when a node whose m_highestBlock is up to date is in a view, a quorum has
\* asked for this very view on this very block, although requests that came
\* between the commit and the report of a block were cached with an unchecked
\* hash, and although views start again at 0 with every block.
ViewBacked ==
  \A n \in Nodes :
    LET s == node[n] IN
    s.tip = s.highest /\ s.view > 0
      => TwoThirds({i \in Nodes : [view |-> s.view, idx |-> i, height |-> s.highest.number,
                                   hash |-> s.highest.hash] \in sent})

\* canTriggerViewChange: a node whose timer was made to expire by requests is
\* behind more than m_f nodes, each of which asked for a later view than this
\* node's next one replaces, on its block or a higher one: one node that runs
\* ahead drags nobody along when m_f > 0.
HurryBacked ==
  \A n \in Nodes :
    LET s == node[n] IN
    s.hurried
      => Cardinality({i \in Nodes : \E r \in sent : /\ r.idx = i
                                                    /\ r.view > s.toView
                                                    /\ r.height >= s.highest.number}) > F

\* The view change implements the abstract specification of views: a node
\* moves to later views only, each asked for by a quorum at its block or a
\* higher one, and back to 0 only with a new block or a restart.
Quorums == {Q \in SUBSET Nodes : Cardinality(Q) >= MinValidNodes}

Abstract ==
  INSTANCE Views WITH view <- [n \in Nodes |-> node[n].view],
                      block <- [n \in Nodes |-> node[n].highest],
                      asked <- sent,
                      starts <- [n \in Nodes |-> node[n].restarts]

ImplementsViews == Abstract!Spec

\* checkTimeout takes the leader away (m_leaderFailed) until a view change
\* succeeds: a node that timed out gets a leader again, however the timers of
\* the nodes drift apart, because requests for earlier views stay cached.
ViewChangeCompletes ==
  \A n \in Nodes : node[n].leaderFailed ~> ~node[n].leaderFailed
===============================================================================
