---------------------------- MODULE EngineProofs ----------------------------
(***************************************************************************)
(* Proofs about the other consensus engines and the thread they run in:    *)
(* Raft, for every group, every bound and any messages on their way; the   *)
(* rotating engine (Rotating), for any number of sealers, any window and   *)
(* any chain; and the worker thread (Worker).                              *)
(***************************************************************************)
EXTENDS Raft, Rotating, Worker, TLAPS

\* A leaf that names no prover is for the SMT solver, with a minute of time.
USE SMTT(60)

-----------------------------------------------------------------------------
(***************************************************************************)
(* Raft.  None of the invariants is inductive alone.  m_term stays natural *)
(* only because a candidate is above the last leader it saw; acks are true *)
(* only because a node holds its own uncommitted block and because an      *)
(* answer names a block only after its sender has stored it.               *)
(***************************************************************************)
\* What holds of node n's state s whatever its terms, H being the holders
Base(n, s, H) ==
  /\ s \in RaftState
  /\ s.highest <= Len(s.chain)
  /\ s.uncommitted # NoBlock => n \in H[s.uncommitted.id]
  /\ s.sealer # "idle" => s.sealing # NoBlock
  /\ \A b \in 1 .. MaxRaftBlocks : s.acks[b] \subseteq H[b]

Ordered(s) ==
  /\ s.lastLeaderTerm <= s.term
  /\ s.state = "candidate" => s.lastLeaderTerm < s.term
  /\ s.state = "leader" => s.lastLeaderTerm = s.term

Messages ==
  [type : {"voteReq"}, from : RaftNodes, to : RaftNodes, term : Nat,
   lastLeaderTerm : Nat, lastBlock : Nat]
  \union
  [type : {"voteResp"}, from : RaftNodes, to : RaftNodes, flag : Flags, term : Nat]
  \union
  [type : {"heartbeat"}, from : RaftNodes, to : RaftNodes, term : Nat,
   block : Blocks \union {NoBlock}, number : Nat]
  \union
  [type : {"heartbeatResp"}, from : RaftNodes, to : RaftNodes, term : Nat,
   height : Nat, head : Nat, block : Blocks \union {NoBlock}]

Honest(m, H) ==
  /\ m \in Messages
  /\ m.type = "voteReq" => m.lastLeaderTerm < m.term
  /\ m.type = "heartbeatResp" /\ m.block # NoBlock => m.from \in H[m.block.id]

Holders == [1 .. MaxRaftBlocks -> SUBSET RaftNodes]

RaftInv ==
  /\ raft \in [RaftNodes -> RaftState]
  /\ \A n \in RaftNodes : Base(n, raft[n], holders) /\ Ordered(raft[n])
  /\ \A m \in wire : Honest(m, holders)
  /\ sealedBlocks \in 0 .. MaxRaftBlocks
  /\ holders \in Holders

-----------------------------------------------------------------------------
(* Blocks and holders.                                                      *)

\* The empty block is no sealed block, and a sealed block has natural fields.
LEMMA BlockFacts ==
  /\ NoBlock \notin Blocks
  /\ \A b \in Blocks : b.id \in 1 .. MaxRaftBlocks /\ b.id \in Nat /\ b.number \in Nat
BY RaftAssumption DEF Blocks, NoBlock

\* Holding a block only adds to the holders, and makes n one of them.
LEMMA HoldFacts ==
  ASSUME NEW n \in RaftNodes, NEW b \in Blocks \union {NoBlock}, holders \in Holders
  PROVE  /\ Hold(b, n) \in Holders
         /\ \A i \in 1 .. MaxRaftBlocks : holders[i] \subseteq Hold(b, n)[i]
         /\ b # NoBlock => n \in Hold(b, n)[b.id]
BY BlockFacts DEF Hold, Holders

\* What is true of a node stays true when the holders grow.
LEMMA BaseGrows ==
  ASSUME NEW n, NEW s, NEW H, NEW G, Base(n, s, H),
         \A i \in 1 .. MaxRaftBlocks : H[i] \subseteq G[i]
  PROVE  Base(n, s, G)
<1>1. s.uncommitted # NoBlock => s.uncommitted.id \in 1 .. MaxRaftBlocks
  BY BlockFacts DEF Base, RaftState
<1> QED
  BY <1>1 DEF Base

\* So does what is true of a message.
LEMMA HonestGrows ==
  ASSUME NEW m, NEW H, NEW G, Honest(m, H),
         \A i \in 1 .. MaxRaftBlocks : H[i] \subseteq G[i]
  PROVE  Honest(m, G)
<1>1. m.type = "heartbeatResp" /\ m.block # NoBlock => m.block.id \in 1 .. MaxRaftBlocks
  BY BlockFacts DEF Honest, Messages
<1> QED
  BY <1>1 DEF Honest

-----------------------------------------------------------------------------
(* The roles.                                                               *)

\* A node that becomes follower keeps its terms.
LEMMA FollowerSound ==
  ASSUME NEW n, NEW s, NEW H, Base(n, s, H), s.lastLeaderTerm <= s.term
  PROVE  LET t == SwitchToFollower(s)
         IN  Base(n, t, H) /\ Ordered(t) /\ t.term = s.term
<1>1. NoVotes \in [Counters -> Nat]
  BY DEF NoVotes
<1> QED
  BY <1>1, ZenonT(60) DEF SwitchToFollower, Base, Ordered, RaftState

\* A node that becomes leader is the last leader it knows.
LEMMA LeaderSound ==
  ASSUME NEW n, NEW s, NEW H, Base(n, s, H)
  PROVE  LET t == SwitchToLeader(s)
         IN  Base(n, t, H) /\ Ordered(t) /\ t.term = s.term
<1> DEFINE t == SwitchToLeader(s)
<1>1. NoVotes \in [Counters -> Nat]
  BY DEF NoVotes
<1>2. t \in RaftState
  BY <1>1, ZenonT(60) DEF SwitchToLeader, Base, RaftState
<1>3. /\ t.term = s.term /\ t.lastLeaderTerm = s.term /\ t.state = "leader"
      /\ t.chain = s.chain /\ t.highest = s.highest /\ t.uncommitted = s.uncommitted
      /\ t.sealer = s.sealer /\ t.sealing = s.sealing /\ t.acks = s.acks
  BY DEF SwitchToLeader, Base, RaftState
<1>4. s.term \in Nat
  BY DEF Base, RaftState
<1> HIDE DEF t
<1> QED
  BY <1>2, <1>3, <1>4 DEF Base, Ordered, t

\* A campaign changes votes only.
LEMMA CandidateSound ==
  ASSUME NEW n \in RaftNodes, NEW s, NEW H, Base(n, s, H), Ordered(s)
  PROVE  LET t == RunAsCandidate(n, s)
         IN  Base(n, t, H) /\ Ordered(t) /\ t.term = s.term
<1>1. [NoVotes EXCEPT !["GRANTED"] = 1] \in [Counters -> Nat]
  BY ZenonT(60) DEF NoVotes
<1> QED
  BY <1>1, ZenonT(60) DEF RunAsCandidate, Base, Ordered, RaftState

\* Forgetting the first vote touches no term, role, block or ack.
LEMMA ClearSound ==
  ASSUME NEW n, NEW s, NEW H, Base(n, s, H)
  PROVE  LET t == ClearFirstVote(s)
         IN  /\ Base(n, t, H) /\ t.term = s.term
             /\ t.lastLeaderTerm = s.lastLeaderTerm /\ t.state = s.state
<1> DEFINE t == ClearFirstVote(s)
<1>1. t \in RaftState
  <2>1. s.beats + 1 \in Nat
    BY DEF Base, RaftState
  <2> QED
    BY <2>1, ZenonT(60) DEF ClearFirstVote, Base, RaftState
<1>2. /\ t.term = s.term /\ t.lastLeaderTerm = s.lastLeaderTerm /\ t.state = s.state
      /\ t.chain = s.chain /\ t.highest = s.highest /\ t.uncommitted = s.uncommitted
      /\ t.sealer = s.sealer /\ t.sealing = s.sealing /\ t.acks = s.acks
  BY DEF ClearFirstVote, Base, RaftState
<1> HIDE DEF t
<1> QED
  BY <1>1, <1>2 DEF Base, t

\* A node's requests for votes are honest when it is a candidate above the
\* last leader it knows.
LEMMA RequestsHonest ==
  ASSUME NEW n \in RaftNodes, NEW s, NEW H, Base(n, s, H), s.lastLeaderTerm < s.term
  PROVE  \A m \in VoteReqs(n, s) : Honest(m, H) /\ m.type = "voteReq"
<1>1. LastBlockNumber(s) \in Nat
  <2>1. Len(s.chain) \in Nat
    BY DEF Base, RaftState
  <2>2. CASE s.uncommitted # NoBlock
    BY <2>1, <2>2 DEF LastBlockNumber
  <2>3. CASE s.uncommitted = NoBlock
    BY <2>1, <2>3 DEF LastBlockNumber
  <2> QED
    BY <2>2, <2>3
<1>2. s.term \in Nat /\ s.lastLeaderTerm \in Nat
  BY DEF Base, RaftState
<1> QED
  BY <1>1, <1>2 DEF VoteReqs, Honest, Messages

-----------------------------------------------------------------------------
(* Votes.                                                                   *)

\* A vote is granted only for a term above the node's own, a leader's included:
\* the requester is above the last leader it knows, which is no earlier than
\* the leader itself.
LEMMA GrantAbove ==
  ASSUME NEW n, NEW s, NEW H, Base(n, s, H), Ordered(s),
         NEW r, Honest(r, H), r.type = "voteReq", Answer(s, r) = "GRANTED"
  PROVE  r.term > s.term
<1>1. /\ r.term \in Nat /\ r.lastLeaderTerm \in Nat /\ r.lastLeaderTerm < r.term
      /\ s.term \in Nat /\ s.lastLeaderTerm \in Nat
  BY DEF Honest, Messages, Base, RaftState
<1>2. CASE s.state # "leader"
  BY <1>1, <1>2 DEF Answer
<1>3. CASE s.state = "leader"
  <2>1. ~(r.lastLeaderTerm < s.lastLeaderTerm)
    BY <1>3 DEF Answer
  <2> QED
    BY <1>1, <1>3, <2>1 DEF Ordered
<1> QED
  BY <1>2, <1>3

\* Answering a request keeps a node's state sound, and never lowers its term.
LEMMA VotedSound ==
  ASSUME NEW n, NEW s, NEW H, Base(n, s, H), Ordered(s),
         NEW r, Honest(r, H), r.type = "voteReq"
  PROVE  LET t == Voted(s, r)
         IN  Base(n, t, H) /\ Ordered(t) /\ t.term >= s.term
<1> DEFINE granted == [s EXCEPT !.term = r.term, !.firstVote = r.from]
           first == [s EXCEPT !.firstVote = r.from]
<1>1. /\ r.term \in Nat /\ r.from \in RaftNodes /\ s.term \in Nat /\ s.lastLeaderTerm \in Nat
  BY DEF Honest, Messages, Base, RaftState
<1>2. /\ granted \in RaftState /\ first \in RaftState
  BY <1>1, ZenonT(60) DEF Base, RaftState
<1>3. /\ granted.term = r.term /\ granted.lastLeaderTerm = s.lastLeaderTerm /\ granted.state = s.state
      /\ granted.chain = s.chain /\ granted.highest = s.highest
      /\ granted.uncommitted = s.uncommitted
      /\ granted.sealer = s.sealer /\ granted.sealing = s.sealing /\ granted.acks = s.acks
  BY DEF Base, RaftState
<1>4. /\ first.term = s.term /\ first.lastLeaderTerm = s.lastLeaderTerm /\ first.state = s.state
      /\ first.chain = s.chain /\ first.highest = s.highest /\ first.uncommitted = s.uncommitted
      /\ first.sealer = s.sealer /\ first.sealing = s.sealing /\ first.acks = s.acks
  BY DEF Base, RaftState
<1>5. Voted(s, r) = CASE Answer(s, r) = "GRANTED" ->
                           IF s.state = "follower" THEN granted ELSE SwitchToFollower(granted)
                      [] Answer(s, r) = "FIRST_VOTE" -> first
                      [] OTHER -> s
  BY DEF Voted
<1> HIDE DEF granted, first
<1>6. Base(n, granted, H) /\ Base(n, first, H)
  BY <1>2, <1>3, <1>4 DEF Base
<1>7. CASE Answer(s, r) = "GRANTED"
  <2>1. r.term > s.term
    BY <1>7, GrantAbove
  <2>2. granted.lastLeaderTerm <= granted.term
    BY <1>1, <1>3, <2>1 DEF Ordered
  <2>3. CASE s.state = "follower"
    BY <1>1, <1>3, <1>5, <1>6, <1>7, <2>1, <2>2, <2>3 DEF Ordered
  <2>4. CASE s.state # "follower"
    <3>1. Voted(s, r) = SwitchToFollower(granted)
      BY <1>5, <1>7, <2>4
    <3> QED
      BY <1>1, <1>3, <1>6, <2>1, <2>2, <3>1, FollowerSound
  <2> QED
    BY <2>3, <2>4
<1>8. CASE Answer(s, r) = "FIRST_VOTE"
  <2>1. Voted(s, r) = first
    BY <1>5, <1>8
  <2> QED
    BY <1>1, <1>4, <1>6, <2>1 DEF Ordered
<1>9. CASE Answer(s, r) \notin {"GRANTED", "FIRST_VOTE"}
  <2>1. Voted(s, r) = s
    BY <1>5, <1>9
  <2> QED
    BY <1>1, <2>1
<1> QED
  BY <1>7, <1>8, <1>9

\* Counting an answer and acting on the count keeps a candidate's state sound:
\* taking the term back leaves it no lower than the last leader's.
LEMMA TalliedSound ==
  ASSUME NEW n, NEW s, NEW H, Base(n, s, H), Ordered(s), s.state = "candidate",
         NEW flag \in Flags
  PROVE  LET t == Tallied(Counted(s, flag), flag)
         IN  Base(n, t, H) /\ Ordered(t)
<1> DEFINE c == Counted(s, flag)
           back == [c EXCEPT !.term = @ - 1]
<1>1. s.term \in Nat /\ s.lastLeaderTerm \in Nat /\ s.term - 1 \in Nat
      /\ s.lastLeaderTerm <= s.term - 1
  BY DEF Base, RaftState, Ordered
<1>2. /\ c \in RaftState
      /\ c.term = s.term /\ c.lastLeaderTerm = s.lastLeaderTerm /\ c.state = s.state
      /\ c.chain = s.chain /\ c.highest = s.highest /\ c.uncommitted = s.uncommitted
      /\ c.sealer = s.sealer /\ c.sealing = s.sealing /\ c.acks = s.acks
  <2> DEFINE v == [s.votes EXCEPT ![Counter(flag)] = IF @ < RaftMajority THEN @ + 1 ELSE @]
  <2>1. v \in [Counters -> Nat]
    <3>1. s.votes \in [Counters -> Nat] /\ Counter(flag) \in Counters
      BY DEF Base, RaftState, Counters
    <3> QED
      BY <3>1
  <2>2. c = [s EXCEPT !.votes = v]
    BY DEF Counted
  <2> HIDE DEF v, c
  <2> QED
    BY <2>1, <2>2, ZenonT(60) DEF Base, RaftState
<1> HIDE DEF c
<1>3. Base(n, c, H) /\ Ordered(c) /\ c.lastLeaderTerm <= c.term
  BY <1>1, <1>2 DEF Base, Ordered
<1>4. /\ back \in RaftState
      /\ back.term = s.term - 1 /\ back.lastLeaderTerm = s.lastLeaderTerm
      /\ back.chain = c.chain /\ back.highest = c.highest /\ back.uncommitted = c.uncommitted
      /\ back.sealer = c.sealer /\ back.sealing = c.sealing /\ back.acks = c.acks
  <2> DEFINE k == s.term - 1
  <2>1. back = [c EXCEPT !.term = k]
    BY <1>2
  <2>2. k \in Nat
    BY <1>1
  <2> HIDE DEF back, k
  <2>3. /\ back \in RaftState /\ back.term = k /\ back.lastLeaderTerm = c.lastLeaderTerm
        /\ back.chain = c.chain /\ back.highest = c.highest /\ back.uncommitted = c.uncommitted
        /\ back.sealer = c.sealer /\ back.sealing = c.sealing /\ back.acks = c.acks
    BY <1>2, <2>1, <2>2, ZenonT(60) DEF RaftState
  <2> QED
    BY <1>2, <2>3 DEF k
<1>5. Tallied(c, flag) \in {c, SwitchToLeader(c), SwitchToFollower(back), SwitchToFollower(c)}
  BY DEF Tallied
<1> HIDE DEF back
<1>6. Base(n, back, H) /\ back.lastLeaderTerm <= back.term
  BY <1>1, <1>3, <1>4 DEF Base
<1>7. Base(n, SwitchToLeader(c), H) /\ Ordered(SwitchToLeader(c))
  BY <1>3, LeaderSound
<1>8. Base(n, SwitchToFollower(back), H) /\ Ordered(SwitchToFollower(back))
  BY <1>6, FollowerSound
<1>9. Base(n, SwitchToFollower(c), H) /\ Ordered(SwitchToFollower(c))
  BY <1>3, FollowerSound
<1> QED
  BY <1>3, <1>5, <1>7, <1>8, <1>9 DEF c

-----------------------------------------------------------------------------
(* Heartbeats and commits.                                                  *)

\* What a commit or an ack may change leaves term and role alone
SameRole(s, t) ==
  t.term = s.term /\ t.lastLeaderTerm = s.lastLeaderTerm /\ t.state = s.state

\* Following a heartbeat keeps the terms ordered: a heartbeat that does not
\* raise lastLeaderTerm comes from the leader the node already follows.
LEMMA FollowSound ==
  ASSUME NEW n, NEW s, NEW H, Base(n, s, H), Ordered(s),
         NEW h, h.term \in Nat, h.term >= s.term \/ h.term > s.lastLeaderTerm
  PROVE  LET t == FollowHeartbeat(s, h)
         IN  Base(n, t, H) /\ Ordered(t) /\ (s.state = "leader" => t.term >= s.term)
<1> DEFINE down == \/ h.term > s.lastLeaderTerm
                   \/ h.term > s.term
                   \/ s.state = "candidate" /\ (h.term > s.lastLeaderTerm \/ h.term >= s.term)
           k == IF down THEN h.term ELSE s.term
           raised == [s EXCEPT !.term = k]
           t == ClearFirstVote(raised)
           u == [t EXCEPT !.lastLeaderTerm = h.term]
<1>1. /\ s.term \in Nat /\ s.lastLeaderTerm \in Nat
      /\ s.state \in {"follower", "candidate", "leader"}
  BY DEF Base, RaftState
<1>2. k \in Nat /\ k = h.term
  BY <1>1 DEF Ordered
<1>3. ~down => s.state # "candidate"
  BY <1>1 DEF Ordered
<1>4. s.state = "leader" => k >= s.term
  BY <1>1, <1>2 DEF Ordered
<1>5. FollowHeartbeat(s, h) = IF down /\ s.state # "follower" THEN SwitchToFollower(u) ELSE u
  BY DEF FollowHeartbeat
<1> HIDE DEF down, k
<1>6. /\ raised \in RaftState
      /\ raised.term = k /\ raised.lastLeaderTerm = s.lastLeaderTerm /\ raised.state = s.state
      /\ raised.chain = s.chain /\ raised.highest = s.highest /\ raised.uncommitted = s.uncommitted
      /\ raised.sealer = s.sealer /\ raised.sealing = s.sealing /\ raised.acks = s.acks
  BY <1>2, ZenonT(60) DEF Base, RaftState
<1> HIDE DEF raised
<1>7. Base(n, raised, H)
  BY <1>6 DEF Base
<1>8. Base(n, t, H) /\ t.term = k /\ t.state = s.state
  BY <1>6, <1>7, ClearSound
<1> HIDE DEF t
<1>9. /\ u \in RaftState
      /\ u.term = k /\ u.lastLeaderTerm = h.term /\ u.state = s.state
      /\ u.chain = t.chain /\ u.highest = t.highest /\ u.uncommitted = t.uncommitted
      /\ u.sealer = t.sealer /\ u.sealing = t.sealing /\ u.acks = t.acks
  BY <1>8, ZenonT(60) DEF Base, RaftState
<1> HIDE DEF u
<1>10. Base(n, u, H) /\ u.lastLeaderTerm <= u.term
  BY <1>2, <1>8, <1>9 DEF Base
<1>11. CASE down /\ s.state # "follower"
  BY <1>4, <1>5, <1>9, <1>10, <1>11, FollowerSound
<1>12. CASE ~(down /\ s.state # "follower")
  <2>1. FollowHeartbeat(s, h) = u
    BY <1>5, <1>12
  <2>2. u.state # "candidate"
    BY <1>1, <1>3, <1>9, <1>12
  <2> QED
    BY <1>2, <1>4, <1>9, <1>10, <2>1, <2>2 DEF Ordered
<1> QED
  BY <1>11, <1>12

\* A node that holds the heartbeat's block may store it.
LEMMA StoredSound ==
  ASSUME NEW n, NEW s, NEW H, Base(n, s, H), NEW h,
         h.block \in Blocks \union {NoBlock}, h.number \in Nat,
         h.block # NoBlock => n \in H[h.block.id]
  PROVE  LET t == Stored(s, h) IN  Base(n, t, H) /\ SameRole(s, t)
<1>1. CASE h.block = NoBlock
  BY <1>1 DEF Stored, SameRole
<1>2. CASE h.block # NoBlock
  <2> DEFINE t == [s EXCEPT !.uncommitted = h.block, !.uncommittedNumber = h.number]
  <2>1. /\ t \in RaftState /\ SameRole(s, t)
        /\ t.chain = s.chain /\ t.highest = s.highest /\ t.uncommitted = h.block
        /\ t.sealer = s.sealer /\ t.sealing = s.sealing /\ t.acks = s.acks
    BY ZenonT(60) DEF Base, RaftState, SameRole
  <2>2. Stored(s, h) = t
    BY <1>2 DEF Stored
  <2> HIDE DEF t
  <2>3. Base(n, t, H)
    BY <1>2, <2>1 DEF Base
  <2> QED
    BY <2>1, <2>2, <2>3
<1> QED
  BY <1>1, <1>2

\* An ack for a holder of the uncommitted block is true.
LEMMA AckedSound ==
  ASSUME NEW n, NEW s, NEW H, Base(n, s, H), NEW m \in RaftNodes,
         s.uncommitted # NoBlock => m \in H[s.uncommitted.id]
  PROVE  LET t == Acked(s, m)
         IN  Base(n, t, H) /\ SameRole(s, t) /\ t.uncommitted = s.uncommitted
<1>1. CASE s.uncommitted = NoBlock
  BY <1>1 DEF Acked, SameRole
<1>2. CASE s.uncommitted # NoBlock
  <2> DEFINE i == s.uncommitted.id
             a == [s.acks EXCEPT ![i] = @ \union {m}]
             t == [s EXCEPT !.acks = a]
  <2>1. i \in 1 .. MaxRaftBlocks
    BY <1>2, BlockFacts DEF Base, RaftState
  <2>2. s.acks \in [1 .. MaxRaftBlocks -> SUBSET RaftNodes]
    BY DEF Base, RaftState
  <2>3. Acked(s, m) = t
    BY <1>2 DEF Acked
  <2>4. i = s.uncommitted.id
    OBVIOUS
  <2> HIDE DEF i
  <2>5. a \in [1 .. MaxRaftBlocks -> SUBSET RaftNodes]
    BY <2>1, <2>2, ZenonT(60)
  <2>6. \A b \in 1 .. MaxRaftBlocks : a[b] \subseteq H[b]
    BY <1>2, <2>1, <2>2, <2>4 DEF Base
  <2> HIDE DEF a
  <2>7. /\ t \in RaftState /\ SameRole(s, t)
        /\ t.chain = s.chain /\ t.highest = s.highest /\ t.uncommitted = s.uncommitted
        /\ t.sealer = s.sealer /\ t.sealing = s.sealing /\ t.acks = a
    BY <2>5, ZenonT(60) DEF Base, RaftState, SameRole
  <2> HIDE DEF t
  <2>8. Base(n, t, H)
    BY <2>6, <2>7 DEF Base
  <2> QED
    BY <2>3, <2>7, <2>8
<1> QED
  BY <1>1, <1>2

\* reportBlock forgets the uncommitted block with its acks.
LEMMA ReportSound ==
  ASSUME NEW n, NEW s, NEW H, Base(n, s, H)
  PROVE  LET t == ReportBlock(s) IN  Base(n, t, H) /\ SameRole(s, t)
<1> DEFINE old == s.uncommitted
           a == IF old # NoBlock THEN [s.acks EXCEPT ![old.id] = {}] ELSE s.acks
           k == Len(s.chain)
           c == IF k >= s.consensusNumber THEN k + 1 ELSE s.consensusNumber
           t == [s EXCEPT !.highest = k, !.acks = a, !.uncommitted = NoBlock,
                          !.uncommittedNumber = 0, !.consensusNumber = c]
<1>1. /\ s.acks \in [1 .. MaxRaftBlocks -> SUBSET RaftNodes]
      /\ k \in Nat /\ s.consensusNumber \in Nat
  BY DEF Base, RaftState
<1>2. c \in Nat
  BY <1>1
<1>3. a \in [1 .. MaxRaftBlocks -> SUBSET RaftNodes]
  BY <1>1, ZenonT(60)
<1>4. \A b \in 1 .. MaxRaftBlocks : a[b] \subseteq H[b]
  BY <1>1 DEF Base
<1>5. ReportBlock(s) = t
  BY DEF ReportBlock
<1>6. k = Len(s.chain)
  OBVIOUS
<1> HIDE DEF old, a, c, k
<1>7. /\ t \in RaftState /\ SameRole(s, t)
      /\ t.chain = s.chain /\ t.highest = k /\ t.uncommitted = NoBlock
      /\ t.sealer = s.sealer /\ t.sealing = s.sealing /\ t.acks = a
  BY <1>1, <1>2, <1>3, ZenonT(60) DEF Base, RaftState, SameRole
<1> HIDE DEF t
<1>8. t.highest <= Len(t.chain)
  BY <1>1, <1>6, <1>7
<1>9. Base(n, t, H)
  BY <1>4, <1>7, <1>8 DEF Base
<1> QED
  BY <1>5, <1>7, <1>9

\* The chain grows by a sealed block.
LEMMA ChainGrows ==
  ASSUME NEW n, NEW s, NEW H, Base(n, s, H), NEW b \in Blocks
  PROVE  LET t == [s EXCEPT !.chain = Append(@, b)]
         IN  Base(n, t, H) /\ SameRole(s, t)
<1> DEFINE q == Append(s.chain, b)
           t == [s EXCEPT !.chain = q]
<1>1. /\ q \in Seq(Blocks) /\ Len(q) = Len(s.chain) + 1 /\ Len(s.chain) \in Nat
      /\ s.highest \in Nat
  BY DEF Base, RaftState
<1> HIDE DEF q
<1>2. /\ t \in RaftState /\ SameRole(s, t)
      /\ t.chain = q /\ t.highest = s.highest /\ t.uncommitted = s.uncommitted
      /\ t.sealer = s.sealer /\ t.sealing = s.sealing /\ t.acks = s.acks
  BY <1>1, ZenonT(60) DEF Base, RaftState, SameRole
<1> HIDE DEF t
<1>3. t.highest <= Len(t.chain)
  BY <1>1, <1>2 DEF Base
<1>4. Base(n, t, H)
  BY <1>2, <1>3 DEF Base
<1> QED
  BY <1>2, <1>4 DEF t, q

\* The uncommitted block may be dropped.
LEMMA DropSound ==
  ASSUME NEW n, NEW s, NEW H, Base(n, s, H)
  PROVE  LET t == [s EXCEPT !.uncommitted = NoBlock, !.uncommittedNumber = 0]
         IN  Base(n, t, H) /\ SameRole(s, t)
BY ZenonT(60) DEF Base, RaftState, SameRole

\* checkAndExecute appends the block or does nothing.
LEMMA ExecuteSound ==
  ASSUME NEW n, NEW s, NEW H, Base(n, s, H), NEW b \in Blocks
  PROVE  LET t == CheckAndExecute(s, b) IN  Base(n, t, H) /\ SameRole(s, t)
<1> DEFINE g == [s EXCEPT !.chain = Append(@, b)]
           d == [g EXCEPT !.uncommitted = NoBlock, !.uncommittedNumber = 0]
<1>1. Base(n, g, H) /\ SameRole(s, g)
  BY ChainGrows
<1>2. CheckAndExecute(s, b) = IF CanExecute(s, b) THEN d ELSE s
  BY DEF CheckAndExecute
<1> HIDE DEF g
<1>3. Base(n, d, H) /\ SameRole(g, d)
  BY <1>1, DropSound, ZenonT(60)
<1> HIDE DEF d
<1> QED
  BY <1>1, <1>2, <1>3 DEF SameRole

\* So does the commit, by either thread.
LEMMA CommitSound ==
  ASSUME NEW n, NEW s, NEW H, Base(n, s, H), s.uncommitted # NoBlock
  PROVE  LET t == CommitNow(s) IN  Base(n, t, H) /\ SameRole(s, t)
<1> DEFINE w == [s EXCEPT !.commitReady = TRUE]
<1>1. s.uncommitted \in Blocks
  BY DEF Base, RaftState
<1>2. Base(n, w, H) /\ SameRole(s, w)
  BY ZenonT(60) DEF Base, RaftState, SameRole
<1>3. CommitNow(s) \in {w, CheckAndExecute(s, s.uncommitted), ReportBlock(s), s}
  BY DEF CommitNow
<1> HIDE DEF w
<1>4. Base(n, CheckAndExecute(s, s.uncommitted), H) /\ SameRole(s, CheckAndExecute(s, s.uncommitted))
  BY <1>1, ExecuteSound
<1>5. Base(n, ReportBlock(s), H) /\ SameRole(s, ReportBlock(s))
  BY ReportSound
<1>6. SameRole(s, s)
  BY DEF SameRole
<1> QED
  BY <1>2, <1>3, <1>4, <1>5, <1>6

\* The answer to a heartbeat is counted only for the block it names.
LEMMA TrySound ==
  ASSUME NEW n, NEW s, NEW H, Base(n, s, H), NEW r, Honest(r, H), r.type = "heartbeatResp"
  PROVE  LET t == TryCommit(s, r) IN  Base(n, t, H) /\ SameRole(s, t)
<1> DEFINE a == Acked(s, r.from)
           d == [s EXCEPT !.uncommitted = NoBlock, !.uncommittedNumber = 0]
<1>1. r.from \in RaftNodes
  BY DEF Honest, Messages
<1>2. SameRole(s, s)
  BY DEF SameRole
<1>3. CASE s.uncommitted = NoBlock
  BY <1>2, <1>3 DEF TryCommit
<1>4. CASE s.uncommitted # NoBlock /\ s.uncommittedNumber # s.consensusNumber
  <2>1. Base(n, d, H) /\ SameRole(s, d)
    BY DropSound, ZenonT(60)
  <2>2. TryCommit(s, r) = d
    BY <1>4 DEF TryCommit
  <2> HIDE DEF d
  <2> QED
    BY <2>1, <2>2
<1>5. CASE s.uncommitted # NoBlock /\ s.uncommittedNumber = s.consensusNumber
  <2>1. CASE r.block = NoBlock
    <3>1. TryCommit(s, r) = CommitNow(s)
      BY <1>5, <2>1 DEF TryCommit
    <3> QED
      BY <1>5, <3>1, CommitSound
  <2>2. CASE r.block # NoBlock /\ r.block # s.uncommitted
    <3>1. TryCommit(s, r) = s
      BY <1>5, <2>2 DEF TryCommit
    <3> QED
      BY <1>2, <3>1
  <2>3. CASE r.block # NoBlock /\ r.block = s.uncommitted
    <3>1. r.from \in H[s.uncommitted.id]
      BY <2>3 DEF Honest
    <3>2. Base(n, a, H) /\ SameRole(s, a) /\ a.uncommitted = s.uncommitted
      BY <1>1, <3>1, AckedSound
    <3>3. TryCommit(s, r) = IF Enough(a) THEN CommitNow(a) ELSE a
      BY <1>5, <2>3 DEF TryCommit
    <3> HIDE DEF a
    <3>4. Base(n, CommitNow(a), H) /\ SameRole(a, CommitNow(a))
      BY <1>5, <3>2, CommitSound
    <3> QED
      BY <3>2, <3>3, <3>4 DEF SameRole
  <2> QED
    BY <2>1, <2>2, <2>3
<1> QED
  BY <1>3, <1>4, <1>5

-----------------------------------------------------------------------------
(* Steps.                                                                   *)

\* What every action shows of the state t it gives node n
Sound(n, t) ==
  /\ raft' = [raft EXCEPT ![n] = t]
  /\ Base(n, t, holders') /\ Ordered(t)
  /\ raft[n].state = "leader" => t.term >= raft[n].term

\* What it shows of the messages it sends
Sends ==
  \A m \in wire' : \/ m \in wire
                   \/ /\ Honest(m, holders')
                      /\ m.type = "voteResp" /\ m.flag = "GRANTED" => m.term > raft[m.from].term

\* Holders are only added
Grows ==
  /\ holders' \in Holders
  /\ \A i \in 1 .. MaxRaftBlocks : holders[i] \subseteq holders'[i]

\* A step of one node keeps the invariant when its new state and its messages
\* are sound.
LEMMA NodeStep ==
  ASSUME RaftInv, NEW n \in RaftNodes, NEW t, Sound(n, t), Sends, Grows,
         sealedBlocks' \in 0 .. MaxRaftBlocks
  PROVE  RaftInv' /\ TermStep
<1>1. t \in RaftState
  BY DEF Sound, Base
<1>2. raft' \in [RaftNodes -> RaftState]
  BY <1>1 DEF Sound, RaftInv
<1>3. ASSUME NEW i \in RaftNodes
      PROVE  Base(i, raft'[i], holders') /\ Ordered(raft'[i])
  <2>1. CASE i = n
    BY <2>1 DEF Sound, RaftInv
  <2>2. CASE i # n
    <3>1. raft'[i] = raft[i]
      BY <2>2 DEF Sound, RaftInv
    <3>2. Base(i, raft[i], holders) /\ Ordered(raft[i])
      BY DEF RaftInv
    <3> QED
      BY <3>1, <3>2, BaseGrows DEF Grows
  <2> QED
    BY <2>1, <2>2
<1>4. ASSUME NEW m \in wire'
      PROVE  Honest(m, holders')
  <2>1. CASE m \in wire
    <3>1. Honest(m, holders)
      BY <2>1 DEF RaftInv
    <3> QED
      BY <3>1, HonestGrows DEF Grows
  <2>2. CASE m \notin wire
    BY <2>2 DEF Sends
  <2> QED
    BY <2>1, <2>2
<1>5. RaftInv'
  BY <1>2, <1>3, <1>4, ZenonT(60) DEF RaftInv, Grows, Base, Ordered, Honest, Messages, Holders, RaftState
<1>6. TermStep
  <2>1. ASSUME NEW i \in RaftNodes, raft[i].state = "leader"
        PROVE  raft'[i].term >= raft[i].term
    <3>1. raft[i].term \in Nat
      BY DEF RaftInv, RaftState
    <3> QED
      BY <2>1, <3>1 DEF Sound, RaftInv
  <2> QED
    BY <2>1 DEF TermStep, Sends
<1> QED
  BY <1>5, <1>6

\* Starting or repeating a campaign
LEMMA CandidacyStep ==
  ASSUME RaftInv, NEW n \in RaftNodes, Candidacy(n)
  PROVE  RaftInv' /\ TermStep
<1> DEFINE k == raft[n].term + 1
           s == [raft[n] EXCEPT !.state = "candidate", !.term = k]
           t == RunAsCandidate(n, s)
<1>1. /\ Base(n, raft[n], holders) /\ Ordered(raft[n]) /\ raft[n] \in RaftState
  BY DEF RaftInv
<1>2. raft[n].term \in Nat /\ raft[n].lastLeaderTerm \in Nat /\ k \in Nat /\ raft[n].lastLeaderTerm < k
      /\ k >= raft[n].term
  BY <1>1 DEF RaftState, Ordered
<1>3. /\ raft' = [raft EXCEPT ![n] = t] /\ wire' = wire \union VoteReqs(n, s)
      /\ sealedBlocks' = sealedBlocks /\ holders' = holders
  BY DEF Candidacy
<1> HIDE DEF k
<1>4. /\ s \in RaftState
      /\ s.term = k /\ s.lastLeaderTerm = raft[n].lastLeaderTerm /\ s.state = "candidate"
      /\ s.chain = raft[n].chain /\ s.highest = raft[n].highest
      /\ s.uncommitted = raft[n].uncommitted
      /\ s.sealer = raft[n].sealer /\ s.sealing = raft[n].sealing /\ s.acks = raft[n].acks
  BY <1>1, <1>2, ZenonT(60) DEF RaftState
<1> HIDE DEF s
<1>5. Base(n, s, holders) /\ Ordered(s) /\ s.lastLeaderTerm < s.term
  BY <1>1, <1>2, <1>4 DEF Base, Ordered
<1>6. Base(n, t, holders) /\ Ordered(t) /\ t.term = s.term
  BY <1>5, CandidateSound
<1> HIDE DEF t
<1>7. Sound(n, t)
  BY <1>2, <1>3, <1>4, <1>6 DEF Sound
<1>8. \A m \in VoteReqs(n, s) : Honest(m, holders) /\ m.type = "voteReq"
  BY <1>5, RequestsHonest
<1>9. Sends
  BY <1>3, <1>8 DEF Sends
<1>10. Grows /\ sealedBlocks' \in 0 .. MaxRaftBlocks
  BY <1>3 DEF Grows, RaftInv
<1> QED
  BY <1>7, <1>9, <1>10, NodeStep

\* A candidate that gives up takes its term back
LEMMA GiveUpStep ==
  ASSUME RaftInv, NEW n \in RaftNodes, GiveUp(n)
  PROVE  RaftInv' /\ TermStep
<1> DEFINE k == raft[n].term - 1
           s == [raft[n] EXCEPT !.term = k]
           t == SwitchToFollower(s)
<1>1. /\ Base(n, raft[n], holders) /\ Ordered(raft[n]) /\ raft[n] \in RaftState
      /\ raft[n].state = "candidate"
  BY DEF RaftInv, GiveUp
<1>2. k \in Nat /\ raft[n].lastLeaderTerm <= k
  BY <1>1 DEF RaftState, Ordered
<1>3. raft' = [raft EXCEPT ![n] = t] /\ UNCHANGED <<wire, sealedBlocks, holders>>
  BY DEF GiveUp
<1> HIDE DEF k
<1>4. /\ s \in RaftState
      /\ s.term = k /\ s.lastLeaderTerm = raft[n].lastLeaderTerm
      /\ s.chain = raft[n].chain /\ s.highest = raft[n].highest
      /\ s.uncommitted = raft[n].uncommitted
      /\ s.sealer = raft[n].sealer /\ s.sealing = raft[n].sealing /\ s.acks = raft[n].acks
  BY <1>1, <1>2, ZenonT(60) DEF RaftState
<1> HIDE DEF s
<1>5. Base(n, s, holders) /\ s.lastLeaderTerm <= s.term
  BY <1>1, <1>2, <1>4 DEF Base
<1>6. Base(n, t, holders) /\ Ordered(t)
  BY <1>5, FollowerSound
<1> HIDE DEF t
<1>7. Sound(n, t) /\ Sends /\ Grows /\ sealedBlocks' \in 0 .. MaxRaftBlocks
  BY <1>1, <1>3, <1>6 DEF Sound, Sends, Grows, RaftInv
<1> QED
  BY <1>7, NodeStep

\* A leader's heartbeat
LEMMA HeartbeatStep ==
  ASSUME RaftInv, NEW n \in RaftNodes, Heartbeat(n)
  PROVE  RaftInv' /\ TermStep
<1> DEFINE s == raft[n]
           a == Acked(s, n)
           t == ClearFirstVote(a)
           k == IF s.uncommitted # NoBlock THEN s.consensusNumber ELSE 0
           sentNow == [type : {"heartbeat"}, from : {n}, to : RaftNodes \ {n}, term : {s.term},
                       block : {s.uncommitted}, number : {k}]
<1>1. /\ Base(n, s, holders) /\ Ordered(s) /\ s \in RaftState
  BY DEF RaftInv
<1>2. /\ raft' = [raft EXCEPT ![n] = t] /\ wire' = wire \union sentNow
      /\ sealedBlocks' = sealedBlocks /\ holders' = holders
  BY DEF Heartbeat
<1>3. /\ s.term \in Nat /\ k \in Nat /\ s.uncommitted \in Blocks \union {NoBlock}
  BY <1>1 DEF RaftState
<1>4. Base(n, a, holders) /\ SameRole(s, a)
  <2>1. s.uncommitted # NoBlock => n \in holders[s.uncommitted.id]
    BY <1>1 DEF Base
  <2> HIDE DEF s
  <2> QED
    BY <1>1, <2>1, AckedSound
<1> HIDE DEF a, k
<1>5. Base(n, t, holders) /\ SameRole(s, t)
  BY <1>4, ClearSound DEF SameRole
<1> HIDE DEF t
<1>6. Sound(n, t)
  BY <1>1, <1>2, <1>3, <1>5 DEF Sound, Ordered, SameRole
<1>7. \A m \in sentNow : Honest(m, holders) /\ m.type = "heartbeat"
  BY <1>3 DEF Honest, Messages
<1> HIDE DEF sentNow
<1>8. Sends
  BY <1>2, <1>7 DEF Sends
<1>9. Grows /\ sealedBlocks' \in 0 .. MaxRaftBlocks
  BY <1>2 DEF Grows, RaftInv
<1> QED
  BY <1>6, <1>8, <1>9, NodeStep

\* An answer is one of the six flags
LEMMA AnswerFlag ==
  ASSUME NEW s, NEW r
  PROVE  Answer(s, r) \in Flags
BY DEF Answer, Flags

\* The four messages
LEMMA VoteRequestStep ==
  ASSUME RaftInv, NEW n \in RaftNodes, NEW r \in wire, r.type = "voteReq", HandleVoteRequest(n, r)
  PROVE  RaftInv' /\ TermStep
<1> DEFINE s == raft[n]
           t == Voted(s, r)
           flag == Answer(s, r)
           k == IF flag = "GRANTED" THEN r.term ELSE s.term
           m == [type |-> "voteResp", from |-> n, to |-> r.from, flag |-> flag, term |-> k]
<1>1. /\ Base(n, s, holders) /\ Ordered(s) /\ s \in RaftState /\ Honest(r, holders)
  BY DEF RaftInv
<1>2. /\ raft' = [raft EXCEPT ![n] = t] /\ wire' = (wire \ {r}) \union {m}
      /\ sealedBlocks' = sealedBlocks /\ holders' = holders
  BY DEF HandleVoteRequest
<1>3. Base(n, t, holders) /\ Ordered(t) /\ t.term >= s.term
  BY <1>1, VotedSound
<1>4. flag = "GRANTED" => k > s.term
  BY <1>1, GrantAbove
<1>5. r.from \in RaftNodes /\ k \in Nat
  BY <1>1 DEF Honest, Messages, RaftState
<1>6. flag \in Flags
  BY AnswerFlag
<1> HIDE DEF t, flag, k
<1>7. Sound(n, t)
  BY <1>2, <1>3 DEF Sound
<1>8. Honest(m, holders) /\ m.flag = flag /\ m.term = k /\ m.from = n
  BY <1>5, <1>6 DEF Honest, Messages
<1> HIDE DEF m
<1>9. Sends
  BY <1>2, <1>4, <1>8 DEF Sends
<1>10. Grows /\ sealedBlocks' \in 0 .. MaxRaftBlocks
  BY <1>2 DEF Grows, RaftInv
<1> QED
  BY <1>7, <1>9, <1>10, NodeStep

\* handleVoteResponse, with the tally of a finished election, keeps the invariant.
LEMMA VoteResponseStep ==
  ASSUME RaftInv, NEW n \in RaftNodes, NEW r \in wire, r.type = "voteResp", HandleVoteResponse(n, r)
  PROVE  RaftInv' /\ TermStep
<1> DEFINE s == raft[n]
           t == Tallied(Counted(s, r.flag), r.flag)
<1>1. /\ Base(n, s, holders) /\ Ordered(s) /\ Honest(r, holders) /\ s.state = "candidate"
  BY DEF RaftInv, HandleVoteResponse
<1>2. /\ raft' = [raft EXCEPT ![n] = t] /\ wire' = wire \ {r}
      /\ sealedBlocks' = sealedBlocks /\ holders' = holders
  BY DEF HandleVoteResponse
<1>3. r.flag \in Flags
  BY <1>1 DEF Honest, Messages
<1>4. Base(n, t, holders) /\ Ordered(t)
  BY <1>1, <1>3, TalliedSound
<1> HIDE DEF t
<1>5. Sound(n, t) /\ Sends /\ Grows /\ sealedBlocks' \in 0 .. MaxRaftBlocks
  BY <1>1, <1>2, <1>4 DEF Sound, Sends, Grows, RaftInv
<1> QED
  BY <1>5, NodeStep

\* handleHeartbeat, which may store the leader's block, keeps the invariant.
LEMMA HeartbeatReceivedStep ==
  ASSUME RaftInv, NEW n \in RaftNodes, NEW h \in wire, h.type = "heartbeat", HandleHeartbeat(n, h)
  PROVE  RaftInv' /\ TermStep
<1> DEFINE s == raft[n]
           u == Stored(s, h)
           t == FollowHeartbeat(u, h)
           G == Hold(h.block, n)
           i == HighestId(s)
           m == [type |-> "heartbeatResp", from |-> n, to |-> h.from, term |-> s.term,
                 height |-> s.highest, head |-> i, block |-> h.block]
<1>1. /\ Base(n, s, holders) /\ Ordered(s) /\ s \in RaftState /\ Honest(h, holders)
      /\ holders \in Holders
  BY DEF RaftInv
<1>2. /\ raft' = [raft EXCEPT ![n] = t] /\ wire' = (wire \ {h}) \union {m}
      /\ sealedBlocks' = sealedBlocks /\ holders' = G
      /\ h.term >= s.term \/ h.term > s.lastLeaderTerm
  BY DEF HandleHeartbeat
<1>3. /\ h.block \in Blocks \union {NoBlock} /\ h.number \in Nat /\ h.term \in Nat
      /\ h.from \in RaftNodes /\ s.term \in Nat /\ s.highest \in Nat
  BY <1>1 DEF Honest, Messages, RaftState
<1>4. i \in Nat
  <2>1. CASE s.highest = 0
    BY <2>1 DEF HighestId
  <2>2. CASE s.highest # 0
    <3>1. s.chain \in Seq(Blocks) /\ s.highest \in 1 .. Len(s.chain)
      BY <1>1, <1>3, <2>2 DEF Base, RaftState
    <3>2. s.chain[s.highest] \in Blocks
      BY <3>1
    <3> QED
      BY <2>2, <3>2, BlockFacts DEF HighestId
  <2> QED
    BY <2>1, <2>2
<1>5. /\ G \in Holders /\ \A j \in 1 .. MaxRaftBlocks : holders[j] \subseteq G[j]
      /\ h.block # NoBlock => n \in G[h.block.id]
  BY <1>1, <1>3, HoldFacts
<1> HIDE DEF G, i
<1>6. Base(n, s, G)
  BY <1>1, <1>5, BaseGrows
<1>7. Base(n, u, G) /\ SameRole(s, u)
  BY <1>3, <1>5, <1>6, StoredSound
<1> HIDE DEF u
<1>8. Ordered(u) /\ (h.term >= u.term \/ h.term > u.lastLeaderTerm)
  BY <1>1, <1>2, <1>7 DEF Ordered, SameRole
<1>9. Base(n, t, G) /\ Ordered(t) /\ (u.state = "leader" => t.term >= u.term)
  BY <1>3, <1>7, <1>8, FollowSound
<1> HIDE DEF t
<1>10. Sound(n, t)
  BY <1>2, <1>7, <1>9 DEF Sound, SameRole
<1>11. Honest(m, G) /\ m.type = "heartbeatResp"
  BY <1>3, <1>4, <1>5, ZenonT(60) DEF Honest, Messages
<1> HIDE DEF m
<1>12. Sends
  BY <1>2, <1>11 DEF Sends
<1>13. Grows /\ sealedBlocks' \in 0 .. MaxRaftBlocks
  BY <1>2, <1>5 DEF Grows, RaftInv
<1> QED
  BY <1>10, <1>12, <1>13, NodeStep

\* handleHeartbeatResponse and a commit by tryCommitUncommitedBlock keep it.
LEMMA HeartbeatRespStep ==
  ASSUME RaftInv, NEW n \in RaftNodes, NEW r \in wire, r.type = "heartbeatResp",
         HandleHeartbeatResp(n, r)
  PROVE  RaftInv' /\ TermStep
<1> DEFINE v == <<r.height, r.head>>
           w == [raft[n].members EXCEPT ![r.from] = v]
           s == [raft[n] EXCEPT !.members = w]
           t == TryCommit(s, r)
<1>1. /\ Base(n, raft[n], holders) /\ Ordered(raft[n]) /\ raft[n] \in RaftState
      /\ Honest(r, holders)
  BY DEF RaftInv
<1>2. /\ raft' = [raft EXCEPT ![n] = t] /\ wire' = wire \ {r}
      /\ sealedBlocks' = sealedBlocks /\ holders' = holders
  BY DEF HandleHeartbeatResp
<1>3. v \in Nat \X Nat
  BY <1>1 DEF Honest, Messages
<1> HIDE DEF v
<1>4. w \in [RaftNodes -> (Nat \X Nat) \union {NoMember}]
  <2>1. raft[n].members \in [RaftNodes -> (Nat \X Nat) \union {NoMember}]
    BY <1>1 DEF RaftState
  <2> HIDE DEF NoMember
  <2> QED
    BY <1>3, <2>1, ZenonT(60)
<1> HIDE DEF w
<1>5. /\ s \in RaftState /\ SameRole(raft[n], s)
      /\ s.chain = raft[n].chain /\ s.highest = raft[n].highest
      /\ s.uncommitted = raft[n].uncommitted
      /\ s.sealer = raft[n].sealer /\ s.sealing = raft[n].sealing /\ s.acks = raft[n].acks
  BY <1>1, <1>4, ZenonT(60) DEF RaftState, SameRole
<1> HIDE DEF s
<1>6. Base(n, s, holders)
  BY <1>1, <1>5 DEF Base
<1>7. Base(n, t, holders) /\ SameRole(s, t)
  BY <1>1, <1>6, TrySound
<1> HIDE DEF t
<1>8. Ordered(t) /\ t.term = raft[n].term /\ raft[n].term \in Nat
  <2>1. SameRole(raft[n], t)
    BY <1>5, <1>7, ZenonT(60) DEF SameRole
  <2>2. Ordered(t) /\ t.term = raft[n].term
    BY <1>1, <2>1, ZenonT(60) DEF Ordered, SameRole
  <2>3. raft[n].term \in Nat
    BY <1>1 DEF RaftState
  <2> QED
    BY <2>2, <2>3
<1>9. Sound(n, t) /\ Sends /\ Grows /\ sealedBlocks' \in 0 .. MaxRaftBlocks
  BY <1>2, <1>7, <1>8 DEF Sound, Sends, Grows, RaftInv
<1> QED
  BY <1>9, NodeStep

\* Whatever message a role's loop takes from the queue, the invariant is kept.
LEMMA ReceiveStep ==
  ASSUME RaftInv, NEW n \in RaftNodes, Receive(n)
  PROVE  RaftInv' /\ TermStep
<1>1. PICK m \in wire :
        \/ m.type = "voteReq" /\ HandleVoteRequest(n, m)
        \/ m.type = "voteResp" /\ HandleVoteResponse(n, m)
        \/ m.type = "heartbeat" /\ HandleHeartbeat(n, m)
        \/ m.type = "heartbeatResp" /\ HandleHeartbeatResp(n, m)
  BY DEF Receive
<1> QED
  BY <1>1, VoteRequestStep, VoteResponseStep, HeartbeatReceivedStep, HeartbeatRespStep

\* A message that disappears changes nothing else
LEMMA IgnoreStep ==
  ASSUME RaftInv, NEW n \in RaftNodes, Ignore(n)
  PROVE  RaftInv' /\ TermStep
<1>1. /\ wire' \subseteq wire /\ raft' = raft /\ sealedBlocks' = sealedBlocks /\ holders' = holders
  BY DEF Ignore
<1>2. raft' = [raft EXCEPT ![n] = raft[n]] /\ Base(n, raft[n], holders) /\ Ordered(raft[n])
      /\ raft[n].term \in Nat
  BY <1>1 DEF RaftInv, RaftState
<1>3. Sound(n, raft[n]) /\ Sends /\ Grows /\ sealedBlocks' \in 0 .. MaxRaftBlocks
  <2>1. Sound(n, raft[n])
    <3>1. holders' = holders /\ raft[n].term >= raft[n].term
      BY <1>1, <1>2
    <3>2. Base(n, raft[n], holders')
      BY <1>2, <3>1
    <3> QED
      BY <1>2, <3>1, <3>2 DEF Sound
  <2>2. Sends /\ Grows /\ sealedBlocks' \in 0 .. MaxRaftBlocks
    BY <1>1 DEF Sends, Grows, RaftInv
  <2> QED
    BY <2>1, <2>2
<1> QED
  BY <1>3, NodeStep

\* The sealer thread fills a block
LEMMA SealStep ==
  ASSUME RaftInv, NEW n \in RaftNodes, Seal(n)
  PROVE  RaftInv' /\ TermStep
<1> DEFINE s == raft[n]
           b == [id |-> sealedBlocks + 1, number |-> Len(s.chain) + 1, parent |-> HeadId(s)]
           t == [s EXCEPT !.sealer = "sealing", !.sealing = b]
<1>1. /\ Base(n, s, holders) /\ Ordered(s) /\ s \in RaftState /\ s.term \in Nat
      /\ raft \in [RaftNodes -> RaftState]
  BY ZenonT(60) DEF RaftInv, RaftState
<1>2. /\ sealedBlocks' = sealedBlocks + 1 /\ sealedBlocks' \in 1 .. MaxRaftBlocks
      /\ wire' = wire /\ holders' = holders
  BY RaftAssumption DEF Seal, RaftInv
<1>3. raft' = [raft EXCEPT ![n] = t]
  BY <1>1, ZenonT(60) DEF Seal
<1>4. b \in Blocks
  <2>1. s.chain \in Seq(Blocks) /\ Len(s.chain) \in Nat
    BY <1>1 DEF RaftState
  <2>2. HeadId(s) \in Nat
    <3>1. CASE s.chain = <<>>
      BY <3>1 DEF HeadId
    <3>2. CASE s.chain # <<>>
      <4>1. s.chain[Len(s.chain)] \in Blocks
        BY <2>1, <3>2
      <4> QED
        BY <3>2, <4>1, BlockFacts DEF HeadId
    <3> QED
      BY <3>1, <3>2
  <2>3. sealedBlocks + 1 \in 1 .. MaxRaftBlocks
    BY <1>2
  <2> QED
    BY <2>1, <2>2, <2>3 DEF Blocks
<1> HIDE DEF b
<1>5. /\ t \in RaftState /\ SameRole(s, t)
      /\ t.chain = s.chain /\ t.highest = s.highest /\ t.uncommitted = s.uncommitted
      /\ t.sealing = b /\ t.acks = s.acks
  BY <1>1, <1>4, ZenonT(60) DEF RaftState, SameRole
<1> HIDE DEF t
<1>6. Base(n, t, holders)
  BY <1>1, <1>4, <1>5, BlockFacts DEF Base
<1>7. Sound(n, t)
  BY <1>1, <1>2, <1>3, <1>5, <1>6 DEF Sound, Ordered, SameRole
<1>8. Sends /\ Grows /\ sealedBlocks' \in 0 .. MaxRaftBlocks
  BY <1>2 DEF Sends, Grows, RaftInv
<1> QED
  BY <1>7, <1>8, NodeStep

\* commit stores the sealed block and waits
LEMMA CommitStep ==
  ASSUME RaftInv, NEW n \in RaftNodes, Commit(n)
  PROVE  RaftInv' /\ TermStep
<1> DEFINE s == raft[n]
           G == Hold(s.sealing, n)
           t == [s EXCEPT !.sealer = "waiting", !.commitReady = FALSE,
                          !.uncommitted = s.sealing, !.uncommittedNumber = s.consensusNumber]
<1>1. /\ Base(n, s, holders) /\ Ordered(s) /\ s \in RaftState /\ s.term \in Nat
      /\ raft \in [RaftNodes -> RaftState] /\ holders \in Holders
  BY ZenonT(60) DEF RaftInv, RaftState
<1>2. /\ s.sealer = "sealing" /\ holders' = G /\ wire' = wire /\ sealedBlocks' = sealedBlocks
  BY DEF Commit
<1>3. raft' = [raft EXCEPT ![n] = t]
  BY <1>1, ZenonT(60) DEF Commit
<1>4. s.sealing \in Blocks /\ s.sealing # NoBlock
  BY <1>1, <1>2, ZenonT(60) DEF Base, RaftState
<1>5. /\ G \in Holders /\ \A j \in 1 .. MaxRaftBlocks : holders[j] \subseteq G[j]
      /\ n \in G[s.sealing.id]
  BY <1>1, <1>4, HoldFacts
<1> HIDE DEF G
<1>6. Base(n, s, G)
  BY <1>1, <1>5, BaseGrows
<1>7. /\ t \in RaftState /\ SameRole(s, t)
      /\ t.chain = s.chain /\ t.highest = s.highest /\ t.uncommitted = s.sealing
      /\ t.sealing = s.sealing /\ t.acks = s.acks
  BY <1>1, <1>4, ZenonT(60) DEF RaftState, SameRole
<1> HIDE DEF t
<1>8. Base(n, t, G)
  BY <1>4, <1>5, <1>6, <1>7 DEF Base
<1>9. Sound(n, t)
  BY <1>1, <1>2, <1>3, <1>7, <1>8 DEF Sound, Ordered, SameRole
<1>10. Sends /\ Grows /\ sealedBlocks' \in 0 .. MaxRaftBlocks
  BY <1>2, <1>5 DEF Sends, Grows, RaftInv
<1> QED
  BY <1>9, <1>10, NodeStep

\* commit goes on
LEMMA WakeStep ==
  ASSUME RaftInv, NEW n \in RaftNodes, Wake(n)
  PROVE  RaftInv' /\ TermStep
<1> DEFINE b == raft[n].sealing
           s == [raft[n] EXCEPT !.sealer = "idle", !.commitReady = FALSE, !.sealing = NoBlock]
           t == IF s.uncommitted # NoBlock /\ s.state = "leader" THEN CheckAndExecute(s, b) ELSE s
<1>1. /\ Base(n, raft[n], holders) /\ Ordered(raft[n]) /\ raft[n] \in RaftState
      /\ raft[n].term \in Nat /\ raft[n].sealer = "waiting"
  BY DEF RaftInv, RaftState, Wake
<1>2. /\ raft' = [raft EXCEPT ![n] = t]
      /\ wire' = wire /\ sealedBlocks' = sealedBlocks /\ holders' = holders
  BY DEF Wake
<1>3. b \in Blocks
  BY <1>1 DEF Base, RaftState
<1>4. /\ s \in RaftState /\ SameRole(raft[n], s) /\ s.sealer = "idle"
      /\ s.chain = raft[n].chain /\ s.highest = raft[n].highest
      /\ s.uncommitted = raft[n].uncommitted /\ s.acks = raft[n].acks
  BY <1>1, ZenonT(60) DEF RaftState, SameRole
<1> HIDE DEF b, s
<1>5. Base(n, s, holders) /\ SameRole(s, s)
  BY <1>1, <1>4 DEF Base, SameRole
<1>6. Base(n, CheckAndExecute(s, b), holders) /\ SameRole(s, CheckAndExecute(s, b))
  BY <1>3, <1>5, ExecuteSound
<1>7. Base(n, t, holders) /\ SameRole(raft[n], t)
  BY <1>4, <1>5, <1>6 DEF SameRole
<1> HIDE DEF t
<1>8. Sound(n, t)
  BY <1>1, <1>2, <1>7 DEF Sound, Ordered, SameRole
<1>9. Sends /\ Grows /\ sealedBlocks' \in 0 .. MaxRaftBlocks
  BY <1>2 DEF Sends, Grows, RaftInv
<1> QED
  BY <1>8, <1>9, NodeStep

\* reportNewBlock
LEMMA ReportStep ==
  ASSUME RaftInv, NEW n \in RaftNodes, Report(n)
  PROVE  RaftInv' /\ TermStep
<1> DEFINE s == raft[n]
           t == ReportBlock(s)
<1>1. /\ Base(n, s, holders) /\ Ordered(s) /\ s.term \in Nat
  BY DEF RaftInv, RaftState
<1>2. /\ raft' = [raft EXCEPT ![n] = t]
      /\ wire' = wire /\ sealedBlocks' = sealedBlocks /\ holders' = holders
  BY DEF Report
<1>3. Base(n, t, holders) /\ SameRole(s, t)
  BY <1>1, ReportSound
<1> HIDE DEF t
<1>4. Sound(n, t)
  BY <1>1, <1>2, <1>3 DEF Sound, Ordered, SameRole
<1>5. Sends /\ Grows /\ sealedBlocks' \in 0 .. MaxRaftBlocks
  BY <1>2 DEF Sends, Grows, RaftInv
<1> QED
  BY <1>4, <1>5, NodeStep

\* Block sync
LEMMA DownloadStep ==
  ASSUME RaftInv, NEW n \in RaftNodes, NEW m \in RaftNodes, Download(n, m)
  PROVE  RaftInv' /\ TermStep
<1> DEFINE s == raft[n]
           b == raft[m].chain[Len(s.chain) + 1]
           t == [s EXCEPT !.chain = Append(@, b)]
           u == CASE s.state = "leader" -> SwitchToLeader(t)
                  [] s.state = "candidate" -> RunAsCandidate(n, t)
                  [] OTHER -> t
           G == Hold(b, n)
<1>1. /\ Base(n, s, holders) /\ Ordered(s) /\ s.term \in Nat /\ s.lastLeaderTerm \in Nat
      /\ holders \in Holders
  BY DEF RaftInv, RaftState
<1>2. /\ raft' = [raft EXCEPT ![n] = u]
      /\ wire' = IF s.state = "candidate" THEN wire \union VoteReqs(n, t) ELSE wire
      /\ sealedBlocks' = sealedBlocks /\ holders' = G
  BY DEF Download
<1>3. b \in Blocks
  <2>1. /\ s.chain \in Seq(Blocks) /\ raft[m].chain \in Seq(Blocks)
        /\ Len(s.chain) < Len(raft[m].chain)
    BY DEF RaftInv, RaftState, Download
  <2>2. Len(s.chain) + 1 \in 1 .. Len(raft[m].chain)
    BY <2>1
  <2> QED
    BY <2>1, <2>2
<1> HIDE DEF b
<1>4. G \in Holders /\ \A j \in 1 .. MaxRaftBlocks : holders[j] \subseteq G[j]
  BY <1>1, <1>3, HoldFacts
<1> HIDE DEF G
<1>5. Base(n, s, G)
  BY <1>1, <1>4, BaseGrows
<1>6. Base(n, t, G) /\ SameRole(s, t)
  BY <1>3, <1>5, ChainGrows
<1> HIDE DEF t
<1>7. Ordered(t)
  BY <1>1, <1>6 DEF Ordered, SameRole
<1>8. u \in {SwitchToLeader(t), RunAsCandidate(n, t), t}
  OBVIOUS
<1>9. Base(n, SwitchToLeader(t), G) /\ Ordered(SwitchToLeader(t)) /\ SwitchToLeader(t).term = t.term
  BY <1>6, LeaderSound
<1>10. Base(n, RunAsCandidate(n, t), G) /\ Ordered(RunAsCandidate(n, t))
       /\ RunAsCandidate(n, t).term = t.term
  BY <1>6, <1>7, CandidateSound
<1> HIDE DEF u
<1>11. Base(n, u, G) /\ Ordered(u) /\ u.term = s.term
  BY <1>6, <1>7, <1>8, <1>9, <1>10 DEF SameRole
<1>12. Sound(n, u)
  BY <1>1, <1>2, <1>11 DEF Sound
<1>13. Sends
  <2>1. CASE s.state # "candidate"
    BY <1>2, <2>1 DEF Sends
  <2>2. CASE s.state = "candidate"
    <3>1. t.lastLeaderTerm < t.term
      BY <1>6, <1>7, <2>2 DEF Ordered, SameRole
    <3>2. \A q \in VoteReqs(n, t) : Honest(q, G) /\ q.type = "voteReq"
      BY <1>6, <3>1, RequestsHonest
    <3> QED
      BY <1>2, <2>2, <3>2 DEF Sends
  <2> QED
    BY <2>1, <2>2
<1>14. Grows /\ sealedBlocks' \in 0 .. MaxRaftBlocks
  BY <1>2, <1>4 DEF Grows, RaftInv
<1> QED
  BY <1>12, <1>13, <1>14, NodeStep

-----------------------------------------------------------------------------
(* The theorems.                                                            *)

\* The initial states satisfy the invariant.
LEMMA InitSound == RaftInit => RaftInv
<1> SUFFICES ASSUME RaftInit PROVE RaftInv
  OBVIOUS
<1>1. NoVotes \in [Counters -> Nat]
  BY DEF NoVotes
<1>2. [m \in RaftNodes |-> NoMember] \in [RaftNodes -> (Nat \X Nat) \union {NoMember}]
  OBVIOUS
<1>3. [b \in 1 .. MaxRaftBlocks |-> {}] \in Holders
  BY DEF Holders
<1>4. ASSUME NEW n \in RaftNodes
      PROVE  raft[n] \in RaftState /\ Base(n, raft[n], holders) /\ Ordered(raft[n])
  <2>1. /\ raft[n].highest = 0 /\ raft[n].chain = <<>> /\ raft[n].uncommitted = NoBlock
        /\ raft[n].sealer = "idle" /\ raft[n].acks = [b \in 1 .. MaxRaftBlocks |-> {}]
        /\ raft[n].state = "follower" /\ raft[n].term = 0 /\ raft[n].lastLeaderTerm = 0
    BY ZenonT(60) DEF RaftInit
  <2>2. raft[n] \in RaftState
    <3>1. <<>> \in Seq(Blocks)
      OBVIOUS
    <3>2. [b \in 1 .. MaxRaftBlocks |-> {}] \in [1 .. MaxRaftBlocks -> SUBSET RaftNodes]
      OBVIOUS
    <3> HIDE DEF NoMember
    <3> QED
      BY <1>1, <1>2, <3>1, <3>2 DEF RaftInit, RaftState
  <2>3. Len(raft[n].chain) = 0
    BY <2>1
  <2> QED
    BY <2>1, <2>2, <2>3 DEF Base, Ordered
<1>5. raft \in [RaftNodes -> RaftState]
  <2>1. DOMAIN raft = RaftNodes /\ raft = [n \in RaftNodes |-> raft[n]]
    BY ZenonT(60) DEF RaftInit
  <2> QED
    BY <1>4, <2>1
<1>6. wire = {} /\ sealedBlocks = 0 /\ holders = [b \in 1 .. MaxRaftBlocks |-> {}]
  BY ZenonT(60) DEF RaftInit
<1>7. sealedBlocks \in 0 .. MaxRaftBlocks
  BY <1>6, RaftAssumption
<1> QED
  BY <1>3, <1>4, <1>5, <1>6, <1>7, ZenonT(60) DEF RaftInv

\* Every step keeps it, and only raises what it must.
LEMMA NextSound == RaftInv /\ [RaftNext]_raftVars => RaftInv' /\ [TermStep]_raftVars
<1> SUFFICES ASSUME RaftInv, [RaftNext]_raftVars PROVE RaftInv' /\ [TermStep]_raftVars
  OBVIOUS
<1>1. CASE UNCHANGED raftVars
  <2>1. raft' = raft /\ wire' = wire /\ sealedBlocks' = sealedBlocks /\ holders' = holders
    BY <1>1 DEF raftVars
  <2>2. RaftInv'
    BY <2>1, ZenonT(60) DEF RaftInv, Base, Ordered, Honest, Messages, Holders, RaftState
  <2> QED
    BY <1>1, <2>2
<1>2. CASE RaftNext
  <2>1. PICK n \in RaftNodes :
          \/ Timeout(n) \/ CampaignAgain(n) \/ GiveUp(n) \/ Heartbeat(n) \/ Receive(n) \/ Ignore(n)
          \/ Seal(n) \/ Commit(n) \/ Wake(n) \/ Report(n)
          \/ \E m \in RaftNodes \ {n} : Download(n, m)
    BY <1>2 DEF RaftNext
  <2>2. CASE Timeout(n) \/ CampaignAgain(n)
    <3>1. Candidacy(n)
      BY <2>2 DEF Timeout, CampaignAgain
    <3> QED
      BY <3>1, CandidacyStep
  <2>3. CASE GiveUp(n)
    BY <2>3, GiveUpStep
  <2>4. CASE Heartbeat(n)
    BY <2>4, HeartbeatStep
  <2>5. CASE Receive(n)
    BY <2>5, ReceiveStep
  <2>6. CASE Ignore(n)
    BY <2>6, IgnoreStep
  <2>7. CASE Seal(n)
    BY <2>7, SealStep
  <2>8. CASE Commit(n)
    BY <2>8, CommitStep
  <2>9. CASE Wake(n)
    BY <2>9, WakeStep
  <2>10. CASE Report(n)
    BY <2>10, ReportStep
  <2>11. CASE \E m \in RaftNodes \ {n} : Download(n, m)
    BY <2>11, DownloadStep
  <2> QED
    BY <2>1, <2>2, <2>3, <2>4, <2>5, <2>6, <2>7, <2>8, <2>9, <2>10, <2>11
<1> QED
  BY <1>1, <1>2

\* The invariant holds in every reachable state.
LEMMA RaftInvariant == RaftSpec => []RaftInv
<1>1. RaftInv /\ [RaftNext]_raftVars => RaftInv'
  BY NextSound
<1> QED
  BY <1>1, InitSound, PTL DEF RaftSpec

\* Every member of RaftEngine keeps its type; m_term, a size_t that two handlers
\* decrement, never passes below zero.
THEOREM RaftTypeCorrect == RaftSpec => []RaftTypeOK
<1>1. RaftInv => RaftTypeOK
  BY DEF RaftInv, RaftTypeOK, Holders
<1> QED
  BY <1>1, RaftInvariant, PTL

\* A node's term is never below the term of the last leader it knows, strictly
\* above it while it is a candidate, and equal to it while it leads; requests
\* for votes carry terms in that order.
THEOREM TermsOrdered == RaftSpec => []TermOrder
<1>1. RaftInv => TermOrder
  BY DEF RaftInv, TermOrder, Ordered, Honest
<1> QED
  BY <1>1, RaftInvariant, PTL

\* handleVoteRequest never grants a term that is not above the node's own, and
\* no handler lowers a leader's term, for any group and any messages.
THEOREM GrantsOnlyRaise == RaftSpec => GrantsRaiseTerm
<1>1. RaftInv /\ [RaftNext]_raftVars => [TermStep]_raftVars
  BY NextSound
<1> QED
  BY <1>1, RaftInvariant, PTL DEF RaftSpec, GrantsRaiseTerm

\* Whoever a leader counts in m_commitFingerPrint has stored the block.
THEOREM AcksAreTrue == RaftSpec => []AcksTrue
<1>1. RaftInv => AcksTrue
  BY DEF RaftInv, AcksTrue, Base
<1> QED
  BY <1>1, RaftInvariant, PTL

-----------------------------------------------------------------------------
(***************************************************************************)
(* Rotating: the window of working sealers is current.  The engine may be  *)
(* one step behind, and only while it has neither reported nor checked a   *)
(* block at the number of its chain; so it is never two steps behind,      *)
(* which one call of chooseConsensusNodes could not make good.             *)
(***************************************************************************)
\* The engine's fields, for a chain of any length.
Engines == [highest: Nat, listed: Nat, round: Nat, start: Indices, chosed: SUBSET Indices]

\* The window is the one of the engine's round.
OfRound(e) == e.start = e.round % SealersNum /\ e.chosed = WindowFrom(e.start)

\* How far the chain is ahead of the first block of the round.
Ahead(e) == chain - e.round * RotatingInterval

\* The window has one step to make.
Behind == Ahead(engine) = RotatingInterval

\* The inductive invariant.
RotatingInv ==
    /\ chain \in Nat /\ engine \in Engines /\ checking \in Nat
    /\ OfRound(engine)
    /\ Ahead(engine) \in 0 .. RotatingInterval
    /\ engine.highest <= chain /\ checking <= chain + 1
    /\ Behind => engine.highest # chain /\ checking # chain + 1

\* The window has at least one sealer, and no more than there are.
LEMMA EpochSizes == EpochSize \in Nat \ {0} /\ EpochSize <= SealersNum
BY RotatingAssumption DEF EpochSize

\* Indices wrap around once.
LEMMA Wrap ==
    ASSUME NEW x \in Indices, NEW y \in 0 .. SealersNum
    PROVE  (x + y) % SealersNum = IF x + y < SealersNum THEN x + y ELSE x + y - SealersNum
BY RotatingAssumption DEF Indices

\* A window is a set of sealers.
LEMMA WindowType == ASSUME NEW x \in Nat PROVE WindowFrom(x) \subseteq Indices
BY RotatingAssumption, EpochSizes DEF WindowFrom, Indices

\* Multiples of the modulus do not count.
LEMMA Remainder ==
    ASSUME NEW n \in Nat \ {0}, NEW q \in Nat, NEW x \in 0 .. n - 1
    PROVE  (n * q + x) % n = x
OBVIOUS

\* The first sealer of the window leaves and the one behind it comes in: the
\* window one further.
LEMMA WindowMoves ==
    ASSUME NEW r \in Nat
    PROVE  LET first == r % SealersNum
               next == (r + 1) % SealersNum
           IN  WindowFrom(next) = (WindowFrom(first) \ {first}) \cup {(next + EpochSize - 1) % SealersNum}
<1> DEFINE N == SealersNum
           E == EpochSize
           first == r % N
           next == (r + 1) % N
<1>1. N \in Nat \ {0} /\ E \in Nat \ {0} /\ E <= N
  BY RotatingAssumption, EpochSizes
<1>2. first \in 0 .. N - 1 /\ next \in 0 .. N - 1
  BY <1>1
<1>3. next = IF first + 1 < N THEN first + 1 ELSE 0
  <2> DEFINE q == r \div N
  <2>1. q \in Nat /\ r = N * q + first
    BY <1>1
  <2> HIDE DEF first, q, N
  <2>2. r + 1 = N * q + (first + 1) /\ (first + 1 = N => r + 1 = N * (q + 1) + 0)
    BY <1>1, <1>2, <2>1
  <2> QED
    BY <1>1, <1>2, <2>1, <2>2, Remainder
<1> DEFINE At(x, i) == (x + i) % N
<1>4. \A x \in 0 .. N - 1, i \in 0 .. N : At(x, i) = IF x + i < N THEN x + i ELSE x + i - N
  BY <1>1
<1>5. \A x : WindowFrom(x) = {At(x, i) : i \in 0 .. E - 1}
  BY DEF WindowFrom
<1>6. (next + E - 1) % N = At(next, E - 1)
  BY <1>1, <1>2
<1> HIDE DEF N, E, first, next, At
<1>7. \A i \in 0 .. N - 1 : At(next, i) = At(first, i + 1)
  BY <1>1, <1>2, <1>3, <1>4
<1>8. At(first, 0) = first
  BY <1>1, <1>2, <1>4
<1>9. \A i \in 1 .. N - 1 : At(first, i) # first
  BY <1>1, <1>2, <1>4
<1>10. {At(next, i) : i \in 0 .. E - 1} =
         ({At(first, i) : i \in 0 .. E - 1} \ {first}) \cup {At(next, E - 1)}
  <2>1. ASSUME NEW i \in 0 .. E - 1, i # E - 1
        PROVE  At(next, i) \in {At(first, j) : j \in 0 .. E - 1} \ {first}
    <3>1. i + 1 \in 1 .. E - 1 /\ i + 1 \in 0 .. E - 1 /\ i \in 0 .. N - 1 /\ i + 1 \in 1 .. N - 1
      BY <1>1, <2>1
    <3> QED
      BY <3>1, <1>7, <1>9
  <2>2. ASSUME NEW i \in 0 .. E - 1, At(first, i) # first
        PROVE  At(first, i) \in {At(next, j) : j \in 0 .. E - 1}
    <3>1. i # 0
      BY <2>2, <1>8
    <3>2. i - 1 \in 0 .. E - 1 /\ i - 1 \in 0 .. N - 1 /\ (i - 1) + 1 = i
      BY <3>1, <1>1
    <3> QED
      BY <3>2, <1>7
  <2>3. E - 1 \in 0 .. E - 1
    BY <1>1
  <2> QED
    BY <2>1, <2>2, <2>3
<1> QED
  BY <1>5, <1>6, <1>10 DEF E, N, first, next

\* chooseConsensusNodes after resetChosedConsensusNodes makes good one step.
LEMMA Rotates ==
    ASSUME chain \in Nat, NEW e \in Engines, OfRound(e), Ahead(e) \in 0 .. RotatingInterval
    PROVE  LET f == ResetConfig(e)
           IN  /\ f \in Engines /\ OfRound(f)
               /\ Ahead(f) \in 0 .. RotatingInterval - 1
               /\ f.highest = e.highest
<1>1. e.round \in Nat /\ e.start \in Indices /\ e.start = e.round % SealersNum
  BY DEF Engines, OfRound
<1>2. ResetChosedConsensusNodes(e) = e
  <2>1. e = [e EXCEPT !.start = e.start, !.chosed = e.chosed]
    BY ZenonT(60) DEF Engines
  <2> QED
    BY <2>1 DEF ResetChosedConsensusNodes, OfRound
<1>3. CASE Ahead(e) < RotatingInterval
  <2>1. ResetConfig(e) = e
    BY <1>2, <1>3 DEF ResetConfig, ChooseConsensusNodes, Ahead
  <2> QED
    BY <2>1, <1>3, RotatingAssumption
<1>4. CASE Ahead(e) = RotatingInterval
  <2> DEFINE r == e.round + 1
             s == r % SealersNum
             c == (e.chosed \ {e.round % SealersNum}) \cup {(s + EpochSize - 1) % SealersNum}
  <2>1. ResetConfig(e) = [e EXCEPT !.round = r, !.start = s, !.chosed = c]
    BY <1>2, <1>4, RotatingAssumption DEF ResetConfig, ChooseConsensusNodes, Ahead
  <2>2. r \in Nat /\ s \in Indices /\ s \in Nat
    BY <1>1, RotatingAssumption DEF Indices
  <2>3. c = WindowFrom(s)
    BY <1>1, WindowMoves DEF OfRound
  <2>4. c \subseteq Indices
    BY <2>2, <2>3, WindowType
  <2>5. r * RotatingInterval = e.round * RotatingInterval + RotatingInterval
    BY <1>1, RotatingAssumption
  <2> DEFINE f == [e EXCEPT !.round = r, !.start = s, !.chosed = c]
  <2> HIDE DEF s, c, r
  <2>6. f \in Engines /\ f.round = r /\ f.start = s /\ f.chosed = c /\ f.highest = e.highest
    BY <2>2, <2>4, ZenonT(60) DEF Engines
  <2>7. OfRound(f)
    BY <2>3, <2>6 DEF OfRound, s
  <2>8. Ahead(f) = 0
    BY <1>1, <1>4, <2>5, <2>6, RotatingAssumption DEF Ahead
  <2> QED
    BY <2>1, <2>6, <2>7, <2>8, RotatingAssumption
<1> QED
  BY <1>3, <1>4, RotatingAssumption

\* A node that starts has the window of its chain.
LEMMA StartedCurrent ==
    ASSUME chain \in Nat
    PROVE  /\ Started \in Engines /\ OfRound(Started)
           /\ Ahead(Started) \in 0 .. RotatingInterval - 1
           /\ Started.highest = chain
<1> DEFINE r == chain \div RotatingInterval
           s == r % SealersNum
           e == [highest |-> chain, listed |-> chain, round |-> r, start |-> s, chosed |-> WindowFrom(s)]
<1>1. r \in Nat /\ chain - r * RotatingInterval \in 0 .. RotatingInterval - 1
  BY RotatingAssumption
<1>2. s \in Indices /\ s \in Nat
  BY <1>1, RotatingAssumption DEF Indices
<1>3. WindowFrom(s) \subseteq Indices
  BY <1>2, WindowType
<1>4. ResetChosedConsensusNodes([highest |-> chain, listed |-> chain, round |-> r,
                                 start |-> 0, chosed |-> {}]) = e
  BY ZenonT(60) DEF ResetChosedConsensusNodes
<1>5. chain - r * RotatingInterval < RotatingInterval
  BY <1>1, RotatingAssumption
<1>6. ChooseConsensusNodes(e) = e
  BY <1>5 DEF ChooseConsensusNodes
<1>7. Started = e
  BY <1>4, <1>6, ZenonT(60) DEF Started, ResetConfig
<1> HIDE DEF r, s
<1>8. e \in Engines /\ Ahead(e) \in 0 .. RotatingInterval - 1 /\ e.highest = chain
  BY <1>1, <1>2, <1>3 DEF Engines, Ahead
<1>9. OfRound(e)
  BY DEF OfRound, s
<1> QED
  BY <1>7, <1>8, <1>9

\* The number of rounds that a chain has completed is the one between.
LEMMA Quotient ==
    ASSUME NEW a \in Nat, NEW b \in Nat \ {0}, NEW r \in Nat, a - r * b \in 0 .. b - 1
    PROVE  a \div b = r
OBVIOUS

\* Whatever the number of sealers, the size of the window and the length of an
\* epoch, and for a chain of any length: a node that has reported the newest
\* block has the window that belongs to it, and the leader is always one of it.
THEOREM RotationStaysCurrent == RotatingSpec => []RotationCurrent
<1>1. RotatingInit => RotatingInv
  <2> SUFFICES ASSUME RotatingInit PROVE RotatingInv
    OBVIOUS
  <2>1. chain = 0 /\ engine = Started /\ checking = 0
    BY DEF RotatingInit, NotChecking
  <2> QED
    BY <2>1, StartedCurrent, RotatingAssumption DEF RotatingInv, Behind
<1>2. RotatingInv /\ [RotatingNext]_rotatingVars => RotatingInv'
  <2> SUFFICES ASSUME RotatingInv, [RotatingNext]_rotatingVars
               PROVE  RotatingInv'
    OBVIOUS
  <2>0. RotatingInterval \in Nat \ {0} /\ engine.highest \in Nat
    BY RotatingAssumption DEF RotatingInv, Engines
  <2>1. CASE CommitAgreed
    <3>1. chain' = chain + 1 /\ engine' = engine /\ checking' = checking /\ engine.highest = chain
      BY <2>1 DEF CommitAgreed
    <3>2. Ahead(engine)' = Ahead(engine) + 1
      BY <3>1, <2>0 DEF Ahead, RotatingInv, Engines
    <3> QED
      BY <2>0, <3>1, <3>2 DEF RotatingInv, Behind
  <2>2. CASE CheckBlock
    <3>1. chain' = chain /\ checking' = chain + 1 /\ engine' = ResetConfig(engine)
      BY <2>2 DEF CheckBlock
    <3>2. /\ engine' \in Engines /\ OfRound(engine')
          /\ chain - engine'.round * RotatingInterval \in 0 .. RotatingInterval - 1
          /\ engine'.highest = engine.highest
      BY <3>1, Rotates DEF RotatingInv, Ahead
    <3> QED
      BY <2>0, <3>1, <3>2 DEF RotatingInv, Behind, Ahead, OfRound
  <2>3. CASE CommitChecked
    <3>1. CASE /\ checking = chain + 1 /\ chain' = chain + 1
               /\ checking' = 0 /\ engine' = engine
      <4>1. Ahead(engine)' = Ahead(engine) + 1
        BY <3>1, <2>0 DEF Ahead, RotatingInv, Engines
      <4> QED
        BY <2>0, <3>1, <4>1 DEF RotatingInv, Behind
    <3>2. CASE chain' = chain /\ checking' = 0 /\ engine' = engine
      <4>1. Ahead(engine)' = Ahead(engine)
        BY <3>2 DEF Ahead
      <4> QED
        BY <2>0, <3>2, <4>1 DEF RotatingInv, Behind
    <3> QED
      BY <2>3, <3>1, <3>2 DEF CommitChecked, NotChecking
  <2>4. CASE ReportNewest
    <3>1. chain' = chain /\ checking' = checking
      BY <2>4 DEF ReportNewest
    <3>2. CASE engine' = engine /\ ~(chain = 0 \/ engine.highest < chain)
      BY <3>1, <3>2 DEF RotatingInv, Behind, Ahead, OfRound
    <3>3. CASE engine' = ResetConfig([engine EXCEPT !.highest = chain])
      <4> DEFINE e == [engine EXCEPT !.highest = chain]
      <4>1. /\ e \in Engines /\ e.highest = chain /\ e.round = engine.round
            /\ e.start = engine.start /\ e.chosed = engine.chosed
        BY DEF RotatingInv, Engines
      <4>2. engine' = ResetConfig(e)
        BY <3>3
      <4> HIDE DEF e
      <4>3. OfRound(e) /\ Ahead(e) \in 0 .. RotatingInterval
        BY <4>1 DEF RotatingInv, OfRound, Ahead
      <4>4. /\ engine' \in Engines /\ OfRound(engine')
            /\ chain - engine'.round * RotatingInterval \in 0 .. RotatingInterval - 1
            /\ engine'.highest = chain
        BY <4>1, <4>2, <4>3, Rotates DEF RotatingInv, Ahead
      <4> QED
        BY <2>0, <3>1, <4>4 DEF RotatingInv, Behind, Ahead, OfRound
    <3> QED
      BY <2>4, <3>2, <3>3 DEF ReportNewest
  <2>5. CASE RestartRotating
    <3>1. chain' = chain /\ checking' = 0 /\ engine' = Started
      BY <2>5 DEF RestartRotating, NotChecking
    <3>2. /\ engine' \in Engines /\ OfRound(engine')
          /\ chain - engine'.round * RotatingInterval \in 0 .. RotatingInterval - 1
          /\ engine'.highest = chain
      BY <3>1, StartedCurrent DEF RotatingInv, Ahead
    <3> QED
      BY <2>0, <3>1, <3>2 DEF RotatingInv, Behind, Ahead, OfRound
  <2>6. CASE UNCHANGED rotatingVars
    BY <2>6 DEF rotatingVars, RotatingInv, Behind, Ahead, OfRound
  <2> QED
    BY <2>1, <2>2, <2>3, <2>4, <2>5, <2>6 DEF RotatingNext
<1>3. RotatingInv => RotationCurrent
  <2> SUFFICES ASSUME RotatingInv PROVE RotationCurrent
    OBVIOUS
  <2>1. ASSUME engine.highest = chain
        PROVE  engine.chosed = WindowFrom((chain \div RotatingInterval) % SealersNum)
    <3>1. engine.round \in Nat /\ chain \in Nat /\ RotatingInterval \in Nat \ {0}
      BY RotatingAssumption DEF RotatingInv, Engines
    <3>2. chain - engine.round * RotatingInterval \in 0 .. RotatingInterval - 1
      BY <2>1, <3>1 DEF RotatingInv, Behind, Ahead
    <3>3. chain \div RotatingInterval = engine.round
      BY <3>1, <3>2, Quotient, ZenonT(60)
    <3> QED
      BY <3>3 DEF RotatingInv, OfRound
  <2>2. ASSUME NEW v \in 0 .. MaxRotatedView
        PROVE  SelectLeader(v) \in engine.chosed
    <3> DEFINE i == (v + engine.highest) % EpochSize
    <3>1. v + engine.highest \in Nat
      BY RotatingAssumption DEF RotatingInv, Engines
    <3>2. i \in 0 .. EpochSize - 1
      BY <3>1, EpochSizes
    <3> HIDE DEF i
    <3>3. (engine.start + i) % SealersNum \in WindowFrom(engine.start)
      BY <3>2 DEF WindowFrom
    <3> QED
      BY <3>3 DEF SelectLeader, RotatingInv, OfRound, i
  <2> QED
    BY <2>1, <2>2 DEF RotationCurrent
<1> QED
  BY <1>1, <1>2, <1>3, PTL DEF RotatingSpec

-----------------------------------------------------------------------------
(***************************************************************************)
(* Worker: the owner's waits come to their end.  What m_state may be       *)
(* depends on where the thread is, and on the call the owner is in.        *)
(***************************************************************************)
WorkerShape ==
    /\ workerState \in {"Starting", "Started", "Stopping", "Stopped", "Killing"}
    /\ workerThread \in {"none", "loop", "set", "work", "done", "park", "exited"}
    /\ owner \in {"idle", "starting", "stopping", "joining"}

\* Only the owner's waits leave the thread in a state that asks for something.
WorkerPlace ==
    /\ workerThread = "none" => owner = "idle"
    /\ workerThread = "exited" => workerState = "Killing" /\ owner = "joining"
    /\ workerState = "Starting" /\ workerThread # "none" =>
          owner = "starting" /\ workerThread \in {"loop", "set", "park"}
    /\ workerThread = "set" => workerState = "Starting"
    /\ workerState = "Started" => workerThread \in {"work", "done"}
    /\ workerState = "Stopping" => owner = "stopping" /\ workerThread \in {"work", "done"}
    /\ workerState = "Killing" /\ workerThread # "none" => owner = "joining"

\* The inductive invariant.
WorkerInv == WorkerShape /\ WorkerPlace /\ OwnerAwaited

\* Whatever the thread and its owner do, in every order: terminate is not
\* forgotten, and stopWorking returns only once the thread is parked.
THEOREM OwnerNeverForgotten == WorkerSpec => []OwnerAwaited
<1>1. WorkerInit => WorkerInv
  BY DEF WorkerInit, WorkerInv, WorkerShape, WorkerPlace, OwnerAwaited
<1>2. WorkerInv /\ [WorkerNext]_workerVars => WorkerInv'
  <2> SUFFICES ASSUME WorkerInv, [WorkerNext]_workerVars
               PROVE  WorkerInv'
    OBVIOUS
  <2> USE DEF WorkerInv, WorkerShape, WorkerPlace, OwnerAwaited
  <2>1. CASE EnterLoop
    BY <2>1 DEF EnterLoop
  <2>a. CASE SetStarted \/ LeaveWorkLoop
    BY <2>a DEF SetStarted, LeaveWorkLoop
  <2>2. CASE FinishWork \/ Unpark
    BY <2>2 DEF FinishWork, Unpark
  <2>3. CASE StartWorking \/ StartReturns
    BY <2>3 DEF StartWorking, StartReturns
  <2>4. CASE StopWorking \/ StopReturns
    BY <2>4 DEF StopWorking, StopReturns
  <2>5. CASE Terminate \/ Joined
    BY <2>5 DEF Terminate, Joined
  <2>6. CASE UNCHANGED workerVars
    BY <2>6 DEF workerVars
  <2> QED
    BY <2>1, <2>a, <2>2, <2>3, <2>4, <2>5, <2>6, ZenonT(60) DEF WorkerNext
<1>3. WorkerInv => OwnerAwaited
  BY DEF WorkerInv
<1> QED
  BY <1>1, <1>2, <1>3, PTL DEF WorkerSpec

=============================================================================
