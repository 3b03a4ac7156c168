--------------------------------- MODULE Raft ---------------------------------
(***************************************************************************)
(* RaftEngine, the consensus engine a group may run in place of PBFT: the   *)
(* election with its "first vote", the heartbeats that carry the leader's   *)
(* uncommitted block, and the commit that the engine's worker thread and    *)
(* the sealer thread (RaftSealer) share through m_commitCV.                 *)
(*                                                                         *)
(* Timers may expire at any moment a role looks at them.  A message on its  *)
(* way may arrive at any time or never.  m_leader and m_vote are left out:  *)
(* nothing reads them.  The group has at least two sealers.                 *)
(***************************************************************************)
EXTENDS Integers, Sequences, FiniteSets

CONSTANTS
  RaftNodes,     \* the sealers
  RaftMajority,  \* m_nodeNum - m_f, with m_f = (m_nodeNum - 1) / 2
  ClearBeats,    \* 2 * s_heartBeatIntervalRatio
  MaxTerm,       \* bound: the last term in which each node campaigns
  MaxRaftBlocks  \* bound: blocks sealed

ASSUME RaftAssumption ==
  /\ RaftMajority \in Nat \ {0, 1} /\ ClearBeats \in Nat \ {0}
  /\ MaxTerm \in [RaftNodes -> Nat] /\ MaxRaftBlocks \in Nat

VARIABLES
  raft,     \* per node: the members of its RaftEngine, its chain, its sealer
  wire,     \* messages on their way or in the receiver's m_msgQueue
  sealedBlocks,  \* number of blocks sealed so far: the next block's identity
  holders   \* history: the nodes that have held each block

raftVars == <<raft, wire, sealedBlocks, holders>>

NoBlock == [id |-> 0, number |-> 0, parent |-> 0]

Blocks == [id : 1 .. MaxRaftBlocks, number : Nat, parent : Nat]

NoVote == "none"

NoMember == <<>>

Flags == {"REJECT", "DISCARD", "LASTTERM_ERROR", "OUTDATED", "FIRST_VOTE", "GRANTED"}

\* The counters of VoteState; those of DISCARD and OUTDATED only ever count
\* towards the total and are one here
Counter(flag) == IF flag \in {"DISCARD", "OUTDATED"} THEN "other" ELSE flag

Counters == {Counter(flag) : flag \in Flags}

NoVotes == [c \in Counters |-> 0]

HeadId(s) == IF s.chain = <<>> THEN 0 ELSE s.chain[Len(s.chain)].id

RaftInit ==
  /\ raft = [n \in RaftNodes |->
       [state |-> "follower", term |-> 0, lastLeaderTerm |-> 0,
        firstVote |-> NoVote, beats |-> 0, votes |-> NoVotes,
        members |-> [m \in RaftNodes |-> NoMember],      \* m_memberBlock
        chain |-> <<>>, highest |-> 0, consensusNumber |-> 1,
        uncommitted |-> NoBlock, uncommittedNumber |-> 0,
        acks |-> [b \in 1 .. MaxRaftBlocks |-> {}],   \* m_commitFingerPrint
        sealer |-> "idle", sealing |-> NoBlock, commitReady |-> FALSE]]
  /\ wire = {}
  /\ sealedBlocks = 0
  /\ holders = [b \in 1 .. MaxRaftBlocks |-> {}]

-----------------------------------------------------------------------------
(* Roles.                                                                   *)

SwitchToFollower(s) ==
  LET waiting == s.sealer = "waiting"
  IN  [s EXCEPT !.state = "follower", !.beats = 0, !.votes = NoVotes,
                !.uncommitted = IF waiting THEN NoBlock ELSE @,
                !.uncommittedNumber = IF waiting THEN 0 ELSE @,
                !.commitReady = waiting \/ @]

\* Mutant: a new leader does not record its own term
LeadUnrecorded(s) == [s EXCEPT !.state = "leader", !.firstVote = NoVote, !.votes = NoVotes]

\* switchToLeader, then the entry of runAsLeader
SwitchToLeader(s) ==
  [s EXCEPT !.state = "leader", !.firstVote = NoVote, !.lastLeaderTerm = s.term, !.votes = NoVotes]

LastBlockNumber(s) == Len(s.chain) + (IF s.uncommitted # NoBlock THEN 1 ELSE 0)

\* generateVoteReq, sent to every sealer
VoteReqs(n, s) ==
  [type : {"voteReq"}, from : {n}, to : RaftNodes \ {n}, term : {s.term},
   lastLeaderTerm : {s.lastLeaderTerm}, lastBlock : {LastBlockNumber(s)}]

\* The entry of runAsCandidate: ask for votes, vote for itself
RunAsCandidate(n, s) ==
  [s EXCEPT !.votes = [NoVotes EXCEPT !["GRANTED"] = 1], !.firstVote = n]

\* switchToCandidate
Candidacy(n) ==
  LET s == [raft[n] EXCEPT !.state = "candidate", !.term = @ + 1]
  IN  /\ s.term <= MaxTerm[n]
      /\ raft' = [raft EXCEPT ![n] = RunAsCandidate(n, s)]
      /\ wire' = wire \union VoteReqs(n, s)
      /\ UNCHANGED <<sealedBlocks, holders>>

\* checkElectTimeout in a follower, checkHeartbeatTimeout in a leader
Timeout(n) ==
  /\ raft[n].state \in {"follower", "leader"}
  /\ Candidacy(n)

TotalVotes(s) == LET v == s.votes
                 IN  v["REJECT"] + v["LASTTERM_ERROR"] + v["FIRST_VOTE"] + v["GRANTED"] + v["other"]

\* checkElectTimeout in a candidate, with enough answers or without
CampaignAgain(n) ==
  /\ raft[n].state = "candidate"
  /\ TotalVotes(raft[n]) >= RaftMajority
  /\ Candidacy(n)

\* Mutant: the term is taken back past the one the node had
GiveUpTwice(n) ==
  /\ raft[n].state = "candidate"
  /\ TotalVotes(raft[n]) < RaftMajority
  /\ raft' = [raft EXCEPT ![n] = SwitchToFollower([raft[n] EXCEPT !.term = @ - 2])]
  /\ UNCHANGED <<wire, sealedBlocks, holders>>

GiveUp(n) ==
  /\ raft[n].state = "candidate"
  /\ TotalVotes(raft[n]) < RaftMajority
  /\ raft' = [raft EXCEPT ![n] = SwitchToFollower([raft[n] EXCEPT !.term = @ - 1])]
  /\ UNCHANGED <<wire, sealedBlocks, holders>>

\* clearFirstVoteCache
ClearFirstVote(s) ==
  IF s.firstVote = NoVote THEN s
  ELSE IF s.beats + 1 >= ClearBeats THEN [s EXCEPT !.beats = 0, !.firstVote = NoVote]
  ELSE [s EXCEPT !.beats = @ + 1]

-----------------------------------------------------------------------------
(* Votes.                                                                   *)

\* Mutant: the last leader's term is not compared
AnswerAnyLeader(s, r) ==
  CASE r.term = s.term /\ s.state # "leader" -> "DISCARD"
    [] r.term < s.term /\ s.state # "leader" -> "REJECT"
    [] OTHER -> IF r.lastBlock < LastBlockNumber(s) THEN "OUTDATED"
                ELSE IF s.firstVote = NoVote THEN "FIRST_VOTE" ELSE "GRANTED"

\* The answer to request r
Answer(s, r) ==
  CASE r.term = s.term /\ s.state # "leader" -> "DISCARD"
    [] r.term < s.term /\ s.state # "leader" -> "REJECT"
    [] r.lastLeaderTerm < s.lastLeaderTerm /\ (r.term > s.term \/ s.state = "leader") -> "LASTTERM_ERROR"
    [] OTHER -> IF r.lastBlock < LastBlockNumber(s) THEN "OUTDATED"
                ELSE IF s.firstVote = NoVote THEN "FIRST_VOTE" ELSE "GRANTED"

\* What handleVoteRequest, and the role when it returns true, make of s
Voted(s, r) ==
  LET granted == [s EXCEPT !.term = r.term, !.firstVote = r.from]
  IN  CASE Answer(s, r) = "GRANTED" ->
             IF s.state = "follower" THEN granted ELSE SwitchToFollower(granted)
        [] Answer(s, r) = "FIRST_VOTE" -> [s EXCEPT !.firstVote = r.from]
        [] OTHER -> s

\* A leader does not answer an old term with LEADER_REJECT: the code goes on to
\* the next check.
HandleVoteRequest(n, r) ==
  LET flag == Answer(raft[n], r)
  IN  /\ raft' = [raft EXCEPT ![n] = Voted(@, r)]
      /\ wire' = (wire \ {r}) \union
           {[type |-> "voteResp", from |-> n, to |-> r.from, flag |-> flag,
             term |-> IF flag = "GRANTED" THEN r.term ELSE raft[n].term]}
      /\ UNCHANGED <<sealedBlocks, holders>>

\* Counts above the majority are not told apart
Counted(s, flag) == [s EXCEPT !.votes[Counter(flag)] = IF @ < RaftMajority THEN @ + 1 ELSE @]

Tallied(s, flag) ==
  CASE s.votes[Counter(flag)] < RaftMajority -> s
    [] s.votes[Counter(flag)] >= RaftMajority /\ flag = "GRANTED" -> SwitchToLeader(s)
    [] s.votes[Counter(flag)] >= RaftMajority /\ flag = "FIRST_VOTE" ->
         SwitchToFollower([s EXCEPT !.term = @ - 1])
    [] s.votes[Counter(flag)] >= RaftMajority /\ flag \in {"REJECT", "LASTTERM_ERROR"} ->
         SwitchToFollower(s)
    [] OTHER -> s

\* handleVoteResponse, read by a candidate only.  An answer is not matched
\* with the campaign it belongs to.
HandleVoteResponse(n, r) ==
  /\ raft[n].state = "candidate"
  /\ r.term >= raft[n].term - 1
  /\ raft' = [raft EXCEPT ![n] = Tallied(Counted(@, r.flag), r.flag)]
  /\ wire' = wire \ {r}
  /\ UNCHANGED <<sealedBlocks, holders>>

-----------------------------------------------------------------------------
(* Heartbeats and commits.                                                  *)

\* m_commitFingerPrint[m_uncommittedBlock's hash] gains node m
Acked(s, m) ==
  IF s.uncommitted # NoBlock THEN [s EXCEPT !.acks[s.uncommitted.id] = @ \union {m}] ELSE s

\* broadcastHeartbeat with generateHeartbeat
Heartbeat(n) ==
  LET s == raft[n]
      b == s.uncommitted
  IN  /\ s.state = "leader"
      /\ raft' = [raft EXCEPT ![n] = ClearFirstVote(Acked(@, n))]
      /\ wire' = wire \union
           [type : {"heartbeat"}, from : {n}, to : RaftNodes \ {n}, term : {s.term}, block : {b},
            number : {IF b # NoBlock THEN s.consensusNumber ELSE 0}]
      /\ UNCHANGED <<sealedBlocks, holders>>

\* The rest of handleHeartbeat once the heartbeat is accepted
FollowHeartbeat(s, h) ==
  LET lead == h.term > s.lastLeaderTerm
      higher == h.term > s.term
      yield == s.state = "candidate" /\ (lead \/ h.term >= s.term)
      down == lead \/ higher \/ yield
      t == ClearFirstVote([s EXCEPT !.term = IF down THEN h.term ELSE @])
      u == [t EXCEPT !.lastLeaderTerm = h.term]
  IN  IF down /\ s.state # "follower" THEN SwitchToFollower(u) ELSE u

Stored(s, h) ==
  IF h.block # NoBlock
  THEN [s EXCEPT !.uncommitted = h.block, !.uncommittedNumber = h.number] ELSE s

HighestId(s) == IF s.highest = 0 THEN 0 ELSE s.chain[s.highest].id

Hold(b, n) == IF b # NoBlock THEN [holders EXCEPT ![b.id] = @ \union {n}] ELSE holders

HandleHeartbeat(n, h) ==
  LET s == raft[n]
  IN  /\ h.term >= s.term \/ h.term > s.lastLeaderTerm
      /\ h.block # NoBlock => h.number - 1 = s.highest
      /\ raft' = [raft EXCEPT ![n] = FollowHeartbeat(Stored(@, h), h)]
      /\ holders' = Hold(h.block, n)
      /\ wire' = (wire \ {h}) \union
           {[type |-> "heartbeatResp", from |-> n, to |-> h.from, term |-> s.term,
             height |-> s.highest, head |-> HighestId(s), block |-> h.block]}
      /\ UNCHANGED sealedBlocks

\* reportBlock: resetConfig, which it ends with, finds the same sealers
ReportBlock(s) ==
  LET old == s.uncommitted
  IN  [s EXCEPT !.highest = Len(s.chain),
                !.acks = IF old # NoBlock THEN [@ EXCEPT ![old.id] = {}] ELSE @,
                !.uncommitted = NoBlock, !.uncommittedNumber = 0,
                !.consensusNumber = IF Len(s.chain) >= @ THEN Len(s.chain) + 1 ELSE @]

\* checkBlockValid and commitBlock accept only the block after the chain's head
CanExecute(s, b) == b.number = Len(s.chain) + 1 /\ b.parent = HeadId(s)

CheckAndExecute(s, b) ==
  IF CanExecute(s, b)
  THEN [s EXCEPT !.chain = Append(@, b), !.uncommitted = NoBlock, !.uncommittedNumber = 0]
  ELSE s

\* The commit at the end of tryCommitUncommitedBlock: by the sealer when it
\* waits, else by this thread, whose reportBlock then reads the same
\* m_uncommittedBlock, empty once it has been saved
CommitNow(s) ==
  IF s.sealer = "waiting" THEN [s EXCEPT !.commitReady = TRUE]
  ELSE IF CanExecute(s, s.uncommitted) THEN CheckAndExecute(s, s.uncommitted)
  ELSE IF s.highest < s.uncommitted.number THEN ReportBlock(s) ELSE s

Enough(s) == Cardinality(s.acks[s.uncommitted.id]) >= RaftMajority

\* Mutant: every answer to a heartbeat counts as an ack
CommitAnyAck(s, r) ==
  IF s.uncommitted = NoBlock THEN s
  ELSE IF Enough(Acked(s, r.from)) THEN CommitNow(Acked(s, r.from)) ELSE Acked(s, r.from)

\* tryCommitUncommitedBlock.  The answer to an empty heartbeat carries no hash
\* either, and is taken for the group of one node that needs no ack.
TryCommit(s, r) ==
  IF s.uncommitted = NoBlock THEN s
  ELSE IF s.uncommittedNumber # s.consensusNumber
       THEN [s EXCEPT !.uncommitted = NoBlock, !.uncommittedNumber = 0]
  ELSE IF r.block = NoBlock THEN CommitNow(s)
  ELSE IF r.block # s.uncommitted THEN s
  ELSE IF Enough(Acked(s, r.from)) THEN CommitNow(Acked(s, r.from)) ELSE Acked(s, r.from)

\* RaftHeartBeatRespPacket in runAsLeaderImp
HandleHeartbeatResp(n, r) ==
  LET s == [raft[n] EXCEPT !.members[r.from] = <<r.height, r.head>>]
  IN  /\ raft[n].state = "leader" /\ r.term = raft[n].term
      /\ raft' = [raft EXCEPT ![n] = TryCommit(s, r)]
      /\ wire' = wire \ {r}
      /\ UNCHANGED <<sealedBlocks, holders>>

Receive(n) ==
  \E m \in wire :
    /\ m.to = n
    /\ \/ m.type = "voteReq" /\ HandleVoteRequest(n, m)
       \/ m.type = "voteResp" /\ HandleVoteResponse(n, m)
       \/ m.type = "heartbeat" /\ HandleHeartbeat(n, m)
       \/ m.type = "heartbeatResp" /\ HandleHeartbeatResp(n, m)

\* A message is lost, or popped by a role that ignores it
Ignore(n) ==
  /\ \E m \in wire : m.to = n /\ wire' = wire \ {m}
  /\ UNCHANGED <<raft, sealedBlocks, holders>>

-----------------------------------------------------------------------------
(* The sealer thread.                                                       *)

ShouldSeal(n) ==
  LET s == raft[n]
  IN  /\ s.state = "leader"
      /\ \A m \in RaftNodes : s.members[m] # NoMember => s.members[m][1] <= s.highest
      /\ 1 + Cardinality({m \in RaftNodes : s.members[m] = <<s.highest, HighestId(s)>>}) >= RaftMajority
      /\ s.uncommitted = NoBlock

\* doWork finds that it should seal and fills its block
Seal(n) ==
  /\ raft[n].sealer = "idle" /\ ShouldSeal(n)
  /\ sealedBlocks < MaxRaftBlocks
  /\ sealedBlocks' = sealedBlocks + 1
  /\ raft' = [raft EXCEPT ![n].sealer = "sealing",
                          ![n].sealing = [id |-> sealedBlocks + 1, number |-> Len(raft[n].chain) + 1,
                                          parent |-> HeadId(raft[n])]]
  /\ UNCHANGED <<wire, holders>>

\* handleBlock calls commit, which waits on m_commitCV
Commit(n) ==
  /\ raft[n].sealer = "sealing"
  /\ raft' = [raft EXCEPT ![n].sealer = "waiting", ![n].commitReady = FALSE,
                          ![n].uncommitted = raft[n].sealing,
                          ![n].uncommittedNumber = raft[n].consensusNumber]
  /\ holders' = Hold(raft[n].sealing, n)
  /\ UNCHANGED <<wire, sealedBlocks>>

\* commit goes on: it gives up if the block was cleared or the leadership lost
Wake(n) ==
  LET s == [raft[n] EXCEPT !.sealer = "idle", !.commitReady = FALSE, !.sealing = NoBlock]
  IN  /\ raft[n].sealer = "waiting" /\ raft[n].commitReady
      /\ raft' = [raft EXCEPT ![n] =
           IF s.uncommitted # NoBlock /\ s.state = "leader"
           THEN CheckAndExecute(s, raft[n].sealing) ELSE s]
      /\ UNCHANGED <<wire, sealedBlocks, holders>>

\* reportNewBlock, at the head of doWork
Report(n) ==
  /\ raft[n].sealer = "idle" /\ raft[n].highest < Len(raft[n].chain)
  /\ raft' = [raft EXCEPT ![n] = ReportBlock(@)]
  /\ UNCHANGED <<wire, sealedBlocks, holders>>

\* Block sync brings the next block of another node's chain.  The worker is
\* suspended meanwhile and then enters its role again.
Download(n, m) ==
  LET s == raft[n]
      k == Len(s.chain)
      t == [s EXCEPT !.chain = Append(@, raft[m].chain[k + 1])]
  IN  /\ k < Len(raft[m].chain) /\ CanExecute(s, raft[m].chain[k + 1])
      /\ raft' = [raft EXCEPT ![n] = CASE s.state = "leader" -> SwitchToLeader(t)
                                       [] s.state = "candidate" -> RunAsCandidate(n, t)
                                       [] OTHER -> t]
      /\ wire' = IF s.state = "candidate" THEN wire \union VoteReqs(n, t) ELSE wire
      /\ holders' = Hold(raft[m].chain[k + 1], n)
      /\ UNCHANGED sealedBlocks

RaftNext ==
  \E n \in RaftNodes :
    \/ Timeout(n) \/ CampaignAgain(n) \/ GiveUp(n) \/ Heartbeat(n) \/ Receive(n) \/ Ignore(n)
    \/ Seal(n) \/ Commit(n) \/ Wake(n) \/ Report(n)
    \/ \E m \in RaftNodes \ {n} : Download(n, m)

RaftSpec == RaftInit /\ [][RaftNext]_raftVars

-----------------------------------------------------------------------------
RaftState ==
  [state : {"follower", "candidate", "leader"}, term : Nat, lastLeaderTerm : Nat,
   firstVote : RaftNodes \union {NoVote}, beats : Nat, votes : [Counters -> Nat],
   members : [RaftNodes -> (Nat \X Nat) \union {NoMember}],
   chain : Seq(Blocks), highest : Nat, consensusNumber : Nat,
   uncommitted : Blocks \union {NoBlock}, uncommittedNumber : Nat,
   acks : [1 .. MaxRaftBlocks -> SUBSET RaftNodes],
   sealer : {"idle", "sealing", "waiting"}, sealing : Blocks \union {NoBlock},
   commitReady : BOOLEAN]

\* Every variable has its type; in particular m_term, a size_t that two handlers
\* decrement, stays a natural number.
RaftTypeOK ==
  /\ raft \in [RaftNodes -> RaftState]
  /\ sealedBlocks \in 0 .. MaxRaftBlocks
  /\ holders \in [1 .. MaxRaftBlocks -> SUBSET RaftNodes]

\* A node never counts a leader of a term above its own as the last it saw; a
\* candidate's term, and the one its requests carry, is above it, so that the
\* decrements of m_term in GiveUp and FIRST_VOTE never pass a leader's term;
\* a leader is the last leader it saw.
TermOrder ==
  /\ \A n \in RaftNodes :
       /\ raft[n].lastLeaderTerm <= raft[n].term
       /\ raft[n].state = "candidate" => raft[n].lastLeaderTerm < raft[n].term
       /\ raft[n].state = "leader" => raft[n].lastLeaderTerm = raft[n].term
  /\ \A m \in wire : m.type = "voteReq" => m.lastLeaderTerm < m.term

\* What a step may do to terms and granted votes
TermStep ==
  /\ \A m \in wire' \ wire :
       m.type = "voteResp" /\ m.flag = "GRANTED" => m.term > raft[m.from].term
  /\ \A n \in RaftNodes : raft[n].state = "leader" => raft'[n].term >= raft[n].term

\* handleVoteRequest goes on after LEADER_REJECT instead of returning; still no
\* node grants its vote for a term that is not above its own, and a leader's
\* term never falls.
GrantsRaiseTerm == [][TermStep]_raftVars

\* A node that a leader counts in m_commitFingerPrint for a block has stored
\* that block, whichever leader sent it and in whichever term it answered.
AcksTrue == \A n \in RaftNodes, b \in 1 .. MaxRaftBlocks : raft[n].acks[b] \subseteq holders[b]

\* "ensure that the block has been transfered to most of followers": a block is
\* in a chain only if as many nodes as a majority have held it.
MajorityHolds ==
  \A n \in RaftNodes : \A i \in DOMAIN raft[n].chain :
    Cardinality(holders[raft[n].chain[i].id]) >= RaftMajority
===============================================================================
