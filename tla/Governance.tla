----------------------------- MODULE Governance -----------------------------
(***************************************************************************)
(* The committee of a chain (ChainGovernancePrecompiled) and the           *)
(* permissions on system tables (PermissionPrecompiled), for version 2.7   *)
(* and later.  Members vote on who joins and leaves, on their weights and  *)
(* on the threshold; a vote takes effect in the call that brings the       *)
(* weight of its votes above the threshold.                                *)
(*                                                                         *)
(* The rows of the access table are the members and the permits; those of  *)
(* the committee table are the weights, the threshold and the votes.  A    *)
(* member may write the access table from the block after the one that     *)
(* admitted it: the table's authorized addresses are those of the members  *)
(* at the beginning of the block.                                          *)
(***************************************************************************)
EXTENDS Naturals, FiniteSets, Folds

CONSTANTS
    Accounts,         \* the accounts that send and are subject of the calls
    MemberWeights,    \* the weights that are voted on; a new member has 1
    Thresholds,       \* the thresholds that are voted on, in percent
    PermitInputs,     \* the tables that PermissionPrecompiled is called for
    Users,            \* the accounts that weights and operators are about
    VoteValidLimit,   \* c_voteValidLimit
    MaxVotes,         \* bound: the undecided votes
    MaxGovBlock       \* bound: the last block

\* SYS_CONFIG, SYS_CONSENSUS, SYS_TABLES and SYS_CNS.
PermitTables == {"config", "consensus", "tables", "cns"}

ASSUME GovernanceAssumption ==
    /\ Users \subseteq Accounts
    /\ PermitInputs \subseteq PermitTables
    /\ MemberWeights \subseteq Nat \ {0}
    /\ Thresholds \subseteq 0 .. 99
    /\ VoteValidLimit \in Nat \ {0}

VARIABLES
    govNumber,    \* blockInfo().number, the block before the one executed
    authorized,   \* the authorized addresses of the access table, in this block
    members,      \* the addresses in the access table for the table itself
    permits,      \* those for the other system tables
    weight,       \* the values of the rows <member>_weight
    threshold,    \* the row auth_threshold, in percent
    votes,        \* the votes, by key
    said          \* what each account last voted on a key, until decided or too old

govVars == <<govNumber, authorized, members, permits, weight, threshold, votes, said>>

\* The keys of votes: on membership, on a weight, on the threshold.
MemberKey(u) == <<"member", u>>
WeightKey(u) == <<"update_weight", u>>
ThresholdKey == <<"update_auth_threshold">>

GovInit ==
    /\ govNumber = 0
    /\ authorized = {}
    /\ members = {}
    /\ permits = [t \in PermitTables |-> {}]
    /\ weight = [u \in Accounts |-> {}]
    /\ threshold = 50
    /\ votes = {}
    /\ said = {}

\* checkAuthority of the access table.
MayWrite(o) == authorized = {} \/ o \in authorized

\* isOperator.
IsOperator(u) == u \in permits["tables"] /\ u \in permits["cns"]

\* hasOperatorPermissions.
HasOperatorPermissions(u) == u \in permits["tables"] \/ u \in permits["cns"]

\* grantTablePermission and revokeTablePermission for several tables.
Permitted(o, u, tables) ==
    [t \in PermitTables |-> IF t \in tables /\ MayWrite(o) THEN permits[t] \cup {u}
                            ELSE permits[t]]

Revoked(o, u, tables) ==
    [t \in PermitTables |-> IF t \in tables /\ MayWrite(o) THEN permits[t] \ {u}
                            ELSE permits[t]]

-----------------------------------------------------------------------------
(* verifyAndRecord *)

\* recordVote replaces an earlier vote of the origin, and drops expired ones.
RecordVote(o, key, value) ==
    LET vote == [key |-> key, value |-> value, origin |-> o,
                 limit |-> govNumber + VoteValidLimit]
        kept == { v \in votes : ~(v.key = key /\ v.origin = o) }
    IN  { v \in kept \cup {vote} : v.key = key => v.limit > govNumber }

\* The first row of a member's weight.
WeightOf(m) == CHOOSE w \in weight[m] : TRUE

WeightOfAll(ms) ==
    MapThenFoldSet(+, 0, WeightOf, LAMBDA s : CHOOSE m \in s : TRUE, ms)

\* validate: the weight of those who voted so, over that of all members.
Validate(key, value, recorded) ==
    LET counted == { v.origin : v \in { w \in recorded :
                        w.key = key /\ w.value = value /\ w.limit >= govNumber + 1 } }
    IN  100 * WeightOfAll(counted \cap members) > threshold * WeightOfAll(members)

\* Mutant: the votes are left.
KeepUsedVotes(key, value, recorded) == recorded

\* deleteUsedVotes.
DeleteUsedVotes(key, value, recorded) ==
    { v \in recorded : ~(v.key = key /\ v.value = value) }

\* A vote of o that is not decisive, and one that is.
Undecided(o, key, value) ==
    /\ o \in members
    /\ ~Validate(key, value, RecordVote(o, key, value))
    /\ votes' = RecordVote(o, key, value)
    /\ said' = { s \in said : ~(s.key = key /\ s.origin = o) }
                 \cup {[key |-> key, value |-> value, origin |-> o, at |-> govNumber]}
    /\ Cardinality(said') <= MaxVotes
    /\ UNCHANGED <<govNumber, authorized, members, permits, weight, threshold>>

Decided(o, key, value) ==
    /\ o \in members
    /\ Validate(key, value, RecordVote(o, key, value))
    /\ votes' = DeleteUsedVotes(key, value, RecordVote(o, key, value))
    /\ said' = { s \in said : ~(s.key = key /\ (s.origin = o \/ s.value = value)) }
    /\ UNCHANGED <<govNumber, authorized>>

-----------------------------------------------------------------------------
(* ChainGovernancePrecompiled::call *)

\* grantCommitteeMember with no member yet.  The weight is written even if
\* the origin may not write the access table.
GrantFirstMember(o, u) ==
    /\ ~HasOperatorPermissions(u)
    /\ members = {}
    /\ members' = IF MayWrite(o) THEN {u} ELSE {}
    /\ permits' = Permitted(o, u, {"config", "consensus"})
    /\ weight' = [weight EXCEPT ![u] = @ \cup {1}]
    /\ UNCHANGED <<govNumber, authorized, threshold, votes, said>>

\* grantCommitteeMember otherwise, a vote.
GrantCommitteeMember(o, u) ==
    /\ ~HasOperatorPermissions(u)
    /\ u \notin members
    /\ \/ Undecided(o, MemberKey(u), "grant")
       \/ /\ Decided(o, MemberKey(u), "grant")
          /\ members' = members \cup {u}
          /\ permits' = Permitted(o, u, {"config", "consensus"})
          /\ weight' = [weight EXCEPT ![u] = @ \cup {1}]
          /\ UNCHANGED threshold

\* revokeCommitteeMember.
RevokeCommitteeMember(o, u) ==
    /\ u \in members
    /\ \/ Undecided(o, MemberKey(u), "revoke")
       \/ /\ Decided(o, MemberKey(u), "revoke")
          /\ members' = members \ {u}
          /\ permits' = Revoked(o, u, {"config", "consensus"})
          /\ weight' = [weight EXCEPT ![u] = {}]
          /\ UNCHANGED threshold

\* updateCommitteeMemberWeight.
UpdateCommitteeMemberWeight(o, u, w) ==
    /\ u \in members
    /\ w \notin weight[u]
    /\ \/ Undecided(o, WeightKey(u), w)
       \/ /\ Decided(o, WeightKey(u), w)
          /\ weight' = [weight EXCEPT ![u] = {w}]
          /\ UNCHANGED <<members, permits, threshold>>

\* updateThreshold.
UpdateThreshold(o, t) ==
    /\ t # threshold
    /\ \/ Undecided(o, ThresholdKey, t)
       \/ /\ Decided(o, ThresholdKey, t)
          /\ threshold' = t
          /\ UNCHANGED <<members, permits, weight>>

\* grantOperator; without authority it throws and is undone.
GrantOperator(o, u) ==
    /\ o \in members
    /\ u \notin members
    /\ ~IsOperator(u)
    /\ MayWrite(o)
    /\ permits' = Permitted(o, u, {"tables", "cns"})
    /\ UNCHANGED <<govNumber, authorized, members, weight, threshold, votes, said>>

\* revokeOperator.
RevokeOperator(o, u) ==
    /\ o \in members
    /\ u \in permits["tables"]
    /\ permits' = Revoked(o, u, {"tables", "cns"})
    /\ UNCHANGED <<govNumber, authorized, members, weight, threshold, votes, said>>

-----------------------------------------------------------------------------
(* PermissionPrecompiled::call *)

\* insert.
InsertPermission(o, t, u) ==
    /\ ~(u \in members /\ t \in {"tables", "cns"})
    /\ u \notin permits[t]
    /\ MayWrite(o)
    /\ permits' = [permits EXCEPT ![t] = @ \cup {u}]
    /\ UNCHANGED <<govNumber, authorized, members, weight, threshold, votes, said>>

\* remove; a member keeps the permissions of the committee.
RemovePermission(o, t, u) ==
    /\ ~(u \in members /\ t \in {"config", "consensus"})
    /\ u \in permits[t]
    /\ MayWrite(o)
    /\ permits' = [permits EXCEPT ![t] = @ \ {u}]
    /\ UNCHANGED <<govNumber, authorized, members, weight, threshold, votes, said>>

\* The next block is executed with the access table opened anew.
NextGovBlock ==
    /\ govNumber < MaxGovBlock
    /\ govNumber' = govNumber + 1
    /\ authorized' = members
    /\ said' = { s \in said : govNumber' < s.at + VoteValidLimit }
    /\ UNCHANGED <<members, permits, weight, threshold, votes>>

GovNext ==
    \/ \E o, u \in Accounts : GrantFirstMember(o, u)
    \/ \E o, u \in Accounts : GrantCommitteeMember(o, u)
    \/ \E o, u \in Accounts : RevokeCommitteeMember(o, u)
    \/ \E o \in Accounts, u \in Users, w \in MemberWeights : UpdateCommitteeMemberWeight(o, u, w)
    \/ \E o \in Accounts, t \in Thresholds : UpdateThreshold(o, t)
    \/ \E o \in Accounts, u \in Users : GrantOperator(o, u)
    \/ \E o \in Accounts, u \in Users : RevokeOperator(o, u)
    \/ \E o \in Accounts, u \in Users, t \in PermitInputs : InsertPermission(o, t, u)
    \/ \E o \in Accounts, u \in Users, t \in PermitInputs : RemovePermission(o, t, u)
    \/ NextGovBlock

GovSpec == GovInit /\ [][GovNext]_govVars

-----------------------------------------------------------------------------

\* The tables hold accounts and values that were voted on.
GovTypeOK ==
    /\ govNumber \in 0 .. MaxGovBlock
    /\ authorized \cup members \subseteq Accounts
    /\ permits \in [PermitTables -> SUBSET Accounts]
    /\ weight \in [Accounts -> SUBSET (MemberWeights \cup {1})]
    /\ threshold \in Thresholds \cup {50}

\* Every member has one weight, which validate reads without a test; the
\* total is not zero as long as there is a member; nobody is both a member
\* and, even in part, an operator, whichever of the two contracts granted
\* it; and nobody has two votes on one matter.
CommitteeSound ==
    /\ \A m \in members : \E w \in MemberWeights \cup {1} : weight[m] = {w}
    /\ members \cap (permits["tables"] \cup permits["cns"]) = {}
    /\ \A v, w \in votes : v.key = w.key /\ v.origin = w.origin => v = w

\* Those members who last said so, with one more whose vote decides, outweigh
\* the threshold.
Backed(key, value) ==
    LET fresh == { s.origin : s \in { r \in said :
                       r.key = key /\ r.value = value } }
    IN  \E o \in members :
           100 * WeightOfAll((fresh \cup {o}) \cap members) > threshold * WeightOfAll(members)

\* No member joins or leaves, no weight and no threshold changes unless members
\* who outweigh the threshold said so, each within the limit of blocks and
\* after the last decision of this kind: a vote is not used twice, not after
\* its member changed its mind and not after its member has left.
DecisionsBacked ==
    [][members # {} =>
         /\ \A u \in members' \ members : Backed(MemberKey(u), "grant")
         /\ \A u \in members \ members' : Backed(MemberKey(u), "revoke")
         /\ \A u \in members \cap members' :
               weight'[u] # weight[u] => \A w \in weight'[u] : Backed(WeightKey(u), w)
         /\ threshold' # threshold => Backed(ThresholdKey, threshold')]_govVars
=============================================================================
