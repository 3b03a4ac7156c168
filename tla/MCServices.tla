------------------------------ MODULE MCServices ------------------------------
(***************************************************************************)
(* Instances, for TLC, of the parts of a node that stand beside its        *)
(* leaderless consensus and do not share state in this code: each has its  *)
(* own threads and locks and is reached through calls that its module has  *)
(* as inputs.  `part' says which of them a behaviour is about; the others  *)
(* rest in an initial state of theirs.                                     *)
(***************************************************************************)
EXTENDS TxPool, MCRaft, CachedStorage, BinLog, MemoryTable, Peers, Session, TxDAG, Rotating,
        PrepareTree, Worker, BlockChain, Topics, EventFilter, Governance

VARIABLE part

Parts == {"pool", "raft", "storage", "log", "table", "peers", "session", "dag", "rotating",
          "tree", "worker", "chain", "topics", "events", "governance"}

\* t1 and t3 share a nonce.
MCNonce == [t1 |-> "n1", t2 |-> "n2", t3 |-> "n1"]
MCCapacity == [t1 |-> 1, t2 |-> 2, t3 |-> 1]

\* Two nodes that dial each other; a's configuration lists a itself too.
MCStatics == [n \in Peerage |-> IF n = "a" THEN {"a", "b"} ELSE {"a"}]

\* Two forks of two blocks on the genesis block.
MCBlocks == {"g", "a1", "b1", "a2", "b2"}
MCParentHash == [g |-> "g", a1 |-> "g", b1 |-> "g", a2 |-> "a1", b2 |-> "b1"]
MCBlockNumber == [g |-> 0, a1 |-> 1, b1 |-> 1, a2 |-> 2, b2 |-> 2]
MCTxsOf == [g |-> 0, a1 |-> 1, b1 |-> 2, a2 |-> 1, b2 |-> 1]

\* The topic v needs to be verified, over c.
MCCertRoute == [v |-> "c"]

ServicesInit ==
    /\ part \in Parts
    /\ PoolInit
    /\ RaftInit
    /\ StorageInit
    /\ BinLogInit
    /\ PeersInit
    /\ SessionInit
    /\ RotatingInit
    /\ WorkerInit
    /\ ChainInit
    /\ TopicsInit
    /\ FilterInit
    /\ GovInit
    /\ TableInit
    /\ part # "table" => dbRows = <<>>
    /\ DagInit
    /\ part # "dag" => \A id \in Txs : criticals[id] = {}
    /\ TreeInit
    /\ part # "tree" => tree.size = 1 /\ tree.leaver = NoLeaver

\* The parts a behaviour is not about rest.
Rest ==
    /\ UNCHANGED part
    /\ part = "pool" \/ UNCHANGED poolVars
    /\ part = "raft" \/ UNCHANGED raftVars
    /\ part = "storage" \/ UNCHANGED storeVars
    /\ part = "log" \/ UNCHANGED logVars
    /\ part = "table" \/ UNCHANGED tableVars
    /\ part = "peers" \/ UNCHANGED peerVars
    /\ part = "session" \/ UNCHANGED sessionVars
    /\ part = "dag" \/ UNCHANGED dagVars
    /\ part = "rotating" \/ UNCHANGED rotatingVars
    /\ part = "tree" \/ UNCHANGED treeVars
    /\ part = "worker" \/ UNCHANGED workerVars
    /\ part = "chain" \/ UNCHANGED chainVars
    /\ part = "topics" \/ UNCHANGED topicsVars
    /\ part = "events" \/ UNCHANGED filterVars
    /\ part = "governance" \/ UNCHANGED govVars

ServicesNext ==
    /\ Rest
    /\ \/ part = "pool" /\ PoolNext
       \/ part = "raft" /\ RaftNext
       \/ part = "storage" /\ StorageNext
       \/ part = "log" /\ BinLogNext
       \/ part = "table" /\ TableNext
       \/ part = "peers" /\ PeersNext
       \/ part = "session" /\ SessionNext
       \/ part = "dag" /\ DagNext
       \/ part = "rotating" /\ RotatingNext
       \/ part = "tree" /\ TreeNext
       \/ part = "worker" /\ WorkerNext
       \/ part = "chain" /\ ChainNext
       \/ part = "topics" /\ TopicsNext
       \/ part = "events" /\ FilterNext
       \/ part = "governance" /\ GovNext

servicesVars == <<part, poolVars, raftVars, storeVars, logVars, tableVars, peerVars, sessionVars,
                  dagVars, rotatingVars, treeVars, workerVars, chainVars, topicsVars, filterVars,
                  govVars>>

ServicesSpec == ServicesInit /\ [][ServicesNext]_servicesVars

\* Every part is well typed.  In particular the unsigned m_term of Raft does not
\* pass zero, and no callback of a session is called more often than there are
\* causes to call it.
ServicesTypeOK ==
    /\ part = "pool" => PoolTypeOK
    /\ part = "raft" => RaftTypeOK
    /\ part = "storage" => StorageTypeOK
    /\ part = "log" => BinLogTypeOK
    /\ part = "peers" => PeersTypeOK
    /\ part = "session" => SessionTypeOK
    /\ part = "dag" => DagTypeOK
    /\ part = "rotating" => RotatingTypeOK
    /\ part = "chain" => ChainTypeOK
    /\ part = "topics" => TopicsTypeOK
    /\ part = "events" => FilterTypeOK
    /\ part = "governance" => GovTypeOK
===============================================================================
