------------------------------ MODULE Rotating ------------------------------
(***************************************************************************)
(* The rotating consensus engine (rPBFT, RotatingPBFTEngine): out of the   *)
(* sealers of the group only a window of epoch_sealer_num takes part in    *)
(* consensus, and the window moves on by one sealer every epoch_block_num  *)
(* blocks.  The engine keeps the window as a set that it changes one       *)
(* sealer at a time, whenever resetConfig runs: when a block is reported   *)
(* and when a downloaded block is checked.  A node that restarts computes  *)
(* the set from the number of the chain instead.                           *)
(*                                                                         *)
(* One engine is modelled: what it must agree on with the others is a      *)
(* function of the block number.  The sealer list and the two system       *)
(* settings stay as the genesis block has them, since this program runs no *)
(* precompiled contract that could change them (Executive::callRC2).       *)
(***************************************************************************)
EXTENDS Naturals, FiniteSets

CONSTANTS
    SealersNum,     \* m_sealersNum: the size of the sealer list
    EpochSealers,   \* epoch_sealer_num of the system configuration
    RotatingInterval, \* epoch_block_num of the system configuration
    MaxRotated,     \* bound: the highest block
    MaxRotatedView  \* bound: the views a leader is selected for

ASSUME RotatingAssumption ==
    /\ SealersNum \in Nat \ {0}
    /\ EpochSealers \in Nat \ {0}
    /\ RotatingInterval \in Nat \ {0}
    /\ MaxRotated \in Nat
    /\ MaxRotatedView \in Nat

VARIABLES
    chain,      \* the number of the chain, which outlives the process
    engine,     \* the engine's fields
    reported,   \* FALSE while m_syncBlock asks the sealer to report a block
    checking    \* the height of the block sync has checked and not committed

rotatingVars == <<chain, engine, reported, checking>>

\* Indices into the sorted sealer list stand for the sealers.
Indices == 0 .. SealersNum - 1

NotChecking == 0

\* setEpochSealerNum: never more than there are sealers.
EpochSize == IF EpochSealers > SealersNum THEN SealersNum ELSE EpochSealers

\* The sealers of the round whose window starts at idx.
WindowFrom(idx) == { (idx + i) % SealersNum : i \in 0 .. EpochSize - 1 }

\* resetChosedConsensusNodes.  m_sealerListUpdated stays set for as long as
\* the chain has the number at which the list was first read.
ResetChosedConsensusNodes(e) ==
    IF e.listed # chain THEN e
    ELSE [e EXCEPT !.start = e.round % SealersNum,
                   !.chosed = WindowFrom(e.round % SealersNum)]

\* chooseConsensusNodes: once the round has lasted its blocks, its first
\* sealer leaves and the one behind the window comes in.  One call moves the
\* window by one sealer, however far the chain is ahead.
ChooseConsensusNodes(e) ==
    IF chain - e.round * RotatingInterval < RotatingInterval THEN e
    ELSE LET start == (e.round + 1) % SealersNum
             in == (start + EpochSize - 1) % SealersNum
         IN [e EXCEPT !.round = e.round + 1,
                      !.start = start,
                      !.chosed = (@ \ {e.round % SealersNum}) \cup {in}]

\* resetConfig, the sealer list and the settings being unchanged.
ResetConfig(e) == ChooseConsensusNodes(ResetChosedConsensusNodes(e))

\* The engine of a process that starts: the list and the settings are read
\* for the first time and the round is computed from the chain.
Started ==
    ResetConfig([highest |-> chain, listed |-> chain,
                 round |-> chain \div RotatingInterval,
                 start |-> 0, chosed |-> {}])

\* A group that has only its genesis block.
RotatingInit ==
    /\ chain = 0
    /\ engine = Started
    /\ reported = TRUE
    /\ checking = NotChecking

-----------------------------------------------------------------------------

\* The node commits the block its own consensus round has agreed on, the one
\* after the block reported last; onReady wakes the sealer.
CommitAgreed ==
    /\ chain < MaxRotated
    /\ engine.highest = chain
    /\ chain' = chain + 1
    /\ reported' = FALSE
    /\ UNCHANGED <<engine, checking>>

\* Mutant: a downloaded block is checked without resetConfig.
CheckBlockOnly ==
    /\ chain < MaxRotated
    /\ checking = NotChecking
    /\ checking' = chain + 1
    /\ UNCHANGED <<chain, engine, reported>>

\* checkBlock, which block sync calls for the next block it downloaded.
CheckBlock ==
    /\ chain < MaxRotated
    /\ checking = NotChecking
    /\ checking' = chain + 1
    /\ engine' = ResetConfig(engine)
    /\ UNCHANGED <<chain, reported>>

\* Block sync commits the block it checked; commitBlock refuses it when the
\* engine has committed that height in between.
CommitChecked ==
    /\ checking # NotChecking
    /\ checking' = NotChecking
    /\ \/ /\ checking = chain + 1
          /\ chain' = checking
          /\ reported' = FALSE
       \/ /\ checking <= chain
          /\ UNCHANGED <<chain, reported>>
    /\ UNCHANGED engine

\* reportNewBlock of the sealer thread reports the newest block only.
ReportNewest ==
    /\ ~reported
    /\ reported' = TRUE
    /\ engine' = IF chain = 0 \/ engine.highest < chain
                 THEN ResetConfig([engine EXCEPT !.highest = chain])
                 ELSE engine
    /\ UNCHANGED <<chain, checking>>

\* The process stops and starts again; initPBFTEnv reports the newest block.
RestartRotating ==
    /\ engine' = Started
    /\ reported' = TRUE
    /\ checking' = NotChecking
    /\ UNCHANGED chain

RotatingNext ==
    \/ CommitAgreed
    \/ CheckBlock
    \/ CommitChecked
    \/ ReportNewest
    \/ RestartRotating

RotatingSpec == RotatingInit /\ [][RotatingNext]_rotatingVars

\* selectLeader in view v.
SelectLeader(v) ==
    (engine.start + ((v + engine.highest) % EpochSize)) % SealersNum

-----------------------------------------------------------------------------

\* The engine's fields stay in their ranges: start indexes the sealer list,
\* which getNodeIDByIndex relies on, and no height is invented.
RotatingTypeOK ==
    /\ chain \in 0 .. MaxRotated
    /\ engine \in [highest: 0 .. MaxRotated, listed: 0 .. MaxRotated,
                   round: 0 .. MaxRotated, start: Indices,
                   chosed: SUBSET Indices]
    /\ reported \in BOOLEAN
    /\ checking \in 0 .. MaxRotated

\* A node that has reported the newest block has the window that belongs to
\* its number, whether it agreed on the blocks, downloaded a batch of them
\* while the sealer thread was busy, or restarted.  So nodes at one height
\* agree on who takes part.  It holds because checkBlock runs resetConfig
\* for each downloaded block; chooseConsensusNodes alone moves one step.
\* Also while the engine is behind its chain, and whatever the view, the sealer
\* that selectLeader picks is one of the window.
RotationCurrent ==
    /\ engine.highest = chain =>
          engine.chosed = WindowFrom((chain \div RotatingInterval) % SealersNum)
    /\ \A v \in 0 .. MaxRotatedView : SelectLeader(v) \in engine.chosed

=============================================================================
