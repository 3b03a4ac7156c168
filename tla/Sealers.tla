------------------------------- MODULE Sealers -------------------------------
(***************************************************************************)
(* The sealers of a group and the sizes ConsensusEngineBase derives from   *)
(* their number.                                                           *)
(***************************************************************************)
EXTENDS Integers, FiniteSets

CONSTANT N   \* m_nodeNum: number of sealers; node indices are 0 .. N-1

ASSUME NAssumption == N \in Nat \ {0}

Nodes == 0 .. N - 1

\* m_f
F == (N - 1) \div 3

\* Mutant: the quorum is one vote short
QuorumOneShort == N - F - 1

MinValidNodes == N - F

TwoThirds(S) == 3 * Cardinality(S) > 2 * N
===============================================================================
