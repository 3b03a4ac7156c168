----------------------------- MODULE MCLeaderless -----------------------------
(* Instances of Leaderless for TLC. *)
EXTENDS Leaderless, TLC

\* Transactions are interchangeable: the protocol never compares two of them.
TxSymmetry == Permutations(Txs)

\* Bound: node 0 handles a request as soon as it arrives; the others take
\* theirs at any time
PromptNode == inbox[0] # {} => \E m \in inbox[0] : m \notin inbox'[0]
===============================================================================
