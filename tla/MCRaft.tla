-------------------------------- MODULE MCRaft --------------------------------
(* Instances of Raft for TLC. *)
EXTENDS Raft

CONSTANT MaxWire

\* Bound: r1 and r2 campaign in term 1, r3 never
MCMaxTerm == [r1 |-> 1, r2 |-> 1, r3 |-> 0]

\* Bound: messages on their way at once
WireBound == Cardinality(wire) <= MaxWire
===============================================================================
