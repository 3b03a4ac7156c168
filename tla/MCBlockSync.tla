---------------------------- MODULE MCBlockSync ----------------------------
(* Instances of BlockSync for model checking. *)
EXTENDS BlockSync, TLC

CONSTANTS p1, p2

\* One peer is at the highest block, the other one below it.
MCInitHead == p1 :> MaxHeight @@ p2 :> MaxHeight - 1
=============================================================================
