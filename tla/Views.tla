-------------------------------- MODULE Views --------------------------------
(***************************************************************************)
(* What the view change of PBFTEngine promises to the parts of a node that *)
(* read view(): a node moves to a later view of its block only when a      *)
(* quorum has asked for that view at that block or a higher one, and falls *)
(* back to view 0 only with a new block or a restart.                      *)
(***************************************************************************)
EXTENDS Naturals

CONSTANTS
  Nodes,     \* the sealers
  Quorums,   \* the sets of sealers whose requests change a view
  Hashes     \* block hashes

VARIABLES
  view,    \* per node: its view
  block,   \* per node: number and hash of the block its view belongs to
  asked,   \* the view change requests made so far
  starts   \* per node: how often its process started again

aVars == <<view, block, asked, starts>>

Askers(A, v, h) == {i \in Nodes : \E r \in A : r.idx = i /\ r.view = v /\ r.height >= h}

Init ==
  /\ view = [n \in Nodes |-> 0]
  /\ \E g \in Hashes : block = [n \in Nodes |-> [number |-> 0, hash |-> g]]
  /\ asked = {}
  /\ starts = [n \in Nodes |-> 0]

\* Requests are made, and a node may enter a view that a quorum has asked for
Change(n) ==
  /\ asked \subseteq asked'
  /\ \/ UNCHANGED view
     \/ /\ view'[n] > view[n]
        /\ view' = [view EXCEPT ![n] = view'[n]]
        /\ Askers(asked', view'[n], block[n].number) \in Quorums
  /\ UNCHANGED <<block, starts>>

NewBlock(n) ==
  /\ block'[n].number > block[n].number
  /\ block' = [block EXCEPT ![n] = block'[n]]
  /\ view' = [view EXCEPT ![n] = 0]
  /\ UNCHANGED <<asked, starts>>

\* The process starts again from its chain, which may be ahead of block[n]
Restart(n) ==
  /\ block'[n].number >= block[n].number
  /\ block' = [block EXCEPT ![n] = block'[n]]
  /\ view' = [view EXCEPT ![n] = 0]
  /\ starts' = [starts EXCEPT ![n] = @ + 1]
  /\ UNCHANGED asked

Next == \E n \in Nodes : Change(n) \/ NewBlock(n) \/ Restart(n)

Spec == Init /\ [][Next]_aVars
===============================================================================
