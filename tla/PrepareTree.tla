----------------------------- MODULE PrepareTree -----------------------------
(***************************************************************************)
(* Broadcast of a prepare along a tree (TreeTopology) in the rotating      *)
(* engine.  The chosen sealers, rotated so that the sender comes first,    *)
(* are numbered level by level as a tree of width m_treeWidth; the sender  *)
(* sends to its children and every receiver to its own.  A node that is in *)
(* the router's list and no longer in m_chosedConsensusNodes is skipped,   *)
(* and its children are served in its place.                               *)
(*                                                                         *)
(* The two differ while the window moves: chooseConsensusNodes changes the *)
(* set at once, updateConsensusInfo the router's list later, and each node *)
(* does so in its own time.  Lists and links stay as they are for the one  *)
(* prepare whose way is followed.                                          *)
(***************************************************************************)
EXTENDS Integers, FiniteSets

CONSTANTS
    TreeSizes,      \* the sizes of the router's list
    TreeWidths      \* the values of m_treeWidth

VARIABLES
    tree,           \* the list's size, the width, the sender, what differs
    handled,        \* the nodes that have sent or forwarded the prepare
    onWay,          \* the prepares on their way, as pairs
    copies          \* history: how many copies were sent to each node

treeVars == <<tree, handled, onWay, copies>>

Places == 0 .. tree.size - 1

NoLeaver == -1

\* `leaver' is the sealer that rotates out, `moved' the nodes that have taken
\* it out of their set, `cut' a pair of nodes without a session.
TreeInit ==
    /\ tree \in UNION { [size : {s}, width : TreeWidths, sender : 0 .. s - 1,
                         leaver : {NoLeaver} \cup 0 .. s - 1, moved : SUBSET (0 .. s - 1),
                         cut : {c \in SUBSET (0 .. s - 1) : Cardinality(c) \in {0, 2}}]
                        : s \in TreeSizes }
    /\ tree.leaver # tree.sender
    /\ tree.leaver = NoLeaver => tree.moved = {}
    /\ handled = {}
    /\ onWay = {}
    /\ copies = [n \in Places |-> 0]

\* m_chosedConsensusNodes of a node.
ChosedNodes(n) == IF n \in tree.moved THEN Places \ {tree.leaver} ELSE Places

\* getSelectedNodeIndex and getNodeIndex: from the place in the tree to the
\* index in the list and back.
SelectedNode(place) == (place + tree.sender) % tree.size

PlaceOf(n) ==
    IF n >= tree.sender THEN n - tree.sender
    ELSE (n + tree.size - (tree.sender % tree.size)) % tree.size

\* The places of the children, up to m_endIndex.
ChildPlaces(place) ==
    {p \in place * tree.width + 1 .. place * tree.width + tree.width : p <= tree.size - 1}

\* recursiveSelectChildNodes.
RECURSIVE RecursiveSelectChildNodes(_, _)
RecursiveSelectChildNodes(place, peers) ==
    UNION { IF SelectedNode(p) \in peers THEN {SelectedNode(p)}
            ELSE RecursiveSelectChildNodes(p, peers) : p \in ChildPlaces(place) }

\* selectNodesByNodeID, for a node of the list.
SelectNodes(n) == RecursiveSelectChildNodes(PlaceOf(n), ChosedNodes(n))

\* selectParentNodes: the nearest ancestor that is among the peers.
RECURSIVE AncestorAmong(_, _)
AncestorAmong(place, peers) ==
    LET parent == (place - 1) \div tree.width
    IN  IF place <= 0 THEN {}
        ELSE IF SelectedNode(parent) \in peers THEN {SelectedNode(parent)}
        ELSE AncestorAmong(parent, peers)

\* selectParentByNodeID.
SelectParent(n) == AncestorAmong(PlaceOf(n), ChosedNodes(n))

Connected(n, m) == {n, m} # tree.cut

\* Mutant: the loop ends at the first node without a session.
SendUntilCut(n, from) ==
    LET targets == {m \in SelectNodes(n) \ {from} : \A k \in SelectNodes(n) : Connected(n, k)}
    IN  /\ onWay' = (onWay \ {<<from, n>>}) \cup {<<n, m>> : m \in targets}
        /\ copies' = [m \in Places |-> IF m \in targets THEN copies[m] + 1 ELSE copies[m]]
        /\ handled' = handled \cup {n}
        /\ UNCHANGED tree

\* To every selected node it has a session with and did not get it from.
SendTo(n, from) ==
    LET targets == {m \in SelectNodes(n) \ {from} : Connected(n, m)}
    IN  /\ onWay' = (onWay \ {<<from, n>>}) \cup {<<n, m>> : m \in targets}
        /\ copies' = [m \in Places |-> IF m \in targets THEN copies[m] + 1 ELSE copies[m]]
        /\ handled' = handled \cup {n}
        /\ UNCHANGED tree

\* sendPrepareMsgFromLeader.
SendPrepareMsgFromLeader ==
    /\ tree.sender \notin handled
    /\ SendTo(tree.sender, tree.sender)

\* forwardReceivedPrepareMsgByTree.
ForwardReceivedPrepareMsgByTree ==
    \E m \in onWay : SendTo(m[2], m[1])

TreeNext ==
    \/ SendPrepareMsgFromLeader
    \/ ForwardReceivedPrepareMsgByTree

TreeSpec == TreeInit /\ [][TreeNext]_treeVars

-----------------------------------------------------------------------------
\* The nodes on the way from the sender to a node, both included, with the
\* list as it is.
RECURSIVE PathPlaces(_)
PathPlaces(place) == {place} \cup IF place = 0 THEN {} ELSE PathPlaces((place - 1) \div tree.width)

\* Once no prepare is on its way, every node has it except the sealer that
\* rotates out and the nodes below a missing session; also while some nodes
\* still count that sealer in and others do not.  Nobody is sent it twice, and
\* the sender never gets its own back.  A node asks for a prepare it missed
\* (selectParent) at the node that would have sent it (selectNodes), if both
\* have the same set of chosen nodes.
TreeDelivers ==
    /\ \A n \in Places : copies[n] <= IF n = tree.sender THEN 0 ELSE 1
    /\ onWay = {} /\ handled # {} =>
          \A n \in Places \ {tree.leaver} :
              tree.cut = {} \/ ~(tree.cut \subseteq {SelectedNode(p) : p \in PathPlaces(PlaceOf(n))})
                  => n \in handled
    /\ \A n, m \in Places :
          ChosedNodes(n) = ChosedNodes(m) /\ n # tree.leaver /\ m # tree.leaver
              => (m \in SelectNodes(n) <=> n \in SelectParent(m))
=============================================================================
