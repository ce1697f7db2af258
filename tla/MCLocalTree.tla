---------------------------- MODULE MCLocalTree ----------------------------
(* Model-checking instance of LocalTree: three new guids, a flat tree and *)
(* a tree with a nested folder.                                            *)
EXTENDS LocalTree, TLC

CONSTANTS n1, n2, n3

MCNodes == {n1, n2, n3}

Leaf(g) == [guid |-> g, kind |-> "Bookmark", children |-> <<>>]

MCTreeShapes ==
    { <<Leaf(n1), Leaf(n2)>>,
      <<Leaf(n1), [guid |-> n2, kind |-> "Folder", children |-> <<Leaf(n3)>>]>> }
=============================================================================
