----------------------------- MODULE MCIncoming -----------------------------
(* Model-checking instance of Incoming: one folder, two leaves, URLs on    *)
(* both sides of URL_LENGTH_MAX and of every branch of the query rewrite. *)
EXTENDS Incoming, TLC

CONSTANTS f, c1, c2

MCFolderGuids == {f}
MCLeafGuids == {c1, c2}
MCChildLists == {<<>>, <<c1>>, <<c2>>, <<c1, c2>>, <<c2, c1>>}

\* plain, tag query, folder query (fits, too long once rewritten),
\* folder query already excluding items, plain but too long
MCHrefs == {NoUrl, BadUrl,
            [pairs |-> {}, len |-> 2],
            [pairs |-> {"type7"}, len |-> 2],
            [pairs |-> {"folder"}, len |-> 2],
            [pairs |-> {"folder"}, len |-> 3],
            [pairs |-> {"folder", "excludeItems"}, len |-> 3],
            [pairs |-> {}, len |-> 4]}

MCTags == {NoTag, 0, 2, 3}

MCSymmetry == Permutations(MCLeafGuids)
=============================================================================
