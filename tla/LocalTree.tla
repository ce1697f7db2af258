----------------------------- MODULE LocalTree -----------------------------
(***************************************************************************)
(* The local bookmark tree as storage/bookmarks.rs builds it:              *)
(* create_bookmark_roots, insert_bookmark with its "position dance", and   *)
(* insert_tree, which flattens a tree with add_subtree_infos and inserts   *)
(* the items one insert_bookmark at a time.                                *)
(*                                                                         *)
(* A row is keyed by its guid; a row whose guid column was left unbound    *)
(* (NULL) cannot be found by get_raw_bookmark.                             *)
(***************************************************************************)
EXTENDS Naturals, Sequences, FiniteSets, TLC

CONSTANTS
    Nodes,        \* guids of items the API may insert
    TreeShapes,   \* trees insert_tree may be handed (children sequences)
    MaxIndex,     \* largest index of BookmarkPosition::Specific
    AppendPos,       \* BookmarkPosition::Append
    NoRow

\* create_bookmark_roots: the root and the four user roots below it.
UserRootPositions == ("menu" :> 0) @@ ("toolbar" :> 1) @@ ("unfiled" :> 2) @@ ("mobile" :> 3)
UserRoots == DOMAIN UserRootPositions
Guids == {"root"} \cup UserRoots \cup Nodes

Kinds == {"Bookmark", "Separator", "Folder"}
Positions == {AppendPos} \cup (0..MaxIndex)

VARIABLES
    rows,        \* moz_bookmarks: guid -> [parent, position, kind, hasGuid]
    queue,       \* insert_infos still to be inserted by insert_tree
    treeStatus,  \* "none" | "running" | "ok" | "failed"
    treeNodes,   \* guids of the tree insert_tree was last handed (history)
    treeParent   \* the parent guid insert_tree was last handed (history)

vars == <<rows, queue, treeStatus, treeNodes, treeParent>>

Row == [parent: Guids \cup {NoRow}, position: Nat, kind: Kinds, hasGuid: BOOLEAN]
Insertable == [guid: Guids, parent: Guids, position: Positions, kind: Kinds]

TypeOK ==
    /\ rows \in [Guids -> Row \cup {NoRow}]
    /\ queue \in Seq(Insertable)
    /\ treeStatus \in {"none", "running", "ok", "failed"}
    /\ treeNodes \subseteq Nodes
    /\ treeParent \in Guids \cup {NoRow}

RootRow(parent, pos) == [parent |-> parent, position |-> pos, kind |-> "Folder", hasGuid |-> TRUE]

Init ==
    /\ rows = [g \in Guids |->
                 IF g = "root" THEN RootRow(NoRow, 0)
                 ELSE IF g \in UserRoots THEN RootRow("root", UserRootPositions[g])
                 ELSE NoRow]
    /\ queue = <<>>
    /\ treeStatus = "none"
    /\ treeNodes = {}
    /\ treeParent = NoRow

-----------------------------------------------------------------------------
(* insert_bookmark                                                         *)

\* get_raw_bookmark: the row whose guid column equals g.
Found(r, g) == r[g] # NoRow /\ r[g].hasGuid

\* _childCount of get_raw_bookmark.
ChildCount(r, p) == Cardinality({g \in Guids : r[g] # NoRow /\ r[g].parent = p})

\* Mutant: the Root-parent check is missing.
InsertRejectedNoRootCheck(r, ins) ==
    \/ ~Found(r, ins.parent)
    \/ r[ins.parent].kind # "Folder"

\* The early returns: the root as parent, an unknown parent, a non-folder.
InsertRejected(r, ins) ==
    \/ ins.parent = "root"
    \/ ~Found(r, ins.parent)
    \/ r[ins.parent].kind # "Folder"

\* The "position dance": Specific(index) takes min(index, child_count) and
\* bumps the positions of the rows under parent.parent_id at or after it;
\* Append takes child_count.
InsertIndex(r, ins) ==
    IF ins.position = AppendPos THEN ChildCount(r, ins.parent)
    ELSE IF ins.position < ChildCount(r, ins.parent) THEN ins.position
    ELSE ChildCount(r, ins.parent)

Shifted(r, ins) ==
    IF ins.position = AppendPos THEN r
    ELSE LET gp == r[ins.parent].parent
             idx == InsertIndex(r, ins)
         IN [g \in Guids |->
               IF r[g] # NoRow /\ r[g].parent = gp /\ r[g].position >= idx
               THEN [r[g] EXCEPT !.position = @ + 1]
               ELSE r[g]]

\* The INSERT: bookmarks bind :guid; separators and folders leave it (and
\* the sync columns) unbound, so their guid column is NULL.
InsertRow(r, ins) ==
    [Shifted(r, ins) EXCEPT ![ins.guid] =
        [parent |-> ins.parent, position |-> InsertIndex(r, ins),
         kind |-> ins.kind, hasGuid |-> ins.kind = "Bookmark"]]

\* The rows after insert_bookmark, or r itself when it returns an error.
InsertBookmarkResult(r, ins) ==
    IF InsertRejected(r, ins) THEN r ELSE InsertRow(r, ins)

\* A direct call of the bookmarks API with a new guid.
InsertBookmark(ins) ==
    /\ treeStatus # "running"
    /\ rows[ins.guid] = NoRow
    /\ rows' = InsertBookmarkResult(rows, ins)
    /\ UNCHANGED <<queue, treeStatus, treeNodes, treeParent>>

-----------------------------------------------------------------------------
(* insert_tree                                                             *)

\* add_subtree_infos: every child becomes an Append insertable under the
\* given parent; a folder's own subtree is pushed before the folder.
RECURSIVE AddSubtreeInfos(_, _)
AddSubtreeInfos(parent, children) ==
    IF children = <<>> THEN <<>>
    ELSE LET c    == Head(children)
             self == <<[guid |-> c.guid, parent |-> parent,
                        position |-> AppendPos, kind |-> c.kind]>>
             sub  == IF c.kind = "Folder" THEN AddSubtreeInfos(c.guid, c.children) ELSE <<>>
         IN  sub \o self \o AddSubtreeInfos(parent, Tail(children))

RECURSIVE TreeGuids(_)
TreeGuids(children) ==
    IF children = <<>> THEN {}
    ELSE {Head(children).guid} \cup TreeGuids(Head(children).children)
           \cup TreeGuids(Tail(children))

StartInsertTree(p, tree) ==
    /\ treeStatus # "running"
    /\ \A g \in TreeGuids(tree) : rows[g] = NoRow
    /\ queue' = AddSubtreeInfos(p, tree)
    /\ treeNodes' = TreeGuids(tree)
    /\ treeStatus' = "running"
    /\ treeParent' = p
    /\ UNCHANGED rows

\* One iteration of the loop; the first error (?) ends insert_tree, and
\* the items inserted before it stay (there is no transaction).
InsertTreeStep ==
    /\ treeStatus = "running"
    /\ queue # <<>>
    /\ LET ins == Head(queue) IN
        IF InsertRejected(rows, ins)
        THEN /\ queue' = <<>>
             /\ treeStatus' = "failed"
             /\ UNCHANGED rows
        ELSE /\ rows' = InsertRow(rows, ins)
             /\ queue' = Tail(queue)
             /\ treeStatus' = IF Tail(queue) = <<>> THEN "ok" ELSE "running"
    /\ UNCHANGED <<treeNodes, treeParent>>

Next ==
    \/ \E g \in Nodes, p \in Guids, pos \in Positions, k \in Kinds :
         InsertBookmark([guid |-> g, parent |-> p, position |-> pos, kind |-> k])
    \/ \E p \in Guids, tree \in TreeShapes : StartInsertTree(p, tree)
    \/ InsertTreeStep

Spec == Init /\ [][Next]_vars

-----------------------------------------------------------------------------
(* Properties.                                                             *)

\* The tree stays well formed (what fetch_local_tree's walk from the root
\* relies on): only the four user roots sit under the root, and every other
\* item sits in a folder that exists, whichever insert_bookmark and
\* insert_tree calls were made.
WellFormedTree ==
    \A g \in Guids \ {"root"} :
        rows[g] # NoRow =>
            /\ rows[g].parent # NoRow
            /\ rows[rows[g].parent] # NoRow
            /\ rows[rows[g].parent].kind = "Folder"
            /\ (rows[g].parent = "root") = (g \in UserRoots)

\* Folder children appear in a stable, total order by position (spec,
\* section 3): no two children of a folder share a position.
ChildrenTotallyOrdered ==
    \A g, h \in Guids :
        (g # h /\ rows[g] # NoRow /\ rows[h] # NoRow /\ rows[g].parent = rows[h].parent)
            => rows[g].position # rows[h].position

\* insert_tree under a folder that insert_bookmark accepts as a parent
\* inserts the whole tree it is handed: once it has returned, every item of
\* the tree, nested folders and their children included, is in moz_bookmarks.
InsertTreeInsertsEveryNode ==
    (treeStatus \in {"ok", "failed"}
        /\ ~InsertRejected(rows, [guid |-> NoRow, parent |-> treeParent,
                                   position |-> AppendPos, kind |-> "Bookmark"]))
        => \A g \in treeNodes : rows[g] # NoRow

=============================================================================
