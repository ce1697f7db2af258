----------------------------- MODULE Replication -----------------------------
(***************************************************************************)
(* What the bookmarks store promises about its durable state (spec,        *)
(* sections 4.7, 4.9 and 5), with the scratch tables and the engine's      *)
(* progress through a cycle left out.  Each action is one way the durable  *)
(* state may change, and its guard is the promise:                         *)
(*   - ingestion writes only the mirror;                                   *)
(*   - the last sync time only moves forward, and never past a server      *)
(*     record the mirror lacks ("re-runs never skip unacknowledged remote  *)
(*     changes");                                                          *)
(*   - a merge applies atomically, never marks an item changed, and an     *)
(*     item stops being changed only by adopting the remote side;          *)
(*   - this client writes to the server only while nothing was written     *)
(*     there since its last sync time (X-If-Unmodified-Since);             *)
(*   - finalizing marks an item unchanged only when the server holds its   *)
(*     current content or a later write of another client, and the mirror  *)
(*     takes only revisions the server has had.                            *)
(***************************************************************************)
EXTENDS Naturals

CONSTANTS Items, NoRow, MaxRev, MaxTime

VARIABLES
    server,      \* guid -> [rev, deleted, modified]
    serverTime,  \* the collection's last-modified time
    content,     \* the local item: guid -> [rev, deleted] (deleted = tombstone)
    changed,     \* items with a local change not yet uploaded
    mirror,      \* what this client last took in from the server: guid -> [rev, deleted]
    lastSync     \* the last sync time

vars == <<server, serverTime, content, changed, mirror, lastSync>>

Revs  == 1..MaxRev
Times == 0..MaxTime
Content == [rev: Revs, deleted: BOOLEAN]

TypeOK ==
    /\ server \in [Items -> [rev: Revs, deleted: BOOLEAN, modified: Times] \cup {NoRow}]
    /\ serverTime \in Times
    /\ content \in [Items -> Content \cup {NoRow}]
    /\ changed \subseteq Items
    /\ mirror \in [Items -> Content \cup {NoRow}]
    /\ lastSync \in Times

Init ==
    /\ server = [g \in Items |-> NoRow]
    /\ serverTime = 0
    /\ content = [g \in Items |-> NoRow]
    /\ changed = {}
    /\ mirror = [g \in Items |-> NoRow]
    /\ lastSync = 0

Differ(f, h) == {g \in Items : f[g] # h[g]}

\* Every server record modified at or before t is in mirror m.
CoveredUpTo(m, t) ==
    \A g \in Items :
        (server[g] # NoRow /\ server[g].modified <= t)
            => m[g] # NoRow /\ m[g].rev >= server[g].rev

\* The local side taking the mirror's record.
Adopted(g) == IF mirror[g].deleted THEN NoRow ELSE [mirror[g] EXCEPT !.deleted = FALSE]

\* The host application edits, creates or deletes one item.
LocalWrite ==
    /\ \E g \in Items :
        /\ Differ(content, content') = {g}
        /\ changed' = changed \cup {g}
    /\ UNCHANGED <<server, serverTime, mirror, lastSync>>

\* Another client writes one record.
RemoteWrite ==
    /\ serverTime' = serverTime + 1
    /\ \E g \in Items :
        /\ Differ(server, server') = {g}
        /\ server'[g].modified = serverTime'
    /\ UNCHANGED <<content, changed, mirror, lastSync>>

\* Ingestion commits: only mirror rows change.
Fetch ==
    /\ mirror' # mirror
    /\ UNCHANGED <<server, serverTime, content, changed, lastSync>>

\* The last sync time is advanced over what the mirror covers.
Advance ==
    /\ lastSync' >= lastSync
    /\ CoveredUpTo(mirror, lastSync')
    /\ UNCHANGED <<server, serverTime, content, changed, mirror>>

\* The merged tree is applied in one transaction.
Merge ==
    /\ changed' \subseteq changed
    /\ \A g \in Differ(content, content') \cup (changed \ changed') :
        mirror[g] # NoRow /\ content'[g] = Adopted(g)
    /\ UNCHANGED <<server, serverTime, mirror, lastSync>>

\* This client's POST succeeds for a non-empty set of records.
Publish ==
    /\ serverTime <= lastSync
    /\ serverTime' = serverTime + 1
    /\ Differ(server, server') # {}
    /\ \A g \in Differ(server, server') : server'[g].modified = serverTime'
    /\ UNCHANGED <<content, changed, mirror, lastSync>>

\* The server holds the item's content c, or a later write over it.
ServerHolds(g, c) == server[g] # NoRow /\ server[g].rev >= c.rev

\* sync_finished: uploaded items that were not changed again become
\* unchanged (an uploaded deletion drops its tombstone), the mirror takes
\* the uploaded records, and the last sync time moves on.
Finalize ==
    /\ changed' \subseteq changed
    /\ \A g \in changed \ changed' : ServerHolds(g, content[g])
    /\ \A g \in Differ(content, content') : content[g].deleted /\ content'[g] = NoRow
                                            /\ g \in changed \ changed'
    /\ \A g \in Differ(mirror, mirror') : mirror'[g] # NoRow /\ ServerHolds(g, mirror'[g])
    /\ lastSync' >= lastSync
    /\ CoveredUpTo(mirror', lastSync')
    /\ UNCHANGED <<server, serverTime>>

Next ==
    \/ LocalWrite
    \/ RemoteWrite
    \/ Fetch
    \/ Advance
    \/ Merge
    \/ Publish
    \/ Finalize

Spec == Init /\ [][Next]_vars

=============================================================================
