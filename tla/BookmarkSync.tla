----------------------------- MODULE BookmarkSync -----------------------------
(***************************************************************************)
(* One bookmark sync cycle of BookmarksStore (bookmark_sync/store.rs) and  *)
(* the parties around it: the Sync server holding the collection, another  *)
(* client writing to it, the host application editing local bookmarks     *)
(* through its own connection, and process restarts.                      *)
(*                                                                         *)
(* Content is abstracted to a revision number: every local edit, local    *)
(* deletion or other-client write allocates a fresh revision, so a row    *)
(* "has" a change exactly when it carries that revision.                  *)
(***************************************************************************)
EXTENDS Naturals, FiniteSets

CONSTANTS
    Items,       \* bookmark GUIDs (model values)
    Kind,        \* the kind of each item: "bookmark", "folder", "livemark", "query" or "separator"
    NoRow,       \* an absent row, record or tombstone
    MaxRev,      \* bound on revisions (local edits + other-client writes)
    MaxTime,     \* bound on the server clock
    MaxCrashes,  \* bound on process restarts
    KeepsConnection \* the host goes on with the same connection after a failed sync

ASSUME Kind \in [Items -> {"bookmark", "folder", "livemark", "query", "separator"}]
ASSUME MaxRev \in Nat /\ MaxTime \in Nat /\ MaxCrashes \in Nat
ASSUME KeepsConnection \in BOOLEAN

VARIABLES
    server,      \* the bookmarks collection on the Sync server: guid -> record
    serverTime,  \* the collection's last-modified time on the server
    local,       \* moz_bookmarks: guid -> [rev, counter = syncChangeCounter]
    tombstones,  \* moz_bookmarks_deleted: guid -> rev of the deletion
    mirror,      \* moz_bookmarks_synced as committed
    txMirror,    \* moz_bookmarks_synced as seen inside the ingestion transaction
    lastSync,    \* moz_meta "bookmarks_last_sync_time"
    toUpload,    \* temp table itemsToUpload (lives as long as the connection)
    pc,          \* where the engine is in the cycle
    batch,       \* the incoming changeset being ingested: guid -> record
    pending,     \* guids of the batch not yet applied
    inboundTs,   \* inbound.timestamp of the incoming changeset
    outgoing,    \* the OutgoingChangeset handed to the uploader
    acked,       \* records_synced handed back by the uploader
    ackTs,       \* new_timestamp handed back by the uploader
    nextRev,     \* next fresh revision
    localRevs,   \* revisions created by local edits (history variable)
    crashes      \* restarts so far

store  == <<local, tombstones, mirror, txMirror, lastSync, toUpload>>
engine == <<pc, batch, pending, inboundTs, outgoing, acked, ackTs>>
vars   == <<server, serverTime, store, engine, nextRev, localRevs, crashes>>

Revs  == 1..MaxRev
Times == 0..MaxTime
Phases == {"idle", "ingest", "putmeta", "merge", "upload", "finish"}

ServerRec == [rev: Revs, deleted: BOOLEAN, modified: Times]
LocalRow  == [rev: Revs, counter: 0..MaxRev]
MirrorRow == [rev: Revs, deleted: BOOLEAN, modified: Times, needsMerge: BOOLEAN]
StagedRow == [rev: Revs, deleted: BOOLEAN, counter: 0..MaxRev]

NoRows == [g \in Items |-> NoRow]
Rows(f) == {g \in Items : f[g] # NoRow}

TypeOK ==
    /\ server \in [Items -> ServerRec \cup {NoRow}]
    /\ serverTime \in Times
    /\ local \in [Items -> LocalRow \cup {NoRow}]
    /\ tombstones \in [Items -> Revs \cup {NoRow}]
    /\ mirror \in [Items -> MirrorRow \cup {NoRow}]
    /\ txMirror \in [Items -> MirrorRow \cup {NoRow}]
    /\ lastSync \in Times
    /\ toUpload \in [Items -> StagedRow \cup {NoRow}]
    /\ pc \in Phases
    /\ batch \in [Items -> ServerRec \cup {NoRow}]
    /\ pending \subseteq Items
    /\ inboundTs \in Times
    /\ outgoing \in [Items -> StagedRow \cup {NoRow}]
    /\ acked \subseteq Items
    /\ ackTs \in Times
    /\ nextRev \in 1..(MaxRev + 1)
    /\ localRevs \subseteq Revs
    /\ crashes \in 0..MaxCrashes

Init ==
    /\ server = NoRows
    /\ serverTime = 0
    /\ local = NoRows
    /\ tombstones = NoRows
    /\ mirror = NoRows
    /\ txMirror = NoRows
    /\ lastSync = 0
    /\ toUpload = NoRows
    /\ pc = "idle"
    /\ batch = NoRows
    /\ pending = {}
    /\ inboundTs = 0
    /\ outgoing = NoRows
    /\ acked = {}
    /\ ackTs = 0
    /\ nextRev = 1
    /\ localRevs = {}
    /\ crashes = 0

-----------------------------------------------------------------------------
(* Download and ingestion: Store::get_collection_request and the first    *)
(* half of Store::apply_incoming.                                          *)

\* The request asks for every record newer than the last sync time.
NewerThan(since) == {g \in Items : server[g] # NoRow /\ server[g].modified > since}

\* exec_request / update_timestamp: a response carries the server's clock
\* as X-Weave-Timestamp, which becomes the incoming changeset's timestamp.
WeaveTimestamp == serverTime

Download ==
    /\ pc = "idle"
    /\ batch' = [g \in Items |-> IF g \in NewerThan(lastSync) THEN server[g] ELSE NoRow]
    /\ pending' = NewerThan(lastSync)
    /\ inboundTs' = WeaveTimestamp
    /\ txMirror' = mirror
    /\ pc' = "ingest"
    /\ UNCHANGED <<server, serverTime, local, tombstones, mirror, lastSync,
                   toUpload, outgoing, acked, ackTs, nextRev, localRevs, crashes>>

\* apply_payload: every kind REPLACEs the mirror row keyed by guid, with
\* needsMerge = 1 and serverModified = the changeset's timestamp.
IncomingRow(rec, ts) ==
    [rev |-> rec.rev, deleted |-> rec.deleted, modified |-> ts, needsMerge |-> TRUE]

\* One iteration of the ingestion loop: apply_payload, then maybe_commit of
\* the time-chunked transaction, which commits when its time slice is over.
ApplyIncoming(g) ==
    /\ pc = "ingest"
    /\ g \in pending
    /\ txMirror' = [txMirror EXCEPT ![g] = IncomingRow(batch[g], inboundTs)]
    /\ pending' = pending \ {g}
    /\ mirror' \in {mirror, txMirror'}
    /\ UNCHANGED <<server, serverTime, local, tombstones, lastSync, toUpload,
                   pc, batch, inboundTs, outgoing, acked, ackTs, nextRev,
                   localRevs, crashes>>

\* tx.commit() after the loop.
CommitIncoming ==
    /\ pc = "ingest"
    /\ pending = {}
    /\ mirror' = txMirror
    /\ pc' = "putmeta"
    /\ UNCHANGED <<server, serverTime, local, tombstones, txMirror, lastSync,
                   toUpload, batch, pending, inboundTs, outgoing, acked, ackTs,
                   nextRev, localRevs, crashes>>

\* put_meta(LAST_SYNC_META_KEY, timestamp), a statement of its own.
PutMeta ==
    /\ pc = "putmeta"
    /\ lastSync' = inboundTs
    /\ pc' = "merge"
    /\ UNCHANGED <<server, serverTime, local, tombstones, mirror, txMirror,
                   toUpload, batch, pending, inboundTs, outgoing, acked, ackTs,
                   nextRev, localRevs, crashes>>

-----------------------------------------------------------------------------
(* Merge: merge_with_driver runs the external merger over the local and   *)
(* remote trees, then calls Store::apply, which runs has_changes,         *)
(* update_local_items and stage_local_items_to_upload in one transaction;  *)
(* apply_incoming then inflates the outgoing records.                      *)

RemoteChanged(g) == mirror[g] # NoRow /\ mirror[g].needsMerge
LocalChanged(g)  == (local[g] # NoRow /\ local[g].counter > 0) \/ tombstones[g] # NoRow

\* has_changes: a mirror row to merge (except a tombstone of an item that
\* does not exist locally), a changed local item, or a local tombstone.
HasChanges ==
    \/ \E g \in Items : /\ RemoteChanged(g)
                        /\ ~mirror[g].deleted \/ local[g] # NoRow
    \/ \E g \in Items : local[g] # NoRow /\ local[g].counter > 0
    \/ \E g \in Items : tombstones[g] # NoRow

\* The merger takes the remote side of an item changed only remotely, and
\* of a conflicting item when it chooses to (choice).
TakeRemote(choice) ==
    {g \in Items : RemoteChanged(g) /\ (~LocalChanged(g) \/ g \in choice)}

\* update_local_items: the merge-table triggers make the local tree match
\* the merged tree and clear needsMerge of every merged mirror row.
MergedLocal(tr) ==
    [g \in Items |->
        IF g \notin tr THEN local[g]
        ELSE IF mirror[g].deleted THEN NoRow
        ELSE [rev |-> mirror[g].rev,
              counter |-> IF local[g] = NoRow THEN 0 ELSE local[g].counter]]

MergedTombstones(tr) ==
    [g \in Items |-> IF g \in tr /\ ~mirror[g].deleted THEN NoRow ELSE tombstones[g]]

\* The rows whose needsMerge the merge triggers clear: every row taking
\* part in the merge, which the spec (4.7 step 4) takes to be the rows
\* has_changes counts.
Merged(g) == RemoteChanged(g) /\ (~mirror[g].deleted \/ local[g] # NoRow)

MergedMirror ==
    [g \in Items |-> IF Merged(g) THEN [mirror[g] EXCEPT !.needsMerge = FALSE]
                     ELSE mirror[g]]

\* stage_local_items_to_upload: changed live items (counter >= 1) and weakly
\* uploaded items, each with a snapshot of its counter, then one row per
\* local tombstone (INSERT OR IGNORE).
StagedLive(l, weak) == {g \in Items : l[g] # NoRow /\ (l[g].counter >= 1 \/ g \in weak)}

\* Mutant: the tombstone rows are staged without their change counter.
StageNoTombstoneCounter(l, t, weak) ==
    [g \in Items |->
        IF toUpload[g] # NoRow THEN toUpload[g]
        ELSE IF g \in StagedLive(l, weak)
             THEN [rev |-> l[g].rev, deleted |-> FALSE, counter |-> l[g].counter]
        ELSE IF t[g] # NoRow THEN [rev |-> t[g], deleted |-> TRUE]
        ELSE NoRow]

Stage(l, t, weak) ==
    [g \in Items |->
        IF toUpload[g] # NoRow THEN toUpload[g]
        ELSE IF g \in StagedLive(l, weak)
             THEN [rev |-> l[g].rev, deleted |-> FALSE, counter |-> l[g].counter]
        ELSE IF t[g] # NoRow THEN [rev |-> t[g], deleted |-> TRUE, counter |-> 1]
        ELSE NoRow]

\* The plain INSERT INTO itemsToUpload fails on a guid already staged.
StageFails(l, weak) == \E g \in StagedLive(l, weak) : toUpload[g] # NoRow

\* fetch_outgoing_records reads back every staged row; a livemark row is
\* skipped (continue), a tombstone row of any kind becomes a tombstone.
OutgoingRecords(staged) ==
    [g \in Items |-> IF staged[g] # NoRow /\ ~staged[g].deleted /\ Kind[g] = "livemark"
                     THEN NoRow ELSE staged[g]]

\* Payload::from_record serializes each record it builds; Serialize for
\* BookmarkItemRecord hits unimplemented! for a query or a separator. The
\* panic unwinds out of apply_incoming after apply committed, so the cycle
\* ends without an upload and itemsToUpload keeps the staged rows.
SerializePanics(staged) ==
    \E g \in Items : /\ staged[g] # NoRow /\ ~staged[g].deleted
                    /\ Kind[g] \in {"query", "separator"}

\* Weakly uploaded items: taken from the remote side although the local
\* item is older (its dateAdded, which the model leaves out, is earlier).
WeakCandidates(tr) == {g \in tr : ~mirror[g].deleted /\ local[g] # NoRow}

Conflicts == {g \in Items : RemoteChanged(g) /\ LocalChanged(g)}

\* The temp tables after a sync that ended in an error: they live as long
\* as the connection, so they are still there if the host goes on with the
\* same connection, and gone if it opens a new one.
AfterFailedCycle(staged) == IF KeepsConnection THEN staged ELSE NoRows

\* apply returns early when there is nothing to merge.
MergeNoChanges ==
    /\ pc = "merge"
    /\ ~HasChanges
    /\ outgoing' = OutgoingRecords(toUpload)
    /\ pc' = IF SerializePanics(toUpload) THEN "idle" ELSE "upload"
    /\ toUpload' = IF pc' = "idle" THEN AfterFailedCycle(toUpload) ELSE toUpload
    /\ UNCHANGED <<server, serverTime, local, tombstones, mirror, txMirror,
                   lastSync, batch, pending, inboundTs, acked, ackTs, nextRev,
                   localRevs, crashes>>

MergeApply ==
    /\ pc = "merge"
    /\ HasChanges
    /\ \E choice \in SUBSET Conflicts :
        LET tr == TakeRemote(choice) IN
        \E weak \in SUBSET WeakCandidates(tr) :
        LET l == MergedLocal(tr)
            t == MergedTombstones(tr)
            staged == Stage(l, t, weak)
        IN  \/ /\ ~StageFails(l, weak)
               /\ local' = l
               /\ tombstones' = t
               /\ mirror' = MergedMirror
               /\ txMirror' = MergedMirror
               /\ outgoing' = OutgoingRecords(staged)
               /\ pc' = IF SerializePanics(staged) THEN "idle" ELSE "upload"
               /\ toUpload' = IF pc' = "idle" THEN AfterFailedCycle(staged) ELSE staged
            \* the transaction rolls back and apply_incoming returns the error
            \/ /\ StageFails(l, weak)
               /\ pc' = "idle"
               /\ toUpload' = AfterFailedCycle(toUpload)
               /\ UNCHANGED <<local, tombstones, mirror, txMirror, outgoing>>
    /\ UNCHANGED <<server, serverTime, lastSync, batch, pending, inboundTs,
                   acked, ackTs, nextRev, localRevs, crashes>>

-----------------------------------------------------------------------------
(* Upload, done by the sync15 uploader: the records are POSTed with       *)
(* X-If-Unmodified-Since = the outgoing changeset's timestamp, which      *)
(* apply_incoming sets to inbound.timestamp.                               *)

\* Mutant: the upload is sent without X-If-Unmodified-Since.
XiusIgnored(xius) == TRUE

\* The server refuses the POST (412) if the collection changed since xius.
XiusHolds(xius) == serverTime <= xius

\* The collection after the server stored the records of ack.
Posted(ack) ==
    [g \in Items |->
        IF g \in ack
        THEN [rev |-> outgoing[g].rev, deleted |-> outgoing[g].deleted,
              modified |-> serverTime + 1]
        ELSE server[g]]

\* The POST can be sent: something to upload, and the server accepts it.
CanPost == Rows(outgoing) # {} /\ XiusHolds(inboundTs) /\ serverTime < MaxTime

Upload ==
    /\ pc = "upload"
    /\ CanPost
    /\ \E ack \in SUBSET Rows(outgoing) \ {{}} :
        /\ server' = Posted(ack)
        /\ serverTime' = serverTime + 1
        /\ acked' = ack
        /\ ackTs' = serverTime + 1
        /\ pc' = "finish"
    /\ UNCHANGED <<store, batch, pending, inboundTs, outgoing, nextRev,
                   localRevs, crashes>>

\* Nothing to upload: the uploader reports the changeset's own timestamp.
UploadNothing ==
    /\ pc = "upload"
    /\ Rows(outgoing) = {}
    /\ acked' = {}
    /\ ackTs' = inboundTs
    /\ pc' = "finish"
    /\ UNCHANGED <<server, serverTime, store, batch, pending, inboundTs,
                   outgoing, nextRev, localRevs, crashes>>

\* The upload ends in an error and sync_finished is not called. Either the
\* POST never took effect (the uploader, PostQueue, outside src, turns a
\* 412 into an error; or the request never reached the server), or the
\* server stored the records and the response was lost: PostWrapper::post
\* propagates exec_request's transport error (the 30 second timeout, a
\* dropped connection).
UploadFails ==
    /\ pc = "upload"
    /\ pc' = "idle"
    /\ \/ UNCHANGED <<server, serverTime>>
       \/ /\ CanPost
          /\ \E ack \in SUBSET Rows(outgoing) \ {{}} : server' = Posted(ack)
          /\ serverTime' = serverTime + 1
    /\ toUpload' = AfterFailedCycle(toUpload)
    /\ UNCHANGED <<local, tombstones, mirror, txMirror, lastSync, batch, pending,
                   inboundTs, outgoing, acked, ackTs, nextRev, localRevs, crashes>>

-----------------------------------------------------------------------------
(* Store::sync_finished: push_synced_items in one transaction.            *)

\* Mutant: every staged row is treated as uploaded, acked or not.
AckedRowsUnfiltered(ack) == {g \in Items : toUpload[g] # NoRow}

\* UPDATE itemsToUpload SET uploadedAt = ... WHERE guid IN (records_synced)
AckedRows(ack) == {g \in Items : toUpload[g] # NoRow /\ g \in ack}

\* pushUploadedChanges trigger: the local counter drops by the snapshot.
Decrement(counter, snapshot) == IF counter > snapshot THEN counter - snapshot ELSE 0

\* pushUploadedChanges trigger, per uploaded row: decrement the live item's
\* counter, drop an uploaded tombstone, write the uploaded record back to
\* the mirror.
PushedLocal(up) ==
    [g \in Items |->
        IF g \in up /\ ~toUpload[g].deleted /\ local[g] # NoRow
        THEN [local[g] EXCEPT !.counter = Decrement(@, toUpload[g].counter)]
        ELSE local[g]]

\* Mutant: every staged tombstone is dropped, uploaded or not.
PushedTombstonesUnacked(up) ==
    [g \in Items |-> IF toUpload[g] # NoRow /\ toUpload[g].deleted THEN NoRow ELSE tombstones[g]]

PushedTombstones(up) ==
    [g \in Items |-> IF g \in up /\ toUpload[g].deleted THEN NoRow ELSE tombstones[g]]

PushedMirror(up, ts) ==
    [g \in Items |->
        IF g \in up
        THEN [rev |-> toUpload[g].rev, deleted |-> toUpload[g].deleted,
              modified |-> ts, needsMerge |-> FALSE]
        ELSE mirror[g]]

SyncFinished ==
    /\ pc = "finish"
    /\ LET up == AckedRows(acked) IN
        /\ local' = PushedLocal(up)
        /\ tombstones' = PushedTombstones(up)
        /\ mirror' = PushedMirror(up, ackTs)
        /\ txMirror' = PushedMirror(up, ackTs)
    /\ lastSync' = ackTs
    /\ toUpload' = NoRows
    /\ pc' = "idle"
    /\ UNCHANGED <<server, serverTime, batch, pending, inboundTs, outgoing,
                   acked, ackTs, nextRev, localRevs, crashes>>

-----------------------------------------------------------------------------
(* The environment.                                                        *)

FreshRev == nextRev <= MaxRev

\* insert_bookmark with a new random GUID: syncChangeCounter = 1. Only a
\* bookmark binds :guid and :syncChangeCounter (a separator or folder
\* leaves them NULL); a bookmark with a place: URL is a query to
\* type_to_kind.
InsertBookmark(g) ==
    /\ Kind[g] \in {"bookmark", "query"}
    /\ FreshRev
    /\ local[g] = NoRow /\ tombstones[g] = NoRow
    /\ mirror[g] = NoRow /\ server[g] = NoRow
    /\ local' = [local EXCEPT ![g] = [rev |-> nextRev, counter |-> 1]]
    /\ localRevs' = localRevs \cup {nextRev}
    /\ nextRev' = nextRev + 1
    /\ UNCHANGED <<server, serverTime, tombstones, mirror, txMirror, lastSync,
                   toUpload, engine, crashes>>

\* An edit through the bookmarks API bumps the change counter.
EditItem(g) ==
    /\ FreshRev
    /\ local[g] # NoRow
    /\ local' = [local EXCEPT ![g] = [rev |-> nextRev, counter |-> @.counter + 1]]
    /\ localRevs' = localRevs \cup {nextRev}
    /\ nextRev' = nextRev + 1
    /\ UNCHANGED <<server, serverTime, tombstones, mirror, txMirror, lastSync,
                   toUpload, engine, crashes>>

\* A deletion through the bookmarks API leaves a tombstone.
DeleteItem(g) ==
    /\ FreshRev
    /\ local[g] # NoRow
    /\ local' = [local EXCEPT ![g] = NoRow]
    /\ tombstones' = [tombstones EXCEPT ![g] = nextRev]
    /\ localRevs' = localRevs \cup {nextRev}
    /\ nextRev' = nextRev + 1
    /\ UNCHANGED <<server, serverTime, mirror, txMirror, lastSync, toUpload,
                   engine, crashes>>

\* Another client changes or deletes a record it knows, or creates one.
OtherClientWrite(g) ==
    /\ FreshRev
    /\ serverTime < MaxTime
    /\ server[g] # NoRow \/ (local[g] = NoRow /\ tombstones[g] = NoRow /\ mirror[g] = NoRow)
    /\ \E del \in BOOLEAN :
        server' = [server EXCEPT ![g] = [rev |-> nextRev, deleted |-> del,
                                         modified |-> serverTime + 1]]
    /\ serverTime' = serverTime + 1
    /\ nextRev' = nextRev + 1
    /\ UNCHANGED <<store, engine, localRevs, crashes>>

\* The process dies: open transactions roll back, temp tables are gone.
Crash ==
    /\ crashes < MaxCrashes
    /\ pc # "idle"
    /\ txMirror' = mirror
    /\ toUpload' = NoRows
    /\ outgoing' = NoRows
    /\ pending' = {}
    /\ pc' = "idle"
    /\ crashes' = crashes + 1
    /\ UNCHANGED <<server, serverTime, local, tombstones, mirror, lastSync,
                   batch, inboundTs, acked, ackTs, nextRev, localRevs>>

Next ==
    \/ Download
    \/ \E g \in Items : ApplyIncoming(g)
    \/ CommitIncoming
    \/ PutMeta
    \/ MergeNoChanges
    \/ MergeApply
    \/ Upload
    \/ UploadNothing
    \/ UploadFails
    \/ SyncFinished
    \/ \E g \in Items : InsertBookmark(g) \/ EditItem(g) \/ DeleteItem(g)
    \/ \E g \in Items : OtherClientWrite(g)
    \/ Crash

Spec == Init /\ [][Next]_vars

\* The steps of a cycle once apply_incoming has been called. The driver
\* runs the cycle to its end on one thread: every step is a local
\* transaction or a network request, which returns a response or an
\* error. Starting a sync (Download) is the host's choice and is not fair.
CycleSteps ==
    \/ \E g \in Items : ApplyIncoming(g)
    \/ CommitIncoming
    \/ PutMeta
    \/ MergeNoChanges
    \/ MergeApply
    \/ Upload
    \/ UploadNothing
    \/ UploadFails
    \/ SyncFinished

FairSpec == Spec /\ WF_vars(CycleSteps)

\* The host keeps starting syncs, and the network does not refuse or lose
\* every POST for ever: the hypothesis under which local changes are
\* expected to reach the server.
SyncingSpec == FairSpec /\ WF_vars(Download) /\ SF_vars(Upload)

-----------------------------------------------------------------------------
(* Properties.                                                             *)

\* A local change is never forgotten: a live item whose content was made
\* locally and whose change counter is back to 0 has had that content (or a
\* later one) uploaded. This is what the counter snapshot taken when staging
\* and the decrement of push_synced_items / pushUploadedChanges are for,
\* with edits arriving between staging and sync_finished.
LocalChangeNotLost ==
    \A g \in Items :
        (local[g] # NoRow /\ local[g].rev \in localRevs /\ local[g].counter = 0)
            => server[g] # NoRow /\ server[g].rev >= local[g].rev

\* No remote change is skipped: every server record at or before the last
\* sync time is in the mirror (that revision or a later one). The last sync
\* time is advanced after ingestion commits and by sync_finished, whose
\* timestamp is only safe because the upload carries X-If-Unmodified-Since.
MirrorCoversServer ==
    \A g \in Items :
        (server[g] # NoRow /\ server[g].modified <= lastSync)
            => mirror[g] # NoRow /\ mirror[g].rev >= server[g].rev

\* A bookmark's local revision r reaches the server (or a later revision
\* supersedes it there) unless the item is edited again or deleted, as long
\* as the host keeps syncing and uploads eventually get through: what the
\* change counter, staging and push_synced_items are for. serverTime =
\* MaxTime only marks the end of the model's clock.
LocalChangeEventuallyUploaded ==
    \A g \in {i \in Items : Kind[i] = "bookmark"}, r \in 1..MaxRev :
        (local[g] # NoRow /\ local[g].rev = r /\ r \in localRevs)
            ~> \/ server[g] # NoRow /\ server[g].rev >= r
               \/ local[g] = NoRow \/ local[g].rev # r
               \/ serverTime = MaxTime

\* An upload never sends again a revision this client made that the
\* server already holds (spec, section 5: re-runs "never re-upload
\* already-acknowledged ones").
NoReuploadOfAcknowledged ==
    [][Upload => \A g \in acked' :
                    outgoing[g].rev \in localRevs
                        => server[g] = NoRow \/ server[g].rev # outgoing[g].rev]_vars

-----------------------------------------------------------------------------
(* Refinement: the durable state (moz_bookmarks, moz_bookmarks_deleted,   *)
(* moz_bookmarks_synced, the last sync time, and the server) behaves as    *)
(* Replication allows. The temp tables and the engine's variables are      *)
(* hidden; the steps that change only them are stuttering steps.           *)

\* The local item: a live row or a tombstone.
LocalContent(g) ==
    IF local[g] # NoRow THEN [rev |-> local[g].rev, deleted |-> FALSE]
    ELSE IF tombstones[g] # NoRow THEN [rev |-> tombstones[g], deleted |-> TRUE]
    ELSE NoRow

MirrorContent(g) ==
    IF mirror[g] = NoRow THEN NoRow
    ELSE [rev |-> mirror[g].rev, deleted |-> mirror[g].deleted]

Repl == INSTANCE Replication
            WITH content <- [g \in Items |-> LocalContent(g)],
                 changed <- {g \in Items : LocalChanged(g)},
                 mirror <- [g \in Items |-> MirrorContent(g)]

\* The cycle keeps every promise of the abstract specification.
ImplementsReplication == Repl!Spec

=============================================================================
