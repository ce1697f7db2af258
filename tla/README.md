# TLA+ models of the bookmark sync engine and places history

These modules model two crates, and TLC checks them:

- the bookmark sync engine of `src/components/places`
  (`bookmark_sync/store.rs`, `bookmark_sync/record.rs`, `storage/bookmarks.rs`),
  together with the parts of `src/sync15-adapter` it relies on;
- the history storage of `src/places` (`storage.rs`, `schema.rs`).

## 1. The system

### Parts and the state each one owns

| Part | Source | State |
|---|---|---|
| Sync server collection | `sync15-adapter/src/client.rs` | records `(guid, payload, modified)`; collection last-modified time |
| Local tree | `storage/bookmarks.rs` | `moz_bookmarks` rows with `syncChangeCounter` and `syncStatus`; `moz_bookmarks_deleted` tombstones |
| Mirror | `bookmark_sync/store.rs` | `moz_bookmarks_synced` (`needsMerge`, `isDeleted`, `serverModified`, validity); `moz_bookmarks_synced_structure` |
| Meta | `store.rs:33` | `bookmarks_last_sync_time` |
| Scratch tables of the connection | `store.rs` | `mergedTree`, `itemsToRemove`, `idsToWeaklyUpload`, `itemsToUpload`, `structureToUpload` |
| Record model | `bookmark_sync/record.rs` | none; it decodes payloads to typed records and encodes them back |
| Merger | external crate `dogear` (not in `src/`) | none; it reads both trees and returns the merged tree |
| Uploader and sync driver | sync15 crate (only `client.rs` is in `src/`) | the outgoing changeset; acknowledgments |
| History storage | `places/src/storage.rs`, `schema.rs` | `moz_places` (per-page visit summary and frecency), `moz_historyvisits`; a `ManyVisitObservations` batch |

### One bookmark sync cycle

1. **Download.** `get_collection_request` (`store.rs:1024`) asks for the records
   `newer_than(last_sync)`. The client fetches them with `get_encrypted_records`
   (`client.rs:94`). The response's `X-Weave-Timestamp` (`client.rs:178`)
   becomes the changeset's timestamp.
2. **Ingest.** `apply_incoming` (`store.rs:978`) writes every record into the
   mirror:
   - the payload kind decides the write (`store.rs:347-632`);
   - every write is a `REPLACE` with `needsMerge = 1` and the batch timestamp;
   - the writes run inside a time-chunked transaction. `maybe_commit` may
     commit part of the batch, and `tx.commit()` commits the rest.
3. **Stamp.** `put_meta(last_sync, inbound.timestamp)` runs as a statement of
   its own.
4. **Merge.** `merge_with_driver` makes the merger read two trees:
   - `fetch_local_tree`: changed means `syncChangeCounter > 0`, and local
     tombstones are included;
   - `fetch_remote_tree`: changed means `needsMerge`.

   The merger then calls `apply` (`store.rs:318`). If `has_changes` is false,
   `apply` returns early. Otherwise it runs one transaction:
   - `update_local_items`: SQL triggers rewrite the local tree and the mirror;
   - `stage_local_items_to_upload`: copies changed and weakly uploaded items
     into `itemsToUpload`, with a snapshot of their change counter, then adds
     the tombstones.
5. **Outgoing.** `fetch_outgoing_records` (`store.rs:826`) turns the staged rows
   into records:
   - livemarks are skipped;
   - `Payload::from_record` serializes each record, and `Serialize`
     (`record.rs:165`) panics with `unimplemented!` on queries and separators.
6. **Upload.** This step is done by the sync15 crate. The POST carries
   `X-If-Unmodified-Since` set to the changeset's timestamp (`client.rs:229`),
   so the server refuses it if the collection changed since the download.
7. **Finalize.** This step runs only if the upload succeeded. `sync_finished`
   (`store.rs:1009`) calls `push_synced_items` in one transaction, which:
   - marks the acknowledged rows `uploadedAt`, and the `pushUploadedChanges`
     trigger subtracts the snapshot from each counter, removes uploaded
     tombstones and writes each record back to the mirror;
   - sets `last_sync` to the upload time;
   - empties `itemsToUpload`.

Three things happen concurrently with the cycle:
- the host application edits local bookmarks (`insert_bookmark`,
  `bookmarks.rs:162`, plus update and delete from an API that is not in `src/`);
- another client writes to the collection;
- the process can die at any point. Open transactions then roll back, and the
  temp tables vanish together with the connection.
- the network can fail the POST in two ways: the server refuses it or never
  sees it, or the server stores the records and the response is lost (the
  client's 30 s timeout, `client.rs:38`). A 412 is turned into an error by
  the uploader (`PostQueue`, not in `src/`); a transport error propagates
  from `exec_request` through `PostWrapper::post` (`client.rs:233`). Either
  way the upload fails and `sync_finished` is not called.

### History

- `PlacesDb` opens the file with `schema::init` (`schema.rs:115`), which runs
  `create` when `user_version` is 0.
- `apply_observation` (`storage.rs:212`) records one `VisitObservation` in one
  transaction:
  - it fetches or creates the page;
  - it applies the title, hidden and typed flags;
  - it inserts the visit;
  - it updates the per-side visit count and last visit date;
  - it recomputes frecency.
- `ManyVisitObservations` (`storage.rs:150`) batches observations for
  `apply_observations`.

### What is hard here

- **Interleaving.** Local edits can land between staging and `sync_finished`.
  Only the counter snapshot protects them.
- **Partial acknowledgment.** Unacknowledged rows must keep their counters.
- **Another client's writes during the cycle.** `push_synced_items` moves
  `last_sync` past them, so only the XIUS precondition keeps them from being
  skipped.
- **Crash windows.** A crash can fall:
  - between the partial commits of ingestion;
  - around `put_meta`;
  - around the merge transaction;
  - between the server's acknowledgment and `sync_finished`.
- **Scratch state.** The temp tables live as long as the connection, not as
  long as the cycle, so they outlive a failed cycle.
- **Per-kind detail.**
  - query URL rewrite and validity;
  - folder structure rows that are never deleted;
  - kinds that cannot be serialized;
  - positions in `insert_bookmark`.
- **History.** Synced visits arrive out of timestamp order. A page can exist
  without a visit. The batcher never drains.

## 2. Modules

### `BookmarkSync.tla`: the sync cycle (core)

Item content is abstracted to a **revision**:
- every local edit, local deletion and other-client write allocates a fresh
  revision;
- `localRevs` remembers the revisions made locally;
- a row "has" a change exactly when it carries that revision.

Each item has a fixed kind (constant `Kind`). The kind decides what
`fetch_outgoing_records` and `Serialize` do with the item's staged row. Tree
shape, titles and URLs are left out.

| Variable | Code |
|---|---|
| `server`, `serverTime` | the collection on the server and its last-modified time |
| `local` | `moz_bookmarks`: `rev`, `counter` = `syncChangeCounter` |
| `tombstones` | `moz_bookmarks_deleted` |
| `mirror`, `txMirror` | `moz_bookmarks_synced`: committed, and as seen inside the ingestion transaction |
| `lastSync` | meta `bookmarks_last_sync_time` |
| `toUpload` | temp table `itemsToUpload`: counter snapshot, revision, `isDeleted` |
| `pc`, `batch`, `pending`, `inboundTs`, `outgoing`, `acked`, `ackTs` | where the cycle is, and the changesets passed between the store and the uploader |
| `crashes` | restarts so far |

| Action | Code |
|---|---|
| `Download` | `get_collection_request`, `get_encrypted_records`, `update_timestamp` |
| `ApplyIncoming(g)` | one iteration of the loop in `apply_incoming`: `apply_payload`, then `maybe_commit`, which may or may not commit |
| `CommitIncoming` | `tx.commit()` |
| `PutMeta` | `put_meta` |
| `MergeNoChanges` | the early return of `apply`, then `fetch_outgoing_records` |
| `MergeApply` | `apply` followed by `fetch_outgoing_records` |
| `Upload`, `UploadNothing`, `UploadFails` | the uploader; `UploadFails` is the failed upload, for a refused POST and for a stored POST whose response was lost (`Posted`) |
| `SyncFinished` | `sync_finished` / `push_synced_items` |
| `InsertBookmark`, `EditItem`, `DeleteItem` | the local API |
| `OtherClientWrite` | another client writing to the collection |
| `Crash` | the process dies |

`MergeApply` chooses the merger's side for each conflicting item and the set
of weakly uploaded items. Its outcomes:
- **Commit.** The local tree, the tombstones and the mirror are merged, and
  the rows are staged. If a staged live row is a query or a separator,
  `SerializePanics` holds. The panic then unwinds out of `apply_incoming` after
  `apply` committed, and the cycle ends without an upload.
- **Rollback.** This happens when staging fails; see the finding under
  `scratch_left_over`.

Definitions that model code outside `src/` are marked `spec_modelled` in
`PROJECT.json`, and their behaviour is taken from `spec.md`:
- the merger: `TakeRemote`, `Conflicts`;
- the SQL triggers: `MergedTombstones`, `MergedMirror`, `PushedLocal`,
  `PushedTombstones`, `PushedMirror`, `Decrement`;
- `UploadNothing`;
- the edit and delete API: `EditItem`, `DeleteItem`;
- `OtherClientWrite` and `Crash`.

The constant `KeepsConnection` says what the host does after a failed sync
(a rolled-back apply, a serialize panic, a failed upload):
- `FALSE`: it opens a new connection, so the temp table `itemsToUpload` is
  empty at the next sync start. This is the precondition spec §5 states.
- `TRUE`: it goes on with the same connection, and the rows staged by the
  failed cycle are still there (`AfterFailedCycle`).

The code does not decide this: the temp tables are created outside `src/`,
and the only place that empties `itemsToUpload` is the end of
`push_synced_items`. Both hosts are checked.

`FairSpec` adds weak fairness on `CycleSteps`; only the liveness run uses
it (see the fairness section).

`MCBookmarkSync.tla` instantiates the module with three items:
- two bookmarks, `a` and `b`, so that an upload can be acknowledged in part;
- one bookmark with a `place:` URL, `c`. `type_to_kind` (`store.rs:1043`)
  makes it a query, which `Serialize` cannot encode. (A separator cannot be
  made locally: `insert_bookmark` binds no guid and no change counter for
  one, so `InsertBookmark` is limited to bookmarks and queries.)

### `Replication.tla`: the abstract specification of the durable state

`Replication.tla` states what spec §4.7, §4.9 and §5 promise about the state
that survives a crash:
- the server collection and its time;
- each local item's content (a live row or a tombstone);
- the set of items with a change not yet uploaded;
- the mirror's content of each item;
- the last sync time.

Each action is one way that state may change, and its guard is the promise:

| Action | Promise |
|---|---|
| `LocalWrite` | a local edit marks the item changed |
| `RemoteWrite` | another client's write stamps the new server time |
| `Fetch` | ingestion writes only the mirror |
| `Advance` | the last sync time never decreases, and never passes a server record that the mirror lacks |
| `Merge` | atomic; marks nothing changed; an item's content changes, or its change is dropped, only by adopting the mirror's record |
| `Publish` | this client writes to the server only while `serverTime <= lastSync` (X-If-Unmodified-Since) |
| `Finalize` | an item becomes unchanged only when the server holds its current content or a later write over it; only an uploaded tombstone may disappear; the mirror takes only revisions the server has had; the last sync time moves as in `Advance` |

`BookmarkSync` defines the refinement mapping:
```
Repl == INSTANCE Replication WITH content <- ..., changed <- ..., mirror <- ...
```
Its parts:
- `content` is built from `local` and `tombstones`;
- `changed` is `LocalChanged`;
- `mirror` drops `needsMerge` and `serverModified`.

The temp tables and the engine's variables are hidden, so steps that change
only them are stuttering steps. `ImplementsReplication == Repl!Spec` is
checked as a property of `sync_cycle`.

### `Incoming.tla`: the incoming record applicator

This module models `apply_payload` and every `store_incoming_*` write
(`store.rs:345-632`). `incoming.rs` holds a line-for-line copy of the same
applicator that differs only in log messages. The mapped source is `store.rs`,
the copy that `apply_incoming` calls. The decoding it starts from is
`Deserialize for BookmarkItemRecord` (`record.rs:212-292`).

Abstractions:
- **URL.** Modelled as the set of query keys that the rewrite inspects
  (`type=7`, `folder`, `excludeItems`, `tag`) plus its length.
- **Tag.** Modelled as its trimmed length.
- **Length bounds.** `URL_LENGTH_MAX` and `TAG_LENGTH_MAX` are small
  constants.

| Variable | Code |
|---|---|
| `mirror` | `moz_bookmarks_synced` rows: kind, deleted, validity, placeId, feed URL, needsMerge |
| `structure` | `moz_bookmarks_synced_structure`, keyed by the child's guid |
| `places` | URLs interned into `moz_places` |
| `lastRecord` | history variable: the last record ingested for each folder guid |

Operators and actions:
- `ValidTag` models `validate_tag`.
- `UrlStorable` and `Intern` model `maybe_store_url`.
- `QueryRewrite` and `QueryUrlAndValidity` model
  `determine_query_url_and_validity`.
- `LivemarkHref` models `validate_href`.
- There is one action per `store_incoming_*`. Its input ranges over the
  records that `from_payload` can produce.

### `LocalTree.tla`: local bookmark storage

This module models `create_bookmark_roots`, `insert_bookmark` and
`insert_tree` (`storage/bookmarks.rs`). Each row records:
- its parent, position and kind;
- whether its guid column was bound. Folder and separator inserts leave
  `:guid` unbound, so `get_raw_bookmark` cannot find their rows.

Actions:
- `InsertBookmark` is one API call, built from `InsertRejected` (the early
  returns), `InsertIndex` and `Shifted` (the position dance), and `InsertRow`
  (the INSERT).
- `StartInsertTree` flattens the tree with the RECURSIVE `AddSubtreeInfos`, a
  translation of `add_subtree_infos` and its post-order for folders.
- `InsertTreeStep` is one iteration of the loop. The loop stops at the first
  error.

### `History.tla`: opening the database and `apply_observation`

Abstractions:
- a page is keyed by its URL;
- the title is reduced to whether one was set;
- frecency is the number of visits `calculate_frecency` ran over;
- an absent last visit date (NULL, which `PageInfo::from_row` reads as 0) is 0.

| Variable | Code |
|---|---|
| `file` | the database file: `"empty"`, `"ours"` (made by `create`) or `"foreign"` (an existing profile) |
| `dbOpen` | a `PlacesDb` is open |
| `places` | `moz_places`: `Page` records (`PageInfo`) |
| `visits` | `moz_historyvisits` rows in rowid order (`VisitRow`) |
| `outcome`, `openFailed` | history variables: the last call's result; whether an open failed |

Actions:
- `Open` models `schema::init` / `create`.
- `Close` is the host dropping the connection.
- `ApplyObservation(ob)` is the whole of `apply_observation`. Its outcomes
  are:
  - a panic in `fetch_page_info`;
  - a panic for a GUID-only observation of an unknown page;
  - the INSERT of `new_page_info` failing;
  - a commit of the updated page and the new visit, built by `Applied`,
    `AddVisit` and `FrecencyOf`.

### `VisitBatch.tla`: `ManyVisitObservations`

This module models `new` / `with_limit` (`New`), `add` (`Add`) and `flush`
(`Flush`). What `apply_observations` is handed is recorded in `calls`.
`apply_observations` builds its INSERT but never executes it, so it leaves the
database alone.

## 3. Runs

| Run | Config | Checks | Result |
|---|---|---|---|
| `sync_cycle` | `MCBookmarkSync.cfg` (`KeepsConnection = FALSE`) | `TypeOK`, `LocalChangeNotLost`, `MirrorCoversServer`, `ImplementsReplication` | pass (783,303 distinct states, about 35 s) |
| `sync_connection_kept` | `MCBookmarkSyncKept.cfg` (`KeepsConnection = TRUE`) | `MirrorCoversServer` | pass (612,807 distinct states, about 10 s) |
| `scratch_left_over` | `MCBookmarkSyncScratch.cfg` (`KeepsConnection = TRUE`) | `LocalChangeNotLost` | violation, 16 states |
| `sync_reupload` | `MCBookmarkSync_NoReuploadOfAcknowledged.cfg` | `NoReuploadOfAcknowledged` | violation, 13 states |
| `sync_upload_blocked` | `MCBookmarkSync_LocalChangeEventuallyUploaded.cfg` (`SyncingSpec`) | `LocalChangeEventuallyUploaded` | violation, a lasso of 13 states |
| `incoming_apply` | `MCIncoming.cfg` | `TypeOK`, `UsableRowsHavePlace`, `QueryUrlNormalized` | pass (about 166k distinct states) |
| `incoming_structure` | `MCIncomingStructure.cfg` | `StructureMatchesLastPayload` | violation |
| `local_tree` | `MCLocalTree.cfg` | `WellFormedTree` | pass (about 233k distinct states) |
| `local_positions` | `MCLocalTree_ChildrenTotallyOrdered.cfg` | `ChildrenTotallyOrdered` | violation |
| `local_insert_tree` | `MCLocalTree_InsertTreeInsertsEveryNode.cfg` | `InsertTreeInsertsEveryNode` | violation |
| `history_apply` | `MCHistory.cfg` | `TypeOK`, `PageSummaryMatchesVisits` | pass (85,798 distinct states, about 6 s) |
| `visit_batch_once` | `MCVisitBatch_EveryObservationAppliedOnce.cfg` | `EveryObservationAppliedOnce` | violation, 4 states |

### Sync cycle

- **`LocalChangeNotLost`.** A live item whose revision came from a local edit
  and whose change counter is 0 has that revision, or a later one, on the
  server. Breaking it takes several steps: an edit, staging, an upload with a
  partial acknowledgment or a concurrent edit, then `sync_finished`.
  - Mutant `AckedRowsUnfiltered` drops `WHERE guid IN (acked)` and breaks it.
- **`MirrorCoversServer`.** Every server record modified at or before
  `lastSync` is in the mirror, at that revision or a later one. This is
  spec §5's "re-runs never skip unacknowledged remote changes".
  - Mutant `XiusIgnored` drops the precondition and breaks it.
- **`ImplementsReplication`.** The durable state changes only as
  `Replication` allows.
  - Mutant `PushedTombstonesUnacked` drops every staged tombstone at
    `sync_finished`, acknowledged or not, and breaks it.
- **`TypeOK`.** Mutant `StageNoTombstoneCounter` stages tombstones without
  their counter and breaks it.

`sync_connection_kept` checks the same cycle for a host that keeps its
connection. `LocalChangeNotLost` is left out because the finding below
breaks it, and `ImplementsReplication` because a stale row can undo a remote
deletion, a step `Replication` does not allow. The run shows that no remote
change is skipped even so, although leftover rows make later applies roll
back. Its mutant is `XiusIgnored`, as in `sync_cycle`.

**Finding `scratch_left_over` (code bug, `store.rs:966`).** `itemsToUpload` is
emptied only at the end of `push_synced_items`, which runs only after a
successful upload. Spec §5 says the temp tables must be empty at sync start,
which holds only if the host opens a new connection after a failed sync. On a
kept connection TLC finds a lost local edit (16 states):
1. Bookmark `a` is inserted, and the merge stages it with counter snapshot 1.
2. The POST reaches the server, but the response is lost: `sync_finished`
   is not called, and `a`'s row stays staged.
3. The next sync downloads `a`'s own record. `a` is deleted locally, the
   merger takes the remote side, and `a` is live again with counter 0.
4. Staging keeps the stale row (`INSERT OR IGNORE`, and `a` is not changed
   locally). The upload succeeds.
5. `a` is edited before `sync_finished` (counter 1).
6. `sync_finished` subtracts the stale snapshot 1. The counter becomes 0, and
   the edit is never uploaded.

The same stale rows do two more things, which TLC shows too:
- a stale live row is uploaded after another client deleted the item and
  the merge took that deletion, bringing the item back on the server;
- if the item is still changed locally, the plain `INSERT` at
  `store.rs:789` conflicts, and the whole `apply` rolls back on every sync
  until the connection is closed. The comment at `store.rs:764-767` says
  such items are "staged again on the next sync".

**Finding `sync_reupload` (spec/code divergence, `store.rs:1014`).** Spec §5
says the last sync time rules mean re-runs "never re-upload
already-acknowledged ones". TLC finds a counterexample in 13 states:
1. The server stores the POST, but the response is lost (or the process
   crashes before `sync_finished` commits).
2. The counters are still up, and `last_sync` is still the download time.
3. The next sync downloads this client's own record as a remote change.
4. The merger keeps the local side, and the same revision is uploaded again.

The code delivers at-least-once, not the exactly-once that the spec's sentence
claims.

**Finding `sync_upload_blocked` (code bug, `record.rs:189`).**
`LocalChangeEventuallyUploaded` says that a bookmark's local revision
eventually reaches the server, unless the item is edited again or deleted.
It is checked under `SyncingSpec`, which assumes that the host keeps
starting syncs and that the network does not refuse or lose every POST for
ever. The disjunct `serverTime = MaxTime` only marks the end of the model's
clock. TLC finds a lasso:
1. `a` is inserted.
2. `c` is inserted with a `place:` URL. `insert_bookmark` gives it change
   counter 1.
3. Every sync from then on stages `c` as a query. `fetch_outgoing_records`
   then panics in `Serialize` (`unimplemented!("TODO: Serialize queries")`)
   before anything is uploaded.
4. Only `push_synced_items` lowers `c`'s counter, so the next sync panics the
   same way, and `a`'s change never leaves the client.

A changed separator does the same (`record.rs:205`). With `c` a plain
bookmark, the same configuration passes: 1,489,650 distinct states in
about 13 minutes. That run is too slow to keep in the run list. It shows that
without a query, every bookmark change is eventually uploaded under these
assumptions.

### Incoming applicator

- **`UsableRowsHavePlace`.** A bookmark or query row that is not Replace
  points at an interned URL no longer than `URL_LENGTH_MAX`. The hard case is
  a `folder=` query that fits before `excludeItems=1` is appended and does not
  fit after.
  - Mutant `UrlStorableNoLimit` breaks it.
- **`QueryUrlNormalized`.** A stored query URL is never a `type=7` query, and
  a `folder=` query always carries `excludeItems=1`.
  - Mutant `QueryRewriteNoExclude` breaks it.
- **`TypeOK`.** Mutant `ChildPositionOneBased` numbers a folder's children
  from 1 and breaks it.

**Finding `incoming_structure` (spec P2).** `store_incoming_folder`
(`store.rs:398-408`) REPLACEs one structure row per listed child, but never
deletes the rows of children the folder dropped. In the smallest case:
- folder `f` arrives with `[c1]`;
- it arrives again with `[]`;
- `c1` is still listed under `f`.

### Local tree

- **`WellFormedTree`.** Only the user roots sit under the root, and every
  other item sits in a folder that exists.
  - Mutant `InsertRejectedNoRootCheck` breaks it.

**Finding `local_positions` (`bookmarks.rs:183`).** For `Specific(index)`, the
UPDATE binds `:parent` to `parent.parent_id`, so it shifts the grandparent's
children. In the trace, `n1` is appended to `menu` at position 0. `n2` is then
inserted at `Specific(0)` into `menu` and also gets position 0.

**Finding `local_insert_tree` (`bookmarks.rs:305`).** `add_subtree_infos`
pushes a nested folder's children before the folder itself, so
`insert_tree(menu, [n1, n2 { n3 }])`:
- inserts `n1`;
- fails on `n3`, because its parent does not exist yet;
- returns with `n2` and `n3` never inserted.

### History

- **`PageSummaryMatchesVisits`.** For every page, the two visit counts add
  up to the number of its `moz_historyvisits` rows. The later of the two last
  visit dates is the latest `visit_date` stored, and each of the two is 0 or
  one of those dates, whatever order the observations arrive in. Only
  `place_id` and `visit_date` are read: `is_local` is written inverted (see
  below), so a per-side statement over the table would restate that slip.
  - Mutant `AppliedNoMax` drops the `cmp::max` and breaks it.
- **`TypeOK`.** Mutant `AddVisitNoTimestamp` writes a NULL date and breaks it.

**Finding `visit_batch_once` (code bug, `storage.rs:170`).**
`EveryObservationAppliedOnce` says that every observation given to `add` is
handed to `apply_observations` exactly once: never twice, and, once the batch
is flushed, at least once. Both modes of the batcher break it:
- with a limit, `add` applies `pending_observations[..limit]` but never
  drains it, so every later `add` applies the same observations again, and
  so does `flush` (`with_limit(1)`, `add [o1]`, `add [o2]` hands `[o1]` over
  twice);
- without a limit, `add` hands over the pending list and drops the visits it
  was given (`storage.rs:173`), so `flush` hands over an empty list.

### Observations outside the runs

These were met while modelling, and each shows in one or two calls. A unit test
on the function reaches each of them, so no run is spent on them.

- **`is_local` is inverted.** `add_visit` binds the observation's `is_remote`
  to `:is_local` (`storage.rs:245`). `AddVisit` keeps this.
- **The hidden flag is cleared on new pages.** `new_page_info` leaves `hidden`
  at its default of 0. `apply_observation_direct` only ever clears it
  (`storage.rs:300`), so a hidden visit never hides a new page.
- **Reopening a database fails.** `schema::init` re-runs `create` on a file
  that `create` already made, because `VERSION` is 0. The plain
  `CREATE TABLE moz_historyvisits` then fails (`schema.rs:119`). This is
  `Open`'s `"ours"` branch.
- **`origin_id` is never bound.** `schema.rs:36` declares `origin_id`
  NOT NULL, and `new_page_info` does not bind it. On a schema that `create`
  made, every new page therefore fails: this is `NewPageFails`.
- **`apply_observations` never executes** the statement it prepares.
- **Only the record id is translated to a root alias.** Spec §4.1 says that
  decoding translates the wire aliases (`menu`, `toolbar`, ...) in `id` and
  `parentid` to the internal root GUIDs, and that encoding translates back.
  `Serialize` applies `guid_to_id` to `id` (`record.rs:177`) but writes
  `parentid` as it is (`record.rs:179`), so a bookmark in the menu goes out
  with `parentid` `menu________`. One call of `Serialize` shows it.
- **A page without visits panics.** An observation with a title and no
  visit type creates a page with no visits. The next observation of that
  URL panics in `FetchedPageInfo::from_row`, at `expect("No visit id!")`
  (`storage.rs:111`). This is the `"panic_fetch"` outcome of
  `ApplyObservation`, which `history_apply` reaches.

### Bounds

| Bound | Value | Why it is enough |
|---|---|---|
| `Items` | bookmarks `a`, `b` and query `c` | one bookmark can be acknowledged while the other is not; the query exercises `SerializePanics` |
| `MaxRev` | 3 | enough for an insert, a concurrent edit and a write by another client; the 16-state `scratch_left_over` trace needs all three |
| `MaxTime` | 3 | enough for two uploads or other-client writes in one run |
| `MaxCrashes` | 1 | enough for a crash in every window of the cycle |
| `MCIncoming` | `f`, `c1`, `c2`; a small set of hrefs and tags; `URL_LENGTH_MAX` 3, `TAG_LENGTH_MAX` 2 | every branch of the query rewrite; a URL fits before rewriting and not after |
| `MCLocalTree` | `n1..n3`; indices 0..1 | `Specific` below and above the child count; a nested folder in `insert_tree` |
| `MCHistory` | 2 URLs, dates `{1, 2}`, 3 visits | visits of both sides arriving in both timestamp orders; a second page; both initial files |
| `KeepsConnection` | `FALSE` and `TRUE` | both host behaviours after a failed sync |
| `MCVisitBatch` | 4 observations, limits 1..3, `add` of 1-2 | limits below, at and above the pending count |

The passing runs fire every action and every disjunct of their next-state
relations. That includes both outcomes of `MergeApply` and the error and panic
branches of `ApplyObservation`. `VisitBatch` has only its violation run, whose trace fires `New`, `Add` and `Flush`.

Two passing runs say `CHECK_DEADLOCK FALSE`, and in each of them a bound,
not the code, ends the behaviours:
- `local_tree`: once every guid exists, nothing more can be inserted;
- `history_apply`: `MaxVisits` stops the visits, and a closed `"ours"` file
  can never be opened again.


### Fairness

`sync_cycle` and `sync_connection_kept` check safety only, under `Spec`.
Only `sync_upload_blocked` assumes fairness. Its `SyncingSpec` builds on
`FairSpec == Spec /\ WF_vars(CycleSteps)`.

`CycleSteps` covers every step from `ApplyIncoming` to `SyncFinished`. Once
`apply_incoming` is called, the sync driver runs the cycle to its end on one
thread. Each step is a local SQLite transaction or an HTTP request that
returns a response or an error. So a step that stays enabled is eventually
taken.

`Download`, which starts a sync, is not fair: starting a sync is the host's
choice. The environment (edits, other clients, crashes) is not fair either.

`sync_upload_blocked` asks what happens when the host does keep syncing. Its
`SyncingSpec` adds two assumptions to `FairSpec`:
- `WF_vars(Download)`: the host starts syncs;
- `SF_vars(Upload)`: a POST that keeps being possible eventually goes
  through. A refused or lost POST can occur any number of times first.
  `Upload` is only intermittently enabled: X-If-Unmodified-Since refuses it
  after another client's write. So weak fairness would not be enough.

These are hypotheses about the environment, not claims about the code.
They make the counterexample stronger: even a host that syncs for ever
never uploads `a`.

It runs without symmetry, because TLC's symmetry reduction is not
sound for liveness.

## 4. Not modelled

- **The merger (`dogear`).** It is not in `src/`. Only its contract is
  modelled (spec §4.6): it takes either side of a conflict and may weakly
  upload. Deduplication is not modelled, so the content extractors
  (`fetch_new_local_contents` and `fetch_new_remote_contents`, `store.rs:160`
  and `store.rs:274`), which only feed it, are not mapped.
- **Tree structure in the sync cycle.** The cycle does not model tree
  structure: `mergedTree` parents and positions, or `structureToUpload`.
  Structure is modelled on the incoming side (`Incoming`) and the local side
  (`LocalTree`).
- **Root-GUID aliasing.** `id_to_guid` and `guid_to_id` (`record.rs:295`) call
  `BookmarkRootGuid` helpers that `storage/bookmarks.rs` does not define
  (it defines `BookmarkRootGuids` without them). The code in `src/` cannot
  say what they do.
- **`reset` and `wipe`.** `reset` is `unimplemented!`, and `wipe` only logs.
- **`fetch_tree`** (`bookmarks.rs:363`) only prints rows.
- **I/O with no state to check.** This covers:
  - HTTP framing, token handling and meta/global or crypto-key fetches
    (`client.rs:1-93`);
  - `record_types.rs` encryption envelopes;
  - the FxA client (`src/fxa_client`).
