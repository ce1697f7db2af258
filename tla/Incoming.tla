------------------------------ MODULE Incoming ------------------------------
(***************************************************************************)
(* The incoming record applicator of BookmarksStore (store.rs:345-632):    *)
(* apply_payload and the store_incoming_* writes of one record each into   *)
(* the mirror (moz_bookmarks_synced), its structure table                  *)
(* (moz_bookmarks_synced_structure) and moz_places, through which URLs     *)
(* are interned.                                                           *)
(*                                                                         *)
(* A URL is abstracted to the key/value pairs the query rewrite looks at   *)
(* and its length; a tag to its trimmed length.                            *)
(***************************************************************************)
EXTENDS Naturals, Sequences, FiniteSets

CONSTANTS
    FolderGuids,    \* GUIDs that arrive as folder records
    LeafGuids,      \* GUIDs that arrive as bookmark, query, livemark, separator
    ChildLists,     \* children arrays a folder record may carry
    Hrefs,          \* URL fields a record may carry (NoUrl, unparsable or parsed)
    Tags,           \* trimmed lengths of folderName, or NoTag
    NoUrl, BadUrl,  \* absent URL, URL that Url::parse rejects
    NoTag,          \* absent folderName
    NoRow,          \* absent row
    URL_LENGTH_MAX, TAG_LENGTH_MAX,
    TagPrefixLen,   \* length of "place:tag="
    ExclLen         \* length of "&excludeItems=1"

Guids == FolderGuids \cup LeafGuids

\* The query pairs determine_query_url_and_validity inspects.
QueryKeys == {"type7", "folder", "excludeItems", "tag"}
Url == [pairs: SUBSET QueryKeys, len: Nat]

Validities == {"Valid", "Reupload", "Replace"}
Kinds == {"Bookmark", "Query", "Folder", "Livemark", "Separator", "None"}

VARIABLES
    mirror,      \* moz_bookmarks_synced: guid -> row
    structure,   \* moz_bookmarks_synced_structure: child guid -> [parent, position]
    places,      \* URLs interned into moz_places
    lastRecord   \* the last record ingested for each folder guid (history variable)

vars == <<mirror, structure, places, lastRecord>>

MirrorRow == [kind: Kinds, deleted: BOOLEAN, validity: Validities,
              place: Url \cup {NoUrl}, feed: Url \cup {NoUrl}, needsMerge: BOOLEAN]

\* The longest children array a folder record carries.
ChildCap == CHOOSE n \in {Len(l) : l \in ChildLists} : \A l \in ChildLists : Len(l) <= n

TypeOK ==
    /\ mirror \in [Guids -> MirrorRow \cup {NoRow}]
    /\ structure \in [Guids -> [parent: FolderGuids, position: 0..(ChildCap - 1)] \cup {NoRow}]
    /\ places \subseteq Url
    /\ \A f \in FolderGuids : lastRecord[f] = NoRow \/ lastRecord[f].guid = f

Init ==
    /\ mirror = [g \in Guids |-> NoRow]
    /\ structure = [g \in Guids |-> NoRow]
    /\ places = {}
    /\ lastRecord = [f \in FolderGuids |-> NoRow]

Row(kind, validity, place, feed) ==
    [kind |-> kind, deleted |-> FALSE, validity |-> validity,
     place |-> place, feed |-> feed, needsMerge |-> TRUE]

-----------------------------------------------------------------------------
(* URL helpers.                                                            *)

\* Mutant: maybe_store_url without the URL_LENGTH_MAX check.
UrlStorableNoLimit(u) == u \notin {NoUrl, BadUrl}

\* validate_tag: the trimmed tag, unless empty or longer than TAG_LENGTH_MAX.
ValidTag(t) == t # NoTag /\ t > 0 /\ t <= TAG_LENGTH_MAX

\* maybe_store_url succeeds unless the URL is absent or too long; on success
\* it interns the URL (INSERT OR IGNORE INTO moz_places).
UrlStorable(u) == u \notin {NoUrl, BadUrl} /\ u.len <= URL_LENGTH_MAX

Intern(u) == IF UrlStorable(u) THEN places \cup {u} ELSE places

\* The placeId subquery: the moz_places row with this URL, if any.
PlaceOf(u, p) == IF u \in p THEN u ELSE NoUrl

\* Mutant: a folder= query is accepted without appending excludeItems=1.
QueryRewriteNoExclude(u, tag) ==
    IF "type7" \in u.pairs
    THEN IF ValidTag(tag)
         THEN <<[pairs |-> {"tag"}, len |-> TagPrefixLen + tag], "Reupload">>
         ELSE <<NoUrl, "Replace">>
    ELSE <<u, "Valid">>

\* determine_query_url_and_validity, before maybe_store_url.
QueryRewrite(u, tag) ==
    IF "type7" \in u.pairs
    THEN IF ValidTag(tag)
         THEN <<[pairs |-> {"tag"}, len |-> TagPrefixLen + tag], "Reupload">>
         ELSE <<NoUrl, "Replace">>
    ELSE IF "folder" \in u.pairs /\ "excludeItems" \notin u.pairs
    THEN <<[pairs |-> u.pairs \cup {"excludeItems"}, len |-> u.len + ExclLen], "Reupload">>
    ELSE <<u, "Valid">>

\* store_incoming_query's URL and validity: a URL that does not parse is
\* Replace; otherwise the rewrite, then Replace if maybe_store_url fails.
QueryUrlAndValidity(href, tag) ==
    IF href \in {NoUrl, BadUrl} THEN <<NoUrl, "Replace">>
    ELSE LET r == QueryRewrite(href, tag)
         IN  IF UrlStorable(r[1]) THEN r ELSE <<NoUrl, "Replace">>

\* validate_href of store_incoming_livemark: parsed and not too long.
LivemarkHref(h) == IF UrlStorable(h) THEN h ELSE NoUrl

-----------------------------------------------------------------------------
(* One action per store_incoming_* (dispatched by apply_payload).          *)

Ingested(rec) ==
    lastRecord' = IF rec.guid \in FolderGuids
                  THEN [lastRecord EXCEPT ![rec.guid] = rec] ELSE lastRecord

StoreIncomingBookmark(rec) ==
    LET ok == UrlStorable(rec.href)
        p  == Intern(rec.href)
    IN  /\ places' = p
        /\ mirror' = [mirror EXCEPT ![rec.guid] =
                        Row("Bookmark", IF ok THEN "Valid" ELSE "Replace",
                            IF ok THEN PlaceOf(rec.href, p) ELSE NoUrl, NoUrl)]
        /\ Ingested(rec)
        /\ UNCHANGED structure

\* Mutant: positions counted from 1 instead of enumerate()'s 0.
ChildPositionOneBased(children, c) == CHOOSE i \in 1..Len(children) : children[i] = c

\* The position enumerate() gives child c in the children array.
ChildPosition(children, c) == CHOOSE i \in 0..(Len(children) - 1) : children[i + 1] = c

\* REPLACE of the folder's row, then one REPLACE per child keyed on the
\* child's guid; rows of children the folder no longer lists stay.
StoreIncomingFolder(rec) ==
    /\ mirror' = [mirror EXCEPT ![rec.guid] = Row("Folder", "Valid", NoUrl, NoUrl)]
    /\ structure' = [c \in Guids |->
                        IF \E i \in 1..Len(rec.children) : rec.children[i] = c
                        THEN [parent |-> rec.guid, position |-> ChildPosition(rec.children, c)]
                        ELSE structure[c]]
    /\ Ingested(rec)
    /\ UNCHANGED places

StoreIncomingTombstone(rec) ==
    /\ mirror' = [mirror EXCEPT ![rec.guid] =
                    [Row("None", "Valid", NoUrl, NoUrl) EXCEPT !.deleted = TRUE]]
    /\ Ingested(rec)
    /\ UNCHANGED <<structure, places>>

StoreIncomingQuery(rec) ==
    LET r == QueryUrlAndValidity(rec.href, rec.tag)
        p == Intern(r[1])
    IN  /\ places' = p
        /\ mirror' = [mirror EXCEPT ![rec.guid] =
                        Row("Query", r[2], PlaceOf(r[1], p), NoUrl)]
        /\ Ingested(rec)
        /\ UNCHANGED structure

StoreIncomingLivemark(rec) ==
    LET feed == LivemarkHref(rec.href)
    IN  /\ mirror' = [mirror EXCEPT ![rec.guid] =
                        Row("Livemark", IF feed # NoUrl THEN "Valid" ELSE "Replace",
                            NoUrl, feed)]
        /\ Ingested(rec)
        /\ UNCHANGED <<structure, places>>

StoreIncomingSep(rec) ==
    /\ mirror' = [mirror EXCEPT ![rec.guid] = Row("Separator", "Valid", NoUrl, NoUrl)]
    /\ Ingested(rec)
    /\ UNCHANGED <<structure, places>>

\* The records apply_payload can be handed (BookmarkItemRecord::from_payload).
FolderRecords    == [kind: {"Folder"}, guid: FolderGuids, children: ChildLists]
BookmarkRecords  == [kind: {"Bookmark"}, guid: LeafGuids, href: Hrefs]
QueryRecords     == [kind: {"Query"}, guid: LeafGuids, href: Hrefs, tag: Tags]
LivemarkRecords  == [kind: {"Livemark"}, guid: LeafGuids, href: Hrefs]
SepRecords       == [kind: {"Separator"}, guid: LeafGuids]
TombstoneRecords == [kind: {"Tombstone"}, guid: Guids]

Next ==
    \/ \E rec \in TombstoneRecords : StoreIncomingTombstone(rec)
    \/ \E rec \in BookmarkRecords  : StoreIncomingBookmark(rec)
    \/ \E rec \in QueryRecords     : StoreIncomingQuery(rec)
    \/ \E rec \in FolderRecords    : StoreIncomingFolder(rec)
    \/ \E rec \in LivemarkRecords  : StoreIncomingLivemark(rec)
    \/ \E rec \in SepRecords       : StoreIncomingSep(rec)

Spec == Init /\ [][Next]_vars

-----------------------------------------------------------------------------
(* Properties.                                                             *)

\* Every bookmark or query row that is not Replace points at a moz_places
\* row holding a storable URL: maybe_store_url interns the URL, refusing
\* one longer than URL_LENGTH_MAX, before the placeId subquery reads it.
UsableRowsHavePlace ==
    \A g \in Guids :
        (mirror[g] # NoRow /\ mirror[g].kind \in {"Bookmark", "Query"}
            /\ mirror[g].validity # "Replace")
            => /\ mirror[g].place \in places
               /\ mirror[g].place.len <= URL_LENGTH_MAX

\* Every query row keeps a URL the local tree can use: never a
\* "results as tag contents" query (rewritten to place:tag=), and a folder=
\* query only with excludeItems=1 (determine_query_url_and_validity).
QueryUrlNormalized ==
    \A g \in Guids :
        (mirror[g] # NoRow /\ mirror[g].kind = "Query" /\ mirror[g].place # NoUrl)
            => /\ "type7" \notin mirror[g].place.pairs
               /\ "folder" \in mirror[g].place.pairs
                    => "excludeItems" \in mirror[g].place.pairs

\* The mirror structure says what the folders last said (spec P2): for a
\* folder whose last ingested record is a folder, the children recorded in
\* the structure table are exactly that record's children, each at its
\* index (store_incoming_folder's REPLACE per child).
StructureMatchesLastPayload ==
    \A F \in FolderGuids :
        (lastRecord[F] # NoRow /\ lastRecord[F].kind = "Folder") =>
            LET kids == lastRecord[F].children IN
            /\ {c \in Guids : structure[c] # NoRow /\ structure[c].parent = F}
                 = {kids[i] : i \in 1..Len(kids)}
            /\ \A i \in 1..Len(kids) : structure[kids[i]].position = i - 1

=============================================================================
