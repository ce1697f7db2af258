------------------------------ MODULE History ------------------------------
(***************************************************************************)
(* History storage of the places crate (src/places/src): opening the       *)
(* database (schema.rs init/create) and apply_observation (storage.rs),    *)
(* which records one VisitObservation in moz_places and                    *)
(* moz_historyvisits inside one transaction.                               *)
(*                                                                         *)
(* A page is keyed by its URL.  Titles are abstracted to whether one was   *)
(* set, frecency to the number of visits calculate_frecency was run over.  *)
(* An absent last_visit_date (NULL, read back as Timestamp(0)) is 0.       *)
(***************************************************************************)
EXTENDS Integers, Sequences, FiniteSets

CONSTANTS
    Urls,         \* URLs of pages observations name
    Dates,        \* visit timestamps (all > 0)
    NoRow,        \* absent moz_places row
    NoVisit,      \* an observation without a visit type (title only)
    MaxVisits     \* bound on moz_historyvisits rows

ASSUME Dates \subseteq Nat \ {0}

\* The database file: absent, created by schema::create (user_version 0),
\* or an existing profile with its own moz_places (user_version > 0).
FileKinds == {"empty", "ours", "foreign"}

Page == [title: BOOLEAN, hidden: BOOLEAN, typed: Nat,
         countLocal: Nat, countRemote: Nat,
         lastLocal: Nat, lastRemote: Nat, frecency: Int]

Visit == [remote: BOOLEAN, hidden: BOOLEAN, typed: BOOLEAN, at: Dates, error: BOOLEAN]
Observation == [url: Urls, byGuid: BOOLEAN, title: BOOLEAN, visit: Visit \cup {NoVisit}]

VARIABLES
    file,       \* what is on disk
    dbOpen,     \* a PlacesDb connection is open
    places,     \* moz_places: url -> Page or NoRow
    visits,     \* moz_historyvisits rows, in rowid order
    outcome,    \* result of the last call (history variable)
    openFailed  \* some open of the file returned an error (history variable)

vars == <<file, dbOpen, places, visits, outcome, openFailed>>

\* A moz_historyvisits row: the columns add_visit writes.
VisitRow == [place: Urls, date: Dates, isLocal: BOOLEAN]

TypeOK ==
    /\ file \in FileKinds
    /\ dbOpen \in BOOLEAN
    /\ places \in [Urls -> Page \cup {NoRow}]
    /\ visits \in Seq(VisitRow)
    /\ outcome \in {"none", "ok", "error", "panic_guid", "panic_fetch"}
    /\ openFailed \in BOOLEAN

Init ==
    /\ file \in {"empty", "foreign"}
    /\ dbOpen = FALSE
    /\ places = [u \in Urls |-> NoRow]
    /\ visits = <<>>
    /\ outcome = "none"
    /\ openFailed = FALSE

-----------------------------------------------------------------------------
(* schema::init                                                            *)

\* user_version 0 and no tableList: create() runs, whether or not it ran
\* before (VERSION is 0, so SET_VERSION_SQL leaves user_version at 0).
\* CREATE TABLE IF NOT EXISTS moz_places succeeds, the plain CREATE TABLE
\* moz_historyvisits fails on a file create() already ran on.  A file with
\* a larger user_version only logs a warning.
Open ==
    /\ ~dbOpen
    /\ \/ /\ file = "empty"
          /\ file' = "ours"
          /\ dbOpen' = TRUE
          /\ UNCHANGED openFailed
       \/ /\ file = "ours"
          /\ openFailed' = TRUE
          /\ UNCHANGED <<file, dbOpen>>
       \/ /\ file = "foreign"
          /\ dbOpen' = TRUE
          /\ UNCHANGED <<file, openFailed>>
    /\ UNCHANGED <<places, visits, outcome>>

\* The host drops the connection.
Close ==
    /\ dbOpen
    /\ dbOpen' = FALSE
    /\ UNCHANGED <<file, places, visits, outcome, openFailed>>

-----------------------------------------------------------------------------
(* apply_observation                                                       *)

VisitsOf(u, vs) == {i \in DOMAIN vs : vs[i].place = u}

\* The last_visit_id subquery of fetch_page_info: a visit of the page at
\* its last local or last remote visit date.  FetchedPageInfo::from_row
\* expects one ("No visit id!").
HasLastVisitId(u) ==
    \E i \in VisitsOf(u, visits) :
        visits[i].date \in {places[u].lastLocal, places[u].lastRemote}

\* new_page_info: INSERT INTO moz_places (guid, url, url_hash).  The other
\* columns take the table defaults: hidden 0, typed 0, frecency -1, counts
\* 0, last visit dates NULL.
NewPage == [title |-> FALSE, hidden |-> FALSE, typed |-> 0,
            countLocal |-> 0, countRemote |-> 0,
            lastLocal |-> 0, lastRemote |-> 0, frecency |-> -1]

\* The INSERT omits origin_id, which schema.rs declares NOT NULL without a
\* default: it fails on a file create() made.
NewPageFails == file = "ours"

MaxOf(a, b) == IF a >= b THEN a ELSE b

\* calculate_frecency over the page's visits.
FrecencyOf(u, vs) == Cardinality(VisitsOf(u, vs))

\* Mutant: a visit without a timestamp is written with a NULL date instead
\* of Timestamp::now().
AddVisitNoTimestamp(u, v) ==
    Append(visits, [place |-> u, date |-> 0, isLocal |-> v.remote])

\* add_visit: binds the observation's is_remote to :is_local.
AddVisit(u, v) ==
    Append(visits, [place |-> u, date |-> v.at, isLocal |-> v.remote])

\* Mutant: the last visit date is overwritten, without cmp::max.
AppliedNoMax(u, p, ob, vs) ==
    LET v  == ob.visit
        p1 == IF ob.title THEN [p EXCEPT !.title = TRUE] ELSE p
    IN  IF v = NoVisit THEN p1
        ELSE [p1 EXCEPT
                !.hidden = IF ~v.hidden THEN FALSE ELSE @,
                !.typed = IF v.typed THEN @ + 1 ELSE @,
                !.countRemote = IF v.remote THEN @ + 1 ELSE @,
                !.countLocal = IF v.remote THEN @ ELSE @ + 1,
                !.lastRemote = IF v.remote THEN v.at ELSE @,
                !.lastLocal = IF v.remote THEN @ ELSE v.at,
                !.frecency = IF v.error THEN @ ELSE FrecencyOf(u, vs)]

\* apply_observation_direct on page p (fetched or new): the title, then
\* for a visit the hidden and typed flags, add_visit, the counter and last
\* visit date of its side, and frecency unless the visit is an error.
Applied(u, p, ob, vs) ==
    LET v  == ob.visit
        p1 == IF ob.title THEN [p EXCEPT !.title = TRUE] ELSE p
    IN  IF v = NoVisit THEN p1
        ELSE [p1 EXCEPT
                !.hidden = IF ~v.hidden THEN FALSE ELSE @,
                !.typed = IF v.typed THEN @ + 1 ELSE @,
                !.countRemote = IF v.remote THEN @ + 1 ELSE @,
                !.countLocal = IF v.remote THEN @ ELSE @ + 1,
                !.lastRemote = IF v.remote THEN MaxOf(v.at, @) ELSE @,
                !.lastLocal = IF v.remote THEN @ ELSE MaxOf(v.at, @),
                !.frecency = IF v.error THEN @ ELSE FrecencyOf(u, vs)]

\* One call of apply_observation: all of it commits, or (on an error or a
\* panic, which unwinds through the transaction) none of it.
ApplyObservation(ob) ==
    LET u  == ob.url
        vs == IF ob.visit = NoVisit THEN visits ELSE AddVisit(u, ob.visit)
    IN
    /\ dbOpen
    /\ ob.visit # NoVisit => Len(visits) < MaxVisits
    /\ \/ /\ places[u] # NoRow /\ ~HasLastVisitId(u)
          /\ outcome' = "panic_fetch"
          /\ UNCHANGED <<places, visits>>
       \/ /\ places[u] = NoRow /\ ob.byGuid
          /\ outcome' = "panic_guid"
          /\ UNCHANGED <<places, visits>>
       \/ /\ places[u] = NoRow /\ ~ob.byGuid /\ NewPageFails
          /\ outcome' = "error"
          /\ UNCHANGED <<places, visits>>
       \/ /\ \/ places[u] # NoRow /\ HasLastVisitId(u)
             \/ places[u] = NoRow /\ ~ob.byGuid /\ ~NewPageFails
          /\ places' = [places EXCEPT ![u] =
                           Applied(u, IF @ = NoRow THEN NewPage ELSE @, ob, vs)]
          /\ visits' = vs
          /\ outcome' = "ok"
    /\ UNCHANGED <<file, dbOpen, openFailed>>

Next ==
    \/ Open
    \/ Close
    \/ \E ob \in Observation : ApplyObservation(ob)

Spec == Init /\ [][Next]_vars

-----------------------------------------------------------------------------
(* Properties.                                                             *)

LatestOf(S) == IF S = {} THEN 0 ELSE CHOOSE d \in S : \A e \in S : e <= d

\* The per-page visit summary apply_observation_direct maintains agrees with
\* the moz_historyvisits rows stored for the page, however the observations
\* interleave and whatever order their timestamps arrive in (sync delivers
\* older visits later): visit_count_local plus visit_count_remote is the
\* number of the page's visits, the later of last_visit_date_local and
\* last_visit_date_remote is the latest visit_date stored, and each of the
\* two is 0 or the date of one of them.  Only place_id and visit_date are
\* read: add_visit writes is_local from the observation's is_remote.
PageSummaryMatchesVisits ==
    \A u \in Urls : places[u] # NoRow =>
        LET dates == {visits[i].date : i \in VisitsOf(u, visits)}
        IN  /\ places[u].countLocal + places[u].countRemote
                   = Cardinality(VisitsOf(u, visits))
            /\ MaxOf(places[u].lastLocal, places[u].lastRemote) = LatestOf(dates)
            /\ {places[u].lastLocal, places[u].lastRemote} \subseteq dates \cup {0}

=============================================================================
