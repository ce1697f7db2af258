--------------------------- MODULE MCBookmarkSync ---------------------------
(* Model-checking instance of BookmarkSync: two bookmarks (so that an     *)
(* upload can be acknowledged in part) and a bookmark with a place: URL,  *)
(* a query to type_to_kind, which Serialize cannot encode.                 *)
EXTENDS BookmarkSync, TLC

CONSTANTS a, b, c

MCItems == {a, b, c}

MCKind == (a :> "bookmark") @@ (b :> "bookmark") @@ (c :> "query")
=============================================================================
