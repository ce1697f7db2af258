----------------------------- MODULE VisitBatch -----------------------------
(***************************************************************************)
(* ManyVisitObservations (src/places/src/storage.rs): a batcher that       *)
(* collects VisitObservations and hands them to apply_observations, either *)
(* at every add (new) or once limit of them are pending (with_limit), and  *)
(* at flush.                                                               *)
(*                                                                         *)
(* apply_observations builds its INSERT but does not execute it, so it     *)
(* leaves the database alone; what it is handed is recorded in calls.      *)
(***************************************************************************)
EXTENDS Naturals, Sequences, FiniteSets

CONSTANTS
    Obs,        \* distinct observations; each is added at most once
    MaxLimit,   \* largest limit given to with_limit
    MaxAdd,     \* longest Vec handed to one add
    NoLimit     \* limit: None (ManyVisitObservations::new)

VARIABLES
    batch,      \* "none" or "open": a ManyVisitObservations exists
    limit,      \* its limit, or NoLimit
    pending,    \* pending_observations
    used,       \* observations added so far (keeps each one fresh)
    added,      \* observations added to the current batch, in order (history)
    calls       \* the slices handed to apply_observations, in order (history)

vars == <<batch, limit, pending, used, added, calls>>

TypeOK ==
    /\ batch \in {"none", "open"}
    /\ limit \in {NoLimit} \cup (1..MaxLimit)
    /\ pending \in Seq(Obs)
    /\ used \subseteq Obs
    /\ added \in Seq(Obs)
    /\ calls \in Seq(Seq(Obs))

Init ==
    /\ batch = "none"
    /\ limit = NoLimit
    /\ pending = <<>>
    /\ used = {}
    /\ added = <<>>
    /\ calls = <<>>

\* new / with_limit: an empty batch (the batcher borrows the connection
\* mutably, so there is one at a time).
New(l) ==
    /\ batch = "none"
    /\ batch' = "open"
    /\ limit' = l
    /\ pending' = <<>>
    /\ added' = <<>>
    /\ calls' = <<>>
    /\ UNCHANGED used

\* &self.pending_observations[..limit]
LimitSlice(p, l) == SubSeq(p, 1, l)

\* add(visits).  With a limit: extend pending, and once at least limit are
\* pending hand the first limit of them over (pending is not drained).
\* Without one: hand pending over; visits is not added to it.
Add(vs) ==
    /\ batch = "open"
    /\ LET p == pending \o vs IN
       IF limit # NoLimit
       THEN /\ pending' = p
            /\ calls' = IF Len(p) < limit THEN calls
                        ELSE Append(calls, LimitSlice(p, limit))
       ELSE /\ calls' = Append(calls, pending)
            /\ UNCHANGED pending
    /\ added' = added \o vs
    /\ used' = used \cup {vs[i] : i \in DOMAIN vs}
    /\ UNCHANGED <<batch, limit>>

\* flush(self): hand every pending observation over; the batcher is gone.
Flush ==
    /\ batch = "open"
    /\ calls' = Append(calls, pending)
    /\ batch' = "none"
    /\ UNCHANGED <<limit, pending, used, added>>

\* Vecs of fresh, distinct observations.
FreshVecs ==
    {vs \in UNION {[1..n -> Obs \ used] : n \in 1..MaxAdd} :
        \A i, j \in DOMAIN vs : i # j => vs[i] # vs[j]}

Next ==
    \/ \E l \in {NoLimit} \cup (1..MaxLimit) : New(l)
    \/ \E vs \in FreshVecs : Add(vs)
    \/ Flush

Spec == Init /\ [][Next]_vars

-----------------------------------------------------------------------------
(* Properties.                                                             *)

Occurrences(o) ==
    Cardinality({ci \in UNION {{c} \X DOMAIN calls[c] : c \in DOMAIN calls} :
                    calls[ci[1]][ci[2]] = o})

\* Every observation given to add is handed to apply_observations exactly
\* once: never twice while the batch is open, and, once the batcher is
\* flushed, each added observation has been handed over (the batcher is
\* how Sync and profile migration apply many visits).
EveryObservationAppliedOnce ==
    \A o \in Obs :
        /\ Occurrences(o) <= 1
        /\ (batch = "none" /\ \E i \in DOMAIN added : added[i] = o) => Occurrences(o) = 1

=============================================================================
