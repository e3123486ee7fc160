------------------------------ MODULE KvPages -------------------------------
(***************************************************************************)
(* The listing of a coordinator's key/value store: the default              *)
(* kv_list_prefix of src/ffi.rs, which collects the pages of kv_list_page   *)
(* (collect_pages), behind the slot of src/macros.rs.  Between two pages     *)
(* other clients change the store.  The backend's kv_list_page is external:  *)
(* it returns the keys of some stretch after the cursor, in order, and the   *)
(* end of the stretch as the next cursor; one that hands back the cursor it  *)
(* was given is the fault collect_pages guards against.                      *)
(***************************************************************************)
EXTENDS Integers, Sequences

CONSTANTS
    MaxKey,         \* the keys with the prefix, in order: 1..MaxKey
    Limits,         \* the limits asked for
    MaxChanges      \* bound: changes of the store during a listing

ASSUME KvAssumption ==
    MaxKey \in Nat /\ Limits \subseteq Nat /\ MaxChanges \in Nat

VARIABLES
    store,      \* the keys in the store
    steady,     \* those that were in it since the listing began
    limit, cursor, listed, pc,
    faulty,     \* the backend handed a cursor back
    changes

kvVars == <<store, steady, limit, cursor, listed, pc, faulty, changes>>

Keys == 1..MaxKey
NoCursor == 0
Members(s) == {s[k] : k \in DOMAIN s}

\* No listing.
KvIdle ==
    /\ store = {} /\ steady = {} /\ limit = 0 /\ cursor = NoCursor
    /\ listed = <<>> /\ pc = "idle" /\ faulty = FALSE /\ changes = 0

\* The slot has decoded its arguments and kv_list_prefix_in begins.
KvInit ==
    /\ store \in SUBSET Keys /\ steady = store
    /\ limit \in Limits /\ cursor = NoCursor /\ listed = <<>>
    /\ pc = "listing" /\ faulty = FALSE /\ changes = 0

-----------------------------------------------------------------------------
\* Another client puts or deletes a key, or one expires.
KvChange ==
    /\ pc = "listing" /\ changes < MaxChanges
    /\ \E k \in Keys :
        \/ k \in store /\ store' = store \ {k}
        \/ k \notin store /\ store' = store \cup {k}
    /\ steady' = steady \cap store'
    /\ changes' = changes + 1
    /\ UNCHANGED <<limit, cursor, listed, pc, faulty>>

Room == limit - Len(listed)

\* Rows that a page can hold: keys in order.
Ordered(s) == \A k, l \in DOMAIN s : k < l => s[k] < s[l]
Rows == {s \in UNION {[1..n -> Keys] : n \in 0..MaxKey} : Ordered(s)}

\* kv_list_page: the keys after the cursor up to `upto`.  How many are asked
\* for is left out, since a backend may return more.
Page(e, upto) ==
    /\ upto \in cursor..MaxKey
    /\ Members(e) = {k \in store : cursor < k /\ k <= upto}

\* Mutant of Taken: the whole page.
TakenWhole(e) == e

\* page.entries.into_iter().take(room)
Taken(e) == IF Len(e) <= Room THEN e ELSE SubSeq(e, 1, Room)

\* A turn of collect_pages' loop, with a page that ends at `upto`: the next
\* cursor is there while anything may follow.
NextPage ==
    /\ pc = "listing" /\ Len(listed) < limit
    /\ \E e \in Rows, upto \in 0..MaxKey :
        /\ Page(e, upto)
        /\ listed' = listed \o Taken(e)
        /\ \/ \* Some(next), another than the one passed
              upto # cursor /\ cursor' = upto /\ UNCHANGED <<pc, faulty>>
           \/ \* None
              /\ \A k \in store : k <= upto
              /\ pc' = "done" /\ UNCHANGED <<cursor, faulty>>
           \/ \* Some(next), the one passed: the loop ends there
              /\ cursor # NoCursor /\ pc' = "done" /\ faulty' = TRUE
              /\ UNCHANGED cursor
    /\ UNCHANGED <<store, steady, limit, changes>>

\* kv_list_page fails, and the listing with it.
PageFails ==
    /\ pc = "listing" /\ Len(listed) < limit
    /\ pc' = "failed"
    /\ UNCHANGED <<store, steady, limit, cursor, listed, faulty, changes>>

\* The loop's condition: enough entries.
LimitReached ==
    /\ pc = "listing" /\ Len(listed) >= limit
    /\ pc' = "done"
    /\ UNCHANGED <<store, steady, limit, cursor, listed, faulty, changes>>

KvNext == KvChange \/ NextPage \/ PageFails \/ LimitReached

KvSpec == KvInit /\ [][KvNext]_kvVars

-----------------------------------------------------------------------------
\* A listing that returns has at most the entries asked for, each key once and
\* in order, and unless it is full or the backend was at fault it has every
\* key that was in the store all along, whatever changed between the pages.
ListingComplete ==
    pc = "done" =>
        /\ Len(listed) <= limit /\ Ordered(listed)
        /\ Len(listed) = limit \/ faulty \/ steady \subseteq Members(listed)

=============================================================================
