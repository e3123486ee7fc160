------------------------------ MODULE Inventory ------------------------------
(***************************************************************************)
(* The inventory watch of src/inventory.rs: a thread lists a store, diffs   *)
(* the listing against the one the host has confirmed, emits the changes    *)
(* and confirms them on the host's acknowledgements; a restart resumes from *)
(* the position the host stored with the last event.                        *)
(*                                                                         *)
(* A listing maps each key to the digest of its object, or to Absent.  The  *)
(* engine's state is private to the thread, so one poll is one action; the  *)
(* store, the host and the thread interleave around it.                     *)
(***************************************************************************)
EXTENDS Integers, Sequences, FiniteSets

CONSTANTS
    Keys,           \* object keys; their order is the order of the numbers
    Digests,        \* digests an object can have
    Absent,         \* no such object
    Setups          \* the watches to look at, and the bounds on each

Setup == [
    keys : SUBSET Keys,         \* the objects of the store
    digests : SUBSET Digests,   \* the digests they take
    eventSource : BOOLEAN,      \* is_event_source(resource_uri)
    existing : BOOLEAN,         \* InventoryOptions::start is Existing, not Now
    quietRemovals : BOOLEAN,    \* InventoryHooks::quiet_removals
    maxInFlight : 1..1000,      \* InventoryOptions::max_in_flight
    snapObjects : Nat,          \* how many objects snapshot_bytes has room for
    maxChanges : Nat,           \* bound: changes of the store
    maxDrops : Nat,             \* bound: events the host drops
    maxLate : Nat,              \* bound: events the host handles after ack_timeout
    maxWakes : Nat,             \* bound: change notifications of the plugin
    maxRestarts : Nat]          \* bound: restarts of the watch

\* max_in_flight is what InventoryOptions::validate accepts.
ASSUME InventoryAssumption ==
    /\ Keys \subseteq Nat /\ IsFiniteSet(Keys)
    /\ Absent \notin Digests
    /\ Setups \subseteq Setup

VARIABLES
    opts,           \* the setup of this behaviour
    store,          \* what list() would return now (external)
    changes,        \* how often it changed
    \* Inventory
    confirmed,      \* Inventory::confirmed
    pending,        \* Inventory::pending, without the instants
    nextSeq,        \* Inventory::next_seq
    elapsed,        \* the pending changes below this seq have timed out
    baseline,       \* Inventory::baseline
    gap,            \* Inventory::gap
    \* the watch's thread
    pc,
    changed,        \* a Changed was read while draining the channel
    wakes,          \* the channel of Wake messages
    stop,           \* InventoryState::stop
    \* the host (external)
    inbox,          \* events emitted that the host has not handled
    view,           \* the listing the host knows
    position,       \* the cursor stored with its last event
    drops, late, woken, restarts

engine == <<confirmed, pending, nextSeq, elapsed, baseline, gap>>
thread == <<pc, changed, stop>>
bounds == <<changes, drops, late, woken, restarts>>
host   == <<inbox, view, position>>
vars   == <<opts, store, engine, thread, wakes, host, bounds>>

Listings == [Keys -> Digests \cup {Absent}]
Empty == [k \in Keys |-> Absent]
NoSnap == <<>>
NoPosition == [known |-> FALSE, snap |-> NoSnap]
Ack(seq) == [type |-> "ack", seq |-> seq]
Changed == [type |-> "changed", seq |-> -1]
Stop == [type |-> "stop", seq |-> -1]
Change(k, d, seq, snap) ==
    [type |-> "change", key |-> k, digest |-> d, seq |-> seq, snap |-> snap]
Gap == [type |-> "gap"]
Bare == [type |-> "bare"]

\* The elements of a set of keys in the order of a BTreeMap.
InOrder(S) ==
    [i \in 1..Cardinality(S) |->
        CHOOSE k \in S : Cardinality({j \in S : j <= k}) = i]

-----------------------------------------------------------------------------
(* The diff engine *)

\* Inventory::new: the confirmed listing, the baseline and the gap of a resume.
Resume(p) ==
    IF ~p.known
      THEN [confirmed |-> Empty, gap |-> FALSE,
            baseline |-> IF opts.existing THEN "Report" ELSE "Silent"]
    ELSE IF p.snap # NoSnap
      THEN [confirmed |-> p.snap, baseline |-> "Known", gap |-> FALSE]
    ELSE [confirmed |-> Empty, baseline |-> "Silent", gap |-> TRUE]

\* Inventory::pending_digest over the changes ps: the last pending change of k
\* leads to digest d (Absent for a deletion).
PendingTo(ps, k, d) ==
    \E i \in 1..Len(ps) :
        /\ ps[i].key = k /\ ps[i].digest = d
        /\ \A j \in i + 1 .. Len(ps) : ps[j].key # k

\* Mutant of Diff: what is in flight is not looked at.
DiffIgnoringPending(ps, listing) == {k \in Keys : confirmed[k] # listing[k]}

\* The keys whose listed digest is neither confirmed nor already in flight.
Diff(ps, listing) ==
    {k \in Keys : confirmed[k] # listing[k] /\ ~PendingTo(ps, k, listing[k])}

\* Vec::retain of the changes with number n or a later one: `pending` is in the
\* order of its numbers, so these are its last ones.
From(ps, n) == SubSeq(ps, Cardinality({i \in 1..Len(ps) : ps[i].seq < n}) + 1, Len(ps))

\* Mutant of Retained: a change waits for its acknowledgement for ever.
RetainedForever == pending

\* What is left of `pending` after the expiry at the top of poll.
Retained == From(pending, elapsed)

\* Mutant of Snapshot: the confirmed listing without the change.
SnapshotBefore(known, k, d) == known

\* Inventory::snapshot: the confirmed listing with the change of k to d, when
\* it fits the budget.
Snapshot(known, k, d) ==
    LET snap == [known EXCEPT ![k] = d]
    IN  IF Cardinality({j \in Keys : snap[j] # Absent}) <= opts.snapObjects
        THEN snap ELSE NoSnap

\* Mutant of RoomAfter: the changes already in flight are not counted.
RoomAfterNone(ps) == opts.maxInFlight

\* The room of poll, max_in_flight.saturating_sub(pending.len()).
RoomAfter(ps) == IF Len(ps) < opts.maxInFlight THEN opts.maxInFlight - Len(ps) ELSE 0

\* Mutant of SeqAfter: the sequence number is not moved on.
SeqAfterSame(n) == nextSeq

\* next_seq after n changes.
SeqAfter(n) == nextSeq + n

\* The objects known and not listed, whose deletion is not in flight.
Gone(listing) == {k \in Diff(Retained, listing) : listing[k] = Absent}

\* The confirmed listing once quiet removals are forgotten.
Remembered(listing) ==
    [k \in Keys |-> IF opts.quietRemovals /\ k \in Gone(listing) THEN Absent ELSE confirmed[k]]

\* The objects to report: those created and modified, then those deleted, each
\* in key order ...
Report(listing) ==
    InOrder(Diff(Retained, listing) \ Gone(listing))
        \o InOrder(IF opts.quietRemovals THEN {} ELSE Gone(listing))

\* ... and how many of them there is room for.
Cut(listing) ==
    IF Len(Report(listing)) < RoomAfter(Retained) THEN Len(Report(listing))
    ELSE RoomAfter(Retained)

\* Inventory::poll of a full listing: the engine after it and the changes it
\* makes, behind the event of a gap.  The last one carries the snapshot.
Poll(listing) ==
    LET keys == Report(listing)
        cut  == Cut(listing)
        snap(i) == IF i = cut THEN Snapshot(Remembered(listing), keys[i], listing[keys[i]])
                   ELSE NoSnap
    IN  IF baseline = "Silent"
        THEN [confirmed |-> listing, pending |-> Retained, nextSeq |-> nextSeq,
              changes |-> <<>>]
        ELSE [confirmed |-> Remembered(listing),
              pending |-> Retained \o [i \in 1..cut |->
                  [seq |-> nextSeq + i - 1, key |-> keys[i], digest |-> listing[keys[i]]]],
              nextSeq |-> SeqAfter(cut),
              changes |-> [i \in 1..cut |->
                  Change(keys[i], listing[keys[i]], nextSeq + i - 1, snap(i))]]

\* Mutant of Acknowledged: an acknowledgement confirms all changes up to it.
AcknowledgedUpTo(con, ps, seq) ==
    LET upTo(k) == {i \in 1..Len(ps) : ps[i].seq <= seq /\ ps[i].key = k}
    IN  IF ~\E i \in 1..Len(ps) : ps[i].seq = seq
        THEN [confirmed |-> con, pending |-> ps]
        ELSE [confirmed |-> [k \in Keys |->
                  IF upTo(k) = {} THEN con[k]
                  ELSE ps[CHOOSE i \in upTo(k) : \A j \in upTo(k) : j <= i].digest],
              pending |-> From(ps, seq + 1)]

\* Inventory::acknowledged: a change still pending is confirmed, and those
\* before it count as dropped.
Acknowledged(con, ps, seq) ==
    LET at == {i \in 1..Len(ps) : ps[i].seq = seq}
        p  == ps[CHOOSE i \in at : TRUE]
    IN  IF at = {}
        THEN [confirmed |-> con, pending |-> ps]
        ELSE [confirmed |-> [con EXCEPT ![p.key] = p.digest],
              pending |-> From(ps, seq + 1)]

\* Inventory::has_room.
HasRoom == Len(pending) < opts.maxInFlight

-----------------------------------------------------------------------------
Init ==
    /\ opts \in Setups
    /\ store \in {l \in Listings : \A k \in Keys :
                    l[k] \in IF k \in opts.keys THEN opts.digests \cup {Absent} ELSE {Absent}}
    /\ changes = 0
    /\ confirmed = Resume(NoPosition).confirmed
    /\ baseline = Resume(NoPosition).baseline
    /\ gap = Resume(NoPosition).gap
    /\ pending = <<>> /\ nextSeq = 0 /\ elapsed = 0
    /\ pc = "top" /\ changed = FALSE /\ wakes = <<>> /\ stop = FALSE
    /\ inbox = <<>> /\ view = Empty /\ position = NoPosition
    /\ drops = 0 /\ late = 0 /\ woken = 0 /\ restarts = 0

\* The store: an object is created, modified or deleted.
StoreChanges ==
    /\ changes < opts.maxChanges
    /\ \E k \in opts.keys, d \in opts.digests \cup {Absent} :
        d # store[k] /\ store' = [store EXCEPT ![k] = d]
    /\ changes' = changes + 1
    /\ UNCHANGED <<opts, engine, thread, wakes, host, drops, late, woken, restarts>>

-----------------------------------------------------------------------------
(* The thread of spawn_inventory_watch_hooked *)

\* With a full window the thread does not list at all.
Top ==
    /\ pc = "top"
    /\ pc' = IF stop THEN "stopped" ELSE IF HasRoom THEN "list" ELSE "wait"
    /\ UNCHANGED <<opts, store, engine, changed, stop, wakes, host, bounds>>

ListFails ==
    /\ pc = "list" /\ pc' = "wait"
    /\ UNCHANGED <<opts, store, engine, changed, stop, wakes, host, bounds>>

\* Mutant of SelfAcknowledged: the changes of a resource watch wait for an
\* acknowledgement no host sends.
SelfAcknowledgedNot(p, own) == [confirmed |-> p.confirmed, pending |-> p.pending]

\* What a resource watch's own acknowledgement of the changes `own` leaves.
SelfAcknowledged(p, own) ==
    [confirmed |-> [k \in Keys |->
         IF \E i \in 1..Len(own) : own[i].key = k THEN store[k] ELSE p.confirmed[k]],
     pending |-> IF own = <<>> THEN p.pending ELSE <<>>]

\* list() and poll: an event source emits each event; a resource watch
\* acknowledges them itself and emits one bare change, if any event is a change.
\* What the first silent listing holds is the host's starting point.
ListOk ==
    /\ pc = "list" /\ pc' = "wait"
    /\ LET p == Poll(store)
           first == IF gap THEN <<Gap>> ELSE <<>>
           after == IF opts.eventSource THEN p ELSE SelfAcknowledged(p, p.changes)
       IN  /\ confirmed' = after.confirmed /\ pending' = after.pending
           /\ inbox' = inbox \o (IF opts.eventSource THEN first \o p.changes
                                 ELSE IF p.changes = <<>> THEN <<>> ELSE <<Bare>>)
           /\ nextSeq' = p.nextSeq
    /\ view' = IF baseline = "Silent" THEN store ELSE view
    /\ baseline' = "Known" /\ gap' = FALSE
    /\ UNCHANGED <<opts, store, elapsed, changed, stop, wakes, position, bounds>>

\* recv_timeout runs out: the interval is over.
Timeout ==
    /\ pc = "wait" /\ wakes = <<>>
    /\ pc' = "top"
    /\ UNCHANGED <<opts, store, engine, changed, stop, wakes, host, bounds>>

\* One message of the channel, while waiting or while draining what came with
\* the first; a Changed makes the thread list once the channel is empty.
Recv ==
    /\ pc \in {"wait", "drain"} /\ wakes # <<>>
    /\ LET w == Head(wakes)
           a == Acknowledged(confirmed, pending, w.seq)
           isAck == w.type = "ack"
       IN  /\ pc' = IF w.type = "stop" THEN "stopped" ELSE "drain"
           /\ changed' = (w.type = "changed" \/ (pc = "drain" /\ changed))
           /\ confirmed' = IF isAck THEN a.confirmed ELSE confirmed
           /\ pending' = IF isAck THEN a.pending ELSE pending
    /\ wakes' = Tail(wakes)
    /\ UNCHANGED <<opts, store, nextSeq, elapsed, baseline, gap, stop, host, bounds>>

\* try_recv finds the channel empty.
Drained ==
    /\ pc = "drain" /\ wakes = <<>>
    /\ pc' = IF changed THEN "top" ELSE "wait"
    /\ changed' = FALSE
    /\ UNCHANGED <<opts, store, engine, stop, wakes, host, bounds>>

\* The host has still to handle change seq, or the thread its acknowledgement.
Underway(seq) ==
    \/ \E j \in 1..Len(inbox) : inbox[j].type = "change" /\ inbox[j].seq = seq
    \/ \E j \in 1..Len(wakes) : wakes[j] = Ack(seq)

\* ack_timeout passes for the oldest pending change it has not passed for: the
\* host dropped it, or is late with it.
Elapse ==
    /\ \E i \in 1..Len(pending) :
        /\ pending[i].seq >= elapsed
        /\ \A j \in 1..Len(pending) :
            pending[j].seq >= elapsed => pending[i].seq <= pending[j].seq
        /\ \/ ~Underway(pending[i].seq) /\ UNCHANGED late
           \/ Underway(pending[i].seq) /\ late < opts.maxLate /\ late' = late + 1
        /\ elapsed' = pending[i].seq + 1
    /\ UNCHANGED <<opts, store, confirmed, pending, nextSeq, baseline, gap, thread,
                   wakes, host, changes, drops, woken, restarts>>

-----------------------------------------------------------------------------
(* The host and the plugin *)

\* The host stores the next event with its position and acknowledges it.  A
\* gap carries no position; a bare change makes it read the resource again.
Store ==
    /\ inbox # <<>> /\ ~stop
    /\ LET e == Head(inbox) IN
        \/ /\ e.type = "change"
           /\ view' = [view EXCEPT ![e.key] = e.digest]
           /\ position' = [known |-> TRUE, snap |-> e.snap]
           /\ wakes' = Append(wakes, Ack(e.seq))
        \/ e.type = "gap" /\ UNCHANGED <<view, position, wakes>>
        \/ e.type = "bare" /\ view' = store /\ UNCHANGED <<position, wakes>>
    /\ inbox' = Tail(inbox)
    /\ UNCHANGED <<opts, store, engine, thread, bounds>>

Drop ==
    /\ inbox # <<>> /\ ~stop /\ drops < opts.maxDrops
    /\ Head(inbox).type # "gap"
    /\ inbox' = Tail(inbox) /\ drops' = drops + 1
    /\ UNCHANGED <<opts, store, engine, thread, wakes, view, position, changes, late, woken,
                   restarts>>

\* InventoryWaker::wake.
Wake ==
    /\ woken < opts.maxWakes /\ ~stop
    /\ wakes' = Append(wakes, Changed) /\ woken' = woken + 1
    /\ UNCHANGED <<opts, store, engine, thread, host, changes, drops, late, restarts>>

\* cancel_inventory_watch: the flag, the message, then the join.
Cancel ==
    /\ restarts < opts.maxRestarts /\ ~stop
    /\ stop' = TRUE /\ wakes' = Append(wakes, Stop)
    /\ restarts' = restarts + 1
    /\ UNCHANGED <<opts, store, engine, pc, changed, host, changes, drops, late, woken>>

\* A new watch resumes from the stored position.  Events the host had not
\* stored and acknowledgements the old thread had not read are lost.
Respawn ==
    /\ pc = "stopped"
    /\ LET r == Resume(position) IN
        /\ confirmed' = r.confirmed /\ baseline' = r.baseline /\ gap' = r.gap
    /\ pending' = <<>> /\ nextSeq' = 0 /\ elapsed' = 0
    /\ pc' = "top" /\ changed' = FALSE /\ stop' = FALSE
    /\ wakes' = <<>> /\ inbox' = <<>>
    /\ UNCHANGED <<opts, store, view, position, bounds>>

Thread == Top \/ ListFails \/ ListOk \/ Timeout \/ Recv \/ Drained

Next == StoreChanges \/ Thread \/ Elapse \/ Store \/ Drop \/ Wake
        \/ Cancel \/ Respawn

Spec == Init /\ [][Next]_vars

\* The thread runs and its listing does not fail for ever; time passes; the
\* host handles its events and starts the watch again after a cancel.
Fairness ==
    /\ WF_vars(Thread) /\ SF_vars(ListOk)
    /\ WF_vars(Elapse) /\ WF_vars(Store) /\ WF_vars(Respawn)

FairSpec == Spec /\ Fairness

-----------------------------------------------------------------------------
Pendings == [seq : 0..nextSeq - 1, key : Keys, digest : Digests \cup {Absent}]
Wakes == [type : {"ack", "changed", "stop"}, seq : Nat \cup {-1}]
Positions == [known : BOOLEAN, snap : Listings \cup {NoSnap}]

\* The type of each variable; a pending change has a number already given out.
TypeOK ==
    /\ opts \in Setups
    /\ store \in Listings /\ confirmed \in Listings /\ view \in Listings
    /\ nextSeq \in Nat /\ elapsed \in 0..nextSeq
    /\ \A i \in 1..Len(pending) : pending[i] \in Pendings
    /\ baseline \in {"Silent", "Report", "Known"} /\ gap \in BOOLEAN
    /\ pc \in {"top", "list", "wait", "drain", "stopped"}
    /\ changed \in BOOLEAN /\ stop \in BOOLEAN
    /\ \A i \in 1..Len(wakes) : wakes[i] \in Wakes
    /\ \A i \in 1..Len(inbox) : inbox[i].type \in {"change", "gap", "bare"}
    /\ position \in Positions
    /\ changes \in 0..opts.maxChanges /\ drops \in 0..opts.maxDrops
    /\ late \in 0..opts.maxLate
    /\ woken \in 0..opts.maxWakes /\ restarts \in 0..opts.maxRestarts

\* Never more than max_in_flight changes are emitted ahead of the host's
\* acknowledgements, over expiries, cut polls and cumulative acknowledgements
\* (src/inventory.rs:130).
InFlightBound == Len(pending) <= opts.maxInFlight

\* A change in flight is not reported a second time: two pending changes of one
\* key next to each other lead to different digests.
NoRepeatInFlight ==
    \A i, j \in 1..Len(pending) :
        (i < j /\ pending[i].key = pending[j].key
               /\ \A l \in i + 1 .. j - 1 : pending[l].key # pending[i].key)
            => pending[i].digest # pending[j].digest

AcksUnread == \E i \in 1..Len(wakes) : wakes[i].type = "ack"

\* One object, or one change at a time, told to a host that is in time and is
\* told of everything.
Serial ==
    \/ Cardinality(opts.keys) = 1
    \/ opts.maxInFlight = 1 /\ late = 0 /\ ~opts.quietRemovals

\* The confirmed listing is what the host has stored, once its acknowledgements
\* are read, whatever it dropped and in whatever order changes overlapped
\* (src/inventory.rs:8-10, 185), as long as no restart came between overlapping
\* changes.  A change acknowledged after its timeout is not confirmed, and a
\* quiet removal is not told.
ConfirmedAsStored ==
    opts.eventSource /\ late = 0 /\ ~opts.quietRemovals /\ (Serial \/ restarts = 0)
        /\ baseline = "Known" /\ ~AcksUnread => confirmed = view

\* A position with a snapshot holds exactly the listing the host knows, so a
\* restart from it loses nothing and forgets nothing, as long as no change of
\* another object was in flight with it.
PositionExact ==
    Serial /\ position.snap # NoSnap => position.snap = view

\* When the store stops changing, the host comes to know what it holds, but for
\* the removals it is not told of: dropped events are reported again,
\* overlapping changes settle, a restart catches up.  It takes a host that stores
\* what it stores before ack_timeout.
Converges ==
    <>[](opts.eventSource /\ late = 0 => \A k \in Keys :
            view[k] = store[k] \/ (opts.quietRemovals /\ store[k] = Absent))

\* A resource watch, whose notifications nobody acknowledges, comes to rest: the
\* listing is confirmed, cut polls included, and notifications end.
ResourceSettles ==
    <>[](~opts.eventSource => confirmed = store /\ inbox = <<>>)

-----------------------------------------------------------------------------
(* What the documentation says and the code does not do. *)

\* src/inventory.rs:132-133: "How long a change waits for its acknowledgement
\* before the next listing may report it again".
DocTimedOutReportedAgain ==
    (\E i \in 1..Len(pending) : pending[i].seq < elapsed)
        ~> (\A i \in 1..Len(pending) : pending[i].seq >= elapsed)

\* src/inventory.rs:10-12: the snapshot is carried "so a restart from it is
\* exact, deletions included".
DocRestartExact == <>[](view = store)

\* src/inventory.rs:8-10: a poll diffs against "the confirmed listing", so
\* "a change the host dropped shows again at the next listing": whatever the host
\* did with its events, it comes to know what the store holds.
DocLateStored == <>[](view = store)

=============================================================================
