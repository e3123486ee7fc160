----------------------------- MODULE MCInventory -----------------------------
(* The watches of Inventory that TLC looks at. *)
EXTENDS Inventory

CONSTANTS d1, d2    \* digests

\* An event source of two objects that is not restarted: overlapping changes,
\* a dropped one, an early wake.
Overlapping ==
    [keys |-> {1, 2}, digests |-> {d1}, eventSource |-> TRUE, existing |-> TRUE,
     quietRemovals |-> FALSE, maxInFlight |-> 2, snapObjects |-> 2,
     maxChanges |-> 3, maxDrops |-> 1, maxLate |-> 0, maxWakes |-> 1,
     maxRestarts |-> 0]

\* Restarts with a window of one: from a snapshot, from a position whose
\* snapshot did not fit, and from nothing.
Restarted ==
    [Overlapping EXCEPT !.digests = {d1, d2}, !.existing = FALSE,
        !.maxInFlight = 1, !.snapObjects = 1, !.maxChanges = 2, !.maxDrops = 0,
        !.maxWakes = 0, !.maxRestarts = 2]

\* Restarts of one object with two changes of it in flight.
OneKey ==
    [Overlapping EXCEPT !.keys = {1}, !.digests = {d1, d2}, !.snapObjects = 1,
        !.maxWakes = 0, !.maxRestarts = 1]

\* A host that may store a change after its timeout.
Slow ==
    [Overlapping EXCEPT !.keys = {1}, !.maxLate = 1, !.maxChanges = 2,
        !.maxWakes = 0]

\* Removals the host is not told of, and more changes than the window has room
\* for beside one in flight.
Quiet ==
    [Overlapping EXCEPT !.digests = {d1, d2}, !.quietRemovals = TRUE,
        !.maxChanges = 2, !.maxWakes = 0]

\* A resource watch with a window of one.
Resource ==
    [Overlapping EXCEPT !.eventSource = FALSE, !.maxInFlight = 1,
        !.maxDrops = 0, !.maxRestarts = 1]

Watches == {Overlapping, Restarted, OneKey, Slow, Quiet, Resource}

\* The window is full of a change the host dropped.
FullWindow ==
    {[Overlapping EXCEPT !.keys = {1}, !.maxInFlight = 1, !.maxChanges = 1,
        !.maxWakes = 0]}

\* Two changes in one poll, then a restart.
RestartedOverlapping ==
    {[Overlapping EXCEPT !.maxChanges = 1, !.maxDrops = 0, !.maxWakes = 0,
        !.maxRestarts = 1]}

\* A host that stores a change after its timeout.
SlowOnly == {[Slow EXCEPT !.maxDrops = 0]}

=============================================================================
