---------------------------- MODULE StreamForward ----------------------------
(***************************************************************************)
(* The two forwarders of src/ffi.rs that pump an async stream into a host   *)
(* callback: __streaming::spawn_http_stream_drain and                       *)
(* cluster_forward::forward_cluster_stream, with their cancels.  Both have  *)
(* the same life: a tokio task polls the stream and calls the host          *)
(* synchronously for each item; a cancel aborts the task, waits for the     *)
(* guard the task's future drops, at most five seconds, and returns; the    *)
(* host then frees the bridge the callback points at.                       *)
(***************************************************************************)
EXTENDS Naturals

CONSTANT MaxItems       \* bound: items the stream yields

ASSUME StreamAssumption == MaxItems \in Nat

VARIABLES
    task,       \* the forwarder task
    items,      \* items the stream has yielded
    aborted,    \* AbortHandle::abort was called
    signal,     \* the channel of DoneGuard / ForwarderDone: open, sent, or
                \* closed without a signal
    cancel,     \* where cancel_http_stream / ForwardState::drop is
    bridge,     \* the host's StreamBridge
    late,       \* the five seconds of the cancel ran out
    http        \* the HTTP drain, which sends End, not the cluster forwarder

vars == <<task, items, aborted, signal, cancel, bridge, late, http>>

\* "spawned": never polled; "ready": woken; "polling": inside poll_next; "callback" and
\* "ending": inside the host's callback; "parked": the stream is pending;
\* "finished": the body returned; "dropping": the guard, a local of the body, is
\* dropped, the stream and the sink the future captured are not yet; "gone": all
\* of the future is dropped.
Tasks == {"spawned", "ready", "polling", "callback", "ending", "parked",
          "finished", "dropping", "gone"}
Dropped == task \in {"dropping", "gone"}
InCallback == task \in {"callback", "ending"}

Init ==
    /\ task = "spawned" /\ items = 0 /\ aborted = FALSE /\ signal = "open"
    /\ cancel = "idle" /\ bridge = "live" /\ late = FALSE
    /\ http \in BOOLEAN

-----------------------------------------------------------------------------
(* The task.  An abort is seen only between two polls of the task, never     *)
(* while it runs: an item that is ready does not suspend it.                 *)

\* The runtime polls a task that is not aborted.
Poll ==
    /\ task \in {"spawned", "ready"} /\ ~aborted
    /\ task' = "polling"
    /\ UNCHANGED <<items, aborted, signal, cancel, bridge, late, http>>

\* poll_next yields an item: it is encoded and handed to the host.  Only the
\* cluster forwarder skips an item that does not encode.
YieldItem ==
    /\ task = "polling" /\ items < MaxItems
    /\ items' = items + 1
    /\ \/ task' = "callback"
       \/ ~http /\ task' = "polling"
    /\ UNCHANGED <<aborted, signal, cancel, bridge, late, http>>

\* poll_next is pending: the task suspends.
YieldPending ==
    /\ task = "polling"
    /\ task' = "parked"
    /\ UNCHANGED <<items, aborted, signal, cancel, bridge, late, http>>

\* poll_next yields the end: the drain sends the End chunk first.
YieldEnd ==
    /\ task = "polling"
    /\ task' = IF http THEN "ending" ELSE "finished"
    /\ UNCHANGED <<items, aborted, signal, cancel, bridge, late, http>>

\* poll_next panics: the runtime catches it and drops the future; no End is sent.
StreamPanics ==
    /\ task = "polling"
    /\ task' = "finished"
    /\ UNCHANGED <<items, aborted, signal, cancel, bridge, late, http>>

CallbackReturns ==
    /\ InCallback
    /\ task' = IF task = "ending" THEN "finished" ELSE "polling"
    /\ UNCHANGED <<items, aborted, signal, cancel, bridge, late, http>>

\* The stream wakes the task.
Woken ==
    /\ task = "parked"
    /\ task' = "ready"
    /\ UNCHANGED <<items, aborted, signal, cancel, bridge, late, http>>

\* Mutant of DropFuture: the guard signals as soon as the abort is called.
DropFutureEarly ==
    /\ signal = "open" /\ (aborted \/ task = "finished")
    /\ signal' = "sent"
    /\ UNCHANGED <<task, items, aborted, cancel, bridge, late, http>>

\* The future is dropped, after its body ended or because the task is aborted
\* and not running: its locals first.  The guard made by the first poll signals.
\* Without one the sender is a capture like the stream and the sink, and Rust
\* leaves the order in which captures are dropped open.
DropFuture ==
    /\ task = "finished" \/ (aborted /\ task \in {"spawned", "ready", "parked"})
    /\ task' = "dropping"
    /\ signal' \in IF task = "spawned" THEN {"open", "closed"} ELSE {"sent"}
    /\ UNCHANGED <<items, aborted, cancel, bridge, late, http>>

\* Then the captures: the plugin's stream, the sink, and the sender if it is one.
DropCaptured ==
    /\ task = "dropping"
    /\ task' = "gone"
    /\ signal' = IF signal = "open" THEN "closed" ELSE signal
    /\ UNCHANGED <<items, aborted, cancel, bridge, late, http>>

-----------------------------------------------------------------------------
(* The cancel, on a host thread; the host calls it once. *)

Abort ==
    /\ cancel = "idle"
    /\ aborted' = TRUE /\ cancel' = "waiting"
    /\ UNCHANGED <<task, items, signal, bridge, late, http>>

\* Mutant of WaitDone: the cancel does not wait.
WaitDoneNot ==
    /\ cancel = "waiting"
    /\ cancel' = "returned"
    /\ UNCHANGED <<task, items, aborted, signal, bridge, late, http>>

\* done_rx.recv_timeout returns: the signal came or the sender is gone.
WaitDone ==
    /\ cancel = "waiting" /\ signal # "open"
    /\ cancel' = "returned"
    /\ UNCHANGED <<task, items, aborted, signal, bridge, late, http>>

\* Mutant of WaitTimesOut: the wait has no bound.
WaitTimesOutNever == FALSE /\ UNCHANGED vars

\* done_rx.recv_timeout: five seconds passed.
WaitTimesOut ==
    /\ cancel = "waiting" /\ signal = "open"
    /\ cancel' = "returned" /\ late' = TRUE
    /\ UNCHANGED <<task, items, aborted, signal, bridge, http>>

\* The host frees its bridge once the cancel has returned.
FreeBridge ==
    /\ cancel = "returned" /\ bridge = "live"
    /\ bridge' = "freed"
    /\ UNCHANGED <<task, items, aborted, signal, cancel, late, http>>

\* Nothing is left to do.
Finished == task = "gone" /\ bridge = "freed" /\ UNCHANGED vars

Task == Poll \/ YieldItem \/ YieldPending \/ YieldEnd \/ StreamPanics
        \/ CallbackReturns \/ DropFuture \/ DropCaptured

Next == Task \/ Woken \/ Abort \/ WaitDone \/ WaitTimesOut \/ FreeBridge
        \/ Finished

Spec == Init /\ [][Next]_vars

\* The cancelling thread runs and the clock too.  The task need not be
\* scheduled, its stream suspend or its callback return; the host need not
\* cancel.
Fairness == WF_vars(WaitDone) /\ WF_vars(WaitTimesOut) /\ WF_vars(FreeBridge)

FairSpec == Spec /\ Fairness

-----------------------------------------------------------------------------
\* The type of each variable.
TypeOK ==
    /\ task \in Tasks /\ items \in 0..MaxItems /\ aborted \in BOOLEAN
    /\ signal \in {"open", "sent", "closed"}
    /\ cancel \in {"idle", "waiting", "returned"}
    /\ bridge \in {"live", "freed"} /\ late \in BOOLEAN
    /\ http \in BOOLEAN

\* The host's callback never runs on a freed bridge (src/ffi.rs:122-127,
\* 1644-1647), unless the five seconds ran out with the callback under way.
NoCallbackAfterFree == bridge = "freed" /\ ~late => ~InCallback

\* A cancel that did not run out of time leaves nothing of the task running but
\* the drop of what its future captured (src/ffi.rs:197-204, 1680-1695): the
\* plugin's stream is polled no more and no item of it is taken and lost.
CancelStops == cancel = "returned" /\ ~late => Dropped

\* A cancel returns in the end, even if the task never suspends or its callback
\* never returns ("Bounded so a wedged task can't hang teardown").
CancelReturns == (cancel = "waiting") ~> (cancel = "returned")

=============================================================================
