------------------------------ MODULE PluginLog ------------------------------
(***************************************************************************)
(* The log forwarder of src/plugin_log.rs and the instance life of          *)
(* src/ffi.rs (boxed_make_with_host, boxed_drop) that feeds it.  A          *)
(* process-wide registry holds the host handle of every live instance under *)
(* the address of its box; a log event of any thread is delivered through   *)
(* the newest entry while the registry's read lock is held; the host frees  *)
(* an instance's bridge once drop_instance has returned.                    *)
(***************************************************************************)
EXTENDS Naturals

CONSTANTS
    Instances,      \* the instances the host makes
    Addresses,      \* addresses the allocator hands out
    Threads,        \* threads that log
    NoInstance,     \* no instance: the thread is not inside a host call
    ZeroSized       \* the instances of entity types without a size

ASSUME PluginLogAssumption ==
    /\ ZeroSized \subseteq Instances
    /\ NoInstance \notin Instances

VARIABLES
    state,          \* how far make or drop_instance of an instance is
    addr,           \* the address its box has, or had last
    live,           \* LIVE: the address and the instance (its host handle) of
                    \* each entry, and when it was pushed
    pushes,         \* how many entries were ever pushed
    calling,        \* the instance whose bridge a thread is calling into, with
                    \* LIVE's read lock held
    bridge          \* the host's bridge of each instance

registry == <<live, pushes>>
vars == <<state, addr, registry, calling, bridge>>

\* "boxed": allocated, not yet attached; "made": make returned; "unboxed": the
\* box is freed, not yet detached; "dropped": drop_instance returned.
States == {"none", "boxed", "made", "unboxed", "dropped", "failed"}
Boxed(i) == state[i] \in {"boxed", "made"}
Newest == {e \in live : \A f \in live : f.at <= e.at}
Reading == {t \in Threads : calling[t] # NoInstance}

Init ==
    /\ state = [i \in Instances |-> "none"]
    /\ addr \in [Instances -> Addresses]
    /\ live = {} /\ pushes = 0
    /\ calling = [t \in Threads |-> NoInstance]
    /\ bridge = [i \in Instances |-> "live"]

\* boxed_make_with_host: the factory runs and its instance is boxed, at an
\* address no other box has now; only boxes without a size may share one.
Make(i) ==
    /\ state[i] = "none"
    /\ \E a \in Addresses :
        /\ \A j \in Instances :
            Boxed(j) /\ addr[j] = a => {i, j} \subseteq ZeroSized
        /\ addr' = [addr EXCEPT ![i] = a]
    /\ state' = [state EXCEPT ![i] = "boxed"]
    /\ UNCHANGED <<registry, calling, bridge>>

\* The factory panics: make returns a null handle and attaches nothing.
MakePanics(i) ==
    /\ state[i] = "none"
    /\ state' = [state EXCEPT ![i] = "failed"]
    /\ UNCHANGED <<addr, registry, calling, bridge>>

\* LIVE.write(): attach and detach get in when no reader holds the lock.  The
\* lock of std promises no order between the readers and writers that wait.
Locked == Reading = {}

\* attach; make then returns.
Attach(i) ==
    /\ state[i] = "boxed" /\ Locked
    /\ live' = live \cup {[addr |-> addr[i], inst |-> i, at |-> pushes]}
    /\ pushes' = pushes + 1
    /\ state' = [state EXCEPT ![i] = "made"]
    /\ UNCHANGED <<addr, calling, bridge>>

\* Forwarder::event: the newest entry is called with the read lock held; with
\* no entry the event is lost.
EventBegins(t) ==
    /\ calling[t] = NoInstance
    /\ \E e \in Newest : calling' = [calling EXCEPT ![t] = e.inst]
    /\ UNCHANGED <<state, addr, registry, bridge>>

EventEnds(t) ==
    /\ calling[t] # NoInstance
    /\ calling' = [calling EXCEPT ![t] = NoInstance]
    /\ UNCHANGED <<state, addr, registry, bridge>>

\* boxed_drop: the box is dropped first, whether or not its drop panics ...
DropBox(i) ==
    /\ state[i] = "made"
    /\ state' = [state EXCEPT ![i] = "unboxed"]
    /\ UNCHANGED <<addr, registry, calling, bridge>>

\* Mutant of Detach: the write lock is not taken.
DetachUnlocked(i) ==
    /\ state[i] = "unboxed"
    /\ live' = {e \in live : e.addr # addr[i]}
    /\ state' = [state EXCEPT ![i] = "dropped"]
    /\ UNCHANGED <<addr, pushes, calling, bridge>>

\* Mutant of Detach: every entry goes.
DetachAll(i) ==
    /\ state[i] = "unboxed" /\ Locked
    /\ live' = {}
    /\ state' = [state EXCEPT ![i] = "dropped"]
    /\ UNCHANGED <<addr, pushes, calling, bridge>>

\* Mutant of Detach: only the newest entry goes.
DetachLast(i) ==
    /\ state[i] = "unboxed" /\ Locked
    /\ live' = live \ Newest
    /\ state' = [state EXCEPT ![i] = "dropped"]
    /\ UNCHANGED <<addr, pushes, calling, bridge>>

\* ... then detach removes, under the write lock, every entry of its address,
\* and drop_instance returns.
Detach(i) ==
    /\ state[i] = "unboxed" /\ Locked
    /\ live' = {e \in live : e.addr # addr[i]}
    /\ state' = [state EXCEPT ![i] = "dropped"]
    /\ UNCHANGED <<addr, pushes, calling, bridge>>

\* The host frees the bridge.
FreeBridge(i) ==
    /\ state[i] \in {"dropped", "failed"} /\ bridge[i] = "live"
    /\ bridge' = [bridge EXCEPT ![i] = "freed"]
    /\ UNCHANGED <<state, addr, registry, calling>>

Next ==
    \/ \E i \in Instances :
        Make(i) \/ MakePanics(i) \/ Attach(i)
        \/ DropBox(i) \/ Detach(i) \/ FreeBridge(i)
    \/ \E t \in Threads : EventBegins(t) \/ EventEnds(t)

Spec == Init /\ [][Next]_vars

-----------------------------------------------------------------------------
\* The type of each variable.
TypeOK ==
    /\ state \in [Instances -> States]
    /\ addr \in [Instances -> Addresses]
    /\ live \subseteq [addr : Addresses, inst : Instances, at : Nat]
    /\ pushes \in Nat
    /\ calling \in [Threads -> Instances \cup {NoInstance}]
    /\ bridge \in [Instances -> {"live", "freed"}]

\* No thread is inside a bridge the host has freed, whatever addresses were
\* reused meanwhile (src/plugin_log.rs:8-11).
NoFreedBridgeCalled ==
    \A t \in Threads : calling[t] # NoInstance => bridge[calling[t]] = "live"

\* An instance whose drop_instance has returned has no entry left, under any
\* address.
DroppedHasNoEntry ==
    \A e \in live : state[e.inst] \in {"made", "unboxed"}

\* A live instance is without its entry, and its plugin's log without its host
\* handle, only when drop_instance of another instance that had the same address
\* came in between: the box is freed before its entries are removed
\* (src/ffi.rs:1468-1480).
LostOnlyByReuse ==
    \A i \in Instances :
        state[i] = "made" /\ (\A e \in live : e.inst # i) =>
            \E j \in Instances \ {i} : state[j] = "dropped" /\ addr[j] = addr[i]

=============================================================================
