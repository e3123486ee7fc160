---------------------------- MODULE ClusterClient ----------------------------
(***************************************************************************)
(* The leases of src/cluster.rs (ClusterClient's acquires, ClusterLease)    *)
(* through the coordinator's slots of src/macros.rs                         *)
(* (__mcpg_decl_cluster_backend_entity).  Threads of a plugin share one     *)
(* lease: release takes a shared reference and so races itself; renew and   *)
(* the drop have the lease to themselves.  The backend behind the slots,    *)
(* which grants, refuses, fails or panics, is external.                     *)
(***************************************************************************)
EXTENDS Naturals

CONSTANTS
    Threads,        \* threads of the plugin that use the client
    MaxGrants       \* bound: leases acquired

ASSUME ClusterAssumption == MaxGrants \in Nat

VARIABLES
    grants,     \* leases acquired
    lease,      \* the ClusterLease: none, held, in its drop
    released,   \* ClusterLease::released
    pc,         \* where each thread is
    backend,    \* whether the coordinator counts the lease as ours
    memory,     \* the coordinator's state behind the lease handle
    releases,   \* lease_release calls on the handle
    failed      \* lease_release failed or panicked on the handle

client == <<lease, released>>
coord  == <<backend, memory, releases, failed>>
vars   == <<grants, client, pc, coord>>

\* What a call into the backend can come to.
Outcomes == {"ok", "err", "panic"}

Init ==
    /\ grants = 0 /\ lease = "none" /\ released = FALSE
    /\ pc = [t \in Threads |-> "idle"]
    /\ backend = "free" /\ memory = "none" /\ releases = 0 /\ failed = FALSE

-----------------------------------------------------------------------------
(* What crosses the boundary *)

\* LeaseHandle as the acquire slots fill it: a granted lease has a handle, a
\* declined one neither handle nor error, an error or a panic an error.
LeaseHandle(o) ==
    [handle |-> IF o = "granted" THEN 1 ELSE 0,
     error  |-> o \in {"err", "panic"}]

\* acquire_common: no handle is an error.
DecodeAcquire(h) == IF h.handle = 0 THEN "err" ELSE "lease"

\* decode_try_acquire: the handle decides first, then the error.
DecodeTryAcquire(h) ==
    IF h.handle # 0 THEN "lease" ELSE IF ~h.error THEN "declined" ELSE "err"

-----------------------------------------------------------------------------
Idle(t) == pc[t] = "idle"
Alone == \A t \in Threads : Idle(t)
Unused == lease = "none" /\ Alone

\* What an acquire that decodes to d leaves after outcome o.
Acquired(o, d) ==
    /\ grants' = grants + 1
    /\ \/ /\ o = "granted"
          /\ backend' = "ours" /\ memory' = "live"
          /\ releases' = 0 /\ failed' = FALSE
       \/ o # "granted" /\ UNCHANGED coord
    /\ \/ d = "lease" /\ lease' = "held" /\ released' = FALSE
       \/ d # "lease" /\ UNCHANGED client
    /\ UNCHANGED pc

\* acquire_leadership, acquire_lock.
Acquire ==
    /\ Unused /\ grants < MaxGrants
    /\ \E o \in {"granted", "err", "panic"} :
        Acquired(o, DecodeAcquire(LeaseHandle(o)))

\* try_acquire_leadership, try_acquire_lock.
TryAcquire ==
    /\ Unused /\ grants < MaxGrants
    /\ \E o \in {"granted", "declined", "err", "panic"} :
        Acquired(o, DecodeTryAcquire(LeaseHandle(o)))

\* Without a renewal in time the coordinator gives the lease to another node.
Lapse ==
    /\ backend = "ours"
    /\ backend' = "free"
    /\ UNCHANGED <<grants, client, pc, memory, releases, failed>>

\* ClusterLease::renew asks the coordinator, released or not; whatever the
\* answer, only the expiry date the lease reports changes.
RenewBegins(t) ==
    /\ lease = "held" /\ Alone
    /\ pc' = [pc EXCEPT ![t] = "renewing"]
    /\ UNCHANGED <<grants, client, coord>>

RenewReturns(t) ==
    /\ pc[t] = "renewing"
    /\ pc' = [pc EXCEPT ![t] = "idle"]
    /\ UNCHANGED <<grants, client, coord>>

\* Mutant of ReleaseBegins: the flag is read, not swapped.
ReleaseBeginsLoad(t) ==
    /\ lease = "held" /\ Idle(t) /\ \A u \in Threads : pc[u] # "renewing"
    /\ \/ released /\ UNCHANGED pc
       \/ ~released /\ pc' = [pc EXCEPT ![t] = "releasing"]
    /\ UNCHANGED <<grants, client, coord>>

\* ClusterLease::release: the swap lets one thread through; the others return
\* at once.
ReleaseBegins(t) ==
    /\ lease = "held" /\ Idle(t) /\ \A u \in Threads : pc[u] # "renewing"
    /\ released' = TRUE
    /\ \/ released /\ UNCHANGED pc
       \/ ~released /\ pc' = [pc EXCEPT ![t] = "releasing"]
    /\ UNCHANGED <<grants, lease, coord>>

\* The lease_release slot, called with outcome o.
LeaseRelease(o) ==
    /\ releases' = releases + 1
    /\ backend' = IF o = "ok" THEN "free" ELSE backend
    /\ failed' = IF o = "ok" THEN failed ELSE TRUE

ReleaseReturns(t) ==
    /\ pc[t] = "releasing"
    /\ \E o \in Outcomes : LeaseRelease(o)
    /\ released' = TRUE
    /\ pc' = [pc EXCEPT ![t] = "idle"]
    /\ UNCHANGED <<grants, lease, memory>>

\* The last owner drops the lease.
DropBegins ==
    /\ lease = "held" /\ Alone
    /\ lease' = "dropping"
    /\ UNCHANGED <<grants, released, pc, coord>>

\* Mutant of DropReleases: a lease nobody released is only dropped.
DropReleasesNot ==
    /\ lease = "dropping" /\ ~released
    /\ released' = TRUE
    /\ UNCHANGED <<grants, lease, pc, coord>>

\* ClusterLease::drop releases first, unless that was done or tried before ...
DropReleases ==
    /\ lease = "dropping" /\ ~released
    /\ released' = TRUE
    /\ \E o \in Outcomes : LeaseRelease(o)
    /\ UNCHANGED <<grants, lease, pc, memory>>

\* Mutant of DropFrees: the state is freed before the release.
DropFreesFirst ==
    /\ lease = "dropping" /\ memory = "live"
    /\ memory' = "freed"
    /\ lease' = IF released THEN "none" ELSE lease
    /\ UNCHANGED <<grants, released, pc, backend, releases, failed>>

\* ... and then calls lease_drop, which frees what the coordinator kept.
DropFrees ==
    /\ lease = "dropping" /\ released
    /\ memory' = "freed" /\ lease' = "none"
    /\ UNCHANGED <<grants, released, pc, backend, releases, failed>>

Next ==
    \/ Acquire \/ TryAcquire \/ Lapse \/ DropBegins \/ DropReleases \/ DropFrees
    \/ \E t \in Threads :
        RenewBegins(t) \/ RenewReturns(t)
        \/ ReleaseBegins(t) \/ ReleaseReturns(t)

Spec == Init /\ [][Next]_vars

-----------------------------------------------------------------------------
\* The type of each variable.
TypeOK ==
    /\ grants \in 0..MaxGrants
    /\ lease \in {"none", "held", "dropping"} /\ released \in BOOLEAN
    /\ pc \in [Threads -> {"idle", "renewing", "releasing"}]
    /\ backend \in {"free", "ours"} /\ memory \in {"none", "live", "freed"}
    /\ releases \in Nat /\ failed \in BOOLEAN

\* The coordinator's lease_release runs at most once on a handle, however many
\* threads release it and whether or not the drop comes after.
ReleasedOnce == releases <= 1

\* The lease exists only as long as the state behind its handle: no call of
\* renew, release or drop reaches a handle that lease_drop has freed.
HandleLive ==
    /\ lease # "none" => memory = "live"
    /\ ~Alone => lease = "held"

\* A lease nobody holds any more was given back: it is not ours, unless the
\* coordinator failed to release it.  A grant is never lost in decoding.
DroppedIsReleased == lease = "none" => backend = "free" \/ failed

=============================================================================
