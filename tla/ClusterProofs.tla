---------------------------- MODULE ClusterProofs ----------------------------
(***************************************************************************)
(* Proofs about ClusterClient, for any threads and any number of leases: a  *)
(* handle is released once, never used after it is freed, and a lease that  *)
(* is gone was given back.                                                  *)
(***************************************************************************)
EXTENDS ClusterClient, TLAPS

Releasing == {t \in Threads : pc[t] = "releasing"}

\* One thread at most got through the swap, and none before it.
Swap ==
    /\ \A t, u \in Releasing : t = u
    /\ lease # "none" /\ ~released => Releasing = {} /\ releases = 0
    /\ Releasing # {} => releases = 0

\* What a finished release leaves, until the handle is freed.
GivenBack ==
    lease # "none" /\ released /\ Releasing = {} => backend = "free" \/ failed

\* renew has the lease to itself.
Exclusive ==
    \A t, u \in Threads : pc[t] = "renewing" /\ t # u => pc[u] = "idle"

IInv ==
    /\ TypeOK /\ ReleasedOnce /\ HandleLive /\ DroppedIsReleased
    /\ Swap /\ GivenBack /\ Exclusive

\* TypeOK in parts: the lease, the flags, the threads, the coordinator.
LeaseType == grants \in 0..MaxGrants /\ lease \in {"none", "held", "dropping"}
FlagType == released \in BOOLEAN /\ failed \in BOOLEAN
PcType == pc \in [Threads -> {"idle", "renewing", "releasing"}]
CoordType == /\ backend \in {"free", "ours"} /\ memory \in {"none", "live", "freed"}
             /\ releases \in Nat

\* The parts make TypeOK.
LEMMA Parts ==
    /\ TypeOK <=> LeaseType /\ FlagType /\ PcType /\ CoordType
    /\ TypeOK' <=> LeaseType' /\ FlagType' /\ PcType' /\ CoordType'
  BY DEF TypeOK, LeaseType, FlagType, PcType, CoordType

\* The invariant holds at the start.
LEMMA InitOK == Init => IInv
  <1> SUFFICES ASSUME Init PROVE IInv
    OBVIOUS
  <1>1. LeaseType
    BY ClusterAssumption DEF Init, LeaseType
  <1>2. PcType /\ FlagType
    BY DEF Init, FlagType, PcType
  <1>3. CoordType
    BY DEF Init, CoordType
  <1>4. Releasing = {} /\ Alone
    BY DEF Init, Releasing, Alone, Idle
  <1>5. ReleasedOnce /\ HandleLive /\ DroppedIsReleased
    BY <1>4 DEF Init, ReleasedOnce, HandleLive, DroppedIsReleased
  <1>6. Swap /\ GivenBack /\ Exclusive
    BY <1>4 DEF Init, Swap, GivenBack, Exclusive, Alone, Idle
  <1> QED
    BY <1>1, <1>2, <1>3, <1>5, <1>6, Parts DEF IInv

\* A lease that lapses is the coordinator's affair.
LEMMA LapseKeeps == ASSUME IInv, Lapse PROVE IInv'
  BY DEF Lapse, client, IInv, TypeOK, ReleasedOnce, HandleLive,
     DroppedIsReleased, Swap, GivenBack, Exclusive, Releasing, Alone, Idle

\* An acquire makes a lease exactly when the coordinator granted one.
LEMMA DecodeOK ==
    /\ \A o \in {"granted", "err", "panic"} :
         DecodeAcquire(LeaseHandle(o)) = "lease" <=> o = "granted"
    /\ \A o \in {"granted", "declined", "err", "panic"} :
         DecodeTryAcquire(LeaseHandle(o)) = "lease" <=> o = "granted"
  BY DEF DecodeAcquire, DecodeTryAcquire, LeaseHandle

LEMMA AcquireKeeps ==
    ASSUME IInv, Acquire \/ TryAcquire
    PROVE  IInv'
  <1>1. PICK o, d : /\ Unused /\ grants < MaxGrants
                    /\ Acquired(o, d)
                    /\ d = "lease" <=> o = "granted"
    BY DecodeOK DEF Acquire, TryAcquire
  <1>2. TypeOK'
    <2>1. LeaseType /\ FlagType /\ PcType /\ CoordType
      BY Parts DEF IInv
    <2>2. grants' \in 0..MaxGrants
      BY <1>1, <2>1, ClusterAssumption DEF Acquired, LeaseType
    <2>3. lease' \in {"none", "held", "dropping"}
      BY <1>1, <2>1 DEF Acquired, LeaseType, client
    <2>6. FlagType'
      BY <1>1, <2>1, Zenon DEF Acquired, FlagType, client, coord
    <2>4. CoordType'
      BY <1>1, <2>1 DEF Acquired, CoordType, coord
    <2>5. PcType'
      BY <1>1, <2>1 DEF Acquired, PcType
    <2> QED
      BY <2>2, <2>3, <2>4, <2>5, <2>6, Parts DEF LeaseType
  <1>3. pc' = pc /\ Alone /\ lease = "none"
    BY <1>1 DEF Acquired, Unused
  <1>4. CASE o = "granted"
    BY <1>1, <1>2, <1>3, <1>4 DEF Acquired, IInv, ReleasedOnce, HandleLive,
       DroppedIsReleased, Swap, GivenBack, Exclusive, Releasing, Alone, Idle
  <1>5. CASE o # "granted"
    BY <1>1, <1>2, <1>3, <1>5 DEF Acquired, client, coord, IInv, ReleasedOnce,
       HandleLive, DroppedIsReleased, Swap, GivenBack, Exclusive, Releasing,
       Alone, Idle
  <1> QED
    BY <1>4, <1>5

LEMMA RenewKeeps ==
    ASSUME IInv, NEW t \in Threads, RenewBegins(t) \/ RenewReturns(t)
    PROVE  IInv'
  <1>1. TypeOK'
    <2>1. LeaseType /\ FlagType /\ PcType /\ CoordType
      BY Parts DEF IInv
    <2>2. LeaseType' /\ CoordType' /\ FlagType'
      BY <2>1 DEF RenewBegins, RenewReturns, LeaseType, CoordType, FlagType,
                  client, coord
    <2>3. PcType'
      BY <2>1 DEF RenewBegins, RenewReturns, PcType
    <2> QED
      BY <2>2, <2>3, Parts
  <1>2. Releasing' = Releasing
    BY DEF RenewBegins, RenewReturns, Releasing, Alone, Idle, IInv, TypeOK
  <1>3. UNCHANGED <<client, coord>> /\ lease = "held"
    <2>1. CASE RenewBegins(t)
      BY <2>1 DEF RenewBegins
    <2>2. CASE RenewReturns(t)
      BY <2>2 DEF RenewReturns, IInv, HandleLive, Alone, Idle
    <2> QED
      BY <2>1, <2>2
  <1>4. ReleasedOnce' /\ HandleLive' /\ DroppedIsReleased'
    BY <1>3 DEF client, coord, IInv, ReleasedOnce, HandleLive, DroppedIsReleased
  <1>5. Swap' /\ GivenBack'
    BY <1>2, <1>3 DEF client, coord, IInv, Swap, GivenBack
  <1>6. Exclusive'
    BY DEF RenewBegins, RenewReturns, Exclusive, Alone, Idle, IInv, TypeOK
  <1> QED
    BY <1>1, <1>4, <1>5, <1>6 DEF IInv

LEMMA ReleaseBeginsKeeps ==
    ASSUME IInv, NEW t \in Threads, ReleaseBegins(t)
    PROVE  IInv'
  <1>1. TypeOK'
    <2>1. LeaseType /\ FlagType /\ PcType /\ CoordType
      BY Parts DEF IInv
    <2>2. LeaseType'
      BY <2>1 DEF ReleaseBegins, LeaseType
    <2>6. FlagType'
      BY <2>1, Zenon DEF ReleaseBegins, LeaseRelease, FlagType, coord
    <2>3. CoordType'
      BY <2>1 DEF ReleaseBegins, CoordType, coord
    <2>4. PcType'
      BY <2>1 DEF ReleaseBegins, PcType
    <2> QED
      BY <2>2, <2>3, <2>4, <2>6, Parts
  <1>2. /\ lease = "held" /\ lease' = "held" /\ released' = TRUE
        /\ UNCHANGED coord
        /\ \A u \in Threads : pc[u] # "renewing"
    BY DEF ReleaseBegins
  <1>3. ReleasedOnce' /\ HandleLive' /\ DroppedIsReleased'
    BY <1>2 DEF coord, IInv, ReleasedOnce, HandleLive, DroppedIsReleased
  <1>4. CASE released
    <2>1. pc' = pc /\ Releasing' = Releasing
      BY <1>4 DEF ReleaseBegins, Releasing
    <2>2. Swap' /\ GivenBack' /\ Exclusive'
      BY <1>2, <1>4, <2>1 DEF coord, IInv, Swap, GivenBack, Exclusive
    <2> QED
      BY <1>1, <1>3, <2>2 DEF IInv
  <1>5. CASE ~released
    <2>1. Releasing = {} /\ releases = 0
      BY <1>2, <1>5 DEF IInv, Swap
    <2>2. Releasing' = {t} /\ \A u \in Threads : pc'[u] # "renewing"
      BY <1>2, <1>5, <2>1 DEF ReleaseBegins, Releasing, IInv, TypeOK
    <2>3. Swap' /\ GivenBack' /\ Exclusive'
      BY <1>2, <2>1, <2>2 DEF coord, Swap, GivenBack, Exclusive
    <2> QED
      BY <1>1, <1>3, <2>3 DEF IInv
  <1> QED
    BY <1>4, <1>5

LEMMA ReleaseReturnsKeeps ==
    ASSUME IInv, NEW t \in Threads, ReleaseReturns(t)
    PROVE  IInv'
  <1>1. TypeOK'
    <2>1. LeaseType /\ FlagType /\ PcType /\ CoordType
      BY Parts DEF IInv
    <2>2. LeaseType'
      BY <2>1 DEF ReleaseReturns, LeaseType
    <2>6. FlagType'
      BY <2>1, Zenon DEF ReleaseReturns, LeaseRelease, FlagType, coord
    <2>3. CoordType'
      BY <2>1 DEF ReleaseReturns, LeaseRelease, CoordType
    <2>4. PcType'
      BY <2>1 DEF ReleaseReturns, PcType
    <2> QED
      BY <2>2, <2>3, <2>4, <2>6, Parts
  <1>2. Releasing = {t} /\ releases = 0 /\ lease = "held" /\ memory = "live"
    BY DEF ReleaseReturns, IInv, Swap, HandleLive, Releasing, Alone, Idle
  <1>3. Releasing' = {} /\ releases' = 1 /\ released' = TRUE
        /\ lease' = "held" /\ memory' = "live"
    BY <1>2 DEF ReleaseReturns, LeaseRelease, Releasing, IInv, TypeOK
  <1>4. backend' = "free" \/ failed'
    BY DEF ReleaseReturns, LeaseRelease
  <1>5. Exclusive'
    BY DEF ReleaseReturns, Exclusive, IInv, TypeOK
  <1> QED
    BY <1>1, <1>3, <1>4, <1>5 DEF IInv, ReleasedOnce, HandleLive,
       DroppedIsReleased, Swap, GivenBack

LEMMA DropKeeps ==
    ASSUME IInv, DropBegins \/ DropReleases \/ DropFrees
    PROVE  IInv'
  <1>1. TypeOK'
    <2>1. LeaseType /\ FlagType /\ PcType /\ CoordType
      BY Parts DEF IInv
    <2>5. FlagType'
      BY <2>1, Zenon DEF DropBegins, DropReleases, DropFrees, LeaseRelease,
                         FlagType, coord
    <2>2. LeaseType'
      BY <2>1 DEF DropBegins, DropReleases, DropFrees, LeaseType
    <2>3. CoordType'
      <3>1. CASE DropBegins
        BY <2>1, <3>1 DEF DropBegins, CoordType, coord
      <3>2. CASE DropReleases
        BY <2>1, <3>2 DEF DropReleases, LeaseRelease, CoordType
      <3>3. CASE DropFrees
        BY <2>1, <3>3 DEF DropFrees, CoordType
      <3> QED
        BY <3>1, <3>2, <3>3
    <2>4. PcType'
      BY <2>1 DEF DropBegins, DropReleases, DropFrees, PcType
    <2> QED
      BY <2>2, <2>3, <2>4, <2>5, Parts
  <1>2. Alone /\ pc' = pc /\ Releasing = {} /\ Releasing' = {}
    BY DEF DropBegins, DropReleases, DropFrees, IInv, HandleLive, Releasing,
           Alone, Idle
  <1>3. Exclusive' /\ Alone'
    BY <1>2 DEF Exclusive, Alone, Idle
  <1>4. CASE DropBegins
    BY <1>1, <1>2, <1>3, <1>4 DEF DropBegins, coord, IInv, ReleasedOnce,
       HandleLive, DroppedIsReleased, Swap, GivenBack
  <1>5. CASE DropReleases
    BY <1>1, <1>2, <1>3, <1>5 DEF DropReleases, LeaseRelease, IInv, ReleasedOnce,
       HandleLive, DroppedIsReleased, Swap, GivenBack
  <1>6. CASE DropFrees
    BY <1>1, <1>2, <1>3, <1>6 DEF DropFrees, IInv, ReleasedOnce,
       HandleLive, DroppedIsReleased, Swap, GivenBack
  <1> QED
    BY <1>4, <1>5, <1>6

\* The inductive invariant holds in every reachable state.
THEOREM Invariant == Spec => []IInv
  <1>1. IInv /\ [Next]_vars => IInv'
    <2> SUFFICES ASSUME IInv, [Next]_vars PROVE IInv'
      OBVIOUS
    <2>1. CASE Next
      BY <2>1, LapseKeeps, AcquireKeeps, RenewKeeps, ReleaseBeginsKeeps,
         ReleaseReturnsKeeps, DropKeeps DEF Next
    <2>2. CASE UNCHANGED vars
      BY <2>2 DEF vars, client, coord, IInv, TypeOK, ReleasedOnce, HandleLive,
         DroppedIsReleased, Swap, GivenBack, Exclusive, Releasing, Alone, Idle
    <2> QED
      BY <2>1, <2>2
  <1> QED
    BY <1>1, InitOK, PTL DEF Spec

\* ClusterLease::release and its drop call lease_release at most once.
THEOREM ReleaseOnce == Spec => []ReleasedOnce
  <1>1. IInv => ReleasedOnce
    BY DEF IInv
  <1> QED
    BY <1>1, Invariant, PTL

\* No call of a ClusterLease reaches a handle lease_drop has freed.
THEOREM NoUseAfterFree == Spec => []HandleLive
  <1>1. IInv => HandleLive
    BY DEF IInv
  <1> QED
    BY <1>1, Invariant, PTL

\* A ClusterLease that is gone was given back to the coordinator.
THEOREM GoneIsReleased == Spec => []DroppedIsReleased
  <1>1. IInv => DroppedIsReleased
    BY DEF IInv
  <1> QED
    BY <1>1, Invariant, PTL

=============================================================================
