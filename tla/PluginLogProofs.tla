--------------------------- MODULE PluginLogProofs ---------------------------
(***************************************************************************)
(* Proofs about PluginLog, for every number of instances, addresses and     *)
(* logging threads, and whatever the size of their types.                  *)
(***************************************************************************)
EXTENDS PluginLog, TLAPS

\* An entry is filed under the address its instance's box has or had.
FiledUnderItsAddress == \A e \in live : e.addr = addr[e.inst]

\* A thread calls through an entry that is still there: the read lock it holds
\* keeps every detach out.
CallsThroughEntry ==
    \A t \in Reading : \E e \in live : e.inst = calling[t]

\* The host frees a bridge only when the instance is gone or never was.
FreedWhenOver ==
    \A i \in Instances : bridge[i] = "freed" => state[i] \in {"dropped", "failed"}

\* The inductive invariant.
IInv == TypeOK /\ FiledUnderItsAddress /\ CallsThroughEntry /\ FreedWhenOver
        /\ DroppedHasNoEntry /\ LostOnlyByReuse

\* Next, one disjunct per action.
LEMMA NextCases ==
    ASSUME [Next]_vars
    PROVE  \/ \E i \in Instances : \/ Make(i) \/ MakePanics(i)
                                   \/ Attach(i) \/ DropBox(i) \/ Detach(i)
                                   \/ FreeBridge(i)
           \/ \E t \in Threads : EventBegins(t) \/ EventEnds(t)
           \/ UNCHANGED vars
BY DEF Next

\* Every action keeps the types.
LEMMA TypeStep == ASSUME TypeOK, [Next]_vars PROVE TypeOK'
<1> USE DEF TypeOK, States, registry
<1>1. ASSUME NEW i \in Instances, Make(i) PROVE TypeOK'
  BY <1>1 DEF Make
<1>2. ASSUME NEW i \in Instances, MakePanics(i) PROVE TypeOK'
  BY <1>2 DEF MakePanics
<1>3. ASSUME NEW i \in Instances, Attach(i) PROVE TypeOK'
  BY <1>3 DEF Attach
<1>4. ASSUME NEW i \in Instances, DropBox(i) PROVE TypeOK'
  BY <1>4 DEF DropBox
<1>5. ASSUME NEW i \in Instances, Detach(i) PROVE TypeOK'
  BY <1>5 DEF Detach
<1>6. ASSUME NEW i \in Instances, FreeBridge(i) PROVE TypeOK'
  BY <1>6 DEF FreeBridge
<1>7. ASSUME NEW t \in Threads, EventBegins(t) PROVE TypeOK'
  BY <1>7 DEF EventBegins, Newest
<1>8. ASSUME NEW t \in Threads, EventEnds(t) PROVE TypeOK'
  BY <1>8 DEF EventEnds
<1>9. CASE UNCHANGED vars
  BY <1>9 DEF vars
<1> QED
  BY <1>1, <1>2, <1>3, <1>4, <1>5, <1>6, <1>7, <1>8, <1>9, NextCases

\* Every action keeps the rest of the invariant.
LEMMA EntriesStep == ASSUME IInv, [Next]_vars PROVE IInv'
<1> USE PluginLogAssumption
    DEF IInv, FiledUnderItsAddress, CallsThroughEntry, FreedWhenOver,
        DroppedHasNoEntry, LostOnlyByReuse, Reading, registry
<1>0. TypeOK'
  BY TypeStep
<1>1. ASSUME NEW i \in Instances, Make(i) PROVE IInv'
  BY <1>0, <1>1 DEF Make, TypeOK
<1>2. ASSUME NEW i \in Instances, MakePanics(i) PROVE IInv'
  BY <1>0, <1>2 DEF MakePanics, TypeOK
<1>3. ASSUME NEW i \in Instances, Attach(i) PROVE IInv'
  <2> DEFINE e0 == [addr |-> addr[i], inst |-> i, at |-> pushes]
  <2>1. live' = live \cup {e0} /\ e0.inst = i /\ e0.addr = addr[i]
    BY <1>3 DEF Attach
  <2>2. LostOnlyByReuse'
    <3> SUFFICES ASSUME NEW k \in Instances, state'[k] = "made",
                        \A e \in live' : e.inst # k
                 PROVE  \E j \in Instances \ {k} :
                            state'[j] = "dropped" /\ addr'[j] = addr'[k]
      OBVIOUS
    <3>1. k # i
      BY <2>1
    <3>2. \E j \in Instances \ {k} : state[j] = "dropped" /\ addr[j] = addr[k]
      BY <1>3, <2>1, <3>1 DEF Attach, TypeOK
    <3> QED
      BY <1>3, <3>2 DEF Attach, TypeOK
  <2>3. (FiledUnderItsAddress /\ DroppedHasNoEntry /\ FreedWhenOver)'
    BY <1>3, <2>1 DEF Attach, TypeOK
  <2>4. CallsThroughEntry'
    BY <1>3, <2>1 DEF Attach
  <2> QED
    BY <1>0, <2>2, <2>3, <2>4
<1>4. ASSUME NEW i \in Instances, DropBox(i) PROVE IInv'
  BY <1>0, <1>4 DEF DropBox, TypeOK
<1>5. ASSUME NEW i \in Instances, Detach(i) PROVE IInv'
  <2>1. \A e \in live' : e.inst # i
    BY <1>5 DEF Detach
  <2> QED
    BY <1>0, <1>5, <2>1 DEF Detach, Locked, TypeOK
<1>6. ASSUME NEW i \in Instances, FreeBridge(i) PROVE IInv'
  BY <1>0, <1>6 DEF FreeBridge, TypeOK
<1>7. ASSUME NEW t \in Threads, EventBegins(t) PROVE IInv'
  BY <1>0, <1>7 DEF EventBegins, Newest, TypeOK
<1>8. ASSUME NEW t \in Threads, EventEnds(t) PROVE IInv'
  BY <1>0, <1>8 DEF EventEnds, TypeOK
<1>9. CASE UNCHANGED vars
  BY <1>0, <1>9 DEF vars
<1> QED
  BY <1>1, <1>2, <1>3, <1>4, <1>5, <1>6, <1>7, <1>8, <1>9, NextCases

\* The invariant holds of every reachable state.
THEOREM Invariant == Spec => []IInv
<1>1. Init => IInv
  BY PluginLogAssumption
  DEF Init, IInv, TypeOK, States, FiledUnderItsAddress, CallsThroughEntry,
      FreedWhenOver, DroppedHasNoEntry, LostOnlyByReuse, Reading
<1>2. IInv /\ [Next]_vars => IInv'
  BY EntriesStep
<1> QED
  BY <1>1, <1>2, PTL DEF Spec

\* No log event runs into a bridge the host has freed, whatever addresses the
\* allocator reuses and however make, drop_instance and logging interleave.
THEOREM ForwardSafe == Spec => []NoFreedBridgeCalled
<1>1. IInv => NoFreedBridgeCalled
  BY DEF IInv, TypeOK, NoFreedBridgeCalled, CallsThroughEntry, FreedWhenOver,
         DroppedHasNoEntry, Reading
<1> QED
  BY <1>1, Invariant, PTL

\* An instance whose drop_instance returned has no entry left.
THEOREM DetachComplete == Spec => []DroppedHasNoEntry
<1>1. IInv => DroppedHasNoEntry
  BY DEF IInv
<1> QED
  BY <1>1, Invariant, PTL

\* A live instance loses its entry only to the drop of another one whose address
\* it was given.
THEOREM EntryLost == Spec => []LostOnlyByReuse
<1>1. IInv => LostOnlyByReuse
  BY DEF IInv
<1> QED
  BY <1>1, Invariant, PTL

=============================================================================
