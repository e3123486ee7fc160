---------------------------- MODULE StreamProofs ----------------------------
(***************************************************************************)
(* Proofs about StreamForward, for any number of items: no callback outlives *)
(* a cancel that did not run out of its five seconds.                       *)
(***************************************************************************)
EXTENDS StreamForward, TLAPS

\* What the wait of a cancel relies on: the channel is settled only when the drop
\* of the future has begun, the host frees its bridge only after the cancel, and
\* a wait that did not run out ends with the drop begun.
Quiesced ==
    /\ signal # "open" => Dropped
    /\ bridge = "freed" => cancel = "returned"
    /\ cancel = "returned" /\ ~late => Dropped

\* The inductive invariant.
IInv == TypeOK /\ Quiesced

\* Every action of the task, the cancel and the host keeps the types.
LEMMA TypeStep == ASSUME TypeOK, [Next]_vars PROVE TypeOK'
<1> USE StreamAssumption DEF TypeOK, Tasks
<1>1. CASE Poll
  BY <1>1 DEF Poll
<1>2. CASE YieldItem
  BY <1>2 DEF YieldItem
<1>3. CASE YieldPending \/ YieldEnd \/ StreamPanics
  BY <1>3 DEF YieldPending, YieldEnd, StreamPanics
<1>4. CASE CallbackReturns \/ DropFuture
  BY <1>4 DEF CallbackReturns, DropFuture
<1>8. CASE DropCaptured
  BY <1>8 DEF DropCaptured
<1>5. CASE Woken \/ Abort \/ FreeBridge
  BY <1>5 DEF Woken, Abort, FreeBridge
<1>6. CASE WaitDone \/ WaitTimesOut
  BY <1>6 DEF WaitDone, WaitTimesOut
<1>7. CASE UNCHANGED vars
  BY <1>7 DEF vars
<1> QED
  BY <1>1, <1>2, <1>3, <1>4, <1>5, <1>6, <1>7, <1>8 DEF Next, Task, Finished

\* Every action keeps the future, the channel, the cancel and the bridge in step.
LEMMA QuiescedStep == ASSUME TypeOK, Quiesced, [Next]_vars PROVE Quiesced'
<1> USE DEF Quiesced, Dropped
<1>1. CASE Poll \/ YieldItem \/ YieldPending
  BY <1>1 DEF Poll, YieldItem, YieldPending
<1>2. CASE YieldEnd \/ StreamPanics \/ CallbackReturns
  BY <1>2 DEF YieldEnd, StreamPanics, CallbackReturns, InCallback
<1>3. CASE DropFuture \/ DropCaptured
  BY <1>3 DEF DropFuture, DropCaptured
<1>4. CASE Woken \/ Abort \/ FreeBridge
  BY <1>4 DEF Woken, Abort, FreeBridge
<1>5. CASE WaitDone \/ WaitTimesOut
  BY <1>5 DEF WaitDone, WaitTimesOut
<1>6. CASE UNCHANGED vars
  BY <1>6 DEF vars
<1> QED
  BY <1>1, <1>2, <1>3, <1>4, <1>5, <1>6 DEF Next, Task, Finished

\* The invariant holds of every reachable state.
THEOREM Invariant == Spec => []IInv
<1>1. Init => IInv
  <2> SUFFICES ASSUME Init PROVE IInv
    OBVIOUS
  <2>1. items \in 0..MaxItems
    BY StreamAssumption DEF Init
  <2>2. TypeOK
    BY <2>1 DEF Init, TypeOK, Tasks
  <2>3. Quiesced
    BY DEF Init, Quiesced, Dropped
  <2> QED
    BY <2>2, <2>3 DEF IInv
<1>2. IInv /\ [Next]_vars => IInv'
  BY TypeStep, QuiescedStep DEF IInv
<1> QED
  BY <1>1, <1>2, PTL DEF Spec

\* The host's callback never runs on a freed bridge, unless the five seconds of
\* the cancel ran out.
THEOREM CallbackSafe == Spec => []NoCallbackAfterFree
<1>1. IInv => NoCallbackAfterFree
  BY DEF IInv, Quiesced, Dropped, NoCallbackAfterFree, InCallback
<1> QED
  BY <1>1, Invariant, PTL

\* A cancel that returned in time has stopped the task: its stream is polled no
\* more, whenever the abort came and in whatever order the captures are dropped.
THEOREM CancelStopped == Spec => []CancelStops
<1>1. IInv => CancelStops
  BY DEF IInv, Quiesced, CancelStops
<1> QED
  BY <1>1, Invariant, PTL

=============================================================================
