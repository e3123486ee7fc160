---------------------------- MODULE PollingProofs ----------------------------
(***************************************************************************)
(* Proofs about PollingWatch, for any number of values and changes: the     *)
(* differences an event source gets compose, and nothing follows a cancel   *)
(* that has returned.                                                       *)
(***************************************************************************)
EXTENDS PollingWatch, SequenceTheorems, TLAPS

\* Where the thread is follows from what spawn and cancel reached.
Lifecycle ==
    /\ life \in {"new", "failed"} => pc = "none"
    /\ life = "cancelled" => pc = "done"

\* An emit has two different states at hand; the host's knowledge starts with
\* the baseline.
Pending ==
    /\ pc = "emit" => last # None /\ cur # None /\ last # cur
    /\ last = None => view = None /\ inbox = <<>>

IInv == TypeOK /\ Lifecycle /\ Pending /\ DiffsCompose

Events == [from : Values, to : Values]

\* The invariant holds at the start.
LEMMA InitOK == Init => IInv
  <1> SUFFICES ASSUME Init PROVE IInv
    OBVIOUS
  <1>1. TypeOK
    <2>1. MaxValue \in Nat /\ MaxChanges \in Nat
      BY PollingAssumption
    <2>2. {state, newest, last, cur, view} \subseteq 0..MaxValue
      BY <2>1 DEF Init, Values, None
    <2>3. inbox \in Seq([from : Values, to : Values])
      BY DEF Init
    <2>4. changes \in 0..MaxChanges /\ emits \in Nat
      BY <2>1 DEF Init
    <2>5. {stop, lost, eventSource, returned} \subseteq BOOLEAN
      BY DEF Init
    <2>6. /\ pc \in {"none", "top", "poll", "emit", "sleep", "done"}
          /\ life \in {"new", "running", "failed", "joining", "cancelled"}
      BY DEF Init
    <2> QED
      BY <2>2, <2>3, <2>4, <2>5, <2>6 DEF TypeOK
  <1>2. Lifecycle /\ Pending
    BY DEF Init, Lifecycle, Pending, None
  <1>3. DiffsCompose
    BY DEF Init, DiffsCompose
  <1> QED
    BY <1>1, <1>2, <1>3 DEF IInv

\* Every step that leaves the thread's memory and the host alone keeps it.
LEMMA KeepsDiffs ==
    ASSUME IInv, UNCHANGED <<eventSource, last, inbox, view, lost>>
    PROVE  DiffsCompose'
  BY DEF IInv, DiffsCompose

\* The invariant is kept by every step.
LEMMA StepOK == IInv /\ [Next]_vars => IInv'
  <1> SUFFICES ASSUME IInv, [Next]_vars PROVE IInv'
    OBVIOUS
  <1> USE PollingAssumption DEF None, Values
  <1>1. CASE Change
    <2>1. TypeOK' /\ Lifecycle' /\ Pending'
      BY <1>1 DEF Change, IInv, TypeOK, Lifecycle, Pending, thread, host
    <2>2. DiffsCompose'
      BY <1>1, KeepsDiffs DEF Change, thread, host
    <2> QED
      BY <2>1, <2>2 DEF IInv
  <1>2. CASE Spawn \/ Top \/ PollDiffers \/ PollQuiet \/ PollPanics \/ Sleep \/ Cancel \/ Join
    <2>1. TypeOK' /\ Lifecycle' /\ Pending'
      BY <1>2 DEF Spawn, Top, PollDiffers, PollQuiet, PollPanics, Sleep, Cancel,
                  Join, IInv, TypeOK, Lifecycle, Pending, world, thread, host
    <2>2. DiffsCompose'
      BY <1>2, KeepsDiffs DEF Spawn, Top, PollDiffers, PollQuiet, PollPanics,
                  Sleep, Cancel, Join, thread, host
    <2> QED
      BY <2>1, <2>2 DEF IInv
  <1>3. CASE PollBaseline
    <2>1. inbox = <<>> /\ view = None /\ view' = state /\ last' = state /\ inbox' = inbox
      BY <1>3 DEF PollBaseline, IInv, Pending
    <2>2. TypeOK' /\ Lifecycle' /\ Pending'
      BY <1>3, <2>1 DEF PollBaseline, IInv, TypeOK, Lifecycle, Pending, world
    <2>3. DiffsCompose'
      BY <2>1 DEF DiffsCompose
    <2> QED
      BY <2>2, <2>3 DEF IInv
  <1>4. CASE Emit
    <2> DEFINE e == [from |-> last, to |-> cur]
    <2>1. e \in Events /\ e.from # e.to /\ inbox \in Seq(Events)
      BY <1>4 DEF Emit, IInv, TypeOK, Pending, Events
    <2>2. /\ inbox' = Append(inbox, e) /\ last' = cur
          /\ UNCHANGED <<view, lost, eventSource>>
      BY <1>4 DEF Emit
    <2> HIDE DEF e
    <2>3. /\ Len(inbox') = Len(inbox) + 1 /\ Len(inbox) \in Nat
          /\ inbox'[Len(inbox) + 1] = e
          /\ \A i \in 1..Len(inbox) : inbox'[i] = inbox[i]
      BY <2>1, <2>2
    <2>4. inbox' \in Seq(Events) /\ inbox' # <<>>
      BY <2>1, <2>2
    <2>5. TypeOK' /\ Lifecycle' /\ Pending'
      BY <1>4, <2>4 DEF Emit, IInv, TypeOK, Lifecycle, Pending, Events, world
    <2>6. DiffsCompose'
      <3> SUFFICES ASSUME eventSource, ~lost
                   PROVE  /\ \A i \in 1..Len(inbox') : inbox'[i].from # inbox'[i].to
                          /\ \A i \in 1..Len(inbox') - 1 : inbox'[i].to = inbox'[i + 1].from
                          /\ inbox'[1].from = view
                          /\ inbox'[Len(inbox')].to = cur
        BY <2>2, <2>4 DEF DiffsCompose
      <3>1. e.from = last /\ e.to = cur
        BY DEF e
      <3>2. DiffsCompose
        BY DEF IInv
      <3>3. CASE inbox = <<>>
        BY <2>1, <2>3, <3>1, <3>2, <3>3 DEF DiffsCompose
      <3>4. CASE inbox # <<>>
        <4>1. Len(inbox) \in Nat \ {0}
          BY <2>1, <3>4, EmptySeq
        <4> QED
          BY <2>1, <2>3, <3>1, <3>2, <3>4, <4>1 DEF DiffsCompose
      <3> QED
        BY <3>3, <3>4
    <2> QED
      BY <2>5, <2>6 DEF IInv
  <1>5. CASE EmitFails
    <2>1. TypeOK' /\ Lifecycle' /\ Pending'
      BY <1>5 DEF EmitFails, IInv, TypeOK, Lifecycle, Pending, world
    <2>2. DiffsCompose'
      BY <1>5 DEF EmitFails, DiffsCompose
    <2> QED
      BY <2>1, <2>2 DEF IInv
  <1>6. CASE Handle
    <2>1. inbox \in Seq(Events) /\ inbox # <<>>
      BY <1>6 DEF Handle, IInv, TypeOK, Events
    <2>2. /\ Len(inbox) \in Nat \ {0} /\ inbox[1] \in Events
          /\ inbox' \in Seq(Events) /\ Len(inbox') = Len(inbox) - 1
          /\ \A i \in 1..Len(inbox') : inbox'[i] = inbox[i + 1]
      BY <1>6, <2>1, EmptySeq DEF Handle
    <2>3. last # None
      BY <2>1 DEF IInv, Pending
    <2>4. view' \in 0..MaxValue
      BY <1>6, <2>1, <2>2 DEF Handle, Events, IInv, TypeOK
    <2>5. TypeOK' /\ Lifecycle' /\ Pending'
      BY <1>6, <2>2, <2>3, <2>4 DEF Handle, IInv, TypeOK, Lifecycle, Pending,
                                    Events, world, thread
    <2>6. DiffsCompose'
      <3> SUFFICES ASSUME eventSource, ~lost PROVE DiffsCompose'
        BY <1>6 DEF Handle, DiffsCompose
      <3>1. view' = inbox[1].to /\ last' = last
        BY <1>6, <2>1 DEF Handle, thread
      <3>2. DiffsCompose
        BY DEF IInv
      <3>3. CASE Len(inbox) = 1
        <4>1. inbox' = <<>>
          BY <2>2, <3>3, EmptySeq
        <4> QED
          BY <2>1, <3>1, <3>2, <3>3, <4>1 DEF DiffsCompose
      <3>4. CASE Len(inbox) # 1
        <4>1. inbox' # <<>> /\ Len(inbox) - 1 \in Nat \ {0}
          BY <2>2, <3>4, EmptySeq
        <4> QED
          BY <2>1, <2>2, <3>1, <3>2, <4>1 DEF DiffsCompose
      <3> QED
        BY <3>3, <3>4
    <2> QED
      BY <2>5, <2>6 DEF IInv
  <1>7. CASE UNCHANGED vars
    BY <1>7 DEF vars, world, thread, host, IInv, TypeOK, Lifecycle, Pending,
                DiffsCompose
  <1> QED
    BY <1>1, <1>2, <1>3, <1>4, <1>5, <1>6, <1>7 DEF Next, Thread, Terminated

\* The inductive invariant holds in every reachable state.
THEOREM Invariant == Spec => []IInv
  <1> QED
    BY InitOK, StepOK, PTL DEF Spec

\* The variables of spawn_diffing_watch's thread keep their types.
THEOREM Typed == Spec => []TypeOK
  <1>1. IInv => TypeOK
    BY DEF IInv
  <1> QED
    BY <1>1, Invariant, PTL

\* The differences a host is sent by spawn_diffing_watch compose.
THEOREM DiffsAlwaysCompose == Spec => []DiffsCompose
  <1>1. IInv => DiffsCompose
    BY DEF IInv
  <1> QED
    BY <1>1, Invariant, PTL

\* Nothing is emitted once cancel_polling_watch has returned.
THEOREM QuietOnceCancelled == Spec => QuietAfterCancel
  <1>1. IInv /\ [Next]_vars => [life = "cancelled" => UNCHANGED <<emits, last>>]_vars
    <2> SUFFICES ASSUME IInv, Next, life = "cancelled"
                 PROVE  UNCHANGED <<emits, last>>
      BY DEF vars
    <2>1. pc = "done"
      BY DEF IInv, Lifecycle
    <2> QED
      BY <2>1 DEF Next, Thread, Change, Spawn, Top, PollBaseline, PollDiffers,
              PollQuiet, PollPanics, Emit, EmitFails, Sleep, Handle, Cancel, Join,
              Terminated, vars, world, thread, host
  <1> QED
    BY <1>1, Invariant, PTL DEF Spec, QuietAfterCancel

=============================================================================
