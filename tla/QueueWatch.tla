----------------------------- MODULE QueueWatch -----------------------------
(***************************************************************************)
(* The queue watch of src/queue.rs: one thread receives from a broker and  *)
(* emits each delivery to the host, another settles deliveries upstream,   *)
(* and the host acknowledges and cancels.  A delivery is held in a window   *)
(* from the moment it is emitted until it is acked, released or cancelled.  *)
(*                                                                         *)
(* Granularity: one action per critical section of the window's mutex and   *)
(* one per call into the broker, so every interleaving of the two threads   *)
(* between a lock and the call that follows it is a behaviour.              *)
(***************************************************************************)
EXTENDS Integers, Sequences, FiniteSets

CONSTANTS
    Msgs,           \* the messages of the broker's queue
    Large,          \* those whose event cannot cross to the host: it does not
                    \* serialise or is past FFI_MAX_PAYLOAD_BYTES
    EventSources,   \* the values of is_event_source(resource_uri) considered
    MaxInFlight,    \* QueueOptions::max_in_flight
    MaxDeliveries,  \* bound: deliveries the broker makes in a behaviour
    MaxUnreadAcks   \* bound: acknowledgements waiting in the channel

\* QueueOptions::validate: what spawn_queue_watch accepts.
ASSUME OptionsAssumption ==
    /\ MaxInFlight \in 1..1000
    /\ Large \subseteq Msgs
    /\ EventSources \subseteq BOOLEAN
    /\ MaxDeliveries \in Nat
    /\ MaxUnreadAcks \in Nat

VARIABLES
    eventSource,    \* is_event_source(resource_uri): events, not bare changes
    \* the broker (external)
    delivered,      \* delivered[r]: the message delivered under receipt r
    lease,          \* lease[m]: the receipt m is out under, or Ready, Removed
    calls,          \* calls[r]: the ack and release calls made on receipt r
    \* Shared
    window,         \* Window::pending: seq and receipt of what is held
    nextSeq,        \* Window::next_seq
    elapsed,        \* the entries below this seq have waited ack_timeout
    stop,           \* Shared::stop
    \* receive_loop
    rpc, connected, room,
    batch,          \* the deliveries received and not yet offered
    offered,        \* the entry `offer` is working on
    \* settle_loop
    spc,
    hand,           \* the receipts out of the window and about to be settled
    settles,        \* the channel from the host
    \* the host
    life,           \* what spawn_queue_watch and cancel_queue_watch reached
    emitted,        \* the events emitted: seq and receipt
    bare,           \* the receipts a bare change was emitted for
    stored          \* the messages the host has stored

broker   == <<eventSource, delivered, lease, calls>>
shared   == <<window, nextSeq, elapsed, stop>>
receiver == <<rpc, connected, room, batch, offered>>
settler  == <<spc, hand, settles>>
host     == <<life, emitted, bare, stored>>
vars     == <<broker, shared, receiver, settler, host>>

Receipts == 1..MaxDeliveries
Ready    == 0
Removed  == -1
NoSeq    == -1      \* a position without a readable "seq"
Entries  == [seq : Nat, receipt : Receipts]
NoEntry  == [seq |-> NoSeq, receipt |-> 0]
Ack(seq) == [type |-> "ack", seq |-> seq]
Stop     == [type |-> "stop", seq |-> NoSeq]

Max == MaxInFlight
Held == Cardinality(window)
First(S) == {r \in S : \A q \in S : r <= q}

-----------------------------------------------------------------------------
Init ==
    /\ eventSource \in EventSources
    /\ delivered = <<>>
    /\ lease = [m \in Msgs |-> Ready]
    /\ calls = [r \in Receipts |-> <<>>]
    /\ window = {} /\ nextSeq = 0 /\ elapsed = 0 /\ stop = FALSE
    /\ rpc = "none" /\ connected = FALSE /\ room = 0
    /\ batch = {} /\ offered = NoEntry
    /\ spc = "none" /\ hand = {} /\ settles = <<>>
    /\ life = "new" /\ emitted = {} /\ bare = {} /\ stored = {}

-----------------------------------------------------------------------------
(* The broker.  A call on a receipt that is no longer valid changes         *)
(* nothing, and any call may fail (it is then only logged).                 *)

\* QueueSource::ack and QueueSource::release, called by thread `by`.
Settle(op, by, r) ==
    LET m == delivered[r]
        to == IF op = "ack" THEN Removed ELSE Ready
    IN  /\ calls' = [calls EXCEPT ![r] = Append(@, [op |-> op, by |-> by])]
        /\ \/ UNCHANGED lease
           \/ lease[m] = r /\ lease' = [lease EXCEPT ![m] = to]
        /\ UNCHANGED <<eventSource, delivered>>

\* The broker's own lock lapses, or the connection the receipt belongs to is
\* gone: the message is deliverable again and the receipt is stale.
LockLapses(m) ==
    /\ lease[m] \in Receipts
    /\ lease' = [lease EXCEPT ![m] = Ready]
    /\ UNCHANGED <<eventSource, delivered, calls, shared, receiver, settler, host>>

\* A message joins the receive in progress, at most `room` of them.
Deliver(m) ==
    /\ rpc = "receive"
    /\ lease[m] = Ready
    /\ Cardinality(batch) < room
    /\ Len(delivered) < MaxDeliveries
    /\ LET r == Len(delivered) + 1 IN
        /\ delivered' = Append(delivered, m)
        /\ lease' = [lease EXCEPT ![m] = r]
        /\ batch' = batch \cup {r}
    /\ UNCHANGED <<eventSource, calls, shared, rpc, connected, room, offered, settler,
                   host>>

-----------------------------------------------------------------------------
(* spawn_queue_watch *)

SpawnReceiver ==
    /\ life = "new"
    /\ \/ life' = "half" /\ rpc' = "loop"
       \/ life' = "failed" /\ UNCHANGED rpc
    /\ UNCHANGED <<broker, shared, connected, room, batch, offered, settler,
                   emitted, bare, stored>>

\* When the second thread does not start the error returns at once; the first
\* thread is detached, and no handle to stop it is left.
SpawnSettler ==
    /\ life = "half"
    /\ \/ life' = "running" /\ spc' = "expire"
       \/ life' = "failed" /\ UNCHANGED spc
    /\ UNCHANGED <<broker, shared, receiver, hand, settles,
                   emitted, bare, stored>>

-----------------------------------------------------------------------------
(* receive_loop *)

LoopTop ==
    /\ rpc = "loop"
    /\ rpc' = IF stop THEN "done" ELSE IF connected THEN "room" ELSE "connect"
    /\ UNCHANGED <<broker, shared, connected, room, batch, offered, settler, host>>

Connect ==
    /\ rpc = "connect"
    /\ \/ rpc' = "room" /\ connected' = TRUE
       \/ rpc' = "pause" /\ UNCHANGED connected
    /\ UNCHANGED <<broker, shared, room, batch, offered, settler, host>>

\* Shared::pause: the delay is over, or the stop flag ended it early.
Pause ==
    /\ rpc = "pause"
    /\ rpc' = "loop"
    /\ UNCHANGED <<broker, shared, connected, room, batch, offered, settler, host>>

\* Mutant of RoomLeft: what the window already holds is not counted.
RoomWholeWindow == Max

\* The room wait_for_room returns.
RoomLeft == Max - Held

\* Shared::wait_for_room: returns only once stopped or with room.
WaitForRoom ==
    /\ rpc = "room"
    /\ \/ stop /\ rpc' = "done" /\ UNCHANGED room
       \/ ~stop /\ Held < Max /\ rpc' = "receive" /\ room' = RoomLeft
    /\ UNCHANGED <<broker, shared, connected, batch, offered, settler, host>>

\* A receive that fails hands over nothing; what the broker leased for it is the
\* broker's to offer again.
ReceiveFails ==
    /\ rpc = "receive" /\ batch = {}
    /\ rpc' = "pause" /\ connected' = FALSE
    /\ UNCHANGED <<broker, shared, room, batch, offered, settler, host>>

\* The receive returns; what happens to the deliveries depends on the stop
\* flag read right after it.
ReceiveReturns ==
    /\ rpc = "receive"
    /\ rpc' = IF batch = {} THEN "loop"
              ELSE IF stop THEN "giveback"
              ELSE IF ~eventSource THEN "ackall" ELSE "offer"
    /\ UNCHANGED <<broker, shared, connected, room, batch, offered, settler, host>>

\* Deliveries received after the stop go back to the broker, then the thread
\* ends.
GiveBack ==
    /\ rpc = "giveback"
    /\ \E r \in First(batch) :
        /\ Settle("release", "receiver", r)
        /\ batch' = batch \ {r}
        /\ rpc' = IF batch = {r} THEN "done" ELSE "giveback"
    /\ UNCHANGED <<shared, connected, room, offered, settler, host>>

\* A resource watch settles each delivery at once ...
AckAll ==
    /\ rpc = "ackall" /\ batch # {}
    /\ \E r \in First(batch) :
        /\ Settle("ack", "receiver", r)
        /\ batch' = batch \ {r}
    /\ UNCHANGED <<shared, rpc, connected, room, offered, settler, host>>

\* Mutant of EmitBare: the change is not emitted.
EmitBareForgotten ==
    /\ rpc = "ackall" /\ batch = {}
    /\ rpc' = "loop"
    /\ UNCHANGED <<broker, shared, connected, room, batch, offered, settler, host>>

\* ... and emits one bare change for them all.
EmitBare ==
    /\ rpc = "ackall" /\ batch = {}
    /\ bare' = {r \in 1..Len(delivered) : calls[r] # <<>>}
    /\ rpc' = "loop"
    /\ UNCHANGED <<broker, shared, connected, room, batch, offered, settler,
                   life, emitted, stored>>

\* offer: the delivery joins the window before its event is made.
OfferHold ==
    /\ rpc = "offer" /\ batch # {}
    /\ \E r \in First(batch) :
        /\ offered' = [seq |-> nextSeq, receipt |-> r]
        /\ window' = window \cup {offered'}
        /\ batch' = batch \ {r}
    /\ nextSeq' = nextSeq + 1
    /\ rpc' = "event"
    /\ UNCHANGED <<broker, elapsed, stop, connected, room, settler, host>>

AfterOffer == IF batch = {} THEN "loop" ELSE "offer"

OfferEmit ==
    /\ rpc = "event"
    /\ delivered[offered.receipt] \notin Large
    /\ emitted' = emitted \cup {offered}
    /\ offered' = NoEntry
    /\ rpc' = AfterOffer
    /\ UNCHANGED <<broker, shared, connected, room, batch, settler, life, bare, stored>>

\* An event that cannot cross: `take` removes the entry if it is still there,
\* and its message is acked whatever `take` returned.
OfferTake ==
    /\ rpc = "event"
    /\ delivered[offered.receipt] \in Large
    /\ window' = window \ {offered}
    /\ rpc' = "drop"
    /\ UNCHANGED <<broker, nextSeq, elapsed, stop, connected, room, batch,
                   offered, settler, host>>

OfferDrop ==
    /\ rpc = "drop"
    /\ Settle("ack", "receiver", offered.receipt)
    /\ offered' = NoEntry
    /\ rpc' = AfterOffer
    /\ UNCHANGED <<shared, connected, room, batch, settler, host>>

-----------------------------------------------------------------------------
(* settle_loop *)

\* ack_timeout passes for the oldest entry it has not passed for.  Entries
\* join the window in the order of their seq, so the late ones are a prefix.
Elapse ==
    /\ \E e \in window :
        /\ e.seq >= elapsed
        /\ \A f \in window : f.seq >= elapsed => e.seq <= f.seq
        /\ elapsed' = e.seq + 1
    /\ UNCHANGED <<broker, window, nextSeq, stop, receiver, settler, host>>

Late == {e \in window : e.seq < elapsed}

\* Mutant of AfterExpiry: the late entries are released but stay in the window.
AfterExpiryKept == window

\* What Shared::expired leaves in the window.
AfterExpiry == window \ Late

\* Shared::expired: the late entries leave the window ...
Expired ==
    /\ spc = "expire"
    /\ window' = AfterExpiry
    /\ hand' = {e.receipt : e \in Late}
    /\ spc' = IF Late = {} THEN "recv" ELSE "release"
    /\ UNCHANGED <<broker, nextSeq, elapsed, stop, receiver, settles, host>>

\* ... and are released one by one, the lock no longer held.
ReleaseExpired ==
    /\ spc = "release"
    /\ \E r \in First(hand) :
        /\ Settle("release", "settler", r)
        /\ hand' = hand \ {r}
        /\ spc' = IF hand = {r} THEN "recv" ELSE "release"
    /\ UNCHANGED <<shared, receiver, settles, host>>

\* Mutant of RecvTimeout: the wait goes on until the host sends something.
RecvTimeoutNever ==
    /\ spc = "recv" /\ settles = <<>>
    /\ UNCHANGED vars

\* recv_timeout ends with nothing in the channel: look for late entries again.
RecvTimeout ==
    /\ spc = "recv" /\ settles = <<>>
    /\ spc' = "expire"
    /\ UNCHANGED <<broker, shared, receiver, hand, settles, host>>

\* Mutant of Taken: an acknowledgement settles the oldest entry, whatever it names.
TakenOldest(seq) == {e \in window : \A f \in window : e.seq <= f.seq}

\* Shared::take: the entry of `seq`, if it is still in the window.
Taken(seq) == {e \in window : e.seq = seq}

\* An acknowledgement takes its entry out of the window, if it is there.
RecvAck ==
    /\ spc = "recv" /\ settles # <<>> /\ Head(settles).type = "ack"
    /\ LET taken == Taken(Head(settles).seq) IN
        /\ window' = window \ taken
        /\ hand' = {e.receipt : e \in taken}
        /\ spc' = IF taken = {} THEN "expire" ELSE "ack"
    /\ settles' = Tail(settles)
    /\ UNCHANGED <<broker, nextSeq, elapsed, stop, receiver, host>>

AckTaken ==
    /\ spc = "ack"
    /\ \E r \in First(hand) :
        /\ Settle("ack", "settler", r)
        /\ hand' = hand \ {r}
    /\ spc' = "expire"
    /\ UNCHANGED <<shared, receiver, settles, host>>

\* The stop message: everything still held leaves the window ...
RecvStop ==
    /\ spc = "recv" /\ settles # <<>> /\ Head(settles).type = "stop"
    /\ window' = {}
    /\ hand' = {e.receipt : e \in window}
    /\ spc' = IF window = {} THEN "done" ELSE "drain"
    /\ settles' = Tail(settles)
    /\ UNCHANGED <<broker, nextSeq, elapsed, stop, receiver, host>>

\* ... and is released.
Drain ==
    /\ spc = "drain"
    /\ \E r \in First(hand) :
        /\ Settle("release", "settler", r)
        /\ hand' = hand \ {r}
        /\ spc' = IF hand = {r} THEN "done" ELSE "drain"
    /\ UNCHANGED <<shared, receiver, settles, host>>

-----------------------------------------------------------------------------
(* The host.  It acknowledges events it has stored, in any order, late or   *)
(* twice, and never after it began to cancel.                               *)

Acknowledge(e) ==
    /\ life = "running"
    /\ Len(settles) < MaxUnreadAcks
    /\ stored' = stored \cup {delivered[e.receipt]}
    /\ settles' = Append(settles, Ack(e.seq))
    /\ UNCHANGED <<broker, shared, receiver, spc, hand, life, emitted, bare>>

AcknowledgeUnreadable ==
    /\ life = "running"
    /\ Len(settles) < MaxUnreadAcks
    /\ settles' = Append(settles, Ack(NoSeq))
    /\ UNCHANGED <<broker, shared, receiver, spc, hand, host>>

\* cancel_queue_watch: raise the flag, join the receiver, send Stop, join the
\* settler.
Cancel ==
    /\ life = "running"
    /\ life' = "joining" /\ stop' = TRUE
    /\ UNCHANGED <<broker, window, nextSeq, elapsed, receiver, settler,
                   emitted, bare, stored>>

\* Mutant of JoinReceiver: Stop is sent without joining the receiver.
JoinReceiverSkipped ==
    /\ life = "joining"
    /\ life' = "stopping"
    /\ settles' = Append(settles, Stop)
    /\ UNCHANGED <<broker, shared, receiver, spc, hand, emitted, bare, stored>>

\* Mutant of JoinReceiver: no Stop is sent to the settling thread.
JoinReceiverMute ==
    /\ life = "joining" /\ rpc = "done"
    /\ life' = "stopping"
    /\ UNCHANGED <<broker, shared, receiver, settler, emitted, bare, stored>>

JoinReceiver ==
    /\ life = "joining" /\ rpc = "done"
    /\ life' = "stopping"
    /\ settles' = Append(settles, Stop)
    /\ UNCHANGED <<broker, shared, receiver, spc, hand, emitted, bare, stored>>

\* Mutant of JoinSettler: the cancel returns without joining the settler.
JoinSettlerSkipped ==
    /\ life = "stopping"
    /\ life' = "cancelled"
    /\ UNCHANGED <<broker, shared, receiver, settler, emitted, bare, stored>>

JoinSettler ==
    /\ life = "stopping" /\ spc = "done"
    /\ life' = "cancelled"
    /\ UNCHANGED <<broker, shared, receiver, settler, emitted, bare, stored>>

-----------------------------------------------------------------------------
ReceiveLoop ==
    \/ LoopTop \/ Connect \/ Pause \/ WaitForRoom \/ ReceiveFails
    \/ ReceiveReturns \/ GiveBack \/ AckAll \/ EmitBare
    \/ OfferHold \/ OfferEmit \/ OfferTake \/ OfferDrop

SettleLoop ==
    \/ Expired \/ ReleaseExpired \/ RecvTimeout \/ RecvAck \/ AckTaken
    \/ RecvStop \/ Drain

Host ==
    \/ \E e \in emitted : Acknowledge(e)
    \/ AcknowledgeUnreadable
    \/ Cancel \/ JoinReceiver \/ JoinSettler

Broker == \E m \in Msgs : Deliver(m) \/ LockLapses(m)

\* A watch that never started, or was cancelled, takes no more steps.
Terminated ==
    /\ life \in {"failed", "cancelled"}
    /\ UNCHANGED vars

Next == SpawnReceiver \/ SpawnSettler \/ ReceiveLoop \/ SettleLoop \/ Elapse
        \/ Host \/ Broker \/ Terminated

Spec == Init /\ [][Next]_vars

\* Both threads run, a call into the broker returns, time passes, and a cancel
\* once begun goes on.  The host need not acknowledge and need not cancel; the
\* broker need not deliver; a lock need not lapse.
Fairness ==
    /\ WF_vars(SpawnReceiver) /\ WF_vars(SpawnSettler)
    /\ WF_vars(ReceiveLoop)
    /\ WF_vars(SettleLoop)
    /\ WF_vars(Elapse)
    /\ WF_vars(JoinReceiver) /\ WF_vars(JoinSettler)

FairSpec == Spec /\ Fairness

-----------------------------------------------------------------------------
RPCs == {"none", "loop", "connect", "pause", "room", "receive", "giveback",
         "ackall", "offer", "event", "drop", "done"}
SPCs == {"none", "expire", "release", "recv", "ack", "drain", "done"}
Lives == {"new", "half", "failed", "running", "joining", "stopping", "cancelled"}
Calls == [op : {"ack", "release"}, by : {"receiver", "settler"}]
Messages == [type : {"ack", "stop"}, seq : Nat \cup {NoSeq}]

\* The type of each variable.
TypeOK ==
    /\ eventSource \in BOOLEAN
    /\ delivered \in Seq(Msgs)
    /\ lease \in [Msgs -> Receipts \cup {Ready, Removed}]
    /\ calls \in [Receipts -> Seq(Calls)]
    /\ window \in SUBSET Entries
    /\ nextSeq \in Nat /\ elapsed \in Nat /\ stop \in BOOLEAN
    /\ rpc \in RPCs /\ connected \in BOOLEAN /\ room \in 0..Max
    /\ batch \in SUBSET Receipts
    /\ offered \in Entries \cup {NoEntry}
    /\ spc \in SPCs /\ hand \in SUBSET Receipts /\ settles \in Seq(Messages)
    /\ life \in Lives
    /\ emitted \in SUBSET Entries /\ bare \in SUBSET Receipts
    /\ stored \in SUBSET Msgs

Issued == 1..Len(delivered)
Unsettled == {r \in Issued : calls[r] = <<>>}
HeldReceipts == {e.receipt : e \in window}
Dropping == IF rpc = "drop" THEN {offered.receipt} ELSE {}
ReceiverRuns == rpc \notin {"none", "done"}
SettlerRuns == spc \notin {"none", "done"}

\* src/queue.rs:5-6, 85 bound what is in flight by max_in_flight.  What the
\* code keeps: deliveries in the window and in the receiver's batch never
\* exceed it, whatever room the receiver computed before the settler moved on.
WindowBound == Held + Cardinality(batch) <= Max

\* Every delivery the watch has not settled is in its custody, in one place:
\* the receiver's batch, the window, or the settler's hand.  Nothing leaks
\* between a lock and the call that follows it, and what the receiver or the
\* window holds has not been settled behind its back.  The exception is an
\* event that cannot cross: `offer` acks it even if the settler took it first.
Custody ==
    /\ batch \cap HeldReceipts = {} /\ batch \cap hand = {}
    /\ HeldReceipts \cap hand = {}
    /\ Unsettled \subseteq batch \cup HeldReceipts \cup hand \cup Dropping
    /\ batch \cup HeldReceipts \subseteq Unsettled
    /\ \A r \in hand : delivered[r] \in Large \/ r \in Unsettled

\* A receipt is settled at most once: a late or repeated acknowledgement and an
\* expiry never both reach the broker (queue_tests.rs, the late ack of an
\* expired delivery).  Only a message that cannot cross may see two calls.
SettledOnce ==
    \A r \in Issued : delivered[r] \notin Large => Len(calls[r]) <= 1

\* The settling thread acks a receipt only if the host acknowledged an event of
\* that very receipt, so a message is removed only once stored.
AckedWasStored ==
    \A r \in Issued : \A i \in 1..Len(calls[r]) :
        calls[r][i] = [op |-> "ack", by |-> "settler"]
            => /\ delivered[r] \in stored
               /\ \E e \in emitted : e.receipt = r

\* cancel_queue_watch returns only when both threads are gone and every
\* delivery has been settled, so a successor need not wait for locks to lapse.
CancelSettlesAll ==
    life = "cancelled" => /\ ~ReceiverRuns /\ ~SettlerRuns
                          /\ Unsettled = {}

\* Once the cancel has returned nothing reaches the host or the broker.
QuietAfterCancel ==
    [][life = "cancelled" => UNCHANGED <<calls, emitted, bare, stored>>]_vars

\* What the contract sees: where each message is, and which may leave the queue
\* without the host storing it.
Standing == [m \in Msgs |-> IF lease[m] = Ready THEN "ready"
                            ELSE IF lease[m] = Removed THEN "removed"
                            ELSE "leased"]
SettledUnstored == IF eventSource THEN Large ELSE Msgs
Contract == INSTANCE QueueContract
            WITH undeliverable <- SettledUnstored, status <- Standing

\* The watch implements the contract of QueueContract: a message is removed only
\* while leased, and only once the host stored it (src/queue.rs:3-9).
ImplementsContract == Contract!ContractSpec

\* A delivery held in the window of a started watch is settled in the end,
\* whether or not the host acknowledges it (src/queue.rs:7-9).
HeldIsSettled ==
    \A r \in Receipts :
        (r \in HeldReceipts /\ life = "running") ~> (calls[r] # <<>>)

\* A cancel returns, whatever the two threads were doing when it came.
CancelReturns == (life = "joining") ~> (life = "cancelled")

\* A resource watch tells the host of every delivery it acked.
AckedIsTold ==
    \A r \in Receipts :
        (~eventSource /\ calls[r] # <<>> /\ calls[r][1].op = "ack") ~> (r \in bare)

=============================================================================
