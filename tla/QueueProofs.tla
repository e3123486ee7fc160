----------------------------- MODULE QueueProofs -----------------------------
(***************************************************************************)
(* Proofs about QueueWatch: the invariant of QueueInvariant is inductive,   *)
(* and the safety properties follow, for every set of messages, every       *)
(* window size and every bound.                                             *)
(***************************************************************************)
EXTENDS QueueInvariant, FiniteSetTheorems, TLAPS

-----------------------------------------------------------------------------
(* Facts the steps share. *)

\* Next, one disjunct per action.
LEMMA NextCases ==
    ASSUME [Next]_vars
    PROVE  \/ SpawnReceiver \/ SpawnSettler
           \/ LoopTop \/ Connect \/ Pause \/ WaitForRoom \/ ReceiveFails
           \/ ReceiveReturns \/ GiveBack \/ AckAll \/ EmitBare
           \/ OfferHold \/ OfferEmit \/ OfferTake \/ OfferDrop
           \/ Expired \/ ReleaseExpired \/ RecvTimeout \/ RecvAck \/ AckTaken
           \/ RecvStop \/ Drain \/ Elapse
           \/ (\E e \in emitted : Acknowledge(e)) \/ AcknowledgeUnreadable
           \/ Cancel \/ JoinReceiver \/ JoinSettler
           \/ (\E m \in Msgs : Deliver(m)) \/ (\E m \in Msgs : LockLapses(m))
           \/ UNCHANGED vars
BY DEF Next, ReceiveLoop, SettleLoop, Host, Broker, Terminated

\* A call on an issued receipt keeps the broker's types, changes that receipt's
\* calls only, and moves at most its own message.
LEMMA SettleEffect ==
    ASSUME TypeOK, Len(delivered) <= MaxDeliveries,
           NEW op \in {"ack", "release"}, NEW by \in {"receiver", "settler"},
           NEW r \in Issued, Settle(op, by, r)
    PROVE  /\ UNCHANGED <<eventSource, delivered>>
           /\ lease' \in [Msgs -> Receipts \cup {Ready, Removed}]
           /\ calls' \in [Receipts -> Seq(Calls)]
           /\ calls'[r] = Append(calls[r], [op |-> op, by |-> by])
           /\ \A q \in Receipts \ {r} : calls'[q] = calls[q]
<1>1. r \in Receipts
  BY OptionsAssumption DEF TypeOK, Issued, Receipts
<1>2. delivered[r] \in Msgs
  BY DEF TypeOK, Issued
<1>3. [op |-> op, by |-> by] \in Calls
  BY DEF Calls
<1>4. calls[r] \in Seq(Calls)
  BY <1>1 DEF TypeOK
<1>5. Append(calls[r], [op |-> op, by |-> by]) \in Seq(Calls)
  BY <1>3, <1>4
<1>6. calls' \in [Receipts -> Seq(Calls)]
  BY <1>1, <1>5 DEF Settle, TypeOK
<1>7. lease' \in [Msgs -> Receipts \cup {Ready, Removed}]
  BY <1>2 DEF Settle, TypeOK
<1> QED
  BY <1>1, <1>6, <1>7 DEF Settle, TypeOK

\* Entries keep their type through the set operations of the window.
LEMMA ReceiptsOf ==
    ASSUME NEW W \in SUBSET Entries
    PROVE  {e.receipt : e \in W} \in SUBSET Receipts
BY DEF Entries

-----------------------------------------------------------------------------
(* Type correctness. *)

\* Every action keeps the types.
LEMMA TypeStep ==
    ASSUME TypeOK, IssuedOnly, Numbered, Offering, [Next]_vars
    PROVE  TypeOK'
<1> USE OptionsAssumption DEF vars, broker, shared, receiver, settler, host
<1>1. CASE SpawnReceiver
  BY <1>1 DEF SpawnReceiver, TypeOK, RPCs, SPCs, Lives, Messages
<1>2. CASE SpawnSettler
  BY <1>2 DEF SpawnSettler, TypeOK, RPCs, SPCs, Lives, Messages
<1>3. CASE LoopTop
  BY <1>3 DEF LoopTop, TypeOK, RPCs, SPCs, Lives, Messages
<1>4. CASE Connect
  BY <1>4 DEF Connect, TypeOK, RPCs, SPCs, Lives, Messages
<1>5. CASE Pause
  BY <1>5 DEF Pause, TypeOK, RPCs, SPCs, Lives, Messages
<1>6. CASE ReceiveFails
  BY <1>6 DEF ReceiveFails, TypeOK, RPCs, SPCs, Lives, Messages
<1>7. CASE ReceiveReturns
  BY <1>7 DEF ReceiveReturns, TypeOK, RPCs, SPCs, Lives, Messages
<1>8. CASE OfferEmit
  <2>1. offered \in Entries
    BY <1>8 DEF OfferEmit, Offering
  <2> QED
    BY <1>8, <2>1 DEF OfferEmit, TypeOK, RPCs, SPCs, Lives, Messages, AfterOffer
<1>9. CASE OfferTake
  BY <1>9 DEF OfferTake, TypeOK, RPCs, SPCs, Lives, Messages
<1>10. CASE RecvTimeout
  BY <1>10 DEF RecvTimeout, TypeOK, RPCs, SPCs, Lives, Messages
<1>11. CASE Cancel
  BY <1>11 DEF Cancel, TypeOK, RPCs, SPCs, Lives, Messages
<1>12. CASE JoinReceiver
  BY <1>12 DEF JoinReceiver, TypeOK, RPCs, SPCs, Lives, Messages, Stop, NoSeq
<1>13. CASE JoinSettler
  BY <1>13 DEF JoinSettler, TypeOK, RPCs, SPCs, Lives, Messages
<1>14. CASE AcknowledgeUnreadable
  BY <1>14 DEF AcknowledgeUnreadable, TypeOK, RPCs, SPCs, Lives, Messages, Ack, NoSeq
<1>15. CASE WaitForRoom
  <2>1. Held \in Nat
    BY FS_CardinalityType DEF IssuedOnly, Held
  <2> QED
    BY <1>15, <2>1 DEF WaitForRoom, RoomLeft, Max, TypeOK, RPCs, SPCs, Lives, Messages
<1>16. CASE GiveBack
  <2>1. PICK r \in First(batch) : Settle("release", "receiver", r) /\ batch' = batch \ {r}
    BY <1>16 DEF GiveBack
  <2>2. r \in Issued
    BY <2>1 DEF First, IssuedOnly
  <2> QED
    BY <1>16, <2>1, <2>2, SettleEffect DEF GiveBack, IssuedOnly, TypeOK, RPCs, SPCs, Lives, Messages
<1>17. CASE AckAll
  <2>1. PICK r \in First(batch) : Settle("ack", "receiver", r) /\ batch' = batch \ {r}
    BY <1>17 DEF AckAll
  <2>2. r \in Issued
    BY <2>1 DEF First, IssuedOnly
  <2> QED
    BY <1>17, <2>1, <2>2, SettleEffect DEF AckAll, IssuedOnly, TypeOK, RPCs, SPCs, Lives, Messages
<1>18. CASE EmitBare
  BY <1>18 DEF EmitBare, IssuedOnly, Receipts, TypeOK, RPCs, SPCs, Lives, Messages
<1>19. CASE OfferHold
  <2>1. PICK r \in First(batch) : /\ offered' = [seq |-> nextSeq, receipt |-> r]
                                 /\ window' = window \cup {offered'}
                                 /\ batch' = batch \ {r}
    BY <1>19 DEF OfferHold
  <2>2. offered' \in Entries
    BY <2>1 DEF First, Entries, TypeOK
  <2> QED
    BY <1>19, <2>1, <2>2 DEF OfferHold, TypeOK, RPCs, SPCs, Lives, Messages
<1>20. CASE OfferDrop
  <2>1. offered.receipt \in Issued
    BY <1>20 DEF OfferDrop, Offering
  <2> QED
    BY <1>20, <2>1, SettleEffect DEF OfferDrop, AfterOffer, IssuedOnly, TypeOK, RPCs, SPCs, Lives, Messages
<1>21. CASE Expired
  <2>1. Late \in SUBSET Entries
    BY DEF Late, TypeOK
  <2> QED
    BY <1>21, <2>1, ReceiptsOf DEF Expired, AfterExpiry, TypeOK, RPCs, SPCs, Lives, Messages
<1>22. CASE ReleaseExpired
  <2>1. PICK r \in First(hand) : Settle("release", "settler", r) /\ hand' = hand \ {r}
    BY <1>22 DEF ReleaseExpired
  <2>2. r \in Issued
    BY <2>1 DEF First, IssuedOnly
  <2> QED
    BY <1>22, <2>1, <2>2, SettleEffect DEF ReleaseExpired, IssuedOnly, TypeOK, RPCs, SPCs, Lives, Messages
<1>23. CASE AckTaken
  <2>1. PICK r \in First(hand) : Settle("ack", "settler", r) /\ hand' = hand \ {r}
    BY <1>23 DEF AckTaken
  <2>2. r \in Issued
    BY <2>1 DEF First, IssuedOnly
  <2> QED
    BY <1>23, <2>1, <2>2, SettleEffect DEF AckTaken, IssuedOnly, TypeOK, RPCs, SPCs, Lives, Messages
<1>24. CASE Drain
  <2>1. PICK r \in First(hand) : Settle("release", "settler", r) /\ hand' = hand \ {r}
    BY <1>24 DEF Drain
  <2>2. r \in Issued
    BY <2>1 DEF First, IssuedOnly
  <2> QED
    BY <1>24, <2>1, <2>2, SettleEffect DEF Drain, IssuedOnly, TypeOK, RPCs, SPCs, Lives, Messages
<1>25. CASE RecvAck
  <2>1. Taken(Head(settles).seq) \in SUBSET Entries
    BY DEF Taken, TypeOK
  <2>2. Tail(settles) \in Seq(Messages)
    BY <1>25 DEF RecvAck, TypeOK
  <2> QED
    BY <1>25, <2>1, <2>2, ReceiptsOf DEF RecvAck, TypeOK, RPCs, SPCs, Lives, Messages
<1>26. CASE RecvStop
  <2>1. window \in SUBSET Entries
    BY DEF TypeOK
  <2>2. Tail(settles) \in Seq(Messages)
    BY <1>26 DEF RecvStop, TypeOK
  <2> QED
    BY <1>26, <2>1, <2>2, ReceiptsOf DEF RecvStop, TypeOK, RPCs, SPCs, Lives, Messages
<1>27. CASE Elapse
  <2>1. PICK e \in window : elapsed' = e.seq + 1
    BY <1>27 DEF Elapse
  <2>2. elapsed' \in Nat
    BY <2>1 DEF TypeOK, Entries
  <2> QED
    BY <1>27, <2>2 DEF Elapse, TypeOK, RPCs, SPCs, Lives, Messages
<1>28. CASE \E e \in emitted : Acknowledge(e)
  <2>1. PICK e \in emitted : Acknowledge(e)
    BY <1>28
  <2>2. e \in Entries
    BY DEF TypeOK
  <2>3. delivered[e.receipt] \in Msgs
    BY DEF Numbered, Issued, TypeOK
  <2>4. Ack(e.seq) \in Messages
    BY <2>2 DEF Ack, Messages, Entries
  <2> QED
    BY <2>1, <2>3, <2>4 DEF Acknowledge, TypeOK, RPCs, SPCs, Lives
<1>29. CASE \E m \in Msgs : Deliver(m)
  <2>1. PICK m \in Msgs : Deliver(m)
    BY <1>29
  <2>2. Len(delivered) + 1 \in Receipts
    BY <2>1 DEF Deliver, Receipts, TypeOK
  <2> QED
    BY <2>1, <2>2 DEF Deliver, TypeOK, RPCs, SPCs, Lives, Messages
<1>30. CASE \E m \in Msgs : LockLapses(m)
  BY <1>30 DEF LockLapses, TypeOK, RPCs, SPCs, Lives, Messages
<1>31. CASE UNCHANGED vars
  BY <1>31 DEF TypeOK, RPCs, SPCs, Lives, Messages
<1> QED
  BY <1>1, <1>2, <1>3, <1>4, <1>5, <1>6, <1>7, <1>8, <1>9, <1>10, <1>11, <1>12, <1>13, <1>14, <1>15, <1>16, <1>17, <1>18, <1>19, <1>20, <1>21, <1>22, <1>23, <1>24, <1>25, <1>26, <1>27, <1>28, <1>29, <1>30, <1>31, NextCases

-----------------------------------------------------------------------------
(* The parts of the invariant, one lemma each. *)

\* Receipts in use stay issued ones.
LEMMA IssuedStep ==
    ASSUME TypeOK, IssuedOnly, Numbered, Offering, [Next]_vars
    PROVE  IssuedOnly'
<1> USE DEF vars, broker, shared, receiver, settler, host
<1>1. ASSUME UNCHANGED <<delivered, window, calls, batch, hand>> PROVE IssuedOnly'
  BY <1>1 DEF IssuedOnly, Issued
<1>2. CASE \/ SpawnReceiver \/ SpawnSettler \/ LoopTop \/ Connect \/ Pause
          \/ WaitForRoom \/ ReceiveFails \/ ReceiveReturns \/ EmitBare
          \/ OfferEmit \/ RecvTimeout \/ Elapse
          \/ (\E e \in emitted : Acknowledge(e)) \/ AcknowledgeUnreadable
          \/ Cancel \/ JoinReceiver \/ JoinSettler
          \/ (\E m \in Msgs : LockLapses(m)) \/ UNCHANGED vars
  BY <1>1, <1>2
  DEF SpawnReceiver, SpawnSettler, LoopTop, Connect, Pause, WaitForRoom,
      ReceiveFails, ReceiveReturns, EmitBare, OfferEmit, RecvTimeout, Elapse,
      Acknowledge, AcknowledgeUnreadable, Cancel, JoinReceiver, JoinSettler,
      LockLapses, Settle
<1>3. CASE GiveBack
  <2>1. PICK r \in First(batch) : Settle("release", "receiver", r) /\ batch' = batch \ {r}
    BY <1>3 DEF GiveBack
  <2>2. r \in Issued
    BY <2>1 DEF First, IssuedOnly
  <2> QED
    BY <1>3, <2>1, <2>2, SettleEffect DEF GiveBack, IssuedOnly, Issued, Receipts
<1>4. CASE AckAll
  <2>1. PICK r \in First(batch) : Settle("ack", "receiver", r) /\ batch' = batch \ {r}
    BY <1>4 DEF AckAll
  <2>2. r \in Issued
    BY <2>1 DEF First, IssuedOnly
  <2> QED
    BY <1>4, <2>1, <2>2, SettleEffect DEF AckAll, IssuedOnly, Issued, Receipts
<1>5. CASE OfferHold
  <2>1. IsFiniteSet(window')
    BY <1>5, FS_AddElement DEF OfferHold, IssuedOnly
  <2> QED
    BY <1>5, <2>1 DEF OfferHold, First, IssuedOnly, Issued, Receipts
<1>6. CASE OfferTake
  <2>1. IsFiniteSet(window')
    BY <1>6, FS_Subset DEF OfferTake, IssuedOnly
  <2> QED
    BY <1>6, <2>1 DEF OfferTake, IssuedOnly, Issued, Receipts
<1>7. CASE OfferDrop
  <2>1. offered.receipt \in Issued
    BY <1>7 DEF OfferDrop, Offering
  <2> QED
    BY <1>7, <2>1, SettleEffect DEF OfferDrop, IssuedOnly, Issued, Receipts
<1>8. CASE Expired
  <2>1. IsFiniteSet(window')
    BY <1>8, FS_Subset DEF Expired, AfterExpiry, IssuedOnly
  <2> QED
    BY <1>8, <2>1 DEF Expired, Late, Numbered, IssuedOnly, Issued, Receipts
<1>9. CASE ReleaseExpired
  <2>1. PICK r \in First(hand) : Settle("release", "settler", r) /\ hand' = hand \ {r}
    BY <1>9 DEF ReleaseExpired
  <2>2. r \in Issued
    BY <2>1 DEF First, IssuedOnly
  <2> QED
    BY <1>9, <2>1, <2>2, SettleEffect DEF ReleaseExpired, IssuedOnly, Issued, Receipts
<1>10. CASE RecvAck
  <2>1. IsFiniteSet(window')
    BY <1>10, FS_Subset DEF RecvAck, IssuedOnly
  <2> QED
    BY <1>10, <2>1 DEF RecvAck, Taken, Numbered, IssuedOnly, Issued, Receipts
<1>11. CASE AckTaken
  <2>1. PICK r \in First(hand) : Settle("ack", "settler", r) /\ hand' = hand \ {r}
    BY <1>11 DEF AckTaken
  <2>2. r \in Issued
    BY <2>1 DEF First, IssuedOnly
  <2> QED
    BY <1>11, <2>1, <2>2, SettleEffect DEF AckTaken, IssuedOnly, Issued, Receipts
<1>12. CASE RecvStop
  <2>1. IsFiniteSet(window')
    BY <1>12, FS_EmptySet DEF RecvStop
  <2> QED
    BY <1>12, <2>1 DEF RecvStop, Numbered, IssuedOnly, Issued, Receipts
<1>13. CASE Drain
  <2>1. PICK r \in First(hand) : Settle("release", "settler", r) /\ hand' = hand \ {r}
    BY <1>13 DEF Drain
  <2>2. r \in Issued
    BY <2>1 DEF First, IssuedOnly
  <2> QED
    BY <1>13, <2>1, <2>2, SettleEffect DEF Drain, IssuedOnly, Issued, Receipts
<1>14. CASE \E m \in Msgs : Deliver(m)
  <2>1. Len(delivered) < MaxDeliveries /\ Len(delivered') = Len(delivered) + 1
    BY <1>14 DEF Deliver, TypeOK
  <2>2. batch' \subseteq batch \cup {Len(delivered) + 1}
    BY <1>14 DEF Deliver
  <2>3. Len(delivered) \in Nat
    BY DEF TypeOK
  <2>4. UNCHANGED <<window, calls, hand>>
    BY <1>14 DEF Deliver
  <2>5. Len(delivered') <= MaxDeliveries /\ Issued \subseteq Issued'
    BY <2>1, <2>3, OptionsAssumption DEF Issued
  <2>6. batch' \subseteq Issued'
    BY <2>1, <2>2, <2>3 DEF IssuedOnly, Issued
  <2> QED
    BY <2>4, <2>5, <2>6 DEF IssuedOnly
<1> QED
  BY <1>2, <1>3, <1>4, <1>5, <1>6, <1>7, <1>8, <1>9, <1>10, <1>11, <1>12,
     <1>13, <1>14, NextCases

\* Sequence numbers stay unique.
LEMMA NumberedStep ==
    ASSUME TypeOK, IssuedOnly, Numbered, Offering, Custody, [Next]_vars
    PROVE  Numbered'
<1> USE DEF vars, broker, shared, receiver, settler, host
<1>1. ASSUME UNCHANGED <<delivered, window, emitted, nextSeq>> PROVE Numbered'
  BY <1>1 DEF Numbered, Issued
<1>2. CASE \/ SpawnReceiver \/ SpawnSettler \/ LoopTop \/ Connect \/ Pause
          \/ WaitForRoom \/ ReceiveFails \/ ReceiveReturns \/ GiveBack
          \/ AckAll \/ EmitBare \/ OfferDrop \/ ReleaseExpired \/ RecvTimeout
          \/ AckTaken \/ Drain \/ Elapse
          \/ (\E e \in emitted : Acknowledge(e)) \/ AcknowledgeUnreadable
          \/ Cancel \/ JoinReceiver \/ JoinSettler
          \/ (\E m \in Msgs : LockLapses(m)) \/ UNCHANGED vars
  BY <1>1, <1>2
  DEF SpawnReceiver, SpawnSettler, LoopTop, Connect, Pause, WaitForRoom,
      ReceiveFails, ReceiveReturns, GiveBack, AckAll, EmitBare, OfferDrop,
      ReleaseExpired, RecvTimeout, AckTaken, Drain, Elapse, Acknowledge,
      AcknowledgeUnreadable, Cancel, JoinReceiver, JoinSettler, LockLapses,
      Settle
<1>3. CASE OfferHold
  <2>1. PICK r \in First(batch) : /\ offered' = [seq |-> nextSeq, receipt |-> r]
                                 /\ window' = window \cup {offered'}
    BY <1>3 DEF OfferHold
  <2>2. r \in Issued /\ r \in batch
    BY <2>1 DEF First, IssuedOnly
  <2>3. \A e \in window : e.receipt # r
    BY <2>2 DEF Custody, HeldReceipts
  <2>4. \A e \in window \cup emitted : e.seq \in Nat
    BY DEF TypeOK, Entries
  <2>5. nextSeq' = nextSeq + 1 /\ emitted' = emitted /\ Issued' = Issued /\ nextSeq \in Nat
    BY <1>3 DEF OfferHold, Issued, TypeOK
  <2> QED
    BY <2>1, <2>2, <2>3, <2>4, <2>5 DEF Numbered
<1>4. CASE OfferEmit
  BY <1>4 DEF OfferEmit, Offering, Numbered, Issued
<1>5. CASE OfferTake
  BY <1>5 DEF OfferTake, Numbered, Issued
<1>6. CASE Expired
  BY <1>6 DEF Expired, AfterExpiry, Numbered, Issued
<1>7. CASE RecvAck
  BY <1>7 DEF RecvAck, Numbered, Issued
<1>8. CASE RecvStop
  BY <1>8 DEF RecvStop, Numbered, Issued
<1>9. CASE \E m \in Msgs : Deliver(m)
  <2>1. Issued \subseteq Issued'
    BY <1>9 DEF Deliver, Issued, TypeOK
  <2> QED
    BY <1>9, <2>1 DEF Deliver, Numbered
<1> QED
  BY <1>2, <1>3, <1>4, <1>5, <1>6, <1>7, <1>8, <1>9, NextCases

\* The entry `offer` works on stays identified.
LEMMA OfferingStep ==
    ASSUME TypeOK, IssuedOnly, Numbered, Offering, Custody, [Next]_vars
    PROVE  Offering'
<1> USE DEF vars, broker, shared, receiver, settler, host
<1>1. ASSUME \/ UNCHANGED <<rpc, offered, nextSeq, delivered, batch, window>>
             \/ rpc' \notin {"event", "drop"}
      PROVE  Offering'
  BY <1>1 DEF Offering, Issued, HeldReceipts
<1>2. CASE \/ SpawnReceiver \/ SpawnSettler \/ LoopTop \/ Connect \/ Pause
          \/ WaitForRoom \/ ReceiveFails \/ ReceiveReturns \/ GiveBack
          \/ AckAll \/ EmitBare \/ OfferEmit \/ OfferDrop \/ ReleaseExpired
          \/ RecvTimeout \/ AckTaken \/ Drain \/ Elapse
          \/ (\E e \in emitted : Acknowledge(e)) \/ AcknowledgeUnreadable
          \/ Cancel \/ JoinReceiver \/ JoinSettler
          \/ (\E m \in Msgs : LockLapses(m)) \/ UNCHANGED vars
  BY <1>1, <1>2
  DEF SpawnReceiver, SpawnSettler, LoopTop, Connect, Pause, WaitForRoom,
      ReceiveFails, ReceiveReturns, GiveBack, AckAll, EmitBare, OfferEmit,
      OfferDrop, ReleaseExpired, RecvTimeout, AckTaken, Drain, Elapse,
      Acknowledge, AcknowledgeUnreadable, Cancel, JoinReceiver, JoinSettler,
      LockLapses, Settle, AfterOffer
<1>3. CASE OfferHold
  <2>1. PICK r \in First(batch) : /\ offered' = [seq |-> nextSeq, receipt |-> r]
                                 /\ window' = window \cup {offered'}
                                 /\ batch' = batch \ {r}
    BY <1>3 DEF OfferHold
  <2>2. r \in Issued /\ r \in batch /\ r \in Receipts
    BY <2>1 DEF First, IssuedOnly, TypeOK
  <2>3. \A e \in window : e.receipt # r /\ e.seq # nextSeq
    BY <2>2 DEF Custody, HeldReceipts, Numbered, TypeOK, Entries
  <2>4. nextSeq' = nextSeq + 1 /\ rpc' = "event" /\ Issued' = Issued /\ nextSeq \in Nat
    BY <1>3 DEF OfferHold, Issued, TypeOK
  <2>5. offered' \in Entries
    BY <2>1, <2>2, <2>4 DEF Entries
  <2> QED
    BY <2>1, <2>2, <2>3, <2>4, <2>5 DEF Offering
<1>4. CASE OfferTake
  BY <1>4 DEF OfferTake, Offering, Issued, HeldReceipts
<1>5. CASE Expired
  BY <1>5 DEF Expired, AfterExpiry, Offering, Issued, HeldReceipts
<1>6. CASE RecvAck
  BY <1>6 DEF RecvAck, Offering, Issued, HeldReceipts
<1>7. CASE RecvStop
  BY <1>7 DEF RecvStop, Offering, Issued, HeldReceipts
<1>8. CASE \E m \in Msgs : Deliver(m)
  BY <1>1, <1>8 DEF Deliver
<1> QED
  BY <1>2, <1>3, <1>4, <1>5, <1>6, <1>7, <1>8, NextCases

\* The batch and the hand are empty where the threads expect them to be.
LEMMA PhasesStep ==
    ASSUME TypeOK, Numbered, Phases, Lifecycle, [Next]_vars
    PROVE  Phases'
<1> USE DEF vars, broker, shared, receiver, settler, host
<1>1. ASSUME UNCHANGED <<eventSource, rpc, batch, spc, hand>> PROVE Phases'
  BY <1>1 DEF Phases
<1>2. CASE \/ Elapse \/ (\E e \in emitted : Acknowledge(e))
          \/ AcknowledgeUnreadable \/ Cancel \/ JoinReceiver \/ JoinSettler
          \/ (\E m \in Msgs : LockLapses(m)) \/ UNCHANGED vars
  BY <1>1, <1>2
  DEF Elapse, Acknowledge, AcknowledgeUnreadable, Cancel, JoinReceiver,
      JoinSettler, LockLapses, Settle
<1>3. CASE SpawnReceiver
  BY <1>3 DEF SpawnReceiver, Phases, Lifecycle
<1>4. CASE SpawnSettler
  BY <1>4 DEF SpawnSettler, Phases, Lifecycle
<1>5. CASE LoopTop
  BY <1>5 DEF LoopTop, Phases
<1>6. CASE Connect
  BY <1>6 DEF Connect, Phases
<1>7. CASE Pause
  BY <1>7 DEF Pause, Phases
<1>8. CASE WaitForRoom
  BY <1>8 DEF WaitForRoom, Phases
<1>9. CASE ReceiveFails
  BY <1>9 DEF ReceiveFails, Phases
<1>10. CASE ReceiveReturns
  BY <1>10 DEF ReceiveReturns, Phases
<1>11. CASE GiveBack
  BY <1>11 DEF GiveBack, Settle, Phases, First
<1>12. CASE AckAll
  BY <1>12 DEF AckAll, Settle, Phases, First
<1>13. CASE EmitBare
  BY <1>13 DEF EmitBare, Phases
<1>14. CASE OfferHold
  BY <1>14 DEF OfferHold, Phases, First
<1>15. CASE OfferEmit
  BY <1>15 DEF OfferEmit, Phases, AfterOffer
<1>16. CASE OfferTake
  BY <1>16 DEF OfferTake, Phases
<1>17. CASE OfferDrop
  BY <1>17 DEF OfferDrop, Phases, AfterOffer
<1>18. CASE Expired
  BY <1>18 DEF Expired, Phases
<1>19. CASE ReleaseExpired
  BY <1>19 DEF ReleaseExpired, Settle, Phases, First
<1>20. CASE RecvTimeout
  BY <1>20 DEF RecvTimeout, Phases
<1>21. CASE RecvAck
  BY <1>21 DEF RecvAck, Phases, Taken, Numbered
<1>22. CASE AckTaken
  BY <1>22 DEF AckTaken, Settle, Phases, First
<1>23. CASE RecvStop
  BY <1>23 DEF RecvStop, Phases
<1>24. CASE Drain
  BY <1>24 DEF Drain, Settle, Phases, First
<1>25. CASE \E m \in Msgs : Deliver(m)
  BY <1>25 DEF Deliver, Phases
<1> QED
  BY <1>2, <1>3, <1>4, <1>5, <1>6, <1>7, <1>8, <1>9, <1>10, <1>11, <1>12,
     <1>13, <1>14, <1>15, <1>16, <1>17, <1>18, <1>19, <1>20, <1>21, <1>22,
     <1>23, <1>24, <1>25, NextCases

\* Start and cancel keep their order.
LEMMA LifecycleStep ==
    ASSUME TypeOK, Lifecycle, [Next]_vars
    PROVE  Lifecycle'
<1> USE DEF vars, broker, shared, receiver, settler, host
<1>1. ASSUME UNCHANGED <<life, rpc, spc, settles, window>> PROVE Lifecycle'
  BY <1>1 DEF Lifecycle
<1>2. CASE \/ Elapse \/ (\E m \in Msgs : Deliver(m))
          \/ (\E m \in Msgs : LockLapses(m)) \/ UNCHANGED vars
  BY <1>1, <1>2
  DEF Elapse, Deliver, LockLapses, Settle
<1>3. CASE SpawnReceiver
  BY <1>3 DEF SpawnReceiver, Lifecycle
<1>4. CASE SpawnSettler
  BY <1>4 DEF SpawnSettler, Lifecycle
<1>5. CASE LoopTop
  BY <1>5 DEF LoopTop, Lifecycle
<1>6. CASE Connect
  BY <1>6 DEF Connect, Lifecycle
<1>7. CASE Pause
  BY <1>7 DEF Pause, Lifecycle
<1>8. CASE WaitForRoom
  BY <1>8 DEF WaitForRoom, Lifecycle
<1>9. CASE ReceiveFails
  BY <1>9 DEF ReceiveFails, Lifecycle
<1>10. CASE ReceiveReturns
  BY <1>10 DEF ReceiveReturns, Lifecycle
<1>11. CASE GiveBack
  BY <1>11 DEF GiveBack, Lifecycle
<1>12. CASE AckAll
  BY <1>12 DEF AckAll, Lifecycle
<1>13. CASE EmitBare
  BY <1>13 DEF EmitBare, Lifecycle
<1>14. CASE OfferHold
  BY <1>14 DEF OfferHold, Lifecycle
<1>15. CASE OfferEmit
  BY <1>15 DEF OfferEmit, Lifecycle, AfterOffer
<1>16. CASE OfferTake
  BY <1>16 DEF OfferTake, Lifecycle
<1>17. CASE OfferDrop
  BY <1>17 DEF OfferDrop, Lifecycle, AfterOffer
<1>18. CASE Expired
  BY <1>18 DEF Expired, Lifecycle, AfterExpiry
<1>19. CASE ReleaseExpired
  BY <1>19 DEF ReleaseExpired, Lifecycle
<1>20. CASE RecvTimeout
  BY <1>20 DEF RecvTimeout, Lifecycle
<1>21. CASE RecvAck
  BY <1>21 DEF RecvAck, Lifecycle, TypeOK
<1>22. CASE AckTaken
  BY <1>22 DEF AckTaken, Lifecycle
<1>23. CASE RecvStop
  BY <1>23 DEF RecvStop, Lifecycle, TypeOK
<1>24. CASE Drain
  BY <1>24 DEF Drain, Lifecycle
<1>25. CASE \E e \in emitted : Acknowledge(e)
  <2>1. PICK e \in emitted : Acknowledge(e)
    BY <1>25
  <2> QED
    BY <2>1 DEF Acknowledge, Ack, TypeOK, Lifecycle
<1>26. CASE AcknowledgeUnreadable
  BY <1>26 DEF AcknowledgeUnreadable, Lifecycle, Ack, TypeOK
<1>27. CASE Cancel
  BY <1>27 DEF Cancel, Lifecycle
<1>28. CASE JoinReceiver
  BY <1>28 DEF JoinReceiver, Lifecycle, Stop, TypeOK
<1>29. CASE JoinSettler
  BY <1>29 DEF JoinSettler, Lifecycle
<1> QED
  BY <1>2, <1>3, <1>4, <1>5, <1>6, <1>7, <1>8, <1>9, <1>10, <1>11, <1>12,
     <1>13, <1>14, <1>15, <1>16, <1>17, <1>18, <1>19, <1>20, <1>21, <1>22,
     <1>23, <1>24, <1>25, <1>26, <1>27, <1>28, <1>29, NextCases

\* An acknowledgement goes on naming a stored event.
LEMMA PromisedStep ==
    ASSUME TypeOK, IssuedOnly, Numbered, Promised, [Next]_vars
    PROVE  Promised'
<1> USE DEF vars, broker, shared, receiver, settler, host
<1>1. ASSUME UNCHANGED <<settles, emitted, delivered, stored, spc, hand>> PROVE Promised'
  BY <1>1 DEF Promised
<1>2. CASE \/ SpawnReceiver \/ LoopTop \/ Connect \/ Pause \/ WaitForRoom
          \/ ReceiveFails \/ ReceiveReturns \/ GiveBack \/ AckAll \/ EmitBare
          \/ OfferHold \/ OfferTake \/ OfferDrop \/ Elapse \/ Cancel
          \/ JoinSettler \/ (\E m \in Msgs : LockLapses(m)) \/ UNCHANGED vars
  BY <1>1, <1>2
  DEF SpawnReceiver, LoopTop, Connect, Pause, WaitForRoom, ReceiveFails,
      ReceiveReturns, GiveBack, AckAll, EmitBare, OfferHold, OfferTake,
      OfferDrop, Elapse, Cancel, JoinSettler, LockLapses, Settle
<1>3. CASE SpawnSettler
  BY <1>3 DEF SpawnSettler, Promised
<1>4. CASE OfferEmit
  BY <1>4 DEF OfferEmit, Promised
<1>5. CASE Expired
  BY <1>5 DEF Expired, Promised
<1>6. CASE ReleaseExpired
  BY <1>6 DEF ReleaseExpired, Settle, Promised
<1>7. CASE RecvTimeout
  BY <1>7 DEF RecvTimeout, Promised
<1>8. CASE RecvAck
  <2> DEFINE m == Head(settles)
  <2>1. m = settles[1] /\ m.type = "ack" /\ 1 \in 1..Len(settles)
    BY <1>8 DEF RecvAck, TypeOK
  <2>2. \A i \in 1..Len(settles') : i + 1 \in 1..Len(settles) /\ settles'[i] = settles[i + 1]
    BY <1>8 DEF RecvAck, TypeOK
  <2>3. UNCHANGED <<emitted, delivered, stored>>
    BY <1>8 DEF RecvAck
  <2>4. ASSUME NEW f \in Taken(m.seq)
        PROVE  f \in emitted /\ delivered[f.receipt] \in stored
    <3>1. f \in window /\ f.seq = m.seq /\ m.seq # NoSeq
      BY DEF Taken, TypeOK, Entries, NoSeq
    <3>2. PICK e \in emitted : e.seq = m.seq /\ delivered[e.receipt] \in stored
      BY <2>1, <3>1 DEF Promised
    <3> QED
      BY <3>1, <3>2 DEF Numbered
  <2>5. \A r \in hand' : /\ delivered[r] \in stored
                         /\ \E e \in emitted : e.receipt = r
    BY <1>8, <2>4 DEF RecvAck
  <2> QED
    BY <2>2, <2>3, <2>5 DEF Promised
<1>9. CASE AckTaken
  BY <1>9 DEF AckTaken, Settle, Promised
<1>10. CASE RecvStop
  <2>1. \A i \in 1..Len(settles') : i + 1 \in 1..Len(settles) /\ settles'[i] = settles[i + 1]
    BY <1>10 DEF RecvStop, TypeOK
  <2> QED
    BY <1>10, <2>1 DEF RecvStop, Promised
<1>11. CASE Drain
  BY <1>11 DEF Drain, Settle, Promised
<1>12. CASE \E e \in emitted : Acknowledge(e)
  <2>1. PICK e \in emitted : Acknowledge(e)
    BY <1>12
  <2>2. \A i \in 1..Len(settles') :
          \/ i \in 1..Len(settles) /\ settles'[i] = settles[i]
          \/ settles'[i] = Ack(e.seq)
    BY <2>1 DEF Acknowledge, TypeOK
  <2>3. delivered[e.receipt] \in stored' /\ stored \subseteq stored'
    BY <2>1 DEF Acknowledge
  <2>4. UNCHANGED <<emitted, delivered, spc, hand>>
    BY <2>1 DEF Acknowledge
  <2> QED
    BY <2>2, <2>3, <2>4 DEF Promised, Ack
<1>13. CASE AcknowledgeUnreadable
  <2>1. \A i \in 1..Len(settles') :
          \/ i \in 1..Len(settles) /\ settles'[i] = settles[i]
          \/ settles'[i] = Ack(NoSeq)
    BY <1>13 DEF AcknowledgeUnreadable, TypeOK
  <2> QED
    BY <1>13, <2>1 DEF AcknowledgeUnreadable, Promised, Ack, Stop
<1>14. CASE JoinReceiver
  <2>1. \A i \in 1..Len(settles') :
          \/ i \in 1..Len(settles) /\ settles'[i] = settles[i]
          \/ settles'[i] = Stop
    BY <1>14 DEF JoinReceiver, TypeOK
  <2> QED
    BY <1>14, <2>1 DEF JoinReceiver, Promised, Ack, Stop
<1>15. CASE \E m \in Msgs : Deliver(m)
  <2>1. \A r \in Issued : delivered'[r] = delivered[r]
    BY <1>15 DEF Deliver, TypeOK, Issued
  <2>2. UNCHANGED <<settles, emitted, stored, spc, hand>>
    BY <1>15 DEF Deliver
  <2>3. \A e \in emitted : delivered'[e.receipt] = delivered[e.receipt]
    BY <2>1 DEF Numbered
  <2>4. \A r \in hand : delivered'[r] = delivered[r]
    BY <2>1 DEF IssuedOnly
  <2> QED
    BY <2>2, <2>3, <2>4 DEF Promised
<1> QED
  BY <1>2, <1>3, <1>4, <1>5, <1>6, <1>7, <1>8, <1>9, <1>10, <1>11, <1>12,
     <1>13, <1>14, <1>15, NextCases

\* A set grows by at most one with an element.
LEMMA GrowsByOne ==
    ASSUME NEW S, IsFiniteSet(S), NEW x
    PROVE  /\ IsFiniteSet(S \cup {x})
           /\ Cardinality(S \cup {x}) \in Nat
           /\ Cardinality(S \cup {x}) <= Cardinality(S) + 1
<1>1. Cardinality(S) \in Nat
  BY FS_CardinalityType
<1>2. IsFiniteSet(S \cup {x})
  BY FS_AddElement
<1>3. CASE x \in S
  <2>1. S \cup {x} = S
    BY <1>3
  <2> QED
    BY <1>1, <1>2, <2>1
<1>4. CASE x \notin S
  <2>1. Cardinality(S \cup {x}) = Cardinality(S) + 1
    BY <1>4, FS_AddElement
  <2> QED
    BY <1>1, <1>2, <2>1
<1> QED
  BY <1>3, <1>4

\* The window and the batch are finite, and their sizes are numbers.
LEMMA Sizes ==
    ASSUME TypeOK, IssuedOnly
    PROVE  /\ IsFiniteSet(batch)
           /\ Held \in Nat /\ Cardinality(batch) \in Nat
           /\ Max \in Nat /\ room \in Nat
<1>1. IsFiniteSet(batch)
  <2>1. IsFiniteSet(1..MaxDeliveries)
    BY FS_Interval, OptionsAssumption
  <2> QED
    BY <2>1, FS_Subset DEF TypeOK, Receipts
<1> QED
  BY <1>1, FS_CardinalityType, OptionsAssumption DEF IssuedOnly, Held, TypeOK, Max

\* What is asked of the broker fits in the window.
LEMMA RoomyStep ==
    ASSUME TypeOK, IssuedOnly, Phases, Roomy, [Next]_vars
    PROVE  Roomy'
<1> USE DEF vars, broker, shared, receiver, settler, host
<1>1. ASSUME UNCHANGED <<window, batch, room>>, rpc' = "receive" => rpc = "receive"
      PROVE  Roomy'
  BY <1>1 DEF Roomy, WindowBound, Held
<1>2. CASE \/ SpawnReceiver \/ SpawnSettler \/ LoopTop \/ Connect \/ Pause
          \/ EmitBare \/ OfferEmit \/ OfferDrop \/ ReleaseExpired
          \/ RecvTimeout \/ AckTaken \/ Drain \/ Elapse
          \/ (\E e \in emitted : Acknowledge(e)) \/ AcknowledgeUnreadable
          \/ Cancel \/ JoinReceiver \/ JoinSettler
          \/ (\E m \in Msgs : LockLapses(m)) \/ UNCHANGED vars
  BY <1>1, <1>2
  DEF SpawnReceiver, SpawnSettler, LoopTop, Connect, Pause, EmitBare,
      OfferEmit, OfferDrop, ReleaseExpired, RecvTimeout, AckTaken, Drain,
      Elapse, Acknowledge, AcknowledgeUnreadable, Cancel, JoinReceiver,
      JoinSettler, LockLapses, Settle, AfterOffer
<1>3. CASE WaitForRoom
  <2>1. batch = {} /\ UNCHANGED <<window, batch>>
    BY <1>3 DEF WaitForRoom, Phases
  <2>2. Cardinality(batch) = 0
    BY <2>1, FS_EmptySet
  <2>3. rpc' = "receive" => room' = Max - Held /\ Held < Max
    BY <1>3 DEF WaitForRoom, RoomLeft
  <2> QED
    BY <2>1, <2>2, <2>3, Sizes DEF WindowBound, Roomy, Held
<1>4. CASE ReceiveFails
  BY <1>4 DEF ReceiveFails, Held, WindowBound, Roomy
<1>5. CASE ReceiveReturns
  BY <1>5 DEF ReceiveReturns, Held, WindowBound, Roomy
<1>6. CASE GiveBack
  <2>1. batch' \subseteq batch /\ UNCHANGED window /\ rpc' # "receive"
    BY <1>6 DEF GiveBack
  <2>2. Cardinality(batch') <= Cardinality(batch) /\ Cardinality(batch') \in Nat
    BY <2>1, FS_Subset, FS_CardinalityType, Sizes
  <2> QED
    BY <2>1, <2>2, Sizes DEF WindowBound, Roomy, Held
<1>7. CASE AckAll
  <2>1. batch' \subseteq batch /\ UNCHANGED window /\ rpc' # "receive"
    BY <1>7 DEF AckAll
  <2>2. Cardinality(batch') <= Cardinality(batch) /\ Cardinality(batch') \in Nat
    BY <2>1, FS_Subset, FS_CardinalityType, Sizes
  <2> QED
    BY <2>1, <2>2, Sizes DEF WindowBound, Roomy, Held
<1>8. CASE OfferHold
  <2>1. PICK r \in First(batch) : /\ window' = window \cup {offered'}
                                 /\ batch' = batch \ {r}
    BY <1>8 DEF OfferHold
  <2>2. r \in batch /\ rpc' # "receive"
    BY <1>8, <2>1 DEF First, OfferHold
  <2>3. Held' <= Held + 1
    BY <2>1, GrowsByOne DEF IssuedOnly, Held
  <2>4. Cardinality(batch') = Cardinality(batch) - 1
    BY <2>1, <2>2, FS_RemoveElement, Sizes
  <2>5. Held' \in Nat
    BY <2>1, GrowsByOne DEF IssuedOnly, Held
  <2> QED
    BY <2>2, <2>3, <2>4, <2>5, Sizes DEF WindowBound, Roomy
<1>9. CASE OfferTake
  <2>1. window' \subseteq window /\ UNCHANGED <<batch, room>>
    BY <1>9 DEF OfferTake
  <2>2. Held' <= Held /\ Held' \in Nat
    BY <2>1, FS_Subset, FS_CardinalityType DEF IssuedOnly, Held
  <2>3. rpc' = "receive" => rpc = "receive"
    BY <1>9 DEF OfferTake
  <2> QED
    BY <2>1, <2>2, <2>3, Sizes DEF WindowBound, Roomy
<1>10. CASE Expired
  <2>1. window' \subseteq window /\ UNCHANGED <<batch, room>>
    BY <1>10 DEF Expired, AfterExpiry
  <2>2. Held' <= Held /\ Held' \in Nat
    BY <2>1, FS_Subset, FS_CardinalityType DEF IssuedOnly, Held
  <2>3. rpc' = "receive" => rpc = "receive"
    BY <1>10 DEF Expired
  <2> QED
    BY <2>1, <2>2, <2>3, Sizes DEF WindowBound, Roomy
<1>11. CASE RecvAck
  <2>1. window' \subseteq window /\ UNCHANGED <<batch, room>>
    BY <1>11 DEF RecvAck
  <2>2. Held' <= Held /\ Held' \in Nat
    BY <2>1, FS_Subset, FS_CardinalityType DEF IssuedOnly, Held
  <2>3. rpc' = "receive" => rpc = "receive"
    BY <1>11 DEF RecvAck
  <2> QED
    BY <2>1, <2>2, <2>3, Sizes DEF WindowBound, Roomy
<1>12. CASE RecvStop
  <2>1. window' \subseteq window /\ UNCHANGED <<batch, room>>
    BY <1>12 DEF RecvStop
  <2>2. Held' <= Held /\ Held' \in Nat
    BY <2>1, FS_Subset, FS_CardinalityType DEF IssuedOnly, Held
  <2>3. rpc' = "receive" => rpc = "receive"
    BY <1>12 DEF RecvStop
  <2> QED
    BY <2>1, <2>2, <2>3, Sizes DEF WindowBound, Roomy
<1>13. CASE \E m \in Msgs : Deliver(m)
  <2>1. /\ batch' = batch \cup {Len(delivered) + 1}
        /\ Cardinality(batch) < room /\ rpc = "receive"
        /\ UNCHANGED <<window, room>>
    BY <1>13 DEF Deliver
  <2>2. Cardinality(batch') <= Cardinality(batch) + 1 /\ Cardinality(batch') \in Nat
    BY <2>1, GrowsByOne, Sizes
  <2> QED
    BY <2>1, <2>2, Sizes DEF WindowBound, Roomy, Held
<1> QED
  BY <1>2, <1>3, <1>4, <1>5, <1>6, <1>7, <1>8, <1>9, <1>10, <1>11, <1>12,
     <1>13, NextCases

\* A call settles the receipt it names and no other.
LEMMA SettleUnsettled ==
    ASSUME TypeOK, IssuedOnly,
           NEW op \in {"ack", "release"}, NEW by \in {"receiver", "settler"},
           NEW r \in Issued, Settle(op, by, r)
    PROVE  Unsettled' = Unsettled \ {r} /\ delivered' = delivered
<1>1. /\ delivered' = delivered
      /\ calls'[r] = Append(calls[r], [op |-> op, by |-> by])
      /\ \A q \in Receipts \ {r} : calls'[q] = calls[q]
  BY SettleEffect DEF IssuedOnly
<1>2. Issued \subseteq Receipts
  BY OptionsAssumption DEF Issued, Receipts, IssuedOnly, TypeOK
<1>3. calls'[r] # <<>>
  <2>1. calls[r] \in Seq(Calls)
    BY <1>2 DEF TypeOK
  <2> QED
    BY <1>1, <2>1
<1>4. Issued' = Issued
  BY <1>1 DEF Issued
<1> QED
  BY <1>1, <1>2, <1>3, <1>4 DEF Unsettled

\* Every unsettled receipt stays in one place.
LEMMA CustodyStep ==
    ASSUME TypeOK, IssuedOnly, Numbered, Offering, Phases, Lifecycle,
           Custody, [Next]_vars
    PROVE  Custody'
<1> USE DEF vars, broker, shared, receiver, settler, host
<1>1. ASSUME UNCHANGED <<batch, window, hand, delivered, calls>>,
             Dropping \subseteq Dropping'
      PROVE  Custody'
  BY <1>1 DEF Custody, HeldReceipts, Unsettled, Issued
<1>2. CASE \/ SpawnReceiver \/ SpawnSettler \/ LoopTop \/ Connect \/ Pause
          \/ WaitForRoom \/ ReceiveFails \/ ReceiveReturns \/ EmitBare
          \/ OfferEmit \/ RecvTimeout \/ Elapse
          \/ (\E e \in emitted : Acknowledge(e)) \/ AcknowledgeUnreadable
          \/ Cancel \/ JoinReceiver \/ JoinSettler
          \/ (\E m \in Msgs : LockLapses(m)) \/ UNCHANGED vars
  BY <1>1, <1>2
  DEF SpawnReceiver, SpawnSettler, LoopTop, Connect, Pause, WaitForRoom,
      ReceiveFails, ReceiveReturns, EmitBare, OfferEmit, RecvTimeout, Elapse,
      Acknowledge, AcknowledgeUnreadable, Cancel, JoinReceiver, JoinSettler,
      LockLapses, Settle, Dropping, Lifecycle
<1>3. CASE GiveBack
  <2>1. PICK r \in First(batch) : Settle("release", "receiver", r) /\ batch' = batch \ {r}
    BY <1>3 DEF GiveBack
  <2>2. r \in Issued /\ r \in batch
    BY <2>1 DEF First, IssuedOnly
  <2>3. Unsettled' = Unsettled \ {r} /\ delivered' = delivered
    BY <2>1, <2>2, SettleUnsettled
  <2>4. HeldReceipts' = HeldReceipts /\ hand' = hand
    BY <1>3 DEF GiveBack, HeldReceipts
  <2>5. Dropping = {} /\ Dropping' = {}
    BY <1>3 DEF GiveBack, Dropping
  <2> QED
    BY <2>1, <2>2, <2>3, <2>4, <2>5 DEF Custody
<1>4. CASE AckAll
  <2>1. PICK r \in First(batch) : Settle("ack", "receiver", r) /\ batch' = batch \ {r}
    BY <1>4 DEF AckAll
  <2>2. r \in Issued /\ r \in batch
    BY <2>1 DEF First, IssuedOnly
  <2>3. Unsettled' = Unsettled \ {r} /\ delivered' = delivered
    BY <2>1, <2>2, SettleUnsettled
  <2>4. HeldReceipts' = HeldReceipts /\ hand' = hand
    BY <1>4 DEF AckAll, HeldReceipts
  <2>5. Dropping = {} /\ Dropping' = {}
    BY <1>4 DEF AckAll, Dropping
  <2> QED
    BY <2>1, <2>2, <2>3, <2>4, <2>5 DEF Custody
<1>5. CASE OfferHold
  <2>1. PICK r \in First(batch) : /\ offered' = [seq |-> nextSeq, receipt |-> r]
                                 /\ window' = window \cup {offered'}
                                 /\ batch' = batch \ {r}
    BY <1>5 DEF OfferHold
  <2>2. r \in batch
    BY <2>1 DEF First
  <2>3. HeldReceipts' = HeldReceipts \cup {r}
    BY <2>1 DEF HeldReceipts
  <2>4. UNCHANGED <<hand, Unsettled, delivered>> /\ Dropping = {}
    BY <1>5 DEF OfferHold, Unsettled, Issued, Dropping
  <2> QED
    BY <2>1, <2>2, <2>3, <2>4 DEF Custody
<1>6. CASE OfferTake
  <2>1. HeldReceipts' \subseteq HeldReceipts
    BY <1>6 DEF OfferTake, HeldReceipts
  <2>2. HeldReceipts \subseteq HeldReceipts' \cup {offered.receipt}
    BY <1>6 DEF OfferTake, HeldReceipts
  <2>3. Dropping' = {offered.receipt} /\ Dropping = {}
    BY <1>6 DEF OfferTake, Dropping
  <2>4. UNCHANGED <<batch, hand, Unsettled, delivered>>
    BY <1>6 DEF OfferTake, Unsettled, Issued
  <2> QED
    BY <2>1, <2>2, <2>3, <2>4 DEF Custody
<1>7. CASE OfferDrop
  <2> DEFINE r == offered.receipt
  <2>1. /\ r \in Issued \ batch /\ r \notin HeldReceipts /\ delivered[r] \in Large
        /\ Dropping = {r} /\ Settle("ack", "receiver", r)
    BY <1>7 DEF OfferDrop, Offering, Dropping
  <2>2. Unsettled' = Unsettled \ {r} /\ delivered' = delivered
    BY <2>1, SettleUnsettled
  <2>3. UNCHANGED <<batch, hand, HeldReceipts>>
    BY <1>7 DEF OfferDrop, HeldReceipts
  <2> HIDE DEF r
  <2> QED
    BY <2>1, <2>2, <2>3 DEF Custody
<1>8. CASE Expired
  <2>1. /\ hand = {} /\ hand' = {e.receipt : e \in Late} /\ window' = window \ Late
        /\ Late \subseteq window
    BY <1>8 DEF Expired, Phases, Late, AfterExpiry
  <2>2. UNCHANGED <<batch, Unsettled, Dropping, delivered>>
    BY <1>8 DEF Expired, Unsettled, Issued, Dropping
  <2>3. HeldReceipts = HeldReceipts' \cup hand'
    BY <2>1 DEF HeldReceipts
  <2>4. HeldReceipts' \cap hand' = {}
    BY <2>1 DEF HeldReceipts, Numbered
  <2> QED
    BY <2>1, <2>2, <2>3, <2>4 DEF Custody
<1>9. CASE ReleaseExpired
  <2>1. PICK r \in First(hand) : Settle("release", "settler", r) /\ hand' = hand \ {r}
    BY <1>9 DEF ReleaseExpired
  <2>2. r \in Issued /\ r \in hand
    BY <2>1 DEF First, IssuedOnly
  <2>3. Unsettled' = Unsettled \ {r} /\ delivered' = delivered
    BY <2>1, <2>2, SettleUnsettled
  <2>4. HeldReceipts' = HeldReceipts /\ batch' = batch
    BY <1>9 DEF ReleaseExpired, HeldReceipts
  <2>5. Dropping' = Dropping
    BY <1>9 DEF ReleaseExpired, Dropping
  <2> QED
    BY <2>1, <2>2, <2>3, <2>4, <2>5 DEF Custody
<1>10. CASE RecvAck
  <2>1. /\ hand = {} /\ hand' = {e.receipt : e \in Taken(Head(settles).seq)} /\ window' = window \ Taken(Head(settles).seq)
        /\ Taken(Head(settles).seq) \subseteq window
    BY <1>10 DEF RecvAck, Phases, Taken
  <2>2. UNCHANGED <<batch, Unsettled, Dropping, delivered>>
    BY <1>10 DEF RecvAck, Unsettled, Issued, Dropping
  <2>3. HeldReceipts = HeldReceipts' \cup hand'
    BY <2>1 DEF HeldReceipts
  <2>4. HeldReceipts' \cap hand' = {}
    BY <2>1 DEF HeldReceipts, Numbered
  <2> QED
    BY <2>1, <2>2, <2>3, <2>4 DEF Custody
<1>11. CASE AckTaken
  <2>1. PICK r \in First(hand) : Settle("ack", "settler", r) /\ hand' = hand \ {r}
    BY <1>11 DEF AckTaken
  <2>2. r \in Issued /\ r \in hand
    BY <2>1 DEF First, IssuedOnly
  <2>3. Unsettled' = Unsettled \ {r} /\ delivered' = delivered
    BY <2>1, <2>2, SettleUnsettled
  <2>4. HeldReceipts' = HeldReceipts /\ batch' = batch
    BY <1>11 DEF AckTaken, HeldReceipts
  <2>5. Dropping' = Dropping
    BY <1>11 DEF AckTaken, Dropping
  <2> QED
    BY <2>1, <2>2, <2>3, <2>4, <2>5 DEF Custody
<1>12. CASE RecvStop
  <2>1. /\ hand = {} /\ hand' = {e.receipt : e \in window} /\ window' = window \ window
        /\ window \subseteq window
    BY <1>12 DEF RecvStop, Phases
  <2>2. UNCHANGED <<batch, Unsettled, Dropping, delivered>>
    BY <1>12 DEF RecvStop, Unsettled, Issued, Dropping
  <2>3. HeldReceipts = HeldReceipts' \cup hand'
    BY <2>1 DEF HeldReceipts
  <2>4. HeldReceipts' \cap hand' = {}
    BY <2>1 DEF HeldReceipts, Numbered
  <2> QED
    BY <2>1, <2>2, <2>3, <2>4 DEF Custody
<1>13. CASE Drain
  <2>1. PICK r \in First(hand) : Settle("release", "settler", r) /\ hand' = hand \ {r}
    BY <1>13 DEF Drain
  <2>2. r \in Issued /\ r \in hand
    BY <2>1 DEF First, IssuedOnly
  <2>3. Unsettled' = Unsettled \ {r} /\ delivered' = delivered
    BY <2>1, <2>2, SettleUnsettled
  <2>4. HeldReceipts' = HeldReceipts /\ batch' = batch
    BY <1>13 DEF Drain, HeldReceipts
  <2>5. Dropping' = Dropping
    BY <1>13 DEF Drain, Dropping
  <2> QED
    BY <2>1, <2>2, <2>3, <2>4, <2>5 DEF Custody
<1>14. CASE \E m \in Msgs : Deliver(m)
  <2> DEFINE r == Len(delivered) + 1
  <2>1. /\ batch' = batch \cup {r} /\ Issued' = Issued \cup {r} /\ r \notin Issued
        /\ \A q \in Issued : delivered'[q] = delivered[q]
        /\ r \in Receipts
    BY <1>14, OptionsAssumption DEF Deliver, TypeOK, Issued, Receipts
  <2>2. UNCHANGED <<hand, HeldReceipts, calls>> /\ Dropping = {}
    BY <1>14 DEF Deliver, HeldReceipts, Dropping
  <2>3. Unsettled' = Unsettled \cup {r}
    BY <2>1, <2>2 DEF Unsettled, IssuedOnly
  <2>4. HeldReceipts \subseteq Issued /\ hand \subseteq Issued /\ batch \subseteq Issued
    BY DEF HeldReceipts, Numbered, IssuedOnly
  <2> HIDE DEF r
  <2> QED
    BY <2>1, <2>2, <2>3, <2>4 DEF Custody
<1> QED
  BY <1>2, <1>3, <1>4, <1>5, <1>6, <1>7, <1>8, <1>9, <1>10, <1>11, <1>12,
     <1>13, <1>14, NextCases

\* A call on a receipt that is unsettled, or whose message cannot cross, keeps
\* SettledOnce.
LEMMA SettleOnce ==
    ASSUME TypeOK, IssuedOnly, SettledOnce,
           NEW op \in {"ack", "release"}, NEW by \in {"receiver", "settler"},
           NEW r \in Issued, Settle(op, by, r),
           delivered[r] \in Large \/ r \in Unsettled
    PROVE  SettledOnce'
<1>1. /\ delivered' = delivered
      /\ calls'[r] = Append(calls[r], [op |-> op, by |-> by])
      /\ \A q \in Receipts \ {r} : calls'[q] = calls[q]
  BY SettleEffect DEF IssuedOnly
<1>2. Issued \subseteq Receipts /\ Issued' = Issued
  BY <1>1, OptionsAssumption DEF Issued, Receipts, IssuedOnly, TypeOK
<1>3. r \in Unsettled => Len(calls'[r]) = 1
  BY <1>1 DEF Unsettled
<1> QED
  BY <1>1, <1>2, <1>3 DEF SettledOnce

\* No second call on a receipt, unless its message cannot cross.
LEMMA SettledOnceStep ==
    ASSUME TypeOK, IssuedOnly, Offering, Custody, SettledOnce, [Next]_vars
    PROVE  SettledOnce'
<1> USE DEF vars, broker, shared, receiver, settler, host
<1>1. ASSUME UNCHANGED <<delivered, calls>> PROVE SettledOnce'
  BY <1>1 DEF SettledOnce, Issued
<1>2. CASE \/ SpawnReceiver \/ SpawnSettler \/ LoopTop \/ Connect \/ Pause
          \/ WaitForRoom \/ ReceiveFails \/ ReceiveReturns \/ EmitBare
          \/ OfferHold \/ OfferEmit \/ OfferTake \/ Expired \/ RecvTimeout
          \/ RecvAck \/ RecvStop \/ Elapse
          \/ (\E e \in emitted : Acknowledge(e)) \/ AcknowledgeUnreadable
          \/ Cancel \/ JoinReceiver \/ JoinSettler
          \/ (\E m \in Msgs : LockLapses(m)) \/ UNCHANGED vars
  BY <1>1, <1>2
  DEF SpawnReceiver, SpawnSettler, LoopTop, Connect, Pause, WaitForRoom,
      ReceiveFails, ReceiveReturns, EmitBare, OfferHold, OfferEmit,
      OfferTake, Expired, RecvTimeout, RecvAck, RecvStop, Elapse,
      Acknowledge, AcknowledgeUnreadable, Cancel, JoinReceiver, JoinSettler,
      LockLapses, Settle
<1>3. CASE GiveBack
  <2>1. PICK r \in First(batch) : Settle("release", "receiver", r)
    BY <1>3 DEF GiveBack
  <2>2. r \in Issued /\ (delivered[r] \in Large \/ r \in Unsettled)
    BY <2>1 DEF First, IssuedOnly, Custody
  <2> QED
    BY <2>1, <2>2, SettleOnce
<1>4. CASE AckAll
  <2>1. PICK r \in First(batch) : Settle("ack", "receiver", r)
    BY <1>4 DEF AckAll
  <2>2. r \in Issued /\ (delivered[r] \in Large \/ r \in Unsettled)
    BY <2>1 DEF First, IssuedOnly, Custody
  <2> QED
    BY <2>1, <2>2, SettleOnce
<1>5. CASE OfferDrop
  <2>1. /\ offered.receipt \in Issued /\ delivered[offered.receipt] \in Large
        /\ Settle("ack", "receiver", offered.receipt)
    BY <1>5 DEF OfferDrop, Offering
  <2> QED
    BY <2>1, SettleOnce
<1>6. CASE ReleaseExpired
  <2>1. PICK r \in First(hand) : Settle("release", "settler", r)
    BY <1>6 DEF ReleaseExpired
  <2>2. r \in Issued /\ (delivered[r] \in Large \/ r \in Unsettled)
    BY <2>1 DEF First, IssuedOnly, Custody
  <2> QED
    BY <2>1, <2>2, SettleOnce
<1>7. CASE AckTaken
  <2>1. PICK r \in First(hand) : Settle("ack", "settler", r)
    BY <1>7 DEF AckTaken
  <2>2. r \in Issued /\ (delivered[r] \in Large \/ r \in Unsettled)
    BY <2>1 DEF First, IssuedOnly, Custody
  <2> QED
    BY <2>1, <2>2, SettleOnce
<1>8. CASE Drain
  <2>1. PICK r \in First(hand) : Settle("release", "settler", r)
    BY <1>8 DEF Drain
  <2>2. r \in Issued /\ (delivered[r] \in Large \/ r \in Unsettled)
    BY <2>1 DEF First, IssuedOnly, Custody
  <2> QED
    BY <2>1, <2>2, SettleOnce
<1>9. CASE \E m \in Msgs : Deliver(m)
  <2> DEFINE r == Len(delivered) + 1
  <2>1. /\ Issued' = Issued \cup {r} /\ r \in Receipts \ Issued
        /\ \A q \in Issued : delivered'[q] = delivered[q]
    BY <1>9, OptionsAssumption DEF Deliver, TypeOK, Issued, Receipts
  <2>2. UNCHANGED <<calls, stored, emitted>> /\ calls[r] = <<>>
    BY <1>9, <2>1 DEF Deliver, IssuedOnly
  <2> HIDE DEF r
  <2>3. Len(calls[r]) = 0
    BY <2>2
  <2> QED
    BY <2>1, <2>2, <2>3 DEF SettledOnce
<1> QED
  BY <1>2, <1>3, <1>4, <1>5, <1>6, <1>7, <1>8, <1>9, NextCases

\* A call that is not the settler's ack, or is for a stored event, keeps
\* AckedWasStored.
LEMMA SettleAcked ==
    ASSUME TypeOK, IssuedOnly, AckedWasStored,
           NEW op \in {"ack", "release"}, NEW by \in {"receiver", "settler"},
           NEW r \in Issued, Settle(op, by, r), UNCHANGED <<stored, emitted>>,
           \/ op = "release" \/ by = "receiver"
           \/ delivered[r] \in stored /\ \E e \in emitted : e.receipt = r
    PROVE  AckedWasStored'
<1> DEFINE c == [op |-> op, by |-> by]
<1>1. /\ delivered' = delivered
      /\ calls'[r] = Append(calls[r], c)
      /\ \A q \in Receipts \ {r} : calls'[q] = calls[q]
  BY SettleEffect DEF IssuedOnly
<1>2. Issued \subseteq Receipts /\ Issued' = Issued
  BY <1>1, OptionsAssumption DEF Issued, Receipts, IssuedOnly, TypeOK
<1>3. calls[r] \in Seq(Calls)
  BY <1>2 DEF TypeOK
<1>4. \A i \in 1..Len(calls'[r]) :
        \/ i \in 1..Len(calls[r]) /\ calls'[r][i] = calls[r][i]
        \/ calls'[r][i] = c
  BY <1>1, <1>3
<1>5. c = [op |-> "ack", by |-> "settler"] => op = "ack" /\ by = "settler"
  OBVIOUS
<1> HIDE DEF c
<1>6. \A i \in 1..Len(calls'[r]) : calls'[r][i] = [op |-> "ack", by |-> "settler"]
        => delivered[r] \in stored /\ \E e \in emitted : e.receipt = r
  BY <1>4, <1>5 DEF AckedWasStored
<1> QED
  BY <1>1, <1>2, <1>6 DEF AckedWasStored

\* The settler acks stored events only.
LEMMA AckedStep ==
    ASSUME TypeOK, IssuedOnly, Offering, Promised, AckedWasStored, [Next]_vars
    PROVE  AckedWasStored'
<1> USE DEF vars, broker, shared, receiver, settler, host
<1>1. ASSUME UNCHANGED <<delivered, calls, stored, emitted>> PROVE AckedWasStored'
  BY <1>1 DEF AckedWasStored, Issued
<1>2. CASE \/ SpawnReceiver \/ SpawnSettler \/ LoopTop \/ Connect \/ Pause
          \/ WaitForRoom \/ ReceiveFails \/ ReceiveReturns \/ EmitBare
          \/ OfferHold \/ OfferTake \/ Expired \/ RecvTimeout \/ RecvAck
          \/ RecvStop \/ Elapse \/ AcknowledgeUnreadable \/ Cancel
          \/ JoinReceiver \/ JoinSettler \/ (\E m \in Msgs : LockLapses(m))
          \/ UNCHANGED vars
  BY <1>1, <1>2
  DEF SpawnReceiver, SpawnSettler, LoopTop, Connect, Pause, WaitForRoom,
      ReceiveFails, ReceiveReturns, EmitBare, OfferHold, OfferTake, Expired,
      RecvTimeout, RecvAck, RecvStop, Elapse, AcknowledgeUnreadable, Cancel,
      JoinReceiver, JoinSettler, LockLapses, Settle
<1>3. CASE GiveBack
  <2>1. PICK r \in First(batch) : Settle("release", "receiver", r)
    BY <1>3 DEF GiveBack
  <2>2. r \in Issued /\ r \in batch
    BY <2>1 DEF First, IssuedOnly
  <2>4. UNCHANGED <<stored, emitted>>
    BY <1>3 DEF GiveBack
  <2> QED
    BY <2>1, <2>2, <2>4, SettleAcked
<1>4. CASE AckAll
  <2>1. PICK r \in First(batch) : Settle("ack", "receiver", r)
    BY <1>4 DEF AckAll
  <2>2. r \in Issued /\ r \in batch
    BY <2>1 DEF First, IssuedOnly
  <2>4. UNCHANGED <<stored, emitted>>
    BY <1>4 DEF AckAll
  <2> QED
    BY <2>1, <2>2, <2>4, SettleAcked
<1>5. CASE OfferEmit
  BY <1>5 DEF OfferEmit, AckedWasStored, Issued
<1>6. CASE OfferDrop
  <2>1. offered.receipt \in Issued /\ Settle("ack", "receiver", offered.receipt)
    BY <1>6 DEF OfferDrop, Offering
  <2>2. UNCHANGED <<stored, emitted>>
    BY <1>6 DEF OfferDrop
  <2> QED
    BY <2>1, <2>2, SettleAcked
<1>7. CASE ReleaseExpired
  <2>1. PICK r \in First(hand) : Settle("release", "settler", r)
    BY <1>7 DEF ReleaseExpired
  <2>2. r \in Issued /\ r \in hand
    BY <2>1 DEF First, IssuedOnly
  <2>4. UNCHANGED <<stored, emitted>>
    BY <1>7 DEF ReleaseExpired
  <2> QED
    BY <2>1, <2>2, <2>4, SettleAcked
<1>8. CASE AckTaken
  <2>1. PICK r \in First(hand) : Settle("ack", "settler", r)
    BY <1>8 DEF AckTaken
  <2>2. r \in Issued /\ r \in hand
    BY <2>1 DEF First, IssuedOnly
  <2>3. delivered[r] \in stored /\ \E e \in emitted : e.receipt = r
    BY <1>8, <2>2 DEF AckTaken, Promised
  <2>4. UNCHANGED <<stored, emitted>>
    BY <1>8 DEF AckTaken
  <2> QED
    BY <2>1, <2>2, <2>3, <2>4, SettleAcked
<1>9. CASE Drain
  <2>1. PICK r \in First(hand) : Settle("release", "settler", r)
    BY <1>9 DEF Drain
  <2>2. r \in Issued /\ r \in hand
    BY <2>1 DEF First, IssuedOnly
  <2>4. UNCHANGED <<stored, emitted>>
    BY <1>9 DEF Drain
  <2> QED
    BY <2>1, <2>2, <2>4, SettleAcked
<1>10. CASE \E e \in emitted : Acknowledge(e)
  BY <1>10 DEF Acknowledge, AckedWasStored, Issued
<1>11. CASE \E m \in Msgs : Deliver(m)
  <2> DEFINE r == Len(delivered) + 1
  <2>1. /\ Issued' = Issued \cup {r} /\ r \in Receipts \ Issued
        /\ \A q \in Issued : delivered'[q] = delivered[q]
    BY <1>11, OptionsAssumption DEF Deliver, TypeOK, Issued, Receipts
  <2>2. UNCHANGED <<calls, stored, emitted>> /\ calls[r] = <<>>
    BY <1>11, <2>1 DEF Deliver, IssuedOnly
  <2> HIDE DEF r
  <2>3. 1..Len(calls[r]) = {}
    BY <2>2
  <2> QED
    BY <2>1, <2>2, <2>3 DEF AckedWasStored
<1> QED
  BY <1>2, <1>3, <1>4, <1>5, <1>6, <1>7, <1>8, <1>9, <1>10, <1>11, NextCases

-----------------------------------------------------------------------------
(* The theorems. *)

\* The invariant holds of the initial state.
LEMMA InitIInv == Init => IInv
<1> SUFFICES ASSUME Init PROVE IInv
  OBVIOUS
<1>1. TypeOK
  <2>1. lease \in [Msgs -> Receipts \cup {Ready, Removed}]
    BY DEF Init
  <2>2. delivered \in Seq(Msgs) /\ settles \in Seq(Messages)
    BY DEF Init
  <2>3. calls \in [Receipts -> Seq(Calls)]
    BY DEF Init
  <2>4. room \in 0..Max
    BY OptionsAssumption DEF Init, Max
  <2> QED
    BY <2>1, <2>2, <2>3, <2>4, OptionsAssumption DEF Init, TypeOK, RPCs, SPCs, Lives
<1>2. IssuedOnly /\ Numbered /\ Offering /\ Phases
  BY OptionsAssumption, FS_EmptySet
  DEF Init, IssuedOnly, Numbered, Offering, Phases, Receipts, Issued
<1>3. Promised /\ Lifecycle
  BY DEF Init, Promised, Lifecycle
<1>4. Roomy
  BY OptionsAssumption, FS_EmptySet DEF Init, Roomy, WindowBound, Held, Max
<1>5. Custody /\ SettledOnce /\ AckedWasStored
  BY DEF Init, Custody, SettledOnce, AckedWasStored, Issued, Unsettled,
         HeldReceipts, Dropping
<1> QED
  BY <1>1, <1>2, <1>3, <1>4, <1>5 DEF IInv

\* The invariant is inductive.
LEMMA IInvStep ==
    ASSUME IInv, [Next]_vars
    PROVE  IInv'
BY TypeStep, IssuedStep, NumberedStep, OfferingStep, PhasesStep, PromisedStep,
   LifecycleStep, RoomyStep, CustodyStep, SettledOnceStep, AckedStep
DEF IInv

\* Every reachable state of a queue watch satisfies the inductive invariant.
THEOREM Invariant == Spec => []IInv
<1>1. Init => IInv
  BY InitIInv
<1>2. IInv /\ [Next]_vars => IInv'
  BY IInvStep
<1> QED
  BY <1>1, <1>2, PTL DEF Spec

\* Type correctness of the two threads, the window, the channel and the broker.
THEOREM TypeCorrect == Spec => []TypeOK
<1>1. IInv => TypeOK
  BY DEF IInv
<1> QED
  BY <1>1, Invariant, PTL

\* wait_for_room and receive never let the window and the batch together hold
\* more than max_in_flight deliveries.
THEOREM WindowBounded == Spec => []WindowBound
<1>1. IInv => WindowBound
  BY DEF IInv, Roomy
<1> QED
  BY <1>1, Invariant, PTL

\* No delivery is lost between the receiver, the window and the settler.
THEOREM NothingLost == Spec => []Custody
<1>1. IInv => Custody
  BY DEF IInv
<1> QED
  BY <1>1, Invariant, PTL

\* A receipt whose event crossed to the host is settled at most once.
THEOREM NoDoubleSettle == Spec => []SettledOnce
<1>1. IInv => SettledOnce
  BY DEF IInv
<1> QED
  BY <1>1, Invariant, PTL

\* What the settling thread acks, the host has stored.
THEOREM StoredBeforeAcked == Spec => []AckedWasStored
<1>1. IInv => AckedWasStored
  BY DEF IInv
<1> QED
  BY <1>1, Invariant, PTL

\* When cancel_queue_watch returns, both threads are gone and nothing is left
\* unsettled.
THEOREM CancelComplete == Spec => []CancelSettlesAll
<1>1. IInv => CancelSettlesAll
  BY DEF IInv, CancelSettlesAll, Lifecycle, Phases, Custody, ReceiverRuns,
         SettlerRuns, HeldReceipts, Dropping
<1> QED
  BY <1>1, Invariant, PTL

\* After cancel_queue_watch has returned no step calls the broker or the host.
THEOREM QuietOnceCancelled == Spec => QuietAfterCancel
<1>1. IInv /\ [Next]_vars =>
        [life = "cancelled" => UNCHANGED <<calls, emitted, bare, stored>>]_vars
  <2> SUFFICES ASSUME IInv, [Next]_vars, life = "cancelled"
               PROVE  UNCHANGED <<calls, emitted, bare, stored>>
    OBVIOUS
  <2>1. rpc = "done" /\ spc = "done"
    BY DEF IInv, Lifecycle
  <2>2. CASE UNCHANGED vars
    BY <2>2 DEF vars, broker, host
  <2> QED
    BY <2>1, <2>2, NextCases
    DEF host, SpawnReceiver, SpawnSettler, LoopTop, Connect, Pause, WaitForRoom,
        ReceiveFails, ReceiveReturns, GiveBack, AckAll, EmitBare, OfferHold,
        OfferEmit, OfferTake, OfferDrop, Expired, ReleaseExpired, RecvTimeout,
        RecvAck, AckTaken, RecvStop, Drain, Elapse, broker, Acknowledge,
        AcknowledgeUnreadable, Cancel, JoinReceiver, JoinSettler, Deliver,
        LockLapses
<1> QED
  BY <1>1, Invariant, PTL DEF Spec, QuietAfterCancel

-----------------------------------------------------------------------------
(* The watch implements QueueContract. *)

\* A call is a Return or a Remove of the contract, or changes nothing it sees.
LEMMA SettleContract ==
    ASSUME TypeOK, IssuedOnly,
           NEW op \in {"ack", "release"}, NEW by \in {"receiver", "settler"},
           NEW r \in Issued, Settle(op, by, r), UNCHANGED stored,
           op = "ack" => delivered[r] \in stored \cup SettledUnstored
    PROVE  Contract!ContractNext \/ UNCHANGED Contract!cvars
<1> DEFINE m == delivered[r]
<1>1. m \in Msgs /\ r \in Receipts
  BY OptionsAssumption DEF Issued, Receipts, IssuedOnly, TypeOK
<1> UNCHANGED SettledUnstored
  BY DEF Settle, SettledUnstored
<1>2. CASE UNCHANGED lease
  BY <1>2 DEF Contract!cvars, Standing
<1>3. CASE lease[m] = r /\ lease' = [lease EXCEPT ![m] = Ready] /\ op = "release"
  <2>1. Standing[m] = "leased"
    BY <1>1, <1>3 DEF Standing, Ready, Removed, Receipts
  <2>2. Standing' = [Standing EXCEPT ![m] = "ready"]
    BY <1>1, <1>3 DEF Standing, TypeOK
  <2>3. Contract!Return(m)
    BY <2>1, <2>2 DEF Contract!Return
  <2> QED
    BY <1>1, <2>3 DEF Contract!ContractNext
<1>4. CASE lease[m] = r /\ lease' = [lease EXCEPT ![m] = Removed] /\ op = "ack"
  <2>1. Standing[m] = "leased"
    BY <1>1, <1>4 DEF Standing, Ready, Removed, Receipts
  <2> Ready # Removed
    BY DEF Ready, Removed
  <2>2. Standing' = [Standing EXCEPT ![m] = "removed"]
    BY <1>1, <1>4 DEF Standing, TypeOK
  <2>3. Contract!Remove(m)
    BY <1>4, <2>1, <2>2 DEF Contract!Remove
  <2> QED
    BY <1>1, <2>3 DEF Contract!ContractNext
<1> QED
  BY <1>2, <1>3, <1>4 DEF Settle

\* Every step of the watch is a step of the contract or leaves what it sees.
LEMMA ContractStep ==
    ASSUME IInv, [Next]_vars
    PROVE  Contract!ContractNext \/ UNCHANGED Contract!cvars
<1> USE DEF IInv, vars, broker, shared, receiver, settler, host
<1>1. ASSUME UNCHANGED <<eventSource, lease, stored>> PROVE UNCHANGED Contract!cvars
  BY <1>1 DEF Contract!cvars, Standing, SettledUnstored
<1>2. CASE \/ SpawnReceiver \/ SpawnSettler \/ LoopTop \/ Connect \/ Pause
          \/ WaitForRoom \/ ReceiveFails \/ ReceiveReturns \/ EmitBare
          \/ OfferHold \/ OfferEmit \/ OfferTake \/ Expired \/ RecvTimeout
          \/ RecvAck \/ RecvStop \/ Elapse \/ AcknowledgeUnreadable \/ Cancel
          \/ JoinReceiver \/ JoinSettler \/ UNCHANGED vars
  BY <1>1, <1>2
  DEF SpawnReceiver, SpawnSettler, LoopTop, Connect, Pause, WaitForRoom,
      ReceiveFails, ReceiveReturns, EmitBare, OfferHold, OfferEmit,
      OfferTake, Expired, RecvTimeout, RecvAck, RecvStop, Elapse,
      AcknowledgeUnreadable, Cancel, JoinReceiver, JoinSettler
<1>3. CASE GiveBack
  <2>1. PICK r \in First(batch) : Settle("release", "receiver", r)
    BY <1>3 DEF GiveBack
  <2>2. r \in Issued /\ r \in batch /\ UNCHANGED stored
    BY <1>3, <2>1 DEF First, IssuedOnly, GiveBack
  <2> QED
    BY <2>1, <2>2, SettleContract
<1>4. CASE AckAll
  <2>1. PICK r \in First(batch) : Settle("ack", "receiver", r)
    BY <1>4 DEF AckAll
  <2>2. r \in Issued /\ r \in batch /\ UNCHANGED stored
    BY <1>4, <2>1 DEF First, IssuedOnly, AckAll
  <2>3. delivered[r] \in SettledUnstored
    BY <1>4, <2>2 DEF AckAll, Phases, SettledUnstored, TypeOK, Issued
  <2> QED
    BY <2>1, <2>2, <2>3, SettleContract
<1>5. CASE ReleaseExpired
  <2>1. PICK r \in First(hand) : Settle("release", "settler", r)
    BY <1>5 DEF ReleaseExpired
  <2>2. r \in Issued /\ r \in hand /\ UNCHANGED stored
    BY <1>5, <2>1 DEF First, IssuedOnly, ReleaseExpired
  <2> QED
    BY <2>1, <2>2, SettleContract
<1>6. CASE AckTaken
  <2>1. PICK r \in First(hand) : Settle("ack", "settler", r)
    BY <1>6 DEF AckTaken
  <2>2. r \in Issued /\ r \in hand /\ UNCHANGED stored
    BY <1>6, <2>1 DEF First, IssuedOnly, AckTaken
  <2>3. delivered[r] \in stored
    BY <1>6, <2>2 DEF AckTaken, Promised
  <2> QED
    BY <2>1, <2>2, <2>3, SettleContract
<1>7. CASE Drain
  <2>1. PICK r \in First(hand) : Settle("release", "settler", r)
    BY <1>7 DEF Drain
  <2>2. r \in Issued /\ r \in hand /\ UNCHANGED stored
    BY <1>7, <2>1 DEF First, IssuedOnly, Drain
  <2> QED
    BY <2>1, <2>2, SettleContract
<1>8. CASE OfferDrop
  <2>1. /\ offered.receipt \in Issued /\ Settle("ack", "receiver", offered.receipt)
        /\ delivered[offered.receipt] \in Large /\ UNCHANGED stored
    BY <1>8 DEF OfferDrop, Offering
  <2>2. delivered[offered.receipt] \in SettledUnstored
    BY <2>1, OptionsAssumption DEF SettledUnstored
  <2> QED
    BY <2>1, <2>2, SettleContract
<1>9. CASE \E e \in emitted : Acknowledge(e)
  <2>1. PICK e \in emitted : Acknowledge(e)
    BY <1>9
  <2>2. delivered[e.receipt] \in Msgs
    BY DEF Numbered, Issued, TypeOK
  <2>3. Contract!Store(delivered[e.receipt])
    BY <2>1 DEF Acknowledge, Contract!Store, Standing, SettledUnstored
  <2> QED
    BY <2>2, <2>3 DEF Contract!ContractNext
<1>10. CASE \E m \in Msgs : Deliver(m)
  <2>1. PICK m \in Msgs : Deliver(m)
    BY <1>10
  <2>2. lease[m] = Ready /\ lease' = [lease EXCEPT ![m] = Len(delivered) + 1] /\ UNCHANGED <<eventSource, stored>>
    BY <2>1 DEF Deliver
  <2>3. Len(delivered) + 1 # Ready /\ Len(delivered) + 1 # Removed
    BY DEF TypeOK, Ready, Removed
  <2>4. Standing' = [Standing EXCEPT ![m] = "leased"] /\ Standing[m] = "ready"
    BY <2>2, <2>3 DEF Standing, TypeOK
  <2>5. Contract!Lease(m)
    BY <2>2, <2>4 DEF Contract!Lease, SettledUnstored
  <2> QED
    BY <2>5 DEF Contract!ContractNext
<1>11. CASE \E m \in Msgs : LockLapses(m)
  <2>1. PICK m \in Msgs : LockLapses(m)
    BY <1>11
  <2>2. lease[m] \in Receipts /\ lease' = [lease EXCEPT ![m] = Ready] /\ UNCHANGED <<eventSource, stored>>
    BY <2>1 DEF LockLapses
  <2>3. Standing[m] = "leased"
    BY <2>2 DEF Standing, Ready, Removed, Receipts
  <2>4. Standing' = [Standing EXCEPT ![m] = "ready"]
    BY <2>2 DEF Standing, TypeOK
  <2>5. Contract!Return(m)
    BY <2>2, <2>3, <2>4 DEF Contract!Return, SettledUnstored
  <2> QED
    BY <2>5 DEF Contract!ContractNext
<1> QED
  BY <1>2, <1>3, <1>4, <1>5, <1>6, <1>7, <1>8, <1>9, <1>10, <1>11, NextCases

\* The queue watch implements the contract: whatever the threads, the host and
\* the broker do, a message leaves the queue only once stored, or if its event
\* cannot reach the host.
THEOREM Implements == Spec => ImplementsContract
<1>1. Init => Contract!ContractInit
  BY OptionsAssumption DEF Init, Contract!ContractInit, Standing, SettledUnstored
<1>2. IInv /\ [Next]_vars => [Contract!ContractNext]_(Contract!cvars)
  BY ContractStep
<1> QED
  BY <1>1, <1>2, Invariant, PTL DEF Spec, ImplementsContract, Contract!ContractSpec

=============================================================================
