--------------------------- MODULE QueueInvariant ---------------------------
(***************************************************************************)
(* The inductive invariant of QueueWatch.  The properties of QueueWatch are *)
(* not inductive as they stand: they rest on how receipts and sequence      *)
(* numbers are given out, on which lists are empty at which point of the    *)
(* two threads, and on what an acknowledgement in the channel stands for.   *)
(***************************************************************************)
EXTENDS QueueWatch

\* Every receipt in use has been issued, and a receipt not issued yet has seen
\* no call; the window is finite.
IssuedOnly ==
    /\ Len(delivered) <= MaxDeliveries
    /\ IsFiniteSet(window)
    /\ \A r \in Receipts \ Issued : calls[r] = <<>>
    /\ batch \subseteq Issued /\ hand \subseteq Issued

\* A sequence number names one entry, emitted or held, and a receipt is held
\* under one of them.
Numbered ==
    /\ \A e \in window \cup emitted : e.seq < nextSeq /\ e.receipt \in Issued
    /\ \A e \in window \cup emitted : \A f \in window : e.seq = f.seq => e = f
    /\ \A e, f \in window : e.receipt = f.receipt => e = f

\* The entry `offer` works on: if the window still has its seq or its receipt,
\* it is that entry; one that cannot cross has left the window.
Offering ==
    rpc \in {"event", "drop"} =>
        /\ offered \in Entries
        /\ offered.seq < nextSeq /\ offered.receipt \in Issued \ batch
        /\ \A e \in window :
            e.seq = offered.seq \/ e.receipt = offered.receipt => e = offered
        /\ rpc = "drop" => /\ delivered[offered.receipt] \in Large
                           /\ offered.receipt \notin HeldReceipts

\* Where the receiver's batch and the settler's hand are empty.
Phases ==
    /\ rpc \in {"none", "loop", "connect", "pause", "room", "done"} => batch = {}
    /\ spc \in {"none", "expire", "recv", "done"} => hand = {}
    /\ spc = "ack" => \A r, q \in hand : r = q
    /\ rpc = "ackall" => ~eventSource

\* An acknowledgement in the channel names an event whose message is stored,
\* and so does the receipt about to be acked.
Promised ==
    /\ \A i \in 1..Len(settles) : settles[i].type = "ack" =>
        \/ settles[i].seq = NoSeq
        \/ \E e \in emitted : e.seq = settles[i].seq /\ delivered[e.receipt] \in stored
    /\ spc = "ack" => \A r \in hand : /\ delivered[r] \in stored
                                      /\ \E e \in emitted : e.receipt = r

\* The order of a start and of a cancel.
Lifecycle ==
    /\ life = "new" => rpc = "none"
    /\ life \in {"new", "half"} => spc = "none"
    /\ life \in {"stopping", "cancelled"} => rpc = "done"
    /\ life = "cancelled" => spc = "done"
    /\ \A i \in 1..Len(settles) : settles[i].type = "stop" =>
        life \in {"stopping", "cancelled"}
    /\ spc \in {"drain", "done"} => rpc = "done" /\ window = {}

\* What the receiver asked for fits beside what the window holds.
Roomy ==
    /\ WindowBound
    /\ rpc = "receive" => Held + room <= Max /\ Cardinality(batch) <= room

\* The inductive invariant.
IInv ==
    /\ TypeOK /\ IssuedOnly /\ Numbered /\ Offering /\ Phases
    /\ Promised /\ Lifecycle /\ Roomy
    /\ Custody /\ SettledOnce /\ AckedWasStored

=============================================================================
