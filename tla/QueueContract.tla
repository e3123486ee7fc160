---------------------------- MODULE QueueContract ----------------------------
(***************************************************************************)
(* What a queue watch promises about a broker's messages, without threads, *)
(* windows or receipts: a message is leased to the watch and returned any   *)
(* number of times, and it leaves the queue only once the host has stored   *)
(* it.  The promise is the one src/queue.rs opens with ("settled upstream   *)
(* only once the host has stored it").                                      *)
(***************************************************************************)

CONSTANT Msgs       \* the messages of the queue

VARIABLES
    undeliverable,  \* those that may be removed without the host storing them
    status,         \* where each message is
    stored          \* the messages the host has stored

cvars == <<undeliverable, status, stored>>

Status == {"ready", "leased", "removed"}

ContractTypeOK ==
    /\ status \in [Msgs -> Status]
    /\ stored \subseteq Msgs /\ undeliverable \subseteq Msgs

ContractInit ==
    /\ status = [m \in Msgs |-> "ready"]
    /\ stored = {} /\ undeliverable \in SUBSET Msgs

Lease(m) ==
    /\ status[m] = "ready"
    /\ status' = [status EXCEPT ![m] = "leased"]
    /\ UNCHANGED <<undeliverable, stored>>

Return(m) ==
    /\ status[m] = "leased"
    /\ status' = [status EXCEPT ![m] = "ready"]
    /\ UNCHANGED <<undeliverable, stored>>

\* An event may reach the host's store after its message went back to the
\* queue, so Store does not ask that the message is still leased.
Store(m) ==
    /\ stored' = stored \cup {m}
    /\ UNCHANGED <<undeliverable, status>>

Remove(m) ==
    /\ status[m] = "leased"
    /\ m \in stored \cup undeliverable
    /\ status' = [status EXCEPT ![m] = "removed"]
    /\ UNCHANGED <<undeliverable, stored>>

ContractNext == \E m \in Msgs : Lease(m) \/ Return(m) \/ Store(m) \/ Remove(m)

ContractSpec == ContractInit /\ [][ContractNext]_cvars

=============================================================================
