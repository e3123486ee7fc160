------------------------------- MODULE MCQueue -------------------------------
(* Small instances of QueueWatch for TLC. *)
EXTENDS QueueInvariant, TLC

CONSTANTS m1, m2    \* the messages of the runs

=============================================================================
