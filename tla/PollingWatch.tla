----------------------------- MODULE PollingWatch -----------------------------
(***************************************************************************)
(* The polling watch of src/watch.rs: a thread polls a state (a high-water  *)
(* cursor, or what a plugin can diff), remembers the first it sees, and     *)
(* tells the host when a poll differs from the last one it remembers.       *)
(*                                                                         *)
(* A poll reads the state at one moment; the comparison is private to the   *)
(* thread.  The state, the host and a cancel move between the poll and the  *)
(* event it leads to.                                                       *)
(***************************************************************************)
EXTENDS Naturals, Sequences

CONSTANTS
    MaxValue,       \* bound: values of the state, 1..MaxValue
    MaxChanges      \* bound: changes of the state

ASSUME PollingAssumption ==
    MaxValue \in Nat \ {0} /\ MaxChanges \in Nat

VARIABLES
    eventSource,    \* is_event_source(resource_uri)
    state,      \* what a poll would return now, None for no signal (external)
    newest,     \* the largest value it had
    changes,    \* how often it changed
    returned,   \* it came back to a value it had, or to a smaller one
    pc, last, cur, stop,    \* the thread of spawn_diffing_watch
    life,       \* what spawn and cancel reached
    inbox,      \* the events emitted that the host has not handled
    emits,      \* how many events were emitted
    view,       \* what the host knows of the state
    lost        \* an event did not serialise

thread == <<pc, last, cur>>
world  == <<state, newest, changes, returned>>
host   == <<inbox, emits, view, lost>>
vars   == <<eventSource, world, thread, stop, life, host>>

None == 0
Values == 1..MaxValue

Init ==
    /\ eventSource \in BOOLEAN
    /\ state \in Values \cup {None} /\ newest = state /\ changes = 0
    /\ returned = FALSE
    /\ pc = "none" /\ last = None /\ cur = None /\ stop = FALSE
    /\ life = "new" /\ inbox = <<>> /\ emits = 0 /\ view = None
    /\ lost = FALSE

\* The polled state moves.
Change ==
    /\ changes < MaxChanges
    /\ \E v \in Values \cup {None} :
        /\ v # state
        /\ state' = v
        /\ returned' = (returned \/ v \in 1..newest)
        /\ newest' = IF v > newest THEN v ELSE newest
    /\ changes' = changes + 1
    /\ UNCHANGED <<eventSource, thread, stop, life, host>>

-----------------------------------------------------------------------------
\* The thread starts, or spawn_diffing_watch panics and returns no handle.
Spawn ==
    /\ life = "new"
    /\ \/ life' = "running" /\ pc' = "top"
       \/ life' = "failed" /\ UNCHANGED pc
    /\ UNCHANGED <<eventSource, world, last, cur, stop, host>>

\* Mutant of Top: the flag is not looked at.
TopDeaf ==
    /\ pc = "top"
    /\ pc' = "poll"
    /\ UNCHANGED <<eventSource, world, last, cur, stop, life, host>>

Top ==
    /\ pc = "top"
    /\ pc' = IF stop THEN "done" ELSE "poll"
    /\ UNCHANGED <<eventSource, world, last, cur, stop, life, host>>

\* The first state seen is remembered without an event; the host's knowledge
\* starts there.
PollBaseline ==
    /\ pc = "poll" /\ state # None /\ last = None
    /\ last' = state /\ pc' = "sleep"
    /\ view' = IF view = None THEN state ELSE view
    /\ UNCHANGED <<eventSource, world, cur, stop, life, inbox, emits, lost>>

\* Mutant of PollDiffers: the poll is remembered before its event is made.
PollDiffersEarly ==
    /\ pc = "poll" /\ state # None /\ last \notin {None, state}
    /\ cur' = state /\ last' = state /\ pc' = "emit"
    /\ UNCHANGED <<eventSource, world, stop, life, host>>

\* Mutant of PollDiffers: the first poll counts as a change.
PollDiffersAtOnce ==
    /\ pc = "poll" /\ state # None /\ last # state
    /\ cur' = state /\ pc' = "emit"
    /\ UNCHANGED <<eventSource, world, last, stop, life, host>>

PollDiffers ==
    /\ pc = "poll" /\ state # None /\ last \notin {None, state}
    /\ cur' = state /\ pc' = "emit"
    /\ UNCHANGED <<eventSource, world, last, stop, life, host>>

\* Mutant of PollQuiet: a poll without a signal forgets the last one.
PollQuietForgets ==
    /\ pc = "poll"
    /\ last' = IF state = None THEN None ELSE last
    /\ pc' = "sleep"
    /\ UNCHANGED <<eventSource, world, cur, stop, life, host>>

\* The poll fails, has no signal, or sees what it saw last.
PollQuiet ==
    /\ pc = "poll"
    /\ pc' = "sleep"
    /\ UNCHANGED <<eventSource, world, last, cur, stop, life, host>>

\* The poll closure panics: the thread ends and nobody is told.
PollPanics ==
    /\ pc = "poll"
    /\ pc' = "done"
    /\ UNCHANGED <<eventSource, world, last, cur, stop, life, host>>

\* The events of the poll go out: to an event source the difference, to a
\* resource watch one bare change.  Then the poll is the last one.
Emit ==
    /\ pc = "emit"
    /\ inbox' = Append(inbox, [from |-> last, to |-> cur])
    /\ emits' = emits + 1
    /\ last' = cur /\ pc' = "sleep"
    /\ UNCHANGED <<eventSource, world, cur, stop, life, view, lost>>

\* An event that does not serialise is logged and skipped; the poll is the last
\* one all the same.
EmitFails ==
    /\ pc = "emit" /\ eventSource
    /\ lost' = TRUE
    /\ last' = cur /\ pc' = "sleep"
    /\ UNCHANGED <<eventSource, world, cur, stop, life, inbox, emits, view>>

\* sleep_interruptible returns, after the interval or because of the flag.
Sleep ==
    /\ pc = "sleep"
    /\ pc' = "top"
    /\ UNCHANGED <<eventSource, world, last, cur, stop, life, host>>

-----------------------------------------------------------------------------
\* The host applies a difference, or reads the resource again.
Handle ==
    /\ inbox # <<>>
    /\ view' = IF eventSource THEN Head(inbox).to ELSE state
    /\ inbox' = Tail(inbox)
    /\ UNCHANGED <<eventSource, world, thread, stop, life, emits, lost>>

\* cancel_polling_watch: raise the flag, then join.
Cancel ==
    /\ life = "running"
    /\ stop' = TRUE /\ life' = "joining"
    /\ UNCHANGED <<eventSource, world, thread, host>>

\* Mutant of Join: the cancel does not wait for the thread.
JoinSkipped ==
    /\ life = "joining"
    /\ life' = "cancelled"
    /\ UNCHANGED <<eventSource, world, thread, stop, host>>

Join ==
    /\ life = "joining" /\ pc = "done"
    /\ life' = "cancelled"
    /\ UNCHANGED <<eventSource, world, thread, stop, host>>

\* A watch that never started or was cancelled does nothing more.
Terminated ==
    /\ life \in {"failed", "cancelled"}
    /\ UNCHANGED vars

Thread == Top \/ PollBaseline \/ PollDiffers \/ PollQuiet \/ PollPanics \/ Emit
          \/ EmitFails \/ Sleep

Next == Change \/ Spawn \/ Thread \/ Handle \/ Cancel \/ Join \/ Terminated

Spec == Init /\ [][Next]_vars

\* The thread runs; a poll does not fail every time; the host handles its
\* events and a cancel once begun goes on.
Fairness ==
    /\ WF_vars(Spawn) /\ WF_vars(Thread)
    /\ SF_vars(PollBaseline) /\ SF_vars(PollDiffers)
    /\ WF_vars(Handle) /\ WF_vars(Join)

FairSpec == Spec /\ Fairness

-----------------------------------------------------------------------------
\* The type of each variable; an event is always between two states seen.
TypeOK ==
    /\ {state, newest, last, cur, view} \subseteq 0..MaxValue
    /\ changes \in 0..MaxChanges /\ emits \in Nat
    /\ eventSource \in BOOLEAN /\ returned \in BOOLEAN
    /\ pc \in {"none", "top", "poll", "emit", "sleep", "done"}
    /\ stop \in BOOLEAN
    /\ life \in {"new", "running", "failed", "joining", "cancelled"}
    /\ inbox \in Seq([from : Values, to : Values]) /\ lost \in BOOLEAN

\* The differences an event source gets compose: each starts at the state the
\* one before it led to, the first at what the host knows, and the last leads to
\* what the thread remembers.  No state the thread saw is skipped or told twice,
\* unless an event was lost in encoding.
DiffsCompose ==
    eventSource /\ ~lost =>
        /\ \A i \in 1..Len(inbox) : inbox[i].from # inbox[i].to
        /\ \A i \in 1..Len(inbox) - 1 : inbox[i].to = inbox[i + 1].from
        /\ inbox # <<>> => /\ inbox[1].from = view
                           /\ inbox[Len(inbox)].to = last
        /\ inbox = <<>> => view = last

\* Nothing is emitted once a cancel has returned.
QuietAfterCancel ==
    [][life = "cancelled" => UNCHANGED <<emits, last>>]_vars

\* A cancel returns, even from the middle of a poll or a sleep.
CancelReturns == (life = "joining") ~> (life = "cancelled")

\* A host that reads the resource again on each change, however late, ends with
\* what the resource holds: no change falls between a poll and a read.  So does
\* one that applies the differences, unless one was lost in encoding.  Reading
\* again takes a state that does not come back to a value the thread remembers.
HostCatchesUp ==
    <>[](\/ pc \in {"none", "done"} \/ state = None \/ view = state
         \/ IF eventSource THEN lost ELSE returned)

=============================================================================
