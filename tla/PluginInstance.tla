--------------------------- MODULE PluginInstance ---------------------------
(***************************************************************************)
(* One plugin instance, from make to drop_instance: the calls the host       *)
(* makes into its slots (src/macros.rs) or adapters (src/adapters.rs), the   *)
(* host services it asks while it runs, the guards it holds (subscriptions   *)
(* and spans of src/host_handle.rs, subscriptions of src/cluster.rs) and the *)
(* streams it starts into a sink of the host.                                *)
(*                                                                         *)
(* The entity is the plugin author's code: it does in any order what its     *)
(* types let it do, and it may panic.  It keeps three rules the slots rely   *)
(* on: a start that fails, panics or returns a null handle leaves nothing    *)
(* running; a cancel returns once no emission is under way and does not      *)
(* panic; a guard lives in a call or in the instance.  The host is external: *)
(* it calls slots only between make and drop_instance, drops an instance     *)
(* when no call is under way and no stream is open, makes no callback once   *)
(* an unsubscribe or cancel has returned, and frees a sink when the start    *)
(* failed or the cancel returned.                                            *)
(***************************************************************************)
EXTENDS PluginSlots, Naturals

CONSTANTS
    Threads,        \* the host's worker threads
    Guards,         \* the guards an instance makes
    StreamIds,      \* the streams it starts
    Scenes,         \* what a behaviour is about
    Nobody, Instance, NoStream

ASSUME InstanceAssumption ==
    /\ {Nobody, Instance} \cap Threads = {} /\ Nobody # Instance
    /\ NoStream \notin StreamIds

VARIABLES
    scene,      \* kind: of the instance; path: "ffi" or "static"; slots: those
                \* called; guards: the kind of each guard, or "none"; services:
                \* those asked; runtime: what a static HostHandle or an HTTP
                \* drain meets, no runtime ("none", for a drain also a build
                \* without the streaming feature), a worker of its own
                \* ("worker") or "other"
    inst,       \* none, making, made, dropping, gone, or null: make failed
    frame,      \* the call each thread is in
    phase,      \* of a guard: unused, held, stopping (inside the host's
                \* unsubscribe), stopped, ended
    owner,      \* the call or the instance it is a variable or a field of
    accepted,   \* the host gave it an id other than 0
    box,        \* its boxed callback: none, live, freed
    listening,  \* the host may call it
    firing,     \* a callback of it is under way
    ends,       \* how often the host was told of its end
    stream      \* the streams

calls  == <<scene, inst, frame>>
guards == <<phase, owner, accepted, box, listening, firing, ends>>
vars   == <<calls, guards, stream>>

MakeCall == Slot("make", "handle", "default", "failure")
DropCall == Slot("drop_instance", "unit", "none", "silent")

Cancels == {"cancel_stream", "cancel", "cancel_watch", "lease_drop",
            "transport_handle_drop"}

\* The slots of a scene are slots of its kind: a slot that cancels takes no
\* encoded arguments and starts nothing, and no adapter starts a stream.
SceneOK(sc) ==
    /\ sc.path \in {"ffi", "static"} /\ sc.runtime \in {"none", "worker", "other"}
    /\ sc.guards \in [Guards -> {"none", "host", "cluster", "span"}]
    /\ sc.slots \cap {MakeCall, DropCall} = {}
    /\ \A s \in sc.slots :
        /\ SlotOK(s)
        /\ s.name \in Cancels => s.gives # "stream" /\ s.bad = "none"
        /\ sc.path = "static" /\ s.gives = "stream" => s.name \notin Adapters[sc.kind]

ASSUME ScenesAssumption == \A sc \in Scenes : SceneOK(sc)

Idle == [stage |-> "idle", slot |-> DropCall, args |-> "good", outcome |-> "none",
         asked |-> "no", read |-> "nothing", answer |-> "none", stream |-> NoStream]

\* given, back: the token the entity returned, and the one its cancel was given.
Unused == [phase |-> "unused", slot |-> "none", handle |-> "none", sink |-> "none",
           running |-> FALSE, emitting |-> FALSE, given |-> "none", back |-> "none"]

Init ==
    /\ scene \in Scenes
    /\ inst = "none"
    /\ frame = [t \in Threads |-> Idle]
    /\ phase = [g \in Guards |-> "unused"] /\ owner = [g \in Guards |-> Nobody]
    /\ accepted = [g \in Guards |-> FALSE] /\ box = [g \in Guards |-> "none"]
    /\ listening = [g \in Guards |-> FALSE] /\ firing = [g \in Guards |-> FALSE]
    /\ ends = [g \in Guards |-> 0]
    /\ stream = [x \in StreamIds |-> Unused]

Inside(t)  == frame[t].stage = "entity"
Leaving(t) == frame[t].stage = "leaving"

-----------------------------------------------------------------------------
(* Entering a call *)

Leases    == {"acquire_leadership", "acquire_lock"}
TryLeases == {"try_acquire_leadership", "try_acquire_lock"}
HandleUses == {"acknowledge", "lease_renew", "lease_release",
               "transport_handle_close", "listen_address"}

\* The slot that ends what a starting slot started.
CancelOf(started) ==
    CASE started \in Leases \cup TryLeases -> "lease_drop"
      [] started = "start" -> "transport_handle_drop"
      [] started = "watch" -> IF scene.kind = "watch_strategy" THEN "cancel"
                              ELSE "cancel_watch"
      [] OTHER -> "cancel_stream"

\* The stream a call is about, which the host chooses.
Suits(s, x) ==
    IF s.gives = "stream" THEN x \in StreamIds /\ stream[x].phase = "unused"
    ELSE IF s.name \in Cancels
    THEN x \in StreamIds /\ stream[x].phase = "open"
            /\ s.name = CancelOf(stream[x].slot)
    ELSE IF s.name \in HandleUses THEN x \in StreamIds /\ stream[x].phase = "open"
    ELSE x = NoStream

\* On the static path values are passed as they are, to the methods the adapter
\* passes on; over the FFI the slot decodes them first.
Bridged(s) == scene.path = "ffi" \/ s.name \in Adapters[scene.kind]
Runs(s, args) == Bridged(s) /\ (args = "good" \/ s.bad = "default")
Unreached(s) ==
    IF ~Bridged(s) THEN "failure"
    ELSE [error |-> "failure", skip |-> "nothing", fallback |-> "fallback"][s.bad]

\* Mutant of Token: the sentinel reaches the entity's cancel_stream.
TokenRaw(x) == IF stream[x].handle = "sentinel" THEN "max" ELSE "token"

\* cancel_stream undoes the mapping of execute_streaming.
Token(x) == IF stream[x].handle = "sentinel" THEN "zero" ELSE "token"

\* The host passes a sink to a starting slot and a handle to a cancelling one.
Handed(s, x) ==
    IF s.gives = "stream"
    THEN [stream EXCEPT ![x].phase = "starting", ![x].slot = s.name, ![x].sink = "live"]
    ELSE IF s.name \in Cancels
    THEN [stream EXCEPT ![x].phase = "closing", ![x].back = Token(x)]
    ELSE stream

Enter(t, s, args, x) ==
    /\ inst = "made" /\ frame[t].stage = "idle"
    /\ args = "bad" => s.bad # "none" /\ scene.path = "ffi"
    /\ Suits(s, x)
    /\ frame' = [frame EXCEPT ![t] =
                    [Idle EXCEPT !.slot = s, !.args = args, !.stream = x,
                                 !.stage = IF Runs(s, args) THEN "entity" ELSE "answered",
                                 !.answer = IF Runs(s, args) THEN "none" ELSE Unreached(s)]]
    /\ stream' = Handed(s, x)
    /\ UNCHANGED <<scene, inst, guards>>

\* make: the factory gets the operator's configuration, and in a static build
\* an empty one.
Make(t) ==
    /\ inst = "none" /\ inst' = "making"
    /\ \E config \in IF scene.path = "ffi" THEN {"good", "bad", "absent"} ELSE {"absent"} :
        frame' = [frame EXCEPT ![t] = [Idle EXCEPT !.slot = MakeCall, !.args = config,
                                                   !.stage = "entity"]]
    /\ UNCHANGED <<scene, guards, stream>>

\* drop_instance: boxed_drop drops the instance and with it the guards it keeps.
Drop(t) ==
    /\ inst = "made" /\ inst' = "dropping"
    /\ \A u \in Threads : frame[u].stage = "idle"
    /\ \A x \in StreamIds : stream[x].phase \in {"unused", "closed"}
    /\ frame' = [frame EXCEPT ![t] = [Idle EXCEPT !.stage = "leaving", !.outcome = "ok"]]
    /\ owner' = [g \in Guards |-> IF owner[g] = Instance THEN t ELSE owner[g]]
    /\ UNCHANGED <<scene, phase, accepted, box, listening, firing, ends, stream>>

-----------------------------------------------------------------------------
(* The entity asks the host *)

\* Mutant of ServiceRead: an answer that does not decode is read as none.
ServiceReadLax(svc, response) ==
    IF svc.wire = "plain" THEN "nothing" ELSE IF response = "err" THEN "err" ELSE "ok"

\* What the entity reads: over the FFI the decoded envelope; in process the
\* future's own result, if block_on has a runtime and is not on its worker.
ServiceRead(svc, response) ==
    CASE svc.wire = "plain" -> "nothing"
      [] svc.wire # "plain" /\ scene.path = "ffi" ->
            IF response = "ok" THEN "ok" ELSE "err"
      [] OTHER -> [none |-> "err", worker |-> "panic", other |-> response][scene.runtime]

\* The host may answer with what does not decode.
Ask(t, svc) ==
    /\ Inside(t) /\ frame[t].asked = "no"
    /\ \E response \in IF scene.path = "ffi" THEN {"ok", "err", "garbled"} ELSE {"ok", "err"} :
        frame' = [frame EXCEPT
                    ![t].asked = IF scene.path = "static" /\ scene.runtime # "other"
                                 THEN "unasked" ELSE response,
                    ![t].read = ServiceRead(svc, response)]
    /\ UNCHANGED <<scene, inst, guards, stream>>

-----------------------------------------------------------------------------
(* The entity returns, and the slot answers *)

\* A configuration that does not parse fails closed; block_on on a worker panics.
\* "blank" is a legitimate result that is encoded like nothing: no schema, FALSE.
Outcomes(f) ==
    IF f.slot.name \in Cancels THEN {"ok"}
    ELSE IF f.read = "panic" \/ (f.slot = MakeCall /\ f.args = "bad") THEN {"panic"}
    ELSE CASE f.slot.gives \in {"verdict", "result"} -> {"ok", "err", "panic"}
           [] f.slot.gives = "stream" -> {"ok", "null", "err", "panic"}
           [] f.slot.gives = "body" -> {"ok", "streaming", "panic"}
           [] OTHER -> IF f.slot.panics = "blank" THEN {"ok", "blank", "panic"}
                       ELSE {"ok", "panic"}

\* A start leaves its stream running only if it succeeds with a handle.
Return(t, outcome) ==
    LET x == frame[t].stream
        starts == frame[t].slot.gives = "stream"
        cancels == frame[t].slot.name \in Cancels
    IN  /\ Inside(t) /\ outcome \in Outcomes(frame[t])
        /\ cancels \/ (starts /\ outcome # "ok") => ~stream[x].emitting
        /\ frame' = [frame EXCEPT ![t].stage = "leaving", ![t].outcome = outcome]
        /\ stream' = IF cancels THEN [stream EXCEPT ![x].running = FALSE]
                     ELSE IF starts
                     THEN [stream EXCEPT
                            ![x].running = outcome = "ok",
                            ![x].given = CASE outcome = "ok" -> "token"
                                           [] outcome = "null" -> "zero"
                                           [] OTHER -> "none"]
                     ELSE stream
        /\ UNCHANGED <<scene, inst, guards>>

\* Mutant of Answer: a stream without a token is answered like the others.
AnswerNull(f) ==
    IF f.outcome = "null" THEN "null"
    ELSE IF f.outcome = "panic" THEN "failure" ELSE "success"

\* A streaming body that becomes a 500 over the FFI: on the buffered slot, and on
\* the streaming one when no runtime is there to drain it.
Undrained(f) ==
    scene.path = "ffi" /\ (f.slot.name = "handle" \/ scene.runtime = "none")

\* The slot's encoding of the outcome; the adapters let a panic through.
Answer(f) ==
    CASE f.outcome = "panic" ->
            IF scene.path = "static" THEN "unwound"
            ELSE [failure |-> "failure", empty |-> "empty", blank |-> "blank",
                  silent |-> "nothing"][f.slot.panics]
      [] f.outcome = "err" -> "failure"
      [] f.outcome = "null" -> IF f.slot.name = "execute_streaming" THEN "sentinel" ELSE "null"
      [] f.outcome = "blank" -> "blank"
      [] f.outcome = "streaming" -> IF Undrained(f) THEN "failure" ELSE "success"
      [] OTHER -> IF f.slot.gives = "unit" THEN "nothing" ELSE "success"

\* The call returns once the guards that are its own are gone.
Finish(t) ==
    /\ Leaving(t) /\ \A g \in Guards : owner[g] # t
    /\ frame' = [frame EXCEPT ![t].stage = "answered", ![t].answer = Answer(frame[t])]
    /\ inst' = IF frame[t].slot = MakeCall
               THEN IF frame[t].outcome = "ok" THEN "made" ELSE "null"
               ELSE IF frame[t].slot = DropCall THEN "gone" ELSE inst
    /\ UNCHANGED <<scene, guards, stream>>

\* ClusterClient takes an empty answer to publish and release for success and any
\* other for an error, and makes of an empty answer to the two snapshots a
\* placeholder and an empty list.
Confirmed == {"publish", "lease_release"}
Snapshots == {"node_info", "list_peers"}

\* What the caller reads from an answer: a null handle is a start that failed,
\* or for try_acquire one that found the lease held.
Reading(f) ==
    CASE f.answer = "success" -> IF f.slot.name \in Confirmed THEN "failure" ELSE "success"
      [] f.answer = "empty" ->
            IF f.slot.name \in Confirmed \cup Snapshots THEN "success" ELSE "failure"
      [] f.answer = "null" -> IF f.slot.name \in TryLeases THEN "success" ELSE "failure"
      [] f.answer \in {"sentinel", "fallback", "blank"} -> "success"
      [] f.answer \in {"failure", "unwound"} -> "failure"
      [] f.answer = "nothing" -> "nothing"

\* The host reads the answer.  It keeps the sink of a stream that started, and
\* frees that of one that did not start or was cancelled.
Read(t) ==
    LET f == frame[t]
        x == f.stream
        opened == f.slot.gives = "stream" /\ f.answer \in {"success", "sentinel"}
    IN  /\ f.stage = "answered"
        /\ frame' = [frame EXCEPT ![t] = Idle]
        /\ stream' = IF opened
                     THEN [stream EXCEPT ![x].phase = "open", ![x].handle = f.answer]
                     ELSE IF f.slot.gives = "stream" \/ f.slot.name \in Cancels
                     THEN [stream EXCEPT ![x].phase = "closed", ![x].sink = "freed"]
                     ELSE stream
        /\ UNCHANGED <<scene, inst, guards>>

-----------------------------------------------------------------------------
(* Streams: the emitter the slot wraps around the sink *)

\* The entity emits while the start runs, or from a thread of its own after it.
EmitBegins(x) ==
    /\ stream[x].slot \notin Leases \cup TryLeases /\ ~stream[x].emitting
    /\ \/ stream[x].running
       \/ \E t \in Threads : Inside(t) /\ frame[t].slot.gives = "stream" /\ frame[t].stream = x
    /\ stream' = [stream EXCEPT ![x].emitting = TRUE]
    /\ UNCHANGED <<calls, guards>>

EmitEnds(x) ==
    /\ stream[x].emitting
    /\ stream' = [stream EXCEPT ![x].emitting = FALSE]
    /\ UNCHANGED <<calls, guards>>

StreamEnds(x) ==
    /\ stream[x].running /\ ~stream[x].emitting
    /\ stream' = [stream EXCEPT ![x].running = FALSE]
    /\ UNCHANGED <<calls, guards>>

-----------------------------------------------------------------------------
(* Guards *)

\* Mutant of Refused: ClusterClient::subscribe forgets the box.
RefusedLeaks(g) ==
    /\ scene.guards[g] = "cluster"
    /\ phase' = [phase EXCEPT ![g] = "ended"] /\ box' = [box EXCEPT ![g] = "live"]
    /\ UNCHANGED <<owner, accepted, listening, firing, ends>>

\* ClusterClient::subscribe and watch_peers, refused: the box is reclaimed.
Refused(g) ==
    /\ scene.guards[g] = "cluster"
    /\ phase' = [phase EXCEPT ![g] = "ended"] /\ box' = [box EXCEPT ![g] = "freed"]
    /\ UNCHANGED <<owner, accepted, listening, firing, ends>>

\* The callback is boxed and subscribed.  A host subscription that got id 0 is
\* a guard all the same.
Subscribed(t, g) ==
    /\ scene.guards[g] \in {"host", "cluster"}
    /\ \E id \in IF scene.guards[g] = "host" THEN BOOLEAN ELSE {TRUE} :
        /\ accepted' = [accepted EXCEPT ![g] = id]
        /\ listening' = [listening EXCEPT ![g] = id]
    /\ box' = [box EXCEPT ![g] = "live"]
    /\ phase' = [phase EXCEPT ![g] = "held"] /\ owner' = [owner EXCEPT ![g] = t]
    /\ UNCHANGED <<firing, ends>>

\* HostHandle::span
SpanStarted(t, g) ==
    /\ scene.guards[g] = "span"
    /\ phase' = [phase EXCEPT ![g] = "held"] /\ owner' = [owner EXCEPT ![g] = t]
    /\ UNCHANGED <<accepted, box, listening, firing, ends>>

Acquire(t, g) ==
    /\ Inside(t) /\ phase[g] = "unused"
    /\ Refused(g) \/ Subscribed(t, g) \/ SpanStarted(t, g)
    /\ UNCHANGED <<calls, stream>>

\* The guard becomes a field of the instance, by interior mutability or, in
\* make, with the instance the factory returns.
Keep(t, g) ==
    /\ owner[g] = t /\ phase[g] = "held"
    /\ \/ Inside(t) /\ frame[t].slot # MakeCall
       \/ Leaving(t) /\ frame[t].slot = MakeCall /\ frame[t].outcome = "ok"
    /\ owner' = [owner EXCEPT ![g] = Instance]
    /\ UNCHANGED <<calls, phase, accepted, box, listening, firing, ends, stream>>

\* A call takes a guard out of the instance.
Take(t, g) ==
    /\ Inside(t) /\ frame[t].slot # MakeCall /\ owner[g] = Instance
    /\ owner' = [owner EXCEPT ![g] = t]
    /\ UNCHANGED <<calls, phase, accepted, box, listening, firing, ends, stream>>

\* SpanGuard::drop
EndSpan(g) ==
    /\ scene.guards[g] = "span"
    /\ phase' = [phase EXCEPT ![g] = "ended"] /\ owner' = [owner EXCEPT ![g] = Nobody]
    /\ ends' = [ends EXCEPT ![g] = @ + 1]
    /\ UNCHANGED <<accepted, box, listening, firing>>

\* Mutant of Unsubscribe: the box is reclaimed before the host is told.
UnsubscribeLast(g) ==
    /\ scene.guards[g] # "span"
    /\ phase' = [phase EXCEPT ![g] = IF accepted[g] THEN "stopping" ELSE "stopped"]
    /\ listening' = [listening EXCEPT ![g] = FALSE]
    /\ ends' = [ends EXCEPT ![g] = IF accepted[g] THEN @ + 1 ELSE @]
    /\ box' = [box EXCEPT ![g] = "freed"]
    /\ UNCHANGED <<owner, accepted, firing>>

\* FfiSubGuard::drop and Subscription::drop, up to the call of the host's
\* unsubscribe or cancel_stream, which an id of 0 spares.
Unsubscribe(g) ==
    /\ scene.guards[g] # "span"
    /\ phase' = [phase EXCEPT ![g] = IF accepted[g] THEN "stopping" ELSE "stopped"]
    /\ listening' = [listening EXCEPT ![g] = FALSE]
    /\ ends' = [ends EXCEPT ![g] = IF accepted[g] THEN @ + 1 ELSE @]
    /\ UNCHANGED <<owner, accepted, box, firing>>

\* A call drops a guard of its own, when it wants to or as its frame unwinds.
DropGuard(t, g) ==
    /\ Inside(t) \/ Leaving(t)
    /\ owner[g] = t /\ phase[g] = "held"
    /\ EndSpan(g) \/ Unsubscribe(g)
    /\ UNCHANGED <<calls, stream>>

\* The host's unsubscribe returns when no callback is under way.
UnsubscribeReturns(g) ==
    /\ phase[g] = "stopping" /\ ~firing[g]
    /\ phase' = [phase EXCEPT ![g] = "stopped"]
    /\ UNCHANGED <<calls, owner, accepted, box, listening, firing, ends, stream>>

\* The rest of the drop: the box is reclaimed.
FreeBox(g) ==
    /\ phase[g] = "stopped"
    /\ phase' = [phase EXCEPT ![g] = "ended"] /\ owner' = [owner EXCEPT ![g] = Nobody]
    /\ box' = [box EXCEPT ![g] = "freed"]
    /\ UNCHANGED <<calls, accepted, listening, firing, ends, stream>>

\* The host calls the trampoline.
Fire(g) ==
    /\ listening[g] /\ ~firing[g]
    /\ firing' = [firing EXCEPT ![g] = TRUE]
    /\ UNCHANGED <<calls, phase, owner, accepted, box, listening, ends, stream>>

\* Mutant of CallbackEnds: the callback waits for a lock the drop holds.
CallbackEndsBlocked(g) ==
    /\ firing[g]
    /\ firing' = [firing EXCEPT ![g] = phase[g] = "stopping"]
    /\ UNCHANGED <<calls, phase, owner, accepted, box, listening, ends, stream>>

\* The trampoline returns: the callback did, or panicked and was caught, or the
\* event was empty or did not decode.
CallbackEnds(g) ==
    /\ firing[g]
    /\ firing' = [firing EXCEPT ![g] = FALSE]
    /\ UNCHANGED <<calls, phase, owner, accepted, box, listening, ends, stream>>

-----------------------------------------------------------------------------
Call(t) ==
    \/ Make(t) \/ Drop(t) \/ Finish(t) \/ Read(t)
    \/ \E s \in scene.slots, args \in {"good", "bad"}, x \in StreamIds \cup {NoStream} :
            Enter(t, s, args, x)
    \/ \E svc \in scene.services : Ask(t, svc)
    \/ \E o \in {"ok", "blank", "null", "streaming", "err", "panic"} : Return(t, o)

Guarded(g) ==
    \/ \E t \in Threads : Acquire(t, g) \/ Keep(t, g) \/ Take(t, g) \/ DropGuard(t, g)
    \/ UnsubscribeReturns(g) \/ FreeBox(g) \/ Fire(g) \/ CallbackEnds(g)

Streaming(x) == EmitBegins(x) \/ EmitEnds(x) \/ StreamEnds(x)

\* An instance that is gone, or was never made.
Terminated ==
    /\ inst \in {"gone", "null"} /\ \A t \in Threads : frame[t].stage = "idle"
    /\ UNCHANGED vars

Next ==
    \/ \E t \in Threads : Call(t)
    \/ \E g \in Guards : Guarded(g)
    \/ \E x \in StreamIds : Streaming(x)
    \/ Terminated

Spec == Init /\ [][Next]_vars

\* A call that is on its way out goes on, and callbacks return ("MUST NOT
\* block").  The entity need not return, nor the host call.
Unwinds(t) == \E g \in Guards : Leaving(t) /\ DropGuard(t, g)
Fairness ==
    /\ \A t \in Threads : WF_vars(Unwinds(t)) /\ WF_vars(Finish(t))
    /\ \A g \in Guards : WF_vars(UnsubscribeReturns(g)) /\ WF_vars(FreeBox(g))
                            /\ WF_vars(CallbackEnds(g))

FairSpec == Spec /\ Fairness

-----------------------------------------------------------------------------
Ended == {"gone", "null"}

\* Nothing is used after it is freed: a callback runs on a live box and before
\* the instance is gone, no emission reaches a freed sink, and the host is asked
\* to unsubscribe only while its bridge lives, which it frees after
\* drop_instance (src/host_handle.rs:720-723, src/cluster.rs:415-418).
NoUseAfterFree ==
    /\ \A g \in Guards :
        /\ firing[g] => box[g] = "live" /\ inst \notin Ended
        /\ phase[g] \in {"held", "stopping"} => inst \notin Ended
    /\ \A x \in StreamIds : stream[x].emitting => stream[x].sink = "live"

\* Once drop_instance has returned, or make has failed, nothing of the instance
\* is left: no box, no subscription, no open span, no stream; the host was told
\* once of the end of each guard it knew, and each token went back as it came.
NothingLeft ==
    inst \in Ended =>
        /\ \A g \in Guards :
            /\ phase[g] \in {"unused", "ended"} /\ box[g] # "live" /\ ~listening[g]
            /\ ends[g] = IF phase[g] = "ended" /\ (accepted[g] \/ scene.guards[g] = "span")
                         THEN 1 ELSE 0
        /\ \A x \in StreamIds :
            /\ stream[x].phase \in {"unused", "closed"} /\ ~stream[x].running
            /\ stream[x].back \in {"none", stream[x].given}
            /\ stream[x].given = "token" => stream[x].back = "token"

\* A call over the FFI that failed although its caller reads success: bad arguments
\* met a fallback value, or the entity panicked in a slot whose empty answer is a
\* value of its own (schemas, serves_any_namespace, listen_address, the text
\* exposition, kind, name) or is one to ClusterClient.
Concealed(f) ==
    \/ f.answer = "fallback"
    \/ /\ f.outcome = "panic" /\ scene.path = "ffi"
       /\ f.slot.panics = "blank" \/ f.slot.name \in Confirmed \cup Snapshots

\* One that succeeded although its caller reads failure: a stream other than
\* execute_streaming's without a handle, a streaming body nobody drains, and an
\* envelope ClusterClient takes for an error.
Denied(f) ==
    \/ f.outcome = "null" /\ f.slot.name \notin TryLeases \cup {"execute_streaming"}
    \/ f.outcome = "streaming" /\ Undrained(f)
    \/ f.answer = "success" /\ f.slot.name \in Confirmed

\* A caller reads success only if the entity ran and succeeded, and failure only
\* if it did not, whatever was sent, whoever panicked and however it was encoded,
\* but for the calls that are Concealed and Denied; the entity reads the host's
\* services without exception.
ReadsAgree ==
    \A t \in Threads :
        LET f == frame[t]
            did == f.outcome \in {"ok", "blank", "null", "streaming"}
        IN  /\ f.stage = "answered" =>
                /\ Reading(f) = "success" => did \/ Concealed(f)
                /\ Reading(f) = "failure" => ~did \/ Denied(f)
            /\ f.read = "ok" => f.asked = "ok"
            /\ f.read = "err" => f.asked # "ok"

\* drop_instance returns, whatever callbacks are running when it begins.
DropReturns == (inst = "dropping") ~> (inst = "gone")

=============================================================================
