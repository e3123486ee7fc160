--------------------------- MODULE InstanceProofs ---------------------------
(***************************************************************************)
(* What an instance uses and what it leaves behind, for any threads, guards, *)
(* streams and slots.                                                        *)
(***************************************************************************)
EXTENDS PluginInstance, TLAPS

Outcome == {"none", "ok", "blank", "null", "streaming", "err", "panic"}

SceneSlots == UNION {sc.slots : sc \in Scenes}
Called == SceneSlots \cup {MakeCall, DropCall}

Frames == [stage : {"idle", "entity", "leaving", "answered"}, slot : Called,
           args : {"good", "bad", "absent"}, outcome : Outcome,
           asked : {"no", "unasked", "ok", "err", "garbled"},
           read : {"nothing", "ok", "err", "panic"},
           answer : {"none", "success", "sentinel", "null", "failure", "empty", "blank",
                     "unwound", "fallback", "nothing"},
           stream : StreamIds \cup {NoStream}]

Streams == [phase : {"unused", "starting", "open", "closing", "closed"},
            slot : {"none"} \cup {s.name : s \in Called},
            handle : {"none", "success", "sentinel"}, sink : {"none", "live", "freed"},
            running : BOOLEAN, emitting : BOOLEAN,
            given : {"none", "token", "zero"}, back : {"none", "token", "zero"}]

Typed ==
    /\ scene \in Scenes
    /\ inst \in {"none", "making", "made", "dropping", "gone", "null"}
    /\ frame \in [Threads -> Frames]
    /\ phase \in [Guards -> {"unused", "held", "stopping", "stopped", "ended"}]
    /\ owner \in [Guards -> Threads \cup {Nobody, Instance}]
    /\ accepted \in [Guards -> BOOLEAN]
    /\ box \in [Guards -> {"none", "live", "freed"}]
    /\ listening \in [Guards -> BOOLEAN] /\ firing \in [Guards -> BOOLEAN]
    /\ ends \in [Guards -> Nat]
    /\ stream \in [StreamIds -> Streams]

Busy(t) == Inside(t) \/ Leaving(t)
Span(g) == scene.guards[g] = "span"

\* How far a guard is decides what it holds.
GuardOK(g) ==
    /\ phase[g] = "unused" =>
        /\ owner[g] = Nobody /\ box[g] = "none" /\ ~accepted[g] /\ ~listening[g]
        /\ ~firing[g] /\ ends[g] = 0
    /\ phase[g] = "held" =>
        /\ owner[g] # Nobody /\ ends[g] = 0
        /\ IF Span(g) THEN box[g] = "none" /\ ~accepted[g] /\ ~listening[g] /\ ~firing[g]
           ELSE box[g] = "live" /\ listening[g] = accepted[g]
    /\ phase[g] = "stopping" =>
        /\ owner[g] \in Threads /\ accepted[g] /\ box[g] = "live" /\ ~listening[g]
        /\ ends[g] = 1 /\ ~Span(g)
    /\ phase[g] = "stopped" =>
        /\ owner[g] \in Threads /\ box[g] = "live" /\ ~listening[g] /\ ~firing[g]
        /\ ends[g] = (IF accepted[g] THEN 1 ELSE 0) /\ ~Span(g)
    /\ phase[g] = "ended" =>
        /\ owner[g] = Nobody /\ box[g] # "live" /\ ~listening[g] /\ ~firing[g]
        /\ ends[g] = IF accepted[g] \/ Span(g) THEN 1 ELSE 0
    /\ firing[g] => accepted[g]
GuardsHold == \A g \in Guards : GuardOK(g)

\* A guard's owner is a call under way, or the instance while it lives.
Owned ==
    \A g \in Guards :
        /\ owner[g] \in Threads => Busy(owner[g])
        /\ owner[g] = Instance => inst \in {"making", "made"} /\ phase[g] = "held"

\* make and drop_instance run alone, and other calls only in between.
Lifecycle ==
    /\ \A t \in Threads :
        /\ frame[t].slot = MakeCall /\ Busy(t) =>
            /\ inst = "making" /\ \A u \in Threads : u # t => ~Busy(u)
            /\ Inside(t) \/ frame[t].outcome # "ok" => \A g \in Guards : owner[g] # Instance
        /\ frame[t].slot = DropCall /\ Busy(t) =>
            /\ Leaving(t) /\ inst = "dropping"
            /\ \A u \in Threads : u # t => ~Busy(u)
        /\ Busy(t) /\ frame[t].slot \notin {MakeCall, DropCall} =>
            inst = "made" /\ frame[t].slot \in scene.slots
        /\ frame[t].stage = "answered" => frame[t].slot \in scene.slots \cup {MakeCall, DropCall}
    /\ inst \in {"none", "null", "gone"} => \A t \in Threads : ~Busy(t)

Starting(t, x) ==
    frame[t].stage # "idle" /\ frame[t].slot.gives = "stream" /\ frame[t].stream = x
Cancelling(t, x) ==
    frame[t].stage # "idle" /\ frame[t].slot.name \in Cancels /\ frame[t].stream = x

Opened == {"success", "sentinel"}

\* A stream by itself ...
StreamOK(x) ==
    LET s == stream[x]
    IN  /\ s.phase = "unused" => s = Unused
        /\ s.sink = "live" <=> s.phase \in {"starting", "open", "closing"}
        /\ s.phase = "starting" => s.back = "none"
        /\ s.phase = "open" =>
            /\ scene.path = "ffi" /\ s.back = "none" /\ (s.emitting => s.running)
            /\ \/ s.handle = "success" /\ s.given = "token"
               \/ s.handle = "sentinel" /\ s.given = "zero"
        /\ s.phase = "closing" =>
            s.back = s.given /\ s.given # "none" /\ (s.emitting => s.running)
        /\ s.phase = "closed" =>
            /\ ~s.running /\ ~s.emitting /\ s.back \in {"none", s.given}
            /\ s.given = "token" => s.back = "token"

\* ... the call that starts it ...
StartOK(t, x) ==
    LET s == stream[x]
        f == frame[t]
    IN  Starting(t, x) =>
        /\ s.phase = "starting" /\ f.slot.name \notin Cancels
        /\ Busy(t) => scene.path = "ffi"
        /\ Inside(t) => ~s.running /\ s.given = "none"
        /\ ~Inside(t) => (s.emitting => s.running)
        /\ Leaving(t) =>
            /\ s.running => f.outcome = "ok"
            /\ f.outcome = "ok" => s.given = "token"
            /\ f.outcome = "null" => s.given = "zero"
            /\ f.outcome \notin {"ok", "null"} => s.given = "none"
            /\ f.outcome \notin {"none", "streaming"}
        /\ f.stage = "answered" =>
            /\ f.answer \in Opened => scene.path = "ffi"
            /\ f.answer = "success" => s.given = "token"
            /\ f.answer = "sentinel" => s.given = "zero"
            /\ f.answer \notin Opened => ~s.running /\ s.given # "token"

\* ... and the one that cancels it.
CancelOK(t, x) ==
    Cancelling(t, x) =>
        /\ stream[x].phase = "closing"
        /\ ~Inside(t) => ~stream[x].running /\ ~stream[x].emitting

Streamed ==
    /\ \A x \in StreamIds : StreamOK(x)
    /\ \A t \in Threads, x \in StreamIds : StartOK(t, x) /\ CancelOK(t, x)
    /\ \A t, u \in Threads, x \in StreamIds :
        /\ Starting(t, x) \/ Cancelling(t, x)
        /\ Starting(u, x) \/ Cancelling(u, x)
        => t = u
    /\ \A t \in Threads : frame[t].stage # "idle" /\ frame[t].slot.gives = "stream" =>
                            frame[t].stream \in StreamIds
    /\ \A t \in Threads : frame[t].stage # "idle" /\ frame[t].slot.name \in Cancels =>
                            frame[t].stream \in StreamIds
    /\ inst # "made" => \A x \in StreamIds : stream[x].phase \in {"unused", "closed"}

IInv == Typed /\ GuardsHold /\ Owned /\ Lifecycle /\ Streamed

-----------------------------------------------------------------------------
(* Facts about the constant calls. *)

LEMMA ConstantCalls ==
    /\ MakeCall \in Called /\ DropCall \in Called /\ MakeCall # DropCall
    /\ MakeCall.gives = "handle" /\ DropCall.gives = "unit"
    /\ MakeCall.name \notin Cancels /\ DropCall.name \notin Cancels
    /\ Idle \in Frames /\ Idle.stage = "idle" /\ Idle.slot = DropCall
    /\ Unused \in Streams
  <1>1. MakeCall \in Called /\ DropCall \in Called
    BY DEF Called
  <1>2. MakeCall.name = "make" /\ DropCall.name = "drop_instance"
    BY DEF MakeCall, DropCall, Slot
  <1>3. MakeCall.gives = "handle" /\ DropCall.gives = "unit"
    BY DEF MakeCall, DropCall, Slot
  <1>4. Idle \in Frames /\ Idle.stage = "idle" /\ Idle.slot = DropCall
    BY <1>1 DEF Idle, Frames, Outcome
  <1>5. Unused \in Streams
    BY DEF Unused, Streams
  <1>6. MakeCall.name \notin Cancels /\ DropCall.name \notin Cancels
    BY <1>2 DEF Cancels
  <1> QED
    BY <1>1, <1>2, <1>3, <1>4, <1>5, <1>6

LEMMA Initially == Init => IInv
  <1> SUFFICES ASSUME Init PROVE IInv
    OBVIOUS
  <1>1. Typed
    BY ConstantCalls DEF Init, Typed
  <1>2. \A t \in Threads : frame[t].stage = "idle"
    BY ConstantCalls DEF Init
  <1>3. GuardsHold
    BY InstanceAssumption DEF Init, GuardsHold, GuardOK
  <1>4. Owned
    BY InstanceAssumption DEF Init, Owned
  <1>5. Lifecycle
    BY <1>2 DEF Lifecycle, Busy, Inside, Leaving
  <1>6. Streamed
    <2>1. \A x \in StreamIds : StreamOK(x)
      BY DEF Init, StreamOK, Unused
    <2>2. \A x \in StreamIds : stream[x].phase = "unused"
      BY DEF Init, Unused
    <2> QED
      BY <1>2, <2>1, <2>2 DEF Streamed, StartOK, CancelOK, Starting, Cancelling
  <1> QED
    BY <1>1, <1>3, <1>4, <1>5, <1>6 DEF IInv

-----------------------------------------------------------------------------
(* Steps that touch guards only. *)

\* What these steps do not touch stays as it is.
LEMMA CallsKept ==
    ASSUME IInv, UNCHANGED <<calls, stream>>
    PROVE  /\ Streamed'
           /\ \A t \in Threads : /\ Busy(t)' <=> Busy(t)
                                 /\ Inside(t)' <=> Inside(t)
                                 /\ Leaving(t)' <=> Leaving(t)
           /\ \A g \in Guards : Span(g)' <=> Span(g)
           /\ frame' = frame /\ inst' = inst /\ scene' = scene /\ stream' = stream
  <1>1. frame' = frame /\ inst' = inst /\ scene' = scene /\ stream' = stream
    BY DEF calls
  <1>2. Streamed'
    BY <1>1 DEF IInv, Streamed, StreamOK, StartOK, CancelOK, Starting, Cancelling,
                Busy, Inside, Leaving
  <1> QED
    BY <1>1, <1>2 DEF Busy, Inside, Leaving, Span

\* It is enough to look at the guard concerned, and at who owns it.
LEMMA GuardSteps ==
    ASSUME IInv, UNCHANGED <<calls, stream>>, Typed', NEW g \in Guards,
           GuardOK(g)',
           \A h \in Guards \ {g} : GuardOK(h)' /\ owner'[h] = owner[h] /\ phase'[h] = phase[h],
           owner'[g] \in Threads => Busy(owner'[g]),
           owner'[g] = Instance => phase'[g] = "held",
           owner'[g] = Instance => \/ owner[g] = Instance
                                   \/ inst = "made"
                                   \/ /\ inst = "making"
                                      /\ \A t \in Threads : ~Inside(t)
                                      /\ \A t \in Threads : Busy(t) => frame[t].outcome = "ok"
    PROVE  IInv'
  <1>1. GuardsHold'
    BY DEF GuardsHold
  <1>2. Owned'
    BY CallsKept DEF IInv, Owned
  <1>3. Lifecycle'
    <2>1. ASSUME NEW t \in Threads, frame[t].slot = MakeCall, Busy(t),
                 Inside(t) \/ frame[t].outcome # "ok"
          PROVE  \A h \in Guards : owner'[h] # Instance
      <3>1. inst = "making" /\ \A h \in Guards : owner[h] # Instance
        BY <2>1 DEF IInv, Lifecycle
      <3> QED
        BY <2>1, <3>1
    <2>2. /\ frame' = frame /\ inst' = inst /\ scene' = scene
          /\ \A t \in Threads : /\ Busy(t)' <=> Busy(t)
                                /\ Inside(t)' <=> Inside(t)
                                /\ Leaving(t)' <=> Leaving(t)
      BY CallsKept
    <2>3. Lifecycle
      BY DEF IInv
    <2> QED
      BY <2>1, <2>2, <2>3 DEF Lifecycle
  <1> QED
    BY <1>1, <1>2, <1>3, CallsKept DEF IInv

\* A guard none of whose fields change.
Same(h) ==
    /\ phase'[h] = phase[h] /\ owner'[h] = owner[h] /\ accepted'[h] = accepted[h]
    /\ box'[h] = box[h] /\ listening'[h] = listening[h] /\ firing'[h] = firing[h]
    /\ ends'[h] = ends[h]

LEMMA SameGuard ==
    ASSUME IInv, UNCHANGED <<calls, stream>>, NEW h \in Guards, Same(h)
    PROVE  GuardOK(h)' /\ owner'[h] = owner[h] /\ phase'[h] = phase[h]
  <1>1. Span(h)' <=> Span(h)
    BY CallsKept
  <1>2. GuardOK(h)
    BY DEF IInv, GuardsHold
  <1> QED
    BY <1>1, <1>2 DEF GuardOK, Same

LEMMA AcquireKeeps ==
    ASSUME IInv, NEW t \in Threads, NEW g \in Guards, Acquire(t, g)
    PROVE  IInv'
  <1>1. Typed /\ GuardOK(g) /\ UNCHANGED <<calls, stream>> /\ Inside(t) /\ phase[g] = "unused"
    BY DEF IInv, GuardsHold, Acquire
  <1>2. scene' = scene /\ (Span(g)' <=> Span(g)) /\ (Busy(t)' <=> Busy(t)) /\ Busy(t)
    BY <1>1, CallsKept DEF Busy
  <1>3. /\ owner[g] = Nobody /\ box[g] = "none" /\ ~accepted[g] /\ ~listening[g]
        /\ ~firing[g] /\ ends[g] = 0
    BY <1>1 DEF GuardOK
  <1>4. t # Nobody /\ t # Instance /\ Nobody # Instance /\ Nobody \notin Threads
    BY InstanceAssumption
  <1>5. Typed' /\ \A h \in Guards \ {g} : Same(h)
    <2>1. CASE Refused(g)
      BY <1>1, <2>1 DEF Typed, Refused, Same, calls
    <2>2. CASE Subscribed(t, g)
      BY <1>1, <2>2 DEF Typed, Subscribed, Same, calls
    <2>3. CASE SpanStarted(t, g)
      BY <1>1, <2>3 DEF Typed, SpanStarted, Same, calls
    <2> QED
      BY <2>1, <2>2, <2>3 DEF Acquire
  <1>6. GuardOK(g)' /\ owner'[g] \in {Nobody, t}
    <2>1. CASE Refused(g)
      <3>1. phase'[g] = "ended" /\ box'[g] = "freed" /\ owner' = owner /\ accepted' = accepted
            /\ listening' = listening /\ firing' = firing /\ ends' = ends /\ ~Span(g)
        BY <1>1, <2>1 DEF Refused, Typed, Span
      <3> QED
        BY <1>2, <1>3, <3>1 DEF GuardOK
    <2>2. CASE Subscribed(t, g)
      <3>1. phase'[g] = "held" /\ box'[g] = "live" /\ owner'[g] = t
            /\ listening'[g] = accepted'[g] /\ firing' = firing /\ ends' = ends /\ ~Span(g)
        BY <1>1, <2>2 DEF Subscribed, Typed, Span
      <3> QED
        BY <1>2, <1>3, <1>4, <3>1 DEF GuardOK
    <2>3. CASE SpanStarted(t, g)
      <3>1. phase'[g] = "held" /\ box' = box /\ owner'[g] = t /\ accepted' = accepted
            /\ listening' = listening /\ firing' = firing /\ ends' = ends /\ Span(g)
        BY <1>1, <2>3 DEF SpanStarted, Typed, Span
      <3> QED
        BY <1>2, <1>3, <1>4, <3>1 DEF GuardOK
    <2> QED
      BY <2>1, <2>2, <2>3 DEF Acquire
  <1> QED
    BY <1>1, <1>2, <1>4, <1>5, <1>6, SameGuard, GuardSteps

LEMMA KeepKeeps ==
    ASSUME IInv, NEW t \in Threads, NEW g \in Guards, Keep(t, g)
    PROVE  IInv'
  <1>1. Typed /\ GuardOK(g) /\ Lifecycle /\ Owned /\ UNCHANGED <<calls, stream>>
    BY DEF IInv, GuardsHold, Keep, calls
  <1>2. /\ owner[g] = t /\ phase[g] = "held" /\ owner' = [owner EXCEPT ![g] = Instance]
        /\ UNCHANGED <<phase, accepted, box, listening, firing, ends>>
    BY DEF Keep
  <1>3. Typed' /\ owner'[g] = Instance /\ \A h \in Guards \ {g} : Same(h)
    BY <1>1, <1>2 DEF Typed, Same, calls
  <1>4. GuardOK(g)'
    BY <1>1, <1>2, <1>3, CallsKept, InstanceAssumption DEF GuardOK
  <1>5. \/ inst = "made"
        \/ /\ inst = "making"
           /\ \A u \in Threads : ~Inside(u)
           /\ \A u \in Threads : Busy(u) => frame[u].outcome = "ok"
    <2>1. CASE Inside(t) /\ frame[t].slot # MakeCall
      <3>1. Busy(t) /\ frame[t].slot # DropCall
        BY <1>1, <2>1 DEF Lifecycle, Busy, Inside, Leaving
      <3> QED
        BY <1>1, <2>1, <3>1 DEF Lifecycle
    <2>2. CASE Leaving(t) /\ frame[t].slot = MakeCall /\ frame[t].outcome = "ok"
      BY <1>1, <2>2 DEF Lifecycle, Busy, Inside, Leaving
    <2> QED
      BY <2>1, <2>2 DEF Keep
  <1> QED
    BY <1>1, <1>2, <1>3, <1>4, <1>5, InstanceAssumption, SameGuard, GuardSteps

LEMMA TakeKeeps ==
    ASSUME IInv, NEW t \in Threads, NEW g \in Guards, Take(t, g)
    PROVE  IInv'
  <1>1. Typed /\ GuardOK(g) /\ Owned /\ UNCHANGED <<calls, stream>> /\ Busy(t)
    BY DEF IInv, GuardsHold, Take, calls, Busy
  <1>2. /\ owner[g] = Instance /\ owner' = [owner EXCEPT ![g] = t]
        /\ UNCHANGED <<phase, accepted, box, listening, firing, ends>>
    BY DEF Take
  <1>3. Typed' /\ owner'[g] = t /\ \A h \in Guards \ {g} : Same(h)
    BY <1>1, <1>2 DEF Typed, Same, calls
  <1>4. GuardOK(g)'
    BY <1>1, <1>2, <1>3, CallsKept, InstanceAssumption DEF GuardOK, Owned
  <1> QED
    BY <1>1, <1>3, <1>4, InstanceAssumption, SameGuard, GuardSteps

LEMMA DropGuardKeeps ==
    ASSUME IInv, NEW t \in Threads, NEW g \in Guards, DropGuard(t, g)
    PROVE  IInv'
  <1>1. /\ Typed /\ GuardOK(g) /\ UNCHANGED <<calls, stream>> /\ Busy(t)
        /\ owner[g] = t /\ phase[g] = "held"
    BY DEF IInv, GuardsHold, DropGuard, Busy
  <1>2. scene' = scene /\ (Span(g)' <=> Span(g))
    BY <1>1, CallsKept
  <1>3. t # Nobody /\ t # Instance /\ Nobody # Instance /\ Nobody \notin Threads
    BY InstanceAssumption
  <1>4. Typed' /\ \A h \in Guards \ {g} : Same(h)
    <2>1. CASE EndSpan(g)
      BY <1>1, <2>1 DEF Typed, EndSpan, Same, calls
    <2>2. CASE Unsubscribe(g)
      BY <1>1, <2>2 DEF Typed, Unsubscribe, Same, calls
    <2> QED
      BY <2>1, <2>2 DEF DropGuard
  <1>5. GuardOK(g)' /\ owner'[g] \in {Nobody, t}
    <2>1. CASE EndSpan(g)
      <3>1. phase'[g] = "ended" /\ box' = box /\ owner'[g] = Nobody /\ accepted' = accepted
            /\ listening' = listening /\ firing' = firing /\ ends'[g] = ends[g] + 1 /\ Span(g)
        BY <1>1, <2>1 DEF EndSpan, Typed, Span
      <3> QED
        BY <1>1, <1>2, <3>1 DEF GuardOK
    <2>2. CASE Unsubscribe(g)
      <3>1. /\ phase'[g] = IF accepted[g] THEN "stopping" ELSE "stopped"
            /\ ends'[g] = IF accepted[g] THEN ends[g] + 1 ELSE ends[g]
            /\ ~listening'[g] /\ box' = box /\ owner' = owner /\ accepted' = accepted
            /\ firing' = firing /\ ~Span(g)
        BY <1>1, <2>2 DEF Unsubscribe, Typed, Span
      <3> QED
        BY <1>1, <1>2, <3>1 DEF GuardOK
    <2> QED
      BY <2>1, <2>2 DEF DropGuard
  <1> QED
    BY <1>1, <1>3, <1>4, <1>5, SameGuard, GuardSteps

LEMMA UnsubscribeReturnsKeeps ==
    ASSUME IInv, NEW g \in Guards, UnsubscribeReturns(g)
    PROVE  IInv'
  <1>1. Typed /\ GuardOK(g) /\ Owned /\ UNCHANGED <<calls, stream>>
    BY DEF IInv, GuardsHold, UnsubscribeReturns, calls
  <1>2. /\ phase[g] = "stopping" /\ ~firing[g] /\ phase' = [phase EXCEPT ![g] = "stopped"]
        /\ UNCHANGED <<owner, accepted, box, listening, firing, ends>>
    BY DEF UnsubscribeReturns
  <1>3. Typed' /\ phase'[g] = "stopped" /\ \A h \in Guards \ {g} : Same(h)
    BY <1>1, <1>2 DEF Typed, Same, calls
  <1>4. GuardOK(g)'
    BY <1>1, <1>2, <1>3, CallsKept DEF GuardOK
  <1>5. owner[g] \in Threads /\ Busy(owner[g]) /\ Instance \notin Threads
    BY <1>1, <1>2, InstanceAssumption DEF GuardOK, Owned
  <1> QED
    BY <1>1, <1>2, <1>3, <1>4, <1>5, SameGuard, GuardSteps

LEMMA FreeBoxKeeps ==
    ASSUME IInv, NEW g \in Guards, FreeBox(g)
    PROVE  IInv'
  <1>1. Typed /\ GuardOK(g) /\ UNCHANGED <<calls, stream>>
    BY DEF IInv, GuardsHold, FreeBox, calls
  <1>2. /\ phase[g] = "stopped" /\ phase' = [phase EXCEPT ![g] = "ended"]
        /\ owner' = [owner EXCEPT ![g] = Nobody] /\ box' = [box EXCEPT ![g] = "freed"]
        /\ UNCHANGED <<accepted, listening, firing, ends>>
    BY DEF FreeBox
  <1>3. /\ Typed' /\ phase'[g] = "ended" /\ owner'[g] = Nobody /\ box'[g] = "freed"
        /\ \A h \in Guards \ {g} : Same(h)
    BY <1>1, <1>2 DEF Typed, Same, calls
  <1>4. GuardOK(g)'
    BY <1>1, <1>2, <1>3, CallsKept DEF GuardOK
  <1> QED
    BY <1>1, <1>3, <1>4, InstanceAssumption, SameGuard, GuardSteps

LEMMA FireKeeps ==
    ASSUME IInv, NEW g \in Guards, Fire(g) \/ CallbackEnds(g)
    PROVE  IInv'
  <1>1. Typed /\ GuardOK(g) /\ Owned /\ UNCHANGED <<calls, stream>>
    BY DEF IInv, GuardsHold, Fire, CallbackEnds, calls
  <1>2. UNCHANGED <<phase, owner, accepted, box, listening, ends>>
    BY DEF Fire, CallbackEnds
  <1>3. /\ Typed' /\ \A h \in Guards \ {g} : Same(h)
        /\ firing'[g] => firing[g] \/ listening[g]
    BY <1>1, <1>2 DEF Typed, Fire, CallbackEnds, Same, calls
  <1>4. GuardOK(g)'
    <2>1. phase[g] \in {"unused", "held", "stopping", "stopped", "ended"}
      BY <1>1 DEF Typed
    <2> QED
      BY <1>1, <1>2, <1>3, <2>1, CallsKept DEF GuardOK
  <1>5. /\ owner[g] \in Threads => Busy(owner[g])
        /\ owner[g] = Instance => phase[g] = "held"
    BY <1>1 DEF Owned
  <1> QED
    BY <1>1, <1>2, <1>3, <1>4, <1>5, SameGuard, GuardSteps

-----------------------------------------------------------------------------
(* Steps that touch a stream only. *)

\* Steps that leave the guards and their scene alone.
LEMMA GuardsKept ==
    ASSUME IInv, UNCHANGED <<scene, guards>>
    PROVE  GuardsHold'
  BY DEF IInv, GuardsHold, GuardOK, Span, guards

LEMMA EmitKeeps ==
    ASSUME IInv, NEW x \in StreamIds, Streaming(x)
    PROVE  IInv'
  <1>1. Typed /\ Streamed /\ UNCHANGED <<scene, inst, frame, guards>> /\ StreamOK(x)
    BY DEF IInv, Streamed, Streaming, EmitBegins, EmitEnds, StreamEnds, calls
  <1>2. /\ stream' \in [StreamIds -> Streams]
        /\ \A y \in StreamIds \ {x} : stream'[y] = stream[y]
        /\ stream'[x].phase = stream[x].phase /\ stream'[x].slot = stream[x].slot
        /\ stream'[x].handle = stream[x].handle /\ stream'[x].sink = stream[x].sink
        /\ stream'[x].given = stream[x].given /\ stream'[x].back = stream[x].back
    <2>1. stream \in [StreamIds -> Streams]
      BY <1>1 DEF Typed
    <2>2. CASE EmitBegins(x)
      <3>1. stream' = [stream EXCEPT ![x].emitting = TRUE]
        BY <2>2 DEF EmitBegins
      <3> QED
        BY <2>1, <3>1 DEF Streams
    <2>3. CASE EmitEnds(x)
      BY <2>1, <2>3 DEF EmitEnds, Streams
    <2>4. CASE StreamEnds(x)
      BY <2>1, <2>4 DEF StreamEnds, Streams
    <2> QED
      BY <2>2, <2>3, <2>4 DEF Streaming
  <1>3. Typed'
    BY <1>1, <1>2 DEF Typed, guards
  <1>4. /\ GuardsHold'
        /\ Owned'
        /\ Lifecycle'
    BY <1>1, GuardsKept DEF IInv, Owned, Lifecycle, Busy, Inside, Leaving, guards
  <1>5. /\ stream'[x].running => stream[x].running
        /\ stream[x].running /\ ~stream'[x].running => ~stream'[x].emitting
        /\ stream'[x].emitting =>
            \/ stream[x].emitting \/ stream[x].running
            \/ \E t \in Threads : Inside(t) /\ Starting(t, x)
        /\ stream[x].running \/ stream[x].emitting
            \/ \E t \in Threads : Inside(t) /\ Starting(t, x)
    <2>1. stream \in [StreamIds -> Streams]
      BY <1>1 DEF Typed
    <2>2. CASE EmitBegins(x)
      BY <2>1, <2>2 DEF EmitBegins, Streams, Starting, Inside
    <2>3. CASE EmitEnds(x)
      BY <2>1, <2>3 DEF EmitEnds, Streams
    <2>4. CASE StreamEnds(x)
      BY <2>1, <2>4 DEF StreamEnds, Streams
    <2> QED
      BY <2>2, <2>3, <2>4 DEF Streaming
  <1>6. \A t \in Threads, y \in StreamIds :
            /\ Starting(t, y)' <=> Starting(t, y)
            /\ Cancelling(t, y)' <=> Cancelling(t, y)
    BY <1>1 DEF Starting, Cancelling
  <1>7. \A t \in Threads : /\ Inside(t)' <=> Inside(t)
                           /\ Leaving(t)' <=> Leaving(t)
                           /\ Busy(t)' <=> Busy(t)
    BY <1>1 DEF Busy, Inside, Leaving
  <1>8. \A t \in Threads : Starting(t, x) => stream[x].phase = "starting"
    BY <1>1 DEF Streamed, StartOK
  <1>9. \A y \in StreamIds : StreamOK(y)'
    <2>1. ASSUME NEW y \in StreamIds \ {x} PROVE StreamOK(y)'
      BY <1>1, <1>2 DEF Streamed, StreamOK
    <2>2. StreamOK(x)'
      <3>1. stream[x].phase \notin {"unused", "closed"}
        BY <1>1, <1>5, <1>8 DEF StreamOK, Unused
      <3> QED
        BY <1>1, <1>2, <1>5, <1>8, <3>1 DEF StreamOK
    <2> QED
      BY <2>1, <2>2
  <1>10. ASSUME NEW t \in Threads, NEW y \in StreamIds PROVE StartOK(t, y)' /\ CancelOK(t, y)'
    <2>1. CASE y # x
      BY <1>1, <1>2, <1>6, <1>7, <2>1 DEF Streamed, StartOK, CancelOK
    <2>2. CASE y = x
      <3>1. StartOK(t, x) /\ CancelOK(t, x)
        BY <1>1 DEF Streamed
      <3>2. Starting(t, x) \/ Cancelling(t, x) =>
              \A u \in Threads : Starting(u, x) => u = t
        BY <1>1 DEF Streamed
      <3>3. StartOK(t, x)'
        BY <1>1, <1>2, <1>5, <1>6, <1>7, <3>1, <3>2 DEF StartOK
      <3>4. CancelOK(t, x)'
        BY <1>1, <1>2, <1>5, <1>6, <1>7, <1>8, <3>1 DEF CancelOK
      <3> QED
        BY <2>2, <3>3, <3>4
    <2> QED
      BY <2>1, <2>2
  <1>11. Streamed'
    BY <1>1, <1>2, <1>6, <1>9, <1>10 DEF Streamed
  <1> QED
    BY <1>3, <1>4, <1>11 DEF IInv

-----------------------------------------------------------------------------
(* Calls. *)

LEMMA AskKeeps ==
    ASSUME IInv, NEW t \in Threads, NEW svc \in scene.services, Ask(t, svc)
    PROVE  IInv'
  <1>1. Typed /\ scene \in Scenes /\ SceneOK(scene) /\ frame \in [Threads -> Frames]
    BY ScenesAssumption DEF IInv, Typed
  <1>2. UNCHANGED <<scene, inst, guards, stream>>
    BY DEF Ask
  <1>3. PICK asked \in {"no", "unasked", "ok", "err", "garbled"},
             read \in {"nothing", "ok", "err", "panic"} :
                frame' = [frame EXCEPT ![t].asked = asked, ![t].read = read]
    <2>1. PICK response \in {"ok", "err", "garbled"} :
            /\ scene.path = "ffi" \/ response # "garbled"
            /\ frame' = [frame EXCEPT
                    ![t].asked = IF scene.path = "static" /\ scene.runtime # "other"
                                 THEN "unasked" ELSE response,
                    ![t].read = ServiceRead(svc, response)]
      BY DEF Ask
    <2>2. ServiceRead(svc, response) \in {"nothing", "ok", "err", "panic"}
      <3>1. scene.path \in {"ffi", "static"} /\ scene.runtime \in {"none", "worker", "other"}
        BY <1>1 DEF SceneOK
      <3> QED
        BY <2>1, <3>1 DEF ServiceRead
    <2> QED
      BY <2>1, <2>2
  <1>4. /\ frame' \in [Threads -> Frames]
        /\ \A u \in Threads :
            /\ frame'[u].stage = frame[u].stage /\ frame'[u].slot = frame[u].slot
            /\ frame'[u].outcome = frame[u].outcome /\ frame'[u].answer = frame[u].answer
            /\ frame'[u].stream = frame[u].stream
    <2>1. /\ \A u \in Threads \ {t} : frame'[u] = frame[u]
          /\ frame'[t] = [frame[t] EXCEPT !.asked = asked, !.read = read]
          /\ frame' = [frame EXCEPT ![t] = frame'[t]]
      BY <1>1, <1>3
    <2>2. frame[t] \in Frames
      BY <1>1
    <2>3. /\ frame'[t] \in Frames
          /\ frame'[t].stage = frame[t].stage /\ frame'[t].slot = frame[t].slot
          /\ frame'[t].outcome = frame[t].outcome /\ frame'[t].answer = frame[t].answer
          /\ frame'[t].stream = frame[t].stream
      BY <2>1, <2>2 DEF Frames
    <2> QED
      BY <1>1, <2>1, <2>3
  <1>5. Typed'
    BY <1>1, <1>2, <1>4 DEF Typed, guards
  <1>6. \A u \in Threads : /\ Inside(u)' <=> Inside(u)
                           /\ Leaving(u)' <=> Leaving(u)
                           /\ Busy(u)' <=> Busy(u)
    BY <1>4 DEF Busy, Inside, Leaving
  <1>7. \A u \in Threads, x \in StreamIds :
            /\ Starting(u, x)' <=> Starting(u, x)
            /\ Cancelling(u, x)' <=> Cancelling(u, x)
    BY <1>4 DEF Starting, Cancelling
  <1>8. Owned'
    BY <1>2, <1>6 DEF IInv, Owned, guards, Typed
  <1>9. Lifecycle'
    BY <1>2, <1>4, <1>6 DEF IInv, Lifecycle, guards
  <1>10. Streamed'
    <2>1. \A x \in StreamIds : StreamOK(x)'
      BY <1>2 DEF IInv, Streamed, StreamOK
    <2>2. \A u \in Threads, x \in StreamIds : StartOK(u, x)' /\ CancelOK(u, x)'
      BY <1>2, <1>4, <1>6, <1>7 DEF IInv, Streamed, StartOK, CancelOK
    <2> QED
      BY <1>2, <1>4, <1>7, <2>1, <2>2 DEF IInv, Streamed
  <1> QED
    BY <1>2, <1>5, <1>8, <1>9, <1>10, GuardsKept DEF IInv

\* A call about no stream, or about the stream z, which no other call is about.
Alone(t, z) == \A u \in Threads \ {t} : ~Starting(u, z) /\ ~Cancelling(u, z)

LEMMA StreamSteps ==
    ASSUME IInv, NEW t \in Threads, NEW z, scene' = scene,
           \A u \in Threads \ {t} : frame'[u] = frame[u],
           \A x \in StreamIds \ {z} : stream'[x] = stream[x],
           frame'[t].stage # "idle" => frame'[t].stream = z,
           z \in StreamIds =>
            /\ StreamOK(z)' /\ StartOK(t, z)' /\ CancelOK(t, z)'
            /\ stream'[z] = stream[z] \/ Alone(t, z)
            /\ Starting(t, z)' \/ Cancelling(t, z)' => Alone(t, z),
           frame'[t].stage # "idle" /\ (\/ frame'[t].slot.gives = "stream"
                                        \/ frame'[t].slot.name \in Cancels)
              => z \in StreamIds,
           inst' # "made" => \A x \in StreamIds : stream'[x].phase \in {"unused", "closed"}
    PROVE  Streamed'
  <1>1. Streamed
    BY DEF IInv
  <1>2. \A u \in Threads \ {t}, x \in StreamIds :
            /\ Starting(u, x)' <=> Starting(u, x)
            /\ Cancelling(u, x)' <=> Cancelling(u, x)
    BY DEF Starting, Cancelling
  <1>3. \A x \in StreamIds \ {z} : ~Starting(t, x)' /\ ~Cancelling(t, x)'
    BY DEF Starting, Cancelling
  <1>4. \A x \in StreamIds : StreamOK(x)'
    BY <1>1 DEF Streamed, StreamOK
  <1>5. ASSUME NEW u \in Threads, NEW x \in StreamIds PROVE StartOK(u, x)' /\ CancelOK(u, x)'
    <2>1. CASE u = t /\ x = z
      BY <2>1
    <2>2. CASE u = t /\ x # z
      BY <1>3, <2>2 DEF StartOK, CancelOK
    <2>3. CASE u # t
      <3>1. StartOK(u, x) /\ CancelOK(u, x) /\ frame'[u] = frame[u]
        BY <1>1, <2>3 DEF Streamed
      <3>2. stream'[x] = stream[x] \/ (~Starting(u, x) /\ ~Cancelling(u, x))
        BY <2>3 DEF Alone
      <3> QED
        BY <1>2, <2>3, <3>1, <3>2 DEF StartOK, CancelOK, Busy, Inside, Leaving
    <2> QED
      BY <2>1, <2>2, <2>3
  <1>6. ASSUME NEW u \in Threads, NEW v \in Threads, NEW x \in StreamIds,
               Starting(u, x)' \/ Cancelling(u, x)', Starting(v, x)' \/ Cancelling(v, x)'
        PROVE  u = v
    BY <1>1, <1>2, <1>3, <1>6 DEF Streamed, Alone
  <1>7. \A u \in Threads : frame'[u].stage # "idle" /\ (\/ frame'[u].slot.gives = "stream"
                                                       \/ frame'[u].slot.name \in Cancels)
                            => frame'[u].stream \in StreamIds
    BY <1>1 DEF Streamed
  <1> QED
    BY <1>4, <1>5, <1>6, <1>7 DEF Streamed

LEMMA MakeKeeps ==
    ASSUME IInv, NEW t \in Threads, Make(t)
    PROVE  IInv'
  <1>1. /\ Typed /\ Owned /\ Lifecycle /\ Streamed /\ inst = "none" /\ inst' = "making"
        /\ UNCHANGED <<scene, guards, stream>> /\ frame \in [Threads -> Frames]
    BY DEF IInv, Typed, Make
  <1>2. PICK config \in {"good", "bad", "absent"} :
            frame' = [frame EXCEPT ![t] = [Idle EXCEPT !.slot = MakeCall, !.args = config,
                                                       !.stage = "entity"]]
    BY DEF Make
  <1>3. /\ frame' \in [Threads -> Frames] /\ \A u \in Threads \ {t} : frame'[u] = frame[u]
        /\ frame'[t].stage = "entity" /\ frame'[t].slot = MakeCall
        /\ frame'[t].stream = NoStream
    <2>1. Idle \in Frames /\ MakeCall \in Called /\ Idle.stream = NoStream
      BY ConstantCalls DEF Idle
    <2> QED
      BY <1>1, <1>2, <2>1 DEF Frames
  <1>4. Typed'
    BY <1>1, <1>3 DEF Typed, guards
  <1>5. \A u \in Threads : ~Busy(u) /\ (u # t => ~Busy(u)')
    BY <1>1, <1>3 DEF Lifecycle, Busy, Inside, Leaving
  <1>6. \A g \in Guards : owner'[g] \notin Threads /\ owner'[g] # Instance
    BY <1>1, <1>5 DEF Owned, guards
  <1>7. Owned'
    BY <1>6 DEF Owned
  <1>8. Lifecycle'
    BY <1>1, <1>3, <1>5, <1>6, ConstantCalls DEF Lifecycle, Busy, Inside, Leaving
  <1>9. Streamed'
    <2>1. NoStream \notin StreamIds
      BY InstanceAssumption
    <2> QED
      BY <1>1, <1>3, <2>1, ConstantCalls, StreamSteps DEF Streamed
  <1> QED
    BY <1>1, <1>4, <1>7, <1>8, <1>9, GuardsKept DEF IInv

LEMMA DropKeeps ==
    ASSUME IInv, NEW t \in Threads, Drop(t)
    PROVE  IInv'
  <1>1. /\ Typed /\ GuardsHold /\ Owned /\ Lifecycle /\ Streamed
        /\ inst = "made" /\ inst' = "dropping" /\ frame \in [Threads -> Frames]
        /\ UNCHANGED <<scene, phase, accepted, box, listening, firing, ends, stream>>
        /\ \A u \in Threads : frame[u].stage = "idle"
        /\ \A x \in StreamIds : stream[x].phase \in {"unused", "closed"}
        /\ owner' = [g \in Guards |-> IF owner[g] = Instance THEN t ELSE owner[g]]
        /\ frame' = [frame EXCEPT ![t] = [Idle EXCEPT !.stage = "leaving", !.outcome = "ok"]]
    BY DEF IInv, Typed, Drop
  <1>2. /\ frame' \in [Threads -> Frames] /\ \A u \in Threads \ {t} : frame'[u] = frame[u]
        /\ frame'[t].stage = "leaving" /\ frame'[t].slot = DropCall
        /\ frame'[t].stream = NoStream
    <2>1. Idle \in Frames /\ Idle.slot = DropCall /\ Idle.stream = NoStream
      BY ConstantCalls DEF Idle
    <2> QED
      BY <1>1, <2>1 DEF Frames, Outcome
  <1>3. Typed'
    BY <1>1, <1>2 DEF Typed
  <1>4. \A u \in Threads : ~Busy(u) /\ (u # t => ~Busy(u)')
    BY <1>1, <1>2 DEF Busy, Inside, Leaving
  <1>5. Busy(t)' /\ Leaving(t)' /\ \A g \in Guards : owner'[g] \in {t, Nobody}
    BY <1>1, <1>2, <1>4 DEF Owned, Typed, Busy, Leaving
  <1>6. GuardsHold'
    <2>1. ASSUME NEW g \in Guards PROVE GuardOK(g)'
      <3>1. GuardOK(g) /\ (Span(g)' <=> Span(g)) /\ t # Nobody
        BY <1>1, InstanceAssumption DEF GuardsHold, Span
      <3>2. owner[g] = Instance => phase[g] = "held"
        BY <1>1 DEF Owned
      <3>3. owner'[g] = IF owner[g] = Instance THEN t ELSE owner[g]
        BY <1>1
      <3> QED
        BY <1>1, <3>1, <3>2, <3>3 DEF GuardOK
    <2> QED
      BY <2>1 DEF GuardsHold
  <1>7. Owned'
    BY <1>5, InstanceAssumption DEF Owned
  <1>8. Lifecycle'
    BY <1>1, <1>2, <1>4, <1>5, ConstantCalls DEF Lifecycle
  <1>9. Streamed'
    <2>1. NoStream \notin StreamIds
      BY InstanceAssumption
    <2> QED
      BY <1>1, <1>2, <2>1, ConstantCalls, StreamSteps
  <1> QED
    BY <1>3, <1>6, <1>7, <1>8, <1>9 DEF IInv

\* A call that enters has an idle thread, and a stream no call is about.
LEMMA EnterKeeps ==
    ASSUME IInv, NEW t \in Threads, NEW s \in scene.slots, NEW args \in {"good", "bad"},
           NEW x \in StreamIds \cup {NoStream}, Enter(t, s, args, x)
    PROVE  IInv'
  <1>1. /\ Typed /\ Owned /\ Lifecycle /\ Streamed /\ SceneOK(scene)
        /\ frame \in [Threads -> Frames] /\ stream \in [StreamIds -> Streams]
        /\ NoStream \notin StreamIds /\ s \in Called
    BY ScenesAssumption, InstanceAssumption DEF IInv, Typed, Called, SceneSlots
  <1>2. /\ inst = "made" /\ frame[t].stage = "idle" /\ Suits(s, x)
        /\ args = "bad" => s.bad # "none" /\ scene.path = "ffi"
        /\ stream' = Handed(s, x)
        /\ UNCHANGED <<scene, inst, guards>>
    BY DEF Enter
  <1>3. /\ SlotOK(s) /\ s \notin {MakeCall, DropCall}
        /\ s.name \in Cancels => s.gives # "stream" /\ s.bad = "none"
        /\ scene.path = "static" /\ s.gives = "stream" => s.name \notin Adapters[scene.kind]
        /\ scene.path \in {"ffi", "static"}
    BY <1>1 DEF SceneOK
  <1>4. ~Runs(s, args) => Unreached(s) \in {"failure", "nothing", "fallback"}
    BY <1>2, <1>3 DEF Runs, Unreached, SlotOK
  <1>5. /\ frame' \in [Threads -> Frames] /\ \A u \in Threads \ {t} : frame'[u] = frame[u]
        /\ frame'[t].stage = IF Runs(s, args) THEN "entity" ELSE "answered"
        /\ frame'[t].answer = IF Runs(s, args) THEN "none" ELSE Unreached(s)
        /\ frame'[t].slot = s /\ frame'[t].stream = x /\ frame'[t].outcome = "none"
    <2>1. Idle \in Frames /\ Idle.outcome = "none"
      BY ConstantCalls DEF Idle
    <2>2. PICK st \in {"entity", "answered"}, an \in {"none", "failure", "nothing", "fallback"} :
            /\ st = IF Runs(s, args) THEN "entity" ELSE "answered"
            /\ an = IF Runs(s, args) THEN "none" ELSE Unreached(s)
      BY <1>4
    <2>3. frame' = [frame EXCEPT ![t] = [Idle EXCEPT !.slot = s, !.args = args, !.stream = x,
                                                      !.stage = st, !.answer = an]]
      BY <2>2 DEF Enter
    <2> QED
      BY <1>1, <2>1, <2>2, <2>3 DEF Frames
  <1>6. \A u \in Threads : u # t => /\ Inside(u)' <=> Inside(u)
                                    /\ Leaving(u)' <=> Leaving(u)
                                    /\ Busy(u)' <=> Busy(u)
    BY <1>5 DEF Busy, Inside, Leaving
  <1>7. ~Busy(t) /\ ~Leaving(t)' /\ (Inside(t)' <=> Runs(s, args)) /\ (Busy(t)' <=> Inside(t)')
    BY <1>2, <1>5 DEF Busy, Inside, Leaving
  <1>8. Owned'
    BY <1>1, <1>2, <1>6, <1>7 DEF Owned, guards
  <1>9. Lifecycle'
    <2>1. \A u \in Threads : ~(Busy(u) /\ frame[u].slot \in {MakeCall, DropCall})
      BY <1>1, <1>2 DEF Lifecycle
    <2> QED
      BY <1>1, <1>2, <1>3, <1>5, <1>6, <1>7, <2>1 DEF Lifecycle
  <1>10. /\ s.gives = "stream" \/ s.name \in Cancels => x \in StreamIds
         /\ s.gives = "stream" => stream[x].phase = "unused"
         /\ s.name \in Cancels => stream[x].phase = "open"
    BY <1>2, <1>3 DEF Suits
  <1>11. /\ stream' \in [StreamIds -> Streams]
         /\ \A y \in StreamIds \ {x} : stream'[y] = stream[y]
         /\ s.gives # "stream" /\ s.name \notin Cancels => stream' = stream
         /\ s.gives = "stream" => stream'[x] = [stream[x] EXCEPT !.phase = "starting",
                                                !.slot = s.name, !.sink = "live"]
         /\ s.name \in Cancels => stream'[x] = [stream[x] EXCEPT !.phase = "closing",
                                                !.back = Token(x)]
    <2>1. CASE s.gives = "stream"
      <3>1. stream' = [stream EXCEPT ![x].phase = "starting", ![x].slot = s.name,
                                     ![x].sink = "live"]
        BY <1>2, <2>1 DEF Handed
      <3>2. stream[x] \in Streams /\ s.name \in {"none"} \cup {r.name : r \in Called}
        BY <1>1, <1>10, <2>1
      <3>3. [stream[x] EXCEPT !.phase = "starting", !.slot = s.name, !.sink = "live"] \in Streams
        BY <3>2 DEF Streams
      <3> QED
        BY <1>1, <1>3, <1>10, <2>1, <3>1, <3>3
    <2>2. CASE s.gives # "stream" /\ s.name \in Cancels
      <3>1. stream' = [stream EXCEPT ![x].phase = "closing", ![x].back = Token(x)]
        BY <1>2, <2>2 DEF Handed
      <3>2. stream[x] \in Streams /\ Token(x) \in {"zero", "token"}
        BY <1>1, <1>10, <2>2 DEF Token
      <3>3. [stream[x] EXCEPT !.phase = "closing", !.back = Token(x)] \in Streams
        BY <3>2 DEF Streams
      <3> QED
        BY <1>1, <1>10, <2>2, <3>1, <3>3
    <2>3. CASE s.gives # "stream" /\ s.name \notin Cancels
      BY <1>1, <1>2, <2>3 DEF Handed
    <2> QED
      BY <2>1, <2>2, <2>3
  <1>12. Typed'
    BY <1>1, <1>2, <1>5, <1>11 DEF Typed, guards
  <1>13. x \in StreamIds /\ stream[x].phase \notin {"starting", "closing"} => Alone(t, x)
    BY <1>1 DEF Streamed, StartOK, CancelOK, Alone
  <1>14. s.gives = "stream" => StreamOK(x)' /\ StartOK(t, x)' /\ CancelOK(t, x)'
    <2> SUFFICES ASSUME s.gives = "stream"
                 PROVE  StreamOK(x)' /\ StartOK(t, x)' /\ CancelOK(t, x)'
      OBVIOUS
    <2>1. stream[x] = Unused
      BY <1>1, <1>10 DEF Streamed, StreamOK
    <2>2. /\ stream'[x].phase = "starting" /\ stream'[x].sink = "live"
          /\ stream'[x].back = "none" /\ stream'[x].given = "none"
          /\ ~stream'[x].running /\ ~stream'[x].emitting
      <3>1. /\ stream[x].back = "none" /\ stream[x].given = "none"
            /\ ~stream[x].running /\ ~stream[x].emitting /\ stream[x] \in Streams
        BY <2>1, ConstantCalls DEF Unused
      <3> QED
        BY <1>11, <3>1 DEF Streams
    <2>3. Runs(s, args) => scene.path = "ffi"
      BY <1>3 DEF Runs, Bridged
    <2>4. StreamOK(x)'
      BY <2>2 DEF StreamOK
    <2>5. StartOK(t, x)'
      BY <1>2, <1>3, <1>4, <1>5, <1>7, <2>2, <2>3 DEF StartOK, Opened
    <2>6. CancelOK(t, x)'
      BY <1>3, <1>5 DEF CancelOK, Cancelling
    <2> QED
      BY <2>4, <2>5, <2>6
  <1>15. s.name \in Cancels => StreamOK(x)' /\ StartOK(t, x)' /\ CancelOK(t, x)'
    <2> SUFFICES ASSUME s.name \in Cancels
                 PROVE  StreamOK(x)' /\ StartOK(t, x)' /\ CancelOK(t, x)'
      OBVIOUS
    <2>1. StreamOK(x) /\ stream[x].phase = "open" /\ stream[x] \in Streams
      BY <1>1, <1>10 DEF Streamed
    <2>2. scene.path = "ffi" /\ Token(x) = stream[x].given /\ stream[x].given # "none"
          /\ (stream[x].emitting => stream[x].running) /\ stream[x].sink = "live"
      BY <2>1 DEF StreamOK, Token
    <2>3. /\ stream'[x].phase = "closing" /\ stream'[x].sink = "live"
          /\ stream'[x].back = stream[x].given /\ stream'[x].given = stream[x].given
          /\ stream'[x].running = stream[x].running /\ stream'[x].emitting = stream[x].emitting
      BY <1>11, <2>1, <2>2 DEF Streams
    <2>4. StreamOK(x)'
      BY <2>2, <2>3 DEF StreamOK
    <2>5. Runs(s, args)
      BY <1>2, <1>3, <2>2 DEF Runs, Bridged
    <2>6. StartOK(t, x)' /\ CancelOK(t, x)'
      BY <1>3, <1>5, <1>7, <2>3, <2>5 DEF StartOK, CancelOK, Starting
    <2> QED
      BY <2>4, <2>6
  <1>16. CASE s.gives = "stream" \/ s.name \in Cancels
    BY <1>2, <1>5, <1>10, <1>11, <1>13, <1>14, <1>15, <1>16,
       <1>8, <1>9, <1>12, GuardsKept, StreamSteps DEF IInv
  <1>17. CASE ~(s.gives = "stream" \/ s.name \in Cancels)
    <2>1. stream' = stream /\ ~Starting(t, x)' /\ ~Cancelling(t, x)'
      BY <1>5, <1>11, <1>17 DEF Starting, Cancelling
    <2>2. x \in StreamIds => StreamOK(x)' /\ StartOK(t, x)' /\ CancelOK(t, x)'
      BY <1>1, <1>2, <2>1 DEF Streamed, StreamOK, StartOK, CancelOK
    <2>3. Streamed'
      BY <1>2, <1>5, <1>17, <2>1, <2>2, StreamSteps
    <2> QED
      BY <1>2, <1>8, <1>9, <1>12, <2>3, GuardsKept DEF IInv
  <1> QED
    BY <1>16, <1>17

LEMMA ReturnKeeps ==
    ASSUME IInv, NEW t \in Threads, NEW o \in {"ok", "blank", "null", "streaming", "err", "panic"},
           Return(t, o)
    PROVE  IInv'
  <1> DEFINE f == frame[t]
  <1> DEFINE starts == frame[t].slot.gives = "stream"
  <1> DEFINE cancels == frame[t].slot.name \in Cancels
  <1>0. PICK x \in StreamIds \cup {NoStream} : x = frame[t].stream
    BY DEF IInv, Typed, Frames
  <1>1. /\ Typed /\ Owned /\ Lifecycle /\ Streamed
        /\ frame \in [Threads -> Frames] /\ stream \in [StreamIds -> Streams]
        /\ f \in Frames /\ NoStream \notin StreamIds
    BY InstanceAssumption DEF IInv, Typed
  <1>2. /\ Inside(t) /\ o \in Outcomes(f)
        /\ cancels \/ (starts /\ o # "ok") => ~stream[x].emitting
        /\ UNCHANGED <<scene, inst, guards>>
        /\ frame' = [frame EXCEPT ![t].stage = "leaving", ![t].outcome = o]
    BY <1>0 DEF Return
  <1>3. /\ frame' \in [Threads -> Frames] /\ \A u \in Threads \ {t} : frame'[u] = frame[u]
        /\ frame'[t].stage = "leaving" /\ frame'[t].outcome = o
        /\ frame'[t].slot = f.slot /\ frame'[t].stream = x
    <2>1. frame'[t] = [f EXCEPT !.stage = "leaving", !.outcome = o]
      BY <1>1, <1>2
    <2>2. [f EXCEPT !.stage = "leaving", !.outcome = o] \in Frames
      BY <1>1 DEF Frames, Outcome
    <2>3. frame'[t].stage = "leaving" /\ frame'[t].outcome = o
          /\ frame'[t].slot = f.slot /\ frame'[t].stream = x
      BY <1>1, <1>0, <2>1 DEF Frames
    <2> QED
      BY <1>1, <1>2, <2>1, <2>2, <2>3
  <1>4. \A u \in Threads : u # t => /\ Inside(u)' <=> Inside(u)
                                    /\ Leaving(u)' <=> Leaving(u)
                                    /\ Busy(u)' <=> Busy(u)
    BY <1>3 DEF Busy, Inside, Leaving
  <1>5. Busy(t) /\ Busy(t)' /\ Leaving(t)' /\ ~Inside(t)' /\ ~Leaving(t)
    BY <1>2, <1>3 DEF Busy, Inside, Leaving
  <1>6. Owned'
    BY <1>1, <1>2, <1>4, <1>5 DEF Owned, guards
  <1>7. Lifecycle'
    BY <1>1, <1>2, <1>3, <1>4, <1>5 DEF Lifecycle, guards
  <1>8. f.slot.gives = "stream" \/ f.slot.name \in Cancels => x \in StreamIds
    BY <1>1, <1>2, <1>0 DEF Streamed, Inside
  <1>9. x \in StreamIds =>
            /\ StreamOK(x) /\ StartOK(t, x) /\ CancelOK(t, x) /\ stream[x] \in Streams
            /\ Starting(t, x) \/ Cancelling(t, x) => Alone(t, x)
    BY <1>1 DEF Streamed, Alone
  <1>10. /\ Starting(t, x) <=> starts
         /\ Cancelling(t, x) <=> cancels
         /\ Starting(t, x)' <=> starts
         /\ Cancelling(t, x)' <=> cancels
    BY <1>2, <1>3, <1>0 DEF Starting, Cancelling, Inside
  <1>11. starts => ~cancels
    BY <1>8, <1>9, <1>10 DEF StartOK
  <1>12. CASE cancels
    <2>1. stream' = [stream EXCEPT ![x].running = FALSE] /\ x \in StreamIds
      BY <1>8, <1>12, <1>0 DEF Return
    <2>2. /\ stream' \in [StreamIds -> Streams]
          /\ \A y \in StreamIds \ {x} : stream'[y] = stream[y]
          /\ stream'[x] = [stream[x] EXCEPT !.running = FALSE]
      <3>1. [stream[x] EXCEPT !.running = FALSE] \in Streams
        BY <1>9, <2>1 DEF Streams
      <3> QED
        BY <1>1, <2>1, <3>1
    <2>3. /\ stream'[x].phase = stream[x].phase /\ stream'[x].sink = stream[x].sink
          /\ stream'[x].given = stream[x].given /\ stream'[x].back = stream[x].back
          /\ ~stream'[x].running /\ stream'[x].emitting = stream[x].emitting
      BY <1>9, <2>1, <2>2 DEF Streams
    <2>4. stream[x].phase = "closing" /\ ~stream[x].emitting
      BY <1>2, <1>9, <1>10, <1>12, <2>1 DEF CancelOK
    <2>5. StreamOK(x)'
      BY <1>9, <2>1, <2>3, <2>4 DEF StreamOK
    <2>6. StartOK(t, x)' /\ CancelOK(t, x)'
      BY <1>10, <1>11, <1>12, <2>3, <2>4 DEF StartOK, CancelOK
    <2>7. inst = "made"
      BY <1>1, <2>1, <2>4 DEF Streamed
    <2>8. Streamed'
      BY <1>2, <1>3, <1>9, <1>10, <1>12, <2>1, <2>2, <2>5, <2>6, <2>7, StreamSteps
    <2>9. Typed'
      BY <1>1, <1>2, <1>3, <2>2 DEF Typed, guards
    <2> QED
      BY <1>2, <1>6, <1>7, <2>8, <2>9, GuardsKept DEF IInv
  <1>13. CASE starts
    <2> DEFINE given == CASE o = "ok" -> "token" [] o = "null" -> "zero" [] OTHER -> "none"
    <2>1. /\ stream' = [stream EXCEPT ![x].running = o = "ok", ![x].given = given]
          /\ x \in StreamIds
      BY <1>8, <1>11, <1>13, <1>0 DEF Return
    <2>2. /\ o = "ok" => given = "token"
          /\ o = "null" => given = "zero"
          /\ o \notin {"ok", "null"} => given = "none"
          /\ given \in {"none", "token", "zero"}
      OBVIOUS
    <2> HIDE DEF given
    <2>3. /\ stream' \in [StreamIds -> Streams]
          /\ \A y \in StreamIds \ {x} : stream'[y] = stream[y]
          /\ stream'[x] = [stream[x] EXCEPT !.running = o = "ok", !.given = given]
      <3>1. [stream[x] EXCEPT !.running = o = "ok", !.given = given] \in Streams
        BY <1>9, <2>1, <2>2 DEF Streams
      <3> QED
        BY <1>1, <2>1, <3>1
    <2>4. /\ stream'[x].phase = stream[x].phase /\ stream'[x].sink = stream[x].sink
          /\ stream'[x].given = given /\ stream'[x].back = stream[x].back
          /\ stream'[x].running <=> o = "ok"
          /\ stream'[x].emitting = stream[x].emitting
      BY <1>9, <2>1, <2>3 DEF Streams
    <2>5. /\ stream[x].phase = "starting" /\ scene.path = "ffi"
          /\ o # "ok" => ~stream[x].emitting
      BY <1>2, <1>5, <1>9, <1>10, <1>13, <2>1 DEF StartOK
    <2>6. o # "streaming"
      BY <1>2, <1>11, <1>13 DEF Outcomes
    <2>7. StreamOK(x)'
      BY <1>9, <2>1, <2>4, <2>5 DEF StreamOK
    <2>8. StartOK(t, x)' /\ CancelOK(t, x)'
      BY <1>2, <1>3, <1>5, <1>10, <1>11, <1>13, <2>2, <2>4, <2>5, <2>6
         DEF StartOK, CancelOK, Leaving
    <2>9. inst = "made"
      BY <1>1, <2>1, <2>5 DEF Streamed
    <2>10. Streamed'
      BY <1>2, <1>3, <1>9, <1>10, <1>13, <2>1, <2>3, <2>7, <2>8, <2>9, StreamSteps
    <2>11. Typed'
      BY <1>1, <1>2, <1>3, <2>3 DEF Typed, guards
    <2> QED
      BY <1>2, <1>6, <1>7, <2>10, <2>11, GuardsKept DEF IInv
  <1>14. CASE ~starts /\ ~cancels
    <2>1. stream' = stream
      BY <1>14 DEF Return
    <2>2. x \in StreamIds => StreamOK(x)' /\ StartOK(t, x)' /\ CancelOK(t, x)'
      BY <1>2, <1>9, <1>10, <1>14, <2>1 DEF StreamOK, StartOK, CancelOK
    <2>3. inst' # "made" => \A y \in StreamIds : stream'[y].phase \in {"unused", "closed"}
      BY <1>1, <1>2, <2>1 DEF Streamed
    <2>4. Streamed'
      BY <1>2, <1>3, <1>10, <1>14, <2>1, <2>2, <2>3, StreamSteps
    <2>5. Typed'
      BY <1>1, <1>2, <1>3, <2>1 DEF Typed, guards
    <2> QED
      BY <1>2, <1>6, <1>7, <2>4, <2>5, GuardsKept DEF IInv
  <1> QED
    BY <1>12, <1>13, <1>14

LEMMA FinishKeeps ==
    ASSUME IInv, NEW t \in Threads, Finish(t)
    PROVE  IInv'
  <1> DEFINE f == frame[t]
  <1>0. PICK x \in StreamIds \cup {NoStream} : x = frame[t].stream
    BY DEF IInv, Typed, Frames
  <1>1. /\ Typed /\ Owned /\ Lifecycle /\ Streamed /\ SceneOK(scene)
        /\ frame \in [Threads -> Frames] /\ f \in Frames /\ NoStream \notin StreamIds
    BY InstanceAssumption, ScenesAssumption DEF IInv, Typed
  <1>2. /\ Leaving(t) /\ \A g \in Guards : owner[g] # t
        /\ frame' = [frame EXCEPT ![t].stage = "answered", ![t].answer = Answer(f)]
        /\ inst' = IF f.slot = MakeCall THEN IF f.outcome = "ok" THEN "made" ELSE "null"
                   ELSE IF f.slot = DropCall THEN "gone" ELSE inst
        /\ UNCHANGED <<scene, guards, stream>>
    BY DEF Finish
  <1>3. /\ f.slot.panics \in {"failure", "empty", "blank", "silent"}
        /\ scene.path \in {"ffi", "static"}
        /\ f.outcome \in Outcome
        /\ f.slot \in scene.slots \cup {MakeCall, DropCall}
    <2>1. f.slot \in scene.slots \cup {MakeCall, DropCall} /\ f.outcome \in Outcome
      BY <1>1, <1>2 DEF Lifecycle, Busy, Frames
    <2>2. MakeCall.panics = "failure" /\ DropCall.panics = "silent"
      BY DEF MakeCall, DropCall, Slot
    <2> QED
      BY <1>1, <2>1, <2>2 DEF SceneOK, SlotOK
  <1>4. /\ Answer(f) \in {"success", "sentinel", "null", "failure", "empty", "blank", "unwound",
                      "nothing"}
        /\ Answer(f) = "sentinel" => f.outcome = "null"
        /\ f.slot.gives = "stream" /\ Answer(f) = "success" =>
            f.outcome \in {"none", "streaming", "ok"}
    BY <1>3 DEF Answer, Outcome
  <1>5. /\ frame' \in [Threads -> Frames] /\ \A u \in Threads \ {t} : frame'[u] = frame[u]
        /\ frame'[t].stage = "answered" /\ frame'[t].answer = Answer(f)
        /\ frame'[t].slot = f.slot /\ frame'[t].stream = x
    <2>1. PICK an \in {"success", "sentinel", "null", "failure", "empty", "blank", "unwound",
                      "nothing"} :
            an = Answer(f)
      BY <1>4
    <2>2. frame'[t] = [f EXCEPT !.stage = "answered", !.answer = an]
      BY <1>1, <1>2, <2>1
    <2>3. [f EXCEPT !.stage = "answered", !.answer = an] \in Frames
      BY <1>1 DEF Frames
    <2>4. frame'[t].stage = "answered" /\ frame'[t].answer = an
          /\ frame'[t].slot = f.slot /\ frame'[t].stream = x
      BY <1>0, <1>1, <2>2 DEF Frames
    <2> QED
      BY <1>1, <1>2, <2>1, <2>2, <2>3, <2>4
  <1>6. \A u \in Threads : u # t => /\ Inside(u)' <=> Inside(u)
                                    /\ Leaving(u)' <=> Leaving(u)
                                    /\ Busy(u)' <=> Busy(u)
    BY <1>5 DEF Busy, Inside, Leaving
  <1>7. Busy(t) /\ ~Inside(t) /\ ~Busy(t)' /\ ~Inside(t)' /\ ~Leaving(t)'
    BY <1>2, <1>5 DEF Busy, Inside, Leaving
  <1>8. inst' \in {"none", "making", "made", "dropping", "gone", "null"}
    BY <1>1, <1>2 DEF Typed
  <1>9. Typed'
    BY <1>1, <1>2, <1>5, <1>8 DEF Typed, guards
  <1>10. /\ f.slot = MakeCall => /\ inst = "making" /\ \A u \in Threads : u # t => ~Busy(u)
                                 /\ f.outcome # "ok" => \A g \in Guards : owner[g] # Instance
         /\ f.slot = DropCall => inst = "dropping" /\ \A u \in Threads : u # t => ~Busy(u)
         /\ f.slot \notin {MakeCall, DropCall} => inst = "made" /\ f.slot \in scene.slots
    BY <1>1, <1>7 DEF Lifecycle
  <1>11. Owned'
    <2>1. ASSUME NEW g \in Guards PROVE owner[g] = Instance => inst' \in {"making", "made"}
      BY <1>1, <1>2, <1>10, ConstantCalls DEF Owned
    <2> QED
      BY <1>1, <1>2, <1>6, <1>7, <2>1 DEF Owned, guards
  <1>12. Lifecycle'
    <2>1. \A u \in Threads : Busy(u)' => u # t /\ Busy(u) /\ inst' = inst /\ inst = "made"
      BY <1>2, <1>6, <1>7, <1>10
    <2> QED
      BY <1>1, <1>2, <1>3, <1>5, <1>6, <1>7, <2>1 DEF Lifecycle
  <1>13. Streamed'
    <2>1. f.slot.gives = "stream" \/ f.slot.name \in Cancels => x \in StreamIds
      BY <1>0, <1>1, <1>2 DEF Streamed, Leaving
    <2>2. x \in StreamIds =>
            /\ StreamOK(x) /\ StartOK(t, x) /\ CancelOK(t, x)
            /\ Starting(t, x) \/ Cancelling(t, x) => Alone(t, x)
      BY <1>1 DEF Streamed, Alone
    <2>3. /\ Starting(t, x) <=> f.slot.gives = "stream"
          /\ Cancelling(t, x) <=> f.slot.name \in Cancels
          /\ Starting(t, x)' <=> f.slot.gives = "stream"
          /\ Cancelling(t, x)' <=> f.slot.name \in Cancels
      BY <1>0, <1>2, <1>5 DEF Starting, Cancelling, Leaving
    <2>4. x \in StreamIds => StreamOK(x)' /\ CancelOK(t, x)'
      BY <1>2, <1>5, <1>7, <2>2, <2>3 DEF StreamOK, CancelOK
    <2>5. x \in StreamIds => StartOK(t, x)'
      <3> SUFFICES ASSUME x \in StreamIds, f.slot.gives = "stream" PROVE StartOK(t, x)'
        BY <2>3 DEF StartOK
      <3>1. /\ stream[x].phase = "starting" /\ f.slot.name \notin Cancels
            /\ scene.path = "ffi" /\ (stream[x].emitting => stream[x].running)
            /\ stream[x].running => f.outcome = "ok"
            /\ f.outcome = "ok" => stream[x].given = "token"
            /\ f.outcome = "null" => stream[x].given = "zero"
            /\ f.outcome \notin {"ok", "null"} => stream[x].given = "none"
            /\ f.outcome \notin {"none", "streaming"}
        BY <1>2, <1>7, <2>2, <2>3 DEF StartOK
      <3>2. f.outcome = "ok" => Answer(f) = "success"
        BY DEF Answer
      <3> QED
        BY <1>2, <1>4, <1>5, <1>7, <2>3, <3>1, <3>2 DEF StartOK, Opened
    <2>6. inst' # "made" => \A y \in StreamIds : stream'[y].phase \in {"unused", "closed"}
      BY <1>1, <1>2, <1>10 DEF Streamed
    <2> QED
      BY <1>2, <1>5, <2>1, <2>2, <2>3, <2>4, <2>5, <2>6, StreamSteps
  <1> QED
    BY <1>2, <1>9, <1>11, <1>12, <1>13, GuardsKept DEF IInv

LEMMA ReadKeeps ==
    ASSUME IInv, NEW t \in Threads, Read(t)
    PROVE  IInv'
  <1> DEFINE f == frame[t]
  <1> DEFINE starts == frame[t].slot.gives = "stream"
  <1> DEFINE cancels == frame[t].slot.name \in Cancels
  <1> DEFINE opened == starts /\ f.answer \in {"success", "sentinel"}
  <1>0. PICK x \in StreamIds \cup {NoStream} : x = frame[t].stream
    BY DEF IInv, Typed, Frames
  <1>1. /\ Typed /\ Owned /\ Lifecycle /\ Streamed
        /\ frame \in [Threads -> Frames] /\ stream \in [StreamIds -> Streams]
        /\ f \in Frames /\ NoStream \notin StreamIds
    BY InstanceAssumption DEF IInv, Typed
  <1>2. /\ f.stage = "answered" /\ frame' = [frame EXCEPT ![t] = Idle]
        /\ UNCHANGED <<scene, inst, guards>>
        /\ stream' = IF opened
                     THEN [stream EXCEPT ![x].phase = "open", ![x].handle = f.answer]
                     ELSE IF starts \/ cancels
                     THEN [stream EXCEPT ![x].phase = "closed", ![x].sink = "freed"]
                     ELSE stream
    BY <1>0 DEF Read
  <1>3. /\ frame' \in [Threads -> Frames] /\ \A u \in Threads \ {t} : frame'[u] = frame[u]
        /\ frame'[t].stage = "idle"
    BY <1>1, <1>2, ConstantCalls
  <1>4. \A u \in Threads : /\ Inside(u)' <=> Inside(u)
                           /\ Leaving(u)' <=> Leaving(u)
                           /\ Busy(u)' <=> Busy(u)
    BY <1>2, <1>3 DEF Busy, Inside, Leaving
  <1>5. Owned'
    BY <1>1, <1>2, <1>4 DEF Owned, guards
  <1>6. Lifecycle'
    <2>1. \A u \in Threads : Busy(u) \/ frame'[u].stage = "answered" => frame'[u] = frame[u]
      BY <1>2, <1>3 DEF Busy, Inside, Leaving
    <2> QED
      BY <1>1, <1>2, <1>4, <2>1 DEF Lifecycle, guards
  <1>7. starts \/ cancels => x \in StreamIds
    BY <1>0, <1>1, <1>2 DEF Streamed
  <1>8. x \in StreamIds =>
            /\ StreamOK(x) /\ StartOK(t, x) /\ CancelOK(t, x) /\ stream[x] \in Streams
            /\ Starting(t, x) \/ Cancelling(t, x) => Alone(t, x)
    BY <1>1 DEF Streamed, Alone
  <1>9. /\ Starting(t, x) <=> starts
        /\ Cancelling(t, x) <=> cancels
        /\ ~Starting(t, x)' /\ ~Cancelling(t, x)' /\ ~Inside(t)
    BY <1>0, <1>2, <1>3 DEF Starting, Cancelling, Inside
  <1>10. CASE opened
    <2>1. stream' = [stream EXCEPT ![x].phase = "open", ![x].handle = f.answer] /\ x \in StreamIds
      BY <1>2, <1>7, <1>10
    <2>2. /\ stream' \in [StreamIds -> Streams]
          /\ \A y \in StreamIds \ {x} : stream'[y] = stream[y]
          /\ stream'[x] = [stream[x] EXCEPT !.phase = "open", !.handle = f.answer]
      <3>1. [stream[x] EXCEPT !.phase = "open", !.handle = f.answer] \in Streams
        BY <1>8, <1>10, <2>1 DEF Streams
      <3> QED
        BY <1>1, <2>1, <3>1
    <2>3. /\ stream'[x].phase = "open" /\ stream'[x].sink = stream[x].sink
          /\ stream'[x].handle = f.answer
          /\ stream'[x].given = stream[x].given /\ stream'[x].back = stream[x].back
          /\ stream'[x].running = stream[x].running
          /\ stream'[x].emitting = stream[x].emitting
      BY <1>8, <2>1, <2>2 DEF Streams
    <2>4. /\ stream[x].phase = "starting" /\ scene.path = "ffi"
          /\ f.answer = "success" => stream[x].given = "token"
          /\ f.answer = "sentinel" => stream[x].given = "zero"
          /\ stream[x].emitting => stream[x].running
      BY <1>2, <1>8, <1>9, <1>10, <2>1 DEF StartOK, Opened
    <2>5. StreamOK(x)'
      BY <1>2, <1>8, <1>10, <2>1, <2>3, <2>4 DEF StreamOK
    <2>6. inst = "made"
      BY <1>1, <2>1, <2>4 DEF Streamed
    <2>7. Streamed'
      BY <1>2, <1>3, <1>8, <1>9, <1>10, <2>1, <2>2, <2>5, <2>6, StreamSteps
         DEF StartOK, CancelOK
    <2>8. Typed'
      BY <1>1, <1>2, <1>3, <2>2 DEF Typed, guards
    <2> QED
      BY <1>2, <1>5, <1>6, <2>7, <2>8, GuardsKept DEF IInv
  <1>11. CASE ~opened /\ (starts \/ cancels)
    <2>1. stream' = [stream EXCEPT ![x].phase = "closed", ![x].sink = "freed"] /\ x \in StreamIds
      BY <1>2, <1>7, <1>11
    <2>2. /\ stream' \in [StreamIds -> Streams]
          /\ \A y \in StreamIds \ {x} : stream'[y] = stream[y]
          /\ stream'[x] = [stream[x] EXCEPT !.phase = "closed", !.sink = "freed"]
      <3>1. [stream[x] EXCEPT !.phase = "closed", !.sink = "freed"] \in Streams
        BY <1>8, <2>1 DEF Streams
      <3> QED
        BY <1>1, <2>1, <3>1
    <2>3. /\ stream'[x].phase = "closed" /\ stream'[x].sink = "freed"
          /\ stream'[x].given = stream[x].given /\ stream'[x].back = stream[x].back
          /\ stream'[x].running = stream[x].running
          /\ stream'[x].emitting = stream[x].emitting
      BY <1>8, <2>1, <2>2 DEF Streams
    <2>4. /\ ~stream[x].running /\ ~stream[x].emitting
          /\ stream[x].back \in {"none", stream[x].given}
          /\ stream[x].given = "token" => stream[x].back = "token"
          /\ stream[x].phase \in {"starting", "closing"}
      <3>1. CASE cancels
        BY <1>8, <1>9, <2>1, <3>1 DEF CancelOK, StreamOK
      <3>2. CASE starts
        BY <1>2, <1>8, <1>9, <1>11, <2>1, <3>2 DEF StartOK, StreamOK, Opened
      <3> QED
        BY <1>11, <3>1, <3>2
    <2>5. StreamOK(x)'
      BY <2>3, <2>4 DEF StreamOK
    <2>6. inst = "made"
      BY <1>1, <2>1, <2>4 DEF Streamed
    <2>7. Streamed'
      BY <1>2, <1>3, <1>8, <1>9, <1>11, <2>1, <2>2, <2>5, <2>6, StreamSteps
         DEF StartOK, CancelOK
    <2>8. Typed'
      BY <1>1, <1>2, <1>3, <2>2 DEF Typed, guards
    <2> QED
      BY <1>2, <1>5, <1>6, <2>7, <2>8, GuardsKept DEF IInv
  <1>12. CASE ~starts /\ ~cancels
    <2>1. stream' = stream
      BY <1>2, <1>12
    <2>2. x \in StreamIds => StreamOK(x)' /\ StartOK(t, x)' /\ CancelOK(t, x)'
      BY <1>2, <1>8, <1>9, <2>1 DEF StreamOK, StartOK, CancelOK
    <2>3. inst' # "made" => \A y \in StreamIds : stream'[y].phase \in {"unused", "closed"}
      BY <1>1, <1>2, <2>1 DEF Streamed
    <2>4. Streamed'
      BY <1>2, <1>3, <1>9, <2>1, <2>2, <2>3, StreamSteps
    <2>5. Typed'
      BY <1>1, <1>2, <1>3, <2>1 DEF Typed, guards
    <2> QED
      BY <1>2, <1>5, <1>6, <2>4, <2>5, GuardsKept DEF IInv
  <1> QED
    BY <1>10, <1>11, <1>12

-----------------------------------------------------------------------------
LEMMA Stuttering ==
    ASSUME IInv, UNCHANGED vars
    PROVE  IInv'
  <1>1. UNCHANGED <<scene, inst, frame, stream>> /\ UNCHANGED guards /\ UNCHANGED <<calls, stream>>
    BY DEF vars, calls
  <1>2. Typed' /\ Owned' /\ Lifecycle'
    BY <1>1 DEF IInv, Typed, Owned, Lifecycle, Busy, Inside, Leaving, guards
  <1> QED
    BY <1>1, <1>2, CallsKept, GuardsKept DEF IInv

\* The state of an instance is consistent: how far a guard is, who owns it and
\* what the host knows of it; which calls run together; which stream each call
\* is about and what its answer will say of it.
THEOREM InstanceInvariant == Spec => []IInv
  <1>1. Init => IInv
    BY Initially
  <1>2. IInv /\ [Next]_vars => IInv'
    <2> SUFFICES ASSUME IInv, [Next]_vars PROVE IInv'
      OBVIOUS
    <2>1. ASSUME NEW t \in Threads, Call(t) PROVE IInv'
      BY <2>1, MakeKeeps, DropKeeps, FinishKeeps, ReadKeeps, EnterKeeps, AskKeeps, ReturnKeeps
         DEF Call
    <2>2. ASSUME NEW g \in Guards, Guarded(g) PROVE IInv'
      BY <2>2, AcquireKeeps, KeepKeeps, TakeKeeps, DropGuardKeeps, UnsubscribeReturnsKeeps,
         FreeBoxKeeps, FireKeeps DEF Guarded
    <2>3. ASSUME NEW x \in StreamIds, Streaming(x) PROVE IInv'
      BY <2>3, EmitKeeps
    <2>4. CASE Terminated
      BY <2>4, Stuttering DEF Terminated
    <2>5. CASE UNCHANGED vars
      BY <2>5, Stuttering
    <2> QED
      BY <2>1, <2>2, <2>3, <2>4, <2>5 DEF Next
  <1> QED
    BY <1>1, <1>2, PTL DEF Spec

\* A guard that is not used up is owned, and its owner keeps the instance alive.
LEMMA EndedOwnsNothing ==
    ASSUME IInv, inst \in Ended, NEW g \in Guards
    PROVE  phase[g] \in {"unused", "ended"}
  <1>1. owner[g] \notin Threads /\ owner[g] # Instance
    BY DEF IInv, Owned, Lifecycle, Ended
  <1> QED
    BY <1>1 DEF IInv, Typed, GuardsHold, GuardOK

\* Callbacks meet a live box and emissions a live sink, and nothing of a guard
\* reaches the host after drop_instance, for any threads, guards and streams.
THEOREM UsedWhileLive == Spec => []NoUseAfterFree
  <1>1. IInv => NoUseAfterFree
    <2> SUFFICES ASSUME IInv PROVE NoUseAfterFree
      OBVIOUS
    <2>1. ASSUME NEW g \in Guards
          PROVE  /\ firing[g] => box[g] = "live" /\ phase[g] \in {"held", "stopping"}
                 /\ phase[g] \in {"held", "stopping"} => inst \notin Ended
      <3>1. GuardOK(g) /\ phase[g] \in {"unused", "held", "stopping", "stopped", "ended"}
        BY DEF IInv, GuardsHold, Typed
      <3> QED
        BY <3>1, EndedOwnsNothing DEF GuardOK
    <2>2. ASSUME NEW x \in StreamIds, stream[x].emitting PROVE stream[x].sink = "live"
      <3>1. StreamOK(x) /\ stream[x] \in Streams
        BY DEF IInv, Streamed, Typed
      <3>2. stream[x].phase \in {"unused", "starting", "open", "closing", "closed"}
        BY <3>1 DEF Streams
      <3>3. ~Unused.emitting
        BY DEF Unused
      <3> QED
        BY <2>2, <3>1, <3>2, <3>3 DEF StreamOK
    <2> QED
      BY <2>1, <2>2 DEF NoUseAfterFree
  <1> QED
    BY <1>1, InstanceInvariant, PTL

\* Once an instance is gone, or was not made, no box, subscription, span or
\* stream of it is left, the host was told once of each end, and a token went
\* back as it came.
THEOREM NothingStays == Spec => []NothingLeft
  <1>1. IInv => NothingLeft
    <2> SUFFICES ASSUME IInv, inst \in Ended
                 PROVE  /\ \A g \in Guards :
                            /\ phase[g] \in {"unused", "ended"} /\ box[g] # "live"
                            /\ ~listening[g]
                            /\ ends[g] = IF phase[g] = "ended"
                                            /\ (accepted[g] \/ scene.guards[g] = "span")
                                         THEN 1 ELSE 0
                        /\ \A x \in StreamIds :
                            /\ stream[x].phase \in {"unused", "closed"} /\ ~stream[x].running
                            /\ stream[x].back \in {"none", stream[x].given}
                            /\ stream[x].given = "token" => stream[x].back = "token"
      BY DEF NothingLeft
    <2>1. ASSUME NEW g \in Guards
          PROVE  /\ phase[g] \in {"unused", "ended"} /\ box[g] # "live" /\ ~listening[g]
                 /\ ends[g] = IF phase[g] = "ended" /\ (accepted[g] \/ scene.guards[g] = "span")
                              THEN 1 ELSE 0
      <3>1. GuardOK(g)
        BY DEF IInv, GuardsHold
      <3> QED
        BY <3>1, EndedOwnsNothing DEF GuardOK, Span
    <2>2. ASSUME NEW x \in StreamIds
          PROVE  /\ stream[x].phase \in {"unused", "closed"} /\ ~stream[x].running
                 /\ stream[x].back \in {"none", stream[x].given}
                 /\ stream[x].given = "token" => stream[x].back = "token"
      <3>1. StreamOK(x) /\ stream[x].phase \in {"unused", "closed"}
        BY DEF IInv, Streamed, Ended
      <3>2. ~Unused.running /\ Unused.back = "none" /\ Unused.given = "none"
        BY DEF Unused
      <3> QED
        BY <3>1, <3>2 DEF StreamOK
    <2> QED
      BY <2>1, <2>2
  <1> QED
    BY <1>1, InstanceInvariant, PTL

-----------------------------------------------------------------------------
(* What a call answers. *)

\* An answer encodes the outcome, or says that the entity was not reached; what
\* the entity read of the host is what the host said.
AnswerOK(f) ==
    /\ f.stage = "leaving" => f.outcome # "none"
    /\ f.stage = "answered" =>
        \/ f.outcome = "none" /\ f.answer \in {"failure", "nothing", "fallback"}
        \/ f.outcome # "none" /\ f.answer = Answer(f)
    /\ f.read = "ok" => f.asked = "ok"
    /\ f.read = "err" => f.asked # "ok"

AInv == \A t \in Threads : AnswerOK(frame[t])

\* Only the thread that moves has to be looked at.
LEMMA AnswerSteps ==
    ASSUME AInv, scene' = scene, NEW t \in Threads,
           \A u \in Threads \ {t} : frame'[u] = frame[u], AnswerOK(frame[t])'
    PROVE  AInv'
  BY DEF AInv, AnswerOK, Answer, Undrained

LEMMA EntersAndLeaves ==
    ASSUME IInv, AInv, NEW t \in Threads, Make(t) \/ Drop(t) \/ Read(t)
    PROVE  AInv'
  <1>1. frame \in [Threads -> Frames] /\ scene' = scene
    BY DEF IInv, Typed, Make, Drop, Read
  <1>2. Idle.read = "nothing" /\ Idle \in Frames /\ Idle.stage = "idle"
    BY ConstantCalls DEF Idle
  <1>3. /\ \A u \in Threads \ {t} : frame'[u] = frame[u]
        /\ frame'[t].read = "nothing" /\ frame'[t].stage # "answered"
        /\ frame'[t].stage = "leaving" => frame'[t].outcome = "ok"
    <2>1. CASE Make(t)
      <3>1. PICK config : frame' = [frame EXCEPT ![t] =
                [Idle EXCEPT !.slot = MakeCall, !.args = config, !.stage = "entity"]]
        BY <2>1 DEF Make
      <3> QED
        BY <1>1, <1>2, <3>1 DEF Frames
    <2>2. CASE Drop(t)
      <3>1. frame' = [frame EXCEPT ![t] = [Idle EXCEPT !.stage = "leaving", !.outcome = "ok"]]
        BY <2>2 DEF Drop
      <3> QED
        BY <1>1, <1>2, <3>1 DEF Frames
    <2>3. CASE Read(t)
      <3>1. frame' = [frame EXCEPT ![t] = Idle]
        BY <2>3 DEF Read
      <3> QED
        BY <1>1, <1>2, <3>1
    <2> QED
      BY <2>1, <2>2, <2>3
  <1> QED
    BY <1>1, <1>3, AnswerSteps DEF AnswerOK

LEMMA EnterAnswers ==
    ASSUME IInv, AInv, NEW t \in Threads, NEW s \in scene.slots, NEW args \in {"good", "bad"},
           NEW x \in StreamIds \cup {NoStream}, Enter(t, s, args, x)
    PROVE  AInv'
  <1>1. frame \in [Threads -> Frames] /\ scene' = scene /\ SlotOK(s)
    BY ScenesAssumption DEF IInv, Typed, Enter, SceneOK
  <1>2. ~Runs(s, args) => Unreached(s) \in {"failure", "nothing", "fallback"}
    BY <1>1 DEF Runs, Unreached, SlotOK, Enter
  <1>3. /\ frame' = [frame EXCEPT ![t] =
                    [Idle EXCEPT !.slot = s, !.args = args, !.stream = x,
                                 !.stage = IF Runs(s, args) THEN "entity" ELSE "answered",
                                 !.answer = IF Runs(s, args) THEN "none" ELSE Unreached(s)]]
        /\ Idle.read = "nothing" /\ Idle.outcome = "none" /\ Idle \in Frames
    BY ConstantCalls DEF Enter, Idle
  <1>4. /\ \A u \in Threads \ {t} : frame'[u] = frame[u]
        /\ frame'[t].read = "nothing" /\ frame'[t].outcome = "none"
        /\ frame'[t].stage = IF Runs(s, args) THEN "entity" ELSE "answered"
        /\ frame'[t].answer = IF Runs(s, args) THEN "none" ELSE Unreached(s)
    BY <1>1, <1>3 DEF Frames
  <1> QED
    BY <1>1, <1>2, <1>4, AnswerSteps DEF AnswerOK

LEMMA AskAnswers ==
    ASSUME IInv, AInv, NEW t \in Threads, NEW svc \in scene.services, Ask(t, svc)
    PROVE  AInv'
  <1>1. frame \in [Threads -> Frames] /\ scene' = scene /\ SceneOK(scene)
    BY ScenesAssumption DEF IInv, Typed, Ask
  <1>2. PICK response \in {"ok", "err", "garbled"} :
            frame' = [frame EXCEPT
                    ![t].asked = IF scene.path = "static" /\ scene.runtime # "other"
                                 THEN "unasked" ELSE response,
                    ![t].read = ServiceRead(svc, response)]
    BY DEF Ask
  <1>3. /\ \A u \in Threads \ {t} : frame'[u] = frame[u]
        /\ frame'[t] = [frame[t] EXCEPT
                          !.asked = IF scene.path = "static" /\ scene.runtime # "other"
                                    THEN "unasked" ELSE response,
                          !.read = ServiceRead(svc, response)]
        /\ frame[t] \in Frames
    BY <1>1, <1>2
  <1>4. /\ frame'[t].stage = frame[t].stage
        /\ frame'[t].asked = IF scene.path = "static" /\ scene.runtime # "other"
                             THEN "unasked" ELSE response
        /\ frame'[t].read = ServiceRead(svc, response)
    BY <1>3 DEF Frames
  <1>5. scene.path \in {"ffi", "static"} /\ scene.runtime \in {"none", "worker", "other"}
    BY <1>1 DEF SceneOK
  <1>6. /\ frame'[t].read = "ok" => frame'[t].asked = "ok"
        /\ frame'[t].read = "err" => frame'[t].asked # "ok"
    BY <1>4, <1>5 DEF ServiceRead
  <1>7. frame[t].stage = "entity"
    BY DEF Ask, Inside
  <1> QED
    BY <1>1, <1>3, <1>4, <1>6, <1>7, AnswerSteps DEF AnswerOK

LEMMA ReturnAnswers ==
    ASSUME IInv, AInv, NEW t \in Threads, NEW o \in {"ok", "blank", "null", "streaming", "err", "panic"},
           Return(t, o)
    PROVE  AInv'
  <1>1. frame \in [Threads -> Frames] /\ scene' = scene
    BY DEF IInv, Typed, Return
  <1>2. frame' = [frame EXCEPT ![t].stage = "leaving", ![t].outcome = o]
    BY DEF Return
  <1>3. /\ \A u \in Threads \ {t} : frame'[u] = frame[u]
        /\ frame'[t] = [frame[t] EXCEPT !.stage = "leaving", !.outcome = o]
        /\ frame[t] \in Frames
    BY <1>1, <1>2
  <1>4. /\ frame'[t].stage = "leaving" /\ frame'[t].outcome = o
        /\ frame'[t].read = frame[t].read /\ frame'[t].asked = frame[t].asked
    BY <1>3 DEF Frames
  <1> QED
    BY <1>1, <1>3, <1>4, AnswerSteps DEF AnswerOK, AInv

LEMMA FinishAnswers ==
    ASSUME IInv, AInv, NEW t \in Threads, Finish(t)
    PROVE  AInv'
  <1>1. frame \in [Threads -> Frames] /\ scene' = scene /\ frame[t].stage = "leaving"
    BY DEF IInv, Typed, Finish, Leaving
  <1>2. frame' = [frame EXCEPT ![t].stage = "answered", ![t].answer = Answer(frame[t])]
    BY DEF Finish
  <1>3. /\ \A u \in Threads \ {t} : frame'[u] = frame[u]
        /\ frame'[t] = [frame[t] EXCEPT !.stage = "answered", !.answer = Answer(frame[t])]
        /\ frame[t] \in Frames
    BY <1>1, <1>2
  <1>4. /\ frame'[t].stage = "answered" /\ frame'[t].answer = Answer(frame[t])
        /\ frame'[t].slot = frame[t].slot /\ frame'[t].outcome = frame[t].outcome
        /\ frame'[t].read = frame[t].read /\ frame'[t].asked = frame[t].asked
    BY <1>3 DEF Frames
  <1>5. Answer(frame[t])' = Answer(frame[t])
    BY <1>1, <1>4 DEF Answer, Undrained
  <1> QED
    BY <1>1, <1>3, <1>4, <1>5, AnswerSteps DEF AnswerOK, AInv

\* For every slot and every way a call can end, its caller reads success only
\* where the entity succeeded and failure only where it did not, but for the calls
\* Concealed and Denied name; and the entity reads the host's services so without
\* exception.
THEOREM AnswersRead == Spec => []ReadsAgree
  <1>1. Init => AInv
    <2>1. Idle.stage = "idle" /\ Idle.read = "nothing"
      BY DEF Idle
    <2> QED
      BY <2>1 DEF Init, AInv, AnswerOK
  <1>2. IInv /\ AInv /\ [Next]_vars => AInv'
    <2> SUFFICES ASSUME IInv, AInv, [Next]_vars PROVE AInv'
      OBVIOUS
    <2>1. ASSUME UNCHANGED calls PROVE AInv'
      BY <2>1 DEF AInv, AnswerOK, Answer, Undrained, calls
    <2>2. ASSUME NEW t \in Threads, Call(t) PROVE AInv'
      BY <2>2, EntersAndLeaves, EnterAnswers, AskAnswers, ReturnAnswers, FinishAnswers DEF Call
    <2>3. ASSUME NEW g \in Guards, Guarded(g) PROVE UNCHANGED calls
      BY <2>3 DEF Guarded, Acquire, Keep, Take, DropGuard, UnsubscribeReturns, FreeBox, Fire,
                  CallbackEnds
    <2>4. ASSUME NEW x \in StreamIds, Streaming(x) PROVE UNCHANGED calls
      BY <2>4 DEF Streaming, EmitBegins, EmitEnds, StreamEnds
    <2>5. CASE Terminated \/ UNCHANGED vars
      BY <2>1, <2>5 DEF Terminated, vars
    <2> QED
      BY <2>1, <2>2, <2>3, <2>4, <2>5 DEF Next
  <1>3. IInv /\ AInv => ReadsAgree
    <2> SUFFICES ASSUME IInv, AInv, NEW t \in Threads
                 PROVE  LET f == frame[t]
                            did == f.outcome \in {"ok", "blank", "null", "streaming"}
                        IN  /\ f.stage = "answered" =>
                                /\ Reading(f) = "success" => did \/ Concealed(f)
                                /\ Reading(f) = "failure" => ~did \/ Denied(f)
                            /\ f.read = "ok" => f.asked = "ok"
                            /\ f.read = "err" => f.asked # "ok"
      BY DEF ReadsAgree
    <2> DEFINE f == frame[t]
    <2> DEFINE did == f.outcome \in {"ok", "blank", "null", "streaming"}
    <2>1. AnswerOK(f) /\ f.outcome \in Outcome
      BY DEF AInv, IInv, Typed, Frames
    <2>2. ASSUME f.stage = "answered"
          PROVE  /\ Reading(f) = "success" => did \/ Concealed(f)
                 /\ Reading(f) = "failure" => ~did \/ Denied(f)
      <3>1. CASE f.outcome = "none"
        BY <2>1, <2>2, <3>1 DEF AnswerOK, Reading, Concealed
      <3>2. CASE f.outcome # "none"
        <4>1. f.answer = Answer(f)
              /\ f.outcome \in {"ok", "blank", "null", "streaming", "err", "panic"}
          BY <2>1, <2>2, <3>2 DEF AnswerOK, Outcome
        <4>2. /\ f.slot.panics \in {"failure", "empty", "blank", "silent"}
              /\ scene.path \in {"ffi", "static"}
          <5>1. f.slot \in scene.slots \cup {MakeCall, DropCall} /\ SceneOK(scene)
            BY <2>2, ScenesAssumption DEF IInv, Lifecycle, Typed
          <5>2. MakeCall.panics = "failure" /\ DropCall.panics = "silent"
            BY DEF MakeCall, DropCall, Slot
          <5> QED
            BY <5>1, <5>2 DEF SceneOK, SlotOK
        <4>3. CASE f.outcome = "panic"
          BY <4>1, <4>2, <4>3 DEF Answer, Reading, Concealed
        <4>4. CASE f.outcome = "err"
          BY <4>1, <4>4 DEF Answer, Reading
        <4>5. CASE f.outcome = "null"
          BY <4>1, <4>5 DEF Answer, Reading, Denied
        <4>6. CASE f.outcome = "streaming"
          <5>1. f.answer = IF Undrained(f) THEN "failure" ELSE "success"
            BY <4>1, <4>6 DEF Answer
          <5> QED
            BY <4>6, <5>1 DEF Reading, Denied
        <4>7. CASE f.outcome \in {"ok", "blank"}
          BY <4>1, <4>7 DEF Answer, Reading, Denied
        <4> QED
          BY <4>1, <4>3, <4>4, <4>5, <4>6, <4>7
      <3> QED
        BY <3>1, <3>2
    <2> QED
      BY <2>1, <2>2 DEF AnswerOK
  <1> QED
    BY <1>1, <1>2, <1>3, InstanceInvariant, PTL DEF Spec

=============================================================================
