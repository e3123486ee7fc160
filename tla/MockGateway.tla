----------------------------- MODULE MockGateway ----------------------------
(***************************************************************************)
(* The mock gateway of src/testing.rs, against which plugin authors test:    *)
(* what its builder registers, the chain of gates and transforms a tool call *)
(* goes through, the chain of identity providers, the fan-out to sinks, the  *)
(* dispatch of HTTP routes and the tables keyed by role, namespace, scheme   *)
(* and name.  Plugins answer as they like.                                   *)
(*                                                                         *)
(* Arguments are the transforms that modified them, in order; a result is    *)
(* the arguments the simulated execution echoed and the transforms since.    *)
(***************************************************************************)
EXTENDS Naturals, FiniteSets, SequencesExt

CONSTANTS
    GwScenes,       \* what a behaviour is about: op, the operation called;
                    \* most, a bound on the registrations of each kind; offers
                    \* and requests, the specs routes() may return and the
                    \* HTTP requests tried
    GwPlugins, GwKeys,
    GwChars,        \* the characters of paths
    NoPlugin

Paths == Seq(GwChars)

ASSUME GatewayAssumption ==
    /\ NoPlugin \notin GwPlugins /\ "/" \in GwChars
    /\ \A sc \in GwScenes :
        /\ sc.most \in Nat
        /\ \A specs \in sc.offers : \A s \in specs : s.path \in Paths
        /\ \A q \in sc.requests : q.path \in Paths

VARIABLES
    gwScene,
    gates, transforms, identities,  \* the plugins registered, in order
    sinks,          \* those of each kind of sink
    routes,         \* names and specs of the HTTP routes
    bound,          \* the tables
    history,        \* the bindings made, in order
    call            \* the operation under way

gwVars == <<gwScene, gates, transforms, identities, sinks, routes, bound, history, call>>

Sinks == {"audit", "telemetry", "log"}

\* Tables keyed by what a plugin says it supports, where a later binding
\* replaces an earlier one; and those keyed by the plugin's own name, with the
\* single coordinator, where a second registration panics.
Supported == {"stores", "caches", "secret_providers", "config_providers"}
Named == {"transports", "policy_engines", "cluster_backend"}

NoResult == [echo |-> "none", by |-> <<>>]
ErrorResult == [echo |-> "error", by |-> <<>>]
NoDecision == [phase |-> "none", why |-> "none"]
NoRequest == [name |-> "", method |-> "", path |-> <<>>]
NoCall == [phase |-> "none", next |-> 0, sink |-> "audit", args |-> <<>>,
           result |-> NoResult, seen |-> <<>>, decision |-> NoDecision,
           request |-> NoRequest]

\* MockGateway::new
GwNew ==
    /\ gates = <<>> /\ transforms = <<>> /\ identities = <<>>
    /\ sinks = [k \in Sinks |-> <<>>] /\ routes = <<>>
    /\ bound = [t \in Supported \cup Named |-> [k \in GwKeys |-> NoPlugin]]
    /\ history = <<>> /\ call = NoCall

GwInit == gwScene \in GwScenes /\ GwNew
GwIdle == gwScene = [op |-> "none", most |-> 0, offers |-> {}, requests |-> {}] /\ GwNew

-----------------------------------------------------------------------------
(* The builder *)

Building(op) == call = NoCall /\ gwScene.op = op

WithToolGate(p) ==
    /\ Building("tool") /\ Len(gates) < gwScene.most
    /\ gates' = Append(gates, p)
    /\ UNCHANGED <<gwScene, transforms, identities, sinks, routes, bound, history, call>>

WithTransform(p) ==
    /\ Building("tool") /\ Len(transforms) < gwScene.most
    /\ transforms' = Append(transforms, p)
    /\ UNCHANGED <<gwScene, gates, identities, sinks, routes, bound, history, call>>

WithIdentity(p) ==
    /\ Building("identity") /\ Len(identities) < gwScene.most
    /\ identities' = Append(identities, p)
    /\ UNCHANGED <<gwScene, gates, transforms, sinks, routes, bound, history, call>>

WithSink(k, p) ==
    /\ Building("emit") /\ Len(sinks[k]) < gwScene.most
    /\ sinks' = [sinks EXCEPT ![k] = Append(@, p)]
    /\ UNCHANGED <<gwScene, gates, transforms, identities, routes, bound, history, call>>

\* A name may be registered again.
WithHttpRoute(name, specs) ==
    /\ Building("http") /\ Len(routes) < gwScene.most
    /\ routes' = Append(routes, [name |-> name, specs |-> specs])
    /\ UNCHANGED <<gwScene, gates, transforms, identities, sinks, bound, history, call>>

\* with_store, with_cache, with_secret_provider, with_config_provider: valid if
\* the plugin lists the key or, a cache, serves any.  with_transport,
\* with_policy_engine: under the plugin's own name, valid if it is not empty.
Accepts(t, k, valid) ==
    CASE t \in Supported -> valid
      [] t = "cluster_backend" -> \A l \in GwKeys : bound[t][l] = NoPlugin
      [] OTHER -> valid /\ bound[t][k] = NoPlugin

\* A registration that is not accepted fails an assertion.
Bind(t, k, p, valid) ==
    /\ Building("table") /\ Len(history) < gwScene.most
    /\ IF Accepts(t, k, valid)
       THEN /\ bound' = [bound EXCEPT ![t][k] = p]
            /\ history' = Append(history, [table |-> t, key |-> k, plugin |-> p])
            /\ UNCHANGED call
       ELSE call' = [NoCall EXCEPT !.phase = "panicked"] /\ UNCHANGED <<bound, history>>
    /\ UNCHANGED <<gwScene, gates, transforms, identities, sinks, routes>>

-----------------------------------------------------------------------------
(* Operations *)

gwConfig == <<gwScene, gates, transforms, identities, sinks, routes, bound, history>>

During(phase) == call.phase = phase
Saw(phase, p, answer) ==
    Append(call.seen, [phase |-> phase, who |-> p, args |-> call.args,
                       result |-> call.result, answer |-> answer])

Begin(op, phase, k, request) ==
    /\ Building(op)
    /\ call' = [NoCall EXCEPT !.phase = phase, !.next = 1, !.sink = k, !.request = request]
    /\ UNCHANGED gwConfig

\* The result of a call that stops: where, and why.  That of a transform that
\* failed is the error.
Stopped(phase, decision, seen) ==
    [call EXCEPT !.phase = "replied", !.next = 0, !.seen = seen,
                 !.result = IF decision = "Error" THEN ErrorResult ELSE @,
                 !.decision = [phase |-> phase, why |-> decision]]

Decisions == {"Allow", "Deny", "Challenge", "PendingApproval"}

\* A gate before the call, which sees the arguments as the caller sent them, or
\* after it, as they are now.  Anything but Allow ends the call.
Gate(phase, d) ==
    /\ During(phase) /\ call.next <= Len(gates)
    /\ LET seen == Saw(phase, gates[call.next], d)
       IN  call' = IF d = "Allow" THEN [call EXCEPT !.next = @ + 1, !.seen = seen]
                   ELSE Stopped(phase, d, seen)
    /\ UNCHANGED gwConfig

\* transform_arguments: the arguments pass from one transform to the next.
TransformArguments(r) ==
    /\ During("PreDispatchTransform") /\ call.next <= Len(transforms)
    /\ LET p == transforms[call.next]
           seen == Saw("PreDispatchTransform", p, r)
       IN  call' = IF r = "Error" THEN Stopped("PreDispatchTransform", r, seen)
                   ELSE [call EXCEPT !.next = @ + 1, !.seen = seen,
                                     !.args = IF r = "Modified" THEN Append(@, p) ELSE @]
    /\ UNCHANGED gwConfig

\* Mutant of TransformResult: after an error the remaining transforms still run.
TransformResultGoesOn(r) ==
    /\ During("PostDispatchTransform") /\ call.next <= Len(transforms)
    /\ LET p == transforms[call.next]
           seen == Saw("PostDispatchTransform", p, r)
       IN  call' = [call EXCEPT !.next = @ + 1, !.seen = seen,
                                !.result.by = IF r = "Modified" THEN Append(@, p) ELSE @]
    /\ UNCHANGED gwConfig

\* transform_result, in the same order.
TransformResult(r) ==
    /\ During("PostDispatchTransform") /\ call.next <= Len(transforms)
    /\ LET p == transforms[call.next]
           seen == Saw("PostDispatchTransform", p, r)
       IN  call' = IF r = "Error" THEN Stopped("PostDispatchTransform", r, seen)
                   ELSE [call EXCEPT !.next = @ + 1, !.seen = seen,
                                     !.result.by = IF r = "Modified" THEN Append(@, p) ELSE @]
    /\ UNCHANGED gwConfig

\* The end of each of the four loops; the second is followed by the simulated
\* execution.
EndOfLoop ==
    /\ \/ /\ During("PreDispatchGate") /\ call.next > Len(gates)
          /\ call' = [call EXCEPT !.phase = "PreDispatchTransform", !.next = 1]
       \/ /\ During("PreDispatchTransform") /\ call.next > Len(transforms)
          /\ call' = [call EXCEPT !.phase = "PostDispatchTransform", !.next = 1,
                                  !.result = [echo |-> call.args, by |-> <<>>]]
       \/ /\ During("PostDispatchTransform") /\ call.next > Len(transforms)
          /\ call' = [call EXCEPT !.phase = "PostDispatchGate", !.next = 1]
       \/ /\ During("PostDispatchGate") /\ call.next > Len(gates)
          /\ call' = Stopped("Complete", "none", call.seen)
    /\ UNCHANGED gwConfig

\* resolve_identity_with_metadata: the first provider that resolves or refuses.
ResolveIdentity(r) ==
    /\ During("identity")
    /\ IF call.next > Len(identities)
       THEN r = "None" /\ call' = Stopped("identity", "None", call.seen)
       ELSE LET seen == Saw("identity", identities[call.next], r)
            IN  call' = IF r = "None" THEN [call EXCEPT !.next = @ + 1, !.seen = seen]
                        ELSE Stopped("identity", r, seen)
    /\ UNCHANGED gwConfig

\* emit_audit, emit_telemetry_*, emit_log_record: every sink, whatever one
\* answers.  emit_audit returns the answers.
Emit(r) ==
    /\ During("emit")
    /\ IF call.next > Len(sinks[call.sink])
       THEN r = "ok" /\ call' = Stopped("emit", "none", call.seen)
       ELSE call' = [call EXCEPT !.next = @ + 1,
                                 !.seen = Saw("emit", sinks[call.sink][call.next], r)]
    /\ UNCHANGED gwConfig

-----------------------------------------------------------------------------
(* call_http_route *)

\* trim_end_matches('/') and trim_start_matches('/'): what is left ends at the
\* last character that is no slash, and begins at the first.
LastIn(p) == CHOOSE k \in 0..Len(p) :
    (k = 0 \/ p[k] # "/") /\ \A j \in (k + 1)..Len(p) : p[j] = "/"
FirstIn(p) == CHOOSE k \in 1..(Len(p) + 1) :
    (k = Len(p) + 1 \/ p[k] # "/") /\ \A j \in 1..(k - 1) : p[j] = "/"
TrimEnd(p) == SubSeq(p, 1, LastIn(p))
TrimStart(p) == SubSeq(p, FirstIn(p), Len(p))

Normalise(p) ==
    LET trimmed == TrimEnd(p)
    IN  IF trimmed = <<>> THEN <<"/">>
        ELSE IF trimmed[1] = "/" THEN trimmed ELSE <<"/">> \o trimmed

Upper == [GET |-> "GET", get |-> "GET", POST |-> "POST"]
SameMethod(method, incoming) ==
    method = "*" \/ (method \in DOMAIN Upper /\ Upper[method] = Upper[incoming])

\* Mutant of SpecMatches: the suffix need not begin at a segment.
SpecMatchesAnywhere(spec, method, path) ==
    /\ SameMethod(spec.method, method)
    /\ IsSuffix(TrimStart(Normalise(spec.path)), Normalise(path))

SpecMatches(spec, method, path) ==
    LET suffix == Normalise(spec.path)
        incoming == Normalise(path)
    IN  /\ SameMethod(spec.method, method)
        /\ incoming = suffix \/ IsSuffix(<<"/">> \o TrimStart(suffix), incoming)

\* The first route of that name, 0 if there is none.
RouteOf(name) ==
    LET found == {k \in DOMAIN routes : routes[k].name = name}
    IN  IF found = {} THEN 0 ELSE CHOOSE k \in found : \A l \in found : k <= l

CallHttpRoute ==
    /\ During("http")
    /\ LET k == RouteOf(call.request.name)
       IN  call' = IF k # 0 /\ \E s \in routes[k].specs :
                                SpecMatches(s, call.request.method, call.request.path)
                   THEN [Stopped("http", "handled", <<>>) EXCEPT !.next = k]
                   ELSE Stopped("http", "404", <<>>)
    /\ UNCHANGED gwConfig

-----------------------------------------------------------------------------
(* What tests read from a ToolCallResult *)

IsAllowed == call.decision.phase = "Complete"
IsDenied == call.decision.why = "Deny"
IsChallenged == call.decision.why = "Challenge"

-----------------------------------------------------------------------------
GwBuild ==
    \/ \E p \in GwPlugins :
        \/ WithToolGate(p) \/ WithTransform(p) \/ WithIdentity(p)
        \/ \E k \in Sinks : WithSink(k, p)
        \/ \E t \in Supported \cup Named, k \in GwKeys, valid \in BOOLEAN :
                Bind(t, k, p, valid)
    \/ \E k \in GwKeys, specs \in gwScene.offers : WithHttpRoute(k, specs)

GwBegin ==
    \/ Begin("tool", "PreDispatchGate", "audit", NoRequest)
    \/ Begin("identity", "identity", "audit", NoRequest)
    \/ \E k \in Sinks : Begin("emit", "emit", k, NoRequest)
    \/ \E q \in gwScene.requests : Begin("http", "http", "audit", q)

GwStep ==
    \/ \E phase \in {"PreDispatchGate", "PostDispatchGate"}, d \in Decisions : Gate(phase, d)
    \/ \E r \in {"Unchanged", "Modified", "Error"} : TransformArguments(r) \/ TransformResult(r)
    \/ EndOfLoop
    \/ \E r \in {"None", "Resolved", "Invalid"} : ResolveIdentity(r)
    \/ \E r \in {"ok", "failed"} : Emit(r)
    \/ CallHttpRoute

GwNext == GwBuild \/ GwBegin \/ GwStep

GwSpec == GwInit /\ [][GwNext]_gwVars

-----------------------------------------------------------------------------
(* References, in terms of what was registered and what plugins answered. *)

\* Who is to be asked, in which order, if nobody stops the operation.
Visit(phase, plugins) == [k \in DOMAIN plugins |-> [phase |-> phase, who |-> plugins[k]]]
Chain ==
    CASE gwScene.op = "tool" -> Visit("PreDispatchGate", gates)
                                \o Visit("PreDispatchTransform", transforms)
                                \o Visit("PostDispatchTransform", transforms)
                                \o Visit("PostDispatchGate", gates)
      [] gwScene.op = "identity" -> Visit("identity", identities)
      [] gwScene.op = "emit" -> Visit("emit", sinks[call.sink])
      [] OTHER -> <<>>

\* Answers that end an operation, unless it is an emission.
Stops == {"Deny", "Challenge", "PendingApproval", "Error", "Resolved", "Invalid"}

\* The visits before the k-th in which a plugin modified in a phase.
Modified(seen, phase, k) ==
    {j \in 1..(k - 1) : seen[j].phase = phase /\ seen[j].answer = "Modified"}

\* names lists the plugins of those visits, in their order.
Lists(names, seen, phase, k) ==
    LET mine == Modified(seen, phase, k)
    IN  /\ Len(names) = Cardinality(mine)
        /\ \A j \in mine : names[Cardinality({l \in mine : l <= j})] = seen[j].who

\* What the caller of an operation can rely on: the plugins asked are the
\* registered ones in their order, each phase after the one before it; an
\* operation ends at the first answer that stops it, with the phase and the
\* decision of that plugin, and otherwise has asked everybody; gates before the
\* call see what the caller sent, everybody else what the transforms before
\* them made of it, in the arguments and in the result.
ChainDecides ==
    LET n == Len(call.seen)
        stopped == n > 0 /\ call.seen[n].answer \in Stops
    IN  During("replied") /\ gwScene.op # "http" =>
        /\ n <= Len(Chain)
        /\ \A k \in 1..n :
            LET v == call.seen[k]
            IN  /\ [phase |-> v.phase, who |-> v.who] = Chain[k]
                /\ v.answer \in Stops => k = n
                /\ Lists(v.args, call.seen, "PreDispatchTransform", k)
                /\ v.phase \in {"PostDispatchTransform", "PostDispatchGate"} =>
                    /\ v.result.echo = v.args
                    /\ Lists(v.result.by, call.seen, "PostDispatchTransform", k)
        /\ stopped \/ n = Len(Chain)
        /\ stopped => call.decision.why = call.seen[n].answer
                        /\ call.decision.phase = call.seen[n].phase
        /\ gwScene.op = "tool" =>
            /\ IsAllowed = ~stopped
            /\ IsDenied = (stopped /\ call.seen[n].answer = "Deny")
            /\ IsChallenged = (stopped /\ call.seen[n].answer = "Challenge")

\* The spec's path, without the slashes around it, stands at the end of the
\* request's path, after a slash or at its beginning, with nothing but slashes
\* behind; a path of slashes is matched by such a path alone.
PathOf(spec, path) ==
    LET Slashes(p, x, y) == \A k \in x..y : p[k] = "/"
        n == Len(spec)
        m == Len(path)
    IN  IF Slashes(spec, 1, n) THEN Slashes(path, 1, m)
        ELSE \E x, y \in 1..n, b \in 1..m :
            /\ x <= y /\ spec[x] # "/" /\ spec[y] # "/"
            /\ Slashes(spec, 1, x - 1) /\ Slashes(spec, y + 1, n)
            /\ b + (y - x) <= m /\ \A k \in x..y : path[b + k - x] = spec[k]
            /\ Slashes(path, b + (y - x) + 1, m)
            /\ b = 1 \/ path[b - 1] = "/"

\* A request is handled by the route registered first under its name exactly if
\* the route has its method and path, slashes at the ends aside; a lookup finds
\* what was bound last under its key, which for a name is what was bound first.
LookupAgrees ==
    /\ During("replied") /\ gwScene.op = "http" =>
        (call.decision.why = "handled") =
            \E k \in DOMAIN routes :
                /\ routes[k].name = call.request.name
                /\ \A l \in 1..(k - 1) : routes[l].name # call.request.name
                /\ \E s \in routes[k].specs :
                    /\ SameMethod(s.method, call.request.method)
                    /\ PathOf(s.path, call.request.path)
    /\ \A t \in Supported \cup Named, k \in GwKeys :
        LET mine == {j \in DOMAIN history : history[j].table = t /\ history[j].key = k}
        IN  \/ mine = {} /\ bound[t][k] = NoPlugin
            \/ \E j \in mine :
                /\ bound[t][k] = history[j].plugin
                /\ \A l \in mine : IF t \in Named THEN j <= l ELSE l <= j

=============================================================================
