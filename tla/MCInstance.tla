----------------------------- MODULE MCInstance ------------------------------
(* Small scenes of PluginInstance for TLC. *)
EXTENDS PluginInstance, TLC

CONSTANTS t1, t2, g1, g2, g3, x1

Scene(kind, path, slots, guarded, services, runtime) ==
    [kind |-> kind, path |-> path, slots |-> slots, guards |-> guarded,
     services |-> services, runtime |-> runtime]

NoGuards == [g \in Guards |-> "none"]
Named(kind, names) == {s \in Kinds[kind] : s.name \in names}

\* Every slot of every kind, over the FFI and, with an adapter, without it; and
\* the HTTP slots where no runtime drains a streaming body.
SlotScenes ==
    {Scene(k, "ffi", Kinds[k], NoGuards, {}, "other") : k \in DOMAIN Kinds}
        \cup {Scene(k, "static", Kinds[k], NoGuards, {}, "other") : k \in DOMAIN Adapters}
        \cup {Scene("http_route", "ffi", Kinds["http_route"], NoGuards, {}, "none")}

\* Every host service, from a slot that decides.
ServiceScenes ==
    {Scene("tool_gate", p, Named("tool_gate", {"evaluate_pre"}), NoGuards, HostServices, r) :
        p \in {"ffi", "static"}, r \in {"none", "worker", "other"}}

\* A host subscription, a coordinator's and a span, shared by the calls of two
\* threads.
GuardScenes ==
    {Scene("tool_gate", "ffi", Named("tool_gate", {"evaluate_pre"}),
           g1 :> "host" @@ g2 :> "cluster" @@ g3 :> "span", {}, "other")}

SmallScenes == SlotScenes \cup ServiceScenes \cup GuardScenes

=============================================================================
