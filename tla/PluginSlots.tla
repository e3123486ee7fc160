----------------------------- MODULE PluginSlots -----------------------------
(***************************************************************************)
(* What a plugin's exported functions do besides calling the entity's method *)
(* of the same name: the slots that src/macros.rs generates for each kind,   *)
(* the adapters of src/adapters.rs that stand in their place in a static     *)
(* build, and the host services of src/host_handle.rs an entity calls.       *)
(*                                                                         *)
(* A slot                                                                   *)
(*   gives   a "verdict" (allow, resolve ...), the "result" of an operation, *)
(*           a "value", a "stream" (a handle by which the host ends what was *)
(*           started), an HTTP response in a "body", or nothing ("unit");    *)
(*   bad     what it does with arguments it cannot decode: "default" calls   *)
(*           the entity with empty ones, "error" answers with an error,      *)
(*           "skip" returns, "fallback" answers with a fixed value, and      *)
(*           "none" takes no encoded arguments;                              *)
(*   panics  what it answers when the entity panics: "failure" is the kind's *)
(*           own (deny, invalid, error, handle 0), "empty" an empty string   *)
(*           no method's result encodes to, "blank" an empty string, a zero  *)
(*           or no value that a result may also encode to, "silent" nothing. *)
(***************************************************************************)

Slot(name, gives, bad, panics) ==
    [name |-> name, gives |-> gives, bad |-> bad, panics |-> panics]

SlotOK(s) ==
    /\ s.gives \in {"verdict", "result", "value", "stream", "body", "handle", "unit"}
    /\ s.bad \in {"default", "error", "skip", "fallback", "none"}
    /\ s.panics \in {"failure", "empty", "blank", "silent"}

\* Operations that decode their arguments, refuse bad ones and answer through
\* a result; values without arguments, in JSON, or bare so that no value, FALSE
\* and the empty text look like a panic; calls without an answer.
Operations(names) == {Slot(n, "result", "error", "empty") : n \in names}
Values(names)     == {Slot(n, "value", "none", "empty") : n \in names}
BareValues(names) == {Slot(n, "value", "none", "blank") : n \in names}
Signals(names)    == {Slot(n, "unit", "none", "silent") : n \in names}
Events(names)     == {Slot(n, "unit", "skip", "silent") : n \in names}
Starts(names, bad) == {Slot(n, "stream", bad, "failure") : n \in names}

-----------------------------------------------------------------------------
(* src/macros.rs, one set of slots for each kind *)

tool_gate ==
    Values({"manifest"}) \cup Signals({"shutdown"})
        \cup {Slot(n, "verdict", "default", "failure") :
                n \in {"evaluate_pre", "evaluate_post"}}

transform ==
    Values({"manifest"}) \cup Signals({"shutdown"})
        \cup {Slot(n, "verdict", "default", "failure") :
                n \in {"transform_arguments", "transform_result"}}

identity ==
    Values({"manifest"}) \cup Signals({"shutdown"})
        \cup {Slot("resolve", "verdict", "default", "failure")}

backend_profile ==
    Values({"manifest"}) \cup BareValues({"kind"})
        \cup {Slot("register_profile", "result", "default", "empty")}

backend_execute ==
    Operations({"execute"}) \cup Starts({"execute_streaming"}, "error")
        \cup Signals({"cancel_stream"})
        \cup {Slot("execute_transaction", "result", "default", "empty")}

backend_describe ==
    BareValues({"input_schema", "output_schema"}) \cup Values({"audit_metadata"})
        \cup Signals({"shutdown"})
        \cup {Slot(n, "result", "none", "empty") :
                n \in {"list_resources", "expand_capabilities"}}
        \cup {Slot("complete_template_variable", "result", "default", "empty")}

watch_strategy ==
    Values({"manifest"}) \cup BareValues({"kind"}) \cup Starts({"watch"}, "default")
        \cup Signals({"cancel", "shutdown"}) \cup Events({"acknowledge"})

http_route ==
    Values({"manifest", "routes"}) \cup Signals({"shutdown"})
        \cup {Slot("handle", "body", "error", "empty")}

http_route_streaming ==
    {Slot("handle_streaming", "body", "error", "failure")}
        \cup Signals({"cancel_stream"})

audit_sink ==
    Values({"manifest"}) \cup Operations({"emit"}) \cup Signals({"shutdown"})
        \cup {Slot("flush", "result", "none", "empty")}

log_sink ==
    Values({"manifest"}) \cup Events({"emit"}) \cup Signals({"shutdown"})
        \cup {Slot("flush", "result", "none", "empty")}

metrics_sink ==
    Values({"manifest"}) \cup BareValues({"render_text_exposition"})
        \cup Events({"emit"}) \cup Signals({"shutdown"})
        \cup {Slot("flush", "result", "none", "empty")}

telemetry_sink ==
    Values({"manifest"}) \cup Signals({"shutdown"})
        \cup Events({"span_started", "span_ended", "metric_recorded",
                     "log_recorded"})
        \cup {Slot("flush", "result", "none", "empty")}

store ==
    Values({"manifest", "supported_roles"})
        \cup Operations({"get", "put", "delete", "list"})

store_advanced ==
    Operations({"cas", "append"}) \cup Starts({"watch"}, "error")
        \cup Signals({"cancel_watch", "shutdown"})

cache ==
    Values({"manifest", "supported_namespaces"})
        \cup BareValues({"serves_any_namespace"})
        \cup {Slot("get", "value", "fallback", "empty")}

cache_writes ==
    Operations({"put", "clear", "incr"}) \cup Events({"delete"})
        \cup Signals({"shutdown"})

secret_provider ==
    Values({"manifest", "supported_schemes"})
        \cup {Slot("get", "result", "none", "empty")}
        \cup Starts({"watch"}, "none") \cup Signals({"cancel_watch", "shutdown"})

config_provider ==
    Values({"manifest", "supported_schemes"})
        \cup {Slot("snapshot", "result", "none", "empty")}
        \cup Starts({"watch"}, "none") \cup Signals({"cancel_watch", "shutdown"})

policy_engine ==
    Values({"manifest", "version"}) \cup BareValues({"name"})
        \cup Signals({"shutdown"})
        \cup {Slot("evaluate", "verdict", "error", "empty")}

approval_notifier ==
    Values({"manifest"}) \cup Operations({"notify"}) \cup Signals({"shutdown"})

credential_issuer ==
    Values({"manifest"}) \cup Operations({"issue"}) \cup Signals({"shutdown"})
        \cup {Slot("revoke", "result", "none", "empty")}

catalog_provider ==
    Values({"manifest", "describe", "list_catalog"})
        \cup {Slot("filter_and_enrich", "value", "fallback", "empty")}
        \cup Signals({"shutdown"})

content_store ==
    Values({"manifest"}) \cup BareValues({"kind"})
        \cup Operations({"register_profile", "put", "get"})

content_store_upkeep ==
    Operations({"delete", "signed_url"}) \cup Signals({"shutdown"})
        \cup {Slot(n, "value", "fallback", "empty") :
                n \in {"stats", "sweep_expired"}}

cluster_events ==
    Values({"manifest", "node_info", "list_peers"}) \cup Operations({"publish"})
        \cup Starts({"subscribe"}, "error") \cup Starts({"watch_peers"}, "none")
        \cup Signals({"cancel_stream"})

cluster_leases ==
    Starts({"acquire_leadership", "acquire_lock", "try_acquire_leadership",
             "try_acquire_lock"}, "error")
        \cup {Slot(n, "result", "none", "empty") :
                n \in {"lease_renew", "lease_release"}}
        \cup Signals({"lease_drop"})

cluster_kv ==
    Operations({"kv_get", "kv_put", "kv_put_if_absent", "kv_delete"})

cluster_kv_upkeep ==
    Operations({"kv_list_prefix", "kv_expire", "kv_incr"})
        \cup Signals({"shutdown"})

transport ==
    Values({"manifest"}) \cup BareValues({"name", "listen_address"})
        \cup Starts({"start"}, "error")
        \cup Signals({"transport_handle_close", "transport_handle_drop",
                      "shutdown"})

\* The kinds declare_plugin! knows, and the slots of each.
Kinds ==
    [tool_gate |-> tool_gate, transform |-> transform, identity |-> identity,
     backend |-> backend_profile \cup backend_execute \cup backend_describe,
     watch_strategy |-> watch_strategy,
     http_route |-> http_route \cup http_route_streaming,
     audit_sink |-> audit_sink, log_sink |-> log_sink,
     metrics_sink |-> metrics_sink, telemetry_sink |-> telemetry_sink,
     store |-> store \cup store_advanced, cache |-> cache \cup cache_writes,
     secret_provider |-> secret_provider, config_provider |-> config_provider,
     policy_engine |-> policy_engine, approval_notifier |-> approval_notifier,
     credential_issuer |-> credential_issuer,
     catalog_provider |-> catalog_provider,
     content_store |-> content_store \cup content_store_upkeep,
     cluster_backend |-> cluster_events \cup cluster_leases \cup cluster_kv
                    \cup cluster_kv_upkeep,
     transport |-> transport]

-----------------------------------------------------------------------------
(* src/adapters.rs: the methods an adapter passes on to the entity.  The     *)
(* others are the async trait's own: the host is told they are unsupported.  *)

Names(slots) == {s.name : s \in slots}

SyncToolGateAdapter         == Names(tool_gate)
SyncTransformAdapter        == Names(transform)
SyncAuditSinkAdapter        == Names(audit_sink)
SyncLogSinkAdapter          == Names(log_sink)
SyncMetricsSinkAdapter      == Names(metrics_sink)
SyncTelemetrySinkAdapter    == Names(telemetry_sink)
SyncIdentityResolverAdapter == Names(identity) \ {"shutdown"}
SyncApprovalNotifierAdapter == Names(approval_notifier)
SyncCatalogProviderAdapter  == Names(catalog_provider)
SyncPolicyEngineAdapter     == Names(policy_engine)
SyncCredentialIssuerAdapter == Names(credential_issuer)
SyncSecretProviderAdapter   == Names(secret_provider) \ {"watch", "cancel_watch"}
SyncBackendAdapter ==
    Names(backend_profile) \cup {"execute"}
        \cup (Names(backend_describe) \ {"audit_metadata", "expand_capabilities"})
SyncStoreAdapter ==
    Names(store \cup store_advanced) \ {"watch", "cancel_watch"}
SyncCacheAdapter == Names(cache \cup cache_writes)
SyncContentStoreAdapter == Names(content_store \cup content_store_upkeep)
SyncHttpRouteAdapter == Names(http_route)
SyncWatchStrategyAdapter == {"manifest", "kind", "shutdown"}
SyncConfigProviderAdapter == Names(config_provider) \ {"watch", "cancel_watch"}

\* Coordinators and transports have no adapter.
Adapters ==
    [tool_gate |-> SyncToolGateAdapter, transform |-> SyncTransformAdapter,
     identity |-> SyncIdentityResolverAdapter, backend |-> SyncBackendAdapter,
     watch_strategy |-> SyncWatchStrategyAdapter,
     http_route |-> SyncHttpRouteAdapter, audit_sink |-> SyncAuditSinkAdapter,
     log_sink |-> SyncLogSinkAdapter, metrics_sink |-> SyncMetricsSinkAdapter,
     telemetry_sink |-> SyncTelemetrySinkAdapter, store |-> SyncStoreAdapter,
     cache |-> SyncCacheAdapter, secret_provider |-> SyncSecretProviderAdapter,
     config_provider |-> SyncConfigProviderAdapter,
     policy_engine |-> SyncPolicyEngineAdapter,
     approval_notifier |-> SyncApprovalNotifierAdapter,
     credential_issuer |-> SyncCredentialIssuerAdapter,
     catalog_provider |-> SyncCatalogProviderAdapter,
     content_store |-> SyncContentStoreAdapter]

-----------------------------------------------------------------------------
(* src/host_handle.rs: the services, and how an answer comes back over the   *)
(* FFI: in an "envelope", as a base64 "payload" in one, or as it is          *)
(* ("plain").                                                                *)

Service(name, wire) == [name |-> name, wire |-> wire]
Enveloped(names) == {Service(n, "envelope") : n \in names}

SecretServices == Enveloped({"resolve_secret", "resolve_credentials"})
CacheServices ==
    {Service("cache_get", "payload"), Service("cache_put", "envelope")}
BackendServices ==
    {Service("fetch_content", "payload")}
        \cup Enveloped({"store_content", "invoke_tool"})
IssuingServices ==
    Enveloped({"issue_credential", "config_snapshot", "audit_event"})
MetricServices == {Service("emit_metric", "plain")}
SpanServices   == {Service("span_event", "plain")}
AliasServices  == {Service("alias", "plain")}

HostServices == SecretServices \cup CacheServices \cup BackendServices
                    \cup IssuingServices \cup MetricServices \cup SpanServices
                    \cup AliasServices

=============================================================================
