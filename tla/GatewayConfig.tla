---------------------------- MODULE GatewayConfig ----------------------------
(***************************************************************************)
(* What the Gateway is started with: its configuration file and that of    *)
(* the Worker (config.py), the Tokenizer (tokenizer.py), and the checks of *)
(* the objects build_gateway_service makes of them (api.py).               *)
(***************************************************************************)
EXTENDS PythonCodec

\* The defaults of the configuration are within the limits it is held to.
ASSUME DefaultsInRange == 1048576 <= MaxI32 /\ 120 * One <= MaxDouble

\* value.get(field, default)
Get(o, f, default) == IF f \in DOMAIN o THEN o[f] ELSE default

-----------------------------------------------------------------------------
\* The checks of config.py.
require_fields(x, required, optional) ==
    x.kind = "object" /\ required \subseteq DOMAIN x.val /\ DOMAIN x.val \subseteq required \cup optional

config_string(x) == x.kind = "string" /\ x.val # ""
config_integer(x, minimum, maximum) == IsInt(x) /\ minimum <= x.val /\ x.val <= maximum
config_number(x) == IsNumber(x) /\ IsFinite(x) /\ Units(x) > 0

ManifestFields ==
    {"model_id", "revision", "tokenizer_fingerprint", "chat_template_fingerprint",
     "engine_fingerprint", "eos_token_id", "pad_token_id", "max_input_tokens",
     "max_output_tokens", "max_sequence_tokens", "precision", "max_batch_size"}

config_manifest_Unordered(x) ==
    /\ require_fields(x, ManifestFields, {})
    /\ \A f \in {"model_id", "revision", "tokenizer_fingerprint", "chat_template_fingerprint",
                 "engine_fingerprint", "precision"} : config_string(x.val[f])
    /\ \A f \in {"eos_token_id", "pad_token_id"} : config_integer(x.val[f], 0, MaxI32)
    /\ \A f \in {"max_input_tokens", "max_output_tokens", "max_sequence_tokens",
                 "max_batch_size"} : config_integer(x.val[f], 1, MaxI32)

config_manifest(x) ==
    /\ require_fields(x, ManifestFields, {})
    /\ \A f \in {"model_id", "revision", "tokenizer_fingerprint", "chat_template_fingerprint",
                 "engine_fingerprint", "precision"} : config_string(x.val[f])
    /\ \A f \in {"eos_token_id", "pad_token_id"} : config_integer(x.val[f], 0, MaxI32)
    /\ \A f \in {"max_input_tokens", "max_output_tokens", "max_sequence_tokens",
                 "max_batch_size"} : config_integer(x.val[f], 1, MaxI32)
    /\ x.val.max_input_tokens.val <= x.val.max_sequence_tokens.val
    /\ x.val.max_output_tokens.val <= x.val.max_sequence_tokens.val

-----------------------------------------------------------------------------
\* GatewayConfig.load
Seconds == {"accept_timeout_seconds", "request_timeout_seconds", "health_timeout_seconds",
            "event_poll_seconds", "cancel_drain_timeout_seconds", "shutdown_grace_seconds"}
Capacities == {"max_http_body_bytes", "max_pending_requests",
               "max_client_delta_events_per_request", "max_sse_delta_events_per_request",
               "sampling_top_k"}
Optional == Seconds \cup Capacities \cup {"host", "port", "log_level"}

\* The fields of a GatewayConfig that are not paths; 0.1 is one unit.
Config(root, worker) ==
    [manifest |-> worker.val.manifest.val,
     socket_path |-> worker.val.socket_path,
     host |-> Get(root.val, "host", Str("127.0.0.1")),
     port |-> Get(root.val, "port", Num(8000)),
     log_level |-> Get(root.val, "log_level", Str("info")),
     accept_timeout_seconds |-> Get(root.val, "accept_timeout_seconds", Num(10)),
     request_timeout_seconds |-> Get(root.val, "request_timeout_seconds", Num(120)),
     health_timeout_seconds |-> Get(root.val, "health_timeout_seconds", Num(1)),
     event_poll_seconds |-> Get(root.val, "event_poll_seconds", Flt(1)),
     cancel_drain_timeout_seconds |-> Get(root.val, "cancel_drain_timeout_seconds", Num(30)),
     shutdown_grace_seconds |-> Get(root.val, "shutdown_grace_seconds", Num(30)),
     max_http_body_bytes |-> Get(root.val, "max_http_body_bytes", Num(1048576)),
     max_pending_requests |-> Get(root.val, "max_pending_requests", Num(8)),
     max_client_delta_events_per_request |->
         Get(root.val, "max_client_delta_events_per_request", Num(64)),
     max_sse_delta_events_per_request |->
         Get(root.val, "max_sse_delta_events_per_request", Num(32)),
     sampling_top_k |-> Get(root.val, "sampling_top_k", Num(1))]

load(root, worker) ==
    /\ require_fields(root, {"worker_config_path", "tokenizer_path"}, Optional)
    /\ config_string(root.val.worker_config_path) /\ config_string(root.val.tokenizer_path)
    /\ worker.kind = "object" /\ {"socket_path", "manifest"} \subseteq DOMAIN worker.val
    /\ config_string(worker.val.socket_path) /\ config_manifest(worker.val.manifest)
    /\ LET c == Config(root, worker) IN
       /\ config_string(c.host) /\ config_integer(c.port, 1, 65535) /\ config_string(c.log_level)
       /\ \A f \in Seconds : config_number(c[f])
       /\ \A f \in Capacities : config_integer(c[f], 1, MaxI32)
       /\ c.max_sse_delta_events_per_request.val <= c.max_client_delta_events_per_request.val
       /\ c.log_level.val \in {"critical", "error", "warning", "info", "debug"}

-----------------------------------------------------------------------------
\* The Tokenizer t, a record of what transformers returns: HuggingFaceTokenizer
\* takes it, and then serves it with the pad Token of the pad or eos Token.
tokenizer_accepts(t) ==
    /\ IsInt(t.eos_token_id) /\ 0 <= t.eos_token_id.val
    /\ t.pad_token_id.kind = "null" \/ (IsInt(t.pad_token_id) /\ 0 <= t.pad_token_id.val)
    /\ t.chat_template.kind = "string" /\ t.chat_template.val # ""
    /\ t.has_assets

pad_token_id(t) == IF t.pad_token_id.kind = "null" THEN t.eos_token_id ELSE t.pad_token_id

\* HuggingFaceTokenizer.validate_manifest; a fingerprint is a name of what it digests.
tokenizer_matches(t, m) ==
    /\ t.tokenizer_fingerprint = m.tokenizer_fingerprint
    /\ t.chat_template_fingerprint = m.chat_template_fingerprint
    /\ t.eos_token_id = m.eos_token_id /\ pad_token_id(t) = m.pad_token_id

\* _normalize_token_ids: None and what is no non-empty list of naturals is refused.
normalize_token_ids(s) == s # <<>> /\ \A i \in DOMAIN s : IsInt(s[i]) /\ 0 <= s[i].val

-----------------------------------------------------------------------------
\* The constructors build_gateway_service calls: GenerationClient's
\* _validate_config and the options' __post_init__.
client_config_valid(c) ==
    /\ c.socket_path.val # ""
    /\ Units(c.accept_timeout_seconds) > 0
    /\ c.max_pending_requests.val > 0 /\ c.max_client_delta_events_per_request.val > 0

runtime_options_valid(c) ==
    /\ \A f \in Seconds \ {"event_poll_seconds"} : IsFinite(c[f]) /\ Units(c[f]) > 0
    /\ c.max_sse_delta_events_per_request.val > 0
    /\ c.sampling_top_k.val > 0 /\ c.sampling_top_k.val <= MaxI32

====
