----------------------------- MODULE PythonCodec -----------------------------
(***************************************************************************)
(* The Gateway's codec of the IPC messages (clients/python/.../protocol.py): *)
(* what encode_* and decode_server_message accept, and the objects the     *)
(* encoders write.  A value that is accepted is passed on unchanged.       *)
(***************************************************************************)
EXTENDS JsonValues

PROTOCOL_VERSION == 1

STATUS_CODES ==
    {"ok", "invalid_input", "invalid_shape", "already_exists", "not_ready",
     "resource_exhausted", "slo_predicted_miss", "unavailable", "queue_full",
     "engine_not_found", "context_unavailable", "cuda_error", "tensorrt_error",
     "internal_error", "timeout", "cancelled"}

FINISH_REASONS == {"eos", "length", "stop", "cancelled", "timeout", "backpressure"}

-----------------------------------------------------------------------------
\* _require_*: what each lets through.
require_exact_fields(x, fields) == x.kind = "object" /\ DOMAIN x.val = fields
require_string(x) == x.kind = "string"
require_name(x) == x.kind = "string" /\ x.val # ""
require_bool(x) == x.kind = "bool" /\ x.val \in BOOLEAN
require_int(x, minimum, maximum) == IsInt(x) /\ minimum <= x.val /\ x.val <= maximum
require_float(x) == IsNumber(x) /\ IsFinite(x)
require_protocol(x) == require_int(x, 0, MaxU32) /\ x.val = PROTOCOL_VERSION
require_token(x) == require_int(x, 0, MaxI32)
require_tokens(s) == s # <<>> /\ \A i \in DOMAIN s : require_token(s[i])

\* expected is the epoch of the connection, 0 before HelloAck.
require_epoch(x, expected) ==
    require_int(x, 1, MaxU64) /\ (expected # 0 => x.val = expected)

status_from_json(x) ==
    /\ require_exact_fields(x, {"code", "message"})
    /\ require_name(x.val.code) /\ x.val.code.val \in STATUS_CODES
    /\ require_string(x.val.message)

usage_from_json(x) ==
    /\ require_exact_fields(x, {"prompt_tokens", "completion_tokens"})
    /\ require_int(x.val.prompt_tokens, 0, MaxU64)
    /\ require_int(x.val.completion_tokens, 0, MaxU64)

\* What Python takes for true.
truthy(x) ==
    \/ x.kind = "string" /\ x.val # ""
    \/ x.kind = "bool" /\ x.val
    \/ x.kind \in {"int", "float"} /\ x.val # 0
    \/ x.kind = "array" /\ x.val # <<>>
    \/ x.kind = "object" /\ DOMAIN x.val # {}

\* The numbers of a ModelManifest, which _validate_manifest and _manifest_from_json
\* check alike; the former takes the names on trust, as long as they are true.
manifest_numbers(m) ==
    /\ \A f \in {"eos_token_id", "pad_token_id"} : require_token(m[f])
    /\ \A f \in {"max_input_tokens", "max_output_tokens", "max_sequence_tokens",
                 "max_batch_size"} : require_int(m[f], 1, MaxU32)
    /\ m.max_input_tokens.val <= m.max_sequence_tokens.val
    /\ m.max_output_tokens.val <= m.max_sequence_tokens.val

validate_manifest(m) ==
    /\ \A f \in {"model_id", "revision", "tokenizer_fingerprint", "chat_template_fingerprint",
                 "engine_fingerprint", "precision"} : truthy(m[f])
    /\ manifest_numbers(m)

manifest_from_json(x) ==
    /\ require_exact_fields(x,
         {"model_id", "revision", "tokenizer_fingerprint", "chat_template_fingerprint",
          "engine_fingerprint", "eos_token_id", "pad_token_id", "max_input_tokens",
          "max_output_tokens", "max_sequence_tokens", "precision", "max_batch_size"})
    /\ \A f \in {"model_id", "revision", "tokenizer_fingerprint", "chat_template_fingerprint",
                 "engine_fingerprint", "precision"} : require_name(x.val[f])
    /\ manifest_numbers(x.val)

limits_from_json(x) ==
    /\ require_exact_fields(x,
         {"max_active_requests", "max_total_input_tokens", "max_reserved_output_tokens",
          "max_frame_payload_bytes", "max_session_egress_frames", "max_session_egress_bytes",
          "max_request_egress_frames", "max_request_egress_bytes"})
    /\ \A f \in {"max_active_requests", "max_frame_payload_bytes", "max_session_egress_frames",
                 "max_request_egress_frames"} : require_int(x.val[f], 1, MaxU32)
    /\ \A f \in {"max_total_input_tokens", "max_reserved_output_tokens",
                 "max_session_egress_bytes", "max_request_egress_bytes"} :
         require_int(x.val[f], 1, MaxU64)
    /\ x.val.max_request_egress_frames.val <= x.val.max_session_egress_frames.val
    /\ x.val.max_request_egress_bytes.val <= x.val.max_session_egress_bytes.val
    /\ x.val.max_frame_payload_bytes.val <= x.val.max_request_egress_bytes.val

-----------------------------------------------------------------------------
\* decode_server_message, one definition for each type it knows.
request_envelope(m, expected) ==
    /\ require_protocol(m.protocol_version)
    /\ require_epoch(m.worker_epoch, expected)
    /\ require_int(m.request_id, 1, MaxU64)

decode_hello_ack(x, expected) ==
    /\ require_exact_fields(x,
         {"type", "protocol_version", "worker_epoch", "manifest", "limits"})
    /\ require_protocol(x.val.protocol_version)
    /\ require_epoch(x.val.worker_epoch, expected)
    /\ manifest_from_json(x.val.manifest)
    /\ limits_from_json(x.val.limits)

decode_accepted(x, expected) ==
    /\ require_exact_fields(x, {"type", "protocol_version", "worker_epoch", "request_id"})
    /\ request_envelope(x.val, expected)

decode_rejected(x, expected) ==
    /\ require_exact_fields(x,
         {"type", "protocol_version", "worker_epoch", "request_id", "status"})
    /\ status_from_json(x.val.status) /\ x.val.status.val.code.val # "ok"
    /\ request_envelope(x.val, expected)

decode_token_delta(x, expected) ==
    /\ require_exact_fields(x,
         {"type", "protocol_version", "worker_epoch", "request_id", "sequence_no", "token_ids"})
    /\ x.val.token_ids.kind = "array" /\ require_tokens(x.val.token_ids.val)
    /\ request_envelope(x.val, expected)
    /\ require_int(x.val.sequence_no, 0, MaxU64)

decode_terminal_AnyReason(x, expected) ==
    /\ require_exact_fields(x,
         {"type", "protocol_version", "worker_epoch", "request_id", "status", "finish_reason",
          "usage"})
    /\ status_from_json(x.val.status)
    /\ x.val.finish_reason.kind \in {"null", "string"}
    /\ request_envelope(x.val, expected)
    /\ usage_from_json(x.val.usage)

decode_terminal(x, expected) ==
    /\ require_exact_fields(x,
         {"type", "protocol_version", "worker_epoch", "request_id", "status", "finish_reason",
          "usage"})
    /\ status_from_json(x.val.status)
    /\ \/ x.val.finish_reason.kind = "null" /\ x.val.status.val.code.val # "ok"
       \/ require_name(x.val.finish_reason) /\ x.val.finish_reason.val \in FINISH_REASONS
    /\ request_envelope(x.val, expected)
    /\ usage_from_json(x.val.usage)

decode_stats(x, expected) ==
    /\ require_exact_fields(x,
         {"type", "protocol_version", "worker_epoch", "probe_id", "ready", "status", "uptime_ms",
          "active_requests", "reserved_input_tokens", "reserved_output_tokens",
          "session_egress_frames", "session_egress_bytes",
          "session_egress_high_watermark_frames", "session_egress_high_watermark_bytes",
          "rejected_requests", "backpressure_requests", "cancelled_requests"})
    /\ require_protocol(x.val.protocol_version)
    /\ require_epoch(x.val.worker_epoch, expected)
    /\ status_from_json(x.val.status)
    /\ require_bool(x.val.ready) /\ (x.val.ready.val <=> x.val.status.val.code.val = "ok")
    /\ require_int(x.val.probe_id, 1, MaxU64)
    /\ \A f \in {"uptime_ms", "active_requests", "reserved_input_tokens",
                 "reserved_output_tokens", "session_egress_frames", "session_egress_bytes",
                 "session_egress_high_watermark_frames", "session_egress_high_watermark_bytes",
                 "rejected_requests", "backpressure_requests", "cancelled_requests"} :
         require_int(x.val[f], 0, MaxU64)
    /\ x.val.session_egress_frames.val <= x.val.session_egress_high_watermark_frames.val
    /\ x.val.session_egress_bytes.val <= x.val.session_egress_high_watermark_bytes.val

\* Before HelloAck nothing else is accepted.
decode_server_message(x, expected) ==
    /\ x.kind = "object" /\ "type" \in DOMAIN x.val /\ x.val.type.kind = "string"
    /\ \/ x.val.type.val = "hello_ack" /\ decode_hello_ack(x, expected)
       \/ /\ expected # 0
          /\ \/ x.val.type.val = "accepted" /\ decode_accepted(x, expected)
             \/ x.val.type.val = "rejected" /\ decode_rejected(x, expected)
             \/ x.val.type.val = "token_delta" /\ decode_token_delta(x, expected)
             \/ x.val.type.val = "terminal" /\ decode_terminal(x, expected)
             \/ x.val.type.val = "stats" /\ decode_stats(x, expected)

-----------------------------------------------------------------------------
\* _validate_request, on the fields of a GenerationRequest.
validate_request_AnyTimeout(r) ==
    /\ require_int(r.request_id, 1, MaxU64)
    /\ require_tokens(r.input_token_ids)
    /\ require_int(r.max_new_tokens, 1, MaxU32)
    /\ require_int(r.priority, -MaxI32 - 1, MaxI32)
    /\ r.timeout_ms.kind = "null" \/ require_int(r.timeout_ms, 0, MaxU64)
    /\ require_string(r.trace_id) /\ require_bool(r.streaming)
    /\ require_float(r.temperature) /\ Units(r.temperature) > 0
    /\ require_int(r.top_k, 0, MaxI32)
    /\ require_float(r.top_p) /\ Units(r.top_p) > 0 /\ Units(r.top_p) <= One
    /\ require_int(r.random_seed, 0, MaxU64)
    /\ \A f \in {"end_id", "pad_id"} : r[f].kind = "null" \/ require_token(r[f])
    /\ \A i \in DOMAIN r.stop_sequences : require_tokens(r.stop_sequences[i])

validate_request(r) ==
    /\ require_int(r.request_id, 1, MaxU64)
    /\ require_tokens(r.input_token_ids)
    /\ require_int(r.max_new_tokens, 1, MaxU32)
    /\ require_int(r.priority, -MaxI32 - 1, MaxI32)
    /\ r.timeout_ms.kind = "null" \/ require_int(r.timeout_ms, 1, MaxU64)
    /\ require_string(r.trace_id) /\ require_bool(r.streaming)
    /\ require_float(r.temperature) /\ Units(r.temperature) > 0
    /\ require_int(r.top_k, 0, MaxI32)
    /\ require_float(r.top_p) /\ Units(r.top_p) > 0 /\ Units(r.top_p) <= One
    /\ require_int(r.random_seed, 0, MaxU64)
    /\ \A f \in {"end_id", "pad_id"} : r[f].kind = "null" \/ require_token(r[f])
    /\ \A i \in DOMAIN r.stop_sequences : require_tokens(r.stop_sequences[i])

\* The objects the encoders write.
encode_hello(manifest) ==
    Obj([type |-> Str("hello"), protocol_version |-> Num(PROTOCOL_VERSION),
         model_id |-> manifest.model_id, revision |-> manifest.revision])

encode_submit(r, epoch) ==
    Obj([type |-> Str("submit"), protocol_version |-> Num(PROTOCOL_VERSION),
         worker_epoch |-> epoch, request_id |-> r.request_id, priority |-> r.priority,
         timeout_ms |-> r.timeout_ms, trace_id |-> r.trace_id,
         input_token_ids |-> Arr(r.input_token_ids), max_new_tokens |-> r.max_new_tokens,
         streaming |-> r.streaming,
         sampling |-> Obj([temperature |-> r.temperature, top_k |-> r.top_k, top_p |-> r.top_p,
                           random_seed |-> r.random_seed]),
         end_id |-> r.end_id, pad_id |-> r.pad_id,
         stop_sequences |-> Arr([i \in DOMAIN r.stop_sequences |-> Arr(r.stop_sequences[i])])])

encode_cancel(id, epoch) ==
    Obj([type |-> Str("cancel"), protocol_version |-> Num(PROTOCOL_VERSION),
         worker_epoch |-> epoch, request_id |-> id])

encode_health(probe, epoch) ==
    Obj([type |-> Str("health"), protocol_version |-> Num(PROTOCOL_VERSION),
         worker_epoch |-> epoch, probe_id |-> probe])

====
