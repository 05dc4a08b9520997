------------------------------ MODULE CppCodec ------------------------------
(***************************************************************************)
(* The Worker's codec of the IPC messages (src/ipc/ipc_protocol.cpp).  A   *)
(* message is decoded in two passes, as in the code: the fields are read   *)
(* into a struct, whose types bound them, then the struct is validated.    *)
(* A message of the Worker is a struct, which is validated and written.    *)
(***************************************************************************)
EXTENDS JsonValues

kProtocolVersion == 1

\* statusCodeName and finishReasonName of the enumerators.
StatusNames ==
    {"ok", "invalid_input", "invalid_shape", "already_exists", "not_ready",
     "resource_exhausted", "slo_predicted_miss", "unavailable", "queue_full",
     "engine_not_found", "context_unavailable", "cuda_error", "tensorrt_error",
     "internal_error", "timeout", "cancelled"}

FinishNames == {"eos", "length", "stop", "cancelled", "timeout", "backpressure"}

-----------------------------------------------------------------------------
\* The readers.  An integer that does not fit 64 bits is parsed as a double,
\* which no integer reader takes.
exactFields(x, fields) == x.kind = "object" /\ DOMAIN x.val = fields

readUnsigned(x, max) == IsInt(x) /\ 0 <= x.val /\ x.val <= MaxU64 /\ x.val <= max

readSigned32(x) == IsInt(x) /\ -MaxI32 - 1 <= x.val /\ x.val <= MaxI32
readString(x) == x.kind = "string"
readBoolean(x) == x.kind = "bool" /\ x.val \in BOOLEAN
readFiniteDouble(x) == IsNumber(x) /\ IsFinite(x)
readTokenIds(x) == x.kind = "array" /\ \A i \in DOMAIN x.val : readSigned32(x.val[i])

readStopSequences(x) == x.kind = "array" /\ \A i \in DOMAIN x.val : readTokenIds(x.val[i])

readStatusJson(x) ==
    /\ exactFields(x, {"code", "message"})
    /\ readString(x.val.code) /\ readString(x.val.message)
    /\ x.val.code.val \in StatusNames

\* What the types of its fields let a ModelManifest hold, and WorkerLimits.
ManifestTyped(m) ==
    /\ \A f \in {"model_id", "revision", "tokenizer_fingerprint", "chat_template_fingerprint",
                 "engine_fingerprint", "precision"} : readString(m[f])
    /\ \A f \in {"eos_token_id", "pad_token_id"} : readSigned32(m[f])
    /\ \A f \in {"max_input_tokens", "max_output_tokens", "max_sequence_tokens",
                 "max_batch_size"} : readUnsigned(m[f], MaxU32)

LimitsTyped(m) ==
    /\ \A f \in {"max_active_requests", "max_frame_payload_bytes", "max_session_egress_frames",
                 "max_request_egress_frames"} : readUnsigned(m[f], MaxU32)
    /\ \A f \in {"max_total_input_tokens", "max_reserved_output_tokens",
                 "max_session_egress_bytes", "max_request_egress_bytes"} :
         readUnsigned(m[f], MaxU64)

manifestFields ==
    {"model_id", "revision", "tokenizer_fingerprint", "chat_template_fingerprint",
     "engine_fingerprint", "eos_token_id", "pad_token_id", "max_input_tokens",
     "max_output_tokens", "max_sequence_tokens", "precision", "max_batch_size"}
limitsFields ==
    {"max_active_requests", "max_total_input_tokens", "max_reserved_output_tokens",
     "max_frame_payload_bytes", "max_session_egress_frames", "max_session_egress_bytes",
     "max_request_egress_frames", "max_request_egress_bytes"}

readManifestJson(x) == exactFields(x, manifestFields) /\ ManifestTyped(x.val)
readLimitsJson(x) == exactFields(x, limitsFields) /\ LimitsTyped(x.val)

readSamplingJson(x) ==
    /\ exactFields(x, {"temperature", "top_k", "top_p", "random_seed"})
    /\ readFiniteDouble(x.val.temperature) /\ readSigned32(x.val.top_k)
    /\ readFiniteDouble(x.val.top_p) /\ readUnsigned(x.val.random_seed, MaxU64)

readUsageJson(x) ==
    /\ exactFields(x, {"prompt_tokens", "completion_tokens"})
    /\ readUnsigned(x.val.prompt_tokens, MaxU64) /\ readUnsigned(x.val.completion_tokens, MaxU64)

readHeader(m) ==
    readUnsigned(m.protocol_version, MaxU32) /\ readUnsigned(m.worker_epoch, MaxU64)

readRequestEnvelope(m) == readHeader(m) /\ readUnsigned(m.request_id, MaxU64)

-----------------------------------------------------------------------------
\* validate, on the fields of the structs.
validateHeader(m) == m.protocol_version.val = kProtocolVersion /\ m.worker_epoch.val # 0
validateRequestEnvelope(m) == validateHeader(m) /\ m.request_id.val # 0
validateTokenIds(s) == s # <<>> /\ \A i \in DOMAIN s : 0 <= s[i].val

validateManifest(m) ==
    /\ \A f \in {"model_id", "revision", "tokenizer_fingerprint", "chat_template_fingerprint",
                 "engine_fingerprint", "precision"} : m[f].val # ""
    /\ 0 <= m.eos_token_id.val /\ 0 <= m.pad_token_id.val
    /\ \A f \in {"max_input_tokens", "max_output_tokens", "max_sequence_tokens",
                 "max_batch_size"} : m[f].val # 0
    /\ m.max_input_tokens.val <= m.max_sequence_tokens.val
    /\ m.max_output_tokens.val <= m.max_sequence_tokens.val

validateLimits(m) ==
    /\ \A f \in limitsFields : m[f].val # 0
    /\ m.max_request_egress_frames.val <= m.max_session_egress_frames.val
    /\ m.max_request_egress_bytes.val <= m.max_session_egress_bytes.val
    /\ m.max_frame_payload_bytes.val <= m.max_request_egress_bytes.val

validateSampling(m) ==
    /\ IsFinite(m.temperature) /\ 0 < Units(m.temperature)
    /\ 0 <= m.top_k.val
    /\ IsFinite(m.top_p) /\ 0 < Units(m.top_p) /\ Units(m.top_p) <= One

\* An enumerator that is none of the known ones has the name "".
validateStatusValue(status) == status.code.val # ""
validateRejected(status) == validateStatusValue(status) /\ status.code.val # "ok"

validateTerminal(m, status) ==
    /\ validateStatusValue(status)
    /\ status.code.val = "ok" => m.finish_reason.kind # "null"
    /\ m.finish_reason.kind # "null" => m.finish_reason.val # ""

validateStats(m, status) ==
    /\ m.probe_id.val # 0 /\ validateStatusValue(status)
    /\ m.ready.val <=> status.code.val = "ok"
    /\ m.session_egress_frames.val <= m.session_egress_high_watermark_frames.val
    /\ m.session_egress_bytes.val <= m.session_egress_high_watermark_bytes.val

-----------------------------------------------------------------------------
\* decode*: each reads its fields and validates them.
decodeHello(x) ==
    /\ exactFields(x, {"type", "protocol_version", "model_id", "revision"})
    /\ readUnsigned(x.val.protocol_version, MaxU32)
    /\ readString(x.val.model_id) /\ readString(x.val.revision)
    /\ x.val.protocol_version.val = kProtocolVersion
    /\ x.val.model_id.val # "" /\ x.val.revision.val # ""

decodeHelloAck(x) ==
    /\ exactFields(x, {"type", "protocol_version", "worker_epoch", "manifest", "limits"})
    /\ readHeader(x.val) /\ readManifestJson(x.val.manifest) /\ readLimitsJson(x.val.limits)
    /\ validateHeader(x.val)
    /\ validateManifest(x.val.manifest.val) /\ validateLimits(x.val.limits.val)

decodeSubmit(x) ==
    /\ exactFields(x,
         {"type", "protocol_version", "worker_epoch", "request_id", "priority", "timeout_ms",
          "trace_id", "input_token_ids", "max_new_tokens", "streaming", "sampling", "end_id",
          "pad_id", "stop_sequences"})
    /\ readRequestEnvelope(x.val) /\ readSigned32(x.val.priority)
    /\ x.val.timeout_ms.kind = "null" \/ readUnsigned(x.val.timeout_ms, MaxU64)
    /\ readString(x.val.trace_id) /\ readTokenIds(x.val.input_token_ids)
    /\ readUnsigned(x.val.max_new_tokens, MaxU32) /\ readBoolean(x.val.streaming)
    /\ readSamplingJson(x.val.sampling)
    /\ \A f \in {"end_id", "pad_id"} : x.val[f].kind = "null" \/ readSigned32(x.val[f])
    /\ readStopSequences(x.val.stop_sequences)
    /\ validateRequestEnvelope(x.val)
    /\ x.val.timeout_ms.kind = "null" \/ x.val.timeout_ms.val # 0
    /\ validateTokenIds(x.val.input_token_ids.val) /\ x.val.max_new_tokens.val # 0
    /\ validateSampling(x.val.sampling.val)
    /\ \A f \in {"end_id", "pad_id"} : x.val[f].kind = "null" \/ 0 <= x.val[f].val
    /\ \A i \in DOMAIN x.val.stop_sequences.val : validateTokenIds(x.val.stop_sequences.val[i].val)

decodeAccepted(x) ==
    /\ exactFields(x, {"type", "protocol_version", "worker_epoch", "request_id"})
    /\ readRequestEnvelope(x.val) /\ validateRequestEnvelope(x.val)

decodeRejected(x) ==
    /\ exactFields(x, {"type", "protocol_version", "worker_epoch", "request_id", "status"})
    /\ readRequestEnvelope(x.val) /\ readStatusJson(x.val.status)
    /\ validateRequestEnvelope(x.val) /\ validateRejected(x.val.status.val)

decodeCancel(x) ==
    /\ exactFields(x, {"type", "protocol_version", "worker_epoch", "request_id"})
    /\ readRequestEnvelope(x.val) /\ validateRequestEnvelope(x.val)

decodeTokenDelta(x) ==
    /\ exactFields(x,
         {"type", "protocol_version", "worker_epoch", "request_id", "sequence_no", "token_ids"})
    /\ readRequestEnvelope(x.val) /\ readUnsigned(x.val.sequence_no, MaxU64)
    /\ readTokenIds(x.val.token_ids)
    /\ validateRequestEnvelope(x.val) /\ validateTokenIds(x.val.token_ids.val)

decodeTerminal(x) ==
    /\ exactFields(x,
         {"type", "protocol_version", "worker_epoch", "request_id", "status", "finish_reason",
          "usage"})
    /\ readRequestEnvelope(x.val) /\ readStatusJson(x.val.status) /\ readUsageJson(x.val.usage)
    /\ \/ x.val.finish_reason.kind = "null"
       \/ readString(x.val.finish_reason) /\ x.val.finish_reason.val \in FinishNames
    /\ validateRequestEnvelope(x.val) /\ validateTerminal(x.val, x.val.status.val)

decodeHealth(x) ==
    /\ exactFields(x, {"type", "protocol_version", "worker_epoch", "probe_id"})
    /\ readHeader(x.val) /\ readUnsigned(x.val.probe_id, MaxU64)
    /\ validateHeader(x.val) /\ x.val.probe_id.val # 0

StatsCounts ==
    {"uptime_ms", "active_requests", "reserved_input_tokens", "reserved_output_tokens",
     "session_egress_frames", "session_egress_bytes", "session_egress_high_watermark_frames",
     "session_egress_high_watermark_bytes", "rejected_requests", "backpressure_requests",
     "cancelled_requests"}

decodeStats(x) ==
    /\ exactFields(x,
         {"type", "protocol_version", "worker_epoch", "probe_id", "ready", "status", "uptime_ms",
          "active_requests", "reserved_input_tokens", "reserved_output_tokens",
          "session_egress_frames", "session_egress_bytes",
          "session_egress_high_watermark_frames", "session_egress_high_watermark_bytes",
          "rejected_requests", "backpressure_requests", "cancelled_requests"})
    /\ readHeader(x.val) /\ readUnsigned(x.val.probe_id, MaxU64) /\ readBoolean(x.val.ready)
    /\ readStatusJson(x.val.status)
    /\ \A f \in StatsCounts : readUnsigned(x.val[f], MaxU64)
    /\ validateHeader(x.val) /\ validateStats(x.val, x.val.status.val)

decodePayload(x) ==
    /\ x.kind = "object" /\ "type" \in DOMAIN x.val /\ readString(x.val.type)
    /\ \/ x.val.type.val = "hello" /\ decodeHello(x)
       \/ x.val.type.val = "hello_ack" /\ decodeHelloAck(x)
       \/ x.val.type.val = "submit" /\ decodeSubmit(x)
       \/ x.val.type.val = "accepted" /\ decodeAccepted(x)
       \/ x.val.type.val = "rejected" /\ decodeRejected(x)
       \/ x.val.type.val = "cancel" /\ decodeCancel(x)
       \/ x.val.type.val = "token_delta" /\ decodeTokenDelta(x)
       \/ x.val.type.val = "terminal" /\ decodeTerminal(x)
       \/ x.val.type.val = "health" /\ decodeHealth(x)
       \/ x.val.type.val = "stats" /\ decodeStats(x)

-----------------------------------------------------------------------------
\* The messages a Worker sends, as structs: what their types let them hold, what
\* validate demands of them, and what messageJson writes.
ServerTypes == {"hello_ack", "accepted", "rejected", "token_delta", "terminal", "stats"}
RequestTypes == {"accepted", "rejected", "token_delta", "terminal"}
StatusTypes == {"rejected", "terminal", "stats"}

MessageTyped(m) ==
    /\ m.type \in ServerTypes /\ readHeader(m)
    /\ m.type \in RequestTypes => readUnsigned(m.request_id, MaxU64)
    /\ m.type = "hello_ack" => ManifestTyped(m.manifest) /\ LimitsTyped(m.limits)
    /\ m.type \in StatusTypes =>
         /\ readString(m.status.code) /\ m.status.code.val \in StatusNames \cup {""}
         /\ readString(m.status.message)
    /\ m.type = "token_delta" =>
         /\ readUnsigned(m.sequence_no, MaxU64)
         /\ \A i \in DOMAIN m.token_ids : readSigned32(m.token_ids[i])
    /\ m.type = "terminal" =>
         /\ \/ m.finish_reason.kind = "null"
            \/ readString(m.finish_reason) /\ m.finish_reason.val \in FinishNames \cup {""}
         /\ readUnsigned(m.usage.prompt_tokens, MaxU64)
         /\ readUnsigned(m.usage.completion_tokens, MaxU64)
    /\ m.type = "stats" =>
         /\ readUnsigned(m.probe_id, MaxU64) /\ readBoolean(m.ready)
         /\ \A f \in StatsCounts : readUnsigned(m[f], MaxU64)

validate(m) ==
    /\ validateHeader(m)
    /\ m.type \in RequestTypes => validateRequestEnvelope(m)
    /\ m.type = "hello_ack" => validateManifest(m.manifest) /\ validateLimits(m.limits)
    /\ m.type = "rejected" => validateRejected(m.status)
    /\ m.type = "token_delta" => validateTokenIds(m.token_ids)
    /\ m.type = "terminal" => validateTerminal(m, m.status)
    /\ m.type = "stats" => validateStats(m, m.status)

statusJson(s) == Obj([code |-> s.code, message |-> s.message])
manifestJson(m) == Obj([f \in manifestFields |-> m[f]])
limitsJson(l) == Obj([f \in limitsFields |-> l[f]])
usageJson(u) == Obj([prompt_tokens |-> u.prompt_tokens, completion_tokens |-> u.completion_tokens])

helloAckJson(m) ==
    [type |-> Str("hello_ack"), protocol_version |-> m.protocol_version,
     worker_epoch |-> m.worker_epoch,
     manifest |-> manifestJson(m.manifest), limits |-> limitsJson(m.limits)]

acceptedJson(m) ==
    [type |-> Str("accepted"), protocol_version |-> m.protocol_version,
     worker_epoch |-> m.worker_epoch, request_id |-> m.request_id]

rejectedJson(m) ==
    [type |-> Str("rejected"), protocol_version |-> m.protocol_version,
     worker_epoch |-> m.worker_epoch, request_id |-> m.request_id,
     status |-> statusJson(m.status)]

tokenDeltaJson(m) ==
    [type |-> Str("token_delta"), protocol_version |-> m.protocol_version,
     worker_epoch |-> m.worker_epoch, request_id |-> m.request_id,
     sequence_no |-> m.sequence_no, token_ids |-> Arr(m.token_ids)]

terminalJson_EmptyReason(m) ==
    [type |-> Str("terminal"), protocol_version |-> m.protocol_version,
     worker_epoch |-> m.worker_epoch, request_id |-> m.request_id,
     status |-> statusJson(m.status),
     finish_reason |-> IF m.finish_reason.kind = "null" THEN Str("") ELSE m.finish_reason,
     usage |-> usageJson(m.usage)]

terminalJson(m) ==
    [type |-> Str("terminal"), protocol_version |-> m.protocol_version,
     worker_epoch |-> m.worker_epoch, request_id |-> m.request_id,
     status |-> statusJson(m.status), finish_reason |-> m.finish_reason,
     usage |-> usageJson(m.usage)]

statsJson(m) ==
    [type |-> Str("stats"), protocol_version |-> m.protocol_version,
     worker_epoch |-> m.worker_epoch, probe_id |-> m.probe_id, ready |-> m.ready,
     status |-> statusJson(m.status), uptime_ms |-> m.uptime_ms,
     active_requests |-> m.active_requests,
     reserved_input_tokens |-> m.reserved_input_tokens,
     reserved_output_tokens |-> m.reserved_output_tokens,
     session_egress_frames |-> m.session_egress_frames,
     session_egress_bytes |-> m.session_egress_bytes,
     session_egress_high_watermark_frames |-> m.session_egress_high_watermark_frames,
     session_egress_high_watermark_bytes |-> m.session_egress_high_watermark_bytes,
     rejected_requests |-> m.rejected_requests,
     backpressure_requests |-> m.backpressure_requests,
     cancelled_requests |-> m.cancelled_requests]

messageJson(m) ==
    Obj(CASE m.type = "hello_ack" -> helloAckJson(m)
          [] m.type = "accepted" -> acceptedJson(m)
          [] m.type = "rejected" -> rejectedJson(m)
          [] m.type = "token_delta" -> tokenDeltaJson(m)
          [] m.type = "terminal" -> terminalJson(m)
          [] m.type = "stats" -> statsJson(m))

====
