--------------------------- MODULE Protocol_proofs ---------------------------
(***************************************************************************)
(* The messages between the Gateway and the Worker.  The two codecs agree, *)
(* for all widths of the integers, all messages and all peers; what the    *)
(* early stages of a request let through the late ones take, for all       *)
(* configurations, Tokenizers and bodies; and of the two together, what    *)
(* the last stage sends the Worker reads.                                  *)
(***************************************************************************)
EXTENDS Wire, RequestPath, TLAPS

USE SMTT(40)

-----------------------------------------------------------------------------
\* The helpers of the two codecs, of which the decoders are built.

\* readSigned32 and a check of the sign take what _require_int takes for a Token.
LEMMA TokenAgrees ==
    ASSUME NEW x
    PROVE  require_token(x) <=> readSigned32(x) /\ 0 <= x.val
BY WidthsOrdered DEF require_token, require_int, readSigned32, IsInt

\* So do the checks of a list of Tokens.
LEMMA TokensAgree ==
    ASSUME NEW s
    PROVE  require_tokens(s) <=>
             (\A i \in DOMAIN s : readSigned32(s[i])) /\ validateTokenIds(s)
BY TokenAgrees DEF require_tokens, validateTokenIds

\* The two lists of status codes are one.
LEMMA StatusAgrees ==
    ASSUME NEW x
    PROVE  status_from_json(x) <=> readStatusJson(x)
BY ZenonT(40) DEF status_from_json, readStatusJson, require_exact_fields, exactFields, require_name,
       require_string, readString, STATUS_CODES, StatusNames

\* A status that is read has a known code.
LEMMA CodeKnown ==
    ASSUME NEW x, readStatusJson(x)
    PROVE  validateStatusValue(x.val)
BY ZenonT(40) DEF readStatusJson, StatusNames, validateStatusValue

\* _usage_from_json takes what readUsageJson takes.
LEMMA UsageAgrees ==
    ASSUME NEW x
    PROVE  usage_from_json(x) <=> readUsageJson(x)
BY WidthsOrdered DEF usage_from_json, readUsageJson, require_exact_fields, exactFields, require_int,
       readUnsigned, IsInt

\* The header of a message, with the epoch the client expects.
LEMMA HeaderAgrees ==
    ASSUME NEW m, NEW e \in Nat
    PROVE  require_protocol(m.protocol_version) /\ require_epoch(m.worker_epoch, e)
           <=> readHeader(m) /\ validateHeader(m) /\ (e # 0 => m.worker_epoch.val = e)
BY WidthsOrdered DEF require_protocol, require_epoch, require_int, readHeader, validateHeader,
       readUnsigned, IsInt, PROTOCOL_VERSION, kProtocolVersion

\* The header and the id of the messages about one request.
LEMMA EnvelopeAgrees ==
    ASSUME NEW m, NEW e \in Nat
    PROVE  request_envelope(m, e)
           <=> readRequestEnvelope(m) /\ validateRequestEnvelope(m)
               /\ (e # 0 => m.worker_epoch.val = e)
<1>1. require_int(m.request_id, 1, MaxU64)
      <=> readUnsigned(m.request_id, MaxU64) /\ m.request_id.val # 0
  BY WidthsOrdered DEF require_int, readUnsigned, IsInt
<1> QED
  BY <1>1, HeaderAgrees DEF request_envelope, readRequestEnvelope, validateRequestEnvelope

\* _manifest_from_json takes what the reader and the validator of a manifest take.
LEMMA ManifestAgrees ==
    ASSUME NEW x
    PROVE  manifest_from_json(x) <=> readManifestJson(x) /\ validateManifest(x.val)
<1> DEFINE Names == {"model_id", "revision", "tokenizer_fingerprint",
                     "chat_template_fingerprint", "engine_fingerprint", "precision"}
           Tokens == {"eos_token_id", "pad_token_id"}
           Sizes == {"max_input_tokens", "max_output_tokens", "max_sequence_tokens",
                     "max_batch_size"}
<1>1. ASSUME NEW f PROVE require_name(x.val[f]) <=> readString(x.val[f]) /\ x.val[f].val # ""
  BY DEF require_name, readString
<1>2. ASSUME NEW f
      PROVE  require_int(x.val[f], 1, MaxU32)
             <=> readUnsigned(x.val[f], MaxU32) /\ x.val[f].val # 0
  BY WidthsOrdered DEF require_int, readUnsigned, IsInt
<1>3. (\A f \in Names : require_name(x.val[f]))
      <=> (\A f \in Names : readString(x.val[f])) /\ (\A f \in Names : x.val[f].val # "")
  BY <1>1, ZenonT(40)
<1>4. (\A f \in Tokens : require_token(x.val[f]))
      <=> (\A f \in Tokens : readSigned32(x.val[f]))
          /\ 0 <= x.val.eos_token_id.val /\ 0 <= x.val.pad_token_id.val
  BY TokenAgrees
<1>5. (\A f \in Sizes : require_int(x.val[f], 1, MaxU32))
      <=> (\A f \in Sizes : readUnsigned(x.val[f], MaxU32)) /\ (\A f \in Sizes : x.val[f].val # 0)
  BY <1>2
<1> QED
  BY <1>3, <1>4, <1>5, ZenonT(40)
     DEF manifest_from_json, manifest_numbers, readManifestJson, ManifestTyped, manifestFields,
         validateManifest, require_exact_fields, exactFields

\* _limits_from_json takes what the reader and the validator of the limits take.
LEMMA LimitsAgree ==
    ASSUME NEW x
    PROVE  limits_from_json(x) <=> readLimitsJson(x) /\ validateLimits(x.val)
<1> DEFINE Small == {"max_active_requests", "max_frame_payload_bytes",
                     "max_session_egress_frames", "max_request_egress_frames"}
           Large == {"max_total_input_tokens", "max_reserved_output_tokens",
                     "max_session_egress_bytes", "max_request_egress_bytes"}
<1>1. ASSUME NEW f, NEW max \in {MaxU32, MaxU64}
      PROVE  require_int(x.val[f], 1, max)
             <=> readUnsigned(x.val[f], max) /\ x.val[f].val # 0
  BY WidthsOrdered DEF require_int, readUnsigned, IsInt
<1>2. (\A f \in Small : require_int(x.val[f], 1, MaxU32))
      <=> (\A f \in Small : readUnsigned(x.val[f], MaxU32)) /\ (\A f \in Small : x.val[f].val # 0)
  BY <1>1
<1>3. (\A f \in Large : require_int(x.val[f], 1, MaxU64))
      <=> (\A f \in Large : readUnsigned(x.val[f], MaxU64)) /\ (\A f \in Large : x.val[f].val # 0)
  BY <1>1
<1>4. (\A f \in limitsFields : x.val[f].val # 0)
      <=> (\A f \in Small : x.val[f].val # 0) /\ (\A f \in Large : x.val[f].val # 0)
  BY DEF limitsFields
<1>5. require_exact_fields(x,
        {"max_active_requests", "max_total_input_tokens", "max_reserved_output_tokens",
         "max_frame_payload_bytes", "max_session_egress_frames", "max_session_egress_bytes",
         "max_request_egress_frames", "max_request_egress_bytes"})
      <=> exactFields(x, limitsFields)
  BY DEF require_exact_fields, exactFields, limitsFields
<1> QED
  BY <1>2, <1>3, <1>4, <1>5
     DEF limits_from_json, readLimitsJson, LimitsTyped, validateLimits

-----------------------------------------------------------------------------
\* The messages of the Worker, one lemma for each: the client takes what the
\* Worker's own decoder takes, when the epoch is the one it expects.

LEMMA HelloAckAgrees ==
    ASSUME NEW x, NEW e \in Nat
    PROVE  decode_hello_ack(x, e) <=> decodeHelloAck(x) /\ (e # 0 => x.val.worker_epoch.val = e)
BY HeaderAgrees, ManifestAgrees, LimitsAgree
   DEF decode_hello_ack, decodeHelloAck, require_exact_fields, exactFields

\* Accepted.
LEMMA AcceptedAgrees ==
    ASSUME NEW x, NEW e \in Nat
    PROVE  decode_accepted(x, e) <=> decodeAccepted(x) /\ (e # 0 => x.val.worker_epoch.val = e)
BY EnvelopeAgrees DEF decode_accepted, decodeAccepted, require_exact_fields, exactFields

\* Rejected, which never says ok.
LEMMA RejectedAgrees ==
    ASSUME NEW x, NEW e \in Nat
    PROVE  decode_rejected(x, e) <=> decodeRejected(x) /\ (e # 0 => x.val.worker_epoch.val = e)
BY EnvelopeAgrees, StatusAgrees, CodeKnown
   DEF decode_rejected, decodeRejected, validateRejected, require_exact_fields, exactFields

\* TokenDelta, with at least one Token.
LEMMA TokenDeltaAgrees ==
    ASSUME NEW x, NEW e \in Nat
    PROVE  decode_token_delta(x, e)
           <=> decodeTokenDelta(x) /\ (e # 0 => x.val.worker_epoch.val = e)
<1>1. require_int(x.val.sequence_no, 0, MaxU64) <=> readUnsigned(x.val.sequence_no, MaxU64)
  BY WidthsOrdered DEF require_int, readUnsigned, IsInt
<1> QED
  BY <1>1, EnvelopeAgrees, TokensAgree
     DEF decode_token_delta, decodeTokenDelta, readTokenIds, require_exact_fields, exactFields

\* Terminal, with a finish reason unless it failed.
LEMMA TerminalAgrees ==
    ASSUME NEW x, NEW e \in Nat
    PROVE  decode_terminal(x, e) <=> decodeTerminal(x) /\ (e # 0 => x.val.worker_epoch.val = e)
<1> DEFINE r == x.val.finish_reason
           ok == x.val.status.val.code.val = "ok"
<1>1. (r.kind = "null" /\ ~ok) \/ (require_name(r) /\ r.val \in FINISH_REASONS)
      <=> (r.kind = "null" \/ (readString(r) /\ r.val \in FinishNames))
          /\ (ok => r.kind # "null") /\ (r.kind # "null" => r.val # "")
  BY ZenonT(40) DEF require_name, readString, FINISH_REASONS, FinishNames
<1> QED
  BY <1>1, EnvelopeAgrees, StatusAgrees, CodeKnown, UsageAgrees, ZenonT(40)
     DEF decode_terminal, decodeTerminal, validateTerminal, require_exact_fields, exactFields

\* Stats, ready exactly when ok, the gauges within their watermarks.
LEMMA StatsAgrees ==
    ASSUME NEW x, NEW e \in Nat
    PROVE  decode_stats(x, e) <=> decodeStats(x) /\ (e # 0 => x.val.worker_epoch.val = e)
<1>1. require_int(x.val.probe_id, 1, MaxU64)
      <=> readUnsigned(x.val.probe_id, MaxU64) /\ x.val.probe_id.val # 0
  BY WidthsOrdered DEF require_int, readUnsigned, IsInt
<1>2. ASSUME NEW f PROVE require_int(x.val[f], 0, MaxU64) <=> readUnsigned(x.val[f], MaxU64)
  BY WidthsOrdered DEF require_int, readUnsigned, IsInt
<1>3. require_bool(x.val.ready) <=> readBoolean(x.val.ready)
  BY DEF require_bool, readBoolean
<1> QED
  BY <1>1, <1>2, <1>3, HeaderAgrees, StatusAgrees, CodeKnown, ZenonT(40)
     DEF decode_stats, decodeStats, validateStats, StatsCounts, require_exact_fields, exactFields

\* Together: decode_server_message takes exactly the messages of a Worker that
\* the client expects.
THEOREM DecodersAgree ==
    ASSUME NEW x, NEW e \in Nat
    PROVE  decode_server_message(x, e)
           <=> /\ decodePayload(x) /\ x.val.type.val \in ServerTypes
               /\ IF e = 0 THEN x.val.type.val = "hello_ack" ELSE x.val.worker_epoch.val = e
<1>1. CASE x.val.type.val = "hello_ack"
  BY <1>1, HelloAckAgrees
     DEF decode_server_message, decodePayload, ServerTypes, readString
<1>2. CASE x.val.type.val = "accepted"
  BY <1>2, AcceptedAgrees
     DEF decode_server_message, decodePayload, ServerTypes, readString
<1>3. CASE x.val.type.val = "rejected"
  BY <1>3, RejectedAgrees
     DEF decode_server_message, decodePayload, ServerTypes, readString
<1>4. CASE x.val.type.val = "token_delta"
  BY <1>4, TokenDeltaAgrees
     DEF decode_server_message, decodePayload, ServerTypes, readString
<1>5. CASE x.val.type.val = "terminal"
  BY <1>5, TerminalAgrees
     DEF decode_server_message, decodePayload, ServerTypes, readString
<1>6. CASE x.val.type.val = "stats"
  BY <1>6, StatsAgrees
     DEF decode_server_message, decodePayload, ServerTypes, readString
<1>7. CASE x.val.type.val \notin ServerTypes
  BY <1>7 DEF decode_server_message, ServerTypes
<1> QED
  BY <1>1, <1>2, <1>3, <1>4, <1>5, <1>6, <1>7 DEF ServerTypes

-----------------------------------------------------------------------------
\* The messages of the Worker, one lemma for each: what encodePayload writes of a
\* struct that validate accepts is an object the decoders take.

\* HelloAck, with its two nested objects.
LEMMA HelloAckWritten ==
    ASSUME NEW m, m.type = "hello_ack", MessageTyped(m), validate(m)
    PROVE  decodeHelloAck(Obj(helloAckJson(m)))
<1> DEFINE v == helloAckJson(m)
<1>0. /\ readHeader(m) /\ ManifestTyped(m.manifest) /\ LimitsTyped(m.limits)
      /\ validateHeader(m) /\ validateManifest(m.manifest) /\ validateLimits(m.limits)
  BY ZenonT(40) DEF MessageTyped, validate
<1>1. /\ DOMAIN v = {"type", "protocol_version", "worker_epoch", "manifest", "limits"}
      /\ v.protocol_version = m.protocol_version /\ v.worker_epoch = m.worker_epoch
      /\ v.manifest = manifestJson(m.manifest) /\ v.limits = limitsJson(m.limits)
  BY DEF helloAckJson
<1> HIDE DEF v
<1>2. readHeader(v) /\ validateHeader(v)
  BY <1>0, <1>1 DEF readHeader, validateHeader
<1>3. readManifestJson(v.manifest) /\ validateManifest(v.manifest.val)
  <2>1. /\ v.manifest.kind = "object" /\ DOMAIN v.manifest.val = manifestFields
        /\ \A f \in manifestFields : v.manifest.val[f] = m.manifest[f]
    BY <1>1 DEF manifestJson, Obj
  <2> QED
    BY <1>0, <2>1, ZenonT(40)
       DEF readManifestJson, exactFields, ManifestTyped, validateManifest, manifestFields
<1>4. readLimitsJson(v.limits) /\ validateLimits(v.limits.val)
  <2>1. /\ v.limits.kind = "object" /\ DOMAIN v.limits.val = limitsFields
        /\ \A f \in limitsFields : v.limits.val[f] = m.limits[f]
    BY <1>1 DEF limitsJson, Obj
  <2> QED
    BY <1>0, <2>1 DEF readLimitsJson, exactFields, LimitsTyped, validateLimits, limitsFields
<1> QED
  BY <1>1, <1>2, <1>3, <1>4 DEF decodeHelloAck, exactFields, Obj, v

\* Accepted.
LEMMA AcceptedWritten ==
    ASSUME NEW m, m.type = "accepted", MessageTyped(m), validate(m)
    PROVE  decodeAccepted(Obj(acceptedJson(m)))
<1>1. readHeader(m) /\ readUnsigned(m.request_id, MaxU64) /\ validateRequestEnvelope(m)
  BY ZenonT(40) DEF MessageTyped, validate, RequestTypes
<1> QED
  BY <1>1 DEF decodeAccepted, acceptedJson, exactFields, readRequestEnvelope, readHeader,
              validateRequestEnvelope, validateHeader, Obj

\* The Status of the messages that carry one.
LEMMA StatusWritten ==
    ASSUME NEW m, m.type \in StatusTypes, MessageTyped(m), validateStatusValue(m.status)
    PROVE  /\ readStatusJson(statusJson(m.status))
           /\ statusJson(m.status).val.code = m.status.code
<1>1. /\ readString(m.status.code) /\ m.status.code.val \in StatusNames \cup {""}
      /\ readString(m.status.message)
  BY ZenonT(40) DEF MessageTyped
<1>2. m.status.code.val \in StatusNames
  BY <1>1, ZenonT(40) DEF validateStatusValue
<1>3. /\ statusJson(m.status).kind = "object"
      /\ DOMAIN statusJson(m.status).val = {"code", "message"}
      /\ statusJson(m.status).val.code = m.status.code
      /\ statusJson(m.status).val.message = m.status.message
  BY DEF statusJson, Obj
<1> QED
  BY <1>1, <1>2, <1>3, ZenonT(40) DEF readStatusJson, exactFields

\* Rejected.
LEMMA RejectedWritten ==
    ASSUME NEW m, m.type = "rejected", MessageTyped(m), validate(m)
    PROVE  decodeRejected(Obj(rejectedJson(m)))
<1> DEFINE v == rejectedJson(m)
<1>1. /\ readHeader(m) /\ readUnsigned(m.request_id, MaxU64) /\ validateRequestEnvelope(m)
      /\ validateRejected(m.status)
  BY ZenonT(40) DEF MessageTyped, validate, RequestTypes
<1>2. /\ DOMAIN v = {"type", "protocol_version", "worker_epoch", "request_id", "status"}
      /\ v.protocol_version = m.protocol_version /\ v.worker_epoch = m.worker_epoch
      /\ v.request_id = m.request_id /\ v.status = statusJson(m.status)
  BY DEF rejectedJson
<1> HIDE DEF v
<1>3. readRequestEnvelope(v) /\ validateRequestEnvelope(v)
  BY <1>1, <1>2 DEF readRequestEnvelope, readHeader, validateRequestEnvelope, validateHeader
<1>4. readStatusJson(v.status) /\ v.status.val.code = m.status.code
  <2>1. m.type \in StatusTypes /\ validateStatusValue(m.status)
    BY <1>1, ZenonT(40) DEF validateRejected, StatusTypes
  <2> QED
    BY <1>2, <2>1, StatusWritten
<1>5. validateRejected(v.status.val)
  BY <1>1, <1>4, ZenonT(40) DEF validateRejected, validateStatusValue
<1> QED
  BY <1>2, <1>3, <1>4, <1>5 DEF decodeRejected, exactFields, Obj, v

\* TokenDelta.
LEMMA TokenDeltaWritten ==
    ASSUME NEW m, m.type = "token_delta", MessageTyped(m), validate(m)
    PROVE  decodeTokenDelta(Obj(tokenDeltaJson(m)))
<1> DEFINE v == tokenDeltaJson(m)
<1>1. /\ readHeader(m) /\ readUnsigned(m.request_id, MaxU64) /\ validateRequestEnvelope(m)
      /\ readUnsigned(m.sequence_no, MaxU64) /\ validateTokenIds(m.token_ids)
      /\ \A i \in DOMAIN m.token_ids : readSigned32(m.token_ids[i])
  BY ZenonT(40) DEF MessageTyped, validate, RequestTypes
<1>2. /\ DOMAIN v = {"type", "protocol_version", "worker_epoch", "request_id", "sequence_no",
                     "token_ids"}
      /\ v.protocol_version = m.protocol_version /\ v.worker_epoch = m.worker_epoch
      /\ v.request_id = m.request_id /\ v.sequence_no = m.sequence_no
      /\ v.token_ids = Arr(m.token_ids)
  BY DEF tokenDeltaJson
<1> HIDE DEF v
<1>3. readRequestEnvelope(v) /\ validateRequestEnvelope(v)
  BY <1>1, <1>2 DEF readRequestEnvelope, readHeader, validateRequestEnvelope, validateHeader
<1>4. v.token_ids.kind = "array" /\ v.token_ids.val = m.token_ids
  BY <1>2 DEF Arr
<1> QED
  BY <1>1, <1>2, <1>3, <1>4 DEF decodeTokenDelta, readTokenIds, exactFields, Obj, v

\* Terminal.
LEMMA TerminalWritten ==
    ASSUME NEW m, m.type = "terminal", MessageTyped(m), validate(m)
    PROVE  decodeTerminal(Obj(terminalJson(m)))
<1> DEFINE v == terminalJson(m)
           r == m.finish_reason
<1>1. /\ readHeader(m) /\ readUnsigned(m.request_id, MaxU64) /\ validateRequestEnvelope(m)
      /\ validateTerminal(m, m.status) /\ readUnsigned(m.usage.prompt_tokens, MaxU64)
      /\ readUnsigned(m.usage.completion_tokens, MaxU64)
  BY ZenonT(40) DEF MessageTyped, validate, RequestTypes
<1>0. r.kind = "null" \/ (readString(r) /\ r.val \in FinishNames \cup {""})
  BY ZenonT(40) DEF MessageTyped
<1>2. /\ DOMAIN v = {"type", "protocol_version", "worker_epoch", "request_id", "status",
                     "finish_reason", "usage"}
      /\ v.protocol_version = m.protocol_version /\ v.worker_epoch = m.worker_epoch
      /\ v.request_id = m.request_id /\ v.status = statusJson(m.status)
      /\ v.finish_reason = m.finish_reason /\ v.usage = usageJson(m.usage)
  BY DEF terminalJson
<1> HIDE DEF v
<1>3. readRequestEnvelope(v) /\ validateRequestEnvelope(v)
  BY <1>1, <1>2 DEF readRequestEnvelope, readHeader, validateRequestEnvelope, validateHeader
<1>4. readStatusJson(v.status) /\ v.status.val.code = m.status.code
  <2>1. m.type \in StatusTypes /\ validateStatusValue(m.status)
    BY <1>1, ZenonT(40) DEF validateTerminal, StatusTypes
  <2> QED
    BY <1>2, <2>1, StatusWritten
<1>5. readUsageJson(v.usage)
  BY <1>1, <1>2 DEF readUsageJson, usageJson, exactFields, Obj
<1>6. /\ v.finish_reason.kind = "null"
         \/ (readString(v.finish_reason) /\ v.finish_reason.val \in FinishNames)
      /\ validateTerminal(v, v.status.val)
  BY <1>0, <1>1, <1>2, <1>4, ZenonT(40) DEF validateTerminal, validateStatusValue
<1> QED
  BY <1>2, <1>3, <1>4, <1>5, <1>6, ZenonT(40) DEF decodeTerminal, exactFields, Obj, v

\* Stats.
LEMMA StatsWritten ==
    ASSUME NEW m, m.type = "stats", MessageTyped(m), validate(m)
    PROVE  decodeStats(Obj(statsJson(m)))
<1> DEFINE v == statsJson(m)
<1>1. /\ readHeader(m) /\ validateHeader(m) /\ validateStats(m, m.status)
      /\ readUnsigned(m.probe_id, MaxU64) /\ readBoolean(m.ready)
      /\ \A f \in StatsCounts : readUnsigned(m[f], MaxU64)
  BY ZenonT(40) DEF MessageTyped, validate
<1>2. /\ DOMAIN v =
           {"type", "protocol_version", "worker_epoch", "probe_id", "ready", "status", "uptime_ms",
            "active_requests", "reserved_input_tokens", "reserved_output_tokens",
            "session_egress_frames", "session_egress_bytes",
            "session_egress_high_watermark_frames", "session_egress_high_watermark_bytes",
            "rejected_requests", "backpressure_requests", "cancelled_requests"}
      /\ v.protocol_version = m.protocol_version /\ v.worker_epoch = m.worker_epoch
      /\ v.probe_id = m.probe_id /\ v.ready = m.ready /\ v.status = statusJson(m.status)
  BY DEF statsJson
<1>3. \A f \in StatsCounts : v[f] = m[f]
  BY DEF statsJson, StatsCounts
<1> HIDE DEF v
<1>4. readHeader(v) /\ validateHeader(v)
  BY <1>1, <1>2 DEF readHeader, validateHeader
<1>5. readStatusJson(v.status) /\ v.status.val.code = m.status.code
  <2>1. m.type \in StatusTypes /\ validateStatusValue(m.status)
    BY <1>1, ZenonT(40) DEF validateStats, StatusTypes
  <2> QED
    BY <1>2, <2>1, StatusWritten
<1>6. \A f \in StatsCounts : readUnsigned(v[f], MaxU64)
  BY <1>1, <1>3, ZenonT(40)
<1>7. validateStats(v, v.status.val)
  <2>1. /\ v.session_egress_frames = m.session_egress_frames
        /\ v.session_egress_high_watermark_frames = m.session_egress_high_watermark_frames
        /\ v.session_egress_bytes = m.session_egress_bytes
        /\ v.session_egress_high_watermark_bytes = m.session_egress_high_watermark_bytes
    BY <1>3 DEF StatsCounts
  <2> QED
    BY <1>1, <1>2, <1>5, <2>1, ZenonT(40) DEF validateStats, validateStatusValue
<1> QED
  BY <1>1, <1>2, <1>4, <1>5, <1>6, <1>7, ZenonT(40) DEF decodeStats, exactFields, Obj, v

\* All of them.
LEMMA MessageWritten ==
    ASSUME NEW m, MessageTyped(m), validate(m)
    PROVE  decodePayload(messageJson(m)) /\ messageJson(m).val.type.val = m.type
<1>0. m.type \in ServerTypes
  BY ZenonT(40) DEF MessageTyped
<1>1. CASE m.type = "hello_ack"
  BY <1>1, HelloAckWritten DEF messageJson, helloAckJson, decodePayload, readString, Obj, Str
<1>2. CASE m.type = "accepted"
  BY <1>2, AcceptedWritten DEF messageJson, acceptedJson, decodePayload, readString, Obj, Str
<1>3. CASE m.type = "rejected"
  BY <1>3, RejectedWritten DEF messageJson, rejectedJson, decodePayload, readString, Obj, Str
<1>4. CASE m.type = "token_delta"
  BY <1>4, TokenDeltaWritten DEF messageJson, tokenDeltaJson, decodePayload, readString, Obj, Str
<1>5. CASE m.type = "terminal"
  BY <1>5, TerminalWritten DEF messageJson, terminalJson, decodePayload, readString, Obj, Str
<1>6. CASE m.type = "stats"
  BY <1>6, StatsWritten DEF messageJson, statsJson, decodePayload, readString, Obj, Str
<1> QED
  BY <1>0, <1>1, <1>2, <1>3, <1>4, <1>5, <1>6 DEF ServerTypes

-----------------------------------------------------------------------------
\* And back, one lemma for each: an object that is decoded is the one encodePayload
\* writes of its struct.

\* HelloAck.
LEMMA HelloAckWritable ==
    ASSUME NEW x, IsObject(x), decodeHelloAck(x), x.val.type.val = "hello_ack",
           x.val.type.kind = "string"
    PROVE  Writable(x)
<1> DEFINE s == Struct(x)
           v == x.val
<1>0. /\ DOMAIN v = {"type", "protocol_version", "worker_epoch", "manifest", "limits"}
      /\ readHeader(v) /\ validateHeader(v)
      /\ readManifestJson(v.manifest) /\ readLimitsJson(v.limits)
      /\ validateManifest(v.manifest.val) /\ validateLimits(v.limits.val)
  BY ZenonT(40) DEF decodeHelloAck, exactFields
<1>1. /\ s.type = "hello_ack" /\ s.protocol_version = v.protocol_version
      /\ s.worker_epoch = v.worker_epoch /\ s.manifest = v.manifest.val
      /\ s.limits = v.limits.val
  BY <1>0 DEF Struct
<1>2. v.type = Str("hello_ack")
  BY <1>0 DEF IsObject, IsValue, Str
<1>3. manifestJson(s.manifest) = v.manifest
  BY <1>0, <1>1 DEF IsObject, IsValue, readManifestJson, exactFields, manifestJson, Obj
<1>4. limitsJson(s.limits) = v.limits
  BY <1>0, <1>1 DEF IsObject, IsValue, readLimitsJson, exactFields, limitsJson, Obj
<1> HIDE DEF s
<1>5. helloAckJson(s) = v
  <2>1. v = [f \in DOMAIN v |-> v[f]]
    BY DEF IsObject, IsValue
  <2> HIDE DEF v
  <2> QED
    BY <1>0, <1>1, <1>2, <1>3, <1>4, <2>1 DEF helloAckJson
<1>6. messageJson(s) = x
  BY <1>1, <1>5 DEF messageJson, Obj, IsObject, IsValue
<1>7. readHeader(s) /\ validateHeader(s)
  BY <1>0, <1>1 DEF readHeader, validateHeader
<1>8. MessageTyped(s)
  BY <1>0, <1>1, <1>7, ZenonT(40)
     DEF MessageTyped, ServerTypes, RequestTypes, StatusTypes, readManifestJson, readLimitsJson
<1>9. validate(s)
  BY <1>0, <1>1, <1>7, ZenonT(40) DEF validate, RequestTypes
<1> QED
  BY <1>6, <1>8, <1>9 DEF Writable, s

\* Accepted.
LEMMA AcceptedWritable ==
    ASSUME NEW x, IsObject(x), decodeAccepted(x), x.val.type.val = "accepted",
           x.val.type.kind = "string"
    PROVE  Writable(x)
<1> DEFINE s == Struct(x)
           v == x.val
<1>0. /\ DOMAIN v = {"type", "protocol_version", "worker_epoch", "request_id"}
      /\ readRequestEnvelope(v) /\ validateRequestEnvelope(v)
  BY ZenonT(40) DEF decodeAccepted, exactFields
<1>1. /\ s.type = "accepted" /\ s.protocol_version = v.protocol_version
      /\ s.worker_epoch = v.worker_epoch /\ s.request_id = v.request_id
  BY <1>0 DEF Struct
<1>2. v.type = Str("accepted")
  BY <1>0 DEF IsObject, IsValue, Str
<1> HIDE DEF s
<1>3. acceptedJson(s) = v
  <2>1. v = [f \in DOMAIN v |-> v[f]]
    BY DEF IsObject, IsValue
  <2> HIDE DEF v
  <2> QED
    BY <1>0, <1>1, <1>2, <2>1 DEF acceptedJson
<1>4. messageJson(s) = x
  BY <1>1, <1>3 DEF messageJson, Obj, IsObject, IsValue
<1>5. readHeader(s) /\ readUnsigned(s.request_id, MaxU64) /\ validateRequestEnvelope(s)
  BY <1>0, <1>1
     DEF readRequestEnvelope, readHeader, validateRequestEnvelope, validateHeader
<1>6. MessageTyped(s) /\ validate(s)
  BY <1>1, <1>5, ZenonT(40)
     DEF MessageTyped, validate, ServerTypes, RequestTypes, StatusTypes, validateRequestEnvelope
<1> QED
  BY <1>4, <1>6 DEF Writable, s

\* The Status of the messages that carry one.
LEMMA StatusWritable ==
    ASSUME NEW x, IsValue(x), readStatusJson(x)
    PROVE  /\ statusJson(x.val) = x
           /\ readString(x.val.code) /\ x.val.code.val \in StatusNames \cup {""}
           /\ readString(x.val.message)
<1>1. x.kind = "object" /\ DOMAIN x.val = {"code", "message"}
  BY ZenonT(40) DEF readStatusJson, exactFields
<1>2. statusJson(x.val) = x
  BY <1>1 DEF statusJson, IsValue, Obj
<1> QED
  BY <1>2, ZenonT(40) DEF readStatusJson

\* Rejected.
LEMMA RejectedWritable ==
    ASSUME NEW x, IsObject(x), decodeRejected(x), x.val.type.val = "rejected",
           x.val.type.kind = "string"
    PROVE  Writable(x)
<1> DEFINE s == Struct(x)
           v == x.val
<1>0. /\ DOMAIN v = {"type", "protocol_version", "worker_epoch", "request_id", "status"}
      /\ readRequestEnvelope(v) /\ validateRequestEnvelope(v)
      /\ readStatusJson(v.status) /\ validateRejected(v.status.val)
  BY ZenonT(40) DEF decodeRejected, exactFields
<1>1. /\ s.type = "rejected" /\ s.protocol_version = v.protocol_version
      /\ s.worker_epoch = v.worker_epoch /\ s.request_id = v.request_id
      /\ s.status = v.status.val
  BY <1>0 DEF Struct
<1>2. v.type = Str("rejected") /\ IsValue(v.status)
  BY <1>0 DEF IsObject, IsValue, Str
<1> HIDE DEF s
<1>3. rejectedJson(s) = v
  <2>1. v = [f \in DOMAIN v |-> v[f]]
    BY DEF IsObject, IsValue
  <2>2. statusJson(s.status) = v.status
    BY <1>0, <1>1, <1>2, StatusWritable, ZenonT(40)
  <2> HIDE DEF v
  <2> QED
    BY <1>0, <1>1, <1>2, <2>1, <2>2 DEF rejectedJson
<1>4. messageJson(s) = x
  BY <1>1, <1>3 DEF messageJson, Obj, IsObject, IsValue
<1>5. readHeader(s) /\ readUnsigned(s.request_id, MaxU64) /\ validateRequestEnvelope(s)
  BY <1>0, <1>1
     DEF readRequestEnvelope, readHeader, validateRequestEnvelope, validateHeader
<1>6. MessageTyped(s)
  BY <1>0, <1>1, <1>2, <1>5, StatusWritable, ZenonT(40)
     DEF MessageTyped, ServerTypes, RequestTypes, StatusTypes
<1>7. validate(s)
  BY <1>0, <1>1, <1>5, ZenonT(40) DEF validate, RequestTypes, validateRequestEnvelope
<1> QED
  BY <1>4, <1>6, <1>7 DEF Writable, s

\* TokenDelta.
LEMMA TokenDeltaWritable ==
    ASSUME NEW x, IsObject(x), decodeTokenDelta(x), x.val.type.val = "token_delta",
           x.val.type.kind = "string"
    PROVE  Writable(x)
<1> DEFINE s == Struct(x)
           v == x.val
<1>0. /\ DOMAIN v = {"type", "protocol_version", "worker_epoch", "request_id", "sequence_no",
                     "token_ids"}
      /\ readRequestEnvelope(v) /\ validateRequestEnvelope(v)
      /\ readUnsigned(v.sequence_no, MaxU64)
      /\ readTokenIds(v.token_ids) /\ validateTokenIds(v.token_ids.val)
  BY ZenonT(40) DEF decodeTokenDelta, exactFields
<1>1. /\ s.type = "token_delta" /\ s.protocol_version = v.protocol_version
      /\ s.worker_epoch = v.worker_epoch /\ s.request_id = v.request_id
      /\ s.sequence_no = v.sequence_no /\ s.token_ids = v.token_ids.val
  BY <1>0 DEF Struct
<1>2. v.type = Str("token_delta") /\ v.token_ids = Arr(s.token_ids)
  BY <1>0, <1>1 DEF IsObject, IsValue, Str, Arr, readTokenIds
<1> HIDE DEF s
<1>3. tokenDeltaJson(s) = v
  <2>1. v = [f \in DOMAIN v |-> v[f]]
    BY DEF IsObject, IsValue
  <2>2. DOMAIN v = {"type", "protocol_version", "worker_epoch", "request_id", "sequence_no",
                    "token_ids"}
    BY <1>0
  <2>3. /\ s.protocol_version = v.protocol_version /\ s.worker_epoch = v.worker_epoch
        /\ s.request_id = v.request_id /\ s.sequence_no = v.sequence_no
    BY <1>1
  <2> HIDE DEF v
  <2> QED
    BY <1>2, <2>1, <2>2, <2>3 DEF tokenDeltaJson
<1>4. messageJson(s) = x
  BY <1>1, <1>3 DEF messageJson, Obj, IsObject, IsValue
<1>5. readHeader(s) /\ readUnsigned(s.request_id, MaxU64) /\ validateRequestEnvelope(s)
  BY <1>0, <1>1
     DEF readRequestEnvelope, readHeader, validateRequestEnvelope, validateHeader
<1>6. MessageTyped(s) /\ validate(s)
  BY <1>0, <1>1, <1>5, ZenonT(40)
     DEF MessageTyped, validate, ServerTypes, RequestTypes, StatusTypes, readTokenIds,
         validateRequestEnvelope
<1> QED
  BY <1>4, <1>6 DEF Writable, s

\* Terminal.
LEMMA TerminalWritable ==
    ASSUME NEW x, IsObject(x), decodeTerminal(x), x.val.type.val = "terminal",
           x.val.type.kind = "string"
    PROVE  Writable(x)
<1> DEFINE s == Struct(x)
           v == x.val
<1>0. /\ DOMAIN v = {"type", "protocol_version", "worker_epoch", "request_id", "status",
                     "finish_reason", "usage"}
      /\ readRequestEnvelope(v) /\ validateRequestEnvelope(v)
      /\ readStatusJson(v.status) /\ readUsageJson(v.usage)
  BY ZenonT(40) DEF decodeTerminal, exactFields
<1>1. /\ s.type = "terminal" /\ s.protocol_version = v.protocol_version
      /\ s.worker_epoch = v.worker_epoch /\ s.request_id = v.request_id
      /\ s.status = v.status.val /\ s.finish_reason = v.finish_reason
      /\ s.usage = v.usage.val
  BY <1>0 DEF Struct
<1>2. v.type = Str("terminal") /\ IsValue(v.status) /\ IsValue(v.usage)
  BY <1>0 DEF IsObject, IsValue, Str
<1> HIDE DEF s
<1>3. terminalJson(s) = v
  <2>1. v = [f \in DOMAIN v |-> v[f]]
    BY DEF IsObject, IsValue
  <2>2. statusJson(s.status) = v.status
    BY <1>0, <1>1, <1>2, StatusWritable, ZenonT(40)
  <2>3. usageJson(s.usage) = v.usage
    BY <1>0, <1>1, <1>2 DEF usageJson, readUsageJson, exactFields, IsValue, Obj
  <2> HIDE DEF v
  <2> QED
    BY <1>0, <1>1, <1>2, <2>1, <2>2, <2>3 DEF terminalJson
<1>4. messageJson(s) = x
  BY <1>1, <1>3 DEF messageJson, Obj, IsObject, IsValue
<1>5. readHeader(s) /\ readUnsigned(s.request_id, MaxU64) /\ validateRequestEnvelope(s)
  BY <1>0, <1>1
     DEF readRequestEnvelope, readHeader, validateRequestEnvelope, validateHeader
<1>6. /\ readUnsigned(s.usage.prompt_tokens, MaxU64)
      /\ readUnsigned(s.usage.completion_tokens, MaxU64)
  BY <1>0, <1>1 DEF readUsageJson
<1>7. /\ s.finish_reason.kind = "null"
         \/ (readString(s.finish_reason) /\ s.finish_reason.val \in FinishNames \cup {""})
      /\ validateTerminal(s, s.status)
  BY <1>1, ZenonT(40) DEF decodeTerminal, validateTerminal
<1>8. MessageTyped(s)
  BY <1>0, <1>1, <1>2, <1>5, <1>6, <1>7, StatusWritable, ZenonT(40)
     DEF MessageTyped, ServerTypes, RequestTypes, StatusTypes
<1>9. validate(s)
  BY <1>1, <1>5, <1>7, ZenonT(40) DEF validate, RequestTypes, validateRequestEnvelope
<1> QED
  BY <1>4, <1>8, <1>9 DEF Writable, s

\* Stats.
LEMMA StatsWritable ==
    ASSUME NEW x, IsObject(x), decodeStats(x), x.val.type.val = "stats",
           x.val.type.kind = "string"
    PROVE  Writable(x)
<1> DEFINE s == Struct(x)
           v == x.val
<1>0. /\ DOMAIN v =
           {"type", "protocol_version", "worker_epoch", "probe_id", "ready", "status", "uptime_ms",
            "active_requests", "reserved_input_tokens", "reserved_output_tokens",
            "session_egress_frames", "session_egress_bytes",
            "session_egress_high_watermark_frames", "session_egress_high_watermark_bytes",
            "rejected_requests", "backpressure_requests", "cancelled_requests"}
      /\ readHeader(v) /\ validateHeader(v) /\ readUnsigned(v.probe_id, MaxU64)
      /\ readBoolean(v.ready) /\ readStatusJson(v.status)
      /\ \A f \in StatsCounts : readUnsigned(v[f], MaxU64)
      /\ validateStats(v, v.status.val)
  BY ZenonT(40) DEF decodeStats, exactFields
<1>1. /\ s.type = "stats" /\ s.protocol_version = v.protocol_version
      /\ s.worker_epoch = v.worker_epoch /\ s.probe_id = v.probe_id /\ s.ready = v.ready
      /\ s.status = v.status.val
  BY <1>0 DEF Struct
<1>2. \A f \in StatsCounts : s[f] = v[f]
  BY <1>0 DEF Struct, StatsCounts
<1>3. v.type = Str("stats") /\ IsValue(v.status)
  BY <1>0 DEF IsObject, IsValue, Str
<1> HIDE DEF s
<1>4. statsJson(s) = v
  <2>1. v = [f \in DOMAIN v |-> v[f]]
    BY DEF IsObject, IsValue
  <2>2. statusJson(s.status) = v.status
    BY <1>0, <1>1, <1>3, StatusWritable, ZenonT(40)
  <2> HIDE DEF v
  <2> QED
    BY <1>0, <1>1, <1>2, <1>3, <2>1, <2>2 DEF statsJson, StatsCounts
<1>5. messageJson(s) = x
  BY <1>1, <1>4 DEF messageJson, Obj, IsObject, IsValue
<1>6. readHeader(s) /\ validateHeader(s)
  BY <1>0, <1>1 DEF readHeader, validateHeader
<1>7. \A f \in StatsCounts : readUnsigned(s[f], MaxU64)
  BY <1>0, <1>2, ZenonT(40)
<1>8. validateStats(s, s.status)
  <2>1. /\ s.session_egress_frames = v.session_egress_frames
        /\ s.session_egress_high_watermark_frames = v.session_egress_high_watermark_frames
        /\ s.session_egress_bytes = v.session_egress_bytes
        /\ s.session_egress_high_watermark_bytes = v.session_egress_high_watermark_bytes
    BY <1>2 DEF StatsCounts
  <2> QED
    BY <1>0, <1>1, <2>1, ZenonT(40) DEF validateStats
<1>9. MessageTyped(s)
  BY <1>0, <1>1, <1>3, <1>6, <1>7, StatusWritable, ZenonT(40)
     DEF MessageTyped, ServerTypes, RequestTypes, StatusTypes
<1>10. validate(s)
  BY <1>1, <1>6, <1>8, ZenonT(40) DEF validate, RequestTypes
<1> QED
  BY <1>5, <1>9, <1>10 DEF Writable, s

\* All of them: a client that takes what the Worker's own decoder takes takes
\* nothing that a Worker cannot write.
THEOREM DecodedIsWritable ==
    ASSUME NEW x, IsObject(x), decodePayload(x), x.val.type.val \in ServerTypes
    PROVE  Writable(x)
<1>1. x.val.type.kind = "string"
  BY ZenonT(40) DEF decodePayload, readString
<1>2. CASE x.val.type.val = "hello_ack"
  BY <1>1, <1>2, HelloAckWritable DEF decodePayload
<1>3. CASE x.val.type.val = "accepted"
  BY <1>1, <1>3, AcceptedWritable DEF decodePayload
<1>4. CASE x.val.type.val = "rejected"
  BY <1>1, <1>4, RejectedWritable DEF decodePayload
<1>5. CASE x.val.type.val = "token_delta"
  BY <1>1, <1>5, TokenDeltaWritable DEF decodePayload
<1>6. CASE x.val.type.val = "terminal"
  BY <1>1, <1>6, TerminalWritable DEF decodePayload
<1>7. CASE x.val.type.val = "stats"
  BY <1>1, <1>7, StatsWritable DEF decodePayload
<1> QED
  BY <1>2, <1>3, <1>4, <1>5, <1>6, <1>7 DEF ServerTypes

-----------------------------------------------------------------------------
\* The SMT backend infers types before it encodes an obligation, at a cost that grows
\* along a module; this fact has none it could infer, and it encodes without them.
LEMMA RecordUpdate == \A r \in [at : {0}] : [r EXCEPT !.at = 0] = r
BY SMT

USE RecordUpdate

\* The messages of the client, one lemma for each.

LEMMA HelloUnderstood ==
    ASSUME NEW m, validate_manifest(m), require_string(m.model_id), require_string(m.revision)
    PROVE  decodePayload(encode_hello(m))
<1>1. require_name(m.model_id) /\ require_name(m.revision)
  BY ZenonT(40) DEF validate_manifest, truthy, require_string, require_name
<1> DEFINE x == encode_hello(m)
<1>2. /\ x.kind = "object" /\ DOMAIN x.val = {"type", "protocol_version", "model_id", "revision"}
      /\ x.val.type = Str("hello") /\ x.val.protocol_version = Num(PROTOCOL_VERSION)
      /\ x.val.model_id = m.model_id /\ x.val.revision = m.revision
  BY DEF encode_hello, Obj
<1> HIDE DEF x
<1>3. /\ readUnsigned(x.val.protocol_version, MaxU32)
      /\ x.val.protocol_version.val = kProtocolVersion
  BY <1>2, WidthsOrdered DEF readUnsigned, IsInt, Num, PROTOCOL_VERSION, kProtocolVersion
<1>4. decodeHello(x)
  BY <1>1, <1>2, <1>3, ZenonT(40) DEF decodeHello, require_name, exactFields, readString
<1> QED
  BY <1>2, <1>4 DEF decodePayload, readString, Str, x

\* What encode_cancel writes, decodeCancel takes.
LEMMA CancelUnderstood ==
    ASSUME NEW id, NEW e, require_int(id, 1, MaxU64), require_int(e, 1, MaxU64)
    PROVE  decodePayload(encode_cancel(id, e))
BY WidthsOrdered
   DEF require_int, encode_cancel, decodePayload, decodeCancel, exactFields, readString,
       readRequestEnvelope, readHeader, validateRequestEnvelope, validateHeader,
       readUnsigned, IsInt, Obj, Str, Num, PROTOCOL_VERSION, kProtocolVersion

\* What encode_health writes, decodeHealth takes.
LEMMA HealthUnderstood ==
    ASSUME NEW id, NEW e, require_int(id, 1, MaxU64), require_int(e, 1, MaxU64)
    PROVE  decodePayload(encode_health(id, e))
BY WidthsOrdered
   DEF require_int, encode_health, decodePayload, decodeHealth, exactFields, readString,
       readHeader, validateHeader, readUnsigned, IsInt, Obj, Str, Num, PROTOCOL_VERSION,
       kProtocolVersion

\* What encode_submit writes of a valid request, decodeSubmit takes.
LEMMA SubmitUnderstood ==
    ASSUME NEW r, NEW e, validate_request(r), require_int(e, 1, MaxU64)
    PROVE  decodePayload(encode_submit(r, e))
<1> DEFINE x == encode_submit(r, e)
           sampling == [temperature |-> r.temperature, top_k |-> r.top_k, top_p |-> r.top_p,
                        random_seed |-> r.random_seed]
<1>1. /\ x.kind = "object"
      /\ DOMAIN x.val =
           {"type", "protocol_version", "worker_epoch", "request_id", "priority", "timeout_ms",
            "trace_id", "input_token_ids", "max_new_tokens", "streaming", "sampling", "end_id",
            "pad_id", "stop_sequences"}
  BY DEF encode_submit, Obj
<1>2. /\ x.val.type = Str("submit") /\ x.val.protocol_version = Num(PROTOCOL_VERSION)
      /\ x.val.worker_epoch = e /\ x.val.request_id = r.request_id
      /\ x.val.priority = r.priority /\ x.val.timeout_ms = r.timeout_ms
      /\ x.val.trace_id = r.trace_id /\ x.val.max_new_tokens = r.max_new_tokens
      /\ x.val.streaming = r.streaming /\ x.val.end_id = r.end_id /\ x.val.pad_id = r.pad_id
  BY DEF encode_submit, Obj
<1>3. /\ x.val.input_token_ids = Arr(r.input_token_ids)
      /\ x.val.sampling = Obj(sampling)
      /\ x.val.stop_sequences
           = Arr([i \in DOMAIN r.stop_sequences |-> Arr(r.stop_sequences[i])])
  BY DEF encode_submit, Obj
<1> HIDE DEF x
<1>4. readRequestEnvelope(x.val) /\ validateRequestEnvelope(x.val)
  BY <1>2, WidthsOrdered
     DEF validate_request, require_int, readRequestEnvelope, validateRequestEnvelope, readHeader,
         validateHeader, readUnsigned, IsInt, Num, PROTOCOL_VERSION, kProtocolVersion
<1>5. /\ readSigned32(x.val.priority) /\ readString(x.val.trace_id)
      /\ readUnsigned(x.val.max_new_tokens, MaxU32) /\ x.val.max_new_tokens.val # 0
      /\ readBoolean(x.val.streaming)
  BY <1>2, WidthsOrdered
     DEF validate_request, require_int, require_string, require_bool, readSigned32, readString,
         readBoolean, readUnsigned, IsInt
<1>6. /\ x.val.timeout_ms.kind = "null" \/ readUnsigned(x.val.timeout_ms, MaxU64)
      /\ x.val.timeout_ms.kind = "null" \/ x.val.timeout_ms.val # 0
  BY <1>2, WidthsOrdered DEF validate_request, require_int, readUnsigned, IsInt
<1>7. \A f \in {"end_id", "pad_id"} :
        x.val[f].kind = "null" \/ (readSigned32(x.val[f]) /\ 0 <= x.val[f].val)
  <2>1. \A f \in {"end_id", "pad_id"} : r[f].kind = "null" \/ require_token(r[f])
    BY DEF validate_request
  <2> QED
    BY <1>2, <2>1, TokenAgrees
<1>8. readTokenIds(x.val.input_token_ids) /\ validateTokenIds(x.val.input_token_ids.val)
  BY <1>3, TokensAgree DEF validate_request, readTokenIds, Arr
<1>9. /\ readStopSequences(x.val.stop_sequences)
      /\ \A i \in DOMAIN x.val.stop_sequences.val :
           validateTokenIds(x.val.stop_sequences.val[i].val)
  BY <1>3, TokensAgree DEF validate_request, readStopSequences, readTokenIds, Arr
<1>10. readSamplingJson(x.val.sampling) /\ validateSampling(x.val.sampling.val)
  <2>1. /\ x.val.sampling.kind = "object" /\ x.val.sampling.val = sampling
        /\ DOMAIN sampling = {"temperature", "top_k", "top_p", "random_seed"}
    BY <1>3 DEF Obj
  <2>2. /\ readFiniteDouble(r.temperature) /\ 0 < Units(r.temperature)
        /\ readFiniteDouble(r.top_p) /\ 0 < Units(r.top_p) /\ Units(r.top_p) <= One
        /\ IsFinite(r.temperature) /\ IsFinite(r.top_p)
    <3>1. \A y : IsNumber(y) => Units(y) \in Int
      BY WidthsOrdered DEF IsNumber, IsInt, Units
    <3> QED
      BY <3>1, WidthsOrdered DEF validate_request, require_float, readFiniteDouble
  <2>3. readSigned32(r.top_k) /\ 0 <= r.top_k.val /\ readUnsigned(r.random_seed, MaxU64)
    BY WidthsOrdered DEF validate_request, require_int, readSigned32, readUnsigned, IsInt
  <2> QED
    BY <2>1, <2>2, <2>3 DEF readSamplingJson, validateSampling, exactFields
<1>11. decodeSubmit(x)
  BY <1>1, <1>4, <1>5, <1>6, <1>7, <1>8, <1>9, <1>10 DEF decodeSubmit, exactFields
<1> QED
  BY <1>1, <1>2, <1>11 DEF decodePayload, readString, Str, x

-----------------------------------------------------------------------------
\* What the writers put on the wire, and what follows of the verdict.
WireInv ==
    /\ expected \in Nat
    /\ from \in {"nobody", "python", "worker", "peer"}
    /\ verdict \in {"none", "accepted", "refused"}
    /\ from = "nobody" => verdict = "none"
    /\ from = "python" => decodePayload(payload) /\ verdict # "refused"
    /\ from = "worker" => decodePayload(payload) /\ payload.val.type.val \in ServerTypes
    /\ from = "peer" => IsObject(payload)
    /\ from \in {"worker", "peer"} =>
         /\ verdict = "accepted" => decode_server_message(payload, expected)
         /\ verdict = "refused" => ~decode_server_message(payload, expected)

\* Nothing is written yet.
LEMMA WireInvInit == WireInit => WireInv
BY EpochsAreIntegers DEF WireInit, WireInv

\* Every step keeps the invariant: the message and the verdict on it belong together.
LEMMA WireInvNext == WireInv /\ [WireNext]_WireVars => WireInv'
<1> SUFFICES ASSUME WireInv, [WireNext]_WireVars PROVE WireInv'
  OBVIOUS
<1>0. ASSUME NEW who \in {"python", "worker", "peer"}, NEW x, from = "nobody", Writes(who, x),
             who = "python" => decodePayload(x),
             who = "worker" => decodePayload(x) /\ x.val.type.val \in ServerTypes,
             who = "peer" => IsObject(x)
      PROVE  WireInv'
  BY <1>0 DEF WireInv, Writes
<1>1. ASSUME NEW m \in Manifests, from = "nobody", PythonHello(m) PROVE WireInv'
  BY <1>0, <1>1, HelloUnderstood, ArgumentsTyped DEF PythonHello
<1>2. ASSUME NEW r \in Requests, NEW e \in Numbers, from = "nobody", PythonSubmit(r, e)
      PROVE  WireInv'
  BY <1>0, <1>2, SubmitUnderstood DEF PythonSubmit
<1>3. ASSUME NEW i \in Numbers, NEW e \in Numbers, from = "nobody", PythonCancel(i, e)
      PROVE  WireInv'
  BY <1>0, <1>3, CancelUnderstood DEF PythonCancel
<1>4. ASSUME NEW i \in Numbers, NEW e \in Numbers, from = "nobody", PythonHealth(i, e)
      PROVE  WireInv'
  BY <1>0, <1>4, HealthUnderstood DEF PythonHealth
<1>5. ASSUME NEW m \in Messages, from = "nobody", WorkerWrites(m) PROVE WireInv'
  <2>1. m.type \in ServerTypes
    BY ArgumentsTyped, ZenonT(40) DEF MessageTyped
  <2> QED
    BY <1>0, <1>5, <2>1, MessageWritten, ArgumentsTyped DEF WorkerWrites
<1>6. ASSUME NEW x \in Payloads, from = "nobody", PeerWrites(x) PROVE WireInv'
  BY <1>0, <1>6, ArgumentsTyped DEF PeerWrites
<1>7. CASE Reads
  BY <1>7 DEF WireInv, Reads
<1>8. CASE UNCHANGED WireVars
  BY <1>8 DEF WireInv, WireVars
<1> QED
  BY <1>1, <1>2, <1>3, <1>4, <1>5, <1>6, <1>7, <1>8 DEF WireNext, Write

\* No message is lost to a disagreement of the codecs.
THEOREM WrittenIsReadAlways == WireSpec => []WrittenIsRead
<1>1. WireInv => WrittenIsRead
  <2>1. SUFFICES ASSUME WireInv PROVE WrittenIsRead
    OBVIOUS
  <2>2. ASSUME from = "worker", verdict # "none"
        PROVE  verdict = "accepted" <=> Expects(payload)
    <3>1. /\ expected \in Nat
          /\ decodePayload(payload) /\ payload.val.type.val \in ServerTypes
      BY <2>1, <2>2, ZenonT(40) DEF WireInv
    <3>2. verdict = "accepted" <=> decode_server_message(payload, expected)
      BY <2>1, <2>2, ZenonT(40) DEF WireInv
    <3> QED
      BY <3>1, <3>2, DecodersAgree, ZenonT(40) DEF Expects
  <2> QED
    BY <2>1, <2>2, ZenonT(40) DEF WireInv, WrittenIsRead
<1> QED
  BY <1>1, WireInvInit, WireInvNext, PTL DEF WireSpec

\* The client accepts nothing that a Worker of this protocol cannot write.
THEOREM ReadIsWritableAlways == WireSpec => []ReadIsWritable
<1>1. WireInv => ReadIsWritable
  BY DecodersAgree, DecodedIsWritable DEF WireInv, ReadIsWritable, Expects
<1> QED
  BY <1>1, WireInvInit, WireInvNext, PTL DEF WireSpec

\* The two codecs, written in two languages, have one idea of a message, for every
\* object either side may meet.
THEOREM CodecsAgreeAlways == WireSpec => []CodecsAgree
<1>1. WrittenIsRead /\ ReadIsWritable => CodecsAgree
  BY DEF CodecsAgree
<1> QED
  BY <1>1, WrittenIsReadAlways, ReadIsWritableAlways, PTL

-----------------------------------------------------------------------------
\* The stages of a request.

\* What is known of a configuration that was loaded.
LoadedConfig(c) ==
    /\ config_string(c.socket_path)
    /\ \A f \in Seconds : config_number(c[f])
    /\ \A f \in Capacities : config_integer(c[f], 1, MaxI32)
    /\ validate_manifest(c.manifest)

\* _manifest of config.py is stricter than _validate_manifest of protocol.py.
LEMMA ManifestStricter ==
    ASSUME NEW x, config_manifest(x)
    PROVE  validate_manifest(x.val)
<1>1. ASSUME NEW f, config_string(x.val[f]) PROVE truthy(x.val[f])
  BY <1>1, ZenonT(40) DEF config_string, truthy
<1>2. ASSUME NEW f, config_integer(x.val[f], 0, MaxI32) PROVE require_token(x.val[f])
  BY <1>2 DEF config_integer, require_token, require_int
<1>3. ASSUME NEW f, config_integer(x.val[f], 1, MaxI32) PROVE require_int(x.val[f], 1, MaxU32)
  BY <1>3, WidthsOrdered DEF config_integer, require_int, IsInt
<1> QED
  BY <1>1, <1>2, <1>3 DEF config_manifest, validate_manifest, manifest_numbers

\* load establishes what the rest of the path relies on.
LEMMA LoadGivesLoaded ==
    ASSUME NEW root, NEW worker, load(root, worker)
    PROVE  LoadedConfig(Config(root, worker))
<1> DEFINE c == Config(root, worker)
<1>1. c.socket_path = worker.val.socket_path /\ c.manifest = worker.val.manifest.val
  BY DEF Config
<1>2. /\ config_string(worker.val.socket_path) /\ config_manifest(worker.val.manifest)
      /\ \A f \in Seconds : config_number(c[f])
      /\ \A f \in Capacities : config_integer(c[f], 1, MaxI32)
  BY DEF load
<1> QED
  BY <1>1, <1>2, ManifestStricter DEF LoadedConfig

\* The constructors take a configuration that was loaded.
LEMMA LoadedBuilds ==
    ASSUME NEW c, LoadedConfig(c)
    PROVE  client_config_valid(c) /\ runtime_options_valid(c)
<1>1. \A f \in Seconds : IsFinite(c[f]) /\ Units(c[f]) > 0
  BY DEF LoadedConfig, config_number
<1>2. \A f \in Capacities : c[f].val \in Int /\ 1 <= c[f].val /\ c[f].val <= MaxI32
  BY DEF LoadedConfig, config_integer, IsInt
<1>3. /\ c.max_pending_requests.val > 0 /\ c.max_client_delta_events_per_request.val > 0
      /\ c.max_sse_delta_events_per_request.val > 0 /\ c.sampling_top_k.val > 0
      /\ c.sampling_top_k.val <= MaxI32
  BY <1>2 DEF Capacities
<1>4. Units(c.accept_timeout_seconds) > 0
  BY <1>1 DEF Seconds
<1> QED
  BY <1>1, <1>3, <1>4, ZenonT(40)
     DEF client_config_valid, runtime_options_valid, LoadedConfig, config_string

-----------------------------------------------------------------------------
\* What is known of a command that was parsed.
ParsedCommand(c) ==
    /\ require_bool(c.stream)
    /\ require_int(c.max_new_tokens, 1, MaxU32)
    /\ require_float(c.temperature) /\ Units(c.temperature) > 0
    /\ require_float(c.top_p) /\ Units(c.top_p) > 0 /\ Units(c.top_p) <= One
    /\ require_int(c.random_seed, 0, MaxU64)

\* A number that the parser takes is a positive float.
LEMMA NumberConverts ==
    ASSUME NEW x, NEW maximum \in Int, number(x, maximum) = "ok"
    PROVE  /\ require_float(Flt(Units(x)))
           /\ Units(Flt(Units(x))) > 0 /\ Units(Flt(Units(x))) <= maximum
<1>1. IsNumber(x) /\ IsFinite(x) /\ Units(x) > 0 /\ Units(x) <= maximum
  BY DEF number, OkIf
<1>2. Units(x) \in Int
  BY <1>1, WidthsOrdered DEF IsNumber, IsInt, Units
<1>3. Units(Flt(Units(x))) = Units(x) /\ Flt(Units(x)).kind = "float"
      /\ Flt(Units(x)).val = Units(x)
  BY DEF Flt, Units
<1> QED
  BY <1>1, <1>2, <1>3 DEF require_float, IsNumber, IsFinite

\* parse_chat_completion_request makes a command whose fields the codec takes.
LEMMA ParseGivesParsed ==
    ASSUME NEW x, NEW m, parse(x, m) = "ok", validate_manifest(m)
    PROVE  ParsedCommand(Command(x.val, m))
<1> DEFINE b == x.val
           s == checks(b, m)
           c == Command(b, m)
<1>1. First(checks(b, m)) = "ok"
  BY DEF parse
<1>2. \A i \in DOMAIN s : s[i] = "ok"
  BY <1>1 DEF First
<1>3. /\ boolean(Get(b, "stream", Bool(FALSE))) = "ok"
      /\ integer(max_value(b, m), 1, m.max_output_tokens.val) = "ok"
      /\ number(Get(b, "temperature", Flt(One)), 2 * One) = "ok"
      /\ number(Get(b, "top_p", Flt(One)), One) = "ok"
      /\ integer(Get(b, "seed", Num(0)), 0, MaxU32) = "ok"
  <2> HIDE DEF s
  <2>1. /\ s[3] = boolean(Get(b, "stream", Bool(FALSE)))
        /\ s[6] = integer(max_value(b, m), 1, m.max_output_tokens.val)
        /\ s[7] = number(Get(b, "temperature", Flt(One)), 2 * One)
        /\ s[8] = number(Get(b, "top_p", Flt(One)), One)
        /\ s[9] = integer(Get(b, "seed", Num(0)), 0, MaxU32)
    BY ZenonT(40) DEF checks, s
  <2>2. {3, 6, 7, 8, 9} \subseteq DOMAIN s
    BY DEF checks, s
  <2>3. s[3] = "ok" /\ s[6] = "ok" /\ s[7] = "ok" /\ s[8] = "ok" /\ s[9] = "ok"
    BY <1>2, <2>2
  <2> QED
    BY <2>1, <2>3, ZenonT(40)
<1>4. /\ c.stream = Get(b, "stream", Bool(FALSE)) /\ c.max_new_tokens = max_value(b, m)
      /\ c.temperature = Flt(Units(Get(b, "temperature", Flt(One))))
      /\ c.top_p = Flt(Units(Get(b, "top_p", Flt(One))))
      /\ c.random_seed = Get(b, "seed", Num(0))
  BY DEF Command
<1>5. require_bool(c.stream)
  BY <1>3, <1>4, ZenonT(40) DEF boolean, OkIf, require_bool
<1>6. require_int(c.max_new_tokens, 1, MaxU32)
  <2>1. require_int(m.max_output_tokens, 1, MaxU32)
    BY DEF validate_manifest, manifest_numbers
  <2>2. IsInt(c.max_new_tokens) /\ 1 <= c.max_new_tokens.val
        /\ c.max_new_tokens.val <= m.max_output_tokens.val
    BY <1>3, <1>4 DEF integer, OkIf
  <2> QED
    BY <2>1, <2>2, WidthsOrdered DEF require_int, IsInt
<1>7. require_float(c.temperature) /\ Units(c.temperature) > 0
  BY <1>3, <1>4, NumberConverts, WidthsOrdered
<1>8. require_float(c.top_p) /\ Units(c.top_p) > 0 /\ Units(c.top_p) <= One
  BY <1>3, <1>4, NumberConverts, WidthsOrdered
<1>9. require_int(c.random_seed, 0, MaxU64)
  BY <1>3, <1>4, WidthsOrdered DEF integer, OkIf, require_int, IsInt
<1> QED
  BY <1>5, <1>6, <1>7, <1>8, <1>9 DEF ParsedCommand

-----------------------------------------------------------------------------
\* The Tokens and the timeout of r are in the ranges of the protocol.
InRange(r) ==
    /\ TokensFit(r.input_token_ids)
    /\ \A i \in DOMAIN r.stop_sequences : TokensFit(r.stop_sequences[i])
    /\ r.timeout_ms.val \in 1..MaxU64

\* What is known of a request that GatewayService.submit made.
MadeRequest(r, m) ==
    FitsModel(r.input_token_ids, r.max_new_tokens, m) /\ (InRange(r) => validate_request(r))

\* GatewayService.submit makes a request the codec takes, but for its edges.
LEMMA GenerationIsMade ==
    ASSUME LoadedConfig(config), ParsedCommand(command), next_id \in 1..(MaxId - 1),
           NEW prompt, NEW stops,
           normalize_token_ids(prompt), \A i \in DOMAIN stops : normalize_token_ids(stops[i]),
           FitsModel(prompt, command.max_new_tokens, config.manifest)
    PROVE  MadeRequest(Generation(prompt, stops), config.manifest)
<1> DEFINE r == Generation(prompt, stops)
<1>1. /\ r.request_id = Num(next_id) /\ r.input_token_ids = prompt
      /\ r.max_new_tokens = command.max_new_tokens /\ r.priority = Num(0)
      /\ r.trace_id = Str("chatcmpl") /\ r.streaming = command.stream
  BY DEF Generation
<1>2. /\ r.temperature = command.temperature /\ r.top_k = config.sampling_top_k
      /\ r.top_p = command.top_p /\ r.random_seed = command.random_seed
      /\ r.end_id = config.manifest.eos_token_id /\ r.pad_id = config.manifest.pad_token_id
      /\ r.stop_sequences = stops
      /\ r.timeout_ms = Num(Milliseconds(config.request_timeout_seconds))
  BY DEF Generation
<1> HIDE DEF r
<1>3. ASSUME InRange(r) PROVE validate_request(r)
  <2>1. ASSUME NEW s, normalize_token_ids(s), TokensFit(s) PROVE require_tokens(s)
    BY <2>1 DEF normalize_token_ids, TokensFit, require_tokens, require_token, require_int
  <2>2. require_tokens(r.input_token_ids)
    BY <1>1, <1>3, <2>1 DEF InRange
  <2>3. \A i \in DOMAIN r.stop_sequences : require_tokens(r.stop_sequences[i])
    BY <1>2, <1>3, <2>1 DEF InRange
  <2>4. require_int(r.timeout_ms, 1, MaxU64)
    BY <1>2, <1>3, WidthsOrdered DEF InRange, require_int, IsInt, Num
  <2>5. require_int(r.request_id, 1, MaxU64) /\ require_int(r.priority, -MaxI32 - 1, MaxI32)
    BY <1>1, WidthsOrdered, MaxIdInRange DEF require_int, IsInt, Num
  <2>6. require_string(r.trace_id)
    BY <1>1 DEF require_string, Str
  <2>7. require_int(r.top_k, 0, MaxI32)
    BY <1>2 DEF LoadedConfig, Capacities, config_integer, require_int, IsInt
  <2>8. \A f \in {"end_id", "pad_id"} : require_token(r[f])
    BY <1>2 DEF LoadedConfig, validate_manifest, manifest_numbers
  <2> QED
    BY <1>1, <1>2, <2>2, <2>3, <2>4, <2>5, <2>6, <2>7, <2>8, ZenonT(40)
       DEF ParsedCommand, validate_request
<1> QED
  BY <1>1, <1>3 DEF MadeRequest, r

-----------------------------------------------------------------------------
Before == {"off", "exited"}
Started == {"loaded", "no_tokenizer", "serving", "connected", "parsed", "submitted"}

\* The inductive invariant: what the stages passed so far have established.
PathInv ==
    /\ phase \in Before \cup Started
    /\ next_id \in 1..(MaxId - 1)
    /\ phase \in Started => LoadedConfig(config)
    /\ phase \in Before \cup {"parsed", "submitted"} => answer = "none"
    /\ phase \in {"parsed", "submitted"} => ParsedCommand(command)
    /\ phase = "submitted" \/ answer = "codec_refused" => MadeRequest(request, config.manifest)
    /\ answer = "codec_refused" => ~validate_request(request)
    /\ answer = "sent" => validate_request(request)
    /\ answer # "client_refused"

\* Nothing is loaded yet.
LEMMA PathInvInit == Init => PathInv
BY DEF Init, PathInv, Before, Started

\* Every stage keeps what the stages before it established.
LEMMA PathInvNext == PathInv /\ [Next]_vars => PathInv'
<1> SUFFICES ASSUME PathInv, [Next]_vars PROVE PathInv'
  OBVIOUS
<1>1. ASSUME NEW root \in Roots, NEW worker \in Workers, Load(root, worker) PROVE PathInv'
  BY <1>1, LoadGivesLoaded DEF PathInv, Load, Before, Started
<1>2. ASSUME NEW t \in Tokenizers, build_gateway_service(t) PROVE PathInv'
  <2>1. client_config_valid(config) /\ runtime_options_valid(config)
    BY <1>2, LoadedBuilds DEF PathInv, build_gateway_service, Started
  <2> QED
    BY <1>2, <2>1 DEF PathInv, build_gateway_service, Before, Started
<1>3. ASSUME NEW m \in WorkerManifests, Connect(m) PROVE PathInv'
  <2>1. validate_manifest(config.manifest)
    BY <1>3 DEF PathInv, Connect, Started, LoadedConfig
  <2> QED
    BY <1>3, <2>1 DEF PathInv, Connect, Before, Started
<1>4. ASSUME NEW x \in Bodies, Post(x) PROVE PathInv'
  <2>1. phase = "connected" /\ LoadedConfig(config) /\ UNCHANGED <<config, next_id>>
    BY <1>4 DEF PathInv, Post, Started
  <2>2. CASE parse(x, config.manifest) = "ok"
    <3>1. phase' = "parsed" /\ answer' = "none" /\ command' = Command(x.val, config.manifest)
      BY <1>4, <2>2 DEF Post
    <3>2. ParsedCommand(command')
      BY <2>1, <2>2, <3>1, ParseGivesParsed DEF LoadedConfig
    <3> QED
      BY <2>1, <3>1, <3>2 DEF PathInv, Before, Started
  <2>3. CASE parse(x, config.manifest) # "ok"
    <3>1. phase' = "connected" /\ answer' = parse(x, config.manifest)
      BY <1>4, <2>3 DEF Post, Answer
    <3>2. answer' \in {"ok", "uncaught", "invalid"}
      BY <3>1 DEF parse, First
    <3> QED
      BY <2>1, <3>1, <3>2 DEF PathInv, Before, Started
  <2> QED
    BY <2>2, <2>3
<1>5. ASSUME NEW prompt \in TokenLists, NEW stops \in [DOMAIN command.stop -> TokenLists],
             phase = "parsed", submit(prompt, stops)
      PROVE  PathInv'
  <2>1. /\ LoadedConfig(config) /\ ParsedCommand(command) /\ next_id \in 1..(MaxId - 1)
        /\ UNCHANGED <<config, command>>
    BY <1>5 DEF PathInv, submit, Started
  <2>2. NextId(next_id) \in 1..(MaxId - 1)
    BY <2>1, MaxIdInRange DEF NextId
  <2>3. CASE Answer("invalid") /\ UNCHANGED <<next_id, request>>
    BY <2>1, <2>3 DEF PathInv, Answer, Before, Started
  <2>4. CASE next_id' = NextId(next_id) /\ Answer("uncaught") /\ UNCHANGED request
    BY <2>1, <2>2, <2>4 DEF PathInv, Answer, Before, Started
  <2>5. CASE /\ normalize_token_ids(prompt)
             /\ \A i \in DOMAIN stops : normalize_token_ids(stops[i])
             /\ FitsModel(prompt, command.max_new_tokens, config.manifest)
             /\ next_id' = NextId(next_id)
             /\ phase' = "submitted" /\ request' = Generation(prompt, stops)
             /\ UNCHANGED answer
    <3>1. MadeRequest(request', config.manifest)
      BY <2>1, <2>5, GenerationIsMade
    <3> QED
      BY <1>5, <2>1, <2>2, <2>5, <3>1 DEF PathInv, Before, Started
  <2> QED
    BY <1>5, <2>3, <2>4, <2>5 DEF submit
<1>6. ASSUME NEW fits \in BOOLEAN, ClientSubmit(fits) PROVE PathInv'
  <2>1. /\ phase = "submitted" /\ MadeRequest(request, config.manifest)
        /\ UNCHANGED <<config, next_id, command, request>> /\ phase' = "connected"
    BY <1>6 DEF PathInv, ClientSubmit, Answer
  <2>2. /\ answer' \in {"codec_refused", "too_large", "sent"}
        /\ answer' = "codec_refused" => ~validate_request(request)
        /\ answer' = "sent" => validate_request(request)
    BY <1>6, <2>1 DEF ClientSubmit, Answer, MadeRequest
  <2> QED
    BY <2>1, <2>2 DEF PathInv, Before, Started
<1>7. CASE UNCHANGED vars
  BY <1>7 DEF PathInv, vars
<1> QED
  BY <1>1, <1>2, <1>3, <1>4, <1>5, <1>6, <1>7 DEF Next

\* A configuration that is loaded is one the Gateway can be built of.
THEOREM LoadedIsUsableAlways == Spec => []LoadedIsUsable
<1>1. PathInv => LoadedIsUsable
  BY DEF PathInv, LoadedIsUsable, Before, Started
<1> QED
  BY <1>1, PathInvInit, PathInvNext, PTL DEF Spec

\* The client's checks refuse what the Gateway let through only for Tokens or
\* a timeout beyond the protocol.
THEOREM RefusedLateOnlyAtEdgesAlways == Spec => []RefusedLateOnlyAtEdges
<1>1. ASSUME PathInv PROVE RefusedLateOnlyAtEdges
  <2>1. answer = "codec_refused" => ~InRange(request)
    BY <1>1 DEF PathInv, MadeRequest
  <2> QED
    BY <1>1, <2>1 DEF PathInv, RefusedLateOnlyAtEdges, InRange
<1> QED
  BY <1>1, PathInvInit, PathInvNext, PTL DEF Spec

\* No stage refuses what an earlier one let through, but for Tokens or a timeout
\* beyond the protocol.
THEOREM StagesAgreeAlways == Spec => []StagesAgree
<1>1. LoadedIsUsable /\ RefusedLateOnlyAtEdges => StagesAgree
  BY DEF StagesAgree
<1> QED
  BY <1>1, LoadedIsUsableAlways, RefusedLateOnlyAtEdgesAlways, PTL

-----------------------------------------------------------------------------
\* The Submit that GenerationClient.submit sends for the last request, whatever the
\* epoch of the connection, is a message decodePayload of the Worker takes.
SentIsUnderstood ==
    answer = "sent" =>
       \A epoch : require_int(epoch, 1, MaxU64) => decodePayload(encode_submit(request, epoch))

\* The whole way, from the configuration and the HTTP body to the decoder in the other
\* process: a chat completion that the Gateway sends is never refused as malformed by
\* the Worker, which would end the connection and every request on it.
THEOREM SentIsUnderstoodAlways == Spec => []SentIsUnderstood
<1>1. PathInv => SentIsUnderstood
  BY SubmitUnderstood DEF PathInv, SentIsUnderstood
<1> QED
  BY <1>1, PathInvInit, PathInvNext, PTL DEF Spec

====
