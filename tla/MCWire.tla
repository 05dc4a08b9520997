------------------------------- MODULE MCWire -------------------------------
(***************************************************************************)
(* The layers of the protocol, one at a time: the messages of Wire, the     *)
(* frames of Framing that carry them, and the session of IpcSession that    *)
(* sends and receives these.  Messages are well-formed objects              *)
(* with one or two fields at an edge of their range, of another kind,       *)
(* missing or added.                                                        *)
(***************************************************************************)
EXTENDS Wire, TLC

\* Integers around every limit, and values of the other kinds.
Values ==
    {Num(n) : n \in {-1, 0, 1, MaxI32, MaxI32 + 1, MaxU32, MaxU32 + 1, MaxU64, MaxU64 + 1}}
    \cup {Null, Bool(TRUE), Bool(FALSE), Str(""), Str("eos"), Flt(One), Arr(<<>>),
          Arr(<<Num(0)>>), Arr(<<Num(1), Num(-1)>>)}
Ints == {x \in Values : x.kind = "int"}

Changed(f) == {[f EXCEPT ![k] = v] : k \in DOMAIN f, v \in Values}
Related ==
    {<<"max_input_tokens", "max_sequence_tokens">>, <<"max_output_tokens", "max_sequence_tokens">>,
     <<"max_request_egress_frames", "max_session_egress_frames">>,
     <<"max_request_egress_bytes", "max_session_egress_bytes">>,
     <<"max_frame_payload_bytes", "max_request_egress_bytes">>,
     <<"session_egress_frames", "session_egress_high_watermark_frames">>,
     <<"session_egress_bytes", "session_egress_high_watermark_bytes">>}
Twice(f) ==
    {[f EXCEPT ![p[1]] = u, ![p[2]] = v] :
        p \in {q \in Related : q[1] \in DOMAIN f}, u, v \in Ints}
Without(f, k) == [j \in DOMAIN f \ {k} |-> f[j]]
Reshaped(f) == {Without(f, k) : k \in DOMAIN f} \cup {f @@ [extra |-> Null]}

Names == {"model_id", "revision", "tokenizer_fingerprint", "chat_template_fingerprint",
          "engine_fingerprint", "precision"}
Sizes == {"eos_token_id", "pad_token_id", "max_input_tokens", "max_output_tokens",
          "max_sequence_tokens", "max_batch_size"}
Manifest == [f \in Names \cup Sizes |-> IF f \in Names THEN Str("x") ELSE Num(1)]
Limits == [f \in {"max_active_requests", "max_total_input_tokens", "max_reserved_output_tokens",
                  "max_frame_payload_bytes", "max_session_egress_frames",
                  "max_session_egress_bytes", "max_request_egress_frames",
                  "max_request_egress_bytes"} |-> Num(1)]
Envelope(t) == [type |-> Str(t), protocol_version |-> Num(1), worker_epoch |-> Num(1)]
About == [request_id |-> Num(1)]
Status(c) == Obj([code |-> Str(c), message |-> Str("")])
Counts == {"uptime_ms", "active_requests", "reserved_input_tokens", "reserved_output_tokens",
           "session_egress_frames", "session_egress_bytes",
           "session_egress_high_watermark_frames", "session_egress_high_watermark_bytes",
           "rejected_requests", "backpressure_requests", "cancelled_requests"}
HelloAck(m, l) == Envelope("hello_ack") @@ [manifest |-> Obj(m), limits |-> Obj(l)]
Terminal(c, r) ==
    Envelope("terminal") @@ About @@
    [status |-> Status(c), finish_reason |-> r,
     usage |-> Obj([prompt_tokens |-> Num(0), completion_tokens |-> Num(0)])]
Stats(c, ready) ==
    Envelope("stats") @@ [probe_id |-> Num(1), ready |-> Bool(ready), status |-> Status(c)]
    @@ [f \in Counts |-> Num(1)]

Plain ==
    {HelloAck(Manifest, Limits), Envelope("accepted") @@ About, Envelope("cancel") @@ About,
     Envelope("rejected") @@ About @@ [status |-> Status("timeout")],
     Envelope("token_delta") @@ About @@
         [sequence_no |-> Num(0), token_ids |-> Arr(<<Num(0), Num(MaxI32)>>)],
     Terminal("ok", Str("eos")), Stats("ok", TRUE)}
Coded ==
    {Envelope("rejected") @@ About @@ [status |-> Status(c)] : c \in StatusNames \cup {"", "x"}}
    \cup {Terminal(c, r) : c \in StatusNames, r \in {Null, Str(""), Str("x")}
                                                    \cup {Str(f) : f \in FinishNames}}
    \cup {Stats(c, b) : c \in {"ok", "not_ready"}, b \in BOOLEAN}

Shaped ==
    Plain \cup Coded \cup UNION {Changed(f) : f \in Plain} \cup Twice(Stats("ok", TRUE))
    \cup {HelloAck(m, Limits) : m \in Changed(Manifest) \cup Twice(Manifest)}
    \cup {HelloAck(Manifest, l) : l \in Changed(Limits) \cup Twice(Limits)}

MCPayloads ==
    {Obj(f) : f \in Shaped \cup UNION {Reshaped(f) : f \in Plain}
                    \cup {HelloAck(m, Limits) : m \in Reshaped(Manifest)}
                    \cup {HelloAck(Manifest, l) : l \in Reshaped(Limits)}}

\* The structs among them.
Kinds == [manifest |-> "object", limits |-> "object", status |-> "object", usage |-> "object",
          token_ids |-> "array", type |-> "string"]
MCMessages ==
    {m \in {Struct(Obj(f)) : f \in {g \in Shaped : \A k \in DOMAIN g \cap DOMAIN Kinds :
                                                     g[k].kind = Kinds[k]}} : MessageTyped(m)}

Request ==
    [request_id |-> Num(1), input_token_ids |-> <<Num(0)>>, max_new_tokens |-> Num(1),
     priority |-> Num(0), timeout_ms |-> Null, trace_id |-> Str(""), streaming |-> Bool(TRUE),
     temperature |-> Flt(One), top_k |-> Num(1), top_p |-> Flt(One), random_seed |-> Num(0),
     end_id |-> Null, pad_id |-> Null, stop_sequences |-> <<>>]
Scalars == DOMAIN Request \ {"input_token_ids", "stop_sequences"}
Floats == {Flt(u) : u \in {-1, 0, 1, One, One + 1, MaxDouble, MaxDouble + 1}}
TokenLists == {<<>>, <<Num(0)>>, <<Num(MaxI32), Num(MaxI32 + 1)>>, <<Num(-1)>>, <<Null>>}

MCRequests ==
    {[Request EXCEPT ![f] = v] : f \in Scalars, v \in Values \cup Floats \cup {Num(-MaxI32 - 1)}}
    \cup {[Request EXCEPT !.input_token_ids = s] : s \in TokenLists}
    \cup {[Request EXCEPT !.stop_sequences = <<s, t>>] : s, t \in TokenLists}

MCManifests ==
    {m \in Changed(Manifest) \cup Twice(Manifest) : \A f \in Names : m[f].kind = "string"}
MCNumbers == Ints

-----------------------------------------------------------------------------
VARIABLES
    layer,                              \* the layer a behaviour is about
    stream, sent, fed, cpp, read, py    \* of Framing
VARIABLES                               \* of IpcSession
    role, setting, state, stop_requested, terminal_status, connection, egress, reader, batch,
    early, writer, frame, caller, joining, joinable, aborted, conforming, peer_open, inbound,
    outbound, received, peer_sent, accepted, handled

F == INSTANCE Framing WITH Base <- 2, PrefixBytes <- 2, max_payload_bytes <- 2, MaxBytes <- 7
S == INSTANCE IpcSession WITH
    Callers <- {"owner", "writer"}, Starter <- "owner", SocketFrames <- 1,
    Settings <- {[max_egress_frames |-> 1, sends |-> 1, messages |-> 2],
                 [max_egress_frames |-> 2, sends |-> 3, messages |-> 0]}

messages == <<expected, from, payload, verdict>>
frames == <<stream, sent, fed, cpp, read, py>>
session ==
    <<role, setting, state, stop_requested, terminal_status, connection, egress, reader, batch,
      early, writer, frame, caller, joining, joinable, aborted, conforming, peer_open, inbound,
      outbound, received, peer_sent, accepted, handled>>

ProtocolInit ==
    /\ layer \in {"messages", "frames", "session"}
    /\ WireInit /\ (layer # "messages" => expected = 0)
    /\ F!Init /\ S!Init

ProtocolNext ==
    \/ layer = "messages" /\ WireNext /\ UNCHANGED <<layer, frames, session>>
    \/ layer = "frames" /\ F!Next /\ UNCHANGED <<layer, messages, session>>
    \/ layer = "session" /\ S!Next /\ UNCHANGED <<layer, messages, frames>>

ProtocolSpec ==
    ProtocolInit /\ [][ProtocolNext]_<<layer, messages, frames, session>> /\ S!Fairness

\* FrameDecoder::feed and _receive_frame return the frames that are in the bytes,
\* however the reads cut them, and fail exactly at an impossible prefix; what an
\* encoder wrote is read, in order and whole.
FramesRead == F!FramesRead

\* What send of an IpcSession took the peer gets, and what the peer sent the handler
\* gets, in order and after the handshake; no failure without cause; stop leaves no
\* thread behind.
SessionFaithful == S!SessionFaithful

\* An IpcSession ends when its peer goes away, and its start and stop return.
SessionEnds == S!SessionEnds

====
