---------------------------- MODULE MCRequestPath ----------------------------
(***************************************************************************)
(* The two directions of a chat completion, one at a time: RequestPath from *)
(* the body to the Submit message, ChatResponse from the Tokens to the       *)
(* response.  A plain configuration, Tokenizer and body, each with a field   *)
(* at an edge of its range, of another kind or missing.                      *)
(***************************************************************************)
EXTENDS RequestPath, TLC

Values ==
    {Num(n) : n \in {-1, 0, 1, 2, 3, 33, MaxI32, MaxI32 + 1, MaxU32 + 1, MaxU64 + 200000}}
    \cup {Null, Bool(TRUE), Str(""), Str("x"), Flt(0), Flt(1), Flt(2), Flt(One),
          Flt(MaxDouble \div 1000), Flt(MaxDouble), Flt(MaxDouble + 1), Arr(<<>>),
          Arr(<<Str("a"), Str("a")>>), Obj([role |-> Null])}
Of(kind) == {x \in Values : x.kind = kind}
With(f, k, v) == [j \in DOMAIN f \cup {k} |-> IF j = k THEN v ELSE f[j]]

Paths == [worker_config_path |-> Str("w"), tokenizer_path |-> Str("t")]
Fields == {"port", "log_level", "sampling_top_k", "max_client_delta_events_per_request",
           "max_sse_delta_events_per_request"}
MCRoots ==
    {Obj(Paths), Obj([worker_config_path |-> Str("w")]), Null, Obj(With(Paths, "extra", Null))}
    \cup {Obj(With(Paths, "request_timeout_seconds", v)) : v \in Values}
    \cup {Obj(With(Paths, f, v)) : f \in Fields, v \in {Null, Num(0), Num(33), Num(MaxI32 + 1)}}
    \cup {Obj(With(Paths, "log_level", Str("debug")))}

Manifest ==
    [f \in ManifestFields |-> CASE f \in {"eos_token_id", "pad_token_id", "max_batch_size"} -> Num(1)
                                [] f \in {"max_input_tokens", "max_output_tokens"} -> Num(2)
                                [] f = "max_sequence_tokens" -> Num(3)
                                [] OTHER -> Str("x")]
WorkerOf(m) == Obj([socket_path |-> Str("s"), manifest |-> Obj(m)])
MCWorkers ==
    {WorkerOf(Manifest), Obj([socket_path |-> Str("s")])}
    \cup {WorkerOf(With(Manifest, f, v)) :
            f \in {"model_id", "max_output_tokens", "max_sequence_tokens"}, v \in Of("int")}
    \cup {WorkerOf(With(Manifest, "pad_token_id", v)) : v \in Of("int") \cup Of("float")}

MCWorkerManifests == {Manifest, With(Manifest, "revision", Str("y"))}

Tokenizer ==
    [eos_token_id |-> Num(1), pad_token_id |-> Null, chat_template |-> Str("x"),
     has_assets |-> TRUE, tokenizer_fingerprint |-> Str("x"),
     chat_template_fingerprint |-> Str("x")]
MCTokenizers ==
    {Tokenizer, [Tokenizer EXCEPT !.has_assets = FALSE],
     [Tokenizer EXCEPT !.tokenizer_fingerprint = Str("y")]}
    \cup {[Tokenizer EXCEPT !.pad_token_id = v] : v \in Of("int")}

User == Obj([role |-> Str("user"), content |-> Str("")])
Body == [model |-> Str("x"), messages |-> Arr(<<User>>)]
MCBodies ==
    {Obj(Body), Null, Obj([model |-> Str("x")]), Obj(With(Body, "extra", Null)),
     Obj(With(Body, "messages", Arr(<<Obj([role |-> Str("tool"), content |-> Str("")])>>))),
     Obj(With(Body, "stop", Arr(<<Str("a"), Str("b")>>))),
     Obj(With(With(Body, "max_tokens", Num(1)), "max_completion_tokens", Num(1))),
     Obj(With(With(Body, "stream", Bool(TRUE)), "stream_options",
              Obj([include_usage |-> Bool(TRUE)])))}
    \cup {Obj(With(Body, f, v)) :
            f \in {"model", "messages", "stream", "max_tokens", "seed", "stop", "n", "user",
                   "stream_options"}, v \in Values}
    \cup {Obj(With(Body, f, v)) :
            f \in {"temperature", "top_p", "frequency_penalty"}, v \in Values}

MCTokenLists == {<<>>, <<Num(0)>>, <<Num(MaxI32 + 1)>>, <<Num(0), Num(1)>>, <<Num(0), Null>>}

-----------------------------------------------------------------------------
VARIABLES
    direction,      \* the direction a behaviour is about
    stream, include_usage, tokens, decoded, dropping, local_failure, overflowed, buffer,
    terminal, handler, chunks, response     \* of ChatResponse

R == INSTANCE ChatResponse WITH
    Tokens <- {"a", "first", "second", "special"}, max_delta_events <- 1,
    MaxTokens <- 4, MaxChunk <- 2

path == <<phase, config, next_id, command, request, answer>>
reply == <<stream, include_usage, tokens, decoded, dropping, local_failure, overflowed, buffer,
           terminal, handler, chunks, response>>

ChatInit ==
    \/ direction = "request" /\ Init /\ R!Init /\ ~stream
    \/ direction = "response" /\ Init /\ next_id = 1 /\ R!Init

ChatNext ==
    \/ direction = "request" /\ Next /\ UNCHANGED <<direction, reply>>
    \/ direction = "response" /\ R!Next /\ UNCHANGED <<direction, path>>

ChatSpec == ChatInit /\ [][ChatNext]_<<direction, path, reply>>

\* The client reads the whole text of the generation once, in a well-formed
\* response, and a success or a failure as the Terminal had it.
ResponseFaithful == R!ResponseFaithful

====
