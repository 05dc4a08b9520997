----------------------------- MODULE RequestPath -----------------------------
(***************************************************************************)
(* The way of a chat completion through the checks of the Gateway: from    *)
(* the configuration and the Tokenizer it was started with, by the parser  *)
(* of the HTTP body, GatewayService.submit and GenerationClient.submit, to *)
(* the Submit message.  Each stage has checks of its own, in different     *)
(* files, over values that the stages before it let through.               *)
(***************************************************************************)
EXTENDS ChatRequest

CONSTANTS
    Roots, Workers,     \* JSON objects: the two configuration files
    WorkerManifests,    \* the manifests a Worker answers Hello with
    Tokenizers,         \* what transformers loads
    Bodies,             \* JSON objects: bodies of chat completions
    TokenLists,         \* what the Tokenizer makes of a text
    MaxId               \* 2^63, where request ids wrap

ASSUME MaxIdInRange == MaxId \in Nat /\ 2 < MaxId /\ MaxId <= MaxU64

VARIABLES
    phase,      \* where the Gateway, or its handler of the one request, is
    config,     \* the GatewayConfig
    next_id,    \* _RequestIdAllocator._next
    command,    \* the ChatCompletionCommand
    request,    \* the GenerationRequest
    answer      \* how the last request ended
vars == <<phase, config, next_id, command, request, answer>>

None == [kind |-> "none"]

\* next_id is any id the allocator, which starts at a random one, has come to.
Init ==
    /\ phase = "off" /\ config = None /\ command = None /\ request = None /\ answer = "none"
    /\ next_id \in 1..(MaxId - 1)

Answer(a) == phase' = "connected" /\ answer' = a

-----------------------------------------------------------------------------
\* main: a configuration that is refused ends the program.
Load(root, worker) ==
    /\ phase = "off"
    /\ \/ /\ load(root, worker)
          /\ phase' = "loaded" /\ config' = Config(root, worker)
       \/ /\ ~load(root, worker)
          /\ phase' = "exited" /\ UNCHANGED config
    /\ UNCHANGED <<next_id, command, request, answer>>

TokenizerFits(t) == tokenizer_accepts(t) /\ tokenizer_matches(t, config.manifest)

\* build_gateway_service, in lifespan: when it raises, there is no service.
build_gateway_service(t) ==
    /\ phase = "loaded"
    /\ phase' = CASE ~TokenizerFits(t) -> "no_tokenizer"
                  [] client_config_valid(config) /\ runtime_options_valid(config) -> "serving"
                  [] OTHER -> "not_built"
    /\ UNCHANGED <<config, next_id, command, request, answer>>

\* GenerationClient.connect: Hello is encoded, and the Worker's manifest must
\* be the configured one.
Connect(manifest) ==
    /\ phase = "serving"
    /\ phase' = CASE ~validate_manifest(config.manifest) -> "no_hello"
                  [] manifest = config.manifest -> "connected"
                  [] OTHER -> "serving"
    /\ UNCHANGED <<config, next_id, command, request, answer>>

-----------------------------------------------------------------------------
\* chat_completions: the body is parsed,
Post(x) ==
    /\ phase = "connected"
    /\ LET verdict == parse(x, config.manifest) IN
       \/ /\ verdict = "ok"
          /\ phase' = "parsed" /\ command' = Command(x.val, config.manifest)
          /\ answer' = "none"
       \/ /\ verdict # "ok"
          /\ Answer(verdict) /\ UNCHANGED command
    /\ request' = None
    /\ UNCHANGED <<config, next_id>>

\* int(request_timeout_seconds * 1000): an infinite product has no int.
Milliseconds(x) == (Units(x) * 1000) \div One
TimeoutOverflows(x) == Units(x) > MaxDouble \div 1000

NextId(n) == IF n + 1 >= MaxId THEN 1 ELSE n + 1

FitsModel(prompt, max_new_tokens, m) ==
    /\ Len(prompt) <= m.max_input_tokens.val
    /\ max_new_tokens.val <= m.max_output_tokens.val
    /\ Len(prompt) + max_new_tokens.val <= m.max_sequence_tokens.val

Generation(prompt, stops) ==
    [request_id |-> Num(next_id), input_token_ids |-> prompt,
     max_new_tokens |-> command.max_new_tokens, priority |-> Num(0),
     timeout_ms |-> Num(Milliseconds(config.request_timeout_seconds)),
     trace_id |-> Str("chatcmpl"), streaming |-> command.stream,
     temperature |-> command.temperature, top_k |-> config.sampling_top_k,
     top_p |-> command.top_p, random_seed |-> command.random_seed,
     end_id |-> config.manifest.eos_token_id, pad_id |-> config.manifest.pad_token_id,
     stop_sequences |-> stops]

\* GatewayService.submit, for the Tokens of the prompt and of the stop
\* sequences; the id is taken before int() may raise.
submit(prompt, stops) ==
    /\ \/ /\ \/ command.model # config.manifest.model_id
             \/ ~normalize_token_ids(prompt)
             \/ \E i \in DOMAIN stops : ~normalize_token_ids(stops[i])
             \/ ~FitsModel(prompt, command.max_new_tokens, config.manifest)
          /\ Answer("invalid") /\ UNCHANGED <<next_id, request>>
       \/ /\ command.model = config.manifest.model_id
          /\ normalize_token_ids(prompt)
          /\ \A i \in DOMAIN stops : normalize_token_ids(stops[i])
          /\ FitsModel(prompt, command.max_new_tokens, config.manifest)
          /\ next_id' = NextId(next_id)
          /\ \/ /\ TimeoutOverflows(config.request_timeout_seconds)
                /\ Answer("uncaught") /\ UNCHANGED request
             \/ /\ ~TimeoutOverflows(config.request_timeout_seconds)
                /\ phase' = "submitted" /\ request' = Generation(prompt, stops)
                /\ UNCHANGED answer
    /\ UNCHANGED <<config, command>>

\* GenerationClient.submit: the limits of the Worker, encode_submit's checks, and the
\* size of the frame.  What is refused here is answered with 400.
ClientSubmit(fits) ==
    /\ phase = "submitted"
    /\ Answer(CASE ~FitsModel(request.input_token_ids, request.max_new_tokens,
                              config.manifest) -> "client_refused"
                [] ~validate_request(request) -> "codec_refused"
                [] ~fits -> "too_large"
                [] OTHER -> "sent")
    /\ UNCHANGED <<config, next_id, command, request>>

Next ==
    \/ \E root \in Roots, worker \in Workers : Load(root, worker)
    \/ \E t \in Tokenizers : build_gateway_service(t)
    \/ \E m \in WorkerManifests : Connect(m)
    \/ \E x \in Bodies : Post(x)
    \/ /\ phase = "parsed"
       /\ \E prompt \in TokenLists, stops \in [DOMAIN command.stop -> TokenLists] :
            submit(prompt, stops)
    \/ \E fits \in BOOLEAN : ClientSubmit(fits)

Spec == Init /\ [][Next]_vars

-----------------------------------------------------------------------------
\* A configuration that is loaded is one the Gateway can be built of: after
\* load (config.py) neither the constructors (generation_client.py, runtime.py)
\* nor the encoder of Hello (protocol.py) refuses a value of it.
LoadedIsUsable == phase \notin {"not_built", "no_hello"}

\* The Tokens of a request that the codec takes.
TokensFit(s) == \A i \in DOMAIN s : s[i].val <= MaxI32

\* What passed the parser and GatewayService.submit is not refused by the
\* client's own checks, which would blame the HTTP client for what it cannot
\* change.  There are two ways in which it is: a Tokenizer whose ids do not fit
\* 31 bits, and a request_timeout_seconds that config.py accepts and that is
\* below a millisecond or above 2^64 of them.
RefusedLateOnlyAtEdges ==
    /\ answer # "client_refused"
    /\ answer = "codec_refused" =>
         \/ ~TokensFit(request.input_token_ids)
         \/ \E i \in DOMAIN request.stop_sequences : ~TokensFit(request.stop_sequences[i])
         \/ request.timeout_ms.val \notin 1..MaxU64

\* No stage refuses what the stages before it let through, from the loading of the
\* configuration to the encoding of Submit, but for those two edges.
StagesAgree == LoadedIsUsable /\ RefusedLateOnlyAtEdges

====
