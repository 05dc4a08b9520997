---------------------------- MODULE ChatResponse ----------------------------
(***************************************************************************)
(* From the Tokens of one generation to the HTTP response: the incremental *)
(* decoder (runtime.py), and the chunks of an SSE stream or the body of a  *)
(* plain response made of its texts and its Terminal (api.py, openai.py).  *)
(* GatewaySession has the tasks, the cancellations and the metrics; here   *)
(* is what the client reads.                                               *)
(*                                                                         *)
(* A Token is a whole character "a", the first or the second half of a     *)
(* character, or a special one, which has no text.  A text is a sequence   *)
(* of characters, "?" the replacement character.                           *)
(***************************************************************************)
EXTENDS Integers, Sequences, SequencesExt

CONSTANTS
    Tokens,             \* the Tokens the model generates
    max_delta_events,   \* capacity of the buffer of texts
    MaxTokens,          \* bound: Tokens of a generation
    MaxChunk            \* bound: Tokens of a TokenDelta

VARIABLES
    stream, include_usage,      \* of the ChatCompletionCommand
    tokens,                     \* generated and handed to the decoder
    decoded,                    \* _IncrementalDecoder._decoded
    dropping, local_failure,    \* of the GatewaySession
    overflowed,                 \* history: the buffer refused a text
    buffer, terminal,           \* _AsyncEventBuffer
    handler,                    \* "start", "reading", "ending", "done", "gone"
    chunks,                     \* the texts _collect_non_streaming holds
    response                    \* the chunks of the stream, or the one body
vars == <<stream, include_usage, tokens, decoded, dropping, local_failure, overflowed, buffer,
          terminal, handler, chunks, response>>

None == [status |-> "none"]

Init ==
    /\ stream \in BOOLEAN /\ include_usage \in IF stream THEN BOOLEAN ELSE {FALSE}
    /\ tokens = <<>> /\ decoded = <<>>
    /\ dropping = FALSE /\ local_failure = FALSE /\ overflowed = FALSE
    /\ buffer = <<>> /\ terminal = None
    /\ handler = "start" /\ chunks = <<>> /\ response = <<>>

-----------------------------------------------------------------------------
\* Tokenizer.decode, where a character is replaced until it is complete.
decode(s) ==
    LET text[n \in 0..Len(s)] ==
          CASE n = 0 -> <<>>
            [] n > 0 /\ s[n] = "special" -> text[n - 1]
            [] n > 0 /\ s[n] = "a" -> Append(text[n - 1], "a")
            [] n > 0 /\ s[n] = "first" -> Append(text[n - 1], "?")
            [] n > 0 /\ s[n] = "second" ->
                 IF n > 1 /\ s[n - 1] = "first" THEN Append(Front(text[n - 1]), "e")
                 ELSE Append(text[n - 1], "?")
    IN  text[Len(s)]

\* _IncrementalDecoder.append
Changes_Never(text) == FALSE

Changes(text) == ~IsPrefix(decoded, text)
Rest(text) == SubSeq(text, Len(decoded) + 1, Len(text))

\* _pump, a TokenDelta: what it has to say goes into the buffer, or the session
\* drops everything from here and the generation is cancelled.
PumpDelta(ids) ==
    /\ terminal = None
    /\ Len(tokens) + Len(ids) <= MaxTokens
    /\ tokens' = tokens \o ids
    /\ LET text == decode(tokens \o ids) IN
       \/ /\ dropping
          /\ UNCHANGED <<decoded, dropping, local_failure, overflowed, buffer>>
       \/ /\ ~dropping /\ Changes(text)
          /\ dropping' = TRUE /\ local_failure' = TRUE
          /\ UNCHANGED <<decoded, overflowed, buffer>>
       \/ /\ ~dropping /\ ~Changes(text)
          /\ decoded' = text
          /\ \/ /\ Rest(text) = <<>>
                /\ UNCHANGED <<dropping, overflowed, buffer>>
             \/ /\ Rest(text) # <<>> /\ Len(buffer) < max_delta_events
                /\ buffer' = Append(buffer, Rest(text))
                /\ UNCHANGED <<dropping, overflowed>>
             \/ /\ Rest(text) # <<>> /\ Len(buffer) >= max_delta_events
                /\ dropping' = TRUE /\ overflowed' = TRUE
                /\ UNCHANGED buffer
          /\ UNCHANGED local_failure
    /\ UNCHANGED <<stream, include_usage, terminal, handler, chunks, response>>

\* _pump, the Terminal: a failure of the decoder stands before what the Worker says.
PumpTerminal(status, reason) ==
    /\ terminal = None
    /\ terminal' = IF local_failure THEN [status |-> "internal_error", reason |-> "none"]
                   ELSE [status |-> status, reason |-> reason]
    /\ UNCHANGED <<stream, include_usage, tokens, decoded, dropping, local_failure, overflowed,
                   buffer, handler, chunks, response>>

-----------------------------------------------------------------------------
\* gateway_error_from_status
http_status(code) ==
    CASE code \in {"invalid_input", "invalid_shape"} -> 400
      [] code = "already_exists" -> 409
      [] code \in {"resource_exhausted", "slo_predicted_miss", "queue_full"} -> 429
      [] code = "cancelled" -> 499
      [] code \in {"not_ready", "unavailable", "engine_not_found", "context_unavailable"} -> 503
      [] code = "timeout" -> 504
      [] OTHER -> 500

error_type(http) == IF http \in {400, 409, 429} THEN "invalid_request_error" ELSE "server_error"

openai_finish_reason(reason) == IF reason = "length" THEN "length" ELSE "stop"

error_json(code) == [is |-> "error", code |-> code, type |-> error_type(http_status(code))]
chunk_json(text, reason) == [is |-> "chunk", text |-> text, finish_reason |-> reason]
usage_chunk_json == [is |-> "usage"]
body_json(http, text, reason) ==
    [is |-> "body", http |-> http, text |-> text, finish_reason |-> reason]
Done == [is |-> "[DONE]"]

\* _stream_chat_completion begins with the role.
StreamBegins ==
    /\ handler = "start" /\ stream
    /\ handler' = "reading" /\ response' = <<chunk_json(<<>>, "none")>>
    /\ UNCHANGED <<stream, include_usage, tokens, decoded, dropping, local_failure, overflowed,
                   buffer, terminal, chunks>>

CollectBegins ==
    /\ handler = "start" /\ ~stream
    /\ handler' = "reading"
    /\ UNCHANGED <<stream, include_usage, tokens, decoded, dropping, local_failure, overflowed,
                   buffer, terminal, chunks, response>>

\* A text: a chunk of the stream, or kept for the body.
ReadDelta ==
    /\ handler = "reading" /\ buffer # <<>>
    /\ buffer' = Tail(buffer)
    /\ \/ /\ stream
          /\ response' = Append(response, chunk_json(Head(buffer), "none")) /\ UNCHANGED chunks
       \/ /\ ~stream
          /\ chunks' = chunks \o Head(buffer) /\ UNCHANGED response
    /\ UNCHANGED <<stream, include_usage, tokens, decoded, dropping, local_failure, overflowed,
                   terminal, handler>>

\* The end of the stream: an error or the finish_reason, the usage, [DONE], each a
\* yield of its own, at which the client may be gone.
EndChunk_NoError(t) == chunk_json(<<>>, openai_finish_reason(t.reason))

EndChunk(t) ==
    IF t.status # "ok" THEN error_json(t.status)
    ELSE chunk_json(<<>>, openai_finish_reason(t.reason))

UsageDue == include_usage /\ Last(response).is = "chunk"

YieldUsage ==
    /\ handler = "ending" /\ UsageDue
    /\ response' = Append(response, usage_chunk_json)
    /\ UNCHANGED <<stream, include_usage, tokens, decoded, dropping, local_failure, overflowed,
                   buffer, terminal, handler, chunks>>

YieldDone_NotAfterError ==
    /\ handler = "ending" /\ ~UsageDue
    /\ handler' = "done"
    /\ response' = IF terminal.status = "ok" THEN Append(response, Done) ELSE response
    /\ UNCHANGED <<stream, include_usage, tokens, decoded, dropping, local_failure, overflowed,
                   buffer, terminal, chunks>>

YieldDone ==
    /\ handler = "ending" /\ ~UsageDue
    /\ handler' = "done" /\ response' = Append(response, Done)
    /\ UNCHANGED <<stream, include_usage, tokens, decoded, dropping, local_failure, overflowed,
                   buffer, terminal, chunks>>

\* The one answer of a plain completion.
Body(t) ==
    IF t.status # "ok" THEN body_json(http_status(t.status), <<>>, "none")
    ELSE body_json(200, chunks, openai_finish_reason(t.reason))

ReadTerminal ==
    /\ handler = "reading" /\ buffer = <<>> /\ terminal # None
    /\ \/ /\ stream
          /\ handler' = "ending" /\ response' = Append(response, EndChunk(terminal))
       \/ /\ ~stream
          /\ handler' = "done" /\ response' = <<Body(terminal)>>
    /\ UNCHANGED <<stream, include_usage, tokens, decoded, dropping, local_failure, overflowed,
                   buffer, terminal, chunks>>

\* The client is gone: the handler writes no more, and what is buffered is dropped.
Disconnected ==
    /\ handler \in {"reading", "ending"}
    /\ handler' = "gone" /\ buffer' = <<>>
    /\ UNCHANGED <<stream, include_usage, tokens, decoded, dropping, local_failure, overflowed,
                   terminal, chunks, response>>

Next ==
    \/ \E n \in 1..MaxChunk : \E ids \in [1..n -> Tokens] : PumpDelta(ids)
    \/ \E reason \in {"eos", "length"} : PumpTerminal("ok", reason)
    \/ \E status \in {"cancelled", "timeout", "invalid_input", "unavailable", "tensorrt_error"} :
         PumpTerminal(status, "none")
    \/ StreamBegins \/ CollectBegins \/ ReadDelta \/ ReadTerminal
    \/ YieldUsage \/ YieldDone \/ Disconnected

Spec == Init /\ [][Next]_vars

-----------------------------------------------------------------------------
Kinds == [i \in DOMAIN response |-> response[i].is]

\* The text the client has read, of either kind of response.
Content ==
    FlattenSeq([i \in DOMAIN response |->
                  IF response[i].is \in {"chunk", "body"} THEN response[i].text ELSE <<>>])

\* The client was told that the completion came to its end.
Succeeded ==
    \E i \in DOMAIN response :
        response[i].is \in {"chunk", "body"} /\ response[i].finish_reason # "none"

\* The whole of the text: a response that reports a finish_reason has the text of
\* every Token the pump decoded, each character once and none that was later
\* replaced, however the Tokens were cut into TokenDeltas; only an overflow of
\* the buffer shortens it, to a prefix.
SuccessHasTheText ==
    Succeeded =>
        /\ IsPrefix(Content, decode(tokens))
        /\ ~overflowed => Content = decode(tokens)

\* The grammar of the SSE stream, at every moment of it and wherever a client that
\* goes away cuts it: the role, texts, and then either an error or one
\* finish_reason, the usage exactly if it was asked for, and [DONE]; a stream that
\* the client stayed for has its end, and no end is begun before the Terminal.
StreamGrammar ==
    stream /\ handler # "start" =>
        LET n == Len(response)
            ends == {i \in 1..n : \/ response[i].is # "chunk"
                                  \/ response[i].finish_reason # "none"}
            end == SubSeq(Kinds, n - Cardinality(ends) + 1, n)
            whole == CASE terminal = None -> <<>>
                       [] terminal # None /\ terminal.status # "ok" -> <<"error", "[DONE]">>
                       [] terminal # None /\ terminal.status = "ok" ->
                            IF include_usage THEN <<"chunk", "usage", "[DONE]">>
                            ELSE <<"chunk", "[DONE]">>
        IN  /\ n > Cardinality(ends) /\ ends = (n - Cardinality(ends) + 1)..n
            /\ IsPrefix(end, whole)
            /\ handler = "done" => end = whole

\* A generation that failed is not reported as a success, not even in part of a
\* stream, nor a success as a failure: by the status of a plain response, or the
\* error of a stream.
FailuresReported ==
    /\ Succeeded => terminal.status = "ok"
    /\ handler = "done" => (terminal.status = "ok" => Succeeded)
    /\ handler = "done" /\ ~stream => (response[1].http = 200 <=> terminal.status = "ok")

\* The three together: the response is well formed, whole, and true to the
\* Terminal of the generation.
ResponseFaithful == SuccessHasTheText /\ StreamGrammar /\ FailuresReported

====
