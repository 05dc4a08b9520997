----------------------------- MODULE ChatRequest -----------------------------
(***************************************************************************)
(* parse_chat_completion_request (openai.py): the verdict on the JSON body *)
(* of a chat completion and the command made of it.  A check lets a value  *)
(* pass ("ok"), raises the error that is answered with 400 ("invalid"), or *)
(* lets an OverflowError of float() through ("uncaught").                  *)
(***************************************************************************)
EXTENDS GatewayConfig

OkIf(p) == IF p THEN "ok" ELSE "invalid"

string(x) == OkIf(x.kind = "string" /\ x.val # "")
boolean(x) == OkIf(x.kind = "bool" /\ x.val \in BOOLEAN)
integer(x, minimum, maximum) == OkIf(IsInt(x) /\ minimum <= x.val /\ x.val <= maximum)

\* An integer beyond the doubles has no float; a literal beyond them is infinite.
Overflows(x) == IsInt(x) /\ ~IsFinite(x)

number_Zero(x, maximum) ==
    IF Overflows(x) THEN "uncaught"
    ELSE OkIf(IsNumber(x) /\ IsFinite(x) /\ Units(x) >= 0 /\ Units(x) <= maximum)

number(x, maximum) ==
    IF Overflows(x) THEN "uncaught"
    ELSE OkIf(IsNumber(x) /\ IsFinite(x) /\ Units(x) > 0 /\ Units(x) <= maximum)

penalty(x) ==
    IF Overflows(x) THEN "uncaught" ELSE OkIf(IsNumber(x) /\ IsFinite(x) /\ Units(x) = 0)

Roles == {"system", "user", "assistant"}

messages(x) ==
    OkIf(/\ x.kind = "array" /\ x.val # <<>>
         /\ \A i \in DOMAIN x.val :
              /\ x.val[i].kind = "object" /\ DOMAIN x.val[i].val = {"role", "content"}
              /\ x.val[i].val.role.kind = "string" /\ x.val[i].val.role.val \in Roles
              /\ x.val[i].val.content.kind = "string")

\* A string stands for the list of itself.
stop_values(x) ==
    CASE x.kind = "null" -> <<>>
      [] x.kind = "string" -> <<x>>
      [] OTHER -> x.val

stop(x) ==
    OkIf(\/ x.kind = "null"
         \/ /\ x.kind \in {"string", "array"}
            /\ LET s == stop_values(x) IN
               /\ s # <<>> /\ Len(s) <= 4
               /\ \A i \in DOMAIN s : string(s[i]) = "ok"
               /\ \A i, j \in DOMAIN s : s[i] = s[j] => i = j)

stream_options(x, stream) ==
    OkIf(\/ x.kind = "null"
         \/ /\ stream = Bool(TRUE)
            /\ x.kind = "object" /\ DOMAIN x.val = {"include_usage"}
            /\ boolean(x.val.include_usage) = "ok")

Supported ==
    {"model", "messages", "stream", "stream_options", "max_tokens", "max_completion_tokens",
     "temperature", "top_p", "seed", "stop", "n", "user", "frequency_penalty",
     "presence_penalty"}

max_value(b, m) ==
    Get(b, "max_completion_tokens",
        Get(b, "max_tokens",
            IF m.max_output_tokens.val < 32 THEN m.max_output_tokens ELSE Num(32)))

\* The checks of the fields of the body b for the manifest m, in their order.
checks(b, m) ==
    <<string(b.model), messages(b.messages),
      boolean(Get(b, "stream", Bool(FALSE))),
      integer(Get(b, "n", Num(1)), 1, 1),
      OkIf(~({"max_tokens", "max_completion_tokens"} \subseteq DOMAIN b)),
      integer(max_value(b, m), 1, m.max_output_tokens.val),
      number(Get(b, "temperature", Flt(One)), 2 * One),
      number(Get(b, "top_p", Flt(One)), One),
      integer(Get(b, "seed", Num(0)), 0, MaxU32),
      stop(Get(b, "stop", Null)),
      penalty(Get(b, "frequency_penalty", Num(0))), penalty(Get(b, "presence_penalty", Num(0))),
      string(Get(b, "user", Str("u"))),
      stream_options(Get(b, "stream_options", Null), Get(b, "stream", Bool(FALSE)))>>

\* The first check that does not pass decides.
First(s) ==
    CASE \A i \in DOMAIN s : s[i] = "ok" -> "ok"
      [] \E i \in DOMAIN s : s[i] = "uncaught" /\ \A j \in DOMAIN s : j < i => s[j] = "ok"
           -> "uncaught"
      [] OTHER -> "invalid"

parse(x, m) ==
    IF x.kind = "object" /\ DOMAIN x.val \subseteq Supported
                         /\ {"model", "messages"} \subseteq DOMAIN x.val
    THEN First(checks(x.val, m)) ELSE "invalid"

\* The ChatCompletionCommand of a body that passes.
Command(b, m) ==
    [model |-> b.model, stream |-> Get(b, "stream", Bool(FALSE)),
     include_usage |-> Get(b, "stream_options", Null).kind = "object"
                       /\ b.stream_options.val.include_usage.val,
     max_new_tokens |-> max_value(b, m),
     temperature |-> Flt(Units(Get(b, "temperature", Flt(One)))),
     top_p |-> Flt(Units(Get(b, "top_p", Flt(One)))),
     random_seed |-> Get(b, "seed", Num(0)), stop |-> stop_values(Get(b, "stop", Null))]

====
