-------------------------------- MODULE Wire --------------------------------
(***************************************************************************)
(* The two codecs of the IPC, which share no code, against each other: a   *)
(* message is written by one end and read by the other, or comes from a    *)
(* peer that wrote any JSON object at all.                                 *)
(***************************************************************************)
EXTENDS PythonCodec, CppCodec

CONSTANTS
    Manifests, Requests,    \* arguments of encode_hello and encode_submit
    Numbers,                \* arguments of the encoders that are integers
    Messages,               \* structs, the arguments of encodePayload
    Payloads,               \* JSON objects
    Epochs                  \* the epochs a client may expect, 0 before HelloAck

ASSUME EpochsAreIntegers == Epochs \subseteq Nat

\* Arguments have the types their declarations say; in Python nothing checks that
\* the names of a ModelManifest are strings.
ASSUME ArgumentsTyped ==
    /\ \A m \in Manifests : require_string(m.model_id) /\ require_string(m.revision)
    /\ \A m \in Messages : MessageTyped(m)
    /\ \A x \in Payloads : IsObject(x)

VARIABLES
    expected,   \* the epoch the Python client expects
    from,       \* who wrote the message: "nobody", "python", "worker", "peer"
    payload,    \* the message
    verdict     \* what its reader said: "none", "accepted", "refused"
WireVars == <<expected, from, payload, verdict>>

WireInit ==
    /\ expected \in Epochs
    /\ from = "nobody" /\ payload = Null /\ verdict = "none"

Writes(who, x) ==
    /\ from' = who /\ payload' = x
    /\ UNCHANGED <<expected, verdict>>

-----------------------------------------------------------------------------
\* The encoders of the client raise ProtocolError on what they do not let
\* through, and nothing is sent.
PythonHello(m) == validate_manifest(m) /\ Writes("python", encode_hello(m))

PythonSubmit(r, epoch) ==
    /\ validate_request(r) /\ require_int(epoch, 1, MaxU64)
    /\ Writes("python", encode_submit(r, epoch))

PythonCancel(id, epoch) ==
    /\ require_int(id, 1, MaxU64) /\ require_int(epoch, 1, MaxU64)
    /\ Writes("python", encode_cancel(id, epoch))

PythonHealth(probe, epoch) ==
    /\ require_int(probe, 1, MaxU64) /\ require_int(epoch, 1, MaxU64)
    /\ Writes("python", encode_health(probe, epoch))

\* encodePayload: what validate refuses is not sent.
WorkerWrites(m) == validate(m) /\ Writes("worker", messageJson(m))

PeerWrites(x) == Writes("peer", x)

\* The other end reads: the Worker what Python wrote, Python the rest.
Reads ==
    /\ from # "nobody" /\ verdict = "none"
    /\ verdict' = IF (IF from = "python" THEN decodePayload(payload)
                      ELSE decode_server_message(payload, expected))
                  THEN "accepted" ELSE "refused"
    /\ UNCHANGED <<expected, from, payload>>

Write ==
    \/ \E m \in Manifests : PythonHello(m)
    \/ \E r \in Requests, e \in Numbers : PythonSubmit(r, e)
    \/ \E i \in Numbers, e \in Numbers : PythonCancel(i, e) \/ PythonHealth(i, e)
    \/ \E m \in Messages : WorkerWrites(m)
    \/ \E x \in Payloads : PeerWrites(x)

WireNext == (from = "nobody" /\ Write) \/ Reads

WireSpec == WireInit /\ [][WireNext]_WireVars

-----------------------------------------------------------------------------
\* Whether the Python client is to take x: before HelloAck that is the one
\* message it takes, and after it the epoch must be that of the connection.
Expects(x) ==
    \/ expected = 0 /\ x.val.type.val = "hello_ack"
    \/ expected # 0 /\ x.val.worker_epoch.val = expected

\* No message is lost to a disagreement of the codecs: what the Python client
\* writes the Worker reads, and what the Worker writes the client reads exactly
\* when it expects it.
WrittenIsRead ==
    /\ from = "python" => verdict # "refused"
    /\ from = "worker" /\ verdict # "none" => (verdict = "accepted" <=> Expects(payload))

\* The struct that x would be the object of.
Struct(x) ==
    [f \in DOMAIN x.val |-> IF f \in {"type", "manifest", "limits", "status", "usage", "token_ids"}
                           THEN x.val[f].val ELSE x.val[f]]

Writable(x) == MessageTyped(Struct(x)) /\ validate(Struct(x)) /\ messageJson(Struct(x)) = x

\* The strictness of the README: a client accepts an object of any peer only if it
\* is one that a Worker of this protocol can write, and for it.
ReadIsWritable ==
    from = "peer" /\ verdict = "accepted" => Writable(payload) /\ Expects(payload)

\* The two codecs, written in two languages, have one idea of a message.
CodecsAgree == WrittenIsRead /\ ReadIsWritable

====
