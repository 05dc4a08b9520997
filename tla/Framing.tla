------------------------------ MODULE Framing ------------------------------
(***************************************************************************)
(* Length-prefixed frames over a stream socket: the encoders of both ends, *)
(* FrameDecoder of the Worker (ipc_protocol.cpp), which is fed whatever a  *)
(* read returns, and _receive_frame of the client (generation_client.py),  *)
(* which reads a prefix and then a payload.  Both decoders read the same   *)
(* bytes here.  A byte is a digit to the base Base, a prefix has           *)
(* PrefixBytes of them (256 and 4 in the code).                            *)
(***************************************************************************)
EXTENDS Integers, Sequences, SequencesExt, FiniteSetsExt

CONSTANTS
    Base, PrefixBytes,
    max_payload_bytes,      \* of both ends: the limit of HelloAck
    MaxBytes                \* bound: bytes on the wire

Bytes == 0..(Base - 1)

VARIABLES
    stream,     \* every byte written so far
    sent,       \* the payloads of the frames written, if nothing else was
    fed,        \* how many bytes FrameDecoder was fed
    cpp,        \* FrameDecoder
    read,       \* how many bytes recv returned to the client
    py          \* _receive_frame
vars == <<stream, sent, fed, cpp, read, py>>

Init ==
    /\ stream = <<>> /\ sent = <<>>
    /\ fed = 0 /\ cpp = [prefix |-> <<>>, expected |-> 0, payload |-> <<>>, failed |-> FALSE,
                         out |-> <<>>]
    /\ read = 0 /\ py = [size |-> 0, data |-> <<>>, failed |-> FALSE, out |-> <<>>]

\* The big-endian prefix.
Value(prefix) == FoldLeft(LAMBDA n, b : n * Base + b, 0, prefix)
MaxLength == Base^PrefixBytes - 1
Prefix(n) == [i \in 1..PrefixBytes |-> (n \div Base^(PrefixBytes - i)) % Base]

\* encodeFrame and encode_frame.
encodeFrame_Unlimited(payload) ==
    IF payload = <<>> THEN <<>> ELSE Prefix(Len(payload)) \o payload

encodeFrame(payload) ==
    IF payload = <<>> \/ Len(payload) > max_payload_bytes \/ Len(payload) > MaxLength THEN <<>>
    ELSE Prefix(Len(payload)) \o payload

Send(payload) ==
    /\ encodeFrame(payload) # <<>>
    /\ Len(stream) + Len(encodeFrame(payload)) <= MaxBytes
    /\ stream' = stream \o encodeFrame(payload)
    /\ sent' = IF sent = "noise" THEN sent ELSE Append(sent, payload)
    /\ UNCHANGED <<fed, cpp, read, py>>

\* A peer that writes something else.
Noise(b) ==
    /\ Len(stream) < MaxBytes
    /\ stream' = Append(stream, b) /\ sent' = "noise"
    /\ UNCHANGED <<fed, cpp, read, py>>

-----------------------------------------------------------------------------
\* The loop of FrameDecoder::feed: one turn takes what it can of the bytes.
failedDecoder(d) ==
    [prefix |-> <<>>, expected |-> 0, payload |-> <<>>, failed |-> TRUE, out |-> d.out]

RECURSIVE take(_, _)
take(d, bytes) ==
    IF d.failed \/ bytes = <<>> THEN d
    ELSE LET n == Min({PrefixBytes - Len(d.prefix), Len(bytes)})
             prefix == d.prefix \o SubSeq(bytes, 1, n)
             expected == IF d.expected = 0 THEN Value(prefix) ELSE d.expected
             k == Min({expected - Len(d.payload), Len(bytes) - n})
             payload == d.payload \o SubSeq(bytes, n + 1, n + k)
             rest == SubSeq(bytes, n + k + 1, Len(bytes))
         IN  CASE Len(prefix) < PrefixBytes -> [d EXCEPT !.prefix = prefix]
               [] Len(prefix) = PrefixBytes /\ (expected = 0 \/ expected > max_payload_bytes) ->
                    failedDecoder(d)
               [] Len(prefix) = PrefixBytes /\ expected \in 1..max_payload_bytes ->
                    IF Len(payload) # expected
                    THEN [d EXCEPT !.prefix = prefix, !.expected = expected, !.payload = payload]
                    ELSE take([prefix |-> <<>>, expected |-> 0, payload |-> <<>>,
                               failed |-> FALSE, out |-> Append(d.out, payload)], rest)

\* A call that fails also drops the frames it had completed.
feed(d, bytes) ==
    LET after == take(d, bytes) IN IF after.failed THEN failedDecoder(d) ELSE after

\* A read returned n bytes.
Feed_PrefixDropped(n) ==
    /\ fed + n <= Len(stream)
    /\ fed' = fed + n
    /\ cpp' = [feed(cpp, SubSeq(stream, fed + 1, fed + n)) EXCEPT !.prefix = <<>>]
    /\ UNCHANGED <<stream, sent, read, py>>

Feed(n) ==
    /\ fed + n <= Len(stream)
    /\ fed' = fed + n
    /\ cpp' = feed(cpp, SubSeq(stream, fed + 1, fed + n))
    /\ UNCHANGED <<stream, sent, read, py>>

\* hasPartialFrame
hasPartialFrame == cpp.prefix # <<>> \/ cpp.expected # 0

-----------------------------------------------------------------------------
\* _receive_exact: size is 0 while the prefix is read.
Wanted == IF py.size = 0 THEN PrefixBytes ELSE py.size

received_OffByOne(data) ==
    IF Len(data) < Wanted THEN [py EXCEPT !.data = data]
    ELSE IF py.size # 0 THEN [py EXCEPT !.size = 0, !.data = <<>>, !.out = Append(py.out, data)]
    ELSE IF Value(data) \in 1..(max_payload_bytes - 1)
         THEN [py EXCEPT !.size = Value(data), !.data = <<>>]
    ELSE [py EXCEPT !.failed = TRUE]

received(data) ==
    IF Len(data) < Wanted THEN [py EXCEPT !.data = data]
    ELSE IF py.size # 0 THEN [py EXCEPT !.size = 0, !.data = <<>>, !.out = Append(py.out, data)]
    ELSE IF Value(data) \in 1..max_payload_bytes
         THEN [py EXCEPT !.size = Value(data), !.data = <<>>]
    ELSE [py EXCEPT !.failed = TRUE]

Recv(n) ==
    /\ ~py.failed
    /\ n <= Wanted - Len(py.data) /\ read + n <= Len(stream)
    /\ read' = read + n
    /\ py' = received(py.data \o SubSeq(stream, read + 1, read + n))
    /\ UNCHANGED <<stream, sent, fed, cpp>>

Next ==
    \/ \E n \in 1..(max_payload_bytes + 1) : \E payload \in [1..n -> Bytes] : Send(payload)
    \/ \E b \in Bytes : Noise(b)
    \/ \E n \in 1..MaxBytes : Feed(n) \/ Recv(n)

Spec == Init /\ [][Next]_vars

-----------------------------------------------------------------------------
\* What the bytes s say: the payloads of the frames that are whole, whether a
\* prefix is impossible, and whether s ends inside a frame.
RECURSIVE Frames(_)
Frames(s) ==
    LET size == Value(SubSeq(s, 1, PrefixBytes)) IN
    CASE Len(s) < PrefixBytes -> [out |-> <<>>, failed |-> FALSE, partial |-> s # <<>>]
      [] Len(s) >= PrefixBytes /\ size \notin 1..max_payload_bytes ->
           [out |-> <<>>, failed |-> TRUE, partial |-> FALSE]
      [] Len(s) >= PrefixBytes /\ size \in 1..max_payload_bytes ->
           IF Len(s) < PrefixBytes + size
           THEN [out |-> <<>>, failed |-> FALSE, partial |-> TRUE]
           ELSE LET rest == Frames(SubSeq(s, PrefixBytes + size + 1, Len(s))) IN
                [rest EXCEPT !.out =
                    <<SubSeq(s, PrefixBytes + 1, PrefixBytes + size)>> \o rest.out]

\* FrameDecoder returns the frames that are in the bytes, however the reads cut
\* them, fails exactly at an impossible prefix, and knows at a disconnect
\* whether a frame was cut off.  Only frames that came in the same read as the
\* impossible prefix are lost.
DecoderReadsFrames ==
    LET frames == Frames(SubSeq(stream, 1, fed)) IN
    /\ cpp.failed = frames.failed
    /\ IF cpp.failed THEN IsPrefix(cpp.out, frames.out) ELSE cpp.out = frames.out
    /\ hasPartialFrame = frames.partial

\* So does the client, byte for byte the same frames as the Worker's decoder.
ClientReadsFrames ==
    LET frames == Frames(SubSeq(stream, 1, read)) IN
    py.failed = frames.failed /\ py.out = frames.out

\* Frames written by an encoder are read, in order, and never refused.
FramesArrive ==
    sent # "noise" =>
        /\ ~cpp.failed /\ IsPrefix(cpp.out, sent)
        /\ ~py.failed /\ IsPrefix(py.out, sent)
        /\ fed = Len(stream) => cpp.out = sent
        /\ read = Len(stream) => py.out = sent

\* The three together: neither end loses, invents or tears a frame.
FramesRead == DecoderReadsFrames /\ ClientReadsFrames /\ FramesArrive

====
