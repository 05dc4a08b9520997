----------------------------- MODULE IpcSession -----------------------------
(***************************************************************************)
(* One end of a connection (src/ipc/ipc_transport.cpp): the handshake, the *)
(* reader and the writer thread, and the callers of start, send and stop.  *)
(* A step is what a thread does under one hold of mutex_, or one call on   *)
(* the socket.  The peer is the environment: it may keep the protocol or   *)
(* not, read or not, and close at any time.                                *)
(*                                                                         *)
(* A frame is a pair: "hello" is what opens a direction (Hello of a client,*)
(* HelloAck of a server), <<"message", n>> the n-th message after it.  The  *)
(* peer may also send what is always refused: a payload decodePayload does *)
(* not take, a hello of another model, a message of this end's own ("bad"),*)
(* and bytes that are no frame ("unframed").                               *)
(***************************************************************************)
EXTENDS Integers, Sequences

CONSTANTS
    Callers,            \* threads that may call stop
    Starter,            \* the one of them that calls start
    SocketFrames,       \* bound: frames the socket holds on their way to the peer
    Settings            \* values of max_egress_frames, each with bounds for the messages
                        \* of this end (sends) and of the peer (messages) after hello

VARIABLES
    role,                                           \* "server" or "client"
    setting,                                        \* one of Settings
    state, stop_requested, terminal_status,
    connection,                                     \* "open", "shutdown", "closed"
    egress,
    reader, batch,      \* the reader: its place, and frames it decoded and has to handle
    early,              \* batch_started_handshaking: "no", "first" frame of it, "rest" of it
    writer, frame,      \* the writer: its place, and the frame it writes
    caller, joining,    \* where each caller is, and the thread it joins
    joinable,           \* threads that nobody has joined
    aborted             \* a join failed inside stop, which is noexcept

VARIABLES
    conforming,         \* whether the peer has kept the protocol
    peer_open,
    inbound, outbound,  \* frames on their way from and to the peer
    received, peer_sent,    \* frames the peer has read and written
    accepted, handled   \* messages send took, and messages the handler took

status == <<state, stop_requested, terminal_status, connection>>
reading == <<reader, batch, early>>
writing == <<writer, frame>>
calls == <<caller, joining, joinable, aborted>>
peer == <<role, setting, conforming, peer_open, received, peer_sent>>
vars == <<status, egress, reading, writing, calls, peer, inbound, outbound, accepted, handled>>

Hello == <<"hello", 0>>
None == <<"none", 0>>
Message(n) == <<"message", n>>
Is(f, kind) == f[1] = kind

Init ==
    /\ role \in {"server", "client"} /\ setting \in Settings
    /\ state = "Created" /\ stop_requested = FALSE /\ terminal_status = "ok"
    /\ connection = "open" /\ egress = <<>>
    /\ reader = "none" /\ batch = <<>> /\ early = "no"
    /\ writer = "none" /\ frame = None
    /\ caller = [k \in Callers |-> "idle"] /\ joining = [k \in Callers |-> "reader"]
    /\ joinable = {} /\ aborted = FALSE
    /\ conforming = TRUE /\ peer_open = TRUE
    /\ inbound = <<>> /\ outbound = <<>> /\ received = <<>> /\ peer_sent = <<>>
    /\ accepted = 0 /\ handled = <<>>

-----------------------------------------------------------------------------
shutdown == connection' = IF connection = "open" THEN "shutdown" ELSE connection

\* fail: only the first failure counts, and none once stop is under way.
fail(why) ==
    IF state \in {"Failed", "Stopped", "Stopping"} THEN UNCHANGED status
    ELSE state' = "Failed" /\ stop_requested' = TRUE /\ terminal_status' = why /\ shutdown

\* A read or a write that failed: the thread ends, quietly when that was asked for.
Disconnected == IF stop_requested THEN UNCHANGED status ELSE fail("unavailable")

markReady ==
    /\ state' = IF state = "Handshaking" THEN "Ready" ELSE state
    /\ UNCHANGED <<stop_requested, terminal_status, connection>>

\* enqueueMessage takes a frame.
Takes(wanted) ==
    /\ ~stop_requested /\ state = wanted /\ Len(egress) < setting.max_egress_frames

-----------------------------------------------------------------------------
\* start: both threads run before a client queues its Hello.
start ==
    /\ state = "Created" /\ caller[Starter] = "idle"
    /\ state' = "Handshaking"
    /\ reader' = "reading" /\ writer' = "waiting" /\ joinable' = {"reader", "writer"}
    /\ caller' = [caller EXCEPT ![Starter] = IF role = "client" THEN "hello" ELSE "idle"]
    /\ UNCHANGED <<stop_requested, terminal_status, connection, egress, batch, early, frame,
                   joining, aborted, peer, inbound, outbound, accepted, handled>>

\* The Hello is refused when the session has failed or stopped since; then start
\* stops it.
StartGreets ==
    /\ caller[Starter] = "hello"
    /\ IF Takes("Handshaking")
       THEN /\ egress' = Append(egress, Hello)
            /\ caller' = [caller EXCEPT ![Starter] = "idle"] /\ UNCHANGED status
       ELSE /\ fail("unavailable")
            /\ caller' = [caller EXCEPT ![Starter] = "stop"] /\ UNCHANGED egress
    /\ UNCHANGED <<reading, writing, joining, joinable, aborted, peer, inbound, outbound, accepted,
                   handled>>

\* send; what it refuses changes nothing.
send ==
    /\ Takes("Ready") /\ accepted < setting.sends
    /\ accepted' = accepted + 1
    /\ egress' = Append(egress, Message(accepted + 1))
    /\ UNCHANGED <<status, reading, writing, calls, peer, inbound, outbound, handled>>

-----------------------------------------------------------------------------
\* Mutant: the newest frame is taken first.
WriterTakes_Newest ==
    /\ writer = "waiting"
    /\ \/ stop_requested /\ writer' = "over" /\ UNCHANGED <<egress, frame>>
       \/ /\ ~stop_requested /\ egress # <<>>
          /\ frame' = egress[Len(egress)] /\ egress' = SubSeq(egress, 1, Len(egress) - 1)
          /\ writer' = "writing"
    /\ UNCHANGED <<status, reading, calls, peer, inbound, outbound, accepted, handled>>

\* writerLoop waits for a frame or for the end.
WriterTakes ==
    /\ writer = "waiting"
    /\ \/ stop_requested /\ writer' = "over" /\ UNCHANGED <<egress, frame>>
       \/ /\ ~stop_requested /\ egress # <<>>
          /\ frame' = Head(egress) /\ egress' = Tail(egress) /\ writer' = "writing"
    /\ UNCHANGED <<status, reading, calls, peer, inbound, outbound, accepted, handled>>

\* writeAll blocks while the socket is full, and fails when an end is shut down.
WriterWrites ==
    /\ writer = "writing"
    /\ \/ /\ connection = "open" /\ peer_open /\ Len(outbound) < SocketFrames
          /\ outbound' = Append(outbound, frame)
          /\ writer' = IF role = "server" /\ frame = Hello THEN "marking" ELSE "waiting"
          /\ UNCHANGED status
       \/ /\ connection # "open" \/ ~peer_open
          /\ Disconnected /\ writer' = "over" /\ UNCHANGED outbound
    /\ frame' = None
    /\ UNCHANGED <<egress, reading, calls, peer, inbound, accepted, handled>>

\* A server is ready when its HelloAck is written.
WriterMarks ==
    /\ writer = "marking"
    /\ markReady /\ writer' = "waiting"
    /\ UNCHANGED <<egress, reading, frame, calls, peer, inbound, outbound, accepted, handled>>

-----------------------------------------------------------------------------
\* Mutant: later messages of a read are refused at any time.
ReaderReads_AlwaysFirst ==
    /\ reader = "reading"
    /\ \E n \in 1..Len(inbound) :
         /\ inbound' = SubSeq(inbound, n + 1, Len(inbound))
         /\ IF \E i \in 1..n : Is(inbound[i], "unframed")
            THEN fail("invalid") /\ reader' = "over" /\ UNCHANGED <<batch, early>>
            ELSE /\ reader' = "handling" /\ batch' = SubSeq(inbound, 1, n)
                 /\ early' = "first"
                 /\ UNCHANGED status
    /\ UNCHANGED <<egress, writing, calls, peer, outbound, accepted, handled>>

\* readerLoop: a read takes some of the frames that have come; one the decoder refuses
\* fails the session before any of them is handled.
ReaderReads ==
    /\ reader = "reading"
    /\ \E n \in 1..Len(inbound) :
         /\ inbound' = SubSeq(inbound, n + 1, Len(inbound))
         /\ IF \E i \in 1..n : Is(inbound[i], "unframed")
            THEN fail("invalid") /\ reader' = "over" /\ UNCHANGED <<batch, early>>
            ELSE /\ reader' = "handling" /\ batch' = SubSeq(inbound, 1, n)
                 /\ early' = IF state = "Handshaking" THEN "first" ELSE "no"
                 /\ UNCHANGED status
    /\ UNCHANGED <<egress, writing, calls, peer, outbound, accepted, handled>>

\* The peer, or a shutdown of this end, ended the stream.
ReaderEnds ==
    /\ reader = "reading" /\ inbound = <<>> /\ (~peer_open \/ connection # "open")
    /\ Disconnected /\ reader' = "over"
    /\ UNCHANGED <<egress, batch, early, writing, calls, peer, inbound, outbound, accepted, handled>>

\* handleHandshake: a server queues HelloAck, a client is ready.
handleHandshake(m) ==
    /\ m = Hello
    /\ \/ role = "server" /\ Takes("Handshaking") /\ egress' = Append(egress, Hello)
          /\ UNCHANGED status
       \/ role = "client" /\ markReady /\ UNCHANGED egress
    /\ UNCHANGED handled

\* dispatchReadyMessage, when the handler does not throw.
dispatchReadyMessage(m) ==
    /\ state = "Ready" /\ Is(m, "message")
    /\ handled' = Append(handled, m)
    /\ UNCHANGED <<status, egress>>

Handled(m) ==
    /\ early # "rest"
    /\ IF state = "Handshaking" THEN handleHandshake(m) ELSE dispatchReadyMessage(m)

\* A second Hello, while the first HelloAck is still queued.
QueueFull(m) ==
    /\ early # "rest" /\ role = "server" /\ state = "Handshaking" /\ m = Hello
    /\ ~Takes("Handshaking")

Refused(m) ==
    \/ early = "rest"
    \/ state = "Handshaking" /\ (m # Hello \/ QueueFull(m))
    \/ state # "Handshaking" /\ (state # "Ready" \/ ~Is(m, "message"))

\* The next frame of the batch.
ReaderHandles ==
    /\ reader = "handling"
    /\ LET m == Head(batch) IN
       \/ /\ Handled(m)
          /\ batch' = Tail(batch) /\ reader' = IF Len(batch) = 1 THEN "reading" ELSE "handling"
          /\ early' = IF early = "first" THEN "rest" ELSE early
       \/ /\ \/ Refused(m) /\ fail(IF QueueFull(m) THEN "queue_full" ELSE "invalid")
             \/ ~Refused(m) /\ state = "Ready" /\ fail("internal")   \* the handler throws
          /\ batch' = <<>> /\ reader' = "over" /\ UNCHANGED <<egress, early, handled>>
    /\ UNCHANGED <<writing, calls, peer, inbound, outbound, accepted>>

-----------------------------------------------------------------------------
\* Mutant: the threads are joined, the socket not shut down.
StopBegins_NoShutdown(k) ==
    /\ caller[k] \in {"idle", "stop"}
    /\ \/ /\ state = "Created"
          /\ state' = "Stopped" /\ connection' = "closed"
          /\ caller' = [caller EXCEPT ![k] = "returned"] /\ UNCHANGED stop_requested
       \/ /\ state = "Stopped"
          /\ caller' = [caller EXCEPT ![k] = "returned"]
          /\ UNCHANGED <<state, stop_requested, connection>>
       \/ /\ state \notin {"Created", "Stopped"}
          /\ stop_requested' = TRUE
          /\ state' = IF state = "Failed" THEN state ELSE "Stopping"
          /\ UNCHANGED connection
          /\ caller' = [caller EXCEPT ![k] = "ask"]
    /\ UNCHANGED <<terminal_status, egress, reading, writing, joining, joinable, aborted, peer, inbound,
                   outbound, accepted, handled>>

\* stop: a session that was not started, or is stopped, is left at once.
StopBegins(k) ==
    /\ caller[k] \in {"idle", "stop"}
    /\ \/ /\ state = "Created"
          /\ state' = "Stopped" /\ connection' = "closed"
          /\ caller' = [caller EXCEPT ![k] = "returned"] /\ UNCHANGED stop_requested
       \/ /\ state = "Stopped"
          /\ caller' = [caller EXCEPT ![k] = "returned"]
          /\ UNCHANGED <<state, stop_requested, connection>>
       \/ /\ state \notin {"Created", "Stopped"}
          /\ stop_requested' = TRUE
          /\ state' = IF state = "Failed" THEN state ELSE "Stopping"
          /\ shutdown
          /\ caller' = [caller EXCEPT ![k] = "ask"]
    /\ UNCHANGED <<terminal_status, egress, reading, writing, joining, joinable, aborted, peer, inbound,
                   outbound, accepted, handled>>

\* joinable() and then join(), of the reader first.
StopAsks(k) ==
    /\ caller[k] = "ask"
    /\ caller' = [caller EXCEPT ![k] = IF joining[k] \in joinable THEN "join" ELSE "joined"]
    /\ UNCHANGED <<status, egress, reading, writing, joining, joinable, aborted, peer, inbound,
                   outbound, accepted, handled>>

\* join() of a thread that has been joined, or that another caller joins, throws, and
\* stop is noexcept.
StopJoins(k) ==
    /\ caller[k] = "join"
    /\ \/ /\ \/ joining[k] \notin joinable
             \/ \E c \in Callers \ {k} : caller[c] = "join" /\ joining[c] = joining[k]
          /\ aborted' = TRUE /\ UNCHANGED <<caller, joinable>>
       \/ /\ joining[k] \in joinable
          /\ \A c \in Callers \ {k} : caller[c] = "join" => joining[c] # joining[k]
          /\ (IF joining[k] = "reader" THEN reader ELSE writer) = "over"
          /\ joinable' = joinable \ {joining[k]}
          /\ caller' = [caller EXCEPT ![k] = "joined"] /\ UNCHANGED aborted
    /\ UNCHANGED <<status, egress, reading, writing, joining, peer, inbound, outbound, accepted,
                   handled>>

\* Mutant: the writer is not joined.
StopGoesOn_WriterLeft(k) ==
    /\ caller[k] = "joined"
    /\ \/ /\ joining[k] = "reader" /\ reader # "over"
          /\ joining' = [joining EXCEPT ![k] = "writer"] /\ caller' = [caller EXCEPT ![k] = "ask"]
          /\ UNCHANGED <<state, connection, egress>>
       \/ /\ joining[k] = "writer" \/ reader = "over"
          /\ connection' = "closed" /\ egress' = <<>>
          /\ state' = IF state = "Failed" THEN state ELSE "Stopped"
          /\ caller' = [caller EXCEPT ![k] = "returned"] /\ UNCHANGED joining
    /\ UNCHANGED <<stop_requested, terminal_status, reading, writing, joinable, aborted, peer,
                   inbound, outbound, accepted, handled>>

\* The writer next, or close and the last hold of the lock.
StopGoesOn(k) ==
    /\ caller[k] = "joined"
    /\ \/ /\ joining[k] = "reader"
          /\ joining' = [joining EXCEPT ![k] = "writer"] /\ caller' = [caller EXCEPT ![k] = "ask"]
          /\ UNCHANGED <<state, connection, egress>>
       \/ /\ joining[k] = "writer"
          /\ connection' = "closed" /\ egress' = <<>>
          /\ state' = IF state = "Failed" THEN state ELSE "Stopped"
          /\ caller' = [caller EXCEPT ![k] = "returned"] /\ UNCHANGED joining
    /\ UNCHANGED <<stop_requested, terminal_status, reading, writing, joinable, aborted, peer,
                   inbound, outbound, accepted, handled>>

stop(k) == StopBegins(k) \/ StopAsks(k) \/ StopJoins(k) \/ StopGoesOn(k)

-----------------------------------------------------------------------------
\* The peer keeps the protocol: a client opens with Hello and sends the rest when it
\* has HelloAck; a server answers Hello, and then only what it is sent.
MaySend ==
    LET answers == IF role = "server" THEN 0 ELSE 1
        next == IF peer_sent = <<>> THEN Hello ELSE Message(Len(peer_sent))
    IN  IF Len(received) >= answers + (IF next = Hello THEN 0 ELSE 1) THEN {next} ELSE {}

\* Or it departs from it, once, with the last frame it sends.
Departures ==
    {Hello, Message(Len(peer_sent)), <<"bad", 0>>, <<"unframed", 0>>} \ MaySend

PeerSends ==
    /\ peer_open /\ connection = "open" /\ conforming /\ Len(peer_sent) <= setting.messages
    /\ \E m \in MaySend \cup Departures :
         /\ inbound' = Append(inbound, m) /\ peer_sent' = Append(peer_sent, m)
         /\ conforming' = (m \in MaySend)
    /\ UNCHANGED <<status, egress, reading, writing, calls, role, setting, peer_open, received,
                   outbound, accepted, handled>>

PeerReads ==
    /\ peer_open /\ connection = "open" /\ outbound # <<>>
    /\ received' = Append(received, Head(outbound)) /\ outbound' = Tail(outbound)
    /\ UNCHANGED <<status, egress, reading, writing, calls, role, setting, conforming, peer_open,
                   peer_sent, inbound, accepted, handled>>

PeerCloses ==
    /\ peer_open /\ connection = "open"
    /\ peer_open' = FALSE
    /\ UNCHANGED <<status, egress, reading, writing, calls, role, setting, conforming, received,
                   peer_sent, inbound, outbound, accepted, handled>>

-----------------------------------------------------------------------------
Next ==
    /\ ~aborted
    /\ \/ start \/ StartGreets \/ send
       \/ WriterTakes \/ WriterWrites \/ WriterMarks
       \/ ReaderReads \/ ReaderHandles \/ ReaderEnds
       \/ \E k \in Callers : stop(k)
       \/ PeerSends \/ PeerReads \/ PeerCloses

\* The threads run and calls that were made go on; nobody has to call, and the
\* peer has to do nothing.
Fairness ==
    /\ WF_vars(StartGreets)
    /\ WF_vars(WriterTakes) /\ WF_vars(WriterWrites) /\ WF_vars(WriterMarks)
    /\ WF_vars(ReaderReads) /\ WF_vars(ReaderHandles)
    /\ WF_vars(ReaderEnds)
    /\ \A k \in Callers : WF_vars(caller[k] # "idle" /\ stop(k))

Spec == Init /\ [][Next]_vars /\ Fairness

-----------------------------------------------------------------------------
UpTo(n) == [i \in 1..n |-> Message(i)]
Written == received \o outbound
IsMessage(f) == Is(f, "message")

\* What send took is written in that order, none left out; to a peer that keeps the
\* protocol after one hello.  What the handler took is what the peer sent after
\* its hello, in that order, none left out, and after this end's hello.
InOrder ==
    /\ LET messages == SelectSeq(Written, IsMessage) IN
       /\ messages = UpTo(Len(messages))
       /\ conforming => Written \in {<<>>, <<Hello>> \o messages}
    /\ handled # <<>> => SubSeq(peer_sent, 1, Len(handled) + 1) = <<Hello>> \o handled
    /\ conforming /\ handled # <<>> => Written # <<>>

\* A session fails a peer for breaking the protocol only if it did, but for a server
\* that had not yet marked itself ready when it read what the peer sent on HelloAck.
BlamesRightly ==
    conforming /\ terminal_status = "invalid" =>
        role = "server" /\ early # "no" /\ Len(peer_sent) > 1

\* No thread runs on a closed connection, and only two calls of stop at once abort.
ClosedIsUnused ==
    /\ connection = "closed" => reader \in {"none", "over"} /\ writer \in {"none", "over"}
    /\ aborted => \E j, k \in Callers : j # k /\ {caller[j], caller[k]} \cap {"idle", "hello"} = {}

\* What a session promises its owner and its peer, for as long as it lives:
\* messages in order and none before the handshake, no failure without cause, no
\* thread left behind by stop, and a bounded queue.
SessionFaithful ==
    InOrder /\ BlamesRightly /\ ClosedIsUnused /\ Len(egress) <= setting.max_egress_frames

\* A session that was started ends when its peer goes away, and start and stop
\* return although the peer reads nothing, unless two calls of stop at once abort.
SessionEnds ==
    /\ ~peer_open /\ state # "Created" ~> aborted \/ state \in {"Failed", "Stopped"}
    /\ \A k \in Callers :
         caller[k] \in {"hello", "stop", "ask"} ~> aborted \/ caller[k] \in {"idle", "returned"}

====
