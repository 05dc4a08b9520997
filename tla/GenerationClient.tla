-------------------------- MODULE GenerationClient --------------------------
(***************************************************************************)
(* The Gateway's end of the IPC (clients/python/.../generation_client.py): *)
(* threads that submit, cancel and probe, one reader thread for each       *)
(* connection, and the owner that connects and closes.  A step is what a   *)
(* thread does under one hold of _state_condition, or one blocking call.   *)
(* The Worker at the other end is the environment.                         *)
(*                                                                         *)
(* _socket, _connected and _hello_ack always change together: they are     *)
(* current, 0 when the client is not connected.  _lifecycle_lock makes     *)
(* connect and close one thread, the owner.  A submit has its own request  *)
(* id, as _RequestIdAllocator gives it.                                    *)
(***************************************************************************)
EXTENDS Integers, Sequences, FiniteSets

CONSTANTS
    Requests,               \* request ids
    Oversized,              \* the requests whose frame exceeds the Worker's limit
    Probes,                 \* probe ids, one for each call of health
    RequestLimit,           \* min(max_pending_requests, limits.max_active_requests)
    max_delta_events,
    WireCap,                \* frames a socket buffers in each direction
    MaxConnections,         \* bound: successful connects
    Scenarios               \* which calls are made

\* A scenario: the requests that are submitted, those whose consumer may cancel and
\* the calls of health, whether the Worker restarts between two connections and
\* whether the owner closes; bounds, for the connects and the TokenDeltas of a request.
ASSUME ConfigValid ==
    /\ RequestLimit \in Nat \ {0} /\ max_delta_events \in Nat \ {0}
    /\ WireCap \in Nat \ {0} /\ MaxConnections \in Nat
    /\ Oversized \subseteq Requests
    /\ \A c \in Scenarios :
         /\ c.submitted \subseteq Requests /\ c.cancelled \subseteq c.submitted
         /\ c.probed \subseteq Probes /\ {c.restarted, c.closed} \subseteq BOOLEAN
         /\ c.connects \in 0..MaxConnections /\ c.deltas \in Nat

Connections == 1..MaxConnections
Submitter(r) == <<"submit", r>>
Canceller(r) == <<"cancel", r>>
Prober(p) == <<"health", p>>
Reader(c) == <<"reader", c>>
Owner == <<"owner", 0>>
Free == <<"none", 0>>       \* nobody holds _send_lock
Readers == {Reader(c) : c \in Connections}
Senders == {Submitter(r) : r \in Requests} \cup {Canceller(r) : r \in Requests}
           \cup {Prober(p) : p \in Probes} \cup Readers
Threads == Senders \cup {Owner}

VARIABLES
    current,                \* the connection, 0 for None
    reader_thread,          \* whose reader _reader_thread is, 0 for None
    requests, probes,       \* _requests and _probes
    send_lock,
    accepted, rejected, failed, cancel_sent,    \* fields of _RequestState, as sets
    next_sequence_no,
    deltas, terminal, overflowed, terminal_delivered,   \* _EventBuffer
    response                \* the queue of each probe
client == <<current, reader_thread, requests, probes, send_lock>>
states == <<accepted, rejected, failed, cancel_sent, next_sequence_no>>
buffers == <<deltas, terminal, overflowed>>

VARIABLES
    pc, outcome,            \* where each thread is, what each submit returned
    message,                \* what a thread is sending or delivering
    target,                 \* the connection a thread took under the lock
    failing                 \* what a thread in _fail took under the lock
threads == <<pc, outcome, message, target, failing>>

VARIABLES
    sock, peer,             \* whether each end of each connection is open
    toWorker, toClient,     \* frames under way
    epoch,                  \* worker_epoch of each connection
    phase, sent, asked      \* Worker: where each request is, deltas sent, probes to answer
wires == <<sock, peer, toWorker, toClient, epoch>>
worker == <<phase, sent, asked>>

VARIABLES
    scenario,               \* chosen once
    got,                    \* history: sequence numbers each handle returned
    registered_on,          \* history: the connection a request was registered on
    forgotten               \* history: the readers _fail dropped before they were started
history == <<scenario, got, registered_on, forgotten>>

vars == <<client, states, buffers, terminal_delivered, response, threads, wires, worker, history>>

Frame(type, id, arg) == [type |-> type, id |-> id, arg |-> arg]
NoFrame == Frame("none", 0, 0)
NoFailure == [connection |-> 0, requests |-> {}, probes |-> {}, reader |-> 0,
              join |-> FALSE, then |-> "none"]

Init ==
    /\ current = 0 /\ reader_thread = 0 /\ requests = {} /\ probes = {} /\ send_lock = Free
    /\ accepted = {} /\ rejected = {} /\ failed = {} /\ cancel_sent = {}
    /\ next_sequence_no = [r \in Requests |-> 0]
    /\ deltas = [r \in Requests |-> <<>>] /\ terminal = [r \in Requests |-> "none"]
    /\ overflowed = {} /\ terminal_delivered = {}
    /\ response = [p \in Probes |-> "empty"]
    /\ pc = [t \in Threads |-> IF t \in Readers THEN "none" ELSE "idle"]
    /\ outcome = [r \in Requests |-> "none"]
    /\ message = [t \in Threads |-> NoFrame] /\ target = [t \in Threads |-> 0]
    /\ failing = [t \in Threads |-> NoFailure]
    /\ sock = [c \in Connections |-> "none"] /\ peer = [c \in Connections |-> "none"]
    /\ toWorker = [c \in Connections |-> <<>>] /\ toClient = [c \in Connections |-> <<>>]
    /\ epoch = [c \in Connections |-> 0]
    /\ phase = [c \in Connections |-> [r \in Requests |-> "unknown"]]
    /\ sent = [c \in Connections |-> [r \in Requests |-> 0]]
    /\ asked = [c \in Connections |-> {}]
    /\ scenario \in Scenarios
    /\ got = [r \in Requests |-> <<>>] /\ registered_on = [r \in Requests |-> 0]
    /\ forgotten = {}

-----------------------------------------------------------------------------
Connected == current # 0
Alive(c) == pc[Reader(c)] \notin {"none", "dead"}
Go(t, there) == pc' = [pc EXCEPT ![t] = there]
Return(r, what) == outcome' = [outcome EXCEPT ![r] = what]

\* t calls _fail and, once that is through, raises (then = "raise") or goes on
\* at the pc then.
CallFail(t, join, then) ==
    /\ Go(t, "fail")
    /\ failing' = [failing EXCEPT ![t] = [NoFailure EXCEPT !.join = join, !.then = then]]

\* t hands message m to _send_payload.
CallSend(t, m) == Go(t, "send") /\ message' = [message EXCEPT ![t] = m]

-----------------------------------------------------------------------------
\* connect: nothing may be left of an earlier connection.  The handshake (on
\* a socket no other thread sees) failing leaves everything as it was.  A
\* Worker that has been restarted has a new epoch.
MayConnect_ReaderIgnored == current = 0

MayConnect == current = 0 /\ (reader_thread # 0 => ~Alive(reader_thread))

Handshake(c, e) ==
    /\ pc[Owner] = "idle"
    /\ MayConnect /\ c <= scenario.connects
    /\ sock[c] = "none" /\ \A b \in 1..(c - 1) : sock[b] # "none"
    /\ sock' = [sock EXCEPT ![c] = "open"] /\ peer' = [peer EXCEPT ![c] = "open"]
    /\ epoch' = [epoch EXCEPT ![c] = e]
    /\ current' = c
    /\ target' = [target EXCEPT ![Owner] = c]
    /\ Go(Owner, "start")
    /\ UNCHANGED <<reader_thread, requests, probes, send_lock, states, buffers, terminal_delivered,
                   response, outcome, message, failing, toWorker, toClient, worker, history>>

Connect == \E c \in Connections : Handshake(c, IF scenario.restarted THEN c ELSE 1)

\* connect has published the connection.  _reader_thread is set, and then the
\* reader started, or starting it fails; all of it outside _state_condition.
SetReader ==
    /\ pc[Owner] = "start"
    /\ reader_thread' = target[Owner]
    /\ Go(Owner, "starting")
    /\ UNCHANGED <<current, requests, probes, send_lock, states, buffers, terminal_delivered,
                   response, outcome, message, target, failing, wires, worker, history>>

StartReader ==
    /\ pc[Owner] = "starting"
    /\ target' = [target EXCEPT ![Owner] = 0]
    /\ \/ /\ pc' = [pc EXCEPT ![Owner] = "idle", ![Reader(target[Owner])] = "top"]
          /\ UNCHANGED failing
       \/ CallFail(Owner, FALSE, "idle")
    /\ UNCHANGED <<client, states, buffers, terminal_delivered, response, outcome, message, wires,
                   worker, history>>

Close ==
    /\ pc[Owner] = "idle" /\ scenario.closed
    /\ CallFail(Owner, TRUE, "idle")
    /\ UNCHANGED <<client, states, buffers, terminal_delivered, response, outcome, message,
                   target, wires, worker, history>>

-----------------------------------------------------------------------------
\* submit, up to the send.
Submit(r) ==
    LET t == Submitter(r) IN
    /\ pc[t] = "idle" /\ r \in scenario.submitted
    /\ \/ /\ ~Connected
          /\ Return(r, "unavailable") /\ Go(t, "done")
          /\ UNCHANGED <<requests, message, registered_on>>
       \/ /\ Connected
          /\ Cardinality(requests) >= RequestLimit
          /\ Return(r, "capacity") /\ Go(t, "done")
          /\ UNCHANGED <<requests, message, registered_on>>
       \/ /\ Connected
          /\ Cardinality(requests) < RequestLimit
          /\ requests' = requests \cup {r}
          /\ registered_on' = [registered_on EXCEPT ![r] = current]
          /\ CallSend(t, Frame("submit", r, epoch[current]))
          /\ UNCHANGED outcome
    /\ UNCHANGED <<current, reader_thread, probes, send_lock, states, buffers, terminal_delivered,
                   response, target, failing, wires, worker, scenario, got, forgotten>>

\* submit, waiting for the answer: it returns the handle, raises, or gives up.
Answered(r) == r \in accepted \cup rejected \cup failed

AwaitAnswer(r) ==
    LET t == Submitter(r) IN
    /\ pc[t] = "wait"
    /\ Answered(r)
    /\ Return(r, CASE r \in accepted -> "handle"
                   [] r \in rejected -> "rejected"
                   [] OTHER          -> "unavailable")
    /\ Go(t, "done")
    /\ UNCHANGED <<client, states, buffers, terminal_delivered, response, message, target,
                   failing, wires, worker, history>>

AcceptTimeout_Dropped(r) ==
    LET t == Submitter(r) IN
    /\ pc[t] = "wait"
    /\ ~Answered(r)
    /\ requests' = requests \ {r}
    /\ Return(r, "unavailable") /\ Go(t, "done")
    /\ UNCHANGED <<current, reader_thread, probes, send_lock, states, buffers, terminal_delivered,
                   response, message, target, failing, wires, worker, history>>

AcceptTimeout(r) ==
    LET t == Submitter(r) IN
    /\ pc[t] = "wait"
    /\ ~Answered(r)
    /\ CallFail(t, TRUE, "raise")
    /\ UNCHANGED <<client, states, buffers, terminal_delivered, response, outcome, message,
                   target, wires, worker, history>>

\* GenerationHandle.cancel.  Where it only returns False or True, or raises,
\* nothing changes.
Cancel(r) ==
    LET t == Canceller(r) IN
    /\ pc[t] = "idle"
    /\ r \in scenario.cancelled /\ outcome[r] = "handle"
    /\ Connected
    /\ r \in (requests \cap accepted) \ cancel_sent
    /\ cancel_sent' = cancel_sent \cup {r}
    /\ CallSend(t, Frame("cancel", r, epoch[current]))
    /\ UNCHANGED <<client, accepted, rejected, failed, next_sequence_no, buffers,
                   terminal_delivered, response, outcome, target, failing, wires, worker, history>>

Health(p) ==
    LET t == Prober(p) IN
    /\ pc[t] = "idle" /\ p \in scenario.probed
    /\ \/ ~Connected /\ Go(t, "done") /\ UNCHANGED <<probes, message>>
       \/ /\ Connected
          /\ probes' = probes \cup {p}
          /\ CallSend(t, Frame("health", p, epoch[current]))
    /\ UNCHANGED <<current, reader_thread, requests, send_lock, states, buffers,
                   terminal_delivered, response, outcome, target, failing, wires, worker, history>>

\* Stats, None or, on a timeout, nothing: health returns or raises, and in each
\* case forgets the probe and its queue.
AwaitStats(p) ==
    LET t == Prober(p) IN
    /\ pc[t] = "wait"
    /\ probes' = probes \ {p}
    /\ response' = [response EXCEPT ![p] = "empty"]
    /\ Go(t, "done")
    /\ UNCHANGED <<current, reader_thread, requests, send_lock, states, buffers,
                   terminal_delivered, outcome, message, target, failing, wires, worker, history>>

-----------------------------------------------------------------------------
\* What follows when _send_payload raises in t: submit forgets its request,
\* health its probe, cancel passes it on, and the reader loop calls _fail.
Forget_Nothing(t) == UNCHANGED <<requests, probes>>

Forget(t) ==
    /\ requests' = IF t[1] = "submit" THEN requests \ {t[2]} ELSE requests
    /\ probes' = IF t[1] = "health" THEN probes \ {t[2]} ELSE probes

RaiseIn(t, what) ==
    \/ /\ t[1] = "submit"
       /\ Return(t[2], what) /\ Go(t, "done")
       /\ failing' = [failing EXCEPT ![t] = NoFailure]
    \/ /\ t[1] \in {"health", "cancel"}
       /\ Go(t, IF t[1] = "health" THEN "done" ELSE "idle")
       /\ failing' = [failing EXCEPT ![t] = NoFailure]
       /\ UNCHANGED outcome
    \/ /\ t[1] = "reader"
       /\ CallFail(t, FALSE, "dead")
       /\ UNCHANGED outcome

\* _send_payload takes _send_lock and then the connection, whichever it is by
\* now; with none it raises.
TakeSocket(t) ==
    /\ pc[t] = "send"
    /\ send_lock = Free
    /\ \/ /\ Connected
          /\ send_lock' = t
          /\ target' = [target EXCEPT ![t] = current]
          /\ Go(t, "sendall")
          /\ UNCHANGED <<requests, probes, outcome, message, failing>>
       \/ /\ ~Connected
          /\ Forget(t) /\ RaiseIn(t, "unavailable")
          /\ message' = [message EXCEPT ![t] = NoFrame]
          /\ UNCHANGED <<send_lock, target>>
    /\ UNCHANGED <<current, reader_thread, states, buffers, terminal_delivered, response, wires,
                   worker, history>>

\* Where t goes on once its frame is out.
AfterSend(t) == CASE t[1] \in {"submit", "health"} -> "wait"
                  [] t[1] = "cancel" -> "idle"
                  [] t[1] = "reader" -> "top"

\* sendall blocks while the buffer is full and raises OSError when either end
\* is closed; encode_frame refuses an oversized frame before that.
SendAll(t) ==
    LET c == target[t] IN
    /\ pc[t] = "sendall"
    /\ \/ /\ message[t].type = "submit" /\ message[t].id \in Oversized
          /\ Forget(t) /\ RaiseIn(t, "invalid")
          /\ send_lock' = Free
          /\ target' = [target EXCEPT ![t] = 0]
          /\ message' = [message EXCEPT ![t] = NoFrame]
          /\ UNCHANGED toWorker
       \/ /\ message[t].id \notin Oversized
          /\ sock[c] = "open" /\ peer[c] = "open"
          /\ Len(toWorker[c]) < WireCap
          /\ toWorker' = [toWorker EXCEPT ![c] = Append(@, message[t])]
          /\ send_lock' = Free
          /\ target' = [target EXCEPT ![t] = 0]
          /\ message' = [message EXCEPT ![t] = NoFrame]
          /\ Go(t, AfterSend(t))
          /\ UNCHANGED <<requests, probes, outcome, failing>>
       \/ /\ message[t].id \notin Oversized
          /\ "closed" \in {sock[c], peer[c]}
          /\ CallFail(t, FALSE, "raise")
          /\ UNCHANGED <<requests, probes, outcome, send_lock, target, message, toWorker>>
    /\ UNCHANGED <<current, reader_thread, states, buffers, terminal_delivered, response, sock,
                   peer, toClient, epoch, worker, history>>

-----------------------------------------------------------------------------
\* _fail, under the lock: the connection is given up, with all it owes.
FailTaken(t) == [failing[t] EXCEPT !.connection = current, !.requests = requests,
                                   !.probes = probes, !.reader = reader_thread]

ClearRequests == requests' = {} /\ probes' = {}

FailClear(t) ==
    /\ pc[t] = "fail"
    /\ failing' = [failing EXCEPT ![t] = FailTaken(t)]
    /\ current' = 0
    /\ ClearRequests
    /\ failed' = failed \cup requests
    /\ Go(t, "settle")
    /\ UNCHANGED <<reader_thread, send_lock, accepted, rejected, cancel_sent, next_sequence_no,
                   buffers, terminal_delivered, response, outcome, message, target, wires,
                   worker, history>>

\* put_terminal: what a buffer holds afterwards, the first Terminal it was given.
PutTerminal(r, status) == IF terminal[r] = "none" THEN status ELSE terminal[r]

\* _fail, after the lock: the socket is shut down and closed, every request
\* that was accepted gets its Terminal, every probe its None.  What the Worker
\* still does with that session cannot be seen from here.
Owed_None(t) == {}

Owed(t) == failing[t].requests \cap accepted

Shutdown_Forgotten(k) == UNCHANGED <<sock, peer, toWorker, toClient, phase, sent, asked>>

Shutdown(k) ==
    LET With(f, value) == [c \in Connections |-> IF c = k THEN value ELSE f[c]] IN
    /\ sock' = With(sock, "closed") /\ peer' = With(peer, "closed")
    /\ toWorker' = With(toWorker, <<>>) /\ toClient' = With(toClient, <<>>)
    /\ phase' = With(phase, [r \in Requests |-> "unknown"])
    /\ sent' = With(sent, [r \in Requests |-> 0]) /\ asked' = With(asked, {})

FailSettle(t) ==
    /\ pc[t] = "settle"
    /\ Shutdown(failing[t].connection)
    /\ terminal' = [r \in Requests |->
                      IF r \in Owed(t) THEN PutTerminal(r, "unavailable") ELSE terminal[r]]
    /\ response' = [p \in Probes |->
                      IF p \in failing[t].probes /\ response[p] = "empty" THEN "None" ELSE response[p]]
    /\ Go(t, "join")
    /\ UNCHANGED <<client, states, deltas, overflowed, terminal_delivered, outcome, message,
                   target, failing, epoch, history>>

\* _fail, last: join the reader if asked to (never oneself), drop it when it
\* is gone, and go on as the caller does.
FailJoin_JoinsAlways(t) ==
    LET r == failing[t].reader IN
    /\ pc[t] = "join"
    /\ r # 0 => ~Alive(r)
    /\ reader_thread' = IF r = reader_thread THEN 0 ELSE reader_thread
    /\ UNCHANGED forgotten
    /\ \/ /\ failing[t].then # "raise"
          /\ Go(t, failing[t].then)
          /\ failing' = [failing EXCEPT ![t] = NoFailure]
          /\ UNCHANGED <<requests, probes, send_lock, outcome, message, target>>
       \/ /\ failing[t].then = "raise"
          /\ Forget(t) /\ RaiseIn(t, "unavailable")
          /\ send_lock' = IF send_lock = t THEN Free ELSE send_lock
          /\ target' = [target EXCEPT ![t] = 0]
          /\ message' = [message EXCEPT ![t] = NoFrame]
    /\ UNCHANGED <<current, states, buffers, terminal_delivered, response, wires, worker, scenario,
                   got, registered_on>>

FailJoin(t) ==
    LET f == failing[t]
        r == f.reader
    IN
    /\ pc[t] = "join"
    /\ f.join /\ r # 0 => ~Alive(r)
    /\ reader_thread' = IF r # 0 /\ r = reader_thread /\ ~Alive(r) THEN 0 ELSE reader_thread
    /\ forgotten' = IF r # 0 /\ r = reader_thread /\ pc[Reader(r)] = "none"
                    THEN forgotten \cup {r} ELSE forgotten
    /\ \/ /\ f.then # "raise"
          /\ Go(t, f.then)
          /\ failing' = [failing EXCEPT ![t] = NoFailure]
          /\ UNCHANGED <<requests, probes, send_lock, outcome, message, target>>
       \/ /\ f.then = "raise"
          /\ Forget(t) /\ RaiseIn(t, "unavailable")
          /\ send_lock' = IF send_lock = t THEN Free ELSE send_lock
          /\ target' = [target EXCEPT ![t] = 0]
          /\ message' = [message EXCEPT ![t] = NoFrame]
    /\ UNCHANGED <<current, states, buffers, terminal_delivered, response, wires, worker, scenario,
                   got, registered_on>>

-----------------------------------------------------------------------------
\* _reader_loop takes the connection for its next frame, or ends.
ReaderTop(c) ==
    LET t == Reader(c) IN
    /\ pc[t] = "top"
    /\ \/ Connected /\ target' = [target EXCEPT ![t] = current] /\ Go(t, "recv")
       \/ ~Connected /\ Go(t, "dead") /\ UNCHANGED target
    /\ UNCHANGED <<client, states, buffers, terminal_delivered, response, outcome, message,
                   failing, wires, worker, history>>

\* _receive_frame at the end of the stream.
ReaderEof(c) ==
    LET t == Reader(c)
        k == target[t]
    IN
    /\ pc[t] = "recv"
    /\ sock[k] = "closed" \/ (peer[k] = "closed" /\ toClient[k] = <<>>)
    /\ CallFail(t, FALSE, "dead")
    /\ target' = [target EXCEPT ![t] = 0]
    /\ UNCHANGED <<client, states, buffers, terminal_delivered, response, outcome, message,
                   wires, worker, history>>

\* The frames _dispatch refuses with a ProtocolError.
ProtocolViolation(m) ==
    /\ m.type # "stats"
    /\ \/ m.id \notin requests
       \/ m.type = "accepted" /\ m.id \in accepted \cup rejected
       \/ m.type = "rejected" /\ m.id \in accepted
       \/ m.type \in {"delta", "terminal"} /\ m.id \notin accepted
       \/ m.type = "delta" /\ m.arg # next_sequence_no[m.id]

DispatchRefused(t, m) ==
    /\ ~Connected \/ ProtocolViolation(m)
    /\ CallFail(t, FALSE, "dead")
    /\ UNCHANGED <<requests, states, buffers, response, message>>

DispatchStats(t, m) ==
    /\ m.type = "stats"
    /\ response' = [response EXCEPT ![m.id] =
                      IF m.id \in probes /\ @ = "empty" THEN "stats" ELSE @]
    /\ Go(t, "top")
    /\ UNCHANGED <<requests, states, buffers, message, failing>>

DispatchAccepted(t, m) ==
    /\ m.type = "accepted"
    /\ accepted' = accepted \cup {m.id}
    /\ Go(t, "top")
    /\ UNCHANGED <<requests, rejected, failed, cancel_sent, next_sequence_no, buffers, response,
                   message, failing>>

DispatchRejected(t, m) ==
    /\ m.type = "rejected"
    /\ rejected' = rejected \cup {m.id}
    /\ requests' = requests \ {m.id}
    /\ Go(t, "top")
    /\ UNCHANGED <<accepted, failed, cancel_sent, next_sequence_no, buffers, response, message,
                   failing>>

\* A delta the buffer has no room for is dropped, and the request cancelled.
DeltaRefused_Uncancelled(t, r) ==
    /\ overflowed' = overflowed \cup {r}
    /\ Go(t, "top") /\ UNCHANGED <<cancel_sent, message>>
    /\ UNCHANGED deltas

DeltaRefused(t, r) ==
    /\ overflowed' = IF terminal[r] = "none" THEN overflowed \cup {r} ELSE overflowed
    /\ UNCHANGED deltas
    /\ \/ r \in cancel_sent /\ Go(t, "top") /\ UNCHANGED <<cancel_sent, message>>
       \/ /\ r \notin cancel_sent
          /\ cancel_sent' = cancel_sent \cup {r}
          /\ CallSend(t, Frame("cancel", r, epoch[current]))

PutDelta(t, r, n) ==
    /\ deltas' = [deltas EXCEPT ![r] = Append(@, n)]
    /\ Go(t, "top")
    /\ UNCHANGED <<overflowed, cancel_sent, message>>

DispatchDelta(t, m) ==
    /\ m.type = "delta"
    /\ next_sequence_no' = [next_sequence_no EXCEPT ![m.id] = @ + 1]
    /\ IF terminal[m.id] = "none" /\ Len(deltas[m.id]) < max_delta_events
       THEN PutDelta(t, m.id, m.arg)
       ELSE DeltaRefused(t, m.id)
    /\ UNCHANGED <<requests, accepted, rejected, failed, terminal, response, failing>>

\* The request is forgotten under the lock, its Terminal delivered after it.
DispatchTerminal_Kept(t, m) ==
    /\ m.type = "terminal"
    /\ message' = [message EXCEPT ![t] = m]
    /\ Go(t, "deliver")
    /\ UNCHANGED <<requests, states, buffers, response, failing>>

DispatchTerminal(t, m) ==
    /\ m.type = "terminal"
    /\ requests' = requests \ {m.id}
    /\ message' = [message EXCEPT ![t] = m]
    /\ Go(t, "deliver")
    /\ UNCHANGED <<states, buffers, response, failing>>

\* _receive_frame, decode_server_message and _dispatch.
ReaderFrame(c) ==
    LET t == Reader(c)
        k == target[t]
        m == Head(toClient[k])
    IN
    /\ pc[t] = "recv"
    /\ sock[k] = "open" /\ toClient[k] # <<>>
    /\ toClient' = [toClient EXCEPT ![k] = Tail(@)]
    /\ target' = [target EXCEPT ![t] = 0]
    /\ \/ DispatchRefused(t, m)
       \/ /\ Connected /\ ~ProtocolViolation(m)
          /\ \/ DispatchStats(t, m) \/ DispatchAccepted(t, m) \/ DispatchRejected(t, m)
             \/ DispatchDelta(t, m) \/ DispatchTerminal(t, m)
    /\ UNCHANGED <<current, reader_thread, probes, send_lock, terminal_delivered, outcome, sock,
                   peer, toWorker, epoch, worker, history>>

\* A Terminal that put_terminal refuses is a ProtocolError.
DeliverTerminal(c) ==
    LET t == Reader(c)
        r == message[t].id
    IN
    /\ pc[t] = "deliver"
    /\ message' = [message EXCEPT ![t] = NoFrame]
    /\ terminal' = [terminal EXCEPT ![r] = PutTerminal(r, message[t].arg)]
    /\ \/ terminal[r] = "none" /\ Go(t, "top") /\ UNCHANGED failing
       \/ terminal[r] # "none" /\ CallFail(t, FALSE, "dead")
    /\ UNCHANGED <<client, states, deltas, overflowed, terminal_delivered, response, outcome,
                   target, wires, worker, history>>

\* GenerationHandle.next_event: what the buffer holds, the Terminal last.
NextEvent_TerminalFirst(r) ==
    /\ outcome[r] = "handle"
    /\ \/ /\ deltas[r] # <<>>
          /\ got' = [got EXCEPT ![r] = Append(@, Head(deltas[r]))]
          /\ deltas' = [deltas EXCEPT ![r] = Tail(@)]
          /\ UNCHANGED terminal_delivered
       \/ /\ terminal[r] # "none" /\ r \notin terminal_delivered
          /\ terminal_delivered' = terminal_delivered \cup {r}
          /\ UNCHANGED <<got, deltas>>
    /\ UNCHANGED <<client, states, terminal, overflowed, response, threads, wires, worker,
                   scenario, registered_on, forgotten>>

NextEvent(r) ==
    /\ outcome[r] = "handle"
    /\ \/ /\ deltas[r] # <<>>
          /\ got' = [got EXCEPT ![r] = Append(@, Head(deltas[r]))]
          /\ deltas' = [deltas EXCEPT ![r] = Tail(@)]
          /\ UNCHANGED terminal_delivered
       \/ /\ deltas[r] = <<>> /\ terminal[r] # "none" /\ r \notin terminal_delivered
          /\ terminal_delivered' = terminal_delivered \cup {r}
          /\ UNCHANGED <<got, deltas>>
    /\ UNCHANGED <<client, states, terminal, overflowed, response, threads, wires, worker,
                   scenario, registered_on, forgotten>>

-----------------------------------------------------------------------------
\* The Worker at the other end of c, as runtime_bridge.cpp serves a session.
\* Its reader never waits for its writer.  A Submit with a stale epoch is
\* rejected, a Cancel or Health with one ends the session.
ClosePeer(c) == peer' = [peer EXCEPT ![c] = "closed"]

WorkerReads(c) ==
    LET m == Head(toWorker[c])
        stale == m.arg # epoch[c]
    IN
    /\ peer[c] = "open" /\ toWorker[c] # <<>>
    /\ toWorker' = [toWorker EXCEPT ![c] = Tail(@)]
    /\ \/ /\ m.type = "submit"
          /\ phase' = [phase EXCEPT ![c][m.id] = IF stale THEN "stale" ELSE "submitted"]
          /\ UNCHANGED <<asked, peer>>
       \/ m.type \in {"cancel", "health"} /\ stale /\ ClosePeer(c) /\ UNCHANGED <<phase, asked>>
       \/ m.type = "cancel" /\ ~stale /\ UNCHANGED <<phase, asked, peer>>
       \/ /\ m.type = "health" /\ ~stale
          /\ asked' = [asked EXCEPT ![c] = @ \cup {m.id}]
          /\ UNCHANGED <<phase, peer>>
    /\ UNCHANGED <<client, states, buffers, terminal_delivered, response, threads, sock,
                   toClient, epoch, sent, history>>

\* The Worker's writer: the answer to a Submit, a delta, a Terminal, Stats.
WorkerSends(c, m) ==
    /\ peer[c] = "open" /\ Len(toClient[c]) < WireCap
    /\ toClient' = [toClient EXCEPT ![c] = Append(@, m)]
    /\ UNCHANGED <<client, states, buffers, terminal_delivered, response, threads, sock, peer,
                   toWorker, epoch, history>>

WorkerAnswers(c, r) ==
    \/ /\ phase[c][r] = "submitted"
       /\ WorkerSends(c, Frame("accepted", r, 0))
       /\ phase' = [phase EXCEPT ![c][r] = "running"]
       /\ UNCHANGED <<sent, asked>>
    \/ /\ phase[c][r] \in {"submitted", "stale"}
       /\ WorkerSends(c, Frame("rejected", r, 0))
       /\ phase' = [phase EXCEPT ![c][r] = "ended"]
       /\ UNCHANGED <<sent, asked>>

WorkerDelta(c, r) ==
    /\ phase[c][r] = "running" /\ sent[c][r] < scenario.deltas
    /\ WorkerSends(c, Frame("delta", r, sent[c][r]))
    /\ sent' = [sent EXCEPT ![c][r] = @ + 1]
    /\ UNCHANGED <<phase, asked>>

WorkerTerminal(c, r) ==
    /\ phase[c][r] = "running"
    /\ WorkerSends(c, Frame("terminal", r, "Worker"))     \* with any status
    /\ phase' = [phase EXCEPT ![c][r] = "ended"]
    /\ UNCHANGED <<sent, asked>>

WorkerStats(c, p) ==
    /\ p \in asked[c]
    /\ WorkerSends(c, Frame("stats", p, 0))
    /\ asked' = [asked EXCEPT ![c] = @ \ {p}]
    /\ UNCHANGED <<phase, sent>>

WorkerCloses(c) ==
    /\ peer[c] = "open" /\ ClosePeer(c)
    /\ UNCHANGED <<client, states, buffers, terminal_delivered, response, threads, sock,
                   toWorker, toClient, epoch, worker, history>>

-----------------------------------------------------------------------------
Call == Connect \/ Close \/ (\E r \in Requests : Submit(r) \/ Cancel(r)) \/ \E p \in Probes : Health(p)

Step(t) ==
    \/ TakeSocket(t) \/ SendAll(t)
    \/ FailClear(t) \/ FailSettle(t) \/ FailJoin(t)

Loop(c) == ReaderTop(c) \/ ReaderEof(c) \/ ReaderFrame(c) \/ DeliverTerminal(c)

Wait == \E r \in Requests : AwaitAnswer(r) \/ AcceptTimeout(r)

WorkerServes(c) ==
    \/ WorkerReads(c)
    \/ \E r \in Requests : WorkerAnswers(c, r) \/ WorkerTerminal(c, r)
    \/ \E p \in Probes : WorkerStats(c, p)

Next ==
    \/ Call \/ SetReader \/ StartReader \/ Wait
    \/ \E t \in Threads : Step(t)
    \/ \E c \in Connections : Loop(c)
    \/ \E p \in Probes : AwaitStats(p)
    \/ \E r \in Requests : NextEvent(r)
    \/ \E c \in Connections : WorkerServes(c) \/ WorkerCloses(c)
    \/ \E c \in Connections, r \in Requests : WorkerDelta(c, r)

Spec == Init /\ [][Next]_vars

\* Every thread goes on when it can, and the waits of submit and health are
\* bounded; the consumer reads its handle.  The Worker serves a session while
\* it is open, as the Worker's own modules show.  Calls, reconnects, deltas
\* and disconnects need not happen.
Fairness ==
    /\ WF_vars(SetReader \/ StartReader \/ Step(Owner))
    /\ \A r \in Requests :
         /\ WF_vars(Step(Submitter(r)) \/ AwaitAnswer(r) \/ AcceptTimeout(r))
         /\ WF_vars(Step(Canceller(r))) /\ WF_vars(NextEvent(r))
    /\ \A p \in Probes : WF_vars(Step(Prober(p)) \/ AwaitStats(p))
    /\ \A c \in Connections :
         WF_vars(Step(Reader(c)) \/ Loop(c)) /\ WF_vars(WorkerServes(c))

LiveSpec == Spec /\ Fairness

-----------------------------------------------------------------------------
\* The places that owe an accepted request its Terminal: _requests, a _fail
\* that has taken it from there, the reader that is about to deliver it.
OwedBy(r) ==
    (IF r \in requests THEN {Owner} ELSE {})
    \cup {t \in Threads : pc[t] = "settle" /\ r \in failing[t].requests}
    \cup {t \in Readers : pc[t] = "deliver" /\ message[t].id = r}

\* Until its buffer holds a Terminal an accepted request is owed one by exactly
\* one place, afterwards by none: whichever of _dispatch and the _fail of
\* any thread ends it, the handle gets one Terminal and put_terminal never
\* meets a second.
OneTerminalEach ==
    \A r \in accepted : Cardinality(OwedBy(r)) = IF terminal[r] = "none" THEN 1 ELSE 0

\* The readers no _reader_thread stands for.
Strays == {c \in Connections : Alive(c) /\ reader_thread # c}

\* The threads of one connection leave the next one alone.  What _requests and
\* _probes hold was registered on the present connection, so no frame of a later
\* Worker can be taken for an answer to it, although submit, cancel and health
\* send without holding the lock.  A reader reads its own connection only, and
\* the _fail it calls when that ends gives up no other: connect waits for the
\* old reader to be gone.  And a Worker that keeps the protocol is not accused of
\* breaking it: the only frame _dispatch refuses answers a submit that was
\* registered on an earlier connection and sent on this one.  All this but for
\* one window: a _fail of another thread between the line of connect that sets
\* _reader_thread and the one that starts it forgets the reader, connect no
\* longer waits for it, and it may go on to read the next connection.
ConnectionsKeptApart ==
    /\ \A r \in requests : Connected /\ registered_on[r] = current
    /\ ~Connected => probes = {}
    /\ Strays \subseteq forgotten
    /\ Strays = {} => \A c \in Connections :
         /\ pc[Reader(c)] \in {"recv", "fail"} => current \in {0, c}
         /\ pc[Reader(c)] = "recv" => target[Reader(c)] = c
         /\ (pc[Reader(c)] = "recv" /\ current = c /\ toClient[c] # <<>>) =>
              LET m == Head(toClient[c]) IN ProtocolViolation(m) => registered_on[m.id] # c

\* The sequence numbers a handle returns, with those it still buffers.
Stream(r) == got[r] \o deltas[r]

\* A handle yields the deltas in order and without a gap; only an overflow of
\* its bounded buffer leaves one, and that request has been cancelled.
GapsOnlyAfterOverflow ==
    \A r \in Requests :
      /\ Len(deltas[r]) <= max_delta_events
      /\ \A i \in 1..(Len(Stream(r)) - 1) : Stream(r)[i] < Stream(r)[i + 1]
      /\ r \notin overflowed => \A i \in 1..Len(Stream(r)) : Stream(r)[i] = i - 1
      /\ r \in overflowed => r \in cancel_sent

\* A slot of _requests is held by a submit under way or by a handle that can
\* still be read, one of _probes by a health under way: no exception path
\* leaves one behind, so the capacity of the client does not shrink.
NoSlotLeaked ==
    /\ \A r \in requests :
         \/ pc[Submitter(r)] \notin {"idle", "done"}
         \/ outcome[r] = "handle" /\ r \notin terminal_delivered
    /\ \A p \in probes : pc[Prober(p)] \notin {"idle", "done"}

\* No accepted request without its one Terminal, no entry without its request.
RequestsAccounted == OneTerminalEach /\ NoSlotLeaked

\* Every handle that submit returned yields its Terminal, through reconnects
\* and disconnects.
HandlesEnd == \A r \in Requests : outcome[r] = "handle" ~> r \in terminal_delivered

\* submit, health and close return, with a result or an exception: nobody
\* waits for _send_lock, the reader, the socket or an answer for ever, also when
\* the connection goes while they do.
CallsReturn ==
    /\ \A r \in Requests : pc[Submitter(r)] = "send" ~> pc[Submitter(r)] = "done"
    /\ \A p \in Probes : pc[Prober(p)] = "send" ~> pc[Prober(p)] = "done"
    /\ pc[Owner] = "fail" ~> pc[Owner] = "idle"

\* Handles end and calls return, whatever the Worker and the connection do;
\* unless a _fail has forgotten a reader that was about to start: that one may
\* take the next connection for its own, two readers then share it, and a submit
\* that timed out joins a thread which lives as long as that connection.
EverythingReturns == [](forgotten = {}) => HandlesEnd /\ CallsReturn

\* The promise, seen through outcome, got and terminal_delivered.
Promise == INSTANCE HandlePromise WITH
    SequenceNumbers <- UNION {0..c.deltas : c \in Scenarios},
    verdict <- [r \in Requests |-> IF outcome[r] \in {"none", "handle"} THEN outcome[r] ELSE "refused"],
    read <- got,
    ended <- terminal_delivered

\* The client keeps the promise of HandlePromise: one verdict, deltas in
\* order, one Terminal, and nothing after it.
KeepsPromise == Promise!Spec

====
