--------------------------- MODULE RuntimeBridge ---------------------------
(***************************************************************************)
(* The part of the Worker between one IPC session and the generation       *)
(* runtime (src/worker/runtime_bridge.cpp).  The reader thread of the      *)
(* session calls the message handler; each accepted request has a pump     *)
(* thread that forwards its mailbox to the session egress; a writer thread *)
(* moves the egress to the session; a monitor watches for the end of the   *)
(* session; the owner calls stop.  The first of them that calls            *)
(* beginShutdown carries the shutdown out.                                 *)
(*                                                                         *)
(* The egress is SessionEgress, operation by operation.  The runtime is    *)
(* the admission control it extends and what GenerationRuntime promises: a *)
(* request admitted has a mailbox of deltas and then one Terminal, which   *)
(* holds its lease until then and which cancel brings about.  Left out are *)
(* the counters for Stats, the status a stopped bridge reports, and        *)
(* failFromPump, which no pump reaches (PumpsOwnQueues).                   *)
(***************************************************************************)
EXTENDS Admission, Sequences

CONSTANTS
    Nobody,                 \* no job
    max_session_frames, max_request_frames, control_reserve_frames,
    Scenarios               \* bound: the messages of a client, the deltas of each request,
                            \* and what may end the session besides those messages

VARIABLES
    egress_accepting, control, egress_requests, messages, queued_bytes, scheduled,
    terminal_queued, round_robin, control_frames, control_bytes, request_frames,
    request_bytes, terminal_reservations, high_watermark_frames, high_watermark_bytes,
    replies, queued,        \* what the frames say: those of control, and of each id
    taken, told,            \* the runtime: deltas popped; jobs it was told to cancel
    requests,               \* the jobs whose RequestRecord is in the map
    cancel_requested, backpressure_requested, terminal_enqueued,
    forwarding_allowed, abandoned,      \* the jobs with each flag of the record set
    cancels,                \* the calls of cancelRecord under way
    pump, handler, writer, owner,       \* where the threads are
    shutdown, owned,        \* beginShutdown: the thread in it, how far, records left
    session_open, session_joined,       \* whether session.stop has joined the reader
    aborted,                \* a join failed inside session.stop, which is noexcept
    inbox, deltas, faults,  \* messages still to come, and the rest of the scenario
    verdict, read, ended, reported,     \* what it has received; how each Terminal reads
    late                    \* history: jobs accepted after a shutdown had begun

egress == <<egress_accepting, control, egress_requests, messages, queued_bytes, scheduled,
            terminal_queued, round_robin, control_frames, control_bytes, request_frames,
            request_bytes, terminal_reservations, high_watermark_frames, high_watermark_bytes>>
frames == <<egress, replies, queued>>
runtime == <<admission, taken, told>>
flags == <<cancel_requested, backpressure_requested, terminal_enqueued, forwarding_allowed,
           abandoned, cancels>>
session == <<session_open, session_joined, aborted>>
stopping == <<shutdown, owned, session>>
client == <<inbox, deltas, faults>>
received == <<verdict, read, ended, reported>>
bridge == <<frames, runtime, requests, flags, pump, handler, writer, owner, stopping, client,
            received, late>>

Ids == {request_id[j] : j \in Jobs}

\* What a frame says: its type, its request and the number of a TokenDelta.
Frame(type, j, n) == [type |-> type, job |-> j, n |-> n]

\* Frames of one byte: the byte limits are those of the frames (SessionEgress has both).
Egr == INSTANCE SessionEgress WITH
    accepting <- egress_accepting, requests <- egress_requests,
    terminal_enqueued <- terminal_queued,
    Requests <- Ids, Sizes <- {1}, max_frame_bytes <- 1,
    max_session_bytes <- max_session_frames, max_request_bytes <- max_request_frames,
    control_reserve_bytes <- control_reserve_frames, terminal_reserve_bytes <- 1

\* The bridge after start(), in a running runtime, with a client that is connected.
BridgeInit ==
    /\ Egr!Init /\ replies = <<>> /\ queued = [r \in Ids |-> <<>>]
    /\ accepting = TRUE /\ active_request_ids = {} /\ leases = {}
    /\ reserved_input_tokens = 0 /\ reserved_output_tokens = 0
    /\ taken = [j \in Jobs |-> 0] /\ told = {}
    /\ requests = {}
    /\ cancel_requested = {} /\ backpressure_requested = {} /\ terminal_enqueued = {}
    /\ forwarding_allowed = {} /\ abandoned = {} /\ cancels = {}
    /\ pump = [j \in Jobs |-> "none"]
    /\ handler = [at |-> "idle"]
    /\ writer = [at |-> "popping"]
    /\ owner = "serving"
    /\ shutdown = [by |-> "nobody", at |-> "none"] /\ owned = {}
    /\ session_open = TRUE /\ session_joined = FALSE /\ aborted = FALSE
    /\ \E s \in Scenarios : inbox = s.inbox /\ deltas = s.deltas /\ faults = s.faults
    /\ verdict = [j \in Jobs |-> "none"] /\ read = [j \in Jobs |-> <<>>]
    /\ ended = {} /\ reported = [j \in Jobs |-> "none"]
    /\ late = {}

-----------------------------------------------------------------------------
\* The runtime.

\* runtime.cancel(id): whichever request runs under the id is told to end.
Told(id) == told \cup {k \in leases : request_id[k] = id}

\* The request ends: its lease is back and its Terminal is in the mailbox.
RuntimeEnd(j) ==
    /\ release(j)
    /\ UNCHANGED <<frames, taken, told, requests, flags, pump, handler, writer, owner, stopping,
                   client, received, late>>

-----------------------------------------------------------------------------
\* Records and shutdown.

stop_requested == shutdown.at # "none"

\* cancelRecord by thread t, unless the Terminal is queued: the first to ask tells the
\* runtime.  The two tests and the call of the runtime are three steps.
cancelRecord(t, j) ==
    cancels' = IF j \in terminal_enqueued THEN cancels
               ELSE cancels \cup {[by |-> t, job |-> j, at |-> "asking"]}

Cancels(t) == \E c \in cancels : c.by = t

CancelAsks(c) ==
    /\ c.at = "asking"
    /\ cancels' = (cancels \ {c}) \cup
                  (IF c.job \in cancel_requested THEN {} ELSE {[c EXCEPT !.at = "telling"]})
    /\ cancel_requested' = cancel_requested \cup {c.job}
    /\ UNCHANGED <<frames, runtime, requests, backpressure_requested, terminal_enqueued,
                   forwarding_allowed, abandoned, pump, handler, writer, owner, stopping, client,
                   received, late>>

CancelTells(c) ==
    /\ c.at = "telling"
    /\ cancels' = cancels \ {c}
    /\ told' = Told(request_id[c.job])
    /\ UNCHANGED <<frames, admission, taken, requests, cancel_requested, backpressure_requested,
                   terminal_enqueued, forwarding_allowed, abandoned, pump, handler, writer, owner,
                   stopping, client, received, late>>

\* The records that reapCompletedRequests leaves in the map.
Unreaped == {j \in requests : ~(pump[j] = "finished" /\ j \in terminal_enqueued)}

\* beginShutdown by thread t, up to the unlock: the flag, and the records there are.
beginShutdown(t) ==
    /\ ~stop_requested
    /\ shutdown' = [by |-> t, at |-> "begun"]
    /\ owned' = requests

\* The thread that called beginShutdown is back from it.
Returned(t) == stop_requested /\ shutdown.by # t

ShutdownStopsEgress ==
    /\ shutdown.at = "begun"
    /\ Egr!stop
    /\ replies' = <<>>
    /\ queued' = [r \in Ids |-> <<>>]
    /\ shutdown' = [shutdown EXCEPT !.at = "cancelling"]
    /\ UNCHANGED <<runtime, requests, flags, pump, handler, writer, owner, owned, session,
                   client, received, late>>

\* A plausible bug: the owned requests are abandoned but left running.
ShutdownCancels_Abandons(j) ==
    /\ shutdown.at = "cancelling"
    /\ j \in owned
    /\ owned' = owned \ {j}
    /\ abandoned' = abandoned \cup {j}
    /\ UNCHANGED <<frames, runtime, requests, cancel_requested, backpressure_requested,
                   terminal_enqueued, forwarding_allowed, cancels, pump, handler, writer, owner,
                   shutdown, session, client, received, late>>

ShutdownCancels(j) ==
    /\ shutdown.at = "cancelling"
    /\ ~Cancels("shutdown")
    /\ j \in owned
    /\ owned' = owned \ {j}
    /\ abandoned' = abandoned \cup {j}
    /\ cancelRecord("shutdown", j)
    /\ UNCHANGED <<frames, runtime, requests, cancel_requested, backpressure_requested,
                   terminal_enqueued, forwarding_allowed, pump, handler, writer, owner,
                   shutdown, session, client, received, late>>

\* beginShutdown returns.
ShutdownOver ==
    /\ shutdown.at = "cancelling" /\ owned = {} /\ ~Cancels("shutdown")
    /\ shutdown' = [by |-> "nobody", at |-> "over"]
    /\ UNCHANGED <<frames, runtime, requests, flags, pump, handler, writer, owner, owned, session,
                   client, received, late>>

-----------------------------------------------------------------------------
\* The message handler, on the reader thread of the session.

HandlerIdle == handler.at = "idle" /\ ~Cancels("handler")

\* A message arrives, and handleMessage starts by reaping the completed requests.
Receives(type, j) ==
    /\ HandlerIdle
    /\ session_open
    /\ inbox # <<>> /\ Head(inbox) = <<type, j>>
    /\ inbox' = Tail(inbox)
    /\ requests' = Unreaped
    /\ UNCHANGED <<deltas, faults>>

At(place, j) == handler.at = place /\ handler.job = j
Goto(place, j) == handler' = [at |-> place, job |-> j]
GoesIdle == handler' = [at |-> "idle"]

ControlRefused == ~egress_accepting \/ Egr!ControlFull(1)

\* egress.enqueueControl of a reply; what it says goes with the frame.
Reply(type, j) ==
    /\ Egr!enqueueControl(1)
    /\ replies' = Append(replies, Frame(type, j, 0))
    /\ UNCHANGED queued

\* handleSubmit, as far as runtime.submit.  convertSubmit, admission control and the
\* backend may refuse it.
HandleSubmit(j) ==
    /\ Receives("Submit", j)
    /\ \/ tryAcquire(j) /\ Goto("submitted", j)
       \/ UNCHANGED admission /\ Goto("rejecting", j)
    /\ UNCHANGED <<frames, taken, told, flags, pump, writer, owner, stopping, received,
                   late>>

RegisterRefused(r) ==
    ~egress_accepting \/ r \in egress_requests \/ Egr!TerminalReserveFull

\* Plausible bugs: a request without egress is rejected but not cancelled; the answer of
\* registerRequest is not looked at.
HandlerRegisters_NotCancelled(j) ==
    /\ At("submitted", j)
    /\ \/ /\ Egr!registerRequest(request_id[j])
          /\ Goto("registered", j)
       \/ /\ RegisterRefused(request_id[j])
          /\ Goto("rejecting", j)
          /\ UNCHANGED egress
    /\ UNCHANGED <<replies, queued, runtime, requests, flags, pump, writer, owner, stopping,
                   client, received, late>>

HandlerRegisters_Unchecked(j) ==
    /\ At("submitted", j)
    /\ Goto("registered", j)
    /\ \/ Egr!registerRequest(request_id[j])
       \/ RegisterRefused(request_id[j]) /\ UNCHANGED egress
    /\ UNCHANGED <<replies, queued, runtime, requests, flags, pump, writer, owner, stopping,
                   client, received, late>>

HandlerRegisters(j) ==
    /\ At("submitted", j)
    /\ \/ /\ Egr!registerRequest(request_id[j])
          /\ Goto("registered", j)
          /\ UNCHANGED told
       \/ /\ RegisterRefused(request_id[j])
          /\ told' = Told(request_id[j])
          /\ Goto("rejecting", j)
          /\ UNCHANGED egress
    /\ UNCHANGED <<replies, queued, admission, taken, requests, flags, pump, writer,
                   owner, stopping, client, received, late>>

\* A plausible bug: the record replaces one that is still there.
StillOwned_Never(j) == FALSE

\* Only when its record is reaped is an id free again.
StillOwned(j) == \E k \in requests : request_id[k] = request_id[j]

\* requests.emplace and the start of the pump thread.
HandlerOwns(j) ==
    /\ At("registered", j)
    /\ ~StillOwned(j)
    /\ requests' = requests \cup {j}
    /\ pump' = [pump EXCEPT ![j] = "gated"]
    /\ Goto("owned", j)
    /\ UNCHANGED <<frames, runtime, flags, writer, owner, stopping, client, received, late>>

\* The id is still owned, or the thread cannot be started: the request is undone.
HandlerUndoes(j) ==
    /\ At("registered", j)
    /\ \/ Egr!abandonRequest(request_id[j])
       \/ request_id[j] \notin egress_requests /\ UNCHANGED egress
    /\ told' = Told(request_id[j])
    /\ Goto("rejecting", j)
    /\ UNCHANGED <<replies, queued, admission, taken, requests, flags, pump, writer,
                   owner, stopping, client, received, late>>

HandlerAccepts(j) ==
    /\ At("owned", j)
    /\ \/ /\ Reply("Accepted", j)
          /\ Goto("accepted", j)
          /\ late' = IF stop_requested THEN late \cup {j} ELSE late
          /\ UNCHANGED <<abandoned, cancels>>
       \/ /\ ControlRefused
          /\ abandoned' = abandoned \cup {j}
          /\ cancelRecord("handler", j)
          /\ Goto("failing", j)
          /\ UNCHANGED <<frames, late>>
    /\ UNCHANGED <<runtime, requests, cancel_requested, backpressure_requested,
                   terminal_enqueued, forwarding_allowed, pump, writer, owner, stopping, client,
                   received>>

\* A plausible bug: the pump is never let go.
HandlerAllows_Forgotten(j) ==
    /\ At("accepted", j)
    /\ GoesIdle
    /\ UNCHANGED <<frames, runtime, requests, flags, pump, writer, owner, stopping, client,
                   received, late>>

HandlerAllows(j) ==
    /\ At("accepted", j)
    /\ forwarding_allowed' = forwarding_allowed \cup {j}
    /\ GoesIdle
    /\ UNCHANGED <<frames, runtime, requests, cancel_requested, backpressure_requested,
                   terminal_enqueued, abandoned, cancels, pump, writer, owner, stopping, client,
                   received, late>>

\* enqueueRejected.
HandlerRejects(j) ==
    /\ At("rejecting", j)
    /\ \/ Reply("Rejected", j) /\ GoesIdle
       \/ ControlRefused /\ Goto("failing", j) /\ UNCHANGED frames
    /\ UNCHANGED <<runtime, requests, flags, pump, writer, owner, stopping, client, received,
                   late>>

\* handleCancel of the id of a request.
HandleCancel(j) ==
    /\ Receives("Cancel", j)
    /\ \/ \E k \in Unreaped : request_id[k] = request_id[j] /\ cancelRecord("handler", k)
       \/ /\ \A k \in Unreaped : request_id[k] # request_id[j]
          /\ UNCHANGED cancels
    /\ UNCHANGED <<frames, runtime, cancel_requested, backpressure_requested, terminal_enqueued,
                   forwarding_allowed, abandoned, pump, handler, writer, owner, stopping, received,
                   late>>

\* handleHealth; its reply shares the control queue with the verdicts.
HandleHealth ==
    /\ Receives("Health", Nobody)
    /\ \/ Reply("Stats", Nobody) /\ UNCHANGED handler
       \/ ControlRefused /\ handler' = [at |-> "failing"] /\ UNCHANGED frames
    /\ UNCHANGED <<runtime, flags, pump, writer, owner, stopping, received, late>>

\* A message of another epoch or of a type the Worker does not take.
HandleUnsupported ==
    /\ Receives("Other", Nobody)
    /\ handler' = [at |-> "failing"]
    /\ UNCHANGED <<frames, runtime, flags, pump, writer, owner, stopping, received, late>>

\* failFromHandler: beginShutdown, and then the exception that ends the session.
HandlerFails ==
    /\ handler.at = "failing" /\ ~Cancels("handler")
    /\ \/ beginShutdown("handler") /\ UNCHANGED <<handler, session_open>>
       \/ /\ Returned("handler")
          /\ session_open' = FALSE
          /\ GoesIdle
          /\ UNCHANGED <<shutdown, owned>>
    /\ UNCHANGED <<frames, runtime, requests, flags, pump, writer, owner, session_joined, aborted,
                   client, received, late>>

-----------------------------------------------------------------------------
\* The pump of a request.

PumpsTo(j, place) == pump' = [pump EXCEPT ![j] = place]

\* A plausible bug: the pump does not wait for the reply to the Submit.
PumpStarts_Ungated(j) ==
    /\ pump[j] = "gated"
    /\ PumpsTo(j, "polling")
    /\ UNCHANGED <<frames, runtime, requests, flags, handler, writer, owner, stopping, client,
                   received, late>>

\* waitUntilForwardingAllowed.
PumpStarts(j) ==
    /\ pump[j] = "gated"
    /\ j \in forwarding_allowed \cup abandoned
    /\ PumpsTo(j, IF j \in abandoned THEN "finished" ELSE "polling")
    /\ UNCHANGED <<frames, runtime, requests, flags, handler, writer, owner, stopping, client,
                   received, late>>

\* The loop of requestPumpLoop: leave when stopping, or wait for an event.
PumpTakes(j) ==
    /\ pump[j] = "polling" /\ ~Cancels(j)
    /\ \/ stop_requested /\ PumpsTo(j, "finished") /\ UNCHANGED taken
       \/ /\ ~stop_requested
          /\ taken[j] < deltas[j]
          /\ taken' = [taken EXCEPT ![j] = @ + 1]
          /\ PumpsTo(j, "delta")
       \/ /\ ~stop_requested
          /\ j \notin leases
          /\ PumpsTo(j, "terminal")
          /\ UNCHANGED taken
    /\ UNCHANGED <<frames, admission, told, requests, flags, handler, writer, owner,
                   stopping, client, received, late>>

DeltaFull(j) == Egr!DeltaRequestFull(request_id[j], 1) \/ Egr!DeltaSessionFull(1)

\* egress.enqueueDelta of the delta last taken.
Forwarded(j) ==
    /\ Egr!enqueueDelta(request_id[j], 1)
    /\ queued' = [queued EXCEPT ![request_id[j]] = Append(@, Frame("Delta", j, taken[j]))]
    /\ UNCHANGED replies

\* The test of cancel_requested, and then enqueueDelta.
PumpDelta(j) ==
    /\ pump[j] = "delta"
    /\ PumpsTo(j, IF j \in cancel_requested THEN "polling" ELSE "forwarding")
    /\ UNCHANGED <<frames, runtime, requests, flags, handler, writer, owner, stopping, client,
                   received, late>>

PumpForwards(j) ==
    /\ pump[j] = "forwarding"
    /\ \/ Forwarded(j) /\ PumpsTo(j, "polling")
       \/ egress_accepting /\ DeltaFull(j) /\ PumpsTo(j, "overflow") /\ UNCHANGED frames
       \/ ~egress_accepting /\ PumpsTo(j, "finished") /\ UNCHANGED frames
    /\ UNCHANGED <<runtime, requests, flags, handler, writer, owner, stopping, client, received,
                   late>>

\* A plausible bug: the delta that does not fit is dropped, and the request goes on.
PumpOverflows_Drops(j) ==
    /\ pump[j] = "overflow"
    /\ PumpsTo(j, "polling")
    /\ UNCHANGED <<frames, runtime, requests, flags, handler, writer, owner, stopping, client,
                   received, late>>

\* No room: the request is cancelled, and its Terminal will say why.
PumpOverflows(j) ==
    /\ pump[j] = "overflow"
    /\ backpressure_requested' = backpressure_requested \cup {j}
    /\ cancelRecord(j, j)
    /\ PumpsTo(j, "polling")
    /\ UNCHANGED <<frames, runtime, requests, cancel_requested, terminal_enqueued,
                   forwarding_allowed, abandoned, handler, writer, owner, stopping, client,
                   received, late>>

\* The Terminal says Backpressure for a request the pump cancelled, else what the
\* runtime said.
TerminalOf(j) == IF j \in backpressure_requested THEN "Backpressure" ELSE "Runtime"

\* egress.enqueueTerminal.
PumpTerminal(j) ==
    /\ pump[j] = "terminal"
    /\ \/ /\ Egr!enqueueTerminal(request_id[j], 1)
          /\ queued' = [queued EXCEPT ![request_id[j]] = Append(@, Frame(TerminalOf(j), j, 0))]
          /\ PumpsTo(j, "queued")
       \/ /\ ~egress_accepting
          /\ PumpsTo(j, "finished")
          /\ UNCHANGED <<egress, queued>>
    /\ UNCHANGED <<replies, runtime, requests, flags, handler, writer, owner, stopping, client,
                   received, late>>

\* The two flags that let the record be reaped.
PumpFinishes(j) ==
    /\ pump[j] = "queued"
    /\ terminal_enqueued' = terminal_enqueued \cup {j}
    /\ PumpsTo(j, "finished")
    /\ UNCHANGED <<frames, runtime, requests, cancel_requested, backpressure_requested,
                   forwarding_allowed, abandoned, cancels, handler, writer, owner, stopping,
                   client, received, late>>

-----------------------------------------------------------------------------
\* The writer.

\* writerLoop: leave when stopping, or waitPop; control messages come first.
WriterPops ==
    /\ writer.at = "popping"
    /\ \/ stop_requested /\ writer' = [at |-> "exited"] /\ UNCHANGED frames
       \/ /\ ~stop_requested
          /\ Egr!waitPopControl
          /\ writer' = [at |-> "sending", frame |-> Head(replies)]
          /\ replies' = Tail(replies)
          /\ UNCHANGED queued
       \/ /\ ~stop_requested
          /\ Egr!waitPopRequest
          /\ LET r == Head(round_robin) IN
             /\ writer' = [at |-> "sending", frame |-> Head(queued[r])]
             /\ queued' = [queued EXCEPT ![r] = Tail(@)]
          /\ UNCHANGED replies
    /\ UNCHANGED <<runtime, requests, flags, pump, handler, owner, stopping, client, received,
                   late>>

\* The client gets a frame.
Delivered(f) ==
    /\ verdict' = CASE f.type = "Accepted" -> [verdict EXCEPT ![f.job] = "handle"]
                    [] f.type = "Rejected" -> [verdict EXCEPT ![f.job] = "refused"]
                    [] OTHER -> verdict
    /\ read' = IF f.type = "Delta" THEN [read EXCEPT ![f.job] = Append(@, f.n)] ELSE read
    /\ IF f.type \in {"Runtime", "Backpressure"}
       THEN ended' = ended \cup {f.job} /\ reported' = [reported EXCEPT ![f.job] = f.type]
       ELSE UNCHANGED <<ended, reported>>

\* session.send takes the frame.
WriterSends ==
    /\ writer.at = "sending"
    /\ ~stop_requested
    /\ session_open
    /\ Delivered(writer.frame)
    /\ writer' = [at |-> "popping"]
    /\ UNCHANGED <<frames, runtime, requests, flags, pump, handler, owner, stopping, client,
                   late>>

\* The session is stopping, or it is closed or has been full for session_stall_timeout:
\* the writer shuts the bridge down, if nobody has by then, and the session.
WriterGivesUp ==
    /\ writer.at = "sending"
    /\ \/ stop_requested /\ writer' = [at |-> "exited"]
       \/ /\ ~stop_requested
          /\ ~session_open \/ "stall" \in faults
          /\ writer' = [at |-> "failing"]
    /\ UNCHANGED <<frames, runtime, requests, flags, pump, handler, owner, stopping, client,
                   received, late>>

WriterShutsDown ==
    /\ writer.at = "failing"
    /\ beginShutdown("writer") \/ (stop_requested /\ UNCHANGED <<shutdown, owned>>)
    /\ writer' = [at |-> "closing"]
    /\ UNCHANGED <<frames, runtime, requests, flags, pump, handler, owner, session, client,
                   received, late>>

-----------------------------------------------------------------------------
\* session.stop, called by the writer and by the owner.  It shuts the connection down,
\* asks whether the threads of the session are joinable, and joins them.
SessionShutDown == session_open' = FALSE /\ UNCHANGED <<session_joined, aborted>>

\* Two callers inside may both find a thread joinable, and the second join of it throws
\* in a noexcept function.  Or the later of them is late enough to find it joined.
SessionJoins(other) ==
    /\ \/ HandlerIdle /\ session_joined' = TRUE /\ UNCHANGED aborted
       \/ other = "joining" /\ aborted' = TRUE /\ UNCHANGED session_joined
    /\ UNCHANGED session_open

\* Where a caller goes on after the shutdown.
AfterShutdown(next) == IF session_joined THEN next ELSE "joining"

WriterClosesSession ==
    /\ writer.at = "closing" /\ Returned("writer")
    /\ SessionShutDown
    /\ writer' = [at |-> AfterShutdown("exited")]
    /\ UNCHANGED <<frames, runtime, requests, flags, pump, handler, owner, shutdown, owned, client,
                   received, late>>

WriterJoinsSession ==
    /\ writer.at = "joining"
    /\ SessionJoins(owner)
    /\ writer' = [at |-> "exited"]
    /\ UNCHANGED <<frames, runtime, requests, flags, pump, handler, owner, shutdown, owned, client,
                   received, late>>

-----------------------------------------------------------------------------
\* The session, its monitor and the owner.

\* The peer goes away, or the session fails on its own.
SessionCloses ==
    /\ "close" \in faults
    /\ session_open
    /\ SessionShutDown
    /\ UNCHANGED <<frames, runtime, requests, flags, pump, handler, writer, owner, shutdown, owned,
                   client, received, late>>

\* monitorLoop: the session is closed and nobody has asked for it.
MonitorSees ==
    /\ ~session_open
    /\ beginShutdown("monitor")
    /\ UNCHANGED <<frames, runtime, requests, flags, pump, handler, writer, owner, session,
                   client, received, late>>

\* stop(): beginShutdown, session.stop, the joins of monitor and writer, the records
\* taken out of the map, and the joins of their pumps.
StopBegins ==
    /\ "stop" \in faults
    /\ owner = "serving"
    /\ beginShutdown("owner") \/ (stop_requested /\ UNCHANGED <<shutdown, owned>>)
    /\ owner' = "closing"
    /\ UNCHANGED <<frames, runtime, requests, flags, pump, handler, writer, session, client,
                   received, late>>

StopCloses ==
    /\ owner = "closing"
    /\ Returned("owner")
    /\ SessionShutDown
    /\ owner' = AfterShutdown("joined")
    /\ UNCHANGED <<frames, runtime, requests, flags, pump, handler, writer, shutdown, owned, client,
                   received, late>>

StopJoinsSession ==
    /\ owner = "joining"
    /\ SessionJoins(writer.at)
    /\ owner' = "joined"
    /\ UNCHANGED <<frames, runtime, requests, flags, pump, handler, writer, shutdown, owned, client,
                   received, late>>

StopDropsRecords ==
    /\ owner = "joined"
    /\ Returned("monitor")
    /\ writer.at = "exited"
    /\ abandoned' = abandoned \cup requests
    /\ requests' = {}
    /\ owner' = "reaping"
    /\ UNCHANGED <<frames, runtime, cancel_requested, backpressure_requested, terminal_enqueued,
                   forwarding_allowed, cancels, pump, handler, writer, stopping, client, received,
                   late>>

StopReturnsToOwner ==
    /\ owner = "reaping"
    /\ \A j \in Jobs : pump[j] \in {"none", "finished"}
    /\ owner' = "stopped"
    /\ UNCHANGED <<frames, runtime, requests, flags, pump, handler, writer, stopping, client,
                   received, late>>

-----------------------------------------------------------------------------
HandlerSteps(j) ==
    \/ HandlerRegisters(j) \/ HandlerOwns(j) \/ HandlerUndoes(j) \/ HandlerAccepts(j)
    \/ HandlerAllows(j) \/ HandlerRejects(j)

PumpSteps(j) ==
    \/ PumpStarts(j) \/ PumpTakes(j) \/ PumpDelta(j) \/ PumpForwards(j) \/ PumpOverflows(j)
    \/ PumpTerminal(j) \/ PumpFinishes(j)

WriterSteps ==
    \/ WriterPops \/ WriterSends \/ WriterGivesUp
    \/ WriterShutsDown \/ WriterClosesSession \/ WriterJoinsSession

ShutdownSteps == ShutdownStopsEgress \/ ShutdownOver \/ \E j \in Jobs : ShutdownCancels(j)

CancelSteps == \E c \in cancels : CancelAsks(c) \/ CancelTells(c)

StopSteps == StopCloses \/ StopJoinsSession \/ StopDropsRecords \/ StopReturnsToOwner

BridgeNext ==
    /\ ~aborted
    /\ \/ \E j \in Jobs :
            \/ RuntimeEnd(j) \/ HandleSubmit(j) \/ HandleCancel(j) \/ HandlerSteps(j)
            \/ PumpSteps(j)
       \/ HandleHealth \/ HandleUnsupported \/ HandlerFails
       \/ WriterSteps \/ CancelSteps \/ ShutdownSteps
       \/ SessionCloses \/ MonitorSees
       \/ StopBegins \/ StopSteps

BridgeSpec == BridgeInit /\ [][BridgeNext]_bridge

\* Threads that can run do, and the runtime ends what it accepted.  Nothing is assumed
\* of the client, of the session or of when stop is called.
BridgeFairSpec ==
    /\ BridgeSpec
    /\ \A j \in Jobs : WF_bridge(RuntimeEnd(j)) /\ WF_bridge(PumpSteps(j))
    /\ WF_bridge(HandlerFails \/ \E j \in Jobs : HandlerSteps(j)) /\ WF_bridge(CancelSteps)
    /\ WF_bridge(WriterSteps) /\ WF_bridge(ShutdownSteps) /\ WF_bridge(MonitorSees)
    /\ WF_bridge(StopSteps)

-----------------------------------------------------------------------------
Promise == INSTANCE HandlePromise WITH
    Requests <- Jobs,
    SequenceNumbers <- UNION {1..s.deltas[j] : s \in Scenarios, j \in Jobs}

\* The Worker's side of what the client promises its users: a Submit gets one
\* verdict, Accepted comes before the deltas, they come in order, and after the
\* Terminal nothing does, although reader, pump and writer share no lock.
KeepsPromise == Promise!Spec

Forwarding == {"polling", "delta", "forwarding", "overflow", "terminal"}

\* A pump with an event to forward owns the queue of its id in the egress until its
\* Terminal is there, so enqueueDelta and enqueueTerminal never answer UnknownRequest or
\* TerminalAlreadyQueued; and at most one request of an id is open on the wire.
PumpsOwnQueues ==
    /\ \A j \in Jobs : pump[j] \in Forwarding /\ egress_accepting =>
          request_id[j] \in egress_requests /\ ~terminal_queued[request_id[j]]
    /\ \A j, k \in Jobs : request_id[j] = request_id[k] /\ j # k =>
          ~({pump[j], pump[k]} \subseteq Forwarding \cup {"gated"})

\* What is on the wire is what the runtime produced: the deltas without a gap, all of
\* them when the Terminal is that of a request nobody cancelled; and the Terminal says
\* Backpressure exactly when the egress had no room for a delta.  No pump loses its
\* queue on the way.
WireFaithful ==
    /\ PumpsOwnQueues
    /\ \A j \in Jobs :
           /\ \A i \in 1..Len(read[j]) : read[j][i] = i
           /\ j \in ended =>
                 /\ (reported[j] = "Backpressure") <=> (j \in backpressure_requested)
                 /\ j \in cancel_requested \/ Len(read[j]) = taken[j]

\* The runtime knows requests by their ids only.  Yet a request with a record is told to
\* cancel only through that record: a cancel of an earlier request, by its pump, by a
\* Cancel or by a shutdown, never hits a later request of the same id.
CancelsItsOwn ==
    [][\A j \in told' \ told : j \in cancel_requested' \/ j \notin requests']_bridge

\* When stop has returned, no request of the session is left running without a cancel,
\* but for one that was accepted between the flag of beginShutdown and the stop of the
\* egress, of which the client has not heard.
NothingOrphaned ==
    owner = "stopped" => \A j \in leases \ told : j \in late /\ verdict[j] = "none"

\* As long as the bridge is not shut down, a Submit gets its Rejected, or its Accepted
\* and its Terminal; and stop returns, whoever has begun the shutdown, but for one case:
\* the writer has given the session up and is inside session.stop too, and the second
\* join aborts the Worker.
EverythingEnds ==
    /\ \A j \in Jobs : At("submitted", j) \/ At("rejecting", j) ~>
                         verdict[j] = "refused" \/ j \in ended \/ stop_requested
    /\ owner = "closing" ~> owner = "stopped" \/ aborted

====
