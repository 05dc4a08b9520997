--------------------------- MODULE GatewaySession ---------------------------
(***************************************************************************)
(* The life of a chat completion in the Gateway after the Worker accepted  *)
(* it (gateway/python/.../runtime.py and api.py): the pump task that takes *)
(* events from the GenerationHandle, the bounded buffer of SSE deltas, the *)
(* HTTP handler that reads it, the detached task that cancels and drains a *)
(* session whose client went away, and GatewayService.stop.                *)
(*                                                                         *)
(* A step is what a task does from one await to the next.  to_thread runs  *)
(* its calls on the default executor, whose threads take them in the order *)
(* of submission: jobs holds the calls that are not over, and as many of   *)
(* them as there are threads run.  The handle keeps HandlePromise.         *)
(***************************************************************************)
EXTENDS Integers, Sequences, FiniteSets

CONSTANTS
    Sessions,
    Streaming,              \* the sessions whose response is an SSE stream
    max_delta_events,
    Scenarios               \* what the sessions may meet

\* A scenario: the threads of the default executor; bounds, for the TokenDeltas
\* of each session that is submitted; whether the Worker may leave a request
\* without an end.
ASSUME OptionsValid ==
    /\ Streaming \subseteq Sessions
    /\ max_delta_events \in Nat \ {0}
    /\ \A c \in Scenarios :
         c.pool_size \in Nat \ {0} /\ c.silent \in BOOLEAN
         /\ DOMAIN c.max_deltas \subseteq Sessions

Cancellers == {"pump", "drain", "stop"}     \* the callers of GatewaySession.cancel
Drainers == {"drain", "stop"}               \* the callers of cancel_and_drain

VARIABLES
    active,                 \* GatewayService._active
    deltas, terminal, abandoned,                \* _AsyncEventBuffer
    dropping, local_failure, cancel_sent, done, \* fields of GatewaySession, as sets
    cancel_lock             \* who holds _cancel_lock of each session
sessions == <<active, deltas, terminal, abandoned, dropping, local_failure, cancel_sent, done,
              cancel_lock>>

VARIABLES
    handler, pump,          \* where the handler and the pump of each session are
    cancelling,             \* where each call of cancel is
    draining,               \* where each call of cancel_and_drain is
    stop,                   \* where GatewayService.stop is
    snapshot,               \* the sessions stop found active
    jobs                    \* the calls given to to_thread that are not over
tasks == <<handler, pump, cancelling, draining, stop, snapshot, jobs>>

VARIABLES
    accepted_total, active_gauge, terminals_total, cancels_total, drain_timeouts,
    sse_buffered_events     \* GatewayMetrics
metrics == <<accepted_total, active_gauge, terminals_total, cancels_total, drain_timeouts,
             sse_buffered_events>>

VARIABLES
    scenario,               \* chosen once
    disconnected,           \* the sessions whose HTTP client is gone
    gone,                   \* the sessions whose request the GenerationClient has given up
    ended,                  \* the status of the Terminal the handle holds, or "no"
    received,               \* TokenDeltas the pump has taken
    texts,                  \* history: those with text
    got, response           \* history: deltas the handler read, the Terminal it read
world == <<scenario, disconnected, gone, ended, received, texts, got, response>>

vars == <<sessions, tasks, metrics, world>>

Init ==
    /\ scenario \in Scenarios
    /\ active = {} /\ abandoned = {} /\ dropping = {} /\ local_failure = {}
    /\ cancel_sent = {} /\ done = {} /\ snapshot = {}
    /\ disconnected = {} /\ gone = {}
    /\ deltas = [s \in Sessions |-> <<>>] /\ terminal = [s \in Sessions |-> "none"]
    /\ cancel_lock = [s \in Sessions |-> "free"]
    /\ handler = [s \in Sessions |-> "none"] /\ pump = [s \in Sessions |-> "none"]
    /\ cancelling = [s \in Sessions |-> [k \in Cancellers |-> "none"]]
    /\ draining = [s \in Sessions |-> [k \in Drainers |-> "none"]]
    /\ stop = "no" /\ jobs = <<>>
    /\ accepted_total = 0 /\ active_gauge = 0 /\ terminals_total = 0 /\ drain_timeouts = 0
    /\ cancels_total = [s \in Sessions |-> 0] /\ sse_buffered_events = 0
    /\ ended = [s \in Sessions |-> "no"] /\ received = [s \in Sessions |-> 0]
    /\ texts = [s \in Sessions |-> <<>>] /\ got = [s \in Sessions |-> <<>>]
    /\ response = [s \in Sessions |-> "none"]

-----------------------------------------------------------------------------
NextEventJob(s) == <<"next_event", s, "pump">>
CancelJob(s, k) == <<"cancel", s, k>>
CloseJob == <<"close", "client", "stop">>

Running(job) == \E i \in 1..Len(jobs) : i <= scenario.pool_size /\ jobs[i] = job
Others(job) == SelectSeq(jobs, LAMBDA j : j # job)
Monus(a, b) == IF a > b THEN a - b ELSE 0

\* A call of cancel begins: it waits for _cancel_lock.
BeginCancel(s, k) == cancelling' = [cancelling EXCEPT ![s][k] = "lock"]

\* detach_cancel_and_drain, by the handler of s.
Detach(s) ==
    /\ draining' = [draining EXCEPT ![s]["drain"] = "cancel"]
    /\ BeginCancel(s, "drain")

-----------------------------------------------------------------------------
\* The end of GatewayService.submit: the session is registered and its pump
\* started.  A streaming response starts later, when the server asks for it.
Start(s) ==
    /\ s \in DOMAIN scenario.max_deltas
    /\ pump[s] = "none" /\ stop = "no"
    /\ active' = active \cup {s}
    /\ accepted_total' = accepted_total + 1
    /\ active_gauge' = active_gauge + 1
    /\ pump' = [pump EXCEPT ![s] = "next"]
    /\ jobs' = Append(jobs, NextEventJob(s))
    /\ handler' = [handler EXCEPT ![s] = IF s \in Streaming THEN "unstarted" ELSE "loop"]
    /\ UNCHANGED <<deltas, terminal, abandoned, dropping, local_failure, cancel_sent, done,
                   cancel_lock, cancelling, draining, stop, snapshot, terminals_total,
                   cancels_total, drain_timeouts, sse_buffered_events, world>>

\* _AsyncEventBuffer.put_delta: whether there is room for one more.
Accepts(s) ==
    /\ terminal[s] = "none" /\ s \notin abandoned
    /\ Len(deltas[s]) < max_delta_events

\* The pump takes a delta.  It skips it when it has begun to drop, or when no
\* text came out of the decoder; it cancels and begins to drop when the
\* decoder fails or the buffer refuses.
PumpSkips(s, kind) ==
    /\ s \in dropping \/ kind = "empty"
    /\ jobs' = Append(Others(NextEventJob(s)), NextEventJob(s))
    /\ UNCHANGED <<deltas, dropping, local_failure, pump, cancelling, sse_buffered_events>>

PumpBuffers_Front(s, kind) ==
    /\ s \notin dropping /\ kind = "text" /\ Accepts(s)
    /\ deltas' = [deltas EXCEPT ![s] = <<received[s]>> \o @]
    /\ sse_buffered_events' = sse_buffered_events + 1
    /\ jobs' = Append(Others(NextEventJob(s)), NextEventJob(s))
    /\ UNCHANGED <<dropping, local_failure, pump, cancelling>>

PumpBuffers(s, kind) ==
    /\ s \notin dropping /\ kind = "text" /\ Accepts(s)
    /\ deltas' = [deltas EXCEPT ![s] = Append(@, received[s])]
    /\ sse_buffered_events' = sse_buffered_events + 1
    /\ jobs' = Append(Others(NextEventJob(s)), NextEventJob(s))
    /\ UNCHANGED <<dropping, local_failure, pump, cancelling>>

PumpCancels_GoesOn(s, kind) ==
    /\ s \notin dropping
    /\ kind = "bad" \/ (kind = "text" /\ ~Accepts(s))
    /\ pump' = [pump EXCEPT ![s] = "cancel"]
    /\ BeginCancel(s, "pump")
    /\ jobs' = Others(NextEventJob(s))
    /\ UNCHANGED <<deltas, dropping, local_failure, sse_buffered_events>>

PumpCancels(s, kind) ==
    /\ s \notin dropping
    /\ kind = "bad" \/ (kind = "text" /\ ~Accepts(s))
    /\ dropping' = dropping \cup {s}
    /\ local_failure' = IF kind = "bad" THEN local_failure \cup {s} ELSE local_failure
    /\ pump' = [pump EXCEPT ![s] = "cancel"]
    /\ BeginCancel(s, "pump")
    /\ jobs' = Others(NextEventJob(s))
    /\ UNCHANGED <<deltas, sse_buffered_events>>

PumpDelta(s) ==
    /\ pump[s] = "next" /\ Running(NextEventJob(s))
    /\ received[s] < scenario.max_deltas[s]
    /\ received' = [received EXCEPT ![s] = @ + 1]
    /\ \E kind \in {"text", "empty", "bad"} :
         /\ PumpSkips(s, kind) \/ PumpBuffers(s, kind) \/ PumpCancels(s, kind)
         /\ texts' = [texts EXCEPT ![s] = IF kind = "text" THEN Append(@, received[s]) ELSE @]
    /\ UNCHANGED <<active, terminal, abandoned, cancel_sent, done, cancel_lock, handler, draining,
                   stop, snapshot, accepted_total, active_gauge, terminals_total, cancels_total,
                   drain_timeouts, scenario, disconnected, gone, ended, got, response>>

\* The pump takes the Terminal: _finish, then _session_finished.
TerminalStatus_Worker(s) == ended[s]

TerminalStatus(s) == IF s \in local_failure THEN "internal_error" ELSE ended[s]

PumpTerminal_StaysActive(s) ==
    /\ pump[s] = "next" /\ Running(NextEventJob(s))
    /\ ended[s] # "no"
    /\ terminal' = [terminal EXCEPT ![s] = TerminalStatus(s)]
    /\ terminals_total' = terminals_total + 1
    /\ active_gauge' = Monus(active_gauge, 1)
    /\ pump' = [pump EXCEPT ![s] = "over"]
    /\ jobs' = Others(NextEventJob(s))
    /\ UNCHANGED <<active, done, deltas, abandoned, dropping, local_failure, cancel_sent,
                   cancel_lock, handler, cancelling, draining, stop, snapshot, accepted_total,
                   cancels_total, drain_timeouts, sse_buffered_events, world>>

PumpTerminal(s) ==
    /\ pump[s] = "next" /\ Running(NextEventJob(s))
    /\ ended[s] # "no"
    /\ terminal' = [terminal EXCEPT ![s] = TerminalStatus(s)]
    /\ terminals_total' = terminals_total + 1
    /\ active_gauge' = Monus(active_gauge, 1)
    /\ done' = done \cup {s}
    /\ active' = active \ {s}
    /\ pump' = [pump EXCEPT ![s] = "over"]
    /\ jobs' = Others(NextEventJob(s))
    /\ UNCHANGED <<deltas, abandoned, dropping, local_failure, cancel_sent, cancel_lock, handler,
                   cancelling, draining, stop, snapshot, accepted_total, cancels_total,
                   drain_timeouts, sse_buffered_events, world>>

-----------------------------------------------------------------------------
\* Where the caller of cancel goes on: the pump asks for the next event,
\* cancel_and_drain waits for done.
AfterCancel(s, k) ==
    /\ cancelling' = [cancelling EXCEPT ![s][k] = "none"]
    /\ \/ /\ k = "pump"
          /\ pump' = [pump EXCEPT ![s] = "next"]
          /\ jobs' = Append(jobs, NextEventJob(s))
          /\ UNCHANGED draining
       \/ /\ k \in Drainers
          /\ draining' = [draining EXCEPT ![s][k] = "waiting"]
          /\ UNCHANGED <<pump, jobs>>

\* GatewaySession.cancel has the lock: there is nothing to do, or the handle
\* is asked in a thread, the lock being kept.
NothingToCancel_Done(s) == s \in done

NothingToCancel(s) == s \in done \cup cancel_sent

CancelEnters(s, k) ==
    /\ cancelling[s][k] = "lock" /\ cancel_lock[s] = "free"
    /\ \/ /\ NothingToCancel(s)
          /\ AfterCancel(s, k)
          /\ UNCHANGED cancel_lock
       \/ /\ ~NothingToCancel(s)
          /\ cancel_lock' = [cancel_lock EXCEPT ![s] = k]
          /\ cancelling' = [cancelling EXCEPT ![s][k] = "thread"]
          /\ jobs' = Append(jobs, CancelJob(s, k))
          /\ UNCHANGED <<pump, draining>>
    /\ UNCHANGED <<active, deltas, terminal, abandoned, dropping, local_failure, cancel_sent, done,
                   handler, stop, snapshot, metrics, world>>

\* The thread calls GenerationHandle.cancel: the Cancel is sent, unless the client has
\* the request no longer.  Then it returns False or raises, and the Terminal may still
\* be on its way to the handle.
CancelCalls(s, k) ==
    /\ cancelling[s][k] = "thread" /\ Running(CancelJob(s, k))
    /\ cancelling' = [cancelling EXCEPT ![s][k] = IF s \in gone THEN "unsent" ELSE "sent"]
    /\ jobs' = Others(CancelJob(s, k))
    /\ UNCHANGED <<sessions, handler, pump, draining, stop, snapshot, metrics, world>>

CancelReturns_LockKept(s, k) ==
    /\ cancelling[s][k] \in {"sent", "unsent"}
    /\ cancel_sent' = IF cancelling[s][k] = "sent" THEN cancel_sent \cup {s} ELSE cancel_sent
    /\ cancels_total' = [cancels_total EXCEPT ![s] = IF cancelling[s][k] = "sent" THEN @ + 1 ELSE @]
    /\ AfterCancel(s, k)
    /\ UNCHANGED <<active, deltas, terminal, abandoned, dropping, local_failure, done, cancel_lock,
                   handler, stop, snapshot, accepted_total, active_gauge, terminals_total,
                   drain_timeouts, sse_buffered_events, world>>

\* GatewaySession.cancel resumes; a Terminal may have come since.
CancelReturns(s, k) ==
    /\ cancelling[s][k] \in {"sent", "unsent"}
    /\ cancel_sent' = IF cancelling[s][k] = "sent" THEN cancel_sent \cup {s} ELSE cancel_sent
    /\ cancels_total' = [cancels_total EXCEPT ![s] = IF cancelling[s][k] = "sent" THEN @ + 1 ELSE @]
    /\ cancel_lock' = [cancel_lock EXCEPT ![s] = "free"]
    /\ AfterCancel(s, k)
    /\ UNCHANGED <<active, deltas, terminal, abandoned, dropping, local_failure, done, handler,
                   stop, snapshot, accepted_total, active_gauge, terminals_total, drain_timeouts,
                   sse_buffered_events, world>>

\* cancel_and_drain: the session is done, or the timeout is over.
Drained_NoTimeout(s, k) ==
    /\ draining[s][k] = "waiting" /\ s \in done
    /\ draining' = [draining EXCEPT ![s][k] = IF k = "drain" THEN "abandon" ELSE "over"]
    /\ UNCHANGED <<sessions, handler, pump, cancelling, stop, snapshot, jobs, metrics, world>>

Drained(s, k) ==
    /\ draining[s][k] = "waiting"
    /\ drain_timeouts' = IF s \in done THEN drain_timeouts ELSE drain_timeouts + 1
    /\ draining' = [draining EXCEPT ![s][k] = IF k = "drain" THEN "abandon" ELSE "over"]
    /\ UNCHANGED <<sessions, handler, pump, cancelling, stop, snapshot, jobs, accepted_total,
                   active_gauge, terminals_total, cancels_total, sse_buffered_events, world>>

\* The deltas buffered for the sessions in some.
Buffered(some) == Cardinality({e \in some \X (1..max_delta_events) : e[2] <= Len(deltas[e[1]])})

\* _AsyncEventBuffer.abandon, for every session in some.
AbandonBuffers_GaugeKept(some) ==
    /\ abandoned' = abandoned \cup some
    /\ deltas' = [s \in Sessions |-> IF s \in some THEN <<>> ELSE deltas[s]]
    /\ UNCHANGED sse_buffered_events

AbandonBuffers(some) ==
    /\ abandoned' = abandoned \cup some
    /\ deltas' = [s \in Sessions |-> IF s \in some THEN <<>> ELSE deltas[s]]
    /\ sse_buffered_events' = Monus(sse_buffered_events, Buffered(some))

\* _cancel_drain_and_abandon, after the drain.
Abandon(s) ==
    /\ draining[s]["drain"] = "abandon"
    /\ AbandonBuffers({s})
    /\ draining' = [draining EXCEPT ![s]["drain"] = "over"]
    /\ UNCHANGED <<active, terminal, dropping, local_failure, cancel_sent, done, cancel_lock,
                   handler, pump, cancelling, stop, snapshot, jobs, accepted_total, active_gauge,
                   terminals_total, cancels_total, drain_timeouts, world>>

-----------------------------------------------------------------------------
\* The handler: _collect_non_streaming, or the generator _stream_chat_completion.
\* The generator starts with the first chunk; a server whose client is gone by
\* then may drop it unstarted, and none of its code runs.
HandlerMoves(s, there) ==
    /\ handler' = [handler EXCEPT ![s] = there]
    /\ UNCHANGED <<active, terminal, abandoned, dropping, local_failure, cancel_sent, done,
                   cancel_lock, pump, stop, snapshot, jobs, accepted_total, active_gauge,
                   terminals_total, cancels_total, drain_timeouts, scenario, disconnected, gone,
                   ended, received, texts>>

Reads == <<deltas, sse_buffered_events, got, response>>
Detaches == <<cancelling, draining>>

StreamBegins(s) ==
    /\ handler[s] = "unstarted"
    /\ HandlerMoves(s, "loop")
    /\ UNCHANGED <<Reads, Detaches>>

StreamDropped(s) ==
    /\ handler[s] = "unstarted" /\ s \in disconnected
    /\ HandlerMoves(s, "over")
    /\ UNCHANGED <<Reads, Detaches>>

\* is_disconnected, before each event.
PollDisconnected(s) ==
    /\ handler[s] = "loop"
    /\ \/ s \notin disconnected /\ HandlerMoves(s, "next") /\ UNCHANGED Detaches
       \/ s \in disconnected /\ HandlerMoves(s, "over") /\ Detach(s)
    /\ UNCHANGED Reads

\* The server cancels the handler at one of its awaits or yields.
HandlerCancelled(s) ==
    /\ handler[s] \in {"loop", "next"} /\ s \in disconnected
    /\ HandlerMoves(s, "over")
    /\ Detach(s)
    /\ UNCHANGED Reads

\* next_event: a delta, else the Terminal, else the poll timeout.
ReadEvent(s) ==
    /\ handler[s] = "next"
    /\ \/ /\ deltas[s] # <<>>
          /\ got' = [got EXCEPT ![s] = Append(@, Head(deltas[s]))]
          /\ deltas' = [deltas EXCEPT ![s] = Tail(@)]
          /\ sse_buffered_events' = Monus(sse_buffered_events, 1)
          /\ HandlerMoves(s, "loop")
          /\ UNCHANGED response
       \/ /\ deltas[s] = <<>> /\ terminal[s] # "none"
          /\ response' = [response EXCEPT ![s] = terminal[s]]
          /\ HandlerMoves(s, "over")
          /\ UNCHANGED <<deltas, sse_buffered_events, got>>
       \/ /\ deltas[s] = <<>> /\ terminal[s] = "none"
          /\ HandlerMoves(s, "loop")
          /\ UNCHANGED Reads
    /\ UNCHANGED Detaches

-----------------------------------------------------------------------------
\* GatewayService.stop.  The server runs the lifespan's end once no handler
\* is left.
Stop ==
    /\ stop = "no"
    /\ \A s \in Sessions : handler[s] \in {"none", "over"}
    /\ stop' = "draining" /\ snapshot' = active
    /\ draining' = [s \in Sessions |->
                      [draining[s] EXCEPT !["stop"] = IF s \in active THEN "cancel" ELSE "over"]]
    /\ cancelling' = [s \in Sessions |->
                      [cancelling[s] EXCEPT !["stop"] = IF s \in active THEN "lock" ELSE "none"]]
    /\ UNCHANGED <<sessions, handler, pump, jobs, metrics, world>>

StopDrained ==
    /\ stop = "draining"
    /\ \A s \in Sessions : draining[s]["stop"] = "over"
    /\ stop' = "close"
    /\ jobs' = Append(jobs, CloseJob)
    /\ UNCHANGED <<sessions, handler, pump, cancelling, draining, snapshot, metrics, world>>

\* client.close has given every handle of a request it had its Terminal; the sessions
\* are abandoned.
StopClosed ==
    /\ stop = "close" /\ Running(CloseJob)
    /\ ended' = [s \in Sessions |-> IF s \notin gone THEN "unavailable" ELSE ended[s]]
    /\ gone' = Sessions
    /\ jobs' = Others(CloseJob)
    /\ AbandonBuffers(snapshot)
    /\ stop' = "detached"
    /\ UNCHANGED <<active, terminal, dropping, local_failure, cancel_sent, done, cancel_lock,
                   handler, pump, cancelling, draining, snapshot, accepted_total, active_gauge,
                   terminals_total, cancels_total, drain_timeouts, scenario, disconnected, received,
                   texts, got, response>>

StopReturned ==
    /\ stop = "detached"
    /\ \A s \in Sessions : draining[s]["drain"] \in {"none", "over"}
    /\ stop' = "over"
    /\ UNCHANGED <<sessions, handler, pump, cancelling, draining, snapshot, jobs, metrics, world>>

-----------------------------------------------------------------------------
\* The world: HTTP clients leave, the Worker ends requests or is lost.
HttpDisconnect(s) ==
    /\ handler[s] \in {"unstarted", "loop", "next"} /\ s \notin disconnected
    /\ disconnected' = disconnected \cup {s}
    /\ UNCHANGED <<sessions, tasks, metrics, scenario, gone, ended, received, texts, got, response>>

\* The request leaves _requests of the client, with its Terminal or with the connection.
RequestGone(s) ==
    /\ pump[s] # "none" /\ s \notin gone
    /\ gone' = gone \cup {s}
    /\ UNCHANGED <<sessions, tasks, metrics, scenario, disconnected, ended, received, texts, got,
                   response>>

\* The handle has its Terminal.
TerminalArrives(s) ==
    /\ s \in gone /\ ended[s] = "no"
    /\ \E status \in {"ok", "error"} : ended' = [ended EXCEPT ![s] = status]
    /\ UNCHANGED <<sessions, tasks, metrics, scenario, disconnected, gone, received, texts, got,
                   response>>

Handler(s) == StreamBegins(s) \/ StreamDropped(s) \/ PollDisconnected(s) \/ ReadEvent(s)
StopStep == StopDrained \/ StopClosed \/ StopReturned
Drain(s) == Abandon(s) \/ \E k \in Drainers : Drained(s, k)
Cancelling(s, k) == CancelEnters(s, k) \/ CancelCalls(s, k) \/ CancelReturns(s, k)

Next ==
    \/ Stop \/ StopStep
    \/ \E s \in Sessions :
         \/ Start(s) \/ PumpDelta(s) \/ PumpTerminal(s)
         \/ Handler(s) \/ HandlerCancelled(s)
         \/ Drain(s) \/ \E k \in Cancellers : Cancelling(s, k)
         \/ HttpDisconnect(s) \/ RequestGone(s) \/ TerminalArrives(s)

Spec == Init /\ [][Next]_vars

\* The event loop runs every task, the executor every call it has a thread
\* for.  Nothing is asked of the HTTP clients, nor of a Worker that is silent;
\* any other ends every request it accepted.  The client's threads deliver what they
\* have begun to.
Fairness ==
    /\ WF_vars(StopStep)
    /\ \A s \in Sessions :
         /\ WF_vars(PumpTerminal(s)) /\ WF_vars(Handler(s)) /\ WF_vars(Drain(s))
         /\ WF_vars(~scenario.silent /\ RequestGone(s)) /\ WF_vars(TerminalArrives(s))
         /\ \A k \in Cancellers : WF_vars(Cancelling(s, k))

LiveSpec == Spec /\ Fairness

-----------------------------------------------------------------------------
\* The gauges, which put_delta, get and abandon of all sessions and the pumps
\* change one by one, are what they count: the buffered deltas, the active
\* requests; and the accepted requests are those that ended and the active ones.
\* The pump, the drain task and stop may all cancel a session, in any order and
\* while the others wait: the Worker is asked and the cancellation counted at most once.
GaugesExact ==
    /\ sse_buffered_events = Buffered(Sessions)
    /\ active_gauge = Cardinality(active)
    /\ accepted_total = terminals_total + active_gauge
    /\ active = {s \in Sessions : pump[s] # "none"} \ done
    /\ \A s \in Sessions : cancels_total[s] <= 1

\* A response that was read to its Terminal has all the text of the request,
\* unless the pump began to drop; then a cancellation is under way or was
\* sent, or the client had the request no longer.  A text that was decoded
\* wrongly is never reported as a success, and no buffer is abandoned under a
\* reader.
TextLostOnlyByDropping ==
    \A s \in Sessions :
      /\ Len(deltas[s]) <= max_delta_events
      /\ response[s] # "none" /\ s \notin dropping => got[s] = texts[s]
      /\ s \in dropping => cancelling[s]["pump"] # "none" \/ s \in cancel_sent \/ s \in gone
      /\ s \in local_failure => terminal[s] \in {"none", "internal_error"}
      /\ s \in abandoned => handler[s] = "over"

\* The promise of HandlePromise at the next layer: what the handler reads.
Promise == INSTANCE HandlePromise WITH
    Requests <- Sessions,
    SequenceNumbers <- UNION {UNION {0..c.max_deltas[s] : s \in DOMAIN c.max_deltas} :
                              c \in Scenarios},
    verdict <- [s \in Sessions |-> IF pump[s] = "none" THEN "none" ELSE "handle"],
    read <- got,
    ended <- {s \in Sessions : response[s] # "none"}

\* A Gateway session keeps the promise its handle keeps: deltas in order, then
\* one Terminal, then nothing.
KeepsPromise == Promise!Spec

\* With a Worker that ends what it accepted every session is finished and
\* every handler returns, even when pumps hold all threads of the executor.
SessionsFinish ==
    \A s \in Sessions :
      pump[s] # "none" /\ ~scenario.silent ~> s \in done /\ handler[s] = "over"

\* stop returns, and so does the task detached for a client that went away,
\* although the Worker is silent, as long as the executor has a thread beside
\* those the pumps hold.
StopReturns ==
    LET threads == \/ ~scenario.silent
                   \/ scenario.pool_size > Cardinality(DOMAIN scenario.max_deltas)
    IN
    /\ threads /\ stop = "draining" ~> stop = "over"
    /\ \A s \in Sessions :
         threads /\ draining[s]["drain"] = "cancel" ~> draining[s]["drain"] = "over"

\* Sessions, handlers, stop and detached tasks all come to their end.
EverythingEnds == SessionsFinish /\ StopReturns

====
