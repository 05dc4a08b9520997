# Verification of kim-llm-serving

TLA+ specifications of the serving path of kim-llm-serving, checked with TLC on
small instances and, where it matters most, proved with TLAPS for every instance.
`PROJECT.json` maps each definition to the lines it translates, and lists the
runs, the mutants that show each property can fail, the hazards and the theorems.

## The system

A Python Gateway (FastAPI, asyncio) talks over a Unix domain socket
(length-prefixed strict JSON) to a C++ Worker, which drives TensorRT-LLM.

| Part | State | Operations | Talks to |
|---|---|---|---|
| Gateway HTTP API (`gateway/.../api.py`, `openai.py`) | per response | lifespan, `/readyz`, `/metrics`, chat completions (parse, plain and SSE response) | Gateway runtime |
| Gateway runtime (`gateway/.../runtime.py`) | active sessions, SSE buffers, readiness, metrics | submit, pump, cancel and drain, check_readiness, stop | GenerationClient |
| Configuration, Tokenizer (`config.py`, `tokenizer.py`) | | load, validate | |
| GenerationClient (`clients/.../generation_client.py`) | connection, pending requests, event buffers, probes | connect, submit, cancel, health, close, reader loop, fail | the socket |
| Codecs (`clients/.../protocol.py`, `src/ipc/ipc_protocol.cpp`) | bytes of an unfinished frame | encode, decode, feed | |
| IpcSession (`src/ipc/ipc_transport.cpp`) | handshake state, frames to write | start, send, reader and writer loop, fail, stop | socket, RuntimeBridge |
| WorkerServer (`src/worker/worker_server.cpp`) | the one active session | accept, reap, stop | RuntimeBridge |
| RuntimeBridge (`src/worker/runtime_bridge.cpp`) | a record and a pump thread per request | handle Submit, Cancel and Health, pump, writer, shutdown | GenerationRuntime, SessionEgress, IpcSession |
| SessionEgress (`src/worker/session_egress.cpp`) | control queue, request queues, reserves, schedule | register, abandon, enqueue (three kinds), waitPop, stop | |
| GenerationRuntime (`src/runtime/generation_runtime.cpp`) | lifecycle state | start, submit, cancel, stop | all below |
| AdmissionController | budgets, active ids, leases | open, close, tryAcquire, release | |
| RequestState, GenerationMailbox | phase, usage; queued Deltas, Terminal slot | markRunning, markCancelling, tryCommitDelta, finalize, waitPop | |
| TrtLlmExecutorBackend | two tables of requests, pump thread | submit, cancel, response pump, failure, stop | the executor (a library) |

What makes it hard: a request may end in many ways, and they race (a final
response, cancel, backpressure at three buffers, a failure of a pump or of the
connection, a timeout, stop); it is known by different ids in four places; and
the repository's README promises that each accepted request gets exactly one
Terminal while the transport lives, no token after it, resources returned exactly
once, and a Terminal that queued tokens can never crowd out.

## The modules

| Module | Models | Run | Proofs |
|---|---|---|---|
| `SessionEgress` | `session_egress.cpp` | `egress` | `SessionEgress_proofs` |
| `Admission` | `admission_controller.cpp` | `bridge`, `runtime` | `Admission_proofs` |
| `RuntimeBridge` | `runtime_bridge.cpp`, over `SessionEgress` and `Admission` | `bridge` | |
| `RequestState` | `request_state.cpp`, `generation_mailbox.cpp` | `request` | `RequestState_proofs` |
| `GenerationRuntime` | `generation_runtime.cpp`, `trtllm_executor_backend.cpp`, over `Admission` and `RequestState` | `runtime`, `runtime_live`, `runtime_id` | `GenerationRuntimeSteps_proofs`, `GenerationRuntime_proofs` |
| `GenerationClient` | `generation_client.py` | `client`, `client_live` | |
| `GatewaySession` | sessions of `runtime.py`, the responses of `api.py` | `session` | |
| `GatewayService` | the service of `runtime.py`, the endpoints of `api.py` | `service` | `GatewayService_proofs` |
| `PythonCodec`, `CppCodec`, `JsonValues`, `Wire` | `protocol.py`, `ipc_protocol.cpp`, and the two together | `wire` | `Protocol_proofs` |
| `Framing` | the frame decoders and encoders of both ends | `wire` | |
| `IpcSession` | the sessions of `ipc_transport.cpp` | `wire` | |
| `GatewayConfig`, `ChatRequest`, `RequestPath` | `config.py`, `tokenizer.py`, the parser of `openai.py`, and the way from a body to a Submit | `chat` | `Protocol_proofs` |
| `ChatResponse` | the incremental decoder of `runtime.py`, the responses of `api.py` and `openai.py` | `chat` | |
| `TokenStream`, `HandlePromise` | nothing: the abstract promises to a consumer | | |
| `Sums`, `Sums_proofs` | nothing: sums over finite sets, and lemmas about them | | |

The `MC...` modules give the constants their values. `MCWire` and `MCRequestPath`
put two or three independent modules in one run, by a choice in the initial state.

**SessionEgress.** Every public operation holds one mutex, so it is one action; a
message is its kind and frame size. Refusals change nothing and are guards, named
`...Full`. The variables are the fields of `SessionEgress::Impl`; the fields of a
`RequestQueue` are functions of the request id.

**Admission.** `tryAcquire(j)` and `release(j)` for calls `j` of submit with an id,
input and output tokens; `leases` is the set of calls whose lease is valid.

**RuntimeBridge.** The threads of a session: the reader with the message handler,
a pump for each request, the writer, the transport monitor and the owner that
calls stop. Any of them may begin the shutdown. A step is what a thread does
between two of the locks and atomics it shares: a cancel of a record is its flag,
the question whether the record still owns the id, and the call of the runtime.
`session.stop` is a call and a join, by the writer as by the owner. The egress is
`SessionEgress` itself, with frames of one byte. The runtime is admission control and, for each
request, a mailbox that yields Deltas and, once the lease is back, a Terminal.
The scenario, chosen at the start, is what the client sends, how many Deltas the
requests have, and which faults may happen: stop, a lost connection, a peer that
does not read.

**RequestState.** The phase of each request and its mailbox. `finalize` holds the
request's mutex while it calls the mailbox, whose own lock is released before the
lease is returned, so it is two steps, `pushTerminal` and `endFinalize`: a
consumer may take the Terminal in between. `seen` records what `waitPop` has
handed out, and is what `TokenStream` is about.

**GenerationRuntime.** Composes the two with `INSTANCE` and adds the lifecycle,
the backend's tables, and two threads with a place in the code: the response
pump, and the caller of stop. `Shared` and `Exclusive` are `lifecycleMutex_`,
`MutexFree` is the backend's `mutex_`. A submit is up to five steps (admitted,
enqueued in the executor, registered, or refused and its mailbox dropped),
because the executor may answer as soon as `enqueueRequest` returns. The executor
is external: it may send any number of responses, with tokens or not, end a
request in any way at any time, or make `awaitResponses` throw.

**GenerationClient.** One thread for each submit, probe and cancel, one reader for
each connection, one owner that connects and closes. A step is one hold of
`_state_condition` or one blocking call, so what is read under the lock and used
after it may be stale: the socket a frame is sent on, the connection `_fail`
gives up. The end of connect is three steps, since another thread may fail the
connection before `_reader_thread` is set, and again before it is started. A
scenario, chosen at the start, says which calls are made, how often the owner
connects, and whether the second Worker is a new one. The Worker answers, ends or rejects requests in any order that the
protocol allows, and the connection may break at any point.

**GatewaySession** and **GatewayService.** Tasks of one event loop: a step is what a
task does from one await to the next. `GatewaySession` has the pump, the SSE
buffer, the handler, the task that cancels and drains for a client that went
away, and stop; `to_thread` calls wait for one of `pool_size` threads in the
order they were made. A cancel is the coroutine that takes the lock, the thread
that calls the client, and the coroutine that resumes: the client may have given
the request up (`gone`) before, between or after, and before the handle has its
Terminal. `GatewayService` has everything before the session: the
lifespan, readiness under `_connection_lock`, and submit with each way it fails,
a configured timeout that overflows included. stop may run when every response is
over, which is when the server runs it, or while calls are in flight.

**Wire.** A JSON value is a kind and a value. Each decoder is the predicate "accepts
this value", translated check by check: the Python one validates as it reads,
the C++ one reads into a struct, whose types already bound the fields, and then
validates. The encoders are apart from the decoders: those of Python test their
arguments and build an object; `WorkerWrites` takes a struct (`MessageTyped`, what
the C++ types can hold), validates it and writes its fields (`messageJson`). An
object is `Writable` when some such struct is written as it. **Framing** has the bytes: frames in any cut, fed to both decoders.

**IpcSession.** One end of a connection, server or client: reader, writer, the owner
that starts it, and two threads that may stop it. A step is one hold of `mutex_` or
one call on the socket; `fail` and its shutdown of the socket are one step, as are
the last read and the look at the state that follows it. The peer is external: it
may stop reading, close, or break the protocol once, with its last frame. Joining
one thread twice throws in a noexcept function: `aborted`, after which nothing runs.

**RequestPath.** One request through five stages that each have their own limits:
configuration, constructors, HTTP parser, submit, codec. **ChatResponse** goes the
other way: tokens in any grouping, some half a character, through the decoder
and a bounded buffer to the chunks the client reads. The end of a stream is up to
three yields, and the client may go away at each of them.

**Refinement.** `RequestState` implements `TokenStream`. `GenerationRuntime`
implements `Admission` and `RequestState`. `HandlePromise` (one verdict, growing
sequence numbers, one Terminal, then nothing) is kept at three places on the way
of a request: by `RuntimeBridge` on the wire, by `GenerationClient` at its handles,
by `GatewaySession` at the HTTP handler.

## The runs

| Run | Instance | Distinct states | Shows |
|---|---|---|---|
| `egress` | 3 requests, frame sizes 1 to 4, 4 data frames | 44880 | counters match the queues, a Terminal always fits, nothing follows it, no request is served twice before another, a queued Terminal leaves |
| `bridge` | 3 requests, two with one id; 8 scenarios | 167936 | budgets exact, the wire is faithful to the runtime, a cancel hits its own request, shutdown orphans nothing but in one window (below), the promise is kept, every Submit ends, and stop returns unless two of them abort (below) |
| `request` | 2 requests, queue of 2 Deltas and 3 tokens | 80089 | contiguous queue, exact usage, one Terminal, silence after cancel, implements `TokenStream` |
| `runtime` | 2 requests with one id, queue of 1 Delta | 782328 | leases, tables and phases agree, a clean stop, no token lost, implements `Admission` and `RequestState`, no deadlock |
| `runtime_live` | 2 requests with their own ids, 1 token | 89307 | every consumer gets its Terminal; stop returns |
| `runtime_id` | as `runtime` | (violation) | see Findings |
| `client` | 6 scenarios: up to 2 requests, one too large for a frame, cancels, a probe, close, 2 connections to one Worker or two; a stream of 4 Deltas in a buffer of 1 | 775892 | one Terminal each and no slot leaked, connections kept apart but in one window (below), gaps only after an overflow, the promise |
| `client_live` | 3 scenarios: a request and a probe over a reconnect; a reader that has to send a Cancel beside other senders; close over a reconnect | 207036 | every handle ends; submit, health and close return |
| `session` | 3 scenarios: an overflow, two sessions and one thread, a silent Worker | 82365 | gauges exact, text lost only by dropping, the promise, sessions finish, stop returns |
| `service` | 2 chats, 1 `/readyz`, 1 `/metrics`, 2 connections, 2 threads | 178810 | every offered request counted once more, one connect at a time, only calls in flight outlive stop, every call answered while a thread is left for it |
| `wire` | messages with one or two fields at an edge; streams of up to 7 bytes; sessions of both roles, with 1 message out and 2 in, or 3 out through a queue of 2 | 315925 | the codecs agree; frames are read however the bytes are cut; a session delivers in order, blames rightly and ends |
| `chat` | configurations, bodies, Tokenizers with a field at an edge; 4 tokens | 347007 | the stages agree; the response has the text, the form and the status of the generation, also when it is cut short |

**Bounds.**
- `MaxTokens` and the `deltas` or `max_deltas` of a scenario bound what
  a request generates; `MaxConnections` and `connects` the connects; `WireCap` and
  `SocketFrames` the frames in a socket; `MaxBytes` the stream; `sends` and `messages`
  of a setting what the ends of a session send. Sets of calls are finite, and each call happens once.
- Every buffer is small enough to fill: the egress meets each of its limits, the
  mailbox of `request` fills by count and by tokens, the buffers of client and
  session by their last Delta.
- Two requests are enough for one to disturb another where they meet: in the
  budgets, in the tables, in the pumps and in the loops of stop. In the bridge a
  third is there, for two with the same id and one with another. More exceed what
  TLC can explore in minutes; where a theorem exists it covers them.
- `Silent` (in `runtime_live`) is a request for which the executor generates no
  token, which halves the work of the liveness check; the other one has a token.
- In `wire` and `chat` only the order of the integer limits matters, and they are
  small numbers in that order. Frames have two digits to the base 2 as a prefix.
- Symmetry permutes requests in `runtime` and `runtime_id`, where they are alike.

**Deadlock** is checked in `runtime` and `runtime_live`. The others really stop: a
stopped egress or bridge refuses everything, a request whose Terminal has been
read is over, and a client, a Gateway or a message whose bounded calls are done
has nothing left to do. Liveness properties say instead that nothing stops early.

**Fairness.**
- `egress`: the writer keeps calling `waitPop` (`runtime_bridge.cpp`, writerLoop).
- `bridge`: threads run, and the runtime ends what it accepted, which `runtime_live`
  shows. No message, fault or stop is assumed.
- `runtime_live`: the pump, the thread in stop and a call inside submit keep
  running; consumers keep reading (requestPumpLoop); and the executor at last ends
  each request it runs, under strong fairness because the pump polls. The last is
  an assumption about the library: the backend always gives it a token limit and
  passes on a deadline when the request has one (makeExecutorRequest), and has no
  timer of its own.
- `client_live`: each thread runs, waits with a timeout end, the Worker reads,
  answers and ends requests while the connection lives, and the user reads the
  handle. A thread that may go on in several ways has one condition for all of them.
- `session`: tasks run, the client gives the handle the Terminal of a request it has
  given up, and the Worker ends what it accepted unless the scenario is that it is
  silent.
- `service`: a task that can take `_connection_lock` or whose call of the client has a
  thread goes on; these calls end by their timeouts. That a thread is left is not
  assumed: pumps may hold all of them for ever, and `CallsAnswered` says what holds
  when at last they do not.
- `wire`: for sessions, threads run and calls that were made go on; the peer need
  not do anything, and nobody has to call stop.

## Findings

`runtime_id` (`ReusableAfterRelease`): the lease, and with it the id in admission
control, is returned when the Terminal enters the mailbox
(`generation_mailbox.cpp:84`); the id leaves the backend's table afterwards
(`trtllm_executor_backend.cpp:706`). A submit that uses the id again in between
passes admission control and may be refused by the backend with InvalidInput.
Tests say "duplicate request id must return AlreadyExists"
(`tests/runtime/llm_generation_runtime_test.cpp:580`) and "request id must be
reusable after lease release" (`tests/runtime/llm_admission_controller_test.cpp:267`,
of the controller alone). They use a fake backend or none, and do not meet the
interval. No resource is lost: `Bookkeeping` holds.

Behaviours that the properties state as exceptions, since the code allows them:

- *A request may outlive its session.* `beginShutdown` sets a flag, cancels the
  requests it finds and stops the egress. A handler that registers its request
  after the snapshot and queues Accepted before the egress stops is not undone:
  the request runs on, uncancelled, to its natural end. A test says "peer disconnect
  must cancel every owned request"
  (`tests/worker/llm_runtime_bridge_test.cpp:927`). `NothingOrphaned` names this
  window as the only one, and says that the client never read that Accepted.
- *A client that is too quick.* A server session is Ready when its writer has
  written HelloAck and then marked it (`ipc_transport.cpp:932`). A message that the
  client sends on HelloAck may be read before, and is then taken for a second
  Hello, or for pipelining, and fails the session (`BlamesRightly` in
  `SessionFaithful` names this as the only way a peer that keeps the protocol is
  failed for breaking it).
- *Two calls of stop.* The owner of a bridge and its writer, or a pump without its
  queue, may stop the session at once; both join the same threads
  (`ipc_transport.cpp:594`), the second join throws, and the process ends
  (`ClosedIsUnused` and `SessionEnds` of the session, `EverythingEnds` of the bridge).
- *A reader that is forgotten.* connect sets `_reader_thread` and then starts it
  (`generation_client.py:285`). A submit, probe or cancel of another thread that fails
  in between clears the field without joining a thread that does not run yet. The
  reader then starts all the same, connect does not wait for it, and it may read
  from the next connection beside that one's own reader. `ConnectionsKeptApart` and
  `EverythingReturns` name this as the only exception; one Terminal for each request,
  no leaked slot, the order of Deltas and the promise hold in spite of it.
- *stop with calls in flight.* A readiness check or a submit that was past its test of
  `_stopping` may connect the client again, or add a session nobody ends, after stop
  (`OnlyCaughtOutlive`). The server runs stop when its responses are over, and then
  there is no such call.
- *A timeout that overflows.* `int()` of an infinite number of milliseconds raises
  OverflowError in submit (`runtime.py:743`), after the request was counted as offered
  and outside of what counts it as rejected (`OfferedAccounted`).
- *All threads in pumps.* Each pump holds a thread of the default executor while it
  waits for the Worker. With as many silent requests as threads, a cancel, a probe or
  another submit waits with them (`CallsAnswered`, and the scenario of two sessions
  and one thread in `session`).
- *Overflow may end as a success.* A Delta that finds the client's buffer or the SSE
  buffer full is dropped and the request cancelled, but the Worker's Terminal may
  already be on its way with status ok (`GapsOnlyAfterOverflow`,
  `TextLostOnlyByDropping`, `ResponseFaithful`).
- *A split character fails a completion.* The decoder takes a changed prefix for an
  error, so a character whose bytes come in two TokenDeltas ends the response with
  internal_error (`runtime.py:396`); it is reported, never hidden.
- *Readiness survives a reconnect.* `_ready` is not reset when the connection is
  lost; `ready` also asks for a connection, which another call may just have made
  and not yet probed (`runtime.py:591`).
- *Two edges of the request path.* Token ids above 31 bits, and a
  `request_timeout_seconds` below a millisecond or above 2^64 of them, are accepted
  by configuration and parser and refused by the codec (`StagesAgree`).

## The proofs

All theorems are for any number of requests, calls or values and any configuration
that the code's validation accepts. The assumptions on constants are
`ConfigurationValid`, `SizesArePositive`, `RequestsFinite` (`SessionEgress`),
`JobsValid`, `LimitsValid` (`Admission`), `MailboxConfigValid`, `NoneIsNoStatus`
(`RequestState`), `ConfigValid` (`GenerationRuntime`), `CallsDistinct`
(`GatewayService`), `WidthsOrdered`, `EpochsAreIntegers`, `ArgumentsTyped`,
`DefaultsInRange`, `MaxIdInRange` (codecs and request path); TLC evaluates them in the
runs of those modules. `ArgumentsTyped` says that arguments of the encoders have the
types of their declarations. C++ enforces that. In Python nothing does:
`_validate_manifest` asks of the names of a manifest only that they are not false, and
`encode_hello` would write a number that was given for one.

- `SessionEgress_proofs`: `BookkeepingAlways` (no unsigned counter wraps, counters,
  capacity and schedule match the queues), `TerminalNeverRefused`,
  `TerminalIsLast`. The invariant `IInv` joins them and adds two facts: an
  unregistered id has an empty queue, and a request that owes its Terminal keeps
  a frame and the reserve free in its own queue (`TerminalRoomKept`).
  `TerminalAlwaysFits` is not inductive without the second, and the capacity of
  the session needs the counters to be exact.
- `Admission_proofs`: `BookkeepingAlways`. The invariant adds the finiteness of the
  active ids.
- `RequestState_proofs`: `BookkeepingAlways`, `CancelIsFinal` and `Implements`, the
  refinement of `TokenStream`. Queue, usage and Terminal slot are inductive only
  together: the usage at the Terminal is what was seen plus what is queued.
- `GatewayService_proofs`: `OfferedAlwaysAccounted`, `ConnectsAlwaysOneAtATime`,
  `OnlyCaughtAlwaysOutlive`. The invariant adds that the lock is held by exactly the
  task that connects or probes, that without a service nothing is connected, that the
  calls inside the service once stop has begun are among those it found there, and
  that where a timeout overflows no call gets as far as the client.
- `GenerationRuntimeSteps_proofs` and `GenerationRuntime_proofs`: `BookkeepingHolds`,
  `StoppedHolds`, `OkHolds`, and the refinements `AdmissionImplemented` and
  `RequestsImplemented`, however submit, cancel, the pump, the executor, the consumers
  and stop interleave. The invariant `IInv` says where the threads can be (`Control`:
  stop keeps submit out, and finalizes only when the pump is gone), which phase and
  tables a request has by its place (`Enqueuing`, `Phased`, `Tables`,
  `LeaseWhileLive`), what the request in the hands of a thread is like (`Held`,
  `Ended`), that a thread in `finalizeAll` has all that are left (`Leftovers`), that
  stop has marked every request before it ends the first (`Marked`), and where every
  token of the executor is (`Counted`, `Cancels`, `Complete`). `Bookkeeping` needs
  `Control` and `Held`, since a request is erased in several steps of one of two
  threads. `OkMeansComplete` needs `Counted`: Ok is decided when the last response
  arrives and written several steps later, with other threads in between.
  `StoppedOwesNothing` needs `Leftovers`, and that what admission control has reserved
  is what the leases hold (`LeasesExact`): otherwise stop would leave the runtime
  Failed. The first module has one lemma for each
  action, the second the theorems.
- `Protocol_proofs`: `DecodersAgree` (message by message, the two decoders accept the
  same objects, and the client those of them it expects), `DecodedIsWritable` (each of
  those is what `encodePayload` writes for some struct that `validate` lets through),
  and from the two `CodecsAgreeAlways`, for any payload and any struct;
  `StagesAgreeAlways`, whose invariant says of what each stage has let through that the
  next accepts it, with a lemma for each stage; and, of the two together,
  `SentIsUnderstoodAlways`: the Worker never refuses as malformed what the Gateway
  sends for a chat completion.
- `Sums_proofs`: what a sum does when an element or a value changes. Sums are
  cardinalities of disjoint unions, so no induction over data is needed.

Only model-checked: `RuntimeBridge`, `GenerationClient`, `GatewaySession`,
`IpcSession`, `Framing` (recursive), `ChatResponse`; `NoOvertaking` of the egress; and
all liveness (fairness and `ENABLED` are out of the prover's reach, as is induction
over recursive definitions). `ReusableAfterRelease` is the property the code violates.

## Abstractions

- Allocation failures, failures to start a thread, and exceptions of locks are not
  modelled. A start that fails leaves the runtime as it was, and is no step.
- What the validation in submit rejects changes no state and is no step in
  `GenerationRuntime`; a request that only the backend refuses is `refuse`. The SLO
  policy may reject any request; which ones is left open.
- Timeouts, invalid finish reasons and executor errors are all "Error" in the
  runtime: the code treats them alike but for the status it reports.
- Branches the code has but no run reaches are not actions; properties say so:
  AlreadyCommitted and MailboxRejected (`Bookkeeping`), a runtime that fails to stop
  or to reopen (`StoppedOwesNothing`), a bridge pump without its queue, which
  failFromPump is for (`WireFaithful`), exceptions of `_pump` beyond the decoder's
  (the handle's promise).
- `GenerationMailbox::close` has no caller outside the tests.
- 64-bit counters are natural numbers: `Bookkeeping` shows that none goes below
  zero, the limits bound what is queued and reserved, and sequence numbers are
  taken not to reach 2^64. In the codecs widths matter and are kept.
- In the client, `_fail` gives all requests of a connection their Terminals in one
  step, after the step in which it takes them from `_requests`. A cancel in
  `GatewaySession` is sent or not by whether the client still has the request; how the
  client comes to that is `GenerationClient`. Whether a frame fits
  its limit is a free choice where the model has no bytes (`Oversized`, `fits`).
- JSON text is external: numbers such as -0, duplicate keys, lone surrogates and
  nesting are not told apart, and strings are valid UTF-8, so that `dump()` does not
  throw. `float()` of a huge integer raises OverflowError,
  which the parser does not catch: verdict "uncaught".
- A fingerprint is a value; the digest is not computed. Metrics are counters and
  gauges; latency sums and the text of `/metrics` are left out.

## Not modelled

- Of the **UDS transport**: connecting, listening, socket files, the waits for Ready
  and Closed (they change nothing), and the limit of a session's queue in bytes,
  which acts as the one in frames does. The bridge takes from `IpcSession` that
  messages arrive in order until the session closes.
- **WorkerServer**: one session at a time, so its accept and reap loop is sequential
  around the bridge; the rest is socket files.
- **SloAdmissionPolicy**: floating-point interpolation in a calibrated table, a pure
  function whose verdict is left open.
- Of the Gateway: `/healthz` and `/v1/models` (constant answers), reading a body up to
  its limit, the command line, resolving paths. Of the bridge: `start`, the numeric
  checks of convertSubmit, statistics. Building executor requests and iteration
  statistics of the backend.
- The programs under `src/apps`, and the benchmarks: command lines, files, signals
  and measurements around what is modelled.

Hazards covered by no property: the SLO policy judges a snapshot that concurrent
submits have changed by the time `tryAcquire` runs (`generation_runtime.cpp:211`); a
session that fails while a new connection arrives (`worker_server.cpp:431`); after a
failure of the response pump Health still reports ready (`runtime_bridge.cpp:525`).

## Plan

1. Client, session and bridge composed over a connection that may break.
2. Proofs of the invariants of `GenerationClient` (`RequestsAccounted`,
   `ConnectionsKeptApart`).
