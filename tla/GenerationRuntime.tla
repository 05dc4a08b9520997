------------------------- MODULE GenerationRuntime -------------------------
(***************************************************************************)
(* The generation runtime with its TensorRT-LLM backend:                   *)
(* src/runtime/generation_runtime.cpp composes Admission and the requests  *)
(* of RequestState with src/backends/trtllm/trtllm_executor_backend.cpp.   *)
(*                                                                         *)
(* Callers submit and cancel, one thread may stop the runtime, the         *)
(* backend's response pump turns responses of the executor into deltas and *)
(* Terminals, and a consumer per request drains its mailbox.  submit and   *)
(* cancel share lifecycleMutex_, start and stop own it; mutex_ guards the  *)
(* tables of the backend.  The executor is a library: it is modelled by    *)
(* the responses the backend handles, in any order and number.             *)
(*                                                                         *)
(* Steps are as long as the locks allow: what happens between two locks    *)
(* that no other thread can observe is part of the step before it.         *)
(***************************************************************************)
EXTENDS Integers, Sequences, FiniteSets

CONSTANTS
    Jobs, request_id, input_tokens, output_tokens,
    max_active_requests, max_total_input_tokens, max_reserved_output_tokens,
    max_queued_deltas, max_queued_tokens, MaxTokens,
    sloPolicy,              \* is an SLO policy configured?
    Silent,                 \* bound: requests the executor ends without a token
    Nobody                  \* no request

\* What submit has validated of its requests, and the constructors of their limits;
\* the assumptions of Admission and RequestState among it.
ASSUME ConfigValid ==
    /\ Nobody \notin Jobs /\ IsFiniteSet(Jobs)
    /\ \A j \in Jobs : input_tokens[j] \in Nat \ {0} /\ output_tokens[j] \in Nat \ {0}
    /\ \A limit \in {max_active_requests, max_total_input_tokens, max_reserved_output_tokens,
                     max_queued_deltas, max_queued_tokens} : limit \in Nat \ {0}
    /\ MaxTokens \in Nat

VARIABLES
    accepting, active_request_ids, reserved_input_tokens, reserved_output_tokens, leases,
    phase, nextSequenceNo, completionTokens, finalizing,
    deltas, queuedTokens, terminal, terminalCommitted, closed, seen,
    runtime_state,          \* state_ of the runtime
    submit,                 \* how far each call of submit is
    backend_state,          \* state_ of the backend
    requests, externalToExecutor,   \* its tables; a job stands for its RequestState
    thread,                 \* the response pump and the thread in stop
    executing, told, generated,     \* the executor: jobs it runs, those it was told to
                            \* cancel, tokens it has produced
    cancelled               \* history: jobs that cancel or stop moved to Cancelling

Statuses == {"Ok", "Cancelled", "Backpressure", "Error"}

Adm == INSTANCE Admission
Req == INSTANCE RequestState

admission == <<accepting, active_request_ids, reserved_input_tokens, reserved_output_tokens,
               leases>>
request == <<phase, nextSequenceNo, completionTokens, finalizing, deltas, queuedTokens, terminal,
             terminalCommitted, closed, seen>>
tables == <<backend_state, requests, externalToExecutor>>
executor == <<executing, told, generated>>
vars == <<admission, request, runtime_state, submit, tables, thread, executor, cancelled>>

Ids == {request_id[j] : j \in Jobs}

\* A thread is at a place in the code with a request, its response and the status
\* to finalize it with; where it goes on afterwards, and the requests still to do.
Idle == [at |-> "exited", job |-> Nobody, tokens |-> 0, end |-> "more", status |-> "none",
         then |-> "exited", todo |-> {}]

Init ==
    /\ Adm!Init /\ Req!Init
    /\ runtime_state = "Stopped"
    /\ submit = [j \in Jobs |-> "new"]
    /\ backend_state = "Stopped"
    /\ requests = {}
    /\ externalToExecutor = [id \in Ids |-> Nobody]
    /\ thread = [t \in {"pump", "stop"} |-> Idle]
    /\ executing = {} /\ told = {}
    /\ generated = [j \in Jobs |-> 0]
    /\ cancelled = {}

At(t, place) == thread[t].at = place

\* On to another place; back in its loop, or gone, a thread has no locals.
Goto(t, place) ==
    thread' = [thread EXCEPT ![t] = [IF place \in {"await", "exited"} THEN Idle ELSE @
                                        EXCEPT !.at = place]]

\* lifecycleMutex_: free for start and stop, or shared.
Exclusive == ~At("stop", "exited")
Shared == \E j \in Jobs : submit[j] \in {"admitted", "enqueued", "refused"}

\* mutex_ is held across enqueueRequest, and while stop marks the requests.
MutexFree == ~At("stop", "marking") /\ \A j \in Jobs : submit[j] # "enqueued"

-----------------------------------------------------------------------------
(* GenerationRuntime::start, submit and cancel, with the backend's parts. *)

\* The backend's start: the executor comes up and the pump thread starts.  When
\* either fails, resetAfterFailedStart leaves everything as it was.
startBackend ==
    /\ backend_state = "Stopped"
    /\ requests = {}
    /\ \A id \in Ids : externalToExecutor[id] = Nobody
    /\ backend_state' = "Running"
    /\ Goto("pump", "check")
    /\ UNCHANGED <<requests, externalToExecutor, executor>>

start ==
    /\ ~Exclusive /\ ~Shared
    /\ runtime_state = "Stopped"
    /\ startBackend
    /\ Adm!open
    /\ runtime_state' = "Running"
    /\ UNCHANGED <<request, submit, cancelled>>

\* submit with its shared lock up to the mailbox that owns the lease.
admit(j) ==
    /\ submit[j] = "new"
    /\ ~Exclusive
    /\ runtime_state = "Running"
    /\ Adm!tryAcquire(j)
    /\ submit' = [submit EXCEPT ![j] = "admitted"]
    /\ UNCHANGED <<request, runtime_state, tables, thread, executor, cancelled>>

\* Not running, predicted to miss its SLO, or refused by admission control.
reject(j) ==
    /\ submit[j] = "new"
    /\ ~Exclusive
    /\ runtime_state # "Running" \/ sloPolicy \/ Adm!Refused(j)
    /\ submit' = [submit EXCEPT ![j] = "rejected"]
    /\ UNCHANGED <<admission, request, runtime_state, tables, thread, executor, cancelled>>

\* The backend's submit: from enqueueRequest on the executor may respond.
enqueueRequest(j) ==
    /\ submit[j] = "admitted"
    /\ MutexFree
    /\ backend_state = "Running"
    /\ externalToExecutor[request_id[j]] = Nobody
    /\ executing' = executing \cup {j}
    /\ submit' = [submit EXCEPT ![j] = "enqueued"]
    /\ UNCHANGED <<admission, request, runtime_state, tables, thread, told, generated,
                   cancelled>>

\* The backend finds the request invalid or late, is not running, knows the id, or
\* enqueueRequest throws: it may refuse at any time.
refuse(j) ==
    /\ submit[j] = "admitted"
    /\ MutexFree
    /\ submit' = [submit EXCEPT ![j] = "refused"]
    /\ UNCHANGED <<admission, request, runtime_state, tables, thread, executor, cancelled>>

\* The RequestState enters both tables, mutex_ is released, submit returns Ok.
register(j) ==
    /\ submit[j] = "enqueued"
    /\ Req!create(j)
    /\ requests' = requests \cup {j}
    /\ externalToExecutor' = [externalToExecutor EXCEPT ![request_id[j]] = j]
    /\ submit' = [submit EXCEPT ![j] = "accepted"]
    /\ UNCHANGED <<admission, runtime_state, backend_state, thread, executor, cancelled>>

\* A plausible bug: the lease does not go with the mailbox.
dropMailbox_LeaseKept(j) ==
    /\ submit[j] = "refused"
    /\ submit' = [submit EXCEPT ![j] = "rejected"]
    /\ UNCHANGED <<admission, request, runtime_state, tables, thread, executor, cancelled>>

\* submit returns the backend's failure; the mailbox is destroyed with its lease.
dropMailbox(j) ==
    /\ submit[j] = "refused"
    /\ Adm!release(j)
    /\ submit' = [submit EXCEPT ![j] = "rejected"]
    /\ UNCHANGED <<request, runtime_state, tables, thread, executor, cancelled>>

\* The backend's cancel, under mutex_; nothing when the id is unknown, or its
\* request already Cancelling or ended.  Being told commits the executor to nothing.
cancelInBackend(id) ==
    /\ MutexFree
    /\ externalToExecutor[id] # Nobody
    /\ LET j == externalToExecutor[id] IN
       /\ Req!markCancelling(j)
       /\ told' = told \cup ({j} \cap executing)
       /\ cancelled' = cancelled \cup {j}

cancel(id) ==
    /\ ~Exclusive
    /\ runtime_state = "Running"
    /\ cancelInBackend(id)
    /\ UNCHANGED <<admission, runtime_state, submit, tables, thread, executing, generated>>

-----------------------------------------------------------------------------
(* The response pump: pumpResponses and handleResponse. *)

\* A plausible bug: the pump runs until the backend has stopped.
StillRunning_UntilStopped == backend_state # "Stopped"

StillRunning == backend_state = "Running"

\* while (isRunning())
isRunning ==
    /\ At("pump", "check")
    /\ MutexFree
    /\ Goto("pump", IF StillRunning THEN "await" ELSE "exited")
    /\ UNCHANGED <<admission, request, runtime_state, submit, tables, executor, cancelled>>

\* The batch of awaitResponses is handled, or it was empty.
batchDone ==
    /\ At("pump", "await")
    /\ Goto("pump", "check")
    /\ UNCHANGED <<admission, request, runtime_state, submit, tables, executor, cancelled>>

\* What the executor may say of a job: tokens and more to come; a proper end;
\* "invalid", an end by timeout or without a valid finish reason, which is finalized
\* with a status that is an error too; an error; several beams.
Ends(j) == {"more", "Ok", "invalid", "error", "beams"} \cup
           {c \in {"Cancelled"} : j \in told}

\* Plausible bugs: findRequest does not wait for mutex_; it finds the request that
\* now has the id; finish reasons are mixed up.
LookupReady_Racy == TRUE
findRequest_ById(j) == externalToExecutor[request_id[j]]
StatusOf_Unfinished(end) ==
    IF end = "Ok" THEN end ELSE IF end \in {"invalid", "Cancelled"} THEN "Cancelled" ELSE "Error"

LookupReady == MutexFree

\* A response for a request that is not in the table (any more) is ignored.
findRequest(j) == IF j \in requests THEN j ELSE Nobody

\* The status handleResponse finalizes with (toFinishReason, statusForFinishReason).
StatusOf(end) == IF end \in {"Ok", "Cancelled"} THEN end ELSE "Error"

\* The next response of the batch, and findRequest.
response(j, n, end) ==
    /\ At("pump", "await")
    /\ LookupReady
    /\ j \in executing
    /\ IF end \in {"more", "beams"}
         THEN UNCHANGED <<executing, told>>
         ELSE executing' = executing \ {j} /\ told' = told \ {j}
    /\ generated' = [generated EXCEPT ![j] = @ + n]
    /\ thread' = [thread EXCEPT !["pump"] =
                     IF findRequest(j) # Nobody
                       THEN [@ EXCEPT !.at = "found", !.job = findRequest(j), !.tokens = n,
                                      !.end = end, !.status = StatusOf(end), !.then = "await"]
                       ELSE @]
    /\ UNCHANGED <<admission, request, runtime_state, submit, tables, cancelled>>

\* A plausible bug: markRunning does not look at the phase.
markRunning_Always(j) ==
    /\ phase' = [phase EXCEPT ![j] = "Running"]
    /\ UNCHANGED <<nextSequenceNo, completionTokens, finalizing, deltas, queuedTokens, terminal,
                   terminalCommitted, closed, seen>>

markRunning(j) == IF phase[j] = "Accepted" THEN Req!markRunning(j) ELSE UNCHANGED request

\* An error or a wrong number of beams ends the request; else markRunning.
found ==
    /\ At("pump", "found")
    /\ \/ /\ thread["pump"].end = "error"
          /\ Goto("pump", "finalize")
          /\ UNCHANGED request
       \/ /\ thread["pump"].end = "beams"
          /\ thread' = [thread EXCEPT !["pump"].at = "mark", !["pump"].then = "tell"]
          /\ UNCHANGED request
       \/ /\ thread["pump"].end \notin {"error", "beams"}
          /\ Goto("pump", "commit")
          /\ markRunning(thread["pump"].job)
    /\ UNCHANGED <<admission, runtime_state, submit, tables, executor, cancelled>>

\* After the tokens: the end of the request, or of this response.
AfterTokens == IF thread["pump"].end = "more" THEN "await" ELSE "finalize"

\* tryCommitDelta, and what follows from each answer.
commit ==
    /\ At("pump", "commit")
    /\ LET j == thread["pump"].job
           n == thread["pump"].tokens IN
       \/ /\ n = 0 \/ phase[j] = "Cancelling"
          /\ Goto("pump", AfterTokens)
          /\ UNCHANGED request
       \/ /\ n > 0
          /\ Req!tryCommitDelta(j, n)
          /\ Goto("pump", AfterTokens)
       \/ /\ n > 0
          /\ Req!Backpressure(j, n)
          /\ thread' = [thread EXCEPT !["pump"].at = "mark", !["pump"].then = "tell",
                                      !["pump"].status = "Backpressure"]
          /\ UNCHANGED request
    /\ UNCHANGED <<admission, runtime_state, submit, tables, executor, cancelled>>

\* markCancelling before the pump itself ends a request.
mark ==
    /\ At("pump", "mark")
    /\ Goto("pump", "finalize")
    /\ LET j == thread["pump"].job IN
       IF Req!Live(j) THEN Req!markCancelling(j) ELSE UNCHANGED request
    /\ UNCHANGED <<admission, runtime_state, submit, tables, executor, cancelled>>

\* finalizeRequest, by the pump or by stop: the Terminal is in the mailbox ...
finalize(t) ==
    /\ At(t, "finalize")
    /\ Req!pushTerminal(thread[t].job, thread[t].status)
    /\ Goto(t, "finalizing")
    /\ UNCHANGED <<admission, runtime_state, submit, tables, executor, cancelled>>

\* ... the lease is back ...
finalized(t) ==
    /\ At(t, "finalizing")
    /\ Req!endFinalize(thread[t].job)
    /\ Adm!release(thread[t].job)
    /\ Goto(t, "erase")
    /\ UNCHANGED <<runtime_state, submit, tables, executor, cancelled>>

\* A plausible bug: only one of the two tables is cleaned.
eraseRequest_IdKept(t) ==
    /\ At(t, "erase")
    /\ MutexFree
    /\ requests' = requests \ {thread[t].job}
    /\ Goto(t, thread[t].then)
    /\ UNCHANGED <<admission, request, runtime_state, submit, backend_state,
                   externalToExecutor, executor, cancelled>>

\* ... and the tables forget the request.
eraseRequest(t) ==
    /\ At(t, "erase")
    /\ MutexFree
    /\ requests' = requests \ {thread[t].job}
    /\ externalToExecutor' = [externalToExecutor EXCEPT ![request_id[thread[t].job]] = Nobody]
    /\ Goto(t, thread[t].then)
    /\ UNCHANGED <<admission, request, runtime_state, submit, backend_state, executor,
                   cancelled>>

cancelExecutorRequest ==
    /\ At("pump", "tell")
    /\ MutexFree
    /\ told' = told \cup ({thread["pump"].job} \cap executing)
    /\ Goto("pump", "await")
    /\ UNCHANGED <<admission, request, runtime_state, submit, tables, executing, generated,
                   cancelled>>

\* awaitResponses throws.
throw ==
    /\ At("pump", "await")
    /\ Goto("pump", "failing")
    /\ UNCHANGED <<admission, request, runtime_state, submit, tables, executor, cancelled>>

\* A plausible bug: the pump leaves its requests behind.
Leftover_None == {}

\* snapshotRequests
Leftover == requests

\* markFailed; when stop has been called the leftovers are up to stop.
markFailed ==
    /\ At("pump", "failing")
    /\ MutexFree
    /\ \/ /\ backend_state = "Running"
          /\ backend_state' = "Failed"
          /\ thread' = [thread EXCEPT !["pump"].at = "finalizeAll", !["pump"].todo = Leftover]
       \/ /\ backend_state # "Running"
          /\ Goto("pump", "exited")
          /\ UNCHANGED backend_state
    /\ UNCHANGED <<admission, request, runtime_state, submit, requests, externalToExecutor,
                   executor, cancelled>>

\* finalizeAll of the pump, and the same loop in stop: the next request, or done.
finalizeAll(t, status, done) ==
    /\ At(t, "finalizeAll")
    /\ \/ \E j \in thread[t].todo :
            thread' = [thread EXCEPT ![t] = [@ EXCEPT !.at = "finalize", !.job = j, !.status = status,
                                                      !.then = "finalizeAll",
                                                      !.todo = thread[t].todo \ {j}]]
       \/ thread[t].todo = {} /\ Goto(t, done)
    /\ UNCHANGED <<admission, request, runtime_state, submit, tables, executor, cancelled>>

-----------------------------------------------------------------------------
(* GenerationRuntime::stop, with the backend's stop. *)

\* A plausible bug: stop clears the budgets and leaves the leases out.
stop_Resets ==
    /\ ~Exclusive /\ ~Shared
    /\ runtime_state # "Stopped"
    /\ accepting' = FALSE /\ active_request_ids' = {}
    /\ reserved_input_tokens' = 0 /\ reserved_output_tokens' = 0
    /\ Goto("stop", "stopping")
    /\ UNCHANGED <<leases, request, runtime_state, submit, tables, executor, cancelled>>

stop ==
    /\ ~Exclusive /\ ~Shared
    /\ runtime_state # "Stopped"
    /\ Adm!close
    /\ Goto("stop", "stopping")
    /\ UNCHANGED <<request, runtime_state, submit, tables, executor, cancelled>>

\* The backend refuses from here on; mutex_ is held until all are marked.
stopping ==
    /\ At("stop", "stopping")
    /\ MutexFree
    /\ backend_state' = "Stopping"
    /\ thread' = [thread EXCEPT !["stop"].at = "marking", !["stop"].todo = requests]
    /\ UNCHANGED <<admission, request, runtime_state, submit, requests, externalToExecutor,
                   executor, cancelled>>

marking ==
    /\ At("stop", "marking")
    /\ \/ \E j \in thread["stop"].todo :
            /\ thread' = [thread EXCEPT !["stop"].todo = @ \ {j}]
            /\ \/ Req!markCancelling(j) /\ cancelled' = cancelled \cup {j}
               \/ ~finalizing[j] /\ ~Req!Live(j) /\ UNCHANGED <<request, cancelled>>
       \/ /\ thread["stop"].todo = {}
          /\ Goto("stop", "cancelling")
          /\ UNCHANGED <<request, cancelled>>
    /\ UNCHANGED <<admission, runtime_state, submit, tables, executor>>

\* cancelRequest for each one marked (the others were told by cancel).
stopCancelling ==
    /\ At("stop", "cancelling")
    /\ told' = told \cup (cancelled \cap executing)
    /\ Goto("stop", "shutdown")
    /\ UNCHANGED <<admission, request, runtime_state, submit, tables, executing, generated,
                   cancelled>>

shutdown ==
    /\ At("stop", "shutdown")
    /\ executing' = {} /\ told' = {}
    /\ Goto("stop", "join")
    /\ UNCHANGED <<admission, request, runtime_state, submit, tables, generated, cancelled>>

\* A plausible bug: stop does not wait for the pump.
PumpJoined_Never == TRUE

PumpJoined == At("pump", "exited")

join ==
    /\ At("stop", "join")
    /\ PumpJoined
    /\ thread' = [thread EXCEPT !["stop"].at = "finalizeAll", !["stop"].todo = Leftover]
    /\ UNCHANGED <<admission, request, runtime_state, submit, tables, executor, cancelled>>

\* The executor is destroyed; stop returns, and lifecycleMutex_ is free.
stopped ==
    /\ At("stop", "reset")
    /\ backend_state' = IF requests = {} /\ \A id \in Ids : externalToExecutor[id] = Nobody
                          THEN "Stopped" ELSE "Failed"
    /\ runtime_state' = IF Adm!NothingReserved THEN "Stopped" ELSE "Failed"
    /\ Goto("stop", "exited")
    /\ UNCHANGED <<admission, request, submit, requests, externalToExecutor, executor,
                   cancelled>>

-----------------------------------------------------------------------------
\* The owner of an accepted request drains its mailbox.
waitPop(j) ==
    /\ submit[j] = "accepted"
    /\ Req!waitPopDelta(j) \/ Req!waitPopTerminal(j)
    /\ UNCHANGED <<admission, runtime_state, submit, tables, thread, executor, cancelled>>

Submit(j) == admit(j) \/ reject(j) \/ enqueueRequest(j) \/ refuse(j) \/ register(j) \/ dropMailbox(j)

Room(j) == IF j \in Silent THEN 0 ELSE MaxTokens - generated[j]
Response(j) == \E n \in 0..Room(j), end \in Ends(j) : response(j, n, end)

LastResponse(j) ==
    \E n \in 0..Room(j), end \in Ends(j) \ {"more", "beams"} :
        response(j, n, end)

Finalization(t) == finalize(t) \/ finalized(t) \/ eraseRequest(t)

Pump ==
    \/ isRunning \/ batchDone \/ found \/ commit \/ mark \/ cancelExecutorRequest \/ markFailed
    \/ Finalization("pump") \/ finalizeAll("pump", "Error", "exited")

Stop ==
    \/ stopping \/ marking \/ stopCancelling \/ shutdown \/ join \/ stopped
    \/ Finalization("stop") \/ finalizeAll("stop", "Cancelled", "reset")

Next ==
    \/ start \/ stop \/ throw
    \/ \E j \in Jobs : Submit(j) \/ Response(j) \/ waitPop(j)
    \/ \E id \in Ids : cancel(id)
    \/ Pump \/ Stop

Spec == Init /\ [][Next]_vars

\* Threads run; the executor, which has the token limit and the deadline, ends every
\* request at last; consumers keep reading.
Fairness ==
    /\ WF_vars(Pump) /\ WF_vars(Stop)
    /\ \A j \in Jobs :
          /\ WF_vars(waitPop(j))
          /\ WF_vars(register(j)) /\ WF_vars(dropMailbox(j))
          /\ WF_vars(submit[j] = "admitted" /\ (enqueueRequest(j) \/ refuse(j)))
          /\ SF_vars(LastResponse(j))

LiveSpec == Spec /\ Fairness

-----------------------------------------------------------------------------
Places == {"exited", "check", "await", "found", "commit", "mark", "finalize", "finalizing",
           "erase", "tell", "failing", "finalizeAll", "stopping", "marking", "cancelling",
           "shutdown", "join", "reset"}

\* The fields have their types; a thread that finalizes has a status to do it with.
TypeOK ==
    /\ runtime_state \in {"Stopped", "Running", "Failed"}
    /\ backend_state \in {"Stopped", "Running", "Stopping", "Failed"}
    /\ submit \in [Jobs -> {"new", "admitted", "enqueued", "refused", "accepted", "rejected"}]
    /\ requests \subseteq Jobs /\ executing \subseteq Jobs /\ told \subseteq Jobs
    /\ cancelled \subseteq Jobs
    /\ externalToExecutor \in [Ids -> Jobs \cup {Nobody}]
    /\ generated \in [Jobs -> 0..MaxTokens]
    /\ \A t \in DOMAIN thread :
          /\ thread[t].at \in Places
          /\ thread[t].at = "finalize" => thread[t].job \in Jobs /\ thread[t].status \in Statuses

\* A lease is held exactly by the calls of submit under way and by the accepted
\* requests that have no Terminal: every way to end gives it back once.
LeaseWhileLive ==
    \A j \in Jobs :
        j \in leases <=> \/ submit[j] \in {"admitted", "enqueued", "refused"}
                         \/ submit[j] = "accepted" /\ phase[j] # "Terminal"

\* The backend knows each accepted request, by both ids, until it has ended; it
\* knows nobody else, except the one being erased.
TablesTrackRequests ==
    /\ \A j \in Jobs : submit[j] = "accepted" /\ phase[j] # "Terminal" => j \in requests
    /\ \A j \in requests : /\ externalToExecutor[request_id[j]] = j
                           /\ \/ phase[j] # "Terminal"
                              \/ \E t \in DOMAIN thread : At(t, "erase") /\ thread[t].job = j
    /\ \A id \in Ids : externalToExecutor[id] # Nobody => externalToExecutor[id] \in requests

\* finalize is called once per request: neither AlreadyCommitted nor a refusal by
\* the mailbox ever comes back, and tryCommitDelta never finds a Terminal.
FinalizedOnce ==
    /\ \A t \in DOMAIN thread :
          At(t, "finalize") => /\ phase[thread[t].job] # "Terminal"
                               /\ ~finalizing[thread[t].job]
                               /\ ~terminalCommitted[thread[t].job]
    /\ At("pump", "commit") => phase[thread["pump"].job] # "Terminal"

\* The lease, the tables and the phase of a request agree between any two steps
\* of the pump, of submit, of cancel and of stop.
Bookkeeping == TypeOK /\ LeaseWhileLive /\ TablesTrackRequests /\ FinalizedOnce

\* A stopped runtime owes nothing: no lease, no request in a table, every accepted
\* request has its Terminal, and start can open admission.  It never fails.
StoppedOwesNothing ==
    /\ runtime_state # "Failed"
    /\ runtime_state = "Stopped" =>
          /\ backend_state = "Stopped"
          /\ requests = {} /\ leases = {} /\ Adm!NothingReserved
          /\ \A j \in Jobs : submit[j] = "accepted" => terminalCommitted[j]

\* A request that ends well and was not cancelled has delivered every token the
\* executor produced: none is lost to a response that came too early or too late.
\* One that ends as Cancelled was cancelled, or stopped.
OkMeansComplete ==
    \A j \in Jobs :
        /\ terminal[j].status = "Ok" /\ j \notin cancelled => terminal[j].usage = generated[j]
        /\ terminal[j].status = "Cancelled" => j \in cancelled

\* The runtime uses admission control and the requests as their own
\* specifications allow.
ImplementsAdmission == Adm!Spec
ImplementsRequests == Req!Spec

\* Duplicate ids are admission control's to refuse (as AlreadyExists), so an id whose
\* lease is back can be used again: no call that admission control let through finds
\* its id still in the backend's table, which the backend refuses as InvalidInput.
ReusableAfterRelease ==
    \A j \in Jobs : submit[j] = "admitted" => externalToExecutor[request_id[j]] = Nobody

\* Every accepted request comes to its Terminal, and its consumer gets it.
AcceptedEnds == \A j \in Jobs : submit[j] = "accepted" ~> seen[j].ended

\* stop returns.
StopReturns == Exclusive ~> ~Exclusive

====
