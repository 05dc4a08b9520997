-------------------- MODULE GenerationRuntimeSteps_proofs --------------------
(***************************************************************************)
(* The inductive invariant of the generation runtime, that every step      *)
(* preserves it, and that every step is one its parts allow.               *)
(* GenerationRuntime_proofs has the theorems.                              *)
(*                                                                         *)
(* Each lemma starts with what holds before the step and with what the     *)
(* action does; these steps have no name, and all steps after them use     *)
(* them.  Then it takes the conjuncts of the invariant that the action can *)
(* disturb one by one; Untouched has the others.                           *)
(***************************************************************************)
EXTENDS GenerationRuntime, TLAPS

\* The SMT backend infers the types of an obligation before it encodes it, which takes
\* longer with every obligation of a module.  It has no type for an EXCEPT on a record:
\* with this fact at hand it encodes without types.
LEMMA RecordUpdate == \A r \in [at : {0}] : [r EXCEPT !.at = 0] = r
BY SMT

USE RecordUpdate, SMTT(40)

\* The two threads that end requests.
pump == thread["pump"]
stopper == thread["stop"]

\* How a response ends, and the locals of a thread.
Finishes == {"more", "Ok", "invalid", "error", "beams", "Cancelled"}
Locals == [at : Places, job : Jobs \cup {Nobody}, tokens : Nat, end : Finishes,
           status : Statuses \cup {"none"}, then : Places, todo : SUBSET Jobs]

\* The variables but thread, which Threads has: few steps need its type.
Types ==
    /\ runtime_state \in {"Stopped", "Running", "Failed"}
    /\ backend_state \in {"Stopped", "Running", "Stopping", "Failed"}
    /\ submit \in [Jobs -> {"new", "admitted", "enqueued", "refused", "accepted", "rejected"}]
    /\ requests \subseteq Jobs /\ executing \subseteq Jobs /\ told \subseteq Jobs
    /\ cancelled \subseteq Jobs /\ leases \subseteq Jobs
    /\ externalToExecutor \in [Ids -> Jobs \cup {Nobody}]
    /\ generated \in [Jobs -> 0..MaxTokens]
    /\ phase \in [Jobs -> {"None", "Accepted", "Running", "Cancelling", "Terminal"}]
    /\ finalizing \in [Jobs -> BOOLEAN] /\ terminalCommitted \in [Jobs -> BOOLEAN]
    /\ completionTokens \in [Jobs -> Nat]

Threads == thread \in [{"pump", "stop"} -> Locals]

\* Places of a thread that is ending a request, and of one that has one in hand.
Ending == {"finalize", "finalizing", "erase"}
Holding == {"found", "commit", "mark"} \cup Ending
Clearing == {"finalizeAll"} \cup Ending
Unended == {"Accepted", "Running", "Cancelling"}

\* Where the threads can be: stop keeps submit out, and finalizes only when the
\* pump is gone; a stopped runtime has no thread and no request.
Control ==
    /\ pump.at \in {"exited", "check", "await", "tell", "failing", "finalizeAll"} \cup Holding
    /\ stopper.at \in {"exited", "stopping", "marking", "cancelling", "shutdown", "join", "reset"}
                      \cup Clearing
    /\ pump.at \in {"found", "commit"} => pump.then = "await"
    /\ pump.at = "mark" => pump.then = "tell"
    /\ pump.at \in Ending => pump.then \in {"await", "tell", "finalizeAll"}
    /\ stopper.at \in Ending => stopper.then = "finalizeAll"
    /\ stopper.at \in {"reset"} \cup Clearing => pump.at = "exited"
    /\ stopper.at # "exited" => ~Shared
    /\ runtime_state # "Running" => /\ pump.at = "exited" /\ stopper.at = "exited"
                                    /\ backend_state = "Stopped" /\ requests = {} /\ ~Shared

\* One call at a time is between enqueueRequest and its tables, and its id is free.
Enqueuing ==
    /\ \A i, j \in Jobs : submit[i] = "enqueued" /\ submit[j] = "enqueued" => i = j
    /\ \A j \in Jobs : submit[j] = "enqueued" =>
          backend_state = "Running" /\ externalToExecutor[request_id[j]] = Nobody
    /\ \A j \in executing : submit[j] \in {"enqueued", "accepted"}

At1(th, place, j) == th.at = place /\ th.job = j

\* The phase of a request: it has one from register on, and a Terminal from the
\* first half of finalize on, which one thread is in.
Phased ==
    \A j \in Jobs :
       /\ submit[j] = "accepted" <=> phase[j] # "None"
       /\ terminalCommitted[j] <=> finalizing[j] \/ phase[j] = "Terminal"
       /\ finalizing[j] => /\ phase[j] \in Unended
                           /\ At1(pump, "finalizing", j) \/ At1(stopper, "finalizing", j)

\* TablesTrackRequests, and that the ids are those of the requests.
Tables ==
    /\ \A j \in requests :
          /\ submit[j] = "accepted" /\ externalToExecutor[request_id[j]] = j
          /\ phase[j] = "Terminal" => At1(pump, "erase", j) \/ At1(stopper, "erase", j)
    /\ \A j \in Jobs : submit[j] = "accepted" /\ phase[j] # "Terminal" => j \in requests
    /\ \A id \in Ids : externalToExecutor[id] # Nobody =>
          externalToExecutor[id] \in requests /\ request_id[externalToExecutor[id]] = id

\* The request a thread has in hand has not ended, but for what the thread did.
HeldBy(th) ==
    /\ th.at \in Holding => th.job \in requests
    /\ th.at \in Holding \ {"erase"} => phase[th.job] \in Unended
    /\ th.at \in Holding => (finalizing[th.job] <=> th.at = "finalizing")
    /\ th.at = "erase" => phase[th.job] = "Terminal"
    /\ th.at \in {"finalize", "finalizing"} => th.status \in Statuses
    /\ th.at = "tell" => th.job \in Jobs /\ phase[th.job] = "Terminal"

Held == HeldBy(pump) /\ HeldBy(stopper)

\* A thread in finalizeAll has all requests that are left.
LeftTo(th) ==
    /\ th.at = "finalizeAll" => requests = th.todo
    /\ th.at \in Ending /\ th.then = "finalizeAll" =>
          requests = th.todo \cup {th.job} /\ th.job \notin th.todo

Leftovers ==
    /\ LeftTo(pump) /\ LeftTo(stopper)
    /\ pump.at = "finalizeAll" \/ (pump.at \in Ending /\ pump.then = "finalizeAll") =>
          backend_state # "Running"
    /\ stopper.at = "reset" => requests = {}

\* stop has marked every request before it finalizes the first.
Marked ==
    /\ stopper.at = "marking" => \A j \in requests \ stopper.todo : ~Req!Live(j)
    /\ stopper.at \in {"cancelling", "shutdown", "join"} \cup Clearing =>
          \A j \in requests : ~Req!Live(j)
    /\ stopper.at \in Clearing => stopper.todo \subseteq cancelled
    /\ stopper.at \in Ending => stopper.status = "Cancelled" /\ stopper.job \in cancelled

\* Tokens the pump has in hand, and whether it is about to end j with an error.
Pending(j) == IF pump.at \in {"found", "commit"} /\ pump.job = j THEN pump.tokens ELSE 0
Doomed(j) ==
    /\ pump.at \in {"mark", "finalize", "finalizing"} /\ pump.job = j
    /\ pump.status \in {"Error", "Backpressure"}

\* What the executor has produced is committed or in the hands of the pump, unless
\* the request is cancelled or about to end with an error.
Counted ==
    \A j \in Jobs :
       /\ completionTokens[j] + Pending(j) <= generated[j]
       /\ phase[j] = "None" => generated[j] = 0
       /\ Req!Live(j) /\ ~finalizing[j] /\ ~Doomed(j) =>
             completionTokens[j] + Pending(j) = generated[j]

\* Who is Cancelling, or known to the executor as cancelled, was cancelled.
Cancels ==
    /\ \A j \in Jobs : phase[j] = "Cancelling" => j \in cancelled \/ Doomed(j)
    /\ \A j \in told : j \in cancelled \/ phase[j] = "Terminal"

\* The status the pump has for the request it holds.
Ended ==
    /\ pump.at \in {"found", "commit"} => pump.status = StatusOf(pump.end)
    /\ pump.at = "mark" => pump.status \in {"Error", "Backpressure"}
    /\ pump.at \in Holding /\ pump.status = "Ok" => pump.job \notin executing
    /\ pump.at \in Holding /\ pump.status = "Cancelled" => pump.job \in cancelled

Complete ==
    /\ terminal \in [Jobs -> [status : Statuses \cup {"none"}, usage : Nat]]
    /\ OkMeansComplete
    /\ \A j \in Jobs : terminal[j].status = "Ok" => j \notin executing /\ terminalCommitted[j]

IInv ==
    /\ Types /\ Threads /\ Control /\ Enqueuing /\ Phased /\ Tables /\ LeaseWhileLive
    /\ Held /\ Leftovers /\ Marked /\ Counted /\ Cancels /\ Ended /\ Complete

-----------------------------------------------------------------------------
(* The threads. *)

\* A thread that has moved to a place: its locals are as before, or those of Idle.
Moved(new, old, place) ==
    /\ new.at = place
    /\ IF place \in {"await", "exited"}
         THEN new.job = Nobody /\ new.todo = {} /\ new.then = "exited"
         ELSE /\ new.job = old.job /\ new.tokens = old.tokens /\ new.end = old.end
              /\ new.status = old.status /\ new.then = old.then /\ new.todo = old.todo

\* Idle has the type of the locals of a thread.
LEMMA IdleTyped == Idle \in Locals
BY DEF Idle, Locals, Places, Finishes, Statuses

\* So have the two threads.
LEMMA ThreadsTyped ==
    ASSUME Threads
    PROVE  pump \in Locals /\ stopper \in Locals
BY DEF Threads, pump, stopper

\* What follows when the locals of the pump are set,
LEMMA PumpSet ==
    ASSUME Threads, NEW r \in Locals, thread' = [thread EXCEPT !["pump"] = r]
    PROVE  Threads' /\ pump' = r /\ stopper' = stopper
BY DEF Threads, pump, stopper

\* and those of the thread in stop.
LEMMA StopSet ==
    ASSUME Threads, NEW r \in Locals, thread' = [thread EXCEPT !["stop"] = r]
    PROVE  Threads' /\ stopper' = r /\ pump' = pump
BY DEF Threads, pump, stopper

\* The locals of a thread after Goto,
LEMMA MoveTyped ==
    ASSUME NEW old \in Locals, NEW place \in Places
    PROVE  LET new == [IF place \in {"await", "exited"} THEN Idle ELSE old EXCEPT !.at = place]
           IN new \in Locals /\ Moved(new, old, place)
<1>1. CASE place \in {"await", "exited"}
  BY <1>1, IdleTyped DEF Idle, Locals, Moved
<1>2. CASE place \notin {"await", "exited"}
  BY <1>2 DEF Locals, Moved
<1> QED BY <1>1, <1>2

\* for the pump,
LEMMA PumpGoes ==
    ASSUME Threads, NEW place \in Places, Goto("pump", place)
    PROVE  /\ Threads' /\ stopper' = stopper
           /\ Moved(pump', pump, place)
<1> DEFINE new == [IF place \in {"await", "exited"} THEN Idle ELSE pump EXCEPT !.at = place]
<1>1. new \in Locals /\ Moved(new, pump, place)
  BY ThreadsTyped, MoveTyped
<1>2. thread' = [thread EXCEPT !["pump"] = new]
  BY DEF Goto, pump
<1> HIDE DEF new
<1> QED BY <1>1, <1>2, PumpSet, ZenonT(40)

\* and for the thread in stop.
LEMMA StopGoes ==
    ASSUME Threads, NEW place \in Places, Goto("stop", place)
    PROVE  /\ Threads' /\ pump' = pump
           /\ Moved(stopper', stopper, place)
<1> DEFINE new == [IF place \in {"await", "exited"} THEN Idle ELSE stopper EXCEPT !.at = place]
<1>1. new \in Locals /\ Moved(new, stopper, place)
  BY ThreadsTyped, MoveTyped
<1>2. thread' = [thread EXCEPT !["stop"] = new]
  BY DEF Goto, stopper
<1> HIDE DEF new
<1> QED BY <1>1, <1>2, StopSet, ZenonT(40)

\* The tokens in hand are a number.
LEMMA PendingNat ==
    ASSUME Threads
    PROVE  \A j \in Jobs : Pending(j) \in Nat
BY ThreadsTyped DEF Pending, Locals

-----------------------------------------------------------------------------
(* Every step preserves the invariant. *)

\* What each conjunct is about: a step that leaves it alone preserves the conjunct.
LEMMA Untouched ==
    /\ Threads /\ UNCHANGED <<thread>> => Threads'
    /\ Control /\ UNCHANGED <<pump, stopper, runtime_state, backend_state, requests,
                             submit>> => Control'
    /\ Enqueuing /\ UNCHANGED <<submit, backend_state, externalToExecutor, executing>> => Enqueuing'
    /\ Phased /\ UNCHANGED <<pump, stopper, submit, phase, terminalCommitted,
                            finalizing>> => Phased'
    /\ Tables /\ UNCHANGED <<pump, stopper, submit, requests, externalToExecutor, phase>> => Tables'
    /\ LeaseWhileLive /\ UNCHANGED <<leases, submit, phase>> => LeaseWhileLive'
    /\ Held /\ UNCHANGED <<pump, stopper, requests, phase, finalizing>> => Held'
    /\ Leftovers /\ UNCHANGED <<pump, stopper, requests, backend_state>> => Leftovers'
    /\ Marked /\ UNCHANGED <<stopper, requests, phase, cancelled>> => Marked'
    /\ Counted /\ UNCHANGED <<pump, completionTokens, generated, phase, finalizing>> => Counted'
    /\ Cancels /\ UNCHANGED <<pump, phase, cancelled, told>> => Cancels'
    /\ Ended /\ UNCHANGED <<pump, executing, cancelled>> => Ended'
    /\ Complete /\ UNCHANGED <<terminal, cancelled, generated, executing,
                              terminalCommitted>> => Complete'
<1>1. Threads /\ UNCHANGED <<thread>> => Threads'
  BY DEF Threads
<1>2. Control /\ UNCHANGED <<pump, stopper, runtime_state, backend_state, requests,
                             submit>> => Control'
  BY DEF Control, Shared, Holding, Clearing, Ending
<1>3. Enqueuing /\ UNCHANGED <<submit, backend_state, externalToExecutor, executing>> => Enqueuing'
  BY DEF Enqueuing
<1>4. Phased /\ UNCHANGED <<pump, stopper, submit, phase, terminalCommitted,
                            finalizing>> => Phased'
  BY DEF Phased, At1, Unended
<1>5. Tables /\ UNCHANGED <<pump, stopper, submit, requests, externalToExecutor, phase>> => Tables'
  BY DEF Tables, At1
<1>6. LeaseWhileLive /\ UNCHANGED <<leases, submit, phase>> => LeaseWhileLive'
  BY DEF LeaseWhileLive
<1>7. Held /\ UNCHANGED <<pump, stopper, requests, phase, finalizing>> => Held'
  BY DEF Held, HeldBy, Holding, Ending, Unended
<1>8. Leftovers /\ UNCHANGED <<pump, stopper, requests, backend_state>> => Leftovers'
  BY DEF Leftovers, LeftTo, Ending
<1>9. Marked /\ UNCHANGED <<stopper, requests, phase, cancelled>> => Marked'
  BY DEF Marked, Clearing, Ending, Req!Live
<1>10. Counted /\ UNCHANGED <<pump, completionTokens, generated, phase, finalizing>> => Counted'
  BY DEF Counted, Pending, Doomed, Req!Live
<1>11. Cancels /\ UNCHANGED <<pump, phase, cancelled, told>> => Cancels'
  BY DEF Cancels, Doomed
<1>12. Ended /\ UNCHANGED <<pump, executing, cancelled>> => Ended'
  BY DEF Ended, Holding, Ending
<1>13. Complete /\ UNCHANGED <<terminal, cancelled, generated, executing,
                              terminalCommitted>> => Complete'
  BY DEF Complete, OkMeansComplete
<1> QED BY <1>1, <1>2, <1>3, <1>4, <1>5, <1>6, <1>7, <1>8, <1>9, <1>10, <1>11, <1>12, <1>13

\* A step that leaves everything but the mailboxes alone, where a Terminal may be taken
\* out but none put in.
LEMMA QuietKeeps ==
    ASSUME IInv, UNCHANGED <<leases, phase, completionTokens, finalizing, terminalCommitted>>,
           UNCHANGED <<runtime_state, submit, backend_state, requests, externalToExecutor,
                       thread, executing, told, generated, cancelled>>,
           terminal' \in [Jobs -> [status : Statuses \cup {"none"}, usage : Nat]],
           \A j \in Jobs : terminal'[j] = terminal[j] \/ terminal'[j].status = "none"
    PROVE  IInv'
<1>   /\ Types /\ Threads /\ Control /\ Enqueuing /\ Phased /\ Tables /\ LeaseWhileLive
      /\ Held /\ Leftovers /\ Marked /\ Counted /\ Cancels /\ Ended /\ Complete
  BY DEF IInv
<1>   pump' = pump /\ stopper' = stopper
  BY DEF pump, stopper
<1>   Complete'
  BY DEF Complete, OkMeansComplete, Types
<1>   Types'
  BY DEF Types
<1>   /\ Threads' /\ Control' /\ Enqueuing' /\ Phased' /\ Tables' /\ LeaseWhileLive'
      /\ Held' /\ Leftovers' /\ Marked' /\ Counted' /\ Cancels' /\ Ended'
  BY Untouched, ZenonT(40)
<1> QED BY DEF IInv

\* start: nothing is left of the last session, and the pump is at its first check.
LEMMA StartKeeps ==
    ASSUME IInv, start
    PROVE  IInv'
<1>   /\ Types /\ Threads /\ Control /\ Enqueuing /\ Phased /\ Tables /\ LeaseWhileLive
      /\ Held /\ Leftovers /\ Marked /\ Counted /\ Cancels /\ Ended /\ Complete
  BY DEF IInv
<1>   /\ ~Shared /\ runtime_state = "Stopped" /\ backend_state = "Stopped" /\ requests = {}
      /\ stopper.at = "exited"
      /\ backend_state' = "Running" /\ runtime_state' = "Running"
      /\ Goto("pump", "check")
      /\ UNCHANGED <<leases, phase, completionTokens, finalizing, terminal, terminalCommitted,
                     submit, requests, externalToExecutor, executing, told, generated,
                     cancelled>>
  BY
     DEF start, startBackend, Exclusive, At, stopper, Adm!open, admission, request, tables,
         executor
<1>   Threads' /\ stopper' = stopper /\ Moved(pump', pump, "check")
  BY PumpGoes DEF Places
<1>   Cancels'
  BY DEF Cancels, Doomed, Types, Moved, Control
<1>   Counted'
  BY DEF Counted, Pending, Doomed, Req!Live, Types, Moved, Control
<1>   Enqueuing'
  BY DEF Enqueuing, Types
<1>   Leftovers'
  BY DEF Leftovers, LeftTo, Ending, Moved
<1>   Phased'
  BY DEF Phased, At1, Unended, Types, Moved, Control
<1>   Held'
  BY DEF Held, HeldBy, Holding, Ending, Unended, Types, Moved
<1>   Ended'
  BY DEF Ended, Holding, Ending, Moved
<1>   Tables'
  BY DEF Tables, At1, Types, Moved
<1>   Control'
  BY DEF Control, Shared, Holding, Clearing, Ending, Moved
<1>   Types'
  BY DEF Types
<1>   LeaseWhileLive' /\ Marked' /\ Complete'
  BY Untouched, ZenonT(40)
<1> QED BY DEF IInv

\* stop: it owns lifecycleMutex_, so no call of submit is under way.
LEMMA StopKeeps ==
    ASSUME IInv, runtime_state # "Failed", stop
    PROVE  IInv'
<1>   /\ Types /\ Threads /\ Control /\ Enqueuing /\ Phased /\ Tables /\ LeaseWhileLive
      /\ Held /\ Leftovers /\ Marked /\ Counted /\ Cancels /\ Ended /\ Complete
  BY DEF IInv
<1>   /\ ~Shared /\ runtime_state = "Running" /\ stopper.at = "exited"
      /\ Goto("stop", "stopping")
      /\ UNCHANGED <<leases, phase, completionTokens, finalizing, terminal, terminalCommitted,
                     runtime_state, submit, backend_state, requests, externalToExecutor,
                     executing, told, generated, cancelled>>
  BY DEF stop, Exclusive, At, stopper, Adm!close, Types, admission, request, tables, executor
<1>   Threads' /\ pump' = pump /\ Moved(stopper', stopper, "stopping")
  BY StopGoes DEF Places
<1>   Marked'
  BY DEF Marked, Clearing, Ending, Req!Live, Types, Moved
<1>   Leftovers'
  BY DEF Leftovers, LeftTo, Ending, Moved
<1>   Phased'
  BY DEF Phased, At1, Unended, Types, Moved
<1>   Held'
  BY DEF Held, HeldBy, Holding, Ending, Unended, Types, Moved
<1>   Tables'
  BY DEF Tables, At1, Types, Moved
<1>   Control'
  BY DEF Control, Shared, Holding, Clearing, Ending, Moved
<1>   Types'
  BY DEF Types
<1>   Enqueuing' /\ LeaseWhileLive' /\ Counted' /\ Cancels' /\ Ended' /\ Complete'
  BY Untouched, ZenonT(40)
<1> QED BY DEF IInv

\* submit takes a lease, and is the first to hold one for this call.
LEMMA AdmitKeeps ==
    ASSUME IInv, NEW j \in Jobs,
           admit(j)
    PROVE  IInv'
<1>   /\ Types /\ Threads /\ Control /\ Enqueuing /\ Phased /\ Tables /\ LeaseWhileLive
      /\ Held /\ Leftovers /\ Marked /\ Counted /\ Cancels /\ Ended /\ Complete
  BY DEF IInv
<1>   /\ submit[j] = "new" /\ stopper.at = "exited" /\ runtime_state = "Running"
      /\ leases' = leases \cup {j}
      /\ submit' = [submit EXCEPT ![j] = "admitted"]
      /\ UNCHANGED <<phase, completionTokens, finalizing, terminal, terminalCommitted,
                     runtime_state, backend_state, requests, externalToExecutor, thread,
                     executing, told, generated, cancelled>>
  BY DEF admit, Exclusive, At, stopper, Adm!tryAcquire, admission, request, tables, executor
<1>   pump' = pump /\ stopper' = stopper
  BY DEF pump, stopper
<1>   LeaseWhileLive'
  BY DEF LeaseWhileLive, Types
<1>   Enqueuing'
  BY DEF Enqueuing, Types
<1>   Phased'
  BY DEF Phased, At1, Unended, Types
<1>   Tables'
  BY DEF Tables, At1, Types
<1>   Control'
  BY DEF Control, Shared, Holding, Clearing, Ending
<1>   Types'
  BY DEF Types
<1>   Threads' /\ Held' /\ Leftovers' /\ Marked' /\ Counted' /\ Cancels' /\ Ended' /\ Complete'
  BY Untouched, ZenonT(40)
<1> QED BY DEF IInv

\* submit refuses before it has a lease.
LEMMA RejectKeeps ==
    ASSUME IInv, NEW j \in Jobs,
           reject(j)
    PROVE  IInv'
<1>   /\ Types /\ Threads /\ Control /\ Enqueuing /\ Phased /\ Tables /\ LeaseWhileLive
      /\ Held /\ Leftovers /\ Marked /\ Counted /\ Cancels /\ Ended /\ Complete
  BY DEF IInv
<1>   /\ submit[j] = "new"
      /\ submit' = [submit EXCEPT ![j] = "rejected"]
      /\ UNCHANGED <<leases, phase, completionTokens, finalizing, terminal, terminalCommitted,
                     runtime_state, backend_state, requests, externalToExecutor, thread,
                     executing, told, generated, cancelled>>
  BY DEF reject, admission, request, tables, executor
<1>   pump' = pump /\ stopper' = stopper
  BY DEF pump, stopper
<1>   LeaseWhileLive'
  BY DEF LeaseWhileLive, Types
<1>   Enqueuing'
  BY DEF Enqueuing, Types
<1>   Phased'
  BY DEF Phased, At1, Unended, Types
<1>   Tables'
  BY DEF Tables, At1, Types
<1>   Control'
  BY DEF Control, Shared, Holding, Clearing, Ending
<1>   Types'
  BY DEF Types
<1>   Threads' /\ Held' /\ Leftovers' /\ Marked' /\ Counted' /\ Cancels' /\ Ended' /\ Complete'
  BY Untouched, ZenonT(40)
<1> QED BY DEF IInv

\* From enqueueRequest on the executor runs the job, whose id was free under mutex_.
LEMMA EnqueueRequestKeeps ==
    ASSUME IInv, NEW j \in Jobs,
           enqueueRequest(j)
    PROVE  IInv'
<1>   /\ Types /\ Threads /\ Control /\ Enqueuing /\ Phased /\ Tables /\ LeaseWhileLive
      /\ Held /\ Leftovers /\ Marked /\ Counted /\ Cancels /\ Ended /\ Complete
  BY DEF IInv
<1>   /\ submit[j] = "admitted" /\ (\A i \in Jobs : submit[i] # "enqueued")
      /\ backend_state = "Running" /\ externalToExecutor[request_id[j]] = Nobody
      /\ executing' = executing \cup {j}
      /\ submit' = [submit EXCEPT ![j] = "enqueued"]
      /\ UNCHANGED <<leases, phase, completionTokens, finalizing, terminal, terminalCommitted,
                     runtime_state, backend_state, requests, externalToExecutor, thread, told,
                     generated, cancelled>>
  BY DEF enqueueRequest, MutexFree, admission, request, tables, executor
<1>   pump' = pump /\ stopper' = stopper
  BY DEF pump, stopper
<1>   Complete'
  BY DEF Complete, OkMeansComplete, Types, Phased, Unended
<1>   LeaseWhileLive'
  BY DEF LeaseWhileLive, Types
<1>   Enqueuing'
  BY DEF Enqueuing, Types
<1>   Phased'
  BY DEF Phased, At1, Unended, Types
<1>   Ended'
  BY DEF Ended, Holding, Ending, Held, HeldBy, Tables, Types
<1>   Tables'
  BY DEF Tables, At1, Types
<1>   Control'
  BY DEF Control, Shared, Holding, Clearing, Ending
<1>   Types'
  BY DEF Types
<1>   Threads' /\ Held' /\ Leftovers' /\ Marked' /\ Counted' /\ Cancels'
  BY Untouched, ZenonT(40)
<1> QED BY DEF IInv

\* The backend refuses; the lease is still held by the mailbox.
LEMMA RefuseKeeps ==
    ASSUME IInv, NEW j \in Jobs,
           refuse(j)
    PROVE  IInv'
<1>   /\ Types /\ Threads /\ Control /\ Enqueuing /\ Phased /\ Tables /\ LeaseWhileLive
      /\ Held /\ Leftovers /\ Marked /\ Counted /\ Cancels /\ Ended /\ Complete
  BY DEF IInv
<1>   /\ submit[j] = "admitted"
      /\ submit' = [submit EXCEPT ![j] = "refused"]
      /\ UNCHANGED <<leases, phase, completionTokens, finalizing, terminal, terminalCommitted,
                     runtime_state, backend_state, requests, externalToExecutor, thread,
                     executing, told, generated, cancelled>>
  BY DEF refuse, admission, request, tables, executor
<1>   pump' = pump /\ stopper' = stopper
  BY DEF pump, stopper
<1>   LeaseWhileLive'
  BY DEF LeaseWhileLive, Types
<1>   Enqueuing'
  BY DEF Enqueuing, Types
<1>   Phased'
  BY DEF Phased, At1, Unended, Types
<1>   Tables'
  BY DEF Tables, At1, Types
<1>   Control'
  BY DEF Control, Shared, Holding, Clearing, Ending
<1>   Types'
  BY DEF Types
<1>   Threads' /\ Held' /\ Leftovers' /\ Marked' /\ Counted' /\ Cancels' /\ Ended' /\ Complete'
  BY Untouched, ZenonT(40)
<1> QED BY DEF IInv

\* The request enters both tables with its first phase; its id was free, so no other
\* request has it.
LEMMA RegisterKeeps ==
    ASSUME IInv, NEW j \in Jobs,
           register(j)
    PROVE  IInv'
<1>   /\ Types /\ Threads /\ Control /\ Enqueuing /\ Phased /\ Tables /\ LeaseWhileLive
      /\ Held /\ Leftovers /\ Marked /\ Counted /\ Cancels /\ Ended /\ Complete
  BY DEF IInv
<1>   /\ submit[j] = "enqueued" /\ phase[j] = "None"
      /\ phase' = [phase EXCEPT ![j] = "Accepted"]
      /\ requests' = requests \cup {j}
      /\ externalToExecutor' = [externalToExecutor EXCEPT ![request_id[j]] = j]
      /\ submit' = [submit EXCEPT ![j] = "accepted"]
      /\ UNCHANGED <<completionTokens, finalizing, terminal, terminalCommitted>>
      /\ UNCHANGED <<leases, runtime_state, backend_state, thread, executing, told, generated,
                     cancelled>>
  BY DEF register, Req!create, Req!mailbox, admission, request, tables, executor
<1>   pump' = pump /\ stopper' = stopper
  BY DEF pump, stopper
<1>   LeaseWhileLive'
  BY DEF LeaseWhileLive, Types
<1>   Cancels'
  BY DEF Cancels, Doomed, Types
<1>   Counted'
  <2>1. \A i \in Jobs : Pending(i)' = Pending(i) /\ (Doomed(i)' <=> Doomed(i))
    BY DEF Pending, Doomed
  <2>2. completionTokens[j] \in Nat /\ Pending(j) \in Nat
    BY PendingNat DEF Types
  <2>3. generated[j] = 0 /\ completionTokens[j] + Pending(j) <= generated[j]
    BY DEF Counted
  <2>4. completionTokens[j] + Pending(j) = generated[j]
    BY <2>2, <2>3
  <2> QED BY <2>1, <2>4 DEF Counted, Req!Live, Types
<1>   Marked'
  BY DEF Marked, Clearing, Ending, Req!Live, Types, Control, Shared
<1>   Enqueuing'
  BY DEF Enqueuing, Types
<1>   Leftovers'
  BY DEF Leftovers, LeftTo, Ending, Control, Clearing, Shared, Enqueuing
<1>   Phased'
  BY DEF Phased, At1, Unended, Types
<1>   Held'
  BY ZenonT(40) DEF Held, HeldBy, Holding, Ending, Unended, Types
<1>   Tables'
  <2>1. \A i \in requests : i \in Jobs /\ request_id[i] # request_id[j]
    BY ConfigValid DEF Tables, Enqueuing, Types
  <2>2. \A i \in Jobs : request_id[i] \in Ids
    BY DEF Ids
  <2>3. /\ externalToExecutor'[request_id[j]] = j
        /\ \A id \in Ids \ {request_id[j]} : externalToExecutor'[id] = externalToExecutor[id]
    BY <2>2 DEF Types
  <2> QED BY <2>1, <2>2, <2>3 DEF Tables, At1, Types
<1>   Control'
  BY DEF Control, Shared, Holding, Clearing, Ending
<1>   Types'
  BY ZenonT(40) DEF Types
<1>   Threads' /\ Ended' /\ Complete'
  BY Untouched, ZenonT(40)
<1> QED BY DEF IInv

\* The mailbox of a refused call goes, and its lease with it.
LEMMA DropMailboxKeeps ==
    ASSUME IInv, NEW j \in Jobs,
           dropMailbox(j)
    PROVE  IInv'
<1>   /\ Types /\ Threads /\ Control /\ Enqueuing /\ Phased /\ Tables /\ LeaseWhileLive
      /\ Held /\ Leftovers /\ Marked /\ Counted /\ Cancels /\ Ended /\ Complete
  BY DEF IInv
<1>   /\ submit[j] = "refused"
      /\ leases' = leases \ {j}
      /\ submit' = [submit EXCEPT ![j] = "rejected"]
      /\ UNCHANGED <<phase, completionTokens, finalizing, terminal, terminalCommitted,
                     runtime_state, backend_state, requests, externalToExecutor, thread,
                     executing, told, generated, cancelled>>
  BY DEF dropMailbox, Adm!release, admission, request, tables, executor
<1>   pump' = pump /\ stopper' = stopper
  BY DEF pump, stopper
<1>   LeaseWhileLive'
  BY DEF LeaseWhileLive, Types
<1>   Enqueuing'
  BY DEF Enqueuing, Types
<1>   Phased'
  BY DEF Phased, At1, Unended, Types
<1>   Tables'
  BY DEF Tables, At1, Types
<1>   Control'
  BY DEF Control, Shared, Holding, Clearing, Ending
<1>   Types'
  BY DEF Types
<1>   Threads' /\ Held' /\ Leftovers' /\ Marked' /\ Counted' /\ Cancels' /\ Ended' /\ Complete'
  BY Untouched, ZenonT(40)
<1> QED BY DEF IInv

\* cancel moves a live request to Cancelling and tells the executor.
LEMMA CancelKeeps ==
    ASSUME IInv, NEW id \in Ids,
           cancel(id)
    PROVE  IInv'
<1>   /\ Types /\ Threads /\ Control /\ Enqueuing /\ Phased /\ Tables /\ LeaseWhileLive
      /\ Held /\ Leftovers /\ Marked /\ Counted /\ Cancels /\ Ended /\ Complete
  BY DEF IInv
<1>   /\ stopper.at = "exited"
      /\ externalToExecutor[id] # Nobody
      /\ UNCHANGED <<completionTokens, terminal, terminalCommitted, finalizing>>
      /\ UNCHANGED <<leases, runtime_state, submit, backend_state, requests, externalToExecutor,
                     thread, executing, generated>>
  BY
     DEF cancel, cancelInBackend, Req!markCancelling, Req!mailbox, Exclusive, At, stopper,
         admission, request, tables, executor
<1>   PICK j \in Jobs : /\ j = externalToExecutor[id] /\ ~finalizing[j] /\ Req!Live(j)
                   /\ phase' = [phase EXCEPT ![j] = "Cancelling"]
                   /\ told' = told \cup ({j} \cap executing)
                   /\ cancelled' = cancelled \cup {j}
  BY ZenonT(40) DEF cancel, cancelInBackend, Req!markCancelling, Types
<1>   pump' = pump /\ stopper' = stopper
  BY DEF pump, stopper
<1>   Complete'
  BY DEF Complete, OkMeansComplete, Types
<1>   LeaseWhileLive'
  BY DEF LeaseWhileLive, Types, Req!Live
<1>   Cancels'
  BY DEF Cancels, Doomed, Types
<1>   Counted'
  BY DEF Counted, Pending, Doomed, Req!Live, Types
<1>   Marked'
  BY DEF Marked, Clearing, Ending, Req!Live, Types
<1>   Phased'
  BY DEF Phased, At1, Unended, Types, Req!Live
<1>   Held'
  BY DEF Held, HeldBy, Holding, Ending, Unended, Types, Req!Live
<1>   Ended'
  BY DEF Ended, Holding, Ending
<1>   Tables'
  BY DEF Tables, At1, Types
<1>   Types'
  BY DEF Types
<1>   Threads' /\ Control' /\ Enqueuing' /\ Leftovers'
  BY Untouched, ZenonT(40)
<1> QED BY DEF IInv

\* The steps of the pump between two responses: it looks at the state, waits, or leaves.
LEMMA PumpLoopsKeeps ==
    ASSUME IInv, isRunning \/ batchDone \/ throw
    PROVE  IInv'
<1>   /\ Types /\ Threads /\ Control /\ Enqueuing /\ Phased /\ Tables /\ LeaseWhileLive
      /\ Held /\ Leftovers /\ Marked /\ Counted /\ Cancels /\ Ended /\ Complete
  BY DEF IInv
<1>   /\ pump.at \in {"check", "await"}
      /\ UNCHANGED <<leases, phase, completionTokens, finalizing, terminal, terminalCommitted,
                     runtime_state, submit, backend_state, requests, externalToExecutor,
                     executing, told, generated, cancelled>>
  BY DEF isRunning, batchDone, throw, At, pump, admission, request, tables, executor
<1>   PICK place \in {"check", "await", "exited", "failing"} : Goto("pump", place)
  BY DEF isRunning, batchDone, throw
<1>   Threads' /\ stopper' = stopper /\ Moved(pump', pump, place)
  BY PumpGoes DEF Places
<1>   Cancels'
  BY DEF Cancels, Doomed, Types, Moved
<1>   Counted'
  BY DEF Counted, Pending, Doomed, Req!Live, Types, Moved
<1>   Leftovers'
  BY DEF Leftovers, LeftTo, Ending, Moved
<1>   Phased'
  BY DEF Phased, At1, Unended, Types, Moved
<1>   Held'
  BY DEF Held, HeldBy, Holding, Ending, Unended, Types, Moved
<1>   Ended'
  BY DEF Ended, Holding, Ending, Moved
<1>   Tables'
  BY DEF Tables, At1, Types, Moved
<1>   Control'
  BY DEF Control, Shared, Holding, Clearing, Ending, Moved
<1>   Types'
  BY DEF Types
<1>   Enqueuing' /\ LeaseWhileLive' /\ Marked' /\ Complete'
  BY Untouched, ZenonT(40)
<1> QED BY DEF IInv

\* A response comes for a job: with its tokens in hand, the pump owes them to the request.
LEMMA ResponseKeeps ==
    ASSUME IInv, NEW j \in Jobs,
           NEW n \in 0..Room(j),
           NEW end \in Ends(j),
           response(j, n, end)
    PROVE  IInv'
<1>   /\ Types /\ Threads /\ Control /\ Enqueuing /\ Phased /\ Tables /\ LeaseWhileLive
      /\ Held /\ Leftovers /\ Marked /\ Counted /\ Cancels /\ Ended /\ Complete
  BY DEF IInv
<1>   /\ pump.at = "await" /\ (\A i \in Jobs : submit[i] # "enqueued") /\ j \in executing
      /\ end \in Finishes /\ (end = "Cancelled" => j \in told)
      /\ executing' \subseteq executing /\ told' \subseteq told
      /\ end \notin {"more", "beams"} => j \notin executing'
      /\ UNCHANGED <<leases, phase, completionTokens, finalizing, terminal, terminalCommitted,
                     runtime_state, submit, backend_state, requests, externalToExecutor,
                     cancelled>>
  BY
     DEF response, LookupReady, MutexFree, At, pump, Ends, Finishes, admission, request, tables,
         executor
<1>   /\ n \in Nat /\ generated' = [generated EXCEPT ![j] = generated[j] + n]
      /\ generated' \in [Jobs -> 0..MaxTokens]
  BY ConfigValid DEF response, Room, Types
<1>   /\ stopper' = stopper /\ Threads'
      /\ \/ j \notin requests /\ pump' = pump
         \/ /\ j \in requests /\ pump'.at = "found" /\ pump'.job = j /\ pump'.tokens = n
            /\ pump'.end = end /\ pump'.status = StatusOf(end) /\ pump'.then = "await"
  <2>1. CASE j \notin requests
    <3>1. thread' = thread
      BY <2>1, ConfigValid DEF response, findRequest, Threads
    <3> QED BY <2>1, <3>1 DEF Threads, pump, stopper
  <2>2. CASE j \in requests
    <3> DEFINE r == [pump EXCEPT !.at = "found", !.job = j, !.tokens = n, !.end = end,
                                 !.status = StatusOf(end), !.then = "await"]
    <3>1. r \in Locals
      BY ThreadsTyped, ZenonT(40) DEF Locals, Places, StatusOf, Statuses
    <3>2. thread' = [thread EXCEPT !["pump"] = r]
      BY <2>2, ConfigValid, ZenonT(40) DEF response, findRequest, pump
    <3>3. /\ r.at = "found" /\ r.job = j /\ r.tokens = n /\ r.end = end
          /\ r.status = StatusOf(end) /\ r.then = "await"
      BY ThreadsTyped DEF Locals
    <3> HIDE DEF r
    <3> QED BY <2>2, <3>1, <3>2, <3>3, PumpSet, ZenonT(40)
  <2> QED BY <2>1, <2>2
<1>   IF j \in requests THEN phase[j] \in Unended /\ ~finalizing[j] ELSE phase[j] = "Terminal"
  BY DEF Enqueuing, Phased, Tables, At1, Control, Clearing, Ending, Unended, Types
<1>   Complete'
  BY DEF Complete, OkMeansComplete, Types
<1>   Cancels'
  BY DEF Cancels, Doomed, Types
<1>   Counted'
  <2>1. \A i \in Jobs : /\ Pending(i) = 0 /\ ~Doomed(i) /\ ~Doomed(i)'
                          /\ Pending(i)' = IF i = j /\ j \in requests THEN n ELSE 0
    BY DEF Pending, Doomed
  <2>2. \A i \in Jobs : generated'[i] = IF i = j THEN generated[i] + n ELSE generated[i]
    BY DEF Types
  <2> QED BY <2>1, <2>2 DEF Counted, Req!Live, Types, Unended
<1>   Enqueuing'
  BY DEF Enqueuing, Types
<1>   Leftovers'
  BY DEF Leftovers, LeftTo, Ending
<1>   Phased'
  BY DEF Phased, At1, Unended, Types
<1>   Held'
  BY DEF Held, HeldBy, Holding, Ending, Unended, Types
<1>   Ended'
  BY DEF Ended, Holding, Ending, Cancels, StatusOf, Unended
<1>   Tables'
  BY DEF Tables, At1, Types
<1>   Control'
  BY DEF Control, Shared, Holding, Clearing, Ending
<1>   Types'
  BY DEF Types
<1>   LeaseWhileLive' /\ Marked'
  BY Untouched, ZenonT(40)
<1> QED BY DEF IInv

\* The request of the response is found: it is to end, or runs.
LEMMA FoundKeeps ==
    ASSUME IInv, found
    PROVE  IInv'
<1>   /\ Types /\ Threads /\ Control /\ Enqueuing /\ Phased /\ Tables /\ LeaseWhileLive
      /\ Held /\ Leftovers /\ Marked /\ Counted /\ Cancels /\ Ended /\ Complete
  BY DEF IInv
<1>   /\ pump.at = "found"
      /\ UNCHANGED <<completionTokens, finalizing, terminal, terminalCommitted>>
      /\ UNCHANGED <<leases, runtime_state, submit, backend_state, requests, externalToExecutor,
                     executing, told, generated, cancelled>>
  BY
     DEF found, markRunning, Req!markRunning, Req!mailbox, At, pump, request, admission, tables,
         executor
<1>   /\ Threads' /\ stopper' = stopper
      /\ pump'.at \in {"finalize", "mark", "commit"}
      /\ pump'.job = pump.job /\ pump'.status = pump.status
      /\ pump'.at = "finalize" => pump.end = "error" /\ pump'.then = pump.then
      /\ pump'.at = "mark" => pump.end = "beams" /\ pump'.then = "tell"
      /\ pump'.at = "commit" => /\ pump'.end = pump.end /\ pump'.then = pump.then
                                /\ pump'.tokens = pump.tokens
  <2>1. CASE pump.end = "error"
    <3>1. Goto("pump", "finalize") /\ phase' = phase
      BY <2>1 DEF found, pump, request
    <3> QED BY <2>1, <3>1, PumpGoes DEF Places, Moved
  <2>2. CASE pump.end = "beams"
    <3> DEFINE r == [pump EXCEPT !.at = "mark", !.then = "tell"]
    <3>1. r \in Locals /\ r.at = "mark" /\ r.then = "tell" /\ r.job = pump.job
          /\ r.status = pump.status
      BY ThreadsTyped, ZenonT(40) DEF Locals, Places
    <3>2. thread' = [thread EXCEPT !["pump"] = r] /\ phase' = phase
      BY <2>2, ZenonT(40) DEF found, pump, request, Threads
    <3> HIDE DEF r
    <3> QED BY <2>2, <3>1, <3>2, PumpSet, ZenonT(40)
  <2>3. CASE pump.end \notin {"error", "beams"}
    <3>1. /\ Goto("pump", "commit")
          /\ phase' = phase \/ (/\ phase' = [phase EXCEPT ![pump.job] = "Running"]
                                /\ phase[pump.job] = "Accepted")
      BY <2>3 DEF found, pump, request, markRunning, Req!markRunning
    <3> QED BY <2>3, <3>1, PumpGoes DEF Places, Moved
  <2> QED BY <2>1, <2>2, <2>3
<1>   /\ phase' \in {phase, [phase EXCEPT ![pump.job] = "Running"]}
      /\ phase' # phase => phase[pump.job] = "Accepted" /\ pump'.at = "commit"
  BY DEF found, markRunning, Req!markRunning, request, pump
<1>   /\ pump.job \in requests /\ pump.job \in Jobs /\ ~finalizing[pump.job]
      /\ phase' \in [Jobs -> {"None", "Accepted", "Running", "Cancelling", "Terminal"}]
      /\ \A j \in Jobs : phase'[j] = phase[j] \/ (/\ j = pump.job /\ phase[j] = "Accepted"
                                                 /\ phase'[j] = "Running")
  BY DEF Types, Held, HeldBy, Holding
<1>   LeaseWhileLive'
  BY DEF LeaseWhileLive, Types
<1>   Cancels'
  BY DEF Cancels, Doomed, Types
<1>   Counted'
  <2>1. \A i \in Jobs : ~Doomed(i)
    BY DEF Doomed
  <2>2. pump'.at = "commit" => \A i \in Jobs : Pending(i)' = Pending(i)
    BY DEF Pending
  <2>3. pump'.at # "commit" => Doomed(pump.job)' /\ \A i \in Jobs : Pending(i)' = 0
    BY DEF Pending, Doomed, Ended, StatusOf
  <2>4. generated \in [Jobs -> Int] /\ completionTokens \in [Jobs -> Nat]
    BY DEF Types
  <2>5. \A i \in Jobs : Pending(i) \in Nat /\ (i # pump.job => Pending(i) = 0)
    BY PendingNat DEF Pending
  <2> QED BY <2>1, <2>2, <2>3, <2>4, <2>5 DEF Counted, Req!Live
<1>   Marked'
  BY DEF Marked, Clearing, Ending, Req!Live, Types
<1>   Leftovers'
  BY DEF Leftovers, LeftTo, Ending, Control, Holding
<1>   Phased'
  BY DEF Phased, At1, Unended, Types
<1>   Held'
  BY
     DEF Held, HeldBy, Holding, Ending, Unended, Types, Control, Clearing, Ended, StatusOf,
         Statuses
<1>   Ended'
  BY DEF Ended, Holding, Ending, Control, StatusOf
<1>   Tables'
  BY DEF Tables, At1, Types
<1>   Control'
  BY DEF Control, Shared, Holding, Clearing, Ending
<1>   Types'
  BY DEF Types
<1>   Enqueuing' /\ Complete'
  BY Untouched, ZenonT(40)
<1> QED BY DEF IInv

\* tryCommitDelta: the tokens in hand are committed, dropped because the request is
\* Cancelling, or refused, in which case the request is doomed.
LEMMA CommitKeeps ==
    ASSUME IInv, commit
    PROVE  IInv'
<1>   /\ Types /\ Threads /\ Control /\ Enqueuing /\ Phased /\ Tables /\ LeaseWhileLive
      /\ Held /\ Leftovers /\ Marked /\ Counted /\ Cancels /\ Ended /\ Complete
  BY DEF IInv
<1>   /\ pump.at = "commit"
      /\ UNCHANGED <<finalizing, terminal, terminalCommitted>>
      /\ UNCHANGED <<leases, runtime_state, submit, backend_state, requests, externalToExecutor,
                     executing, told, generated, cancelled>>
  BY ZenonT(40)
     DEF commit, Req!tryCommitDelta, Req!tryPushDelta, At, pump, request, admission, tables,
         executor
<1>   /\ Threads' /\ stopper' = stopper
      /\ \/ pump'.at = "await" /\ pump.end = "more"
         \/ /\ pump'.at = "finalize" /\ pump'.job = pump.job /\ pump'.status = pump.status
            /\ pump'.then = pump.then
         \/ /\ pump'.at = "mark" /\ pump'.job = pump.job /\ pump'.status = "Backpressure"
            /\ pump'.then = "tell"
      /\ \/ /\ UNCHANGED <<phase, completionTokens>>
            /\ pump.tokens = 0 \/ phase[pump.job] = "Cancelling" \/ pump'.at = "mark"
         \/ /\ Req!Live(pump.job) /\ phase' = [phase EXCEPT ![pump.job] = "Running"]
            /\ completionTokens' = [completionTokens EXCEPT ![pump.job] = @ + pump.tokens]
  <2>0. AfterTokens \in Places
    BY DEF AfterTokens, Places
  <2>1. CASE /\ pump.tokens = 0 \/ phase[pump.job] = "Cancelling"
             /\ Goto("pump", AfterTokens) /\ UNCHANGED request
    BY <2>0, <2>1, PumpGoes DEF AfterTokens, Moved, pump, request
  <2>2. CASE /\ pump.tokens > 0 /\ Req!tryCommitDelta(pump.job, pump.tokens)
             /\ Goto("pump", AfterTokens)
    BY <2>0, <2>2, PumpGoes DEF Req!tryCommitDelta, Req!TakesDelta, AfterTokens, Moved, pump
  <2>3. CASE /\ UNCHANGED request
             /\ thread' = [thread EXCEPT !["pump"].at = "mark", !["pump"].then = "tell",
                                         !["pump"].status = "Backpressure"]
    <3> DEFINE r == [pump EXCEPT !.at = "mark", !.then = "tell", !.status = "Backpressure"]
    <3>1. r \in Locals /\ r.at = "mark" /\ r.then = "tell" /\ r.job = pump.job
          /\ r.status = "Backpressure"
      BY ThreadsTyped, ZenonT(40) DEF Locals, Places, Statuses
    <3>2. thread' = [thread EXCEPT !["pump"] = r]
      BY <2>3, ZenonT(40) DEF pump, Threads
    <3> HIDE DEF r
    <3> QED BY <2>3, <3>1, <3>2, PumpSet, ZenonT(40) DEF request
  <2> QED BY <2>1, <2>2, <2>3, ZenonT(40) DEF commit, pump
<1>   /\ pump.job \in requests /\ pump.job \in Jobs /\ ~finalizing[pump.job] /\ pump.tokens \in Nat
      /\ phase \in [Jobs -> {"None", "Accepted", "Running", "Cancelling", "Terminal"}]
      /\ completionTokens \in [Jobs -> Nat]
  BY ThreadsTyped DEF Types, Held, HeldBy, Holding, Locals
<1>   /\ phase' \in [Jobs -> {"None", "Accepted", "Running", "Cancelling", "Terminal"}]
      /\ \A j \in Jobs :
           phase'[j] = phase[j] \/ (j = pump.job /\ Req!Live(j) /\ phase'[j] = "Running")
  OBVIOUS
<1>   /\ completionTokens' \in [Jobs -> Nat]
      /\ \A j \in Jobs : j # pump.job => completionTokens'[j] = completionTokens[j]
      /\ \/ completionTokens'[pump.job] = completionTokens[pump.job] + pump.tokens
         \/ /\ completionTokens'[pump.job] = completionTokens[pump.job]
            /\ ~Req!Live(pump.job) \/ pump'.at = "mark"
  BY DEF Req!Live
<1>   LeaseWhileLive'
  BY DEF LeaseWhileLive, Types, Req!Live
<1>   Cancels'
  <2>1. \A i \in Jobs : ~Doomed(i)
    BY DEF Doomed
  <2> QED BY <2>1 DEF Cancels, Req!Live, Types
<1>   Counted'
  <2>0. PICK k \in Jobs : k = pump.job
    OBVIOUS
  <2>1. \A i \in Jobs : /\ Pending(i) = (IF i = pump.job THEN pump.tokens ELSE 0) /\ ~Doomed(i)
                          /\ Pending(i)' = 0
    BY DEF Pending, Doomed
  <2>2. pump'.at = "mark" => Doomed(k)'
    BY <2>0 DEF Doomed
  <2>3. generated \in [Jobs -> Int]
    BY DEF Types
  <2>4. ASSUME NEW j \in Jobs, j # k
        PROVE  /\ completionTokens'[j] + Pending(j)' = completionTokens[j] + Pending(j)
               /\ phase'[j] = phase[j]
    BY <2>0, <2>1, <2>4
  <2>5. /\ completionTokens[k] + pump.tokens <= generated[k]
        /\ Req!Live(k) => completionTokens[k] + pump.tokens = generated[k]
    BY <2>0, <2>1 DEF Counted
  <2>6. completionTokens'[k] <= generated[k]
    BY <2>0, <2>3, <2>5
  <2>7. Req!Live(k)' => Req!Live(k) /\ phase[k] # "None"
    BY <2>0 DEF Req!Live
  <2>8. /\ completionTokens'[k] + Pending(k)' <= generated[k]
        /\ phase'[k] = "None" => generated[k] = 0
        /\ Req!Live(k)' /\ ~Doomed(k)' =>
              completionTokens'[k] + Pending(k)' = generated[k]
    BY <2>0, <2>1, <2>2, <2>5, <2>6, <2>7 DEF Counted
  <2>9. ASSUME NEW j \in Jobs, j # k
        PROVE  /\ completionTokens'[j] + Pending(j)' <= generated[j]
               /\ phase'[j] = "None" => generated[j] = 0
               /\ Req!Live(j)' /\ ~finalizing[j] =>
                     completionTokens'[j] + Pending(j)' = generated[j]
    BY <2>1, <2>4, <2>9 DEF Counted, Req!Live
  <2> QED BY <2>8, <2>9 DEF Counted
<1>   Marked'
  BY DEF Marked, Clearing, Ending, Req!Live, Types
<1>   Leftovers'
  BY DEF Leftovers, LeftTo, Ending, Control, Holding
<1>   Phased'
  BY DEF Phased, At1, Unended, Types, Req!Live
<1>   Held'
  <2>1. ~(stopper.at \in Holding) /\ stopper.at # "tell"
    BY DEF Control, Clearing, Holding, Ending
  <2>2. HeldBy(stopper)'
    BY <2>1 DEF HeldBy, Holding, Ending
  <2>3. HeldBy(pump)'
    BY DEF Held, HeldBy, Holding, Ending, Unended, Req!Live, Ended, StatusOf, Statuses
  <2> QED BY <2>2, <2>3 DEF Held
<1>   Ended'
  BY DEF Ended, Holding, Ending, Control, StatusOf
<1>   Tables'
  BY DEF Tables, At1, Types, Req!Live
<1>   Control'
  BY DEF Control, Shared, Holding, Clearing, Ending
<1>   Types'
  BY DEF Types
<1>   Enqueuing' /\ Complete'
  BY Untouched, ZenonT(40)
<1> QED BY DEF IInv

\* The pump marks a request it will end itself.
LEMMA MarkKeeps ==
    ASSUME IInv, mark
    PROVE  IInv'
<1>   /\ Types /\ Threads /\ Control /\ Enqueuing /\ Phased /\ Tables /\ LeaseWhileLive
      /\ Held /\ Leftovers /\ Marked /\ Counted /\ Cancels /\ Ended /\ Complete
  BY DEF IInv
<1>   /\ pump.at = "mark" /\ Goto("pump", "finalize")
      /\ UNCHANGED <<completionTokens, finalizing, terminal, terminalCommitted>>
      /\ UNCHANGED <<leases, runtime_state, submit, backend_state, requests, externalToExecutor,
                     executing, told, generated, cancelled>>
  BY DEF mark, Req!markCancelling, Req!mailbox, At, pump, request, admission, tables, executor
<1>   \/ phase' = phase /\ ~Req!Live(pump.job)
      \/ phase' = [phase EXCEPT ![pump.job] = "Cancelling"] /\ Req!Live(pump.job)
  BY DEF mark, Req!markCancelling, request, pump
<1>   Threads' /\ stopper' = stopper /\ Moved(pump', pump, "finalize")
  BY PumpGoes DEF Places
<1>   LeaseWhileLive'
  BY DEF LeaseWhileLive, Types, Req!Live
<1>   Cancels'
  BY DEF Cancels, Doomed, Types, Moved, Ended, Req!Live
<1>   Counted'
  BY DEF Counted, Pending, Doomed, Req!Live, Types, Moved
<1>   Marked'
  BY DEF Marked, Clearing, Ending, Req!Live, Types, Moved
<1>   Leftovers'
  BY DEF Leftovers, LeftTo, Ending, Moved, Control
<1>   Phased'
  BY DEF Phased, At1, Unended, Types, Moved, Req!Live, Held, HeldBy, Holding, Ending
<1>   Held'
  BY
     DEF Held, HeldBy, Holding, Ending, Unended, Types, Moved, Req!Live, Ended, Statuses, Control,
         Clearing
<1>   Ended'
  BY DEF Ended, Holding, Ending, Moved
<1>   Tables'
  BY DEF Tables, At1, Types, Moved, Req!Live
<1>   Control'
  BY DEF Control, Shared, Holding, Clearing, Ending, Moved
<1>   Types'
  BY DEF Types
<1>   Enqueuing' /\ Complete'
  BY Untouched, ZenonT(40)
<1> QED BY DEF IInv

\* The pump tells the executor to drop a request it has ended.
LEMMA TellKeeps ==
    ASSUME IInv, cancelExecutorRequest
    PROVE  IInv'
<1>   /\ Types /\ Threads /\ Control /\ Enqueuing /\ Phased /\ Tables /\ LeaseWhileLive
      /\ Held /\ Leftovers /\ Marked /\ Counted /\ Cancels /\ Ended /\ Complete
  BY DEF IInv
<1>   /\ pump.at = "tell" /\ Goto("pump", "await")
      /\ told' = told \cup ({pump.job} \cap executing)
      /\ UNCHANGED <<leases, phase, completionTokens, finalizing, terminal, terminalCommitted,
                     runtime_state, submit, backend_state, requests, externalToExecutor,
                     executing, generated, cancelled>>
  BY DEF cancelExecutorRequest, At, pump, admission, request, tables, executor
<1>   Threads' /\ stopper' = stopper /\ Moved(pump', pump, "await")
  BY PumpGoes DEF Places
<1>   Cancels'
  BY DEF Cancels, Doomed, Types, Moved, Held, HeldBy
<1>   Counted'
  BY DEF Counted, Pending, Doomed, Req!Live, Types, Moved
<1>   Leftovers'
  BY DEF Leftovers, LeftTo, Ending, Moved
<1>   Phased'
  BY DEF Phased, At1, Unended, Types, Moved
<1>   Held'
  BY DEF Held, HeldBy, Holding, Ending, Unended, Types, Moved
<1>   Ended'
  BY DEF Ended, Holding, Ending, Moved
<1>   Tables'
  BY DEF Tables, At1, Types, Moved
<1>   Control'
  BY DEF Control, Shared, Holding, Clearing, Ending, Moved
<1>   Types'
  BY DEF Types
<1>   Enqueuing' /\ LeaseWhileLive' /\ Marked' /\ Complete'
  BY Untouched, ZenonT(40)
<1> QED BY DEF IInv

\* awaitResponses has thrown: the pump takes all requests to finalize them, unless stop
\* has been called and will.
LEMMA MarkFailedKeeps ==
    ASSUME IInv, markFailed
    PROVE  IInv'
<1>   /\ Types /\ Threads /\ Control /\ Enqueuing /\ Phased /\ Tables /\ LeaseWhileLive
      /\ Held /\ Leftovers /\ Marked /\ Counted /\ Cancels /\ Ended /\ Complete
  BY DEF IInv
<1>   /\ pump.at = "failing" /\ (\A j \in Jobs : submit[j] # "enqueued")
      /\ UNCHANGED <<leases, phase, completionTokens, finalizing, terminal, terminalCommitted,
                     runtime_state, submit, requests, externalToExecutor, executing, told,
                     generated, cancelled>>
  BY DEF markFailed, At, pump, MutexFree, admission, request, tables, executor
<1>   /\ Threads' /\ stopper' = stopper
      /\ \/ /\ backend_state = "Running" /\ backend_state' = "Failed"
            /\ pump'.at = "finalizeAll" /\ pump'.todo = requests
         \/ backend_state' = backend_state /\ Moved(pump', pump, "exited")
  <2>1. CASE backend_state = "Running"
    <3> DEFINE r == [pump EXCEPT !.at = "finalizeAll", !.todo = requests]
    <3>1. r \in Locals /\ r.at = "finalizeAll" /\ r.todo = requests
      BY ThreadsTyped, ZenonT(40) DEF Locals, Places, Types
    <3>2. thread' = [thread EXCEPT !["pump"] = r] /\ backend_state' = "Failed"
      BY <2>1, ZenonT(40) DEF markFailed, Leftover, pump, Threads
    <3> HIDE DEF r
    <3> QED BY <2>1, <3>1, <3>2, PumpSet, ZenonT(40)
  <2>2. CASE backend_state # "Running"
    BY <2>2, PumpGoes DEF markFailed, Places
  <2> QED BY <2>1, <2>2
<1>   Cancels'
  BY DEF Cancels, Doomed, Types, Moved
<1>   Counted'
  BY DEF Counted, Pending, Doomed, Req!Live, Types, Moved
<1>   Enqueuing'
  BY DEF Enqueuing, Types
<1>   Leftovers'
  BY DEF Leftovers, LeftTo, Ending, Moved
<1>   Phased'
  BY DEF Phased, At1, Unended, Types, Moved
<1>   Held'
  BY DEF Held, HeldBy, Holding, Ending, Unended, Types, Moved
<1>   Ended'
  BY DEF Ended, Holding, Ending, Moved
<1>   Tables'
  BY DEF Tables, At1, Types, Moved
<1>   Control'
  BY DEF Control, Shared, Holding, Clearing, Ending, Moved
<1>   Types'
  BY DEF Types
<1>   LeaseWhileLive' /\ Marked' /\ Complete'
  BY Untouched, ZenonT(40)
<1> QED BY DEF IInv

-----------------------------------------------------------------------------
(* The end of a request, by the pump or by stop, and the steps of stop. *)

\* The pump puts the Terminal into the mailbox.  With Ok every token is committed: the
\* request is live, so by Counted nothing of it is elsewhere.
LEMMA FinalizePumpKeeps ==
    ASSUME IInv, finalize("pump")
    PROVE  IInv'
<1>   /\ Types /\ Threads /\ Control /\ Enqueuing /\ Phased /\ Tables /\ LeaseWhileLive
      /\ Held /\ Leftovers /\ Marked /\ Counted /\ Cancels /\ Ended /\ Complete
  BY DEF IInv
<1>   /\ pump.at = "finalize" /\ Goto("pump", "finalizing")
      /\ ~finalizing[pump.job] /\ ~terminalCommitted[pump.job]
      /\ terminal' = [terminal EXCEPT ![pump.job] =
                        [status |-> pump.status, usage |-> completionTokens[pump.job]]]
      /\ terminalCommitted' = [terminalCommitted EXCEPT ![pump.job] = TRUE]
      /\ finalizing' = [finalizing EXCEPT ![pump.job] = TRUE]
      /\ UNCHANGED <<phase, completionTokens>>
      /\ UNCHANGED <<leases, runtime_state, submit, backend_state, requests, externalToExecutor,
                     executing, told, generated, cancelled>>
  BY DEF finalize, Req!pushTerminal, At, pump, admission, request, tables, executor
<1>   Threads' /\ stopper' = stopper /\ Moved(pump', pump, "finalizing")
  BY PumpGoes DEF Places
<1>   Complete'
  <2>1. /\ pump.job \in Jobs /\ pump.status \in Statuses /\ phase[pump.job] \in Unended
        /\ completionTokens \in [Jobs -> Nat] /\ generated \in [Jobs -> Nat]
    BY DEF Held, HeldBy, Holding, Ending, Types
  <2>2. /\ pump.status = "Ok" => pump.job \notin executing
        /\ pump.status = "Cancelled" => pump.job \in cancelled
    BY DEF Ended, Holding, Ending
  <2>3. pump.status = "Ok" /\ pump.job \notin cancelled =>
          completionTokens[pump.job] = generated[pump.job]
    <3>1. pump.status = "Ok" => ~Doomed(pump.job)
      BY DEF Doomed
    <3>2. pump.status = "Ok" /\ pump.job \notin cancelled => Req!Live(pump.job)
      BY <2>1, <3>1 DEF Cancels, Unended, Req!Live
    <3>3. Pending(pump.job) = 0
      BY DEF Pending
    <3> QED BY <2>1, <3>1, <3>2, <3>3 DEF Counted
  <2>4. /\ terminal' \in [Jobs -> [status : Statuses \cup {"none"}, usage : Nat]]
        /\ terminal'[pump.job].status = pump.status /\ terminalCommitted'[pump.job]
        /\ terminal'[pump.job].usage = completionTokens[pump.job]
        /\ \A j \in Jobs \ {pump.job} :
             terminal'[j] = terminal[j] /\ terminalCommitted'[j] = terminalCommitted[j]
    <3>1. /\ terminal \in [Jobs -> [status : Statuses \cup {"none"}, usage : Nat]]
          /\ terminalCommitted \in [Jobs -> BOOLEAN]
      BY DEF Complete, Types
    <3>2. [status |-> pump.status, usage |-> completionTokens[pump.job]]
             \in [status : Statuses \cup {"none"}, usage : Nat]
      BY <2>1
    <3> QED BY <2>1, <3>1, <3>2, ZenonT(40)
  <2> QED BY <2>2, <2>3, <2>4 DEF Complete, OkMeansComplete
<1>   Cancels'
  BY DEF Cancels, Doomed, Types, Moved
<1>   Counted'
  BY DEF Counted, Pending, Doomed, Req!Live, Types, Moved, Control, Clearing
<1>   Leftovers'
  BY DEF Leftovers, LeftTo, Ending, Moved
<1>   Phased'
  BY DEF Phased, At1, Unended, Types, Moved, Held, HeldBy, Holding, Ending
<1>   Held'
  BY DEF Held, HeldBy, Holding, Ending, Unended, Types, Moved, Control, Clearing
<1>   Ended'
  BY DEF Ended, Holding, Ending, Moved
<1>   Tables'
  BY DEF Tables, At1, Types, Moved
<1>   Control'
  BY DEF Control, Shared, Holding, Clearing, Ending, Moved
<1>   Types'
  BY ThreadsTyped DEF Types, Locals, Held, HeldBy, Holding, Ending
<1>   Enqueuing' /\ LeaseWhileLive' /\ Marked'
  BY Untouched, ZenonT(40)
<1> QED BY DEF IInv

\* The pump returns the lease with the phase.
LEMMA FinalizedPumpKeeps ==
    ASSUME IInv, finalized("pump")
    PROVE  IInv'
<1>   /\ Types /\ Threads /\ Control /\ Enqueuing /\ Phased /\ Tables /\ LeaseWhileLive
      /\ Held /\ Leftovers /\ Marked /\ Counted /\ Cancels /\ Ended /\ Complete
  BY DEF IInv
<1>   /\ pump.at = "finalizing" /\ Goto("pump", "erase")
      /\ finalizing[pump.job] /\ leases' = leases \ {pump.job}
      /\ finalizing' = [finalizing EXCEPT ![pump.job] = FALSE]
      /\ phase' = [phase EXCEPT ![pump.job] = "Terminal"]
      /\ UNCHANGED <<completionTokens, terminal, terminalCommitted>>
      /\ UNCHANGED <<runtime_state, submit, backend_state, requests, externalToExecutor,
                     executing, told, generated, cancelled>>
  BY
     DEF finalized, Req!endFinalize, Req!mailbox, At, pump, Adm!release, admission, request,
         tables, executor
<1>   Threads' /\ stopper' = stopper /\ Moved(pump', pump, "erase")
  BY PumpGoes DEF Places
<1>   LeaseWhileLive'
  <2>1. pump.job \in Jobs /\ submit[pump.job] = "accepted"
    BY DEF Types, Tables, Held, HeldBy, Holding, Ending
  <2>2. leases' = leases \ {pump.job}
    BY DEF Adm!release
  <2> QED BY <2>1, <2>2 DEF LeaseWhileLive, Types
<1>   Cancels'
  BY DEF Cancels, Doomed, Types, Moved
<1>   Counted'
  BY DEF Counted, Pending, Doomed, Req!Live, Types, Moved
<1>   Marked'
  BY DEF Marked, Clearing, Ending, Req!Live, Types, Moved
<1>   Leftovers'
  BY DEF Leftovers, LeftTo, Ending, Moved
<1>   Phased'
  BY DEF Phased, At1, Unended, Types, Moved
<1>   Held'
  BY DEF Held, HeldBy, Holding, Ending, Unended, Types, Moved, Control, Clearing
<1>   Ended'
  BY DEF Ended, Holding, Ending, Moved
<1>   Tables'
  BY DEF Tables, At1, Types, Moved
<1>   Control'
  BY DEF Control, Shared, Holding, Clearing, Ending, Moved
<1>   Types'
  BY ZenonT(40) DEF Types
<1>   Enqueuing' /\ Complete'
  BY Untouched, ZenonT(40)
<1> QED BY DEF IInv

\* The pump takes the request out of both tables; no other request has its id.
LEMMA ErasePumpKeeps ==
    ASSUME IInv, eraseRequest("pump")
    PROVE  IInv'
<1>   /\ Types /\ Threads /\ Control /\ Enqueuing /\ Phased /\ Tables /\ LeaseWhileLive
      /\ Held /\ Leftovers /\ Marked /\ Counted /\ Cancels /\ Ended /\ Complete
  BY DEF IInv
<1>   /\ pump.at = "erase" /\ Goto("pump", pump.then) /\ (\A j \in Jobs : submit[j] # "enqueued")
      /\ stopper.at # "marking"
      /\ requests' = requests \ {pump.job}
      /\ externalToExecutor' = [externalToExecutor EXCEPT ![request_id[pump.job]] = Nobody]
      /\ UNCHANGED <<leases, phase, completionTokens, finalizing, terminal, terminalCommitted,
                     runtime_state, submit, backend_state, executing, told, generated,
                     cancelled>>
  BY DEF eraseRequest, MutexFree, At, pump, stopper, admission, request, tables, executor
<1>   Threads' /\ stopper' = stopper /\ Moved(pump', pump, pump.then)
  BY PumpGoes, ThreadsTyped DEF Locals
<1>   Cancels'
  BY DEF Cancels, Doomed, Types, Moved
<1>   Counted'
  <2>1. \A i \in Jobs : /\ Pending(i) = 0 /\ Pending(i)' = 0
                          /\ ~Doomed(i) /\ ~Doomed(i)'
    BY DEF Control, Ending, Pending, Doomed, Moved
  <2> QED BY <2>1 DEF Counted, Req!Live
<1>   Marked'
  BY DEF Marked, Clearing, Ending, Req!Live, Types, Moved
<1>   Enqueuing'
  BY DEF Enqueuing, Types
<1>   Leftovers'
  BY DEF Leftovers, LeftTo, Ending, Moved, Control, Clearing
<1>   Phased'
  BY DEF Phased, At1, Unended, Types, Moved
<1>   Held'
  BY DEF Held, HeldBy, Holding, Ending, Unended, Types, Moved, Control, Clearing
<1>   Ended'
  BY DEF Ended, Holding, Ending, Moved, Control, Clearing
<1>   Tables'
  <2>1. /\ pump.job \in requests /\ phase[pump.job] = "Terminal"
        /\ stopper.at # "erase"
    BY DEF Held, HeldBy, Holding, Ending, Control, Clearing
  <2>2. /\ requests \subseteq Jobs /\ externalToExecutor \in [Ids -> Jobs \cup {Nobody}]
        /\ \A j \in Jobs : request_id[j] \in Ids
    BY DEF Types, Ids
  <2>3. \A j \in requests' : phase[j] # "Terminal" /\ request_id[j] # request_id[pump.job]
    BY <2>1 DEF Tables, At1
  <2> QED BY <2>1, <2>2, <2>3 DEF Tables
<1>   Control'
  BY DEF Control, Shared, Holding, Clearing, Ending, Moved
<1>   Types'
  BY ZenonT(40) DEF Types
<1>   LeaseWhileLive' /\ Complete'
  BY Untouched, ZenonT(40)
<1> QED BY DEF IInv

\* The failed pump takes the next of its requests, or leaves.
LEMMA FinalizeAllPumpKeeps ==
    ASSUME IInv, finalizeAll("pump", "Error", "exited")
    PROVE  IInv'
<1>   /\ Types /\ Threads /\ Control /\ Enqueuing /\ Phased /\ Tables /\ LeaseWhileLive
      /\ Held /\ Leftovers /\ Marked /\ Counted /\ Cancels /\ Ended /\ Complete
  BY DEF IInv
<1>   /\ pump.at = "finalizeAll"
      /\ UNCHANGED <<leases, phase, completionTokens, finalizing, terminal, terminalCommitted,
                     runtime_state, submit, backend_state, requests, externalToExecutor,
                     executing, told, generated, cancelled>>
  BY ZenonT(40) DEF finalizeAll, At, pump, admission, request, tables, executor
<1>   /\ Threads' /\ stopper' = stopper
      /\ \/ pump.todo = {} /\ Moved(pump', pump, "exited")
         \/ \E j \in pump.todo :
               /\ pump'.at = "finalize" /\ pump'.job = j /\ pump'.status = "Error"
               /\ pump'.then = "finalizeAll" /\ pump'.todo = pump.todo \ {j}
  <2>1. CASE pump.todo = {} /\ Goto("pump", "exited")
    BY <2>1, PumpGoes DEF Places
  <2>2. CASE \E j \in pump.todo :
               thread' = [thread EXCEPT !["pump"] =
                            [@ EXCEPT !.at = "finalize", !.job = j, !.status = "Error",
                                      !.then = "finalizeAll", !.todo = thread["pump"].todo \ {j}]]
    <3>0. PICK j \in pump.todo :
               thread' = [thread EXCEPT !["pump"] =
                            [@ EXCEPT !.at = "finalize", !.job = j, !.status = "Error",
                                      !.then = "finalizeAll", !.todo = thread["pump"].todo \ {j}]]
      BY <2>2, ZenonT(40)
    <3> DEFINE r == [pump EXCEPT !.at = "finalize", !.job = j, !.status = "Error",
                                 !.then = "finalizeAll", !.todo = pump.todo \ {j}]
    <3>1. /\ r \in Locals /\ r.at = "finalize" /\ r.job = j /\ r.status = "Error"
          /\ r.then = "finalizeAll" /\ r.todo = pump.todo \ {j}
      BY ThreadsTyped, ZenonT(40) DEF Locals, Places, Statuses
    <3>2. thread' = [thread EXCEPT !["pump"] = r]
      BY <3>0 DEF pump
    <3> HIDE DEF r
    <3> QED BY <3>1, <3>2, PumpSet, ZenonT(40)
  <2> QED BY <2>1, <2>2, ZenonT(40) DEF finalizeAll, pump
<1>   Cancels'
  BY DEF Cancels, Doomed, Types, Moved
<1>   Counted'
  BY DEF Counted, Pending, Doomed, Req!Live, Types, Moved
<1>   Leftovers'
  BY DEF Leftovers, LeftTo, Ending, Moved
<1>   Phased'
  BY DEF Phased, At1, Unended, Types, Moved
<1>   Held'
  <2>1. \A j \in requests : phase[j] \in Unended /\ ~finalizing[j]
    BY DEF Types, Control, Clearing, Phased, Tables, At1, Unended
  <2>2. \A j \in pump.todo : j \in requests
    BY DEF Leftovers, LeftTo
  <2> QED BY <2>1, <2>2 DEF Held, HeldBy, Holding, Ending, Statuses, Moved
<1>   Ended'
  BY DEF Ended, Holding, Ending, Moved
<1>   Tables'
  BY DEF Tables, At1, Types, Moved
<1>   Control'
  BY DEF Control, Shared, Holding, Clearing, Ending, Moved
<1>   Types'
  BY DEF Types
<1>   Enqueuing' /\ LeaseWhileLive' /\ Marked' /\ Complete'
  BY Untouched, ZenonT(40)
<1> QED BY DEF IInv

\* stop puts the Terminal Cancelled into the mailbox of a request it has marked.
LEMMA FinalizeStopKeeps ==
    ASSUME IInv, finalize("stop")
    PROVE  IInv'
<1>   /\ Types /\ Threads /\ Control /\ Enqueuing /\ Phased /\ Tables /\ LeaseWhileLive
      /\ Held /\ Leftovers /\ Marked /\ Counted /\ Cancels /\ Ended /\ Complete
  BY DEF IInv
<1>   /\ stopper.at = "finalize" /\ Goto("stop", "finalizing")
      /\ ~finalizing[stopper.job] /\ ~terminalCommitted[stopper.job]
      /\ terminal' = [terminal EXCEPT ![stopper.job] =
                        [status |-> stopper.status, usage |-> completionTokens[stopper.job]]]
      /\ terminalCommitted' = [terminalCommitted EXCEPT ![stopper.job] = TRUE]
      /\ finalizing' = [finalizing EXCEPT ![stopper.job] = TRUE]
      /\ UNCHANGED <<phase, completionTokens>>
      /\ UNCHANGED <<leases, runtime_state, submit, backend_state, requests, externalToExecutor,
                     executing, told, generated, cancelled>>
  BY DEF finalize, Req!pushTerminal, At, stopper, admission, request, tables, executor
<1>   Threads' /\ pump' = pump /\ Moved(stopper', stopper, "finalizing")
  BY StopGoes DEF Places
<1>   Complete'
  BY
     DEF Complete, OkMeansComplete, Types, Counted, Pending, Doomed, Cancels, Req!Live, Unended,
         Ended, Control, Clearing, Marked, Held, HeldBy, Holding, Ending
<1>   Counted'
  BY DEF Counted, Pending, Doomed, Req!Live, Types, Moved, Control, Clearing
<1>   Marked'
  BY DEF Marked, Clearing, Ending, Req!Live, Types, Moved
<1>   Leftovers'
  BY DEF Leftovers, LeftTo, Ending, Moved
<1>   Phased'
  BY DEF Phased, At1, Unended, Types, Moved, Held, HeldBy, Holding, Ending
<1>   Held'
  BY ZenonT(40) DEF Held, HeldBy, Holding, Ending, Unended, Types, Moved, Control, Clearing
<1>   Tables'
  BY DEF Tables, At1, Types, Moved
<1>   Control'
  BY DEF Control, Shared, Holding, Clearing, Ending, Moved
<1>   Types'
  BY ThreadsTyped DEF Types, Locals, Held, HeldBy, Holding, Ending
<1>   Enqueuing' /\ LeaseWhileLive' /\ Cancels' /\ Ended'
  BY Untouched, ZenonT(40)
<1> QED BY DEF IInv

\* stop returns the lease with the phase.
LEMMA FinalizedStopKeeps ==
    ASSUME IInv, finalized("stop")
    PROVE  IInv'
<1>   /\ Types /\ Threads /\ Control /\ Enqueuing /\ Phased /\ Tables /\ LeaseWhileLive
      /\ Held /\ Leftovers /\ Marked /\ Counted /\ Cancels /\ Ended /\ Complete
  BY DEF IInv
<1>   /\ stopper.at = "finalizing" /\ Goto("stop", "erase")
      /\ finalizing[stopper.job] /\ leases' = leases \ {stopper.job}
      /\ finalizing' = [finalizing EXCEPT ![stopper.job] = FALSE]
      /\ phase' = [phase EXCEPT ![stopper.job] = "Terminal"]
      /\ UNCHANGED <<completionTokens, terminal, terminalCommitted>>
      /\ UNCHANGED <<runtime_state, submit, backend_state, requests, externalToExecutor,
                     executing, told, generated, cancelled>>
  BY
     DEF finalized, Req!endFinalize, Req!mailbox, At, stopper, Adm!release, admission, request,
         tables, executor
<1>   Threads' /\ pump' = pump /\ Moved(stopper', stopper, "erase")
  BY StopGoes DEF Places
<1>   LeaseWhileLive'
  <2>1. stopper.job \in Jobs /\ submit[stopper.job] = "accepted"
    BY DEF Types, Tables, Held, HeldBy, Holding, Ending
  <2>2. leases' = leases \ {stopper.job}
    BY DEF Adm!release
  <2> QED BY <2>1, <2>2 DEF LeaseWhileLive, Types
<1>   Cancels'
  BY DEF Cancels, Doomed, Types, Moved
<1>   Counted'
  BY DEF Counted, Pending, Doomed, Req!Live, Types, Moved
<1>   Marked'
  BY DEF Marked, Clearing, Ending, Req!Live, Types, Moved
<1>   Leftovers'
  BY DEF Leftovers, LeftTo, Ending, Moved
<1>   Phased'
  BY DEF Phased, At1, Unended, Types, Moved
<1>   Held'
  BY DEF Held, HeldBy, Holding, Ending, Unended, Types, Moved, Control, Clearing
<1>   Tables'
  BY DEF Tables, At1, Types, Moved
<1>   Control'
  BY DEF Control, Shared, Holding, Clearing, Ending, Moved
<1>   Types'
  BY ZenonT(40) DEF Types
<1>   Enqueuing' /\ Ended' /\ Complete'
  BY Untouched, ZenonT(40)
<1> QED BY DEF IInv

\* stop takes the request out of both tables.
LEMMA EraseStopKeeps ==
    ASSUME IInv, eraseRequest("stop")
    PROVE  IInv'
<1>   /\ Types /\ Threads /\ Control /\ Enqueuing /\ Phased /\ Tables /\ LeaseWhileLive
      /\ Held /\ Leftovers /\ Marked /\ Counted /\ Cancels /\ Ended /\ Complete
  BY DEF IInv
<1>   /\ stopper.at = "erase" /\ Goto("stop", stopper.then)
      /\ (\A j \in Jobs : submit[j] # "enqueued")
      /\ stopper.at # "marking"
      /\ requests' = requests \ {stopper.job}
      /\ externalToExecutor' = [externalToExecutor EXCEPT ![request_id[stopper.job]] = Nobody]
      /\ UNCHANGED <<leases, phase, completionTokens, finalizing, terminal, terminalCommitted,
                     runtime_state, submit, backend_state, executing, told, generated,
                     cancelled>>
  BY DEF eraseRequest, MutexFree, At, pump, stopper, admission, request, tables, executor
<1>   Threads' /\ pump' = pump /\ Moved(stopper', stopper, stopper.then)
  BY StopGoes, ThreadsTyped DEF Locals
<1>   Marked'
  BY DEF Marked, Clearing, Ending, Req!Live, Types, Moved
<1>   Enqueuing'
  BY DEF Enqueuing, Types
<1>   Leftovers'
  BY DEF Leftovers, LeftTo, Ending, Moved, Control, Clearing
<1>   Phased'
  BY DEF Phased, At1, Unended, Types, Moved
<1>   Held'
  BY DEF Held, HeldBy, Holding, Ending, Unended, Types, Moved, Control, Clearing
<1>   Tables'
  BY DEF Tables, At1, Types, Moved, Control, Clearing, Held, HeldBy, Holding, Ending
<1>   Control'
  BY DEF Control, Shared, Holding, Clearing, Ending, Moved
<1>   Types'
  BY ZenonT(40) DEF Types
<1>   LeaseWhileLive' /\ Counted' /\ Cancels' /\ Ended' /\ Complete'
  BY Untouched, ZenonT(40)
<1> QED BY DEF IInv

\* stop takes the next of the requests that are left, or has none.
LEMMA FinalizeAllStopKeeps ==
    ASSUME IInv, finalizeAll("stop", "Cancelled", "reset")
    PROVE  IInv'
<1>   /\ Types /\ Threads /\ Control /\ Enqueuing /\ Phased /\ Tables /\ LeaseWhileLive
      /\ Held /\ Leftovers /\ Marked /\ Counted /\ Cancels /\ Ended /\ Complete
  BY DEF IInv
<1>   /\ stopper.at = "finalizeAll"
      /\ UNCHANGED <<leases, phase, completionTokens, finalizing, terminal, terminalCommitted,
                     runtime_state, submit, backend_state, requests, externalToExecutor,
                     executing, told, generated, cancelled>>
  BY ZenonT(40) DEF finalizeAll, At, stopper, admission, request, tables, executor
<1>   /\ Threads' /\ pump' = pump
      /\ \/ stopper.todo = {} /\ Moved(stopper', stopper, "reset")
         \/ \E j \in stopper.todo :
               /\ stopper'.at = "finalize" /\ stopper'.job = j /\ stopper'.status = "Cancelled"
               /\ stopper'.then = "finalizeAll" /\ stopper'.todo = stopper.todo \ {j}
  <2>1. CASE stopper.todo = {} /\ Goto("stop", "reset")
    BY <2>1, StopGoes DEF Places
  <2>2. CASE \E j \in stopper.todo :
               thread' = [thread EXCEPT !["stop"] =
                            [@ EXCEPT !.at = "finalize", !.job = j, !.status = "Cancelled",
                                      !.then = "finalizeAll", !.todo = thread["stop"].todo \ {j}]]
    <3>0. PICK j \in stopper.todo :
               thread' = [thread EXCEPT !["stop"] =
                            [@ EXCEPT !.at = "finalize", !.job = j, !.status = "Cancelled",
                                      !.then = "finalizeAll", !.todo = thread["stop"].todo \ {j}]]
      BY <2>2, ZenonT(40)
    <3> DEFINE r == [stopper EXCEPT !.at = "finalize", !.job = j, !.status = "Cancelled",
                                 !.then = "finalizeAll", !.todo = stopper.todo \ {j}]
    <3>1. /\ r \in Locals /\ r.at = "finalize" /\ r.job = j /\ r.status = "Cancelled"
          /\ r.then = "finalizeAll" /\ r.todo = stopper.todo \ {j}
      BY ThreadsTyped, ZenonT(40) DEF Locals, Places, Statuses
    <3>2. thread' = [thread EXCEPT !["stop"] = r]
      BY <3>0 DEF stopper
    <3> HIDE DEF r
    <3> QED BY <3>1, <3>2, StopSet, ZenonT(40)
  <2> QED BY <2>1, <2>2, ZenonT(40) DEF finalizeAll, stopper
<1>   Marked'
  BY DEF Marked, Clearing, Ending, Req!Live, Types, Moved
<1>   Leftovers'
  BY DEF Leftovers, LeftTo, Ending, Moved
<1>   Phased'
  BY DEF Phased, At1, Unended, Types, Moved
<1>   Held'
  <2>1. \A j \in requests : phase[j] \in Unended /\ ~finalizing[j]
    BY DEF Types, Control, Clearing, Phased, Tables, At1, Unended
  <2>2. \A j \in stopper.todo : j \in requests
    BY DEF Leftovers, LeftTo
  <2> QED BY <2>1, <2>2 DEF Held, HeldBy, Holding, Ending, Statuses, Moved
<1>   Tables'
  BY DEF Tables, At1, Types, Moved
<1>   Control'
  BY DEF Control, Shared, Holding, Clearing, Ending, Moved
<1>   Types'
  BY DEF Types
<1>   Enqueuing' /\ LeaseWhileLive' /\ Counted' /\ Cancels' /\ Ended' /\ Complete'
  BY Untouched, ZenonT(40)
<1> QED BY DEF IInv

\* The backend refuses from here on, and stop has all requests to mark.
LEMMA StoppingKeeps ==
    ASSUME IInv, stopping
    PROVE  IInv'
<1>   /\ Types /\ Threads /\ Control /\ Enqueuing /\ Phased /\ Tables /\ LeaseWhileLive
      /\ Held /\ Leftovers /\ Marked /\ Counted /\ Cancels /\ Ended /\ Complete
  BY DEF IInv
<1>   /\ stopper.at = "stopping" /\ backend_state' = "Stopping"
      /\ (\A j \in Jobs : submit[j] # "enqueued")
      /\ UNCHANGED <<leases, phase, completionTokens, finalizing, terminal, terminalCommitted,
                     runtime_state, submit, requests, externalToExecutor, executing, told,
                     generated, cancelled>>
  BY DEF stopping, At, stopper, MutexFree, admission, request, tables, executor
<1>   Threads' /\ pump' = pump /\ stopper'.at = "marking" /\ stopper'.todo = requests
  <2> DEFINE r == [stopper EXCEPT !.at = "marking", !.todo = requests]
  <2>1. r \in Locals /\ r.at = "marking" /\ r.todo = requests
    BY ThreadsTyped, ZenonT(40) DEF Locals, Places, Types
  <2>2. thread' = [thread EXCEPT !["stop"] = r]
    BY ZenonT(40) DEF stopping, stopper, Threads
  <2> HIDE DEF r
  <2> QED BY <2>1, <2>2, StopSet, ZenonT(40)
<1>   Marked'
  BY DEF Marked, Clearing, Ending, Req!Live, Types
<1>   Enqueuing'
  BY DEF Enqueuing, Types
<1>   Leftovers'
  BY DEF Leftovers, LeftTo, Ending
<1>   Phased'
  BY DEF Phased, At1, Unended, Types
<1>   Held'
  BY DEF Held, HeldBy, Holding, Ending, Unended, Types
<1>   Tables'
  BY DEF Tables, At1, Types
<1>   Control'
  BY DEF Control, Shared, Holding, Clearing, Ending
<1>   Types'
  BY DEF Types
<1>   LeaseWhileLive' /\ Counted' /\ Cancels' /\ Ended' /\ Complete'
  BY Untouched, ZenonT(40)
<1> QED BY DEF IInv

\* stop marks one request more, under mutex_, or has marked all.
LEMMA MarkingKeeps ==
    ASSUME IInv, marking
    PROVE  IInv'
<1>   /\ Types /\ Threads /\ Control /\ Enqueuing /\ Phased /\ Tables /\ LeaseWhileLive
      /\ Held /\ Leftovers /\ Marked /\ Counted /\ Cancels /\ Ended /\ Complete
  BY DEF IInv
<1>   /\ stopper.at = "marking"
      /\ UNCHANGED <<completionTokens, finalizing, terminal, terminalCommitted>>
      /\ UNCHANGED <<leases, runtime_state, submit, backend_state, requests, externalToExecutor,
                     executing, told, generated>>
  BY
     DEF marking, Req!markCancelling, Req!mailbox, request, At, stopper, admission, tables,
         executor
<1>   /\ Threads' /\ pump' = pump
      /\ \/ /\ stopper.todo = {} /\ Moved(stopper', stopper, "cancelling")
            /\ UNCHANGED <<phase, cancelled>>
         \/ \E j \in stopper.todo :
               /\ stopper'.at = "marking" /\ stopper'.todo = stopper.todo \ {j}
               /\ \/ /\ phase' = [phase EXCEPT ![j] = "Cancelling"] /\ Req!Live(j) /\ ~finalizing[j]
                     /\ cancelled' = cancelled \cup {j}
                  \/ ~Req!Live(j) /\ UNCHANGED <<phase, cancelled>>
  <2>1. CASE stopper.todo = {} /\ Goto("stop", "cancelling") /\ UNCHANGED <<request, cancelled>>
    BY <2>1, StopGoes DEF Places, request
  <2>2. CASE \E j \in stopper.todo :
               /\ thread' = [thread EXCEPT !["stop"].todo = @ \ {j}]
               /\ \/ Req!markCancelling(j) /\ cancelled' = cancelled \cup {j}
                  \/ ~finalizing[j] /\ ~Req!Live(j) /\ UNCHANGED <<request, cancelled>>
    <3>0. PICK j \in stopper.todo :
               /\ thread' = [thread EXCEPT !["stop"].todo = @ \ {j}]
               /\ \/ Req!markCancelling(j) /\ cancelled' = cancelled \cup {j}
                  \/ ~finalizing[j] /\ ~Req!Live(j) /\ UNCHANGED <<request, cancelled>>
      BY <2>2, ZenonT(40)
    <3> DEFINE r == [stopper EXCEPT !.todo = stopper.todo \ {j}]
    <3>1. r \in Locals /\ r.at = "marking" /\ r.todo = stopper.todo \ {j}
      BY ThreadsTyped DEF Locals
    <3>2. thread' = [thread EXCEPT !["stop"] = r]
      BY <3>0 DEF stopper, Threads
    <3> HIDE DEF r
    <3> QED BY <3>0, <3>1, <3>2, StopSet, ZenonT(40) DEF Req!markCancelling, request
  <2> QED BY <2>1, <2>2 DEF marking, stopper
<1>   /\ phase' \in [Jobs -> {"None", "Accepted", "Running", "Cancelling", "Terminal"}]
      /\ cancelled \subseteq cancelled' /\ cancelled' \subseteq Jobs
      /\ \A j \in Jobs : \/ phase'[j] = phase[j]
                         \/ /\ Req!Live(j) /\ ~finalizing[j] /\ phase'[j] = "Cancelling"
                            /\ j \in cancelled'
  <2>1. stopper.todo \in SUBSET Jobs
    BY ThreadsTyped DEF Locals
  <2>2. phase \in [Jobs -> {"None", "Accepted", "Running", "Cancelling", "Terminal"}]
    BY DEF Types
  <2>3. cancelled \subseteq Jobs
    BY DEF Types
  <2> QED BY <2>1, <2>2, <2>3
<1>   Complete'
  BY DEF Complete, OkMeansComplete, Types
<1>   LeaseWhileLive'
  BY DEF LeaseWhileLive, Types, Req!Live
<1>   Cancels'
  BY DEF Cancels, Doomed, Types, Moved
<1>   Counted'
  BY DEF Counted, Pending, Doomed, Req!Live, Types, Moved
<1>   Marked'
  BY DEF Marked, Clearing, Ending, Req!Live, Types, Moved
<1>   Leftovers'
  BY DEF Leftovers, LeftTo, Ending, Moved
<1>   Phased'
  BY DEF Phased, At1, Unended, Types, Moved, Req!Live
<1>   Held'
  BY DEF Held, HeldBy, Holding, Ending, Unended, Types, Moved, Req!Live
<1>   Ended'
  BY DEF Ended, Holding, Ending, Moved
<1>   Tables'
  BY DEF Tables, At1, Types, Moved, Req!Live
<1>   Control'
  BY DEF Control, Shared, Holding, Clearing, Ending, Moved
<1>   Types'
  BY DEF Types
<1>   Enqueuing'
  BY Untouched, ZenonT(40)
<1> QED BY DEF IInv

\* stop tells the executor.
LEMMA StopCancellingKeeps ==
    ASSUME IInv, stopCancelling
    PROVE  IInv'
<1>   /\ Types /\ Threads /\ Control /\ Enqueuing /\ Phased /\ Tables /\ LeaseWhileLive
      /\ Held /\ Leftovers /\ Marked /\ Counted /\ Cancels /\ Ended /\ Complete
  BY DEF IInv
<1>   /\ stopper.at = "cancelling" /\ Goto("stop", "shutdown")
      /\ told' = told \cup (cancelled \cap executing)
      /\ UNCHANGED <<leases, phase, completionTokens, finalizing, terminal, terminalCommitted,
                     runtime_state, submit, backend_state, requests, externalToExecutor,
                     executing, generated, cancelled>>
  BY DEF stopCancelling, At, stopper, admission, request, tables, executor
<1>   Threads' /\ pump' = pump /\ Moved(stopper', stopper, "shutdown")
  BY StopGoes DEF Places
<1>   Cancels'
  BY DEF Cancels, Doomed, Types, Moved
<1>   Marked'
  BY DEF Marked, Clearing, Ending, Req!Live, Types, Moved
<1>   Leftovers'
  BY DEF Leftovers, LeftTo, Ending, Moved
<1>   Phased'
  BY DEF Phased, At1, Unended, Types, Moved
<1>   Held'
  BY DEF Held, HeldBy, Holding, Ending, Unended, Types, Moved
<1>   Tables'
  BY DEF Tables, At1, Types, Moved
<1>   Control'
  BY DEF Control, Shared, Holding, Clearing, Ending, Moved
<1>   Types'
  BY DEF Types
<1>   Enqueuing' /\ LeaseWhileLive' /\ Counted' /\ Ended' /\ Complete'
  BY Untouched, ZenonT(40)
<1> QED BY DEF IInv

\* The executor is shut down.
LEMMA ShutdownKeeps ==
    ASSUME IInv, shutdown
    PROVE  IInv'
<1>   /\ Types /\ Threads /\ Control /\ Enqueuing /\ Phased /\ Tables /\ LeaseWhileLive
      /\ Held /\ Leftovers /\ Marked /\ Counted /\ Cancels /\ Ended /\ Complete
  BY DEF IInv
<1>   /\ stopper.at = "shutdown" /\ Goto("stop", "join") /\ executing' = {} /\ told' = {}
      /\ UNCHANGED <<leases, phase, completionTokens, finalizing, terminal, terminalCommitted,
                     runtime_state, submit, backend_state, requests, externalToExecutor,
                     generated, cancelled>>
  BY DEF shutdown, At, stopper, admission, request, tables, executor
<1>   Threads' /\ pump' = pump /\ Moved(stopper', stopper, "join")
  BY StopGoes DEF Places
<1>   Complete'
  BY DEF Complete, OkMeansComplete, Types
<1>   Cancels'
  BY DEF Cancels, Doomed, Types, Moved
<1>   Marked'
  BY DEF Marked, Clearing, Ending, Req!Live, Types, Moved
<1>   Enqueuing'
  BY DEF Enqueuing, Types
<1>   Leftovers'
  BY DEF Leftovers, LeftTo, Ending, Moved
<1>   Phased'
  BY DEF Phased, At1, Unended, Types, Moved
<1>   Held'
  BY DEF Held, HeldBy, Holding, Ending, Unended, Types, Moved
<1>   Ended'
  BY DEF Ended, Holding, Ending, Moved
<1>   Tables'
  BY DEF Tables, At1, Types, Moved
<1>   Control'
  BY DEF Control, Shared, Holding, Clearing, Ending, Moved
<1>   Types'
  BY DEF Types
<1>   LeaseWhileLive' /\ Counted'
  BY Untouched, ZenonT(40)
<1> QED BY DEF IInv

\* The pump is gone: what is left is up to stop.
LEMMA JoinKeeps ==
    ASSUME IInv, join
    PROVE  IInv'
<1>   /\ Types /\ Threads /\ Control /\ Enqueuing /\ Phased /\ Tables /\ LeaseWhileLive
      /\ Held /\ Leftovers /\ Marked /\ Counted /\ Cancels /\ Ended /\ Complete
  BY DEF IInv
<1>   /\ stopper.at = "join" /\ pump.at = "exited"
      /\ UNCHANGED <<leases, phase, completionTokens, finalizing, terminal, terminalCommitted,
                     runtime_state, submit, backend_state, requests, externalToExecutor,
                     executing, told, generated, cancelled>>
  BY DEF join, PumpJoined, At, stopper, pump, admission, request, tables, executor
<1>   Threads' /\ pump' = pump /\ stopper'.at = "finalizeAll" /\ stopper'.todo = requests
  <2> DEFINE r == [stopper EXCEPT !.at = "finalizeAll", !.todo = requests]
  <2>1. r \in Locals /\ r.at = "finalizeAll" /\ r.todo = requests
    BY ThreadsTyped, ZenonT(40) DEF Locals, Places, Types
  <2>2. thread' = [thread EXCEPT !["stop"] = r]
    BY ZenonT(40) DEF join, Leftover, stopper, Threads
  <2> HIDE DEF r
  <2> QED BY <2>1, <2>2, StopSet, ZenonT(40)
<1>   Marked'
  BY DEF Marked, Clearing, Ending, Req!Live, Types, Control, Cancels, Doomed, Phased, Tables, At1
<1>   Leftovers'
  BY DEF Leftovers, LeftTo, Ending
<1>   Phased'
  BY DEF Phased, At1, Unended, Types
<1>   Held'
  BY DEF Held, HeldBy, Holding, Ending, Unended, Types
<1>   Tables'
  BY DEF Tables, At1, Types
<1>   Control'
  BY DEF Control, Shared, Holding, Clearing, Ending
<1>   Types'
  BY DEF Types
<1>   Enqueuing' /\ LeaseWhileLive' /\ Counted' /\ Cancels' /\ Ended' /\ Complete'
  BY Untouched, ZenonT(40)
<1> QED BY DEF IInv

\* stop is done: no request is left, so both tables are empty.
LEMMA StoppedKeeps ==
    ASSUME IInv, stopped
    PROVE  IInv'
<1>   /\ Types /\ Threads /\ Control /\ Enqueuing /\ Phased /\ Tables /\ LeaseWhileLive
      /\ Held /\ Leftovers /\ Marked /\ Counted /\ Cancels /\ Ended /\ Complete
  BY DEF IInv
<1>   /\ stopper.at = "reset" /\ Goto("stop", "exited")
      /\ backend_state' = IF requests = {} /\ \A id \in Ids : externalToExecutor[id] = Nobody
                            THEN "Stopped" ELSE "Failed"
      /\ runtime_state' = IF Adm!NothingReserved THEN "Stopped" ELSE "Failed"
      /\ UNCHANGED <<leases, phase, completionTokens, finalizing, terminal, terminalCommitted,
                     submit, requests, externalToExecutor, executing, told, generated,
                     cancelled>>
  BY DEF stopped, At, stopper, admission, request, tables, executor
<1>   Threads' /\ pump' = pump /\ Moved(stopper', stopper, "exited")
  BY StopGoes DEF Places
<1>   backend_state' = "Stopped" /\ runtime_state' \in {"Stopped", "Failed"} /\ requests = {}
  <2>1. requests = {} /\ ~Shared
    BY DEF Leftovers, Control
  <2>2. leases = {}
    BY <2>1 DEF LeaseWhileLive, Tables, Shared, Types
  <2>4. \A id \in Ids : externalToExecutor[id] = Nobody
    BY <2>1 DEF Tables
  <2> QED BY <2>1, <2>4
<1>   Marked'
  BY DEF Marked, Clearing, Ending, Req!Live, Types, Moved
<1>   Enqueuing'
  BY DEF Enqueuing, Types, Control, Shared
<1>   Leftovers'
  BY DEF Leftovers, LeftTo, Ending, Moved
<1>   Phased'
  BY DEF Phased, At1, Unended, Types, Moved
<1>   Held'
  BY DEF Held, HeldBy, Holding, Ending, Unended, Types, Moved
<1>   Tables'
  BY DEF Tables, At1, Types, Moved
<1>   Control'
  BY DEF Control, Shared, Holding, Clearing, Ending, Moved, Tables
<1>   Types'
  BY DEF Types
<1>   LeaseWhileLive' /\ Counted' /\ Cancels' /\ Ended' /\ Complete'
  BY Untouched, ZenonT(40)
<1> QED BY DEF IInv

-----------------------------------------------------------------------------
(* The steps together. *)

\* Nothing has happened yet.
LEMMA InitIInv ==
    ASSUME Init
    PROVE  IInv
<1> USE DEF Init, Adm!Init, Req!Init
<1>1. pump = Idle /\ stopper = Idle
  BY DEF pump, stopper
<1>2. Types /\ Threads
  BY IdleTyped, ConfigValid DEF Types, Threads
<1>3. Control /\ Enqueuing
  BY <1>1 DEF Control, Enqueuing, Holding, Ending, Clearing, Shared, Idle
<1>4. Phased /\ Tables /\ LeaseWhileLive
  BY DEF Phased, Tables, LeaseWhileLive
<1>6. Held /\ Leftovers /\ Marked
  BY <1>1 DEF Held, HeldBy, Leftovers, LeftTo, Marked, Holding, Ending, Clearing, Idle
<1>7. Counted
  BY <1>1 DEF Counted, Pending, Idle, Req!Live
<1>8. Cancels /\ Ended /\ Complete
  BY <1>1 DEF Cancels, Ended, Complete, OkMeansComplete, Holding, Ending, Idle, Req!NoTerminal
<1> QED BY <1>2, <1>3, <1>4, <1>6, <1>7, <1>8 DEF IInv

\* A consumer that reads its mailbox disturbs nothing.
LEMMA WaitPopKeeps ==
    ASSUME IInv, NEW j \in Jobs, waitPop(j)
    PROVE  IInv'
<1>1. /\ UNCHANGED <<admission, phase, completionTokens, finalizing, terminalCommitted>>
      /\ UNCHANGED <<runtime_state, submit, tables, thread, executor, cancelled>>
  BY DEF waitPop, Req!waitPopDelta, Req!waitPopTerminal, Req!requestState
<1>2. terminal' \in {terminal, [terminal EXCEPT ![j] = Req!NoTerminal]}
  BY DEF waitPop, Req!waitPopDelta, Req!waitPopTerminal
<1>3. terminal \in [Jobs -> [status : Statuses \cup {"none"}, usage : Nat]]
  BY DEF IInv, Complete
<1>4. /\ terminal' \in [Jobs -> [status : Statuses \cup {"none"}, usage : Nat]]
      /\ \A i \in Jobs : terminal'[i] = terminal[i] \/ terminal'[i].status = "none"
  BY <1>2, <1>3 DEF Req!NoTerminal
<1> QED BY <1>1, <1>4, QuietKeeps DEF admission, tables, executor

\* Every step of a runtime that has not failed preserves the invariant.
LEMMA StepIInv ==
    ASSUME IInv, runtime_state # "Failed", [Next]_vars
    PROVE  IInv'
<1>1. ASSUME NEW j \in Jobs, Submit(j) PROVE IInv'
  BY <1>1, AdmitKeeps, RejectKeeps, EnqueueRequestKeeps, RefuseKeeps, RegisterKeeps,
     DropMailboxKeeps
     DEF Submit
<1>2. ASSUME NEW j \in Jobs, Response(j) PROVE IInv'
  BY <1>2, ResponseKeeps DEF Response
<1>3. CASE Pump
  BY <1>3, PumpLoopsKeeps, FoundKeeps, CommitKeeps, MarkKeeps, TellKeeps, MarkFailedKeeps,
     FinalizePumpKeeps, FinalizedPumpKeeps, ErasePumpKeeps, FinalizeAllPumpKeeps
     DEF Pump, Finalization
<1>4. CASE Stop
  BY <1>4, StoppingKeeps, MarkingKeeps, StopCancellingKeeps, ShutdownKeeps, JoinKeeps,
     StoppedKeeps, FinalizeStopKeeps, FinalizedStopKeeps, EraseStopKeeps, FinalizeAllStopKeeps
     DEF Stop, Finalization
<1>5. CASE UNCHANGED vars
  <2>1. terminal \in [Jobs -> [status : Statuses \cup {"none"}, usage : Nat]]
    BY DEF IInv, Complete
  <2> QED BY <1>5, <2>1, QuietKeeps DEF vars, admission, request, tables, executor
<1> QED BY <1>1, <1>2, <1>3, <1>4, <1>5, StartKeeps, StopKeeps, PumpLoopsKeeps, WaitPopKeeps,
           CancelKeeps
           DEF Next

-----------------------------------------------------------------------------
(* The parts are used as their own specifications allow. *)

\* Every step of the runtime is one of admission control, or leaves it alone.
LEMMA AdmissionStep ==
    ASSUME IInv, [Next]_vars
    PROVE  [Adm!Next]_(Adm!admission)
<1> USE DEF admission, Adm!admission
<1>1. CASE start
  BY <1>1 DEF start, Adm!Next
<1>2. CASE stop
  BY <1>2 DEF stop, Adm!Next
<1>3. ASSUME NEW j \in Jobs, admit(j) PROVE Adm!Next
  BY <1>3 DEF admit, Adm!Next
<1>4. ASSUME NEW j \in Jobs, dropMailbox(j) PROVE Adm!Next
  BY <1>4 DEF dropMailbox, Adm!Next
<1>5. ASSUME NEW t \in {"pump", "stop"}, finalized(t) PROVE Adm!Next
  <2>1. thread[t].job \in Jobs
    BY <1>5 DEF finalized, At, IInv, Types, Held, HeldBy, Holding, Ending, pump, stopper
  <2> QED BY <1>5, <2>1 DEF finalized, Adm!Next
<1>6. ASSUME NEW j \in Jobs, Submit(j) \/ Response(j) \/ waitPop(j)
      PROVE  Adm!Next \/ UNCHANGED admission
  BY <1>3, <1>4, <1>6, ZenonT(40)
     DEF Submit, Response, reject, enqueueRequest, refuse, register, response, waitPop
<1>7. ASSUME NEW t \in {"pump", "stop"}, Finalization(t)
      PROVE  Adm!Next \/ UNCHANGED admission
  BY <1>5, <1>7 DEF Finalization, finalize, eraseRequest
<1>8. CASE Pump
  BY <1>7, <1>8, ZenonT(40)
     DEF Pump, isRunning, batchDone, found, commit, mark, cancelExecutorRequest, markFailed,
         finalizeAll
<1>9. CASE Stop
  BY <1>7, <1>9, ZenonT(40)
     DEF Stop, stopping, marking, stopCancelling, shutdown, join, stopped, finalizeAll
<1>10. CASE UNCHANGED vars
  BY <1>10 DEF vars
<1> QED BY <1>1, <1>2, <1>6, <1>8, <1>9, <1>10 DEF Next, throw, cancel

\* Every step of the runtime is one of RequestState and its mailbox, or leaves them alone:
\* the thread that finalizes has a request and a status, the tokens are in the bounds.
LEMMA RequestStep ==
    ASSUME IInv, [Next]_vars
    PROVE  [Req!Next]_(Req!vars)
<1> USE DEF request, Req!vars, Req!requestState, Req!mailbox
<1>0. Types /\ Threads /\ Held /\ Counted /\ Control /\ pump \in Locals
  BY ThreadsTyped DEF IInv
<1>1. ASSUME NEW j \in Jobs, \/ Req!create(j) \/ Req!markRunning(j) \/ Req!markCancelling(j)
                             \/ Req!endFinalize(j)
                             \/ Req!waitPopDelta(j) \/ Req!waitPopTerminal(j)
      PROVE  Req!Next
  BY <1>1 DEF Req!Next
<1>2. ASSUME NEW t \in {"pump", "stop"}, thread[t].at \in Holding
      PROVE  thread[t].job \in Jobs
  BY <1>0, <1>2 DEF Types, Held, HeldBy, pump, stopper
<1>3. ASSUME NEW j \in Jobs, Submit(j) \/ Response(j) \/ waitPop(j)
      PROVE  Req!Next \/ UNCHANGED request
  BY <1>1, <1>3, ZenonT(40)
     DEF Submit, admit, reject, enqueueRequest, refuse, register, dropMailbox, Response, response,
         waitPop
<1>4. ASSUME NEW id \in Ids, cancel(id) PROVE Req!Next
  <2>1. externalToExecutor[id] \in Jobs
    BY <1>0, <1>4 DEF cancel, cancelInBackend, Types
  <2> QED BY <1>1, <1>4, <2>1 DEF cancel, cancelInBackend
<1>5. ASSUME NEW t \in {"pump", "stop"}, Finalization(t) PROVE Req!Next \/ UNCHANGED request
  <2>1. CASE finalize(t)
    <3>1. thread[t].job \in Jobs /\ thread[t].status \in Statuses
      BY <1>0, <1>2, <2>1 DEF finalize, At, Held, HeldBy, Holding, Ending, pump, stopper
    <3> QED BY <2>1, <3>1 DEF finalize, Req!Next
  <2>2. CASE finalized(t)
    BY <1>1, <1>2, <2>2 DEF finalized, At, Holding, Ending
  <2>3. CASE eraseRequest(t)
    BY <2>3 DEF eraseRequest
  <2> QED BY <1>5, <2>1, <2>2, <2>3 DEF Finalization
<1>6. CASE found
  BY <1>1, <1>2, <1>6 DEF found, At, Holding, markRunning
<1>7. CASE commit
  <2>1. CASE UNCHANGED request
    BY <2>1
  <2>2. CASE pump.tokens > 0 /\ Req!tryCommitDelta(pump.job, pump.tokens)
    <3>1. PICK j \in Jobs : j = pump.job
      BY <1>2, <1>7 DEF commit, At, Holding, pump
    <3>2. Pending(j) = pump.tokens /\ completionTokens[j] + Pending(j) <= generated[j]
      BY <1>0, <1>7, <3>1 DEF commit, At, Pending, Counted, pump
    <3>3. /\ pump.tokens \in Nat /\ completionTokens[j] \in Nat /\ generated[j] \in Nat
          /\ generated[j] <= MaxTokens
      BY <1>0, ConfigValid DEF Types, Locals
    <3>4. pump.tokens \in 1..(MaxTokens - completionTokens[j])
      BY <2>2, <3>2, <3>3, ConfigValid
    <3> QED BY <2>2, <3>1, <3>4 DEF Req!Next
  <2> QED BY <1>7, <2>1, <2>2 DEF commit, pump
<1>8. CASE mark
  BY <1>1, <1>2, <1>8 DEF mark, At, Holding
<1>9. CASE marking
  <2>1. stopper.todo \subseteq Jobs
    BY <1>0, ThreadsTyped DEF Locals
  <2> QED BY <1>1, <1>9, <2>1 DEF marking, stopper
<1>10. CASE Pump
  BY <1>5, <1>6, <1>7, <1>8, <1>10, ZenonT(40)
     DEF Pump, isRunning, batchDone, cancelExecutorRequest, markFailed, finalizeAll
<1>11. CASE Stop
  BY <1>5, <1>9, <1>11, ZenonT(40)
     DEF Stop, stopping, stopCancelling, shutdown, join, stopped, finalizeAll
<1>12. CASE UNCHANGED vars
  BY <1>12 DEF vars
<1> QED BY <1>3, <1>4, <1>10, <1>11, <1>12 DEF Next, start, stop, throw

====
