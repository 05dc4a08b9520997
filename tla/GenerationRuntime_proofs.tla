----------------------- MODULE GenerationRuntime_proofs -----------------------
(***************************************************************************)
(* What is true of the generation runtime however many requests there are  *)
(* and however submit, cancel, the pump, the executor, the consumers and   *)
(* stop interleave: the books agree, a stopped runtime owes nothing, Ok    *)
(* means complete, and admission control and the requests are used as      *)
(* their own specifications allow.                                         *)
(***************************************************************************)
EXTENDS GenerationRuntimeSteps_proofs, Sums_proofs

USE RecordUpdate, SMTT(40)

-----------------------------------------------------------------------------
(* Leases, and that the runtime never fails. *)

\* What admission control has reserved is what the leases hold.
LeasesExact ==
    /\ active_request_ids = {request_id[j] : j \in leases}
    /\ \A i, j \in leases : request_id[i] = request_id[j] => i = j
    /\ reserved_input_tokens = SumOf(leases, input_tokens)
    /\ reserved_output_tokens = SumOf(leases, output_tokens)

\* A lease more, or one less, changes the totals by what its call asked for.
LEMMA LeaseSums ==
    ASSUME NEW S, S \subseteq Jobs, NEW j \in Jobs \ S,
           NEW f, \A i \in Jobs : f[i] \in Nat
    PROVE  SumOf(S \cup {j}, f) = SumOf(S, f) + f[j] /\ SumOf(S, f) \in Nat
<1>1. IsFiniteSet(S)
  BY ConfigValid, FS_Subset
<1> QED BY <1>1, SumAdd, SumType, ZenonT(40)

\* Admission control keeps its totals exact: tryAcquire refuses an id that is in use,
\* and release gives back what its own lease holds (admission_controller.cpp).
LEMMA LeasesStep ==
    ASSUME Types, LeasesExact, [Adm!Next]_(Adm!admission)
    PROVE  LeasesExact'
<1>0. /\ leases \subseteq Jobs
      /\ \A i \in Jobs : input_tokens[i] \in Nat /\ output_tokens[i] \in Nat
  BY ConfigValid DEF Types
<1>1. ASSUME NEW j \in Jobs, Adm!tryAcquire(j) PROVE LeasesExact'
  <2>1. leases' = leases \cup {j} /\ j \notin leases
    BY <1>1 DEF Adm!tryAcquire, Adm!Refused, Adm!Duplicate, LeasesExact
  <2>2. /\ active_request_ids' = {request_id[i] : i \in leases'}
        /\ \A i, k \in leases' : request_id[i] = request_id[k] => i = k
    BY <1>1, <2>1 DEF LeasesExact, Adm!tryAcquire, Adm!Refused, Adm!Duplicate
  <2>3. /\ SumOf(leases', input_tokens) = SumOf(leases, input_tokens) + input_tokens[j]
        /\ SumOf(leases', output_tokens) = SumOf(leases, output_tokens) + output_tokens[j]
    BY <1>0, <2>1, LeaseSums, ZenonT(40)
  <2> QED BY <1>1, <2>2, <2>3 DEF LeasesExact, Adm!tryAcquire
<1>2. ASSUME NEW j \in Jobs, Adm!release(j) PROVE LeasesExact'
  <2>1. leases' = leases \ {j} /\ j \in leases
    BY <1>2 DEF Adm!release
  <2>2. /\ active_request_ids' = {request_id[i] : i \in leases'}
        /\ \A i, k \in leases' : request_id[i] = request_id[k] => i = k
    BY <1>2, <2>1 DEF LeasesExact, Adm!release
  <2>3. leases' \subseteq Jobs /\ j \in Jobs \ leases' /\ leases = leases' \cup {j}
    BY <1>0, <2>1
  <2>4. /\ SumOf(leases, input_tokens) = SumOf(leases', input_tokens) + input_tokens[j]
        /\ SumOf(leases, output_tokens) = SumOf(leases', output_tokens) + output_tokens[j]
        /\ SumOf(leases', input_tokens) \in Nat /\ SumOf(leases', output_tokens) \in Nat
    BY <1>0, <2>3, LeaseSums, ZenonT(40)
  <2> QED BY <1>0, <1>2, <2>2, <2>4 DEF LeasesExact, Adm!release
<1>3. CASE Adm!open \/ Adm!close \/ UNCHANGED Adm!admission
  BY <1>3 DEF LeasesExact, Adm!open, Adm!close, Adm!admission
<1> QED BY <1>1, <1>2, <1>3 DEF Adm!Next

\* A runtime without requests has no lease, so nothing is reserved.
LEMMA NothingLeft ==
    ASSUME IInv, LeasesExact, requests = {}, ~Shared
    PROVE  leases = {} /\ Adm!NothingReserved
<1>1. leases = {}
  BY DEF IInv, Types, LeaseWhileLive, Tables, Shared
<1> QED BY <1>1, SumEmpty DEF LeasesExact, Adm!NothingReserved

\* All of it: the invariant of the steps, the totals, and no failure.
Inv == IInv /\ LeasesExact /\ runtime_state # "Failed"

\* Every step keeps it; stop finds everything given back.
LEMMA StepInv ==
    ASSUME Inv, [Next]_vars
    PROVE  Inv'
<1>1. IInv' /\ LeasesExact'
  BY StepIInv, AdmissionStep, LeasesStep DEF Inv, IInv
<1>2. CASE stopped
  <2>1. requests = {} /\ ~Shared
    BY <1>2 DEF Inv, IInv, Leftovers, Control, stopped, At, stopper
  <2> QED BY <1>1, <1>2, <2>1, NothingLeft DEF Inv, stopped
<1>3. CASE ~stopped
  <2>1. runtime_state' \in {runtime_state, "Running"}
    BY <1>3, ZenonT(40)
       DEF Next, Submit, Response, Pump, Stop, Finalization, vars, start, stop, throw, admit,
           reject, enqueueRequest, refuse, register, dropMailbox, response, waitPop, cancel,
           isRunning, batchDone, found, commit, mark, cancelExecutorRequest, markFailed, finalize,
           finalized, eraseRequest, finalizeAll, stopping, marking, stopCancelling, shutdown, join
  <2> QED BY <1>1, <2>1 DEF Inv
<1> QED BY <1>2, <1>3

-----------------------------------------------------------------------------
(* The theorems. *)

\* The inductive invariant holds in every state of the runtime.
THEOREM Invariance == Spec => []Inv
<1>1. Init => Inv
  <2>1. Init => LeasesExact /\ runtime_state # "Failed"
    BY SumEmpty DEF Init, Adm!Init, LeasesExact
  <2> QED BY <2>1, InitIInv DEF Inv
<1>2. Inv /\ [Next]_vars => Inv'
  BY StepInv
<1> QED BY <1>1, <1>2, PTL DEF Spec

\* The lease, the tables and the phase of a request agree between any two steps of
\* submit, cancel, the pump and stop, however many requests there are; finalize is
\* called once per request (generation_runtime.cpp, trtllm_executor_backend.cpp).
THEOREM BookkeepingHolds == Spec => []Bookkeeping
<1>1. Inv => Bookkeeping
  <2> SUFFICES ASSUME Inv PROVE Bookkeeping
    OBVIOUS
  <2>1. Types /\ Control /\ Phased /\ Tables /\ LeaseWhileLive /\ Held
    BY DEF Inv, IInv
  <2>2. DOMAIN thread = {"pump", "stop"} /\ pump \in Locals /\ stopper \in Locals
    BY ThreadsTyped DEF Inv, IInv, Threads
  <2>3. TypeOK
    BY <2>1, <2>2 DEF TypeOK, Types, Locals, Held, HeldBy, Holding, Ending, pump, stopper
  <2>4. TablesTrackRequests
    BY <2>1, <2>2 DEF TablesTrackRequests, Tables, At, At1, pump, stopper
  <2>5. FinalizedOnce
    BY <2>1, <2>2
       DEF FinalizedOnce, Held, HeldBy, Phased, Types, Holding, Ending, Unended, At, pump, stopper
  <2> QED BY <2>1, <2>3, <2>4, <2>5 DEF Bookkeeping
<1> QED BY <1>1, Invariance, PTL

\* Whatever was going on when stop was called, a stopped runtime has no lease, no
\* request and no reservation, every accepted request has its Terminal, and the
\* runtime never ends up Failed (GenerationRuntime::stop).
THEOREM StoppedHolds == Spec => []StoppedOwesNothing
<1>1. Inv => StoppedOwesNothing
  <2> SUFFICES ASSUME Inv PROVE StoppedOwesNothing
    OBVIOUS
  <2>1. Types /\ Control /\ Phased /\ Tables /\ LeaseWhileLive /\ LeasesExact
    BY DEF Inv, IInv
  <2>2. CASE runtime_state = "Stopped"
    <3>1. backend_state = "Stopped" /\ requests = {} /\ ~Shared
      BY <2>1, <2>2 DEF Control
    <3>2. leases = {} /\ Adm!NothingReserved
      BY <3>1, NothingLeft DEF Inv
    <3>3. \A j \in Jobs : submit[j] = "accepted" => terminalCommitted[j]
      BY <2>1, <3>1 DEF Tables, Phased
    <3> QED BY <2>2, <3>1, <3>2, <3>3 DEF StoppedOwesNothing
  <2> QED BY <2>1, <2>2 DEF Inv, StoppedOwesNothing, Types
<1> QED BY <1>1, Invariance, PTL

\* A request that ends as Ok without having been cancelled has delivered all that the
\* executor produced for it, and one that ends as Cancelled was cancelled or stopped
\* (handleResponse, finalizeRequest).
THEOREM OkHolds == Spec => []OkMeansComplete
<1>1. Inv => OkMeansComplete
  BY DEF Inv, IInv, Complete
<1> QED BY <1>1, Invariance, PTL

\* Through all its paths the runtime takes and returns leases only as admission
\* control allows: each is released once, by the one who holds it, and opened only
\* when nothing is reserved.
THEOREM AdmissionImplemented == Spec => ImplementsAdmission
<1>1. Init => Adm!Init
  BY DEF Init
<1>2. Inv /\ [Next]_vars => [Adm!Next]_(Adm!admission)
  BY AdmissionStep DEF Inv
<1> QED BY <1>1, <1>2, Invariance, PTL DEF Spec, Adm!Spec, ImplementsAdmission

\* Pump, cancel, stop and consumers together drive each request only through steps
\* that its RequestState and mailbox allow, so what is proved of those
\* (RequestState_proofs) holds of every request of the runtime.
THEOREM RequestsImplemented == Spec => ImplementsRequests
<1>1. Init => Req!Init
  BY DEF Init
<1>2. Inv /\ [Next]_vars => [Req!Next]_(Req!vars)
  BY RequestStep DEF Inv
<1> QED BY <1>1, <1>2, Invariance, PTL DEF Spec, Req!Spec, ImplementsRequests

====
