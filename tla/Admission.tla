----------------------------- MODULE Admission -----------------------------
(***************************************************************************)
(* Admission control of the generation runtime                             *)
(* (src/runtime/admission_controller.cpp).  A call of submit that passes   *)
(* tryAcquire holds a lease: its request id and its share of the input and *)
(* output token budgets.  The lease is released once, and only then can    *)
(* the id or the tokens be given to another call.                          *)
(*                                                                         *)
(* Every operation locks AdmissionState, so it is one action.  A lease is  *)
(* a moved-only object, identified here with the call that acquired it.    *)
(***************************************************************************)
EXTENDS Integers, FiniteSets, Sums

CONSTANTS
    Jobs,                   \* calls of submit
    request_id,             \* the id each call passes
    input_tokens,           \* the length of its prompt
    output_tokens,          \* its max_new_tokens
    max_active_requests, max_total_input_tokens, max_reserved_output_tokens

\* What submit has validated of its request, and the constructor of the limits.
ASSUME JobsValid ==
    /\ IsFiniteSet(Jobs)
    /\ \A j \in Jobs : input_tokens[j] \in Nat \ {0} /\ output_tokens[j] \in Nat \ {0}

ASSUME LimitsValid ==
    \A c \in {max_active_requests, max_total_input_tokens, max_reserved_output_tokens} :
        c \in Nat \ {0}

VARIABLES
    accepting, active_request_ids, reserved_input_tokens, reserved_output_tokens,
    leases                  \* the calls that hold a valid AdmissionLease

admission == <<accepting, active_request_ids, reserved_input_tokens, reserved_output_tokens,
               leases>>

Init ==
    /\ accepting = FALSE
    /\ active_request_ids = {}
    /\ reserved_input_tokens = 0
    /\ reserved_output_tokens = 0
    /\ leases = {}

-----------------------------------------------------------------------------
\* What the previous session left must have come back.
NothingReserved ==
    active_request_ids = {} /\ reserved_input_tokens = 0 /\ reserved_output_tokens = 0

open ==
    /\ NothingReserved
    /\ accepting' = TRUE
    /\ UNCHANGED <<active_request_ids, reserved_input_tokens, reserved_output_tokens, leases>>

close ==
    /\ accepting' = FALSE
    /\ UNCHANGED <<active_request_ids, reserved_input_tokens, reserved_output_tokens, leases>>

Duplicate(j) == request_id[j] \in active_request_ids

ActiveLimit == Cardinality(active_request_ids) >= max_active_requests

\* request > limit - current, as the code has it against overflow.
InputLimit(j) == input_tokens[j] > max_total_input_tokens - reserved_input_tokens

OutputLimit(j) == output_tokens[j] > max_reserved_output_tokens - reserved_output_tokens

\* tryAcquire answers with a refusal, and changes nothing.
Refused(j) == ~accepting \/ Duplicate(j) \/ ActiveLimit \/ InputLimit(j) \/ OutputLimit(j)

tryAcquire(j) ==
    /\ ~Refused(j)
    /\ active_request_ids' = active_request_ids \cup {request_id[j]}
    /\ reserved_input_tokens' = reserved_input_tokens + input_tokens[j]
    /\ reserved_output_tokens' = reserved_output_tokens + output_tokens[j]
    /\ leases' = leases \cup {j}
    /\ UNCHANGED accepting

\* A plausible bug: the output budget is not given back.
release_OutputKept(j) ==
    /\ j \in leases
    /\ request_id[j] \in active_request_ids
    /\ active_request_ids' = active_request_ids \ {request_id[j]}
    /\ reserved_input_tokens' = reserved_input_tokens - input_tokens[j]
    /\ leases' = leases \ {j}
    /\ UNCHANGED <<accepting, reserved_output_tokens>>

\* AdmissionLease::release of a valid lease.  (Its early return, for an id that is
\* not active, is never taken: LeasesAccounted.)
release(j) ==
    /\ j \in leases
    /\ request_id[j] \in active_request_ids
    /\ active_request_ids' = active_request_ids \ {request_id[j]}
    /\ reserved_input_tokens' = reserved_input_tokens - input_tokens[j]
    /\ reserved_output_tokens' = reserved_output_tokens - output_tokens[j]
    /\ leases' = leases \ {j}
    /\ UNCHANGED accepting

Next ==
    \/ open
    \/ close
    \/ \E j \in Jobs : tryAcquire(j) \/ release(j)

Spec == Init /\ [][Next]_admission

-----------------------------------------------------------------------------
\* The unsigned totals never wrap below zero, and the fields have their types.
TypeOK ==
    /\ accepting \in BOOLEAN
    /\ active_request_ids \subseteq {request_id[j] : j \in Jobs}
    /\ reserved_input_tokens \in Nat
    /\ reserved_output_tokens \in Nat
    /\ leases \subseteq Jobs

\* The running totals are the sums over the leases still held, the active ids
\* are theirs, and no two leases have the same id: what release subtracts is
\* what tryAcquire added, once.
LeasesAccounted ==
    /\ active_request_ids = {request_id[j] : j \in leases}
    /\ \A i, j \in leases : request_id[i] = request_id[j] => i = j
    /\ reserved_input_tokens = SumOf(leases, input_tokens)
    /\ reserved_output_tokens = SumOf(leases, output_tokens)

\* However calls interleave, the three limits hold.
WithinLimits ==
    /\ Cardinality(active_request_ids) <= max_active_requests
    /\ reserved_input_tokens <= max_total_input_tokens
    /\ reserved_output_tokens <= max_reserved_output_tokens

\* Admission never promises more than it has: the totals are exact and within
\* the limits after every call of tryAcquire, release, open and close.
Bookkeeping == TypeOK /\ LeasesAccounted /\ WithinLimits

====
