-------------------------- MODULE Admission_proofs --------------------------
(***************************************************************************)
(* The budgets of Admission hold for any number of calls and any limits.   *)
(***************************************************************************)
EXTENDS Admission, Sums_proofs

\* The inductive invariant; the active ids are finite, so that they can be counted.
IInv == TypeOK /\ LeasesAccounted /\ WithinLimits /\ IsFiniteSet(active_request_ids)

\* The leases are finite, so their sums are natural numbers.
LEMMA LeasesFinite ==
    ASSUME TypeOK
    PROVE  /\ IsFiniteSet(leases)
           /\ \A j \in Jobs : input_tokens[j] \in Nat /\ output_tokens[j] \in Nat
<1>1. leases \in SUBSET Jobs
  BY DEF TypeOK
<1> QED BY <1>1, FS_Subset, JobsValid

\* A token total that fits with one more request: what tryAcquire compares.
LEMMA Fits ==
    ASSUME NEW limit \in Nat, NEW total \in Nat, NEW more \in Nat, ~(more > limit - total)
    PROVE  total + more <= limit /\ total + more \in Nat
OBVIOUS

\* A token total without one of its terms.
LEMMA Drops ==
    ASSUME NEW limit \in Nat, NEW total \in Nat, NEW less \in Nat, less <= total, total <= limit
    PROVE  total - less <= limit /\ total - less \in Nat
OBVIOUS

\* tryAcquire adds one lease, one id and its tokens, all within the limits.
LEMMA AcquireStep ==
    ASSUME IInv, NEW j \in Jobs, tryAcquire(j)
    PROVE  IInv'
<1> DEFINE id == request_id[j]
<1>0. TypeOK /\ LeasesAccounted /\ WithinLimits /\ IsFiniteSet(active_request_ids)
  BY DEF IInv
<1>1. /\ id \notin active_request_ids
      /\ ~(Cardinality(active_request_ids) >= max_active_requests)
      /\ ~(input_tokens[j] > max_total_input_tokens - reserved_input_tokens)
      /\ ~(output_tokens[j] > max_reserved_output_tokens - reserved_output_tokens)
      /\ active_request_ids' = active_request_ids \cup {id}
      /\ reserved_input_tokens' = reserved_input_tokens + input_tokens[j]
      /\ reserved_output_tokens' = reserved_output_tokens + output_tokens[j]
      /\ leases' = leases \cup {j} /\ accepting' = accepting
  BY DEF tryAcquire, Refused, Duplicate, ActiveLimit, InputLimit, OutputLimit
<1>2. j \notin leases
  BY <1>0, <1>1 DEF LeasesAccounted
<1>3. /\ max_active_requests \in Nat /\ max_total_input_tokens \in Nat
      /\ max_reserved_output_tokens \in Nat
      /\ reserved_input_tokens \in Nat /\ reserved_output_tokens \in Nat
      /\ input_tokens[j] \in Nat /\ output_tokens[j] \in Nat
  BY <1>0, LimitsValid, JobsValid DEF TypeOK
<1>4. /\ reserved_input_tokens' \in Nat /\ reserved_input_tokens' <= max_total_input_tokens
      /\ reserved_output_tokens' \in Nat
      /\ reserved_output_tokens' <= max_reserved_output_tokens
  BY <1>1, <1>3, Fits
<1>5. TypeOK'
  BY <1>0, <1>1, <1>4 DEF TypeOK
<1>6. LeasesAccounted'
  <2>1. active_request_ids' = {request_id[i] : i \in leases'}
    BY <1>0, <1>1 DEF LeasesAccounted
  <2>2. \A i, k \in leases' : request_id[i] = request_id[k] => i = k
    BY <1>0, <1>1 DEF LeasesAccounted
  <2>3. \A i \in leases \cup {j} : input_tokens[i] \in Nat /\ output_tokens[i] \in Nat
    BY <1>0, LeasesFinite DEF TypeOK
  <2>4. SumOf(leases \cup {j}, input_tokens) = SumOf(leases, input_tokens) + input_tokens[j]
    BY <1>0, <1>2, <2>3, LeasesFinite, SumAdd, ZenonT(40)
  <2>5. SumOf(leases \cup {j}, output_tokens) = SumOf(leases, output_tokens) + output_tokens[j]
    BY <1>0, <1>2, <2>3, LeasesFinite, SumAdd, ZenonT(40)
  <2> QED BY <1>0, <1>1, <2>1, <2>2, <2>4, <2>5 DEF LeasesAccounted
<1>7. IsFiniteSet(active_request_ids') /\ Cardinality(active_request_ids') <= max_active_requests
  <2>1. /\ IsFiniteSet(active_request_ids')
        /\ Cardinality(active_request_ids') = Cardinality(active_request_ids) + 1
    BY <1>0, <1>1, FS_AddElement, ZenonT(40)
  <2>2. Cardinality(active_request_ids) \in Nat
    BY <1>0, FS_CardinalityType
  <2> QED BY <1>1, <1>3, <2>1, <2>2
<1> QED BY <1>4, <1>5, <1>6, <1>7 DEF IInv, WithinLimits

\* release takes one lease away and gives back exactly what it held.
LEMMA ReleaseStep ==
    ASSUME IInv, NEW j \in Jobs, release(j)
    PROVE  IInv'
<1> DEFINE id == request_id[j]
<1>0. TypeOK /\ LeasesAccounted /\ WithinLimits /\ IsFiniteSet(active_request_ids)
  BY DEF IInv
<1>1. /\ j \in leases /\ id \in active_request_ids
      /\ active_request_ids' = active_request_ids \ {id}
      /\ reserved_input_tokens' = reserved_input_tokens - input_tokens[j]
      /\ reserved_output_tokens' = reserved_output_tokens - output_tokens[j]
      /\ leases' = leases \ {j} /\ accepting' = accepting
  BY DEF release
<1>2. \A i \in leases : input_tokens[i] \in Nat /\ output_tokens[i] \in Nat
  BY <1>0, LeasesFinite DEF TypeOK
<1>3. /\ SumOf(leases \ {j}, input_tokens) = reserved_input_tokens - input_tokens[j]
      /\ input_tokens[j] <= reserved_input_tokens
  BY <1>0, <1>1, <1>2, LeasesFinite, SumRemove DEF LeasesAccounted
<1>4. /\ SumOf(leases \ {j}, output_tokens) = reserved_output_tokens - output_tokens[j]
      /\ output_tokens[j] <= reserved_output_tokens
  BY <1>0, <1>1, <1>2, LeasesFinite, SumRemove DEF LeasesAccounted
<1>5. /\ reserved_input_tokens' \in Nat /\ reserved_input_tokens' <= max_total_input_tokens
      /\ reserved_output_tokens' \in Nat
      /\ reserved_output_tokens' <= max_reserved_output_tokens
  BY <1>0, <1>1, <1>2, <1>3, <1>4, Drops, LimitsValid DEF TypeOK, WithinLimits
<1>6. TypeOK'
  BY <1>0, <1>1, <1>5 DEF TypeOK
<1>7. LeasesAccounted'
  <2>1. active_request_ids' = {request_id[i] : i \in leases'}
    BY <1>0, <1>1 DEF LeasesAccounted
  <2>2. \A i, k \in leases' : request_id[i] = request_id[k] => i = k
    BY <1>0, <1>1 DEF LeasesAccounted
  <2> QED BY <1>1, <1>3, <1>4, <2>1, <2>2 DEF LeasesAccounted
<1>8. IsFiniteSet(active_request_ids') /\ Cardinality(active_request_ids') <= max_active_requests
  <2>1. /\ IsFiniteSet(active_request_ids')
        /\ Cardinality(active_request_ids') = Cardinality(active_request_ids) - 1
    BY <1>0, <1>1, FS_RemoveElement, ZenonT(40)
  <2>2. Cardinality(active_request_ids) \in Nat
    BY <1>0, FS_CardinalityType
  <2>3. Cardinality(active_request_ids) <= max_active_requests /\ max_active_requests \in Nat
    BY <1>0, LimitsValid DEF WithinLimits
  <2> QED BY <2>1, <2>2, <2>3
<1> QED BY <1>5, <1>6, <1>7, <1>8 DEF IInv, WithinLimits

\* No lease, no tokens and no id at the start.
LEMMA InitIInv == Init => IInv
<1> SUFFICES ASSUME Init PROVE IInv
  OBVIOUS
<1>1. IsFiniteSet(active_request_ids) /\ Cardinality(active_request_ids) = 0
  BY FS_EmptySet DEF Init
<1>2. SumOf(leases, input_tokens) = 0 /\ SumOf(leases, output_tokens) = 0
  BY SumEmpty DEF Init
<1>3. TypeOK
  BY ZenonT(40) DEF Init, TypeOK
<1>a. /\ max_active_requests \in Nat /\ max_total_input_tokens \in Nat
      /\ max_reserved_output_tokens \in Nat
  BY LimitsValid
<1>b. WithinLimits
  BY <1>1, <1>a DEF Init, WithinLimits
<1>4. LeasesAccounted
  BY <1>2 DEF Init, LeasesAccounted
<1> QED BY <1>1, <1>3, <1>b, <1>4 DEF IInv

\* The budgets, the ids and the leases agree in every reachable state, and no
\* limit is ever exceeded, for every set of calls and all limits.
THEOREM Invariance == Spec => []IInv
<1>1. Init => IInv
  BY InitIInv
<1>2. IInv /\ [Next]_admission => IInv'
  <2> SUFFICES ASSUME IInv, [Next]_admission PROVE IInv'
    OBVIOUS
  <2>1. ASSUME NEW j \in Jobs, tryAcquire(j) PROVE IInv'
    BY <2>1, AcquireStep
  <2>2. ASSUME NEW j \in Jobs, release(j) PROVE IInv'
    BY <2>2, ReleaseStep
  <2>3. ASSUME open \/ close \/ UNCHANGED admission PROVE IInv'
    BY <2>3, ZenonT(40) DEF open, close, admission, IInv, TypeOK, LeasesAccounted, WithinLimits
  <2> QED BY <2>1, <2>2, <2>3 DEF Next
<1> QED BY <1>1, <1>2, PTL DEF Spec

\* tryAcquire and release keep the running totals equal to the sums over the
\* leases held, and the active ids distinct.
THEOREM Accounting == Spec => []LeasesAccounted
<1>1. IInv => LeasesAccounted
  BY DEF IInv
<1> QED BY <1>1, Invariance, PTL

\* Concurrent calls of submit never exceed max_active_requests or a token budget.
THEOREM Limits == Spec => []WithinLimits
<1>1. IInv => WithinLimits
  BY DEF IInv
<1> QED BY <1>1, Invariance, PTL

\* What admission promises, for any calls, ids, token counts and limits.
THEOREM BookkeepingAlways == Spec => []Bookkeeping
<1>1. IInv => Bookkeeping
  BY DEF IInv, Bookkeeping
<1> QED BY <1>1, Invariance, PTL

====
