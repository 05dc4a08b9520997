------------------------ MODULE SessionEgress_proofs ------------------------
(***************************************************************************)
(* The safety properties of SessionEgress, for every configuration that    *)
(* validateConfiguration accepts and every finite set of request ids.      *)
(***************************************************************************)
EXTENDS SessionEgress, Sums_proofs, SequenceTheorems

\* The configuration and the capacities derived from it are natural numbers.
LEMMA ConstantTypes ==
    /\ max_frame_bytes \in Nat
    /\ max_session_frames \in Nat /\ max_session_bytes \in Nat
    /\ max_request_frames \in Nat \ {0} /\ max_request_bytes \in Nat
    /\ control_reserve_frames \in Nat /\ control_reserve_bytes \in Nat
    /\ terminal_reserve_bytes \in Nat
    /\ requestFrameCapacity \in Nat /\ requestByteCapacity \in Nat
    /\ requestFrameCapacity + control_reserve_frames = max_session_frames
    /\ requestByteCapacity + control_reserve_bytes = max_session_bytes
    /\ terminal_reserve_bytes <= max_request_bytes
BY ConfigurationValid DEF requestFrameCapacity, requestByteCapacity

\* A sum with smaller terms.
LEMMA SumOfLess ==
    ASSUME NEW a \in Nat, NEW b \in Nat, NEW c \in Nat, NEW d \in Nat, NEW k \in Nat,
           a + b <= k, c <= a, d <= b
    PROVE  c + d <= k
OBVIOUS

\* The bytes of n reservations, and of one more or fewer.
LEMMA Reserve ==
    ASSUME NEW n \in Nat
    PROVE  /\ ReservedBytes(n) \in Nat
           /\ ReservedBytes(n + 1) = ReservedBytes(n) + terminal_reserve_bytes
           /\ n > 0 => ReservedBytes(n - 1) = ReservedBytes(n) - terminal_reserve_bytes
           /\ ReservedBytes(0) = 0
           /\ \A m \in Nat : m <= n => ReservedBytes(m) <= ReservedBytes(n)
<1> DEFINE R == terminal_reserve_bytes
<1>0. R \in Nat
  BY ConstantTypes
<1> HIDE DEF R
<1>1. /\ n * R \in Nat /\ (n + 1) * R = n * R + R
      /\ n > 0 => (n - 1) * R = n * R - R
      /\ 0 * R = 0
  BY <1>0
<1>2. ASSUME NEW m \in Nat, m <= n PROVE m * R <= n * R
  <2>1. n - m \in Nat /\ (n - m) * R \in Nat
    BY <1>0, <1>2
  <2>2. m * R \in Nat /\ n * R \in Nat /\ (n - m) * R = n * R - m * R
    BY <1>0
  <2> QED BY <2>1, <2>2
<1> QED BY <1>1, <1>2 DEF ReservedBytes, R

\* Frame sizes are natural numbers.
LEMMA SizeType ==
    ASSUME NEW q \in Seq(Message)
    PROVE  \A i \in 1..Len(q) : q[i] \in Message /\ q[i].size \in Nat
<1>1. \A m \in Message : m.size \in Nat
  BY SizesArePositive, Zenon DEF Message
<1> QED BY <1>1, ElementOfSeq

\* A positive length is one or more than one.
LEMMA OneOrMore ==
    ASSUME NEW n \in Nat \ {0}
    PROVE  (n = 1 \/ n > 1) /\ ~(n = 1 /\ n > 1)
OBVIOUS

\* A queue and what is left of it without its first message.
LEMMA HeadAndTail ==
    ASSUME NEW q \in Seq(Message), q # <<>>
    PROVE  /\ Len(q) \in Nat \ {0} /\ (Len(q) = 1 \/ Len(q) > 1) /\ ~(Len(q) = 1 /\ Len(q) > 1)
           /\ Head(q) = q[1] /\ q[1] \in Message /\ q[1].size \in Nat
           /\ Tail(q) \in Seq(Message) /\ Len(Tail(q)) = Len(q) - 1
           /\ \A i \in 1..(Len(q) - 1) : Tail(q)[i] = q[i + 1]
           /\ Tail(q) = <<>> <=> Len(q) = 1
<1>1. /\ Len(q) \in Nat \ {0} /\ Tail(q) \in Seq(Message) /\ Len(Tail(q)) = Len(q) - 1
      /\ Head(q) = q[1] /\ \A i \in 1..(Len(q) - 1) : Tail(q)[i] = q[i + 1]
  OBVIOUS
<1>2. (Len(q) = 1 \/ Len(q) > 1) /\ ~(Len(q) = 1 /\ Len(q) > 1)
  BY <1>1, OneOrMore, Zenon
<1>3. q[1] \in Message /\ q[1].size \in Nat
  BY <1>1, SizeType
<1>4. Tail(q) = <<>> => Len(Tail(q)) = 0
  <2>1. Len(<<>>) = 0
    OBVIOUS
  <2> QED BY <2>1, Zenon
<1>5. Tail(q) # <<>> => Len(Tail(q)) \in Nat \ {0}
  BY <1>1, EmptySeq
<1> QED BY <1>1, <1>2, <1>3, <1>4, <1>5

\* The bytes of an empty queue.
LEMMA BytesEmpty == FrameBytes(<<>>) = 0
BY SumEmpty, 1..0 = {} DEF FrameBytes

\* The bytes of a queue are a natural number.
LEMMA BytesType ==
    ASSUME NEW q \in Seq(Message)
    PROVE  FrameBytes(q) \in Nat
<1> DEFINE f == [i \in 1..Len(q) |-> q[i].size]
<1>1. IsFiniteSet(1..Len(q))
  BY FS_Interval, Len(q) \in Int, 1 \in Int
<1>2. \A i \in 1..Len(q) : f[i] \in Nat
  BY SizeType
<1> QED BY <1>1, <1>2, SumType DEF FrameBytes

\* Appending a message adds its bytes.
LEMMA BytesAppend ==
    ASSUME NEW q \in Seq(Message), NEW m \in Message
    PROVE  FrameBytes(Append(q, m)) = FrameBytes(q) + m.size
<1> DEFINE n == Len(q)
           f == [i \in 1..n |-> q[i].size]
           g == [i \in 1..(n + 1) |-> Append(q, m)[i].size]
<1>1. /\ n \in Nat /\ Len(Append(q, m)) = n + 1
      /\ 1..(n + 1) = (1..n) \cup {n + 1} /\ n + 1 \notin 1..n
  OBVIOUS
<1>2. IsFiniteSet(1..n)
  BY FS_Interval, n \in Int, 1 \in Int
<1>3. \A i \in (1..n) \cup {n + 1} : g[i] \in Nat
  <2>1. Append(q, m) \in Seq(Message)
    OBVIOUS
  <2>2. \A i \in 1..(n + 1) : Append(q, m)[i].size \in Nat
    BY <1>1, <2>1, SizeType, Zenon
  <2> QED BY <1>1, <2>2
<1>4. g[n + 1] = m.size /\ \A i \in 1..n : g[i] = f[i]
  OBVIOUS
<1>5. FrameBytes(Append(q, m)) = SumOf((1..n) \cup {n + 1}, g)
  BY <1>1, Zenon DEF FrameBytes
<1>6. FrameBytes(q) = SumOf(1..n, f)
  BY DEF FrameBytes
<1> HIDE DEF f, g
<1>7. SumOf((1..n) \cup {n + 1}, g) = SumOf(1..n, g) + g[n + 1]
  BY <1>1, <1>2, <1>3, SumAdd, Zenon
<1>8. SumOf(1..n, g) = SumOf(1..n, f)
  BY <1>4, SumSame
<1> QED BY <1>4, <1>5, <1>6, <1>7, <1>8

\* Taking the first message takes its bytes, which the queue had.
LEMMA BytesTail ==
    ASSUME NEW q \in Seq(Message), q # <<>>
    PROVE  /\ FrameBytes(Tail(q)) = FrameBytes(q) - Head(q).size
           /\ Head(q).size <= FrameBytes(q)
<1> DEFINE n == Len(q)
           f == [i \in 1..n |-> q[i].size]
           g == [i \in 1..(n - 1) |-> Tail(q)[i].size]
<1>1. n \in Nat \ {0} /\ Len(Tail(q)) = n - 1 /\ f[1] = Head(q).size
  OBVIOUS
<1>2. \A i \in 1..n : f[i] \in Nat
  BY SizeType
<1>3. \A i \in 1..(n - 1) : g[i] = f[i + 1]
  <2>1. \A i \in 1..(n - 1) : Tail(q)[i] = q[i + 1] /\ i + 1 \in 1..n
    OBVIOUS
  <2> QED BY <2>1
<1>4. FrameBytes(q) = SumOf(1..n, f) /\ FrameBytes(Tail(q)) = SumOf(1..(n - 1), g)
  BY <1>1, SMTT(40) DEF FrameBytes
<1> HIDE DEF f, g
<1> QED BY <1>1, <1>2, <1>3, <1>4, SumShift, SMTT(40)

-----------------------------------------------------------------------------
\* The invariant holds of a new SessionEgress.
LEMMA InitIInv == Init => IInv
<1> SUFFICES ASSUME Init PROVE IInv
  OBVIOUS
<1>1. TypeOK
  BY DEF Init, TypeOK
<1>2. SumOf(Requests, Frames) = 0 /\ SumOf(Requests, queued_bytes) = 0
  <2>1. \A r \in Requests : Frames[r] = 0 /\ queued_bytes[r] = 0
    BY DEF Init, Frames
  <2> QED BY <2>1, SumZero
<1>3. Owed = {} /\ Cardinality(Owed) = 0
  BY FS_EmptySet DEF Init, Owed
<1>4. CountersMatchQueues
  BY <1>2, <1>3, BytesEmpty DEF Init, CountersMatchQueues
<1>5. SessionWithinCapacity
  BY ConstantTypes, Reserve DEF Init, SessionWithinCapacity
<1>6. ScheduledIffQueued
  BY DEF Init, ScheduledIffQueued
<1> QED BY <1>1, <1>3, <1>4, <1>5, <1>6
        DEF Init, IInv, UnregisteredEmpty, TerminalRoomKept, NothingAfterTerminal

\* A sum over all requests, when only the value at r changes.
LEMMA RequestsSum ==
    ASSUME NEW r \in Requests, NEW f, NEW g,
           \A x \in Requests : f[x] \in Nat, \A x \in Requests : g[x] \in Nat,
           \A x \in Requests \ {r} : g[x] = f[x]
    PROVE  SumOf(Requests, g) = SumOf(Requests, f) - f[r] + g[r] /\ f[r] <= SumOf(Requests, f)
BY RequestsFinite, SumUpdate

\* When only the queue of r changes, the totals change by what it gains or loses.
LEMMA OneQueueChanges ==
    ASSUME TypeOK, CountersMatchQueues, NEW r \in Requests,
           messages' \in [Requests -> Seq(Message)],
           queued_bytes' \in [Requests -> Nat],
           \A x \in Requests \ {r} : messages'[x] = messages[x] /\ queued_bytes'[x] = queued_bytes[x]
    PROVE  /\ SumOf(Requests, Frames') = request_frames - Len(messages[r]) + Len(messages'[r])
           /\ SumOf(Requests, queued_bytes') = request_bytes - queued_bytes[r] + queued_bytes'[r]
           /\ Len(messages[r]) <= request_frames
           /\ queued_bytes[r] <= request_bytes
<1>1. \A x \in Requests : Frames[x] = Len(messages[x]) /\ Frames'[x] = Len(messages'[x])
  BY DEF Frames
<1>2. \A x \in Requests : Frames[x] \in Nat /\ Frames'[x] \in Nat
  BY <1>1 DEF TypeOK
<1>3. \A x \in Requests \ {r} : Frames'[x] = Frames[x]
  BY <1>1
<1>4. /\ SumOf(Requests, Frames') = SumOf(Requests, Frames) - Frames[r] + Frames'[r]
      /\ Frames[r] <= SumOf(Requests, Frames)
  BY <1>2, <1>3, RequestsSum, ZenonT(40)
<1>5. /\ \A x \in Requests : queued_bytes[x] \in Nat /\ queued_bytes'[x] \in Nat
      /\ \A x \in Requests \ {r} : queued_bytes'[x] = queued_bytes[x]
  BY DEF TypeOK
<1>6. /\ SumOf(Requests, queued_bytes') =
             SumOf(Requests, queued_bytes) - queued_bytes[r] + queued_bytes'[r]
      /\ queued_bytes[r] <= SumOf(Requests, queued_bytes)
  BY <1>5, RequestsSum
<1> QED BY <1>1, <1>4, <1>6 DEF CountersMatchQueues

\* The number of Terminals owed, when r starts or stops being owed one.
LEMMA OwedChanges ==
    ASSUME TypeOK, CountersMatchQueues, NEW r \in Requests
    PROVE  /\ Owed' = Owed => Cardinality(Owed') = terminal_reservations
           /\ r \notin Owed /\ Owed' = Owed \cup {r} =>
                 Cardinality(Owed') = terminal_reservations + 1
           /\ r \in Owed /\ Owed' = Owed \ {r} =>
                 Cardinality(Owed') = terminal_reservations - 1
           /\ r \in Owed => terminal_reservations > 0
<1>1. IsFiniteSet(Owed)
  <2>1. Owed \in SUBSET Requests
    BY DEF Owed, TypeOK
  <2> QED BY <2>1, RequestsFinite, FS_Subset
<1>2. Cardinality(Owed) = terminal_reservations /\ terminal_reservations \in Nat
  BY DEF CountersMatchQueues, TypeOK
<1>3. r \in Owed => terminal_reservations # 0
  BY <1>1, <1>2, FS_EmptySet
<1>4. r \notin Owed => Cardinality(Owed \cup {r}) = terminal_reservations + 1
  BY <1>1, <1>2, FS_AddElement
<1>5. r \in Owed => Cardinality(Owed \ {r}) = terminal_reservations - 1
  BY <1>1, <1>2, FS_RemoveElement
<1>6. r \notin Owed /\ Owed' = Owed \cup {r} => Cardinality(Owed') = terminal_reservations + 1
  BY <1>4, Zenon
<1>7. r \in Owed /\ Owed' = Owed \ {r} => Cardinality(Owed') = terminal_reservations - 1
  BY <1>5, Zenon
<1>8. Owed' = Owed => Cardinality(Owed') = terminal_reservations
  BY <1>2, Zenon
<1>9. r \in Owed => terminal_reservations > 0
  BY <1>2, <1>3
<1> QED BY <1>6, <1>7, <1>8, <1>9

-----------------------------------------------------------------------------
\* What is queued fits the request partition even without the Terminals owed.
LEMMA WithinPartition ==
    ASSUME TypeOK, SessionWithinCapacity
    PROVE  request_frames <= requestFrameCapacity /\ request_bytes <= requestByteCapacity
<1>1. ReservedBytes(terminal_reservations) \in Nat
  BY Reserve, Zenon DEF TypeOK
<1> QED BY <1>1, ConstantTypes DEF SessionWithinCapacity, TypeOK

\* A step that lowers the request totals stays within the capacity.
LEMMA LessFits ==
    ASSUME TypeOK, SessionWithinCapacity,
           request_frames' \in Nat, request_frames' <= request_frames,
           request_bytes' \in Nat, request_bytes' <= request_bytes,
           terminal_reservations' \in Nat, terminal_reservations' <= terminal_reservations,
           control_frames' = control_frames, control_bytes' = control_bytes,
           high_watermark_frames' = high_watermark_frames,
           high_watermark_bytes' = high_watermark_bytes
    PROVE  SessionWithinCapacity'
<1>0. request_frames \in Nat /\ request_bytes \in Nat /\ terminal_reservations \in Nat
  BY DEF TypeOK
<1>1. /\ ReservedBytes(terminal_reservations) \in Nat
      /\ ReservedBytes(terminal_reservations') \in Nat
      /\ ReservedBytes(terminal_reservations') <= ReservedBytes(terminal_reservations)
  BY <1>0, Reserve, Zenon
<1>2. /\ request_bytes + ReservedBytes(terminal_reservations) <= requestByteCapacity
      /\ request_frames + terminal_reservations <= requestFrameCapacity
      /\ requestByteCapacity \in Nat /\ requestFrameCapacity \in Nat
  BY ConstantTypes DEF SessionWithinCapacity
<1>3. request_bytes' + ReservedBytes(terminal_reservations') <= requestByteCapacity
  BY <1>0, <1>1, <1>2, SumOfLess
<1>4. request_frames' + terminal_reservations' <= requestFrameCapacity
  BY <1>0, <1>2, SumOfLess, Zenon
<1> QED BY <1>3, <1>4 DEF SessionWithinCapacity

\* A message that fits beside the Terminals still owed after it leaves the
\* session within its capacity, high watermarks included.
LEMMA MoreFits ==
    ASSUME TypeOK, SessionWithinCapacity, NEW size \in Nat, updateHighWatermarks,
           request_frames' = request_frames + 1, request_bytes' = request_bytes + size,
           control_frames' = control_frames, control_bytes' = control_bytes,
           terminal_reservations' \in Nat,
           request_frames + 1 + terminal_reservations' <= requestFrameCapacity,
           size + request_bytes + ReservedBytes(terminal_reservations') <= requestByteCapacity
    PROVE  /\ SessionWithinCapacity'
           /\ high_watermark_frames' \in Nat /\ high_watermark_bytes' \in Nat
<1>0. /\ request_frames \in Nat /\ request_bytes \in Nat /\ control_frames \in Nat
      /\ control_bytes \in Nat /\ high_watermark_frames \in Nat /\ high_watermark_bytes \in Nat
  BY DEF TypeOK
<1>1. ReservedBytes(terminal_reservations') \in Nat
  BY Reserve
<1>3. /\ control_frames <= control_reserve_frames /\ control_bytes <= control_reserve_bytes
      /\ high_watermark_frames <= max_session_frames /\ high_watermark_bytes <= max_session_bytes
  BY DEF SessionWithinCapacity
<1>4. request_bytes' + ReservedBytes(terminal_reservations') <= requestByteCapacity
  BY <1>0, <1>1, ConstantTypes
<1>5. request_frames' + terminal_reservations' <= requestFrameCapacity
  BY <1>0, ConstantTypes, Zenon
<1>6. control_frames + request_frames' <= max_session_frames
  <2>0. request_frames' \in Nat
    BY <1>0
  <2>1. request_frames' <= requestFrameCapacity
    BY <1>5, <2>0, ConstantTypes
  <2> QED BY <1>0, <1>3, <2>0, <2>1, ConstantTypes
<1>7. control_bytes + request_bytes' <= max_session_bytes
  BY <1>0, <1>1, <1>3, <1>4, ConstantTypes
<1>8. /\ high_watermark_frames' \in {high_watermark_frames, control_frames + request_frames'}
      /\ high_watermark_bytes' \in {high_watermark_bytes, control_bytes + request_bytes'}
  BY DEF updateHighWatermarks, Larger
<1>9. /\ high_watermark_frames' <= max_session_frames /\ high_watermark_frames' \in Nat
      /\ high_watermark_bytes' <= max_session_bytes /\ high_watermark_bytes' \in Nat
  BY <1>0, <1>3, <1>6, <1>7, <1>8
<1> QED BY <1>3, <1>4, <1>5, <1>9 DEF SessionWithinCapacity

\* A message appended to a queue whose Terminal is still to come is its last.
LEMMA NoTerminalYet ==
    ASSUME IInv, NEW r \in requests, ~terminal_enqueued[r], NEW m \in Message,
           requests' = requests, messages'[r] = Append(messages[r], m),
           \A x \in Requests \ {r} : messages'[x] = messages[x],
           \A x \in Requests \ {r} : terminal_enqueued'[x] = terminal_enqueued[x],
           terminal_enqueued'[r] <=> m.kind = "Terminal"
    PROVE  NothingAfterTerminal'
<1> USE DEF IInv
<1> SUFFICES ASSUME NEW x \in requests
             PROVE  /\ \A i \in 1..Len(messages'[x]) :
                          messages'[x][i].kind = "Terminal" => i = Len(messages'[x])
                    /\ terminal_enqueued'[x] <=>
                          messages'[x] # <<>> /\ messages'[x][Len(messages'[x])].kind = "Terminal"
  BY DEF NothingAfterTerminal
<1>0. messages[r] \in Seq(Message) /\ x \in Requests /\ Len(messages[r]) \in Nat
  BY DEF TypeOK
<1>1. CASE x = r
  <2> DEFINE q == messages[r]
             n == Len(q)
  <2>1. \A i \in 1..n : q[i].kind # "Terminal"
    <3> SUFFICES ASSUME NEW i \in 1..n, q[i].kind = "Terminal" PROVE FALSE
      OBVIOUS
    <3>1. i = n /\ q # <<>>
      BY <1>0 DEF NothingAfterTerminal
    <3> QED BY <3>1 DEF NothingAfterTerminal
  <2>2. /\ Len(messages'[r]) = n + 1 /\ messages'[r] # <<>> /\ messages'[r][n + 1] = m
        /\ \A i \in 1..n : messages'[r][i] = q[i]
    BY <1>0
  <2>3. ASSUME NEW i \in 1..(n + 1), messages'[r][i].kind = "Terminal" PROVE i = n + 1
    BY <1>0, <2>1, <2>2, <2>3, SMTT(40)
  <2> QED BY <1>1, <2>2, <2>3, ZenonT(40)
<1>2. CASE x # r
  BY <1>0, <1>2 DEF NothingAfterTerminal
<1> QED BY <1>1, <1>2

\* registerRequest keeps the invariant: it adds an empty queue and one
\* reservation, for which it found room.
LEMMA RegisterStep ==
    ASSUME IInv, NEW r \in Requests, registerRequest(r)
    PROVE  IInv'
<1> USE DEF IInv
<1>1. messages[r] = <<>> /\ queued_bytes[r] = 0 /\ ~scheduled[r] /\ ~terminal_enqueued[r]
  BY DEF registerRequest, UnregisteredEmpty
<1>2. UNCHANGED <<messages, queued_bytes, scheduled, terminal_enqueued>>
  BY <1>1 DEF registerRequest, ResetQueue, TypeOK
<1>3. UNCHANGED <<accepting, control, control_frames, control_bytes, round_robin,
                  request_frames, request_bytes, high_watermark_frames, high_watermark_bytes>>
  BY DEF registerRequest, controls, watermarks
<1>4. TypeOK'
  BY <1>2, <1>3 DEF registerRequest, TypeOK
<1>5. UnregisteredEmpty'
  BY <1>2 DEF registerRequest, UnregisteredEmpty
<1>6. Frames' = Frames
  BY <1>2 DEF Frames
<1>7. r \notin Owed /\ Owed' = Owed \cup {r}
  BY <1>1, <1>2 DEF registerRequest, Owed
<1>8. Cardinality(Owed') = terminal_reservations'
  BY <1>7, OwedChanges, ZenonT(40) DEF registerRequest
<1>9. CountersMatchQueues'
  BY <1>2, <1>3, <1>6, <1>8 DEF CountersMatchQueues
<1>10. TerminalRoomKept'
  <2> SUFFICES ASSUME NEW x \in Owed'
               PROVE  /\ Len(messages[x]) + 1 <= max_request_frames
                      /\ queued_bytes[x] + terminal_reserve_bytes <= max_request_bytes
    BY <1>2 DEF TerminalRoomKept
  <2>1. CASE x = r
    BY <2>1, <1>1, ConstantTypes
  <2>2. CASE x \in Owed
    BY <2>2 DEF TerminalRoomKept
  <2> QED BY <2>1, <2>2, <1>7
<1>11. SessionWithinCapacity'
  <2> DEFINE n == terminal_reservations + 1
  <2>0. n \in Nat /\ request_frames \in Nat /\ request_bytes \in Nat /\ terminal_reservations' = n
    BY DEF registerRequest, TypeOK
  <2>1. /\ ~(request_frames + terminal_reservations + 1 > requestFrameCapacity)
        /\ ~(request_bytes + ReservedBytes(n) > requestByteCapacity)
    BY DEF registerRequest, TerminalReserveFull
  <2>2. ReservedBytes(n) \in Nat
    BY <2>0, Reserve
  <2>3. request_frames + n <= requestFrameCapacity
    BY <2>0, <2>1, ConstantTypes DEF TypeOK
  <2>4. request_bytes + ReservedBytes(n) <= requestByteCapacity
    BY <2>0, <2>1, <2>2, ConstantTypes
  <2> QED BY <1>3, <2>0, <2>3, <2>4 DEF SessionWithinCapacity
<1>12. ScheduledIffQueued'
  BY <1>2, <1>3 DEF ScheduledIffQueued
<1>13. NothingAfterTerminal'
  BY <1>1, <1>2 DEF registerRequest, NothingAfterTerminal
<1> QED BY <1>4, <1>5, <1>9, <1>10, <1>11, <1>12, <1>13, SMTT(40)

\* enqueueControl and waitPop of a control message touch the control queue
\* and its counters only.
LEMMA ControlStep ==
    ASSUME IInv, (\E size \in Sizes : enqueueControl(size)) \/ waitPopControl
    PROVE  IInv'
<1> USE DEF IInv
<1>1. UNCHANGED <<accepting, requests, messages, queued_bytes, scheduled, terminal_enqueued,
                  round_robin, request_frames, request_bytes, terminal_reservations>>
  BY Zenon DEF enqueueControl, waitPopControl, queues, totals
<1>2. UNCHANGED <<Frames, Owed>>
  BY <1>1 DEF Frames, Owed
<1>3. CASE \E size \in Sizes : enqueueControl(size)
  <2> PICK size \in Sizes : enqueueControl(size)
    BY <1>3
  <2> DEFINE m == [kind |-> "Control", size |-> size]
  <2>1. m \in Message /\ size \in Nat
    BY SizesArePositive DEF Message
  <2>2. /\ control' = Append(control, m)
        /\ control_frames' = control_frames + 1
        /\ control_bytes' = control_bytes + size
        /\ control_frames' <= control_reserve_frames
        /\ control_bytes' <= control_reserve_bytes
    BY <2>1, ConstantTypes DEF enqueueControl, ControlFull, TypeOK
  <2>3. control' \in Seq(Message) /\ Len(control') = Len(control) + 1
    BY <2>1, <2>2 DEF TypeOK
  <2>4. FrameBytes(control') = FrameBytes(control) + size
    BY <2>1, <2>2, BytesAppend, SMTT(40) DEF TypeOK
  <2>5. TypeOK'
    BY <1>1, <2>1, <2>2, <2>3, SMTT(40) DEF TypeOK, enqueueControl, updateHighWatermarks, Larger
  <2>6. CountersMatchQueues'
    BY <1>1, <1>2, <2>2, <2>3, <2>4, ZenonT(40) DEF CountersMatchQueues
  <2>7. SessionWithinCapacity'
    <3>1. request_frames <= requestFrameCapacity /\ request_bytes <= requestByteCapacity
      BY WithinPartition, ZenonT(40)
    <3> QED BY <1>1, <2>1, <2>2, <3>1, ConstantTypes, SMTT(40)
            DEF SessionWithinCapacity, enqueueControl, updateHighWatermarks, Larger, TypeOK
  <2> QED BY <1>1, <1>2, <2>5, <2>6, <2>7
          DEF UnregisteredEmpty, TerminalRoomKept, ScheduledIffQueued, NothingAfterTerminal
<1>4. CASE waitPopControl
  <2> USE <1>4
  <2>1. /\ control # <<>> /\ control' = Tail(control)
        /\ control_frames' = control_frames - 1
        /\ control_bytes' = control_bytes - Head(control).size
        /\ UNCHANGED <<high_watermark_frames, high_watermark_bytes>>
    BY DEF waitPopControl, watermarks
  <2>2. control' \in Seq(Message) /\ Len(control') = Len(control) - 1 /\ Len(control) \in Nat \ {0}
    BY <2>1 DEF TypeOK
  <2>3. /\ FrameBytes(control') = FrameBytes(control) - Head(control).size
        /\ Head(control).size <= FrameBytes(control)
        /\ Head(control).size \in Nat
    BY <2>1, BytesTail, SizeType DEF TypeOK
  <2>4. control_frames' = Len(control') /\ control_bytes' = FrameBytes(control')
    BY <2>1, <2>2, <2>3 DEF CountersMatchQueues
  <2>5. control_frames' \in Nat /\ control_bytes' \in Nat
    BY <2>2, <2>4, BytesType
  <2>6. TypeOK'
    BY <1>1, <2>1, <2>2, <2>5, ZenonT(40) DEF TypeOK
  <2>7. CountersMatchQueues'
    BY <1>1, <1>2, <2>4 DEF CountersMatchQueues
  <2>8. SessionWithinCapacity'
    BY <1>1, <2>1, <2>3, ConstantTypes, SMTT(40) DEF SessionWithinCapacity, TypeOK
  <2> QED BY <1>1, <1>2, <2>6, <2>7, <2>8, ZenonT(40)
          DEF UnregisteredEmpty, TerminalRoomKept, ScheduledIffQueued, NothingAfterTerminal
<1> QED BY <1>3, <1>4

\* stop empties everything.
LEMMA StopStep ==
    ASSUME IInv, stop
    PROVE  IInv'
<1> USE DEF IInv
<1>1. TypeOK'
  <2>1. /\ messages' \in [Requests -> Seq(Message)] /\ queued_bytes' \in [Requests -> Nat]
        /\ scheduled' \in [Requests -> BOOLEAN] /\ terminal_enqueued' \in [Requests -> BOOLEAN]
    BY DEF stop
  <2>2. control' \in Seq(Message) /\ round_robin' \in Seq(Requests)
    BY DEF stop
  <2>3. high_watermark_frames' \in Nat /\ high_watermark_bytes' \in Nat
    BY DEF stop, watermarks, TypeOK
  <2>4. requests' \in SUBSET Requests /\ accepting' \in BOOLEAN
    BY Zenon DEF stop
  <2>5. /\ control_frames' \in Nat /\ control_bytes' \in Nat
        /\ request_frames' \in Nat /\ request_bytes' \in Nat /\ terminal_reservations' \in Nat
    BY DEF stop
  <2> QED BY <2>1, <2>2, <2>3, <2>4, <2>5, ZenonT(40) DEF TypeOK
<1>2. \A r \in Requests : /\ messages'[r] = <<>> /\ queued_bytes'[r] = 0
                          /\ ~scheduled'[r] /\ ~terminal_enqueued'[r]
  BY DEF stop
<1>3. SumOf(Requests, Frames') = 0 /\ SumOf(Requests, queued_bytes') = 0
  <2>1. \A r \in Requests : Frames'[r] = 0
    BY <1>2 DEF Frames
  <2> QED BY <1>2, <2>1, SumZero
<1>4. Owed' = {} /\ Cardinality(Owed') = 0
  BY FS_EmptySet DEF stop, Owed
<1>5. CountersMatchQueues'
  BY <1>2, <1>3, <1>4, BytesEmpty, SMTT(40) DEF stop, CountersMatchQueues
<1>6. SessionWithinCapacity'
  BY ConstantTypes, Reserve, SMTT(40) DEF stop, SessionWithinCapacity, watermarks
<1>7. ScheduledIffQueued'
  BY <1>2 DEF stop, ScheduledIffQueued
<1> QED BY <1>1, <1>2, <1>4, <1>5, <1>6, <1>7, ZenonT(40)
        DEF stop, UnregisteredEmpty, TerminalRoomKept, NothingAfterTerminal

\* Removing the only entry of r from the schedule keeps the others, once each.
LEMMA Unscheduled ==
    ASSUME TypeOK, ScheduledIffQueued, NEW r \in Requests,
           NEW s, s = removeScheduledRequest(r)
    PROVE  /\ s \in Seq(Requests)
           /\ \A x \in Requests : (\E i \in 1..Len(s) : s[i] = x) <=> scheduled[x] /\ x # r
           /\ \A i, j \in 1..Len(s) : s[i] = s[j] => i = j
<1> DEFINE rr == round_robin
<1>0. rr \in Seq(Requests) /\ Len(rr) \in Nat
  BY DEF TypeOK
<1>1. CASE \E i \in 1..Len(rr) : rr[i] = r
  <2>1. PICK k \in 1..Len(rr) : rr[k] = r
    BY <1>1
  <2>2. \A i \in 1..Len(rr) : rr[i] = r <=> i = k
    BY <2>1 DEF ScheduledIffQueued
  <2>3. {i \in 1..Len(rr) : rr[i] = r} = {k}
    BY <2>2
  <2>4. (CHOOSE i \in {k} : TRUE) = k
    OBVIOUS
  <2>5. s = SubSeq(rr, 1, k - 1) \o SubSeq(rr, k + 1, Len(rr))
    BY <2>3, <2>4, Zenon DEF removeScheduledRequest
  <2> DEFINE a == SubSeq(rr, 1, k - 1)
             b == SubSeq(rr, k + 1, Len(rr))
  <2>a. /\ a \in Seq(Requests) /\ Len(a) = k - 1
        /\ \A i \in 1..(k - 1) : a[i] = rr[i]
    BY <1>0
  <2>b. /\ b \in Seq(Requests) /\ Len(b) = Len(rr) - k
        /\ \A i \in 1..(Len(rr) - k) : b[i] = rr[k + i]
    BY <1>0
  <2>c. s = a \o b
    BY <2>5
  <2> HIDE DEF a, b
  <2>6. s \in Seq(Requests) /\ Len(s) = Len(rr) - 1
    <3>1. a \o b \in Seq(Requests) /\ Len(a \o b) = Len(a) + Len(b)
      BY <2>a, <2>b, ConcatProperties, Zenon
    <3> QED BY <1>0, <2>a, <2>b, <2>c, <3>1
  <2>7. \A i \in 1..Len(s) : s[i] = IF i < k THEN rr[i] ELSE rr[i + 1]
    <3> SUFFICES ASSUME NEW i \in 1..Len(s)
                 PROVE  s[i] = IF i < k THEN rr[i] ELSE rr[i + 1]
      OBVIOUS
    <3>1. i \in 1..(Len(a) + Len(b))
      BY <1>0, <2>6, <2>a, <2>b
    <3>2. s[i] = IF i <= Len(a) THEN a[i] ELSE b[i - Len(a)]
      <4>1. (a \o b)[i] = IF i <= Len(a) THEN a[i] ELSE b[i - Len(a)]
        BY <2>a, <2>b, <3>1, ConcatProperties
      <4> QED BY <4>1, <2>c
    <3>3. CASE i < k
      BY <3>2, <3>3, <2>a
    <3>4. CASE ~(i < k)
      <4>1. i - Len(a) \in 1..(Len(rr) - k) /\ ~(i <= Len(a)) /\ k + (i - Len(a)) = i + 1
        BY <1>0, <2>6, <2>a, <3>4
      <4> QED BY <3>2, <3>4, <4>1, <2>b, ZenonT(40)
    <3> QED BY <3>3, <3>4
  <2>8. \A i, j \in 1..Len(s) : s[i] = s[j] => i = j
    <3> SUFFICES ASSUME NEW i \in 1..Len(s), NEW j \in 1..Len(s), s[i] = s[j] PROVE i = j
      OBVIOUS
    <3>1. PICK p \in 1..Len(rr) : s[i] = rr[p] /\ p = IF i < k THEN i ELSE i + 1
      BY <1>0, <2>6, <2>7, SMTT(40)
    <3>2. PICK q \in 1..Len(rr) : s[j] = rr[q] /\ q = IF j < k THEN j ELSE j + 1
      BY <1>0, <2>6, <2>7
    <3>3. rr[p] = rr[q]
      BY <3>1, <3>2, Zenon
    <3>4. p = q
      BY <3>3 DEF ScheduledIffQueued
    <3> QED BY <1>0, <2>6, <3>1, <3>2, <3>4
  <2>9. ASSUME NEW x \in Requests
        PROVE  (\E i \in 1..Len(s) : s[i] = x) <=> scheduled[x] /\ x # r
    <3>1. ASSUME NEW i \in 1..Len(s), s[i] = x PROVE scheduled[x] /\ x # r
      <4>1. PICK j \in 1..Len(rr) : rr[j] = x /\ j # k
        BY <1>0, <2>6, <2>7, <3>1
      <4> QED BY <2>2, <4>1 DEF ScheduledIffQueued
    <3>2. ASSUME scheduled[x], x # r PROVE \E i \in 1..Len(s) : s[i] = x
      <4>1. PICK j \in 1..Len(rr) : rr[j] = x
        BY <3>2 DEF ScheduledIffQueued
      <4>2. j # k
        BY <2>1, <3>2, <4>1
      <4>3. CASE j < k
        BY <1>0, <2>6, <2>7, <4>1, <4>3, SMTT(40)
      <4>4. CASE j > k
        <5>1. j - 1 \in 1..Len(s) /\ ~(j - 1 < k) /\ (j - 1) + 1 = j
          BY <1>0, <2>6, <4>4
        <5>2. s[j - 1] = rr[(j - 1) + 1]
          BY <5>1, <2>7
        <5> QED BY <4>1, <5>1, <5>2
      <4> QED BY <1>0, <4>2, <4>3, <4>4
    <3> QED BY <3>1, <3>2
  <2> QED BY <2>6, <2>8, <2>9, SMTT(40)
<1>2. CASE ~\E i \in 1..Len(rr) : rr[i] = r
  <2>1. s = rr
    BY <1>2, ZenonT(40) DEF removeScheduledRequest
  <2> QED BY <1>0, <1>2, <2>1 DEF ScheduledIffQueued
<1> QED BY <1>1, <1>2

\* abandonRequest returns what the request holds: its frames, its bytes and,
\* unless its Terminal is queued, its reservation.
LEMMA AbandonStep ==
    ASSUME IInv, NEW r \in Requests, abandonRequest(r)
    PROVE  IInv'
<1> USE DEF IInv
<1>1. /\ messages' \in [Requests -> Seq(Message)] /\ queued_bytes' \in [Requests -> Nat]
      /\ scheduled' \in [Requests -> BOOLEAN] /\ terminal_enqueued' \in [Requests -> BOOLEAN]
  BY DEF abandonRequest, ResetQueue, TypeOK
<1>2. /\ messages'[r] = <<>> /\ queued_bytes'[r] = 0
      /\ ~scheduled'[r] /\ ~terminal_enqueued'[r]
      /\ \A x \in Requests \ {r} :
            /\ messages'[x] = messages[x] /\ queued_bytes'[x] = queued_bytes[x]
            /\ scheduled'[x] = scheduled[x] /\ terminal_enqueued'[x] = terminal_enqueued[x]
  BY DEF abandonRequest, ResetQueue, TypeOK
<1>3. /\ r \in requests /\ requests' = requests \ {r}
      /\ request_frames' = request_frames - Len(messages[r])
      /\ request_bytes' = request_bytes - queued_bytes[r]
      /\ round_robin' = removeScheduledRequest(r)
      /\ UNCHANGED <<accepting, control, control_frames, control_bytes,
                     high_watermark_frames, high_watermark_bytes>>
  BY ZenonT(40) DEF abandonRequest, controls, watermarks
<1>4. /\ SumOf(Requests, Frames') = request_frames' /\ request_frames' \in Nat
      /\ request_frames' <= request_frames
      /\ SumOf(Requests, queued_bytes') = request_bytes' /\ request_bytes' \in Nat
      /\ request_bytes' <= request_bytes
  <2>1. Len(messages[r]) \in Nat /\ queued_bytes[r] \in Nat /\ Len(messages'[r]) = 0
    BY <1>2 DEF TypeOK
  <2>2. /\ SumOf(Requests, Frames') = request_frames - Len(messages[r]) + Len(messages'[r])
        /\ SumOf(Requests, queued_bytes') = request_bytes - queued_bytes[r] + queued_bytes'[r]
        /\ Len(messages[r]) <= request_frames /\ queued_bytes[r] <= request_bytes
    BY <1>1, <1>2, OneQueueChanges, Zenon
  <2> QED BY <1>2, <1>3, <2>1, <2>2, SMTT(40) DEF TypeOK
<1>5. /\ terminal_reservations' = Cardinality(Owed') /\ terminal_reservations' \in Nat
      /\ terminal_reservations' <= terminal_reservations
  <2>1. CASE terminal_enqueued[r]
    <3>1. Owed' = Owed
      <4>1. \A x \in requests' : terminal_enqueued'[x] = terminal_enqueued[x]
        BY <1>2, <1>3 DEF TypeOK
      <4> QED BY <1>3, <2>1, <4>1, ZenonT(40) DEF Owed
    <3>2. terminal_reservations' = terminal_reservations
      BY <2>1 DEF abandonRequest, ReservationHeld, TypeOK
    <3> QED BY <3>1, <3>2, OwedChanges, SMTT(40) DEF TypeOK
  <2>2. CASE ~terminal_enqueued[r]
    <3>1. r \in Owed /\ Owed' = Owed \ {r}
      BY <1>2, <1>3, <2>2 DEF Owed, TypeOK
    <3>2. terminal_reservations' = terminal_reservations - 1
      BY <2>2 DEF abandonRequest, ReservationHeld
    <3>3. /\ Cardinality(Owed') = terminal_reservations - 1
          /\ terminal_reservations \in Nat /\ terminal_reservations > 0
      BY <3>1, OwedChanges, ZenonT(40) DEF TypeOK
    <3> QED BY <3>2, <3>3, SMTT(40)
  <2> QED BY <2>1, <2>2
<1>6. /\ round_robin' \in Seq(Requests)
      /\ \A x \in Requests : (\E i \in 1..Len(round_robin') : round_robin'[i] = x) <=>
                             scheduled[x] /\ x # r
      /\ \A i, j \in 1..Len(round_robin') : round_robin'[i] = round_robin'[j] => i = j
  <2> DEFINE s == removeScheduledRequest(r)
  <2>1. /\ s \in Seq(Requests)
        /\ \A x \in Requests : (\E i \in 1..Len(s) : s[i] = x) <=> scheduled[x] /\ x # r
        /\ \A i, j \in 1..Len(s) : s[i] = s[j] => i = j
    BY Unscheduled
  <2> QED BY <1>3, <2>1, ZenonT(40)
<1>7. TypeOK'
  BY <1>1, <1>3, <1>4, <1>5, <1>6, ZenonT(40) DEF TypeOK
<1>8. UnregisteredEmpty'
  BY <1>2, <1>3 DEF UnregisteredEmpty
<1>9. CountersMatchQueues'
  <2>1. \A x \in Requests : queued_bytes'[x] = FrameBytes(messages'[x])
    BY <1>2, BytesEmpty, ZenonT(40) DEF CountersMatchQueues
  <2> QED BY <1>3, <1>4, <1>5, <2>1, ZenonT(40) DEF CountersMatchQueues
<1>10. TerminalRoomKept'
  BY <1>2, <1>3, SMTT(40) DEF TerminalRoomKept, Owed, TypeOK
<1>11. SessionWithinCapacity'
  BY <1>3, <1>4, <1>5, LessFits, ZenonT(40) DEF TypeOK
<1>12. ScheduledIffQueued'
  <2>1. ASSUME NEW x \in Requests
        PROVE  /\ scheduled'[x] <=> messages'[x] # <<>>
               /\ scheduled'[x] <=> scheduled[x] /\ x # r
    BY <1>2, SMTT(40) DEF ScheduledIffQueued, TypeOK
  <2> QED BY <1>6, <2>1, ZenonT(40) DEF ScheduledIffQueued
<1>13. NothingAfterTerminal'
  BY <1>2, <1>3, ZenonT(40) DEF NothingAfterTerminal, TypeOK
<1> QED BY <1>7, <1>8, <1>9, <1>10, <1>11, <1>12, <1>13

-----------------------------------------------------------------------------
\* What enqueueDelta and enqueueTerminal have in common: one message more in
\* the queue of r, in the totals, and r in the schedule.
LEMMA PushEffect ==
    ASSUME IInv, NEW r \in Requests, NEW m \in Message, PushScheduled(r, m)
    PROVE  /\ messages' \in [Requests -> Seq(Message)]
           /\ queued_bytes' \in [Requests -> Nat]
           /\ scheduled' \in [Requests -> BOOLEAN]
           /\ round_robin' \in Seq(Requests)
           /\ m.size \in Nat
           /\ request_frames' = request_frames + 1
           /\ request_bytes' = request_bytes + m.size
           /\ messages'[r] = Append(messages[r], m)
           /\ queued_bytes'[r] = queued_bytes[r] + m.size
           /\ \A x \in Requests \ {r} :
                 messages'[x] = messages[x] /\ queued_bytes'[x] = queued_bytes[x]
           /\ \A x \in Requests : queued_bytes'[x] = FrameBytes(messages'[x])
           /\ SumOf(Requests, Frames') = request_frames'
           /\ SumOf(Requests, queued_bytes') = request_bytes'
           /\ ScheduledIffQueued'
<1> USE DEF IInv
<1>0. m.size \in Nat /\ messages[r] \in Seq(Message) /\ queued_bytes[r] \in Nat
  BY SizesArePositive, Zenon DEF Message, TypeOK
<1>1. /\ messages' \in [Requests -> Seq(Message)]
      /\ messages'[r] = Append(messages[r], m)
      /\ \A x \in Requests \ {r} : messages'[x] = messages[x]
  BY <1>0 DEF PushScheduled, TypeOK
<1>2. /\ queued_bytes' \in [Requests -> Nat]
      /\ queued_bytes'[r] = queued_bytes[r] + m.size
      /\ \A x \in Requests \ {r} : queued_bytes'[x] = queued_bytes[x]
  <2>1. PICK z \in Nat : z = m.size
    BY <1>0
  <2>2. queued_bytes' = [queued_bytes EXCEPT ![r] = queued_bytes[r] + z]
    BY <2>1 DEF PushScheduled
  <2>3. queued_bytes \in [Requests -> Nat]
    BY DEF TypeOK
  <2> QED BY <2>1, <2>2, <2>3
<1>3. /\ scheduled' \in [Requests -> BOOLEAN] /\ scheduled'[r]
      /\ \A x \in Requests \ {r} : scheduled'[x] = scheduled[x]
  BY DEF PushScheduled, TypeOK
<1>4. request_frames' = request_frames + 1 /\ request_bytes' = request_bytes + m.size
  BY DEF PushScheduled
<1>5. \A x \in Requests : queued_bytes'[x] = FrameBytes(messages'[x])
  <2>1. FrameBytes(messages'[r]) = FrameBytes(messages[r]) + m.size
    BY <1>0, <1>1, BytesAppend
  <2> QED BY <1>1, <1>2, <2>1, ZenonT(40) DEF CountersMatchQueues
<1>6. SumOf(Requests, Frames') = request_frames' /\ SumOf(Requests, queued_bytes') = request_bytes'
  <2>1. Len(messages'[r]) = Len(messages[r]) + 1 /\ Len(messages[r]) \in Nat
    BY <1>0, <1>1
  <2>2. /\ SumOf(Requests, Frames') = request_frames - Len(messages[r]) + Len(messages'[r])
        /\ SumOf(Requests, queued_bytes') = request_bytes - queued_bytes[r] + queued_bytes'[r]
    BY <1>1, <1>2, OneQueueChanges, ZenonT(40)
  <2>3. request_frames \in Nat /\ request_bytes \in Nat
    BY DEF TypeOK
  <2>4. SumOf(Requests, Frames') = request_frames + 1
    <3> DEFINE k == Len(messages[r])
    <3>1. SumOf(Requests, Frames') = request_frames - k + (k + 1)
      BY <2>1, <2>2
    <3>2. k \in Nat
      BY <2>1
    <3> HIDE DEF k
    <3> QED BY <2>3, <3>1, <3>2, SMTT(40)
  <2>5. SumOf(Requests, queued_bytes') = request_bytes + m.size
    BY <1>0, <1>2, <2>2, <2>3
  <2> QED BY <1>4, <2>4, <2>5, SMTT(40)
<1>7. \A x \in Requests : scheduled'[x] <=> messages'[x] # <<>>
  <2>1. messages'[r] # <<>>
    BY <1>0, <1>1, SMTT(40)
  <2>2. \A x \in Requests : scheduled[x] <=> messages[x] # <<>>
    BY DEF ScheduledIffQueued
  <2> QED BY <1>1, <1>3, <2>1, <2>2, ZenonT(40)
<1>8. /\ round_robin' \in Seq(Requests)
      /\ \A x \in Requests : scheduled'[x] <=> \E i \in 1..Len(round_robin') : round_robin'[i] = x
      /\ \A i, j \in 1..Len(round_robin') : round_robin'[i] = round_robin'[j] => i = j
  <2>0. round_robin \in Seq(Requests) /\ Len(round_robin) \in Nat
    BY DEF TypeOK
  <2>1. CASE scheduled[r]
    <3>1. round_robin' = round_robin
      BY <2>1 DEF PushScheduled
    <3> QED BY <1>3, <2>0, <2>1, <3>1, SMTT(40) DEF ScheduledIffQueued, TypeOK
  <2>2. CASE ~scheduled[r]
    <3> DEFINE n == Len(round_robin)
    <3>1. round_robin' = Append(round_robin, r)
      BY <2>2 DEF PushScheduled
    <3>2. /\ round_robin' \in Seq(Requests) /\ Len(round_robin') = n + 1
          /\ round_robin'[n + 1] = r /\ \A i \in 1..n : round_robin'[i] = round_robin[i]
      BY <2>0, <3>1, SMTT(40)
    <3>3. \A i \in 1..n : round_robin[i] # r
      BY <2>2 DEF ScheduledIffQueued
    <3>4. \A i, j \in 1..(n + 1) : round_robin'[i] = round_robin'[j] => i = j
      <4> SUFFICES ASSUME NEW i \in 1..(n + 1), NEW j \in 1..(n + 1),
                          round_robin'[i] = round_robin'[j]
                   PROVE  i = j
        OBVIOUS
      <4>1. CASE i \in 1..n /\ j \in 1..n
        BY <3>2, <4>1 DEF ScheduledIffQueued
      <4>2. CASE i = n + 1 \/ j = n + 1
        BY <2>0, <3>2, <3>3, <4>2, SMTT(40)
      <4> QED BY <2>0, <4>1, <4>2
    <3>5. ASSUME NEW x \in Requests
          PROVE  scheduled'[x] <=> \E i \in 1..(n + 1) : round_robin'[i] = x
      <4>1. CASE x = r
        BY <1>3, <2>0, <3>2, <4>1, SMTT(40)
      <4>2. CASE x # r
        <5>1. scheduled'[x] <=> \E i \in 1..n : round_robin[i] = x
          BY <1>3, <4>2, SMTT(40) DEF ScheduledIffQueued
        <5>2. (\E i \in 1..n : round_robin[i] = x) <=> \E i \in 1..(n + 1) : round_robin'[i] = x
          BY <2>0, <3>2, <4>2, SMTT(40)
        <5> QED BY <5>1, <5>2, SMTT(40)
      <4> QED BY <4>1, <4>2
    <3> QED BY <3>2, <3>4, <3>5, SMTT(40)
  <2> QED BY <2>1, <2>2
<1>9. ScheduledIffQueued'
  BY <1>7, <1>8, SMTT(40) DEF ScheduledIffQueued
<1> QED BY <1>0, <1>1, <1>2, <1>3, <1>4, <1>5, <1>6, <1>8, <1>9, Zenon

\* enqueueDelta keeps the invariant: it leaves the room of its Terminal and
\* of the other Terminals owed.
LEMMA DeltaStep ==
    ASSUME IInv, NEW r \in Requests, NEW size \in Sizes, enqueueDelta(r, size)
    PROVE  IInv'
<1> USE DEF IInv
<1> DEFINE m == [kind |-> "Delta", size |-> size]
<1>0. m \in Message /\ m.size = size /\ m.kind = "Delta" /\ size \in Nat
  BY SizesArePositive DEF Message
<1>1. /\ r \in requests /\ ~terminal_enqueued[r] /\ PushScheduled(r, m)
      /\ ~DeltaRequestFull(r, size) /\ ~DeltaSessionFull(size) /\ updateHighWatermarks
      /\ UNCHANGED <<accepting, requests, terminal_enqueued, control, control_frames,
                     control_bytes, terminal_reservations>>
  BY SMTT(40) DEF enqueueDelta, controls
<1> HIDE DEF m
<1>2. /\ messages' \in [Requests -> Seq(Message)] /\ queued_bytes' \in [Requests -> Nat]
      /\ scheduled' \in [Requests -> BOOLEAN] /\ round_robin' \in Seq(Requests)
      /\ request_frames' = request_frames + 1 /\ request_bytes' = request_bytes + size
      /\ messages'[r] = Append(messages[r], m) /\ queued_bytes'[r] = queued_bytes[r] + size
      /\ \A x \in Requests \ {r} : messages'[x] = messages[x] /\ queued_bytes'[x] = queued_bytes[x]
  BY <1>0, <1>1, PushEffect, ZenonT(40)
<1>3. /\ \A x \in Requests : queued_bytes'[x] = FrameBytes(messages'[x])
      /\ SumOf(Requests, Frames') = request_frames'
      /\ SumOf(Requests, queued_bytes') = request_bytes'
      /\ ScheduledIffQueued'
  BY <1>0, <1>1, PushEffect, SMTT(40)
<1>4. Owed' = Owed /\ Cardinality(Owed') = terminal_reservations'
  BY <1>1, OwedChanges DEF Owed
<1>5. SessionWithinCapacity' /\ high_watermark_frames' \in Nat /\ high_watermark_bytes' \in Nat
  <2>1. terminal_reservations \in Nat /\ request_frames \in Nat /\ request_bytes \in Nat
    BY DEF TypeOK
  <2>2. ReservedBytes(terminal_reservations) \in Nat
    BY <2>1, Reserve, SMTT(40)
  <2>3. /\ request_frames + 1 + terminal_reservations <= requestFrameCapacity
        /\ size + request_bytes + ReservedBytes(terminal_reservations) <= requestByteCapacity
    BY <1>0, <1>1, <2>1, <2>2, ConstantTypes, SMTT(40) DEF DeltaSessionFull
  <2> QED BY <1>0, <1>1, <1>2, <2>1, <2>3, MoreFits, ZenonT(40)
<1>6. TypeOK'
  BY <1>0, <1>1, <1>2, <1>5, SMTT(40) DEF TypeOK
<1>7. UnregisteredEmpty'
  <2>1. \A x \in Requests \ requests : ~scheduled'[x]
    <3> SUFFICES ASSUME NEW x \in Requests \ requests PROVE ~scheduled'[x]
      OBVIOUS
    <3>1. messages'[x] = <<>>
      BY <1>1, <1>2, ZenonT(40) DEF UnregisteredEmpty
    <3> QED BY <1>3, <3>1 DEF ScheduledIffQueued
  <2> QED BY <1>1, <1>2, <2>1, Zenon DEF UnregisteredEmpty
<1>8. CountersMatchQueues'
  BY <1>1, <1>3, <1>4, ZenonT(40) DEF CountersMatchQueues
<1>9. TerminalRoomKept'
  <2> SUFFICES ASSUME NEW x \in Owed
               PROVE  /\ Len(messages'[x]) + 1 <= max_request_frames
                      /\ queued_bytes'[x] + terminal_reserve_bytes <= max_request_bytes
    BY <1>4 DEF TerminalRoomKept
  <2>1. CASE x = r
    <3>1. /\ Len(messages'[r]) = Len(messages[r]) + 1
          /\ Len(messages[r]) \in Nat /\ queued_bytes[r] \in Nat
      BY <1>0, <1>2 DEF TypeOK
    <3>2. /\ Len(messages[r]) + 2 <= max_request_frames
          /\ size + queued_bytes[r] + terminal_reserve_bytes <= max_request_bytes
      <4>1. /\ ~(Len(messages[r]) + 2 > max_request_frames)
            /\ ~(size + queued_bytes[r] + terminal_reserve_bytes > max_request_bytes)
        BY <1>1 DEF DeltaRequestFull
      <4> QED BY <1>0, <3>1, <4>1, ConstantTypes, SMTT(40)
    <3>3. Len(messages'[r]) + 1 <= max_request_frames
      BY <3>1, <3>2, ConstantTypes, SMTT(40)
    <3>4. queued_bytes'[r] + terminal_reserve_bytes <= max_request_bytes
      BY <1>0, <1>2, <3>1, <3>2, ConstantTypes
    <3> QED BY <2>1, <3>3, <3>4, SMTT(40)
  <2>2. CASE x # r
    <3>1. x \in Requests \ {r}
      BY <2>2 DEF Owed, TypeOK
    <3> QED BY <1>2, <3>1, ZenonT(40) DEF TerminalRoomKept
  <2> QED BY <2>1, <2>2
<1>10. NothingAfterTerminal'
  BY <1>0, <1>1, <1>2, NoTerminalYet, ZenonT(40)
<1> QED BY <1>3, <1>5, <1>6, <1>7, <1>8, <1>9, <1>10, ZenonT(40)

\* enqueueTerminal keeps the invariant: the Terminal takes the frame and the
\* bytes of its own reservation.
LEMMA TerminalStep ==
    ASSUME IInv, NEW r \in Requests, NEW size \in Sizes, enqueueTerminal(r, size)
    PROVE  IInv'
<1> USE DEF IInv
<1> DEFINE m == [kind |-> "Terminal", size |-> size]
<1>0. m \in Message /\ m.size = size /\ m.kind = "Terminal" /\ size \in Nat
  BY SizesArePositive DEF Message
<1>1. /\ r \in requests /\ ~terminal_enqueued[r] /\ PushScheduled(r, m)
      /\ size <= terminal_reserve_bytes /\ updateHighWatermarks
      /\ terminal_enqueued' = [terminal_enqueued EXCEPT ![r] = TRUE]
      /\ terminal_reservations' = terminal_reservations - 1
      /\ UNCHANGED <<accepting, requests, control, control_frames, control_bytes>>
  BY SMTT(40) DEF enqueueTerminal, controls
<1> HIDE DEF m
<1>2. /\ messages' \in [Requests -> Seq(Message)] /\ queued_bytes' \in [Requests -> Nat]
      /\ scheduled' \in [Requests -> BOOLEAN] /\ round_robin' \in Seq(Requests)
      /\ request_frames' = request_frames + 1 /\ request_bytes' = request_bytes + size
      /\ messages'[r] = Append(messages[r], m)
      /\ \A x \in Requests \ {r} : messages'[x] = messages[x] /\ queued_bytes'[x] = queued_bytes[x]
  BY <1>0, <1>1, PushEffect, ZenonT(40)
<1>3. /\ \A x \in Requests : queued_bytes'[x] = FrameBytes(messages'[x])
      /\ SumOf(Requests, Frames') = request_frames'
      /\ SumOf(Requests, queued_bytes') = request_bytes'
      /\ ScheduledIffQueued'
  BY <1>0, <1>1, PushEffect, ZenonT(40)
<1>4. /\ terminal_enqueued' \in [Requests -> BOOLEAN] /\ terminal_enqueued'[r]
      /\ \A x \in Requests \ {r} : terminal_enqueued'[x] = terminal_enqueued[x]
  BY <1>1 DEF TypeOK
<1>5. r \in Owed /\ Owed' = Owed \ {r}
  BY <1>1, <1>4 DEF Owed, TypeOK
<1>6. /\ Cardinality(Owed') = terminal_reservations'
      /\ terminal_reservations \in Nat /\ terminal_reservations > 0
      /\ terminal_reservations' \in Nat
  <2>1. /\ Cardinality(Owed') = terminal_reservations - 1
        /\ terminal_reservations \in Nat /\ terminal_reservations > 0
    BY <1>5, OwedChanges, ZenonT(40) DEF TypeOK
  <2> QED BY <1>1, <2>1
<1>7. SessionWithinCapacity' /\ high_watermark_frames' \in Nat /\ high_watermark_bytes' \in Nat
  <2>1. request_frames \in Nat /\ request_bytes \in Nat
    BY DEF TypeOK
  <2>2. /\ ReservedBytes(terminal_reservations) \in Nat
        /\ ReservedBytes(terminal_reservations') \in Nat
        /\ ReservedBytes(terminal_reservations') =
              ReservedBytes(terminal_reservations) - terminal_reserve_bytes
    BY <1>1, <1>6, Reserve
  <2>3. /\ request_frames + terminal_reservations <= requestFrameCapacity
        /\ request_bytes + ReservedBytes(terminal_reservations) <= requestByteCapacity
    BY DEF SessionWithinCapacity
  <2>4. request_frames + 1 + terminal_reservations' <= requestFrameCapacity
    BY <1>1, <1>6, <2>1, <2>3, ConstantTypes, SMTT(40)
  <2>5. size + request_bytes + ReservedBytes(terminal_reservations') <= requestByteCapacity
    BY <1>0, <1>1, <2>1, <2>2, <2>3, ConstantTypes, SMTT(40)
  <2> QED BY <1>0, <1>1, <1>2, <1>6, <2>4, <2>5, MoreFits, ZenonT(40)
<1>8. TypeOK'
  BY <1>1, <1>2, <1>4, <1>6, <1>7, <1>0, SMTT(40) DEF TypeOK
<1>9. UnregisteredEmpty'
  <2> SUFFICES ASSUME NEW x \in Requests \ requests
               PROVE  /\ messages'[x] = <<>> /\ queued_bytes'[x] = 0
                      /\ ~scheduled'[x] /\ ~terminal_enqueued'[x]
    BY <1>1, ZenonT(40) DEF UnregisteredEmpty
  <2>1. /\ messages'[x] = <<>> /\ queued_bytes'[x] = 0 /\ ~terminal_enqueued'[x]
    BY <1>1, <1>2, <1>4, Zenon DEF UnregisteredEmpty
  <2> QED BY <1>3, <2>1, ZenonT(40) DEF ScheduledIffQueued
<1>10. CountersMatchQueues'
  BY <1>1, <1>3, <1>6, Zenon DEF CountersMatchQueues
<1>11. TerminalRoomKept'
  <2>1. \A x \in Owed' : x \in Owed /\ x \in Requests \ {r}
    BY <1>5 DEF Owed, TypeOK
  <2> QED BY <1>2, <2>1, ZenonT(40) DEF TerminalRoomKept
<1>12. NothingAfterTerminal'
  BY <1>0, <1>1, <1>2, <1>4, NoTerminalYet, ZenonT(40)
<1> QED BY <1>3, <1>7, <1>8, <1>9, <1>10, <1>11, <1>12

\* The head of the schedule is the entry waitPop serves, and its queue is not empty.
LEMMA HeadServed ==
    ASSUME IInv, NEW k \in 1..Len(round_robin), \A i \in 1..(k - 1) : ~Servable(i)
    PROVE  /\ k = 1 /\ round_robin[1] \in requests /\ messages[round_robin[1]] # <<>>
           /\ scheduled[round_robin[1]]
<1> USE DEF IInv
<1>1. round_robin \in Seq(Requests) /\ Len(round_robin) \in Nat /\ 1 \in 1..Len(round_robin)
  BY DEF TypeOK
<1>2. round_robin[1] \in Requests
  BY <1>1, ElementOfSeq
<1>3. scheduled[round_robin[1]] /\ messages[round_robin[1]] # <<>>
  BY <1>1, <1>2 DEF ScheduledIffQueued
<1>4. round_robin[1] \in requests
  BY <1>2, <1>3 DEF UnregisteredEmpty
<1>5. k = 1
  BY <1>1, <1>3, <1>4 DEF Servable
<1> QED BY <1>3, <1>4, <1>5

\* The schedule without its head.
LEMMA RestOfSchedule ==
    ASSUME IInv, Len(round_robin) > 0
    PROVE  LET r == round_robin[1]
               rest == SubSeq(round_robin, 2, Len(round_robin))
           IN  /\ rest \in Seq(Requests)
               /\ \A x \in Requests :
                     (\E i \in 1..Len(rest) : rest[i] = x) <=> scheduled[x] /\ x # r
               /\ \A i, j \in 1..Len(rest) : rest[i] = rest[j] => i = j
<1> USE DEF IInv
<1> DEFINE n == Len(round_robin)
<1>a. PICK r, rest : r = round_robin[1] /\ rest = SubSeq(round_robin, 2, Len(round_robin))
  BY Zenon
<1>0. round_robin \in Seq(Requests) /\ n \in Nat \ {0}
  BY DEF TypeOK
<1>1. /\ rest \in Seq(Requests) /\ Len(rest) = n - 1
      /\ \A i \in 1..(n - 1) : rest[i] = round_robin[i + 1]
  <2>1. round_robin # <<>>
    BY <1>0
  <2>2. rest = Tail(round_robin)
    BY <1>a, <1>0, <2>1, TailIsSubSeq, SMTT(40)
  <2> QED BY <1>0, <2>1, <2>2, HeadTailProperties
<1>2. \A i, j \in 1..n : round_robin[i] = round_robin[j] => i = j
  BY DEF ScheduledIffQueued
<1>3. \A i, j \in 1..(n - 1) : rest[i] = rest[j] => i = j
  <2> SUFFICES ASSUME NEW i \in 1..(n - 1), NEW j \in 1..(n - 1), rest[i] = rest[j] PROVE i = j
    OBVIOUS
  <2>1. i + 1 \in 1..n /\ j + 1 \in 1..n /\ round_robin[i + 1] = round_robin[j + 1]
    BY <1>0, <1>1
  <2>2. i + 1 = j + 1
    BY <1>2, <2>1
  <2> QED BY <2>2
<1>4. ASSUME NEW x \in Requests
      PROVE  (\E i \in 1..(n - 1) : rest[i] = x) <=> scheduled[x] /\ x # r
  <2>0. scheduled[x] <=> \E i \in 1..n : round_robin[i] = x
    BY DEF ScheduledIffQueued
  <2>1. ASSUME NEW i \in 1..(n - 1), rest[i] = x PROVE scheduled[x] /\ x # r
    <3>1. i + 1 \in 1..n /\ 1 \in 1..n /\ i + 1 # 1 /\ round_robin[i + 1] = x
      BY <1>0, <1>1, <2>1, SMTT(40)
    <3> QED BY <1>a, <1>2, <2>0, <3>1, SMTT(40)
  <2>2. ASSUME scheduled[x], x # r PROVE \E i \in 1..(n - 1) : rest[i] = x
    <3>1. PICK i \in 1..n : round_robin[i] = x
      BY <2>0, <2>2
    <3>2. i - 1 \in 1..(n - 1) /\ (i - 1) + 1 = i
      BY <1>a, <1>0, <2>2, <3>1, SMTT(40)
    <3>3. rest[i - 1] = round_robin[(i - 1) + 1]
      BY <1>1, <3>2
    <3> QED BY <3>1, <3>2, <3>3
  <2> QED BY <2>1, <2>2
<1>5. /\ rest \in Seq(Requests)
      /\ \A x \in Requests : (\E i \in 1..Len(rest) : rest[i] = x) <=> scheduled[x] /\ x # r
      /\ \A i, j \in 1..Len(rest) : rest[i] = rest[j] => i = j
  BY <1>1, <1>3, <1>4
<1> QED BY <1>a, <1>5, ZenonT(40)

\* What every waitPop of a request message does to the queue it serves.
LEMMA PopEffect ==
    ASSUME IInv, NEW r \in requests, messages[r] # <<>>,
           NEW rest, Requeue(r, rest)
    PROVE  /\ messages' \in [Requests -> Seq(Message)] /\ messages'[r] = Tail(messages[r])
           /\ queued_bytes' \in [Requests -> Nat]
           /\ queued_bytes'[r] = queued_bytes[r] - Head(messages[r]).size
           /\ \A x \in Requests \ {r} :
                 messages'[x] = messages[x] /\ queued_bytes'[x] = queued_bytes[x]
           /\ \A x \in Requests : queued_bytes'[x] = FrameBytes(messages'[x])
           /\ scheduled' \in [Requests -> BOOLEAN]
           /\ scheduled'[r] <=> Len(messages[r]) > 1
           /\ \A x \in Requests \ {r} : scheduled'[x] = scheduled[x]
           /\ round_robin' = IF Len(messages[r]) > 1 THEN Append(rest, r) ELSE rest
<1> USE DEF IInv
<1> DEFINE q == messages[r]
           z == Head(q).size
<1>0. q \in Seq(Message) /\ r \in Requests /\ queued_bytes[r] \in Nat
  BY DEF TypeOK
<1>1. /\ Head(q).size = z /\ z \in Nat /\ Tail(q) \in Seq(Message)
      /\ Len(q) = 1 \/ Len(q) > 1
      /\ ~(Len(q) = 1 /\ Len(q) > 1)
      /\ Tail(q) = <<>> <=> Len(q) = 1
  BY <1>0, HeadAndTail, SMTT(40)
<1>2. z <= queued_bytes[r] /\ FrameBytes(Tail(q)) = queued_bytes[r] - z
  <2>1. FrameBytes(Tail(q)) = FrameBytes(q) - z /\ z <= FrameBytes(q)
    BY <1>0, BytesTail, ZenonT(40)
  <2>2. queued_bytes[r] = FrameBytes(q)
    BY <1>0 DEF CountersMatchQueues
  <2> QED BY <2>1, <2>2
<1>3. Len(q) = 1 => queued_bytes[r] - z = 0 /\ Tail(q) = <<>>
  BY <1>1, <1>2, BytesEmpty, Zenon
<1>4. /\ messages' = [messages EXCEPT ![r] = Tail(q)]
      /\ queued_bytes' = [queued_bytes EXCEPT ![r] = queued_bytes[r] - z]
  BY <1>3, ZenonT(40) DEF Requeue, ResetQueue
<1> HIDE DEF z
<1>5. /\ messages' \in [Requests -> Seq(Message)] /\ messages'[r] = Tail(q)
      /\ \A x \in Requests \ {r} : messages'[x] = messages[x]
  BY <1>0, <1>1, <1>4, ZenonT(40) DEF TypeOK
<1>6. /\ queued_bytes' \in [Requests -> Nat] /\ queued_bytes'[r] = queued_bytes[r] - z
      /\ \A x \in Requests \ {r} : queued_bytes'[x] = queued_bytes[x]
  <2>1. queued_bytes[r] - z \in Nat
    BY <1>0, <1>1, <1>2, SMTT(40)
  <2> QED BY <1>0, <1>4, <2>1, SMTT(40) DEF TypeOK
<1>7. \A x \in Requests : queued_bytes'[x] = FrameBytes(messages'[x])
  BY <1>2, <1>5, <1>6, SMTT(40) DEF CountersMatchQueues
<1>8. scheduled[r]
  BY <1>0, ZenonT(40) DEF ScheduledIffQueued
<1>9. CASE Len(q) > 1
  <2>1. scheduled' = scheduled /\ round_robin' = Append(rest, r)
    BY <1>1, <1>9, Zenon DEF Requeue, RoundRobinAgain
  <2>2. scheduled' \in [Requests -> BOOLEAN]
    BY <2>1, ZenonT(40) DEF TypeOK
  <2> QED BY <1>5, <1>6, <1>7, <1>8, <1>9, <2>1, <2>2, SMTT(40) DEF z
<1>10. CASE Len(q) = 1
  <2>1. scheduled' = [scheduled EXCEPT ![r] = FALSE] /\ round_robin' = rest
    BY <1>1, <1>10, ZenonT(40) DEF Requeue, ResetQueue
  <2>2. /\ scheduled' \in [Requests -> BOOLEAN] /\ ~scheduled'[r]
        /\ \A x \in Requests \ {r} : scheduled'[x] = scheduled[x]
    BY <1>0, <2>1 DEF TypeOK
  <2>3. ~(Len(q) > 1)
    BY <1>1, <1>10, Zenon
  <2> QED BY <1>5, <1>6, <1>7, <2>1, <2>2, <2>3 DEF z
<1> QED BY <1>1, <1>9, <1>10, ZenonT(40)

\* waitPop of a request message keeps the invariant: the counters lose what the
\* queue loses, and the served request stays in the schedule while it has more.
LEMMA PopStep ==
    ASSUME IInv, waitPopRequest
    PROVE  IInv'
<1> USE DEF IInv
<1> DEFINE r == round_robin[1]
           q == messages[r]
           rest == SubSeq(round_robin, 2, Len(round_robin))
<1>1. /\ r \in requests /\ q # <<>> /\ scheduled[r] /\ Len(round_robin) > 0
      /\ Requeue(r, rest)
      /\ request_frames' = request_frames - 1
      /\ request_bytes' = request_bytes - Head(q).size
  <2>1. PICK k \in 1..Len(round_robin) :
            /\ \A i \in 1..(k - 1) : ~Servable(i)
            /\ Requeue(round_robin[k], SubSeq(round_robin, k + 1, Len(round_robin)))
            /\ request_frames' = request_frames - 1
            /\ request_bytes' = request_bytes - Head(messages[round_robin[k]]).size
    BY DEF waitPopRequest
  <2>2. k = 1 /\ r \in requests /\ q # <<>> /\ scheduled[r]
    BY <2>1, HeadServed
  <2>3. Len(round_robin) > 0
    BY <2>2 DEF TypeOK
  <2> QED BY <2>1, <2>2, <2>3
<1>2. UNCHANGED <<accepting, control, control_frames, control_bytes, terminal_reservations,
                  high_watermark_frames, high_watermark_bytes>>
  BY DEF waitPopRequest, controls, watermarks
<1>3. /\ rest \in Seq(Requests)
      /\ \A x \in Requests : (\E i \in 1..Len(rest) : rest[i] = x) <=> scheduled[x] /\ x # r
      /\ \A i, j \in 1..Len(rest) : rest[i] = rest[j] => i = j
  BY <1>1, RestOfSchedule, ZenonT(40)
<1> HIDE DEF r, rest
<1>4. /\ messages' \in [Requests -> Seq(Message)] /\ messages'[r] = Tail(q)
      /\ queued_bytes' \in [Requests -> Nat]
      /\ queued_bytes'[r] = queued_bytes[r] - Head(q).size
      /\ \A x \in Requests \ {r} :
            messages'[x] = messages[x] /\ queued_bytes'[x] = queued_bytes[x]
      /\ \A x \in Requests : queued_bytes'[x] = FrameBytes(messages'[x])
      /\ scheduled' \in [Requests -> BOOLEAN]
      /\ scheduled'[r] <=> Len(q) > 1
      /\ \A x \in Requests \ {r} : scheduled'[x] = scheduled[x]
      /\ round_robin' = IF Len(q) > 1 THEN Append(rest, r) ELSE rest
  BY <1>1, PopEffect
<1>5. /\ q \in Seq(Message) /\ r \in Requests /\ Len(q) \in Nat \ {0}
      /\ Len(q) = 1 \/ Len(q) > 1
      /\ ~(Len(q) = 1 /\ Len(q) > 1)
      /\ Head(q) = q[1] /\ Head(q).size \in Nat
      /\ Tail(q) \in Seq(Message) /\ Len(Tail(q)) = Len(q) - 1
      /\ \A i \in 1..(Len(q) - 1) : Tail(q)[i] = q[i + 1]
      /\ Tail(q) = <<>> <=> Len(q) = 1
  <2>1. q \in Seq(Message) /\ r \in Requests
    BY <1>1, ZenonT(40) DEF TypeOK
  <2> QED BY <1>1, <2>1, HeadAndTail, ZenonT(40)
<1>6. /\ SumOf(Requests, Frames') = request_frames' /\ request_frames' \in Nat
      /\ request_frames' <= request_frames
      /\ SumOf(Requests, queued_bytes') = request_bytes' /\ request_bytes' \in Nat
      /\ request_bytes' <= request_bytes
  <2>1. /\ SumOf(Requests, Frames') = request_frames - Len(messages[r]) + Len(messages'[r])
        /\ SumOf(Requests, queued_bytes') = request_bytes - queued_bytes[r] + queued_bytes'[r]
        /\ Len(messages[r]) <= request_frames /\ queued_bytes[r] <= request_bytes
    BY <1>4, <1>5, OneQueueChanges, ZenonT(40)
  <2>2. /\ request_frames \in Nat /\ request_bytes \in Nat
        /\ queued_bytes[r] \in Nat /\ queued_bytes'[r] \in Nat
    BY <1>4, <1>5, ZenonT(40) DEF TypeOK
  <2>3. Head(q).size \in Nat
    BY <1>5, ZenonT(40)
  <2>4. Len(messages'[r]) = Len(q) - 1
    BY <1>4, <1>5, ZenonT(40)
  <2>5. SumOf(Requests, Frames') = request_frames - 1 /\ request_frames - 1 \in Nat
    BY <1>5, <2>1, <2>2, <2>4, SMTT(40)
  <2>6. /\ SumOf(Requests, queued_bytes') = request_bytes - Head(q).size
        /\ request_bytes - Head(q).size \in Nat
    <3>1. PICK z \in Nat : z = Head(q).size
      BY <2>3
    <3>2. queued_bytes'[r] = queued_bytes[r] - z
      BY <1>4, <3>1, ZenonT(40)
    <3>3. SumOf(Requests, queued_bytes') = request_bytes - z /\ request_bytes - z \in Nat
      BY <2>1, <2>2, <3>2, SMTT(40)
    <3> QED BY <3>1, <3>3
  <2>7. request_frames - 1 <= request_frames /\ request_bytes - Head(q).size <= request_bytes
    BY <2>2, <2>3, SMTT(40)
  <2> QED BY <1>1, <2>5, <2>6, <2>7
<1>7. \/ /\ Len(q) = 1 /\ q[1].kind = "Terminal" /\ requests' = requests \ {r}
         /\ terminal_enqueued' = [terminal_enqueued EXCEPT ![r] = FALSE]
      \/ /\ Len(q) > 1 \/ q[1].kind # "Terminal"
         /\ requests' = requests /\ terminal_enqueued' = terminal_enqueued
  BY <1>1, <1>5 DEF Requeue, ResetQueue
<1>8. /\ requests' \in SUBSET Requests /\ terminal_enqueued' \in [Requests -> BOOLEAN]
      /\ \A x \in Requests \ {r} : /\ terminal_enqueued'[x] = terminal_enqueued[x]
                                   /\ x \in requests' <=> x \in requests
  BY <1>5, <1>7, ZenonT(40) DEF TypeOK
<1>9. r \notin requests' => /\ Len(q) = 1 /\ terminal_enqueued[r] /\ ~terminal_enqueued'[r]
  <2>1. Len(q) = 1 /\ q[1].kind = "Terminal" => terminal_enqueued[r]
    BY <1>1 DEF NothingAfterTerminal
  <2> QED BY <1>1, <1>5, <1>7, <2>1, ZenonT(40) DEF TypeOK
<1>10. r \in requests' => /\ terminal_enqueued'[r] = terminal_enqueued[r]
                          /\ Len(q) > 1 \/ q[1].kind # "Terminal"
  BY <1>7, ZenonT(40)
<1>11. Owed' = Owed /\ Cardinality(Owed') = terminal_reservations'
  <2>1. Owed' = Owed
    <3>1. \A x \in Requests \ {r} : x \in Owed' <=> x \in Owed
      BY <1>8, ZenonT(40) DEF Owed
    <3>2. r \in Owed' <=> r \in Owed
      BY <1>1, <1>9, <1>10, ZenonT(40) DEF Owed
    <3>3. Owed' \subseteq Requests /\ Owed \subseteq Requests
      BY <1>8 DEF Owed, TypeOK
    <3> QED BY <3>1, <3>2, <3>3
  <2> QED BY <1>2, <1>5, <2>1, OwedChanges
<1>12. /\ round_robin' \in Seq(Requests)
       /\ \A x \in Requests : scheduled'[x] <=> \E i \in 1..Len(round_robin') : round_robin'[i] = x
       /\ \A i, j \in 1..Len(round_robin') : round_robin'[i] = round_robin'[j] => i = j
  <2>1. CASE Len(q) > 1
    <3> DEFINE n == Len(rest)
               rr == Append(rest, r)
    <3>0. round_robin' = rr /\ n \in Nat
      BY <1>3, <1>4, <2>1, SMTT(40)
    <3>1. /\ rr \in Seq(Requests) /\ Len(rr) = n + 1
          /\ rr[n + 1] = r /\ \A i \in 1..n : rr[i] = rest[i]
      <4>1. rest \in Seq(Requests) /\ r \in Requests
        BY <1>3, <1>5
      <4> QED BY <4>1, SMTT(40)
    <3> HIDE DEF rr
    <3>2. \A i \in 1..n : rest[i] # r
      BY <1>3, <1>5
    <3>3. \A i, j \in 1..(n + 1) : rr[i] = rr[j] => i = j
      <4> SUFFICES ASSUME NEW i \in 1..(n + 1), NEW j \in 1..(n + 1), rr[i] = rr[j] PROVE i = j
        OBVIOUS
      <4>1. CASE i \in 1..n /\ j \in 1..n
        BY <1>3, <3>1, <4>1, SMTT(40)
      <4>2. CASE i = n + 1 \/ j = n + 1
        BY <3>0, <3>1, <3>2, <4>2, SMTT(40)
      <4> QED BY <3>0, <4>1, <4>2
    <3>4. ASSUME NEW x \in Requests
          PROVE  scheduled'[x] <=> \E i \in 1..(n + 1) : rr[i] = x
      <4>1. CASE x = r
        <5>1. scheduled'[r]
          BY <1>4, <2>1, Zenon
        <5>2. n + 1 \in 1..(n + 1)
          BY <3>0
        <5> QED BY <3>1, <4>1, <5>1, <5>2
      <4>2. CASE x # r
        <5>1. scheduled'[x] <=> \E i \in 1..n : rest[i] = x
          BY <1>3, <1>4, <4>2, ZenonT(40)
        <5>2. (\E i \in 1..n : rest[i] = x) <=> \E i \in 1..(n + 1) : rr[i] = x
          BY <3>0, <3>1, <4>2, SMTT(40)
        <5> QED BY <5>1, <5>2
      <4> QED BY <4>1, <4>2
    <3> QED BY <3>0, <3>1, <3>3, <3>4, ZenonT(40)
  <2>2. CASE ~(Len(q) > 1)
    <3>1. round_robin' = rest /\ ~scheduled'[r]
      BY <1>4, <2>2, ZenonT(40)
    <3>2. \A x \in Requests : scheduled'[x] <=> scheduled[x] /\ x # r
      BY <1>4, <3>1, ZenonT(40) DEF TypeOK
    <3> QED BY <1>3, <3>1, <3>2, ZenonT(40)
  <2> QED BY <2>1, <2>2
<1>13. TypeOK'
  BY <1>2, <1>4, <1>6, <1>8, <1>12, ZenonT(40) DEF TypeOK
<1>14. UnregisteredEmpty'
  <2> SUFFICES ASSUME NEW x \in Requests, x \notin requests'
               PROVE  /\ messages'[x] = <<>> /\ queued_bytes'[x] = 0
                      /\ ~scheduled'[x] /\ ~terminal_enqueued'[x]
    BY DEF UnregisteredEmpty
  <2>1. CASE x = r
    <3>1. Len(q) = 1 /\ ~terminal_enqueued'[r] /\ ~scheduled'[r]
      BY <1>4, <1>5, <1>9, <2>1, ZenonT(40)
    <3>2. messages'[r] = <<>>
      BY <1>4, <1>5, <3>1, ZenonT(40)
    <3>3. messages'[r] = <<>> /\ queued_bytes'[r] = 0
      BY <1>4, <1>5, <3>2, BytesEmpty
    <3> QED BY <2>1, <3>1, <3>3
  <2>2. CASE x # r
    BY <1>4, <1>8, <2>2, ZenonT(40) DEF UnregisteredEmpty
  <2> QED BY <2>1, <2>2, ZenonT(40)
<1>15. CountersMatchQueues'
  BY <1>2, <1>4, <1>6, <1>11, ZenonT(40) DEF CountersMatchQueues
<1>16. TerminalRoomKept'
  <2> SUFFICES ASSUME NEW x \in Owed
               PROVE  /\ Len(messages'[x]) + 1 <= max_request_frames
                      /\ queued_bytes'[x] + terminal_reserve_bytes <= max_request_bytes
    BY <1>11 DEF TerminalRoomKept
  <2>1. CASE x = r
    <3>1. /\ Len(q) + 1 <= max_request_frames
          /\ queued_bytes[r] + terminal_reserve_bytes <= max_request_bytes
      BY <2>1, ZenonT(40) DEF TerminalRoomKept
    <3>2. Head(q).size \in Nat /\ queued_bytes[r] \in Nat /\ queued_bytes'[r] \in Nat
      BY <1>4, <1>5, ZenonT(40) DEF TypeOK
    <3>3. queued_bytes'[r] <= queued_bytes[r]
      BY <1>4, <3>2, SMTT(40)
    <3>4. Len(messages'[r]) = Len(q) - 1
      BY <1>4, <1>5, ZenonT(40)
    <3>5. Len(messages'[r]) + 1 <= max_request_frames
      BY <1>5, <3>1, <3>4, ConstantTypes, SMTT(40)
    <3>6. queued_bytes'[r] + terminal_reserve_bytes <= max_request_bytes
      BY <3>1, <3>2, <3>3, ConstantTypes
    <3> QED BY <2>1, <3>5, <3>6
  <2>2. CASE x # r
    <3>1. x \in Requests \ {r}
      BY <2>2, ZenonT(40) DEF Owed, TypeOK
    <3> QED BY <1>4, <3>1, ZenonT(40) DEF TerminalRoomKept
  <2> QED BY <2>1, <2>2, ZenonT(40)
<1>17. SessionWithinCapacity'
  BY <1>2, <1>6, LessFits, SMTT(40) DEF TypeOK
<1>18. ScheduledIffQueued'
  <2>1. \A x \in Requests : scheduled'[x] <=> messages'[x] # <<>>
    <3>1. Len(q) > 1 <=> Tail(q) # <<>>
      BY <1>5, ZenonT(40)
    <3>2. scheduled'[r] <=> messages'[r] # <<>>
      BY <1>4, <3>1
    <3>3. \A x \in Requests \ {r} : scheduled'[x] <=> messages'[x] # <<>>
      BY <1>4, ZenonT(40) DEF ScheduledIffQueued
    <3> QED BY <3>2, <3>3
  <2> QED BY <1>12, <2>1 DEF ScheduledIffQueued
<1>19. NothingAfterTerminal'
  <2> SUFFICES ASSUME NEW x \in requests'
               PROVE  /\ \A i \in 1..Len(messages'[x]) :
                            messages'[x][i].kind = "Terminal" => i = Len(messages'[x])
                      /\ terminal_enqueued'[x] <=>
                            messages'[x] # <<>> /\ messages'[x][Len(messages'[x])].kind = "Terminal"
    BY DEF NothingAfterTerminal
  <2>1. CASE x = r
    <3> DEFINE n == Len(q)
               t == Tail(q)
    <3>0. /\ messages'[r] = t /\ n \in Nat \ {0} /\ Len(t) = n - 1
          /\ \A i \in 1..(n - 1) : t[i] = q[i + 1]
          /\ terminal_enqueued'[r] = terminal_enqueued[r]
          /\ n > 1 \/ q[1].kind # "Terminal"
          /\ t = <<>> <=> n = 1
          /\ ~(n = 1 /\ n > 1)
      BY <1>4, <1>5, <1>10, <2>1, ZenonT(40)
    <3>1. /\ \A i \in 1..n : q[i].kind = "Terminal" => i = n
          /\ terminal_enqueued[r] <=> q # <<>> /\ q[n].kind = "Terminal"
      BY <1>1, ZenonT(40) DEF NothingAfterTerminal
    <3>2. ASSUME NEW i \in 1..(n - 1), t[i].kind = "Terminal" PROVE i = n - 1
      <4>1. i + 1 \in 1..n /\ q[i + 1].kind = "Terminal"
        BY <3>0, <3>2
      <4>2. i + 1 = n
        BY <3>1, <4>1, ZenonT(40)
      <4> QED BY <3>0, <4>2, SMTT(40)
    <3>3. CASE n = 1
      <4>1. t = <<>>
        BY <3>0, <3>3, ZenonT(40)
      <4>2. ~terminal_enqueued[r]
        BY <3>0, <3>1, <3>3, ZenonT(40)
      <4> QED BY <2>1, <3>0, <3>2, <4>1, <4>2, ZenonT(40)
    <3>4. CASE n > 1
      <4>1. t # <<>> /\ t[n - 1] = q[n]
        <5>1. n - 1 \in 1..(n - 1) /\ (n - 1) + 1 = n
          BY <3>0, <3>4, SMTT(40)
        <5>2. t[n - 1] = q[(n - 1) + 1]
          BY <3>0, <5>1
        <5>3. t # <<>>
          BY <3>0, <3>4, ZenonT(40)
        <5> QED BY <5>1, <5>2, <5>3, ZenonT(40)
      <4> QED BY <1>1, <2>1, <3>0, <3>1, <3>2, <4>1, SMTT(40)
    <3>5. n = 1 \/ n > 1
      BY <1>5
    <3> QED BY <3>3, <3>4, <3>5, ZenonT(40)
  <2>2. CASE x # r
    <3>1. x \in Requests \ {r} /\ x \in requests
      BY <1>8, <2>2
    <3> QED BY <1>4, <1>8, <3>1, ZenonT(40) DEF NothingAfterTerminal
  <2> QED BY <2>1, <2>2
<1> QED BY <1>13, <1>14, <1>15, <1>16, <1>17, <1>18, <1>19, ZenonT(40)

\* No step but one of Next changes anything, and every step of Next keeps the
\* invariant.
LEMMA NextIInv ==
    ASSUME IInv, [Next]_vars
    PROVE  IInv'
<1>1. ASSUME NEW r \in Requests, registerRequest(r) PROVE IInv'
  BY <1>1, RegisterStep
<1>2. ASSUME NEW r \in Requests, abandonRequest(r) PROVE IInv'
  BY <1>2, AbandonStep
<1>3. ASSUME NEW size \in Sizes, enqueueControl(size) PROVE IInv'
  BY <1>3, ControlStep
<1>4. ASSUME NEW r \in Requests, NEW size \in Sizes, enqueueDelta(r, size) PROVE IInv'
  BY <1>4, DeltaStep
<1>5. ASSUME NEW r \in Requests, NEW size \in Sizes, enqueueTerminal(r, size) PROVE IInv'
  BY <1>5, TerminalStep
<1>6. ASSUME waitPopControl PROVE IInv'
  BY <1>6, ControlStep
<1>7. ASSUME waitPopRequest PROVE IInv'
  BY <1>7, PopStep
<1>8. ASSUME stop PROVE IInv'
  BY <1>8, StopStep, SMTT(40)
<1>9. ASSUME UNCHANGED vars PROVE IInv'
  BY <1>9, ZenonT(40) DEF vars, queues, controls, totals, watermarks, IInv, TypeOK, UnregisteredEmpty,
     CountersMatchQueues, TerminalRoomKept, SessionWithinCapacity, ScheduledIffQueued,
     NothingAfterTerminal, Frames, Owed
<1> QED BY <1>1, <1>2, <1>3, <1>4, <1>5, <1>6, <1>7, <1>8, <1>9 DEF Next

\* The room kept for a Terminal is enough for one within the reserve.
LEMMA RoomFits == IInv => TerminalAlwaysFits
<1> SUFFICES ASSUME IInv, NEW r \in Owed, NEW size \in Sizes, size <= terminal_reserve_bytes
             PROVE  ~TerminalRequestFull(r, size)
  BY DEF TerminalAlwaysFits
<1>1. r \in Requests /\ queued_bytes[r] \in Nat /\ Len(messages[r]) \in Nat
  BY DEF IInv, TypeOK, Owed
<1>2. size \in Nat /\ terminal_reserve_bytes \in Nat /\ max_request_bytes \in Nat
      /\ max_request_frames \in Nat
  BY SizesArePositive, ConstantTypes
<1>3. /\ Len(messages[r]) + 1 <= max_request_frames
      /\ queued_bytes[r] + terminal_reserve_bytes <= max_request_bytes
  BY DEF IInv, TerminalRoomKept
<1>4. ~(Len(messages[r]) + 1 > max_request_frames)
  BY <1>1, <1>2, <1>3
<1>5. ~(size > max_request_bytes - queued_bytes[r])
  BY <1>1, <1>2, <1>3
<1> QED BY <1>4, <1>5 DEF TerminalRequestFull

\* Every reachable state of the egress satisfies the inductive invariant,
\* whatever the requests, the frame sizes and the (valid) configuration.
THEOREM Invariance == Spec => []IInv
<1>1. Init => IInv
  BY InitIInv
<1>2. IInv /\ [Next]_vars => IInv'
  BY NextIInv
<1> QED BY <1>1, <1>2, PTL DEF Spec

\* The unsigned counters of the egress never wrap below zero.
THEOREM TypeCorrect == Spec => []TypeOK
<1>1. IInv => TypeOK
  BY DEF IInv
<1> QED BY <1>1, Invariance, PTL

\* The incremental counters of enqueue, waitPop and abandonRequest always
\* agree with the queues and with the Terminals still owed.
THEOREM CountersCorrect == Spec => []CountersMatchQueues
<1>1. IInv => CountersMatchQueues
  BY DEF IInv
<1> QED BY <1>1, Invariance, PTL

\* enqueueTerminal never answers RequestFull to a request that registered: an
\* ordinary Delta cannot consume the Terminal reserve.
THEOREM TerminalNeverRefused == Spec => []TerminalAlwaysFits
BY Invariance, RoomFits, PTL

\* Data, owed Terminals and control replies stay within their partitions of
\* the session for every valid configuration.
THEOREM CapacityRespected == Spec => []SessionWithinCapacity
<1>1. IInv => SessionWithinCapacity
  BY DEF IInv
<1> QED BY <1>1, Invariance, PTL

\* round_robin holds every request with something to send exactly once, so
\* the loop of waitPop never finds an entry it has to skip.
THEOREM ScheduleCorrect == Spec => []ScheduledIffQueued
<1>1. IInv => ScheduledIffQueued
  BY DEF IInv
<1> QED BY <1>1, Invariance, PTL

\* Counters, capacity and schedule agree with the queues, for every valid
\* configuration and any number of requests.
THEOREM BookkeepingAlways == Spec => []Bookkeeping
<1>1. IInv => Bookkeeping
  BY DEF IInv, Bookkeeping
<1> QED BY <1>1, Invariance, PTL

\* No Delta is ever queued behind the Terminal of its request.
THEOREM TerminalIsLast == Spec => []NothingAfterTerminal
<1>1. IInv => NothingAfterTerminal
  BY DEF IInv
<1> QED BY <1>1, Invariance, PTL

====
