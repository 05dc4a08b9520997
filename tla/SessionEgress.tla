--------------------------- MODULE SessionEgress ---------------------------
(***************************************************************************)
(* The bounded output queue of one IPC session of the Worker               *)
(* (src/worker/session_egress.cpp).  Control replies go to a queue with a  *)
(* reserve of its own; the events of each request go to a queue of the     *)
(* request, served round-robin.  Registering a request reserves room for   *)
(* its Terminal, which TokenDeltas may never use.                          *)
(*                                                                         *)
(* Every public operation runs under one mutex, so it is one action.  A    *)
(* message is its kind and its frame size.  An operation that refuses its  *)
(* message changes nothing, so a refusal is a guard; the ...Full operators *)
(* are the refusals a correct caller can meet.                             *)
(***************************************************************************)
EXTENDS Integers, Sequences, FiniteSets, Sums

CONSTANTS
    Requests,               \* request ids
    Sizes,                  \* frame sizes a message may have
    max_frame_bytes,        \* largest frame encodeFrame accepts
    max_session_frames, max_session_bytes,
    max_request_frames, max_request_bytes,
    control_reserve_frames, control_reserve_bytes,
    terminal_reserve_bytes

requestFrameCapacity == max_session_frames - control_reserve_frames
requestByteCapacity  == max_session_bytes - control_reserve_bytes

\* The bytes n Terminals yet to come may take.
ReservedBytes(n) == n * terminal_reserve_bytes

\* What validateConfiguration demands of the configuration.
ASSUME ConfigurationValid ==
    /\ \A c \in {max_frame_bytes, max_session_frames, max_session_bytes,
                 max_request_frames, max_request_bytes, control_reserve_frames,
                 control_reserve_bytes, terminal_reserve_bytes} : c \in Nat \ {0}
    /\ control_reserve_frames < max_session_frames
    /\ control_reserve_bytes < max_session_bytes
    /\ max_request_frames <= requestFrameCapacity
    /\ max_request_bytes <= requestByteCapacity
    /\ terminal_reserve_bytes <= max_request_bytes

ASSUME SizesArePositive == Sizes \subseteq Nat \ {0}

ASSUME RequestsFinite == IsFiniteSet(Requests)

VARIABLES
    accepting,
    control,                \* queue of control messages
    requests,               \* registered request ids
    messages, queued_bytes, scheduled, terminal_enqueued,  \* RequestQueue fields
    round_robin,
    control_frames, control_bytes,
    request_frames, request_bytes, terminal_reservations,
    high_watermark_frames, high_watermark_bytes

queues == <<messages, queued_bytes, scheduled, terminal_enqueued>>
controls == <<control, control_frames, control_bytes>>
totals == <<request_frames, request_bytes, terminal_reservations>>
watermarks == <<high_watermark_frames, high_watermark_bytes>>
vars == <<accepting, controls, requests, queues, round_robin, totals, watermarks>>

Message == [kind : {"Control", "Delta", "Terminal"}, size : Sizes]

Init ==
    /\ accepting = TRUE
    /\ control = <<>> /\ control_frames = 0 /\ control_bytes = 0
    /\ requests = {}
    /\ messages = [r \in Requests |-> <<>>]
    /\ queued_bytes = [r \in Requests |-> 0]
    /\ scheduled = [r \in Requests |-> FALSE]
    /\ terminal_enqueued = [r \in Requests |-> FALSE]
    /\ round_robin = <<>>
    /\ request_frames = 0 /\ request_bytes = 0 /\ terminal_reservations = 0
    /\ high_watermark_frames = 0 /\ high_watermark_bytes = 0

-----------------------------------------------------------------------------
\* A fresh or erased map entry: RequestQueue{}.
ResetQueue(r) ==
    /\ messages' = [messages EXCEPT ![r] = <<>>]
    /\ queued_bytes' = [queued_bytes EXCEPT ![r] = 0]
    /\ scheduled' = [scheduled EXCEPT ![r] = FALSE]
    /\ terminal_enqueued' = [terminal_enqueued EXCEPT ![r] = FALSE]

Larger(a, b) == IF a < b THEN b ELSE a

updateHighWatermarks ==
    /\ high_watermark_frames' = Larger(high_watermark_frames, control_frames' + request_frames')
    /\ high_watermark_bytes' = Larger(high_watermark_bytes, control_bytes' + request_bytes')

\* Append a message to the queue of r, and schedule r unless it already is.
PushScheduled(r, m) ==
    /\ messages' = [messages EXCEPT ![r] = Append(@, m)]
    /\ queued_bytes' = [queued_bytes EXCEPT ![r] = @ + m.size]
    /\ request_frames' = request_frames + 1
    /\ request_bytes' = request_bytes + m.size
    /\ scheduled' = [scheduled EXCEPT ![r] = TRUE]
    /\ round_robin' = IF scheduled[r] THEN round_robin ELSE Append(round_robin, r)

-----------------------------------------------------------------------------
\* encodeFrame refuses larger frames before the mutex is taken.
Sized(size) == size <= max_frame_bytes

TerminalReserveFull ==
    \/ request_frames + terminal_reservations + 1 > requestFrameCapacity
    \/ request_bytes + ReservedBytes(terminal_reservations + 1) > requestByteCapacity

registerRequest(r) ==
    /\ accepting
    /\ r \notin requests
    /\ ~TerminalReserveFull
    /\ requests' = requests \cup {r}
    /\ terminal_reservations' = terminal_reservations + 1
    /\ ResetQueue(r)
    /\ UNCHANGED <<accepting, controls, round_robin, request_frames, request_bytes, watermarks>>

\* A plausible bug: an abandoned request stays in the schedule.
removeScheduledRequest_Kept(r) == round_robin

\* std::remove takes out every entry of r; there is at most one (ScheduledIffQueued).
removeScheduledRequest(r) ==
    LET positions == {i \in 1..Len(round_robin) : round_robin[i] = r}
        k == CHOOSE i \in positions : TRUE
    IN  IF positions = {} THEN round_robin
        ELSE SubSeq(round_robin, 1, k - 1) \o SubSeq(round_robin, k + 1, Len(round_robin))

\* A plausible bug: a Terminal already queued gives its reservation back twice.
ReservationHeld_Always(r) == 1

\* The reservation r still holds: none once its Terminal is queued.
ReservationHeld(r) == IF terminal_enqueued[r] THEN 0 ELSE 1

abandonRequest(r) ==
    /\ r \in requests
    /\ requests' = requests \ {r}
    /\ request_frames' = request_frames - Len(messages[r])
    /\ request_bytes' = request_bytes - queued_bytes[r]
    /\ terminal_reservations' = terminal_reservations - ReservationHeld(r)
    /\ round_robin' = removeScheduledRequest(r)
    /\ ResetQueue(r)
    /\ UNCHANGED <<accepting, controls, watermarks>>

ControlFull(size) ==
    \/ control_frames + 1 > control_reserve_frames
    \/ size > control_reserve_bytes - control_bytes

enqueueControl(size) ==
    /\ Sized(size)
    /\ accepting
    /\ ~ControlFull(size)
    /\ control' = Append(control, [kind |-> "Control", size |-> size])
    /\ control_frames' = control_frames + 1
    /\ control_bytes' = control_bytes + size
    /\ UNCHANGED <<accepting, requests, queues, round_robin, totals>>
    /\ updateHighWatermarks

\* Plausible bugs: the frame of the Terminal is not set aside; the
\* reservations of the other requests are not.
DeltaRequestFull_OffByOne(r, size) ==
    \/ Len(messages[r]) + 1 > max_request_frames
    \/ size + queued_bytes[r] + terminal_reserve_bytes > max_request_bytes

DeltaSessionFull_Unreserved(size) ==
    \/ request_frames + 1 > requestFrameCapacity
    \/ size + request_bytes > requestByteCapacity

\* A Delta leaves one frame and terminal_reserve_bytes of its request free,
\* and every outstanding reservation of the session.
DeltaRequestFull(r, size) ==
    \/ Len(messages[r]) + 2 > max_request_frames
    \/ size + queued_bytes[r] + terminal_reserve_bytes > max_request_bytes

DeltaSessionFull(size) ==
    \/ request_frames + 1 + terminal_reservations > requestFrameCapacity
    \/ size + request_bytes + ReservedBytes(terminal_reservations) > requestByteCapacity

\* A plausible bug: a late Delta is accepted behind the Terminal.
enqueueDelta_AfterTerminal(r, size) ==
    /\ Sized(size)
    /\ accepting
    /\ r \in requests
    /\ ~DeltaRequestFull(r, size)
    /\ ~DeltaSessionFull(size)
    /\ PushScheduled(r, [kind |-> "Delta", size |-> size])
    /\ UNCHANGED <<accepting, requests, terminal_enqueued, controls, terminal_reservations>>
    /\ updateHighWatermarks

enqueueDelta(r, size) ==
    /\ Sized(size)
    /\ accepting
    /\ r \in requests
    /\ ~terminal_enqueued[r]
    /\ ~DeltaRequestFull(r, size)
    /\ ~DeltaSessionFull(size)
    /\ PushScheduled(r, [kind |-> "Delta", size |-> size])
    /\ UNCHANGED <<accepting, requests, terminal_enqueued, controls, terminal_reservations>>
    /\ updateHighWatermarks

TerminalRequestFull(r, size) ==
    \/ Len(messages[r]) + 1 > max_request_frames
    \/ size > max_request_bytes - queued_bytes[r]

enqueueTerminal(r, size) ==
    /\ Sized(size)
    /\ accepting
    /\ r \in requests
    /\ ~terminal_enqueued[r]
    /\ size <= terminal_reserve_bytes
    /\ ~TerminalRequestFull(r, size)
    /\ terminal_enqueued' = [terminal_enqueued EXCEPT ![r] = TRUE]
    /\ terminal_reservations' = terminal_reservations - 1
    /\ PushScheduled(r, [kind |-> "Terminal", size |-> size])
    /\ UNCHANGED <<accepting, requests, controls>>
    /\ updateHighWatermarks

-----------------------------------------------------------------------------
\* waitPop with a control message queued.
waitPopControl ==
    /\ control # <<>>
    /\ control' = Tail(control)
    /\ control_frames' = control_frames - 1
    /\ control_bytes' = control_bytes - Head(control).size
    /\ UNCHANGED <<accepting, requests, queues, round_robin, totals, watermarks>>

\* An entry of round_robin that waitPop does not skip.
Servable(k) == round_robin[k] \in requests /\ messages[round_robin[k]] # <<>>

\* Plausible bugs: a request with more to send goes back to the front, or is
\* not put back at all.
RoundRobinAgain_Front(rest, r) == <<r>> \o rest
RoundRobinAgain_Lost(rest, r) == rest

RoundRobinAgain(rest, r) == Append(rest, r)

\* What becomes of the queue of r once its first message is taken: it goes
\* to the back of round_robin, or is retired with its Terminal, or is idle.
Requeue(r, rest) ==
    \/ /\ Len(messages[r]) > 1
       /\ round_robin' = RoundRobinAgain(rest, r)
       /\ messages' = [messages EXCEPT ![r] = Tail(@)]
       /\ queued_bytes' = [queued_bytes EXCEPT ![r] = @ - Head(messages[r]).size]
       /\ UNCHANGED <<requests, scheduled, terminal_enqueued>>
    \/ /\ Len(messages[r]) = 1
       /\ Head(messages[r]).kind = "Terminal"
       /\ round_robin' = rest
       /\ requests' = requests \ {r}
       /\ ResetQueue(r)
    \/ /\ Len(messages[r]) = 1
       /\ Head(messages[r]).kind # "Terminal"
       /\ round_robin' = rest
       /\ messages' = [messages EXCEPT ![r] = <<>>]
       /\ queued_bytes' = [queued_bytes EXCEPT ![r] = @ - Head(messages[r]).size]
       /\ scheduled' = [scheduled EXCEPT ![r] = FALSE]
       /\ UNCHANGED <<requests, terminal_enqueued>>

\* waitPop without one: serve the first servable entry of round_robin.  (That
\* entry is always the head, and waitPop never runs out of entries in its loop:
\* ScheduledIffQueued.)
waitPopRequest ==
    /\ control = <<>>
    /\ \E k \in 1..Len(round_robin) :
          LET r == round_robin[k] IN
          /\ Servable(k)
          /\ \A i \in 1..(k - 1) : ~Servable(i)
          /\ Requeue(r, SubSeq(round_robin, k + 1, Len(round_robin)))
          /\ request_frames' = request_frames - 1
          /\ request_bytes' = request_bytes - Head(messages[r]).size
    /\ UNCHANGED <<accepting, controls, terminal_reservations, watermarks>>

stop ==
    /\ accepting
    /\ accepting' = FALSE
    /\ control' = <<>> /\ control_frames' = 0 /\ control_bytes' = 0
    /\ requests' = {}
    /\ messages' = [r \in Requests |-> <<>>]
    /\ queued_bytes' = [r \in Requests |-> 0]
    /\ scheduled' = [r \in Requests |-> FALSE]
    /\ terminal_enqueued' = [r \in Requests |-> FALSE]
    /\ round_robin' = <<>>
    /\ request_frames' = 0 /\ request_bytes' = 0 /\ terminal_reservations' = 0
    /\ UNCHANGED watermarks

Next ==
    \/ \E r \in Requests : registerRequest(r) \/ abandonRequest(r)
    \/ \E size \in Sizes : enqueueControl(size)
    \/ \E r \in Requests, size \in Sizes : enqueueDelta(r, size) \/ enqueueTerminal(r, size)
    \/ waitPopControl
    \/ waitPopRequest
    \/ stop

Spec == Init /\ [][Next]_vars

\* The writer thread of the session calls waitPop in a loop (writerLoop).
FairSpec == Spec /\ WF_vars(waitPopControl \/ waitPopRequest)

-----------------------------------------------------------------------------
\* The bytes of the messages of a queue.
FrameBytes(queue) == SumOf(1..Len(queue), [i \in 1..Len(queue) |-> queue[i].size])

\* The number of frames queued for each request.
Frames == [r \in Requests |-> Len(messages[r])]

\* The registered requests whose Terminal is still to come.
Owed == {r \in requests : ~terminal_enqueued[r]}

\* The unsigned counters never wrap below zero, and the fields have their types.
TypeOK ==
    /\ accepting \in BOOLEAN
    /\ control \in Seq(Message)
    /\ requests \in SUBSET Requests
    /\ messages \in [Requests -> Seq(Message)]
    /\ queued_bytes \in [Requests -> Nat]
    /\ scheduled \in [Requests -> BOOLEAN]
    /\ terminal_enqueued \in [Requests -> BOOLEAN]
    /\ round_robin \in Seq(Requests)
    /\ control_frames \in Nat /\ control_bytes \in Nat
    /\ request_frames \in Nat /\ request_bytes \in Nat
    /\ terminal_reservations \in Nat
    /\ high_watermark_frames \in Nat /\ high_watermark_bytes \in Nat

\* The counters that enqueue, waitPop and abandonRequest update one by one
\* are what the queues add up to, and one Terminal is reserved for every
\* registered request that has not queued its own.
CountersMatchQueues ==
    /\ control_frames = Len(control)
    /\ control_bytes = FrameBytes(control)
    /\ \A r \in Requests : queued_bytes[r] = FrameBytes(messages[r])
    /\ request_frames = SumOf(Requests, Frames)
    /\ request_bytes = SumOf(Requests, queued_bytes)
    /\ terminal_reservations = Cardinality(Owed)

\* Whatever the queues hold, a Terminal within its reserve is never refused
\* for a registered request that has none yet: data cannot use up its room.
TerminalAlwaysFits ==
    \A r \in Owed :
        \A size \in Sizes : size <= terminal_reserve_bytes => ~TerminalRequestFull(r, size)

\* Queued data and the Terminals still owed fit the request partition, control
\* messages fit their reserve, and the session limits were never exceeded.
SessionWithinCapacity ==
    /\ request_frames + terminal_reservations <= requestFrameCapacity
    /\ request_bytes + ReservedBytes(terminal_reservations) <= requestByteCapacity
    /\ control_frames <= control_reserve_frames
    /\ control_bytes <= control_reserve_bytes
    /\ high_watermark_frames <= max_session_frames
    /\ high_watermark_bytes <= max_session_bytes

\* A request is in round_robin once when it has something to send and not at
\* all when it has nothing, so waitPop neither loses nor skips a request.
ScheduledIffQueued ==
    /\ \A r \in Requests : scheduled[r] <=> messages[r] # <<>>
    /\ \A r \in Requests : scheduled[r] <=> \E i \in 1..Len(round_robin) : round_robin[i] = r
    /\ \A i, j \in 1..Len(round_robin) : round_robin[i] = round_robin[j] => i = j

\* The counters, the capacity and the schedule all agree with the queues after
\* every operation of every thread.
Bookkeeping == TypeOK /\ CountersMatchQueues /\ SessionWithinCapacity /\ ScheduledIffQueued

\* Nothing is queued behind a Terminal, and a registered request whose Terminal
\* was taken still has it queued.
NothingAfterTerminal ==
    \A r \in requests :
        /\ \A i \in 1..Len(messages[r]) :
              messages[r][i].kind = "Terminal" => i = Len(messages[r])
        /\ terminal_enqueued[r] <=>
              messages[r] # <<>> /\ messages[r][Len(messages[r])].kind = "Terminal"

\* An id without a map entry has no queue.
UnregisteredEmpty ==
    \A r \in Requests \ requests :
        /\ messages[r] = <<>> /\ queued_bytes[r] = 0
        /\ ~scheduled[r] /\ ~terminal_enqueued[r]

\* The room a request keeps for its Terminal.
TerminalRoomKept ==
    \A r \in Owed :
        /\ Len(messages[r]) + 1 <= max_request_frames
        /\ queued_bytes[r] + terminal_reserve_bytes <= max_request_bytes

\* The inductive invariant behind the safety properties.
IInv ==
    /\ TypeOK
    /\ UnregisteredEmpty
    /\ CountersMatchQueues
    /\ TerminalRoomKept
    /\ SessionWithinCapacity
    /\ ScheduledIffQueued
    /\ NothingAfterTerminal

\* The step is a waitPop that hands out a message of r, and r stays registered.
Served(r) == accepting' /\ r \in requests' /\ Len(messages'[r]) < Len(messages[r])

\* Round-robin service: waitPop serves the head of the schedule, a request that
\* waits never moves back in it, and it moves forward when another is served.
NoOvertaking ==
    [][\A i \in 1..Len(round_robin) :
          LET r == round_robin[i]
              others == \E x \in Requests \ {r} : Served(x)
          IN  /\ Served(r) => i = 1
              /\ scheduled'[r] /\ ~Served(r) =>
                    \E k \in 1..i : round_robin'[k] = r /\ (others => k < i)]_vars

\* When control traffic pauses for good, the Terminal of a request leaves the
\* egress: later data of the other requests cannot hold it back.
TerminalDelivered ==
    <>[](control = <<>>) => \A r \in Requests : terminal_enqueued[r] ~> r \notin requests

====
