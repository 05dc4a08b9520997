---------------------------- MODULE RequestState ----------------------------
(***************************************************************************)
(* The life of an accepted request: its RequestState                       *)
(* (src/runtime/request_state.cpp) and the GenerationMailbox through which *)
(* its events reach the consumer (src/runtime/generation_mailbox.cpp).     *)
(* Cancel, time-out, backpressure, backend failure and stop all end a      *)
(* request through finalize, from whatever thread.                         *)
(*                                                                         *)
(* Each method of RequestState holds the mutex of its request, so it is    *)
(* one action, except finalize: pushTerminal makes the Terminal visible to *)
(* the consumer before the lease is returned and the phase is Terminal.    *)
(* The mutex is held in between (finalizing).  A call that finds nothing   *)
(* to do changes nothing.                                                  *)
(***************************************************************************)
EXTENDS Integers, Sequences, Sums

CONSTANTS
    Jobs,                   \* calls of submit
    Statuses,               \* status and finish reason of a Terminal
    max_queued_deltas, max_queued_tokens,
    MaxTokens               \* bound: tokens the executor generates for one request

ASSUME MailboxConfigValid ==
    max_queued_deltas \in Nat \ {0} /\ max_queued_tokens \in Nat \ {0} /\ MaxTokens \in Nat

ASSUME NoneIsNoStatus == "none" \notin Statuses

VARIABLES
    phase, nextSequenceNo, completionTokens,          \* RequestState
    finalizing,                                       \* finalize holds its mutex
    deltas, queuedTokens, terminal, terminalCommitted, closed,  \* GenerationMailbox
    seen                    \* what waitPop has handed to the consumer

requestState == <<phase, nextSequenceNo, completionTokens, finalizing>>
mailbox == <<deltas, queuedTokens, terminal, terminalCommitted, closed>>
vars == <<requestState, mailbox, seen>>

NoTerminal == [status |-> "none", usage |-> 0]

\* The promise to the consumer; a request is open once it has a RequestState.
Stream == INSTANCE TokenStream WITH opened <- {j \in Jobs : phase[j] # "None"}

Init ==
    /\ phase = [j \in Jobs |-> "None"]
    /\ nextSequenceNo = [j \in Jobs |-> 0]
    /\ completionTokens = [j \in Jobs |-> 0]
    /\ finalizing = [j \in Jobs |-> FALSE]
    /\ deltas = [j \in Jobs |-> <<>>]
    /\ queuedTokens = [j \in Jobs |-> 0]
    /\ terminal = [j \in Jobs |-> NoTerminal]
    /\ terminalCommitted = [j \in Jobs |-> FALSE]
    /\ closed = [j \in Jobs |-> FALSE]
    /\ seen = [j \in Jobs |-> Stream!Nothing]

-----------------------------------------------------------------------------
Live(j) == phase[j] \in {"Accepted", "Running"}

\* A plausible bug: late tokens of a cancelled request are delivered.
TakesDelta_Late(j) == phase[j] \in {"Accepted", "Running", "Cancelling"}

TakesDelta(j) == Live(j)

\* The constructors of GenerationMailbox and RequestState.
create(j) ==
    /\ phase[j] = "None"
    /\ phase' = [phase EXCEPT ![j] = "Accepted"]
    /\ UNCHANGED <<nextSequenceNo, completionTokens, finalizing, mailbox, seen>>

markRunning(j) ==
    /\ ~finalizing[j]
    /\ phase[j] = "Accepted"
    /\ phase' = [phase EXCEPT ![j] = "Running"]
    /\ UNCHANGED <<nextSequenceNo, completionTokens, finalizing, mailbox, seen>>

markCancelling(j) ==
    /\ ~finalizing[j]
    /\ Live(j)
    /\ phase' = [phase EXCEPT ![j] = "Cancelling"]
    /\ UNCHANGED <<nextSequenceNo, completionTokens, finalizing, mailbox, seen>>

\* tryPushDelta answers false.
PushRefused(j, n) ==
    \/ closed[j] \/ terminalCommitted[j]
    \/ Len(deltas[j]) >= max_queued_deltas
    \/ n > max_queued_tokens - queuedTokens[j]

tryPushDelta(j, d) ==
    /\ ~PushRefused(j, d.tokens)
    /\ deltas' = [deltas EXCEPT ![j] = Append(@, d)]
    /\ queuedTokens' = [queuedTokens EXCEPT ![j] = @ + d.tokens]
    /\ UNCHANGED <<terminal, terminalCommitted, closed>>

NextDelta(j, n) == [sequence_no |-> nextSequenceNo[j], tokens |-> n]

\* tryCommitDelta answers Backpressure to n tokens.
Backpressure(j, n) == TakesDelta(j) /\ PushRefused(j, n)

\* A plausible bug: sequence number and usage advance although the mailbox
\* refuses the delta.
tryCommitDelta_Eager(j, n) ==
    /\ ~finalizing[j]
    /\ TakesDelta(j)
    /\ tryPushDelta(j, NextDelta(j, n)) \/ (PushRefused(j, n) /\ UNCHANGED mailbox)
    /\ nextSequenceNo' = [nextSequenceNo EXCEPT ![j] = @ + 1]
    /\ completionTokens' = [completionTokens EXCEPT ![j] = @ + n]
    /\ phase' = [phase EXCEPT ![j] = "Running"]
    /\ UNCHANGED <<finalizing, seen>>

\* tryCommitDelta when it commits; its other answers change nothing.
tryCommitDelta(j, n) ==
    /\ ~finalizing[j]
    /\ TakesDelta(j)
    /\ tryPushDelta(j, NextDelta(j, n))
    /\ nextSequenceNo' = [nextSequenceNo EXCEPT ![j] = @ + 1]
    /\ completionTokens' = [completionTokens EXCEPT ![j] = @ + n]
    /\ phase' = [phase EXCEPT ![j] = "Running"]
    /\ UNCHANGED <<finalizing, seen>>

\* A plausible bug: finalize looks at the phase without holding the mutex.
pushTerminal_Racy(j, status) ==
    /\ phase[j] \notin {"None", "Terminal"}
    /\ terminal' = [terminal EXCEPT ![j] = [status |-> status, usage |-> completionTokens[j]]]
    /\ terminalCommitted' = [terminalCommitted EXCEPT ![j] = TRUE]
    /\ finalizing' = [finalizing EXCEPT ![j] = TRUE]
    /\ UNCHANGED <<phase, nextSequenceNo, completionTokens, deltas, queuedTokens, closed, seen>>

\* finalize, up to the moment the Terminal is in its slot.  (The mailbox never
\* refuses it: TerminalGate.)
pushTerminal(j, status) ==
    /\ ~finalizing[j]
    /\ phase[j] \notin {"None", "Terminal"}
    /\ ~closed[j] /\ ~terminalCommitted[j]
    /\ terminal' = [terminal EXCEPT ![j] = [status |-> status, usage |-> completionTokens[j]]]
    /\ terminalCommitted' = [terminalCommitted EXCEPT ![j] = TRUE]
    /\ finalizing' = [finalizing EXCEPT ![j] = TRUE]
    /\ UNCHANGED <<phase, nextSequenceNo, completionTokens, deltas, queuedTokens, closed, seen>>

\* The rest of finalize: the lease is returned, the phase is Terminal.
endFinalize(j) ==
    /\ finalizing[j]
    /\ finalizing' = [finalizing EXCEPT ![j] = FALSE]
    /\ phase' = [phase EXCEPT ![j] = "Terminal"]
    /\ UNCHANGED <<nextSequenceNo, completionTokens, mailbox, seen>>

\* waitPop with a delta queued: deltas go before the Terminal.
waitPopDelta(j) ==
    /\ deltas[j] # <<>>
    /\ LET d == Head(deltas[j]) IN
       /\ queuedTokens' = [queuedTokens EXCEPT ![j] = @ - d.tokens]
       /\ seen' = [seen EXCEPT ![j] = Stream!GotDelta(seen[j], d.tokens, d.sequence_no)]
    /\ deltas' = [deltas EXCEPT ![j] = Tail(@)]
    /\ UNCHANGED <<requestState, terminal, terminalCommitted, closed>>

\* A plausible bug: a committed Terminal overtakes the deltas queued before it.
TerminalNext_First(j) == terminal[j].status # "none"

TerminalNext(j) == deltas[j] = <<>> /\ terminal[j].status # "none"

\* waitPop hands out the Terminal and closes the mailbox.
waitPopTerminal(j) ==
    /\ TerminalNext(j)
    /\ seen' = [seen EXCEPT ![j] = Stream!GotTerminal(seen[j], terminal[j].usage)]
    /\ terminal' = [terminal EXCEPT ![j] = NoTerminal]
    /\ closed' = [closed EXCEPT ![j] = TRUE]
    /\ UNCHANGED <<requestState, deltas, queuedTokens, terminalCommitted>>

Next ==
    \E j \in Jobs :
        \/ create(j) \/ markRunning(j) \/ markCancelling(j)
        \/ \E n \in 1..(MaxTokens - completionTokens[j]) : tryCommitDelta(j, n)
        \/ \E status \in Statuses : pushTerminal(j, status)
        \/ endFinalize(j)
        \/ waitPopDelta(j) \/ waitPopTerminal(j)

Spec == Init /\ [][Next]_vars

-----------------------------------------------------------------------------
Phases == {"None", "Accepted", "Running", "Cancelling", "Terminal"}
Delta == [sequence_no : Nat, tokens : 1..MaxTokens]
Seen == [deltas : Nat, tokens : Nat, last : Nat \cup {-1}, ended : BOOLEAN, usage : Nat]

\* The tokens of the deltas of a queue.
Tokens(queue) == SumOf(1..Len(queue), [i \in 1..Len(queue) |-> queue[i].tokens])

\* The counters never wrap below zero, and the fields have their types.
TypeOK ==
    /\ phase \in [Jobs -> Phases]
    /\ nextSequenceNo \in [Jobs -> Nat]
    /\ completionTokens \in [Jobs -> Nat]
    /\ finalizing \in [Jobs -> BOOLEAN]
    /\ deltas \in [Jobs -> Seq(Delta)]
    /\ queuedTokens \in [Jobs -> Nat]
    /\ terminal \in [Jobs -> [status : Statuses \cup {"none"}, usage : Nat]]
    /\ terminalCommitted \in [Jobs -> BOOLEAN]
    /\ closed \in [Jobs -> BOOLEAN]
    /\ seen \in [Jobs -> Seen]

\* The mailbox holds the deltas the consumer has not seen, numbered on from
\* there without a gap, within both limits.
QueueContiguous ==
    \A j \in Jobs :
        /\ nextSequenceNo[j] = seen[j].deltas + Len(deltas[j])
        /\ \A i \in 1..Len(deltas[j]) : deltas[j][i].sequence_no = seen[j].deltas + i - 1
        /\ queuedTokens[j] = Tokens(deltas[j])
        /\ Len(deltas[j]) <= max_queued_deltas
        /\ queuedTokens[j] <= max_queued_tokens

\* Every token counted in completionTokens is with the consumer or in the
\* mailbox, and the usage of a Terminal counts exactly the tokens before it.
UsageExact ==
    \A j \in Jobs :
        /\ completionTokens[j] = seen[j].tokens + queuedTokens[j]
        /\ terminal[j].status # "none" => terminal[j].usage = completionTokens[j]
        /\ seen[j].ended => seen[j].usage = completionTokens[j] /\ deltas[j] = <<>>

\* The mailbox takes a Terminal whenever finalize is the first to offer one, and
\* the slot, the phase and the consumer agree on whether it was.
TerminalGate ==
    \A j \in Jobs :
        /\ terminalCommitted[j] <=> finalizing[j] \/ phase[j] = "Terminal"
        /\ terminalCommitted[j] <=> terminal[j].status # "none" \/ seen[j].ended
        /\ closed[j] <=> seen[j].ended
        /\ ~(terminal[j].status # "none" /\ seen[j].ended)
        /\ phase[j] = "None" => ~terminalCommitted[j] /\ deltas[j] = <<>>
        /\ ~(finalizing[j] /\ phase[j] = "Terminal")

\* Mailbox, counters and phase agree after every call of every thread.
Bookkeeping == TypeOK /\ QueueContiguous /\ UsageExact /\ TerminalGate

\* cancel, backpressure and stop silence a request at once: from Cancelling on
\* nothing is committed any more, and no phase is left again.
CancelSilences ==
    [][\A j \in Jobs :
          phase[j] \in {"Cancelling", "Terminal"} =>
             /\ nextSequenceNo'[j] = nextSequenceNo[j]
             /\ phase'[j] \in {phase[j], "Terminal"}]_vars

\* Racing threads and a mailbox in between, but the consumer sees consecutive
\* deltas and then one Terminal with the exact usage.
ImplementsStream == Stream!Spec

====
