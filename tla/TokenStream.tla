---------------------------- MODULE TokenStream ----------------------------
(***************************************************************************)
(* What the consumer of an accepted request is promised: TokenDeltas with  *)
(* consecutive sequence numbers from 0, then one Terminal whose usage is   *)
(* the number of tokens delivered, then nothing.  RequestState is shown to *)
(* implement it; it abstracts from the mailbox and from the threads that   *)
(* race to end the request.                                                *)
(***************************************************************************)
EXTENDS Integers

CONSTANTS
    Jobs,                   \* calls of submit
    MaxTokens               \* bound: tokens of one delta

VARIABLES
    opened,                 \* the calls accepted so far
    seen                    \* what the consumer of each has been handed

\* A consumer that has been handed nothing; last is the last sequence number.
Nothing == [deltas |-> 0, tokens |-> 0, last |-> -1, ended |-> FALSE, usage |-> 0]

\* A consumer that is handed a delta of n tokens, or the Terminal.
GotDelta(s, n, sequence_no) ==
    [deltas |-> s.deltas + 1, tokens |-> s.tokens + n, last |-> sequence_no,
     ended |-> s.ended, usage |-> s.usage]
GotTerminal(s, usage) == [s EXCEPT !.ended = TRUE, !.usage = usage]

Init == opened = {} /\ seen = [j \in Jobs |-> Nothing]

Open(j) ==
    /\ j \notin opened
    /\ opened' = opened \cup {j}
    /\ UNCHANGED seen

Delta(j, n) ==
    /\ j \in opened
    /\ ~seen[j].ended
    /\ seen' = [seen EXCEPT ![j] = GotDelta(seen[j], n, seen[j].deltas)]
    /\ UNCHANGED opened

Terminal(j) ==
    /\ j \in opened
    /\ ~seen[j].ended
    /\ seen' = [seen EXCEPT ![j] = GotTerminal(seen[j], seen[j].tokens)]
    /\ UNCHANGED opened

Next == \E j \in Jobs : Open(j) \/ Terminal(j) \/ \E n \in 1..MaxTokens : Delta(j, n)

Spec == Init /\ [][Next]_<<opened, seen>>

====
