---------------------------- MODULE HandlePromise ----------------------------
(***************************************************************************)
(* What the Python client promises the users of submit and of the          *)
(* GenerationHandle it returns: one verdict for each call; a handle yields *)
(* deltas with growing sequence numbers, then one Terminal, then nothing.  *)
(***************************************************************************)
EXTENDS Integers, Sequences

CONSTANTS Requests, SequenceNumbers

VARIABLES
    verdict,    \* "none", then "handle" or "refused"
    read,       \* the sequence numbers of the deltas the handle has yielded
    ended       \* the requests whose handle has yielded its Terminal
vars == <<verdict, read, ended>>

Init ==
    /\ verdict = [r \in Requests |-> "none"]
    /\ read = [r \in Requests |-> <<>>]
    /\ ended = {}

Decide(r) ==
    /\ verdict[r] = "none"
    /\ \E v \in {"handle", "refused"} : verdict' = [verdict EXCEPT ![r] = v]
    /\ UNCHANGED <<read, ended>>

Yields(r) == verdict[r] = "handle" /\ r \notin ended

YieldDelta(r) ==
    /\ Yields(r)
    /\ \E n \in SequenceNumbers :
         /\ \A i \in 1..Len(read[r]) : read[r][i] < n
         /\ read' = [read EXCEPT ![r] = Append(@, n)]
    /\ UNCHANGED <<verdict, ended>>

YieldTerminal(r) ==
    /\ Yields(r)
    /\ ended' = ended \cup {r}
    /\ UNCHANGED <<verdict, read>>

Next == \E r \in Requests : Decide(r) \/ YieldDelta(r) \/ YieldTerminal(r)

Spec == Init /\ [][Next]_vars

====
