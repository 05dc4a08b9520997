-------------------------- MODULE MCRuntimeBridge --------------------------
(***************************************************************************)
(* RuntimeBridge with two requests that have the same id and a third.      *)
(***************************************************************************)
EXTENDS RuntimeBridge

CONSTANTS j1, j2, j3

IdsOfJobs == [j \in Jobs |-> IF j = j3 THEN 2 ELSE 1]

One == [j \in Jobs |-> 1]

Submit(j) == <<"Submit", j>>
Cancel(j) == <<"Cancel", j>>
Health == <<"Health", Nobody>>
Other == <<"Other", Nobody>>

\* A client that sends these messages, its requests with n deltas but for j2, which has none.
Client(messages_, n, faults_) ==
    [inbox |-> messages_, deltas |-> [j \in Jobs |-> IF j = j2 THEN 0 ELSE n],
     faults |-> faults_]

\* More deltas than the egress has room for, and the id used again; a shutdown from
\* every side; two requests at once; a Cancel; a probe whose reply fills the control queue; a message the
\* Worker does not take.
Clients ==
    {Client(<<Submit(j1), Submit(j2), Cancel(j1)>>, 2, {}),
     Client(<<Submit(j1)>>, 2, {"stop", "stall"}),
     Client(<<Submit(j1)>>, 1, {"stop", "close"}),
     Client(<<Submit(j1), Submit(j2)>>, 0, {"stop"}),
     Client(<<Submit(j1), Submit(j3)>>, 1, {}),
     Client(<<Submit(j1), Cancel(j1)>>, 1, {"stop"}),
     Client(<<Health, Submit(j1)>>, 0, {"stop", "stall"}),
     Client(<<Submit(j1), Other>>, 0, {"stop"})}

====
