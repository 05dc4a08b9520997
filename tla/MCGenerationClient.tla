------------------------- MODULE MCGenerationClient -------------------------
(***************************************************************************)
(* What happens to one GenerationClient, a few calls at a time.            *)
(***************************************************************************)
EXTENDS GenerationClient

CONSTANTS r1, r2, p1

Calls(submits, cancels, healths, restarts, closes, connects, count) ==
    [submitted |-> submits, cancelled |-> cancels, probed |-> healths,
     restarted |-> restarts, closed |-> closes, connects |-> connects, deltas |-> count]

\* Two requests, one too large for a frame, over a reconnect; a request that is
\* cancelled over one; a request and a probe over one, to the same Worker and to a
\* new one; a stream that overflows.
MCScenarios ==
    {Calls({r1, r2}, {}, {}, TRUE, TRUE, 2, 1),
     Calls({r1}, {r1}, {}, TRUE, TRUE, 2, 1),
     Calls({r1}, {}, {p1}, FALSE, FALSE, 2, 1), Calls({r1}, {}, {p1}, TRUE, FALSE, 2, 0),
     Calls({r1}, {r1}, {p1}, FALSE, TRUE, 1, 1),
     Calls({r1}, {r1}, {}, FALSE, TRUE, 1, 4)}

\* A request and a probe over a reconnect; a reader that has to send a Cancel beside
\* the prober and the canceller; a request and close, over a reconnect.
MCLiveScenarios ==
    {Calls({r1}, {}, {p1}, FALSE, FALSE, 2, 0),
     Calls({r1}, {r1}, {p1}, FALSE, FALSE, 1, 2),
     Calls({r1}, {}, {}, TRUE, TRUE, 2, 0)}

====
