--------------------------- MODULE GatewayService ---------------------------
(***************************************************************************)
(* GatewayService (gateway/python/.../runtime.py) and the HTTP application *)
(* around it (api.py): the lifespan that builds, starts and stops the      *)
(* service, /readyz, /metrics and the part of /v1/chat/completions up to   *)
(* the accepted session, whose life GatewaySession describes.  A step is   *)
(* what a task does from one await to the next; the GenerationClient, the  *)
(* other end of every to_thread, may lose its connection at any time.      *)
(***************************************************************************)
EXTENDS Integers, FiniteSets

CONSTANTS
    Chats, Readyz, Scrapes,     \* calls of the three endpoints
    pool_size,                  \* threads of the event loop's default executor
    MaxConnections              \* bound: successful connects of the client

ASSUME CallsDistinct ==
    /\ Chats \cap Readyz = {} /\ Chats \cap Scrapes = {} /\ Readyz \cap Scrapes = {}
    /\ {"lifespan", "free"} \cap (Chats \cup Readyz \cup Scrapes) = {}
    /\ IsFiniteSet(Chats)
    /\ pool_size \in Nat \ {0} /\ MaxConnections \in Nat

Lifespan == "lifespan"
Tasks == Chats \cup Readyz \cup Scrapes \cup {Lifespan}

VARIABLES
    service,                    \* state.service: "building", "built", "None"
    stopping, ready_flag,       \* _stopping and _ready
    connection_lock,            \* who holds _connection_lock, or "free"
    active,                     \* _active
    offered, accepted, rejected \* GatewayMetrics
gateway == <<service, stopping, ready_flag, connection_lock, active>>
metrics == <<offered, accepted, rejected>>

VARIABLES
    pc,                         \* where each task is
    connection,                 \* the client's connection, 0 when not connected
    connects,                   \* successful connects so far
    server_waits,               \* whether stop is called only when no call is left
    timeout_overflows           \* whether request_timeout_seconds * 1000 is infinite
setting == <<server_waits, timeout_overflows>>

VARIABLES
    connected_by,               \* history: who connected the client last
    caught                      \* history: the calls stop found inside the service
history == <<connected_by, caught>>

vars == <<gateway, metrics, pc, connection, connects, setting, history>>

Init ==
    /\ service = "building" /\ stopping = FALSE
    /\ ready_flag = FALSE /\ connection_lock = "free" /\ active = {}
    /\ offered = 0 /\ accepted = 0 /\ rejected = 0
    /\ pc = [t \in Tasks |-> "idle"]
    /\ connection = 0 /\ connects = 0
    /\ server_waits \in BOOLEAN /\ timeout_overflows \in BOOLEAN
    /\ connected_by = "free" /\ caught = {}

-----------------------------------------------------------------------------
connected == connection # 0
ready == ready_flag /\ connected
Serving == pc[Lifespan] = "serving"
Finished == {"over", "raised"}

\* check_readiness and submit past their tests of _stopping.
Inside == {"lock", "connect", "health", "submit"}

\* The server takes calls while the lifespan serves; other users of the service
\* may go on calling it while stop runs and after it.
Open == Serving \/ (stopping /\ ~server_waits)

Go(t, there) == pc' = [pc EXCEPT ![t] = there]
Answer(t) == Go(t, "over")
Reject(t) == rejected' = rejected + 1 /\ Answer(t)

\* submit, from a service that is ready up to the next await: the prompt is
\* encoded and checked, and the request given to the client; unless int() of
\* the timeout in milliseconds raises OverflowError, which nobody catches.
Encode(t) ==
    \/ Reject(t)
    \/ ~timeout_overflows /\ Go(t, "submit") /\ UNCHANGED rejected
    \/ timeout_overflows /\ Go(t, "raised") /\ UNCHANGED rejected

\* What the caller of check_readiness does next.
ReadinessPassed(t) ==
    \/ t \in Chats /\ Encode(t)
    \/ t \in Readyz /\ Answer(t) /\ UNCHANGED rejected
    \/ t = Lifespan /\ Go(t, "serving") /\ UNCHANGED rejected

ReadinessRefused(t) ==
    \/ t \in Chats /\ Reject(t)
    \/ t \in Readyz /\ Answer(t) /\ UNCHANGED rejected
    \/ t = Lifespan /\ Go(t, "serving") /\ UNCHANGED rejected

\* check_readiness up to its first await.
CheckReadiness_NeverStopped(t) == Go(t, "lock") /\ UNCHANGED rejected

CheckReadiness(t) ==
    \/ stopping /\ ReadinessRefused(t)
    \/ ~stopping /\ Go(t, "lock") /\ UNCHANGED rejected

-----------------------------------------------------------------------------
\* lifespan: the service is built and started, or the application goes on
\* without one.
LifespanBuilds ==
    /\ pc[Lifespan] = "idle" /\ service = "building"
    /\ \/ service' = "None" /\ Go(Lifespan, "serving")
       \/ service' = "built" /\ Go(Lifespan, "lock")
    /\ UNCHANGED <<stopping, ready_flag, connection_lock, active, metrics,
                   connection, connects, setting, history>>

\* The server ends the lifespan when no call is left; other users of the
\* service may call stop at any time.
LifespanStops ==
    /\ Serving
    /\ server_waits => \A t \in Tasks \ {Lifespan} : pc[t] \in {"idle"} \cup Finished
    /\ \/ /\ service = "None" /\ Go(Lifespan, "over")
          /\ UNCHANGED <<stopping, ready_flag, caught>>
       \/ /\ service = "built" /\ Go(Lifespan, "drain")
          /\ stopping' = TRUE /\ ready_flag' = FALSE
          /\ caught' = {t \in Tasks : pc[t] \in Inside}
    /\ UNCHANGED <<service, connection_lock, active, metrics, connection,
                   connects, setting, connected_by>>

\* stop: the sessions it found are done or their grace is over (GatewaySession
\* has the steps of it); the client is closed in a thread.
StopDrained ==
    /\ pc[Lifespan] = "drain"
    /\ Go(Lifespan, "close")
    /\ UNCHANGED <<gateway, metrics, connection, connects, setting, history>>

StopCloses ==
    /\ pc[Lifespan] = "close"
    /\ connection' = 0
    /\ Go(Lifespan, "over")
    /\ UNCHANGED <<gateway, metrics, connects, setting, history>>

-----------------------------------------------------------------------------
\* check_readiness holds _connection_lock and connects the client if needed.
ReadinessLocks_Unlocked(t) ==
    /\ pc[t] = "lock"
    /\ Go(t, IF connected THEN "health" ELSE "connect")
    /\ UNCHANGED <<gateway, metrics, connection, connects, setting, history>>

ReadinessLocks(t) ==
    /\ pc[t] = "lock" /\ connection_lock = "free"
    /\ connection_lock' = t
    /\ Go(t, IF connected THEN "health" ELSE "connect")
    /\ UNCHANGED <<service, stopping, ready_flag, active, metrics, connection,
                   connects, setting, history>>

ReadinessFails(t) ==
    /\ ready_flag' = FALSE
    /\ connection_lock' = "free"
    /\ ReadinessRefused(t)

ConnectReturns(t) ==
    /\ pc[t] = "connect"
    /\ \/ /\ ~connected /\ connects < MaxConnections
          /\ connects' = connects + 1 /\ connection' = connects + 1
          /\ connected_by' = t
          /\ Go(t, "health")
          /\ UNCHANGED <<ready_flag, connection_lock, rejected>>
       \/ ReadinessFails(t) /\ UNCHANGED <<connection, connects, connected_by>>
    /\ UNCHANGED <<service, stopping, active, offered, accepted, setting, caught>>

\* health: Stats of a Worker that is ready, or any failure.  The connection
\* the Stats came by may be lost again by the time the task resumes.
HealthReturns_LockKept(t) ==
    /\ pc[t] = "health"
    /\ \/ /\ ready_flag' = TRUE
          /\ ReadinessPassed(t)
       \/ /\ ready_flag' = FALSE
          /\ ReadinessRefused(t)
    /\ UNCHANGED <<service, stopping, connection_lock, active, offered, accepted, connection,
                   connects, setting, history>>

HealthReturns(t) ==
    /\ pc[t] = "health"
    /\ \/ /\ ready_flag' = TRUE
          /\ connection_lock' = "free"
          /\ ReadinessPassed(t)
       \/ ReadinessFails(t)
    /\ UNCHANGED <<service, stopping, active, offered, accepted, connection, connects, setting, history>>

-----------------------------------------------------------------------------
\* GET /readyz and GET /metrics.
CallReadyz(t) ==
    /\ Open /\ pc[t] = "idle"
    /\ \/ service = "None" /\ Answer(t) /\ UNCHANGED rejected
       \/ service = "built" /\ CheckReadiness(t)
    /\ UNCHANGED <<gateway, offered, accepted, connection, connects, setting, history>>

CallMetrics_Reconnects(t) ==
    /\ Open /\ pc[t] = "idle"
    /\ \/ service = "None" /\ Answer(t) /\ UNCHANGED <<connection, connects>>
       \/ service = "built" /\ connected /\ Go(t, "stats") /\ UNCHANGED <<connection, connects>>
       \/ /\ service = "built" /\ ~connected /\ connects < MaxConnections
          /\ connects' = connects + 1 /\ connection' = connects + 1
          /\ Go(t, "stats")
    /\ UNCHANGED <<gateway, metrics, setting, history>>

CallMetrics(t) ==
    /\ Open /\ pc[t] = "idle"
    /\ \/ service = "None" /\ Answer(t)
       \/ service = "built" /\ ~connected /\ Answer(t)
       \/ service = "built" /\ connected /\ Go(t, "stats")
    /\ UNCHANGED <<gateway, metrics, connection, connects, setting, history>>

StatsReturn(t) ==
    /\ pc[t] = "stats"
    /\ Answer(t)
    /\ UNCHANGED <<gateway, metrics, connection, connects, setting, history>>

\* POST /v1/chat/completions: the body is read.
CallChat(t) ==
    /\ Open /\ pc[t] = "idle"
    /\ \/ service = "None" /\ Answer(t)
       \/ service = "built" /\ Go(t, "body")
    /\ UNCHANGED <<gateway, metrics, connection, connects, setting, history>>

\* The body is refused (its size, its JSON, its fields), or submit begins.
Submit(t) ==
    \/ Reject(t)            \* stopping, or not the model this Gateway serves
    \/ ~stopping /\ ready /\ Encode(t)
    \/ ~stopping /\ ~ready /\ CheckReadiness(t)

BodyRead(t) ==
    /\ pc[t] = "body"
    /\ \/ Answer(t) /\ UNCHANGED <<offered, rejected>>
       \/ offered' = offered + 1 /\ Submit(t)
    /\ UNCHANGED <<gateway, accepted, connection, connects, setting, history>>

\* client.submit returns a handle, or raises: RequestRejectedError,
\* ClientCapacityError or ValueError, else WorkerUnavailableError.
SubmitReturns_Uncounted(t) ==
    /\ pc[t] = "submit"
    /\ \/ /\ accepted' = accepted + 1 /\ active' = active \cup {t}
          /\ Answer(t)
          /\ UNCHANGED <<ready_flag, rejected>>
       \/ /\ Answer(t)
          /\ ready_flag' = FALSE
          /\ UNCHANGED <<accepted, active, rejected>>
    /\ UNCHANGED <<service, stopping, connection_lock, offered, connection, connects, setting, history>>

SubmitReturns(t) ==
    /\ pc[t] = "submit"
    /\ \/ /\ accepted' = accepted + 1 /\ active' = active \cup {t}
          /\ Answer(t)
          /\ UNCHANGED <<ready_flag, rejected>>
       \/ /\ Reject(t)
          /\ UNCHANGED <<ready_flag, accepted, active>>
       \/ /\ Reject(t)
          /\ ready_flag' = FALSE
          /\ UNCHANGED <<accepted, active>>
    /\ UNCHANGED <<service, stopping, connection_lock, offered, connection, connects, setting, history>>

\* _session_finished.
SessionFinished(t) ==
    /\ t \in active
    /\ active' = active \ {t}
    /\ UNCHANGED <<service, stopping, ready_flag, connection_lock, metrics, pc,
                   connection, connects, setting, history>>

\* The Worker goes away, or the client gives the connection up.
ConnectionLost ==
    /\ connected /\ connection' = 0
    /\ UNCHANGED <<gateway, metrics, pc, connects, setting, history>>

-----------------------------------------------------------------------------
Readiness(t) == ReadinessLocks(t) \/ ConnectReturns(t) \/ HealthReturns(t)

Next ==
    \/ LifespanBuilds \/ LifespanStops \/ StopDrained \/ StopCloses \/ ConnectionLost
    \/ \E t \in Chats \cup Readyz \cup {Lifespan} : Readiness(t)
    \/ \E t \in Readyz : CallReadyz(t)
    \/ \E t \in Scrapes : CallMetrics(t) \/ StatsReturn(t)
    \/ \E t \in Chats : CallChat(t) \/ BodyRead(t) \/ SubmitReturns(t) \/ SessionFinished(t)

Spec == Init /\ [][Next]_vars

\* The pump of a session holds a thread of the executor until its Worker says
\* something; there is one left for the calls of the client.
SpareThread == Cardinality(active) < pool_size

\* Where a task goes on by itself: it gets the lock, or its call of the client,
\* which has a timeout, has had a thread and returns.
Resumes(t) ==
    \/ t \notin Scrapes /\ ReadinessLocks(t)
    \/ SpareThread /\ t \notin Scrapes /\ (ConnectReturns(t) \/ HealthReturns(t))
    \/ SpareThread /\ t \in Chats /\ SubmitReturns(t)
    \/ SpareThread /\ t \in Scrapes /\ StatsReturn(t)

\* Every task that can go on does.  Nothing is asked of the HTTP clients, of the
\* Worker, nor of the sessions, whose pumps may keep their threads for ever.
Fairness == \A t \in Tasks : WF_vars(Resumes(t))

LiveSpec == Spec /\ Fairness

-----------------------------------------------------------------------------
\* The calls that submit counted as offered and not yet once more, or never.
Uncounted == {t \in Chats : pc[t] \in Inside \cup {"raised"}}

\* Each request that submit has counted as offered is counted once more, as
\* accepted or as rejected, by all of its paths but one: where the configured
\* timeout overflows, the OverflowError of int() leaves it uncounted, and such
\* a Gateway accepts nothing at all.
OfferedAccounted ==
    /\ offered = accepted + rejected + Cardinality(Uncounted)
    /\ accepted > 0 => \A t \in Chats : pc[t] # "raised"

\* What may outlive stop when calls are in flight.  The sessions it finds are
\* drained and the client is closed, but a call that was past its test of
\* _stopping may connect the client again or add a session, which nobody then
\* ends.  Only such a call can: no call that comes later gets so far, although a
\* readiness check in flight may set _ready again.
OnlyCaughtOutlive ==
    /\ [](stopping /\ pc[Lifespan] = "over" /\ connected => connected_by \in caught)
    /\ [][stopping => active' \ active \subseteq caught]_vars

\* The client is told to connect by one caller of check_readiness at a time and
\* never while it is connected, however many calls of /readyz and of submit find
\* it disconnected at once; and "Metrics collection must not reconnect an
\* unavailable Worker" (api.py).
ConnectsOneAtATime ==
    /\ [][connection' \notin {0, connection} =>
            \E t \in Tasks : connection_lock = t /\ pc[t] = "connect"]_vars
    /\ [](\A t \in Tasks : pc[t] = "connect" =>
             ~connected /\ \A u \in Tasks \ {t} : pc[u] \notin {"connect", "health"})

\* Every call of the endpoints is answered, once the body of a chat was read,
\* and the lifespan's start is completed, whoever of them waits for the
\* connection lock or fails with it, as long as the pumps leave a thread.
CallsAnswered ==
    <>[]SpareThread =>
        /\ \A t \in Tasks \ {Lifespan} : pc[t] \notin {"idle", "body"} ~> pc[t] \in Finished
        /\ pc[Lifespan] = "lock" ~> pc[Lifespan] = "serving"

====
