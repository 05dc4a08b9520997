------------------------ MODULE GatewayService_proofs ------------------------
(***************************************************************************)
(* The accounting, the connection and the end of GatewayService, for any   *)
(* number of calls of its endpoints.                                       *)
(***************************************************************************)
EXTENDS GatewayService, FiniteSetTheorems, TLAPS

Places == {"idle", "lock", "connect", "health", "submit", "body", "stats", "serving", "drain",
           "close", "over", "raised"}

Types ==
    /\ pc \in [Tasks -> Places]
    /\ offered \in Int /\ accepted \in Nat /\ rejected \in Int
    /\ connection \in Nat /\ connects \in Nat
    /\ service \in {"building", "built", "None"}
    /\ stopping \in BOOLEAN

\* _connection_lock is held by the one task that connects or probes, and nobody
\* connects a client that is connected.
LockHeld ==
    /\ connection_lock \in Tasks \cup {"free"}
    /\ \A t \in Tasks : pc[t] \in {"connect", "health"} <=> connection_lock = t
    /\ \A t \in Tasks : pc[t] = "connect" => connection = 0

\* The calls but for the lifespan are over or have not begun.
NoCalls == \A t \in Tasks \ {Lifespan} : pc[t] \in {"idle", "over"}

\* Without a service there is no connection and no call gets past its first step.
Unbuilt ==
    service # "built" =>
        /\ connection = 0 /\ NoCalls /\ ~stopping
        /\ pc[Lifespan] \in {"idle", "serving", "over"}

\* Once _stopping is set the calls inside the service are some of those stop found
\* there, and only they can have connected the client since it was closed.
Late ==
    stopping =>
        /\ pc[Lifespan] \in {"drain", "close", "over"}
        /\ \A t \in Tasks : pc[t] \in Inside => t \in caught
        /\ pc[Lifespan] = "over" /\ connection # 0 => connected_by \in caught

\* A timeout that overflows lets nothing reach the client, any other raises nothing.
Overflow ==
    /\ \A t \in Tasks : pc[t] = "raised" => timeout_overflows
    /\ \A t \in Tasks : pc[t] = "submit" => ~timeout_overflows
    /\ accepted > 0 => ~timeout_overflows

Counts == offered = accepted + rejected + Cardinality(Uncounted)

IInv == Types /\ LockHeld /\ Unbuilt /\ Late /\ Overflow /\ Counts

-----------------------------------------------------------------------------
\* A call that moves enters or leaves the calls that are not counted, or neither.
LEMMA SubmitCount ==
    ASSUME Types, NEW t \in Tasks, NEW there \in Places, pc' = [pc EXCEPT ![t] = there]
    PROVE  LET inside == Inside \cup {"raised"} IN
           /\ Cardinality(Uncounted) \in Nat
           /\ t \notin Chats => Uncounted' = Uncounted
           /\ t \in Chats /\ (pc[t] \in inside <=> there \in inside) => Uncounted' = Uncounted
           /\ t \in Chats /\ pc[t] \notin inside /\ there \in inside =>
                Cardinality(Uncounted') = Cardinality(Uncounted) + 1
           /\ t \in Chats /\ pc[t] \in inside /\ there \notin inside =>
                Cardinality(Uncounted') = Cardinality(Uncounted) - 1
<1> DEFINE inside == Inside \cup {"raised"}
<1>1. IsFiniteSet(Uncounted) /\ Cardinality(Uncounted) \in Nat
  BY CallsDistinct, FS_Subset, FS_CardinalityType DEF Uncounted
<1>2. t \notin Chats => Uncounted' = Uncounted
  BY DEF Uncounted, Inside, Types, Tasks
<1>3. t \in Chats /\ (pc[t] \in inside <=> there \in inside) => Uncounted' = Uncounted
  BY DEF Uncounted, Inside, Types, Tasks
<1>4. ASSUME t \in Chats, pc[t] \notin inside, there \in inside
      PROVE  Cardinality(Uncounted') = Cardinality(Uncounted) + 1
  <2>1. Uncounted' = Uncounted \cup {t} /\ t \notin Uncounted
    BY <1>4 DEF Uncounted, Inside, Types, Tasks
  <2> QED  BY <1>1, <2>1, FS_AddElement
<1>5. ASSUME t \in Chats, pc[t] \in inside, there \notin inside
      PROVE  Cardinality(Uncounted') = Cardinality(Uncounted) - 1
  <2>1. Uncounted' = Uncounted \ {t} /\ t \in Uncounted
    BY <1>5 DEF Uncounted, Inside, Types, Tasks
  <2> QED  BY <1>1, <2>1, FS_RemoveElement
<1> QED  BY <1>1, <1>2, <1>3, <1>4, <1>5

\* Facts about names that every step needs.
LEMMA Names ==
    /\ Lifespan \in Tasks /\ "free" \notin Tasks
    /\ Lifespan \notin Chats \cup Readyz \cup Scrapes
    /\ Chats \subseteq Tasks /\ Readyz \subseteq Tasks /\ Scrapes \subseteq Tasks
BY CallsDistinct DEF Tasks, Lifespan

LEMMA InitIInv == Init => IInv
<1> SUFFICES ASSUME Init PROVE IInv  OBVIOUS
<1>1. Types
  <2>1. stopping \in BOOLEAN
    BY Zenon DEF Init
  <2>2. pc \in [Tasks -> Places]
    BY DEF Init, Places
  <2> QED  BY <2>1, <2>2 DEF Init, Types
<1>2. LockHeld
  BY Names DEF Init, LockHeld
<1>3. Unbuilt /\ Late /\ Overflow
  BY Names DEF Init, Unbuilt, Late, Overflow, NoCalls
<1>4. Uncounted = {}
  BY Names DEF Init, Uncounted, Inside
<1>5. Counts
  BY <1>4, FS_EmptySet DEF Init, Counts
<1> QED  BY <1>1, <1>2, <1>3, <1>5 DEF IInv

\* The lifespan outside check_readiness.
LEMMA LifespanStep ==
    IInv /\ (LifespanBuilds \/ LifespanStops \/ StopDrained \/ StopCloses) => IInv'
<1> SUFFICES ASSUME IInv, LifespanBuilds \/ LifespanStops \/ StopDrained \/ StopCloses PROVE IInv'
  OBVIOUS
<1> USE Names
<1>1. PICK there \in {"serving", "lock", "over", "drain", "close"} :
        pc' = [pc EXCEPT ![Lifespan] = there]
  BY DEF LifespanBuilds, LifespanStops, StopDrained, StopCloses, Go
<1>2. Types' /\ pc[Lifespan] \in {"idle", "serving", "drain", "close"}
  <2>1. CASE LifespanBuilds
    BY <1>1, <2>1 DEF IInv, Types, Places, LifespanBuilds, metrics
  <2>2. CASE LifespanStops
    BY <1>1, <2>2 DEF IInv, Types, Places, LifespanStops, Serving, metrics
  <2>3. CASE StopDrained \/ StopCloses
    BY <1>1, <2>3 DEF IInv, Types, Places, StopDrained, StopCloses, gateway, metrics
  <2> QED  BY <2>1, <2>2, <2>3
<1>3. LockHeld'
  BY <1>1, <1>2
  DEF IInv, Types, LockHeld, LifespanBuilds, LifespanStops, StopDrained, StopCloses, gateway
<1>4. NoCalls' <=> NoCalls
  BY <1>1 DEF NoCalls, IInv, Types
<1>5. Unbuilt'
  BY <1>1, <1>2, <1>4
  DEF IInv, Types, Unbuilt, Late, LifespanBuilds, LifespanStops, StopDrained, StopCloses, Go,
      gateway, Serving
<1>6. Late'
  <2>1. CASE LifespanBuilds
    BY <1>1, <2>1 DEF IInv, Types, Late, Unbuilt, LifespanBuilds, history
  <2>2. CASE LifespanStops
    BY <1>1, <2>2 DEF IInv, Types, Late, Inside, LifespanStops, Go, Serving
  <2>3. CASE StopDrained \/ StopCloses
    BY <1>1, <2>3 DEF IInv, Types, Late, Inside, StopDrained, StopCloses, Go, gateway, history
  <2> QED  BY <2>1, <2>2, <2>3
<1>7. Overflow'
  BY <1>1 DEF IInv, Types, Overflow, LifespanBuilds, LifespanStops, StopDrained, StopCloses, Go,
              metrics, setting
<1>8. Counts'
  <2>1. Uncounted' = Uncounted
    BY <1>1, SubmitCount DEF IInv, Places
  <2> QED
    BY <2>1 DEF IInv, Counts, LifespanBuilds, LifespanStops, StopDrained, StopCloses, metrics
<1> QED  BY <1>2, <1>3, <1>5, <1>6, <1>7, <1>8 DEF IInv

\* A task inside the service: the service is there, and stop has not begun or found it there.
LEMMA Underway ==
    ASSUME IInv, NEW t \in Tasks, pc[t] \in Inside \cup {"body", "stats"}
    PROVE  service = "built" /\ (t = Lifespan => ~stopping)
BY DEF IInv, Unbuilt, NoCalls, Late, Inside

\* A step of a call, or of the lifespan inside check_readiness, keeps Unbuilt, Late and Overflow.
LEMMA CallMoves ==
    ASSUME IInv, NEW t \in Tasks, NEW there \in Places, pc' = [pc EXCEPT ![t] = there],
           UNCHANGED <<service, stopping, setting, caught>>,
           t = Lifespan => ~stopping /\ there \notin {"drain", "close", "over", "raised"},
           there \in Inside => pc[t] \in Inside \/ ~stopping,
           there = "raised" => timeout_overflows,
           there = "submit" => ~timeout_overflows,
           accepted' = accepted \/ pc[t] = "submit",
           \/ UNCHANGED <<connection, connected_by>>
           \/ pc[t] \in Inside /\ connected_by' = t,
           service = "built" \/ (there = "over" /\ t # Lifespan /\ UNCHANGED connection)
    PROVE  Unbuilt' /\ Late' /\ Overflow'
<1>1. pc'[t] = there /\ \A u \in Tasks \ {t} : pc'[u] = pc[u]
  BY DEF IInv, Types
<1>2. Unbuilt'
  BY <1>1, Names DEF IInv, Unbuilt, NoCalls
<1>3. Late'
  BY <1>1, Names DEF IInv, Late
<1>4. Overflow'
  BY <1>1 DEF IInv, Overflow, setting
<1> QED  BY <1>2, <1>3, <1>4

LEMMA ReadinessLocksStep ==
    ASSUME IInv, NEW t \in Chats \cup Readyz \cup {Lifespan}, ReadinessLocks(t)
    PROVE  IInv'
<1> USE Names
<1>1. PICK there \in {"health", "connect"} :
        pc' = [pc EXCEPT ![t] = there] /\ (there = "connect" => connection = 0)
  BY DEF ReadinessLocks, Go, connected
<1>2. Types'
  BY <1>1 DEF IInv, Types, Places, ReadinessLocks, metrics
<1>3. LockHeld'
  BY <1>1 DEF IInv, Types, LockHeld, ReadinessLocks
<1>4. Unbuilt' /\ Late' /\ Overflow'
  <2>1. t \in Tasks /\ pc[t] = "lock" /\ pc[t] \in Inside /\ there \in Inside /\ there \in Places
    BY <1>1 DEF ReadinessLocks, Inside, Places
  <2>2. service = "built" /\ (t = Lifespan => ~stopping)
    BY <2>1, Underway
  <2> QED  BY <1>1, <2>1, <2>2, CallMoves DEF ReadinessLocks, history, metrics
<1>5. Counts'
  <2>1. Uncounted' = Uncounted
    BY <1>1, SubmitCount DEF IInv, Places, Inside, ReadinessLocks
  <2> QED  BY <2>1 DEF IInv, Counts, ReadinessLocks, metrics
<1> QED  BY <1>2, <1>3, <1>4, <1>5 DEF IInv

\* Where the caller of check_readiness goes next, and what it counts.
LEMMA ReadinessEnds ==
    ASSUME NEW t \in Chats \cup Readyz \cup {Lifespan}, ReadinessPassed(t) \/ ReadinessRefused(t)
    PROVE  \E there \in {"submit", "serving", "over", "raised"} :
             /\ pc' = [pc EXCEPT ![t] = there]
             /\ there = "raised" => timeout_overflows
             /\ there = "submit" => ~timeout_overflows
             /\ \/ t \in Chats /\ there \in {"submit", "raised"} /\ rejected' = rejected
                \/ t \in Chats /\ there = "over" /\ rejected' = rejected + 1
                \/ t \in Readyz /\ there = "over" /\ rejected' = rejected
                \/ t = Lifespan /\ there = "serving" /\ rejected' = rejected
BY DEF ReadinessPassed, ReadinessRefused, Encode, Reject, Answer, Go

\* check_readiness returns or raises: the lock is free again.
LEMMA LockReleased ==
    ASSUME IInv, NEW t \in Chats \cup Readyz \cup {Lifespan},
           ReadinessPassed(t) \/ ReadinessRefused(t),
           pc[t] \in {"connect", "health"}, connection_lock' = "free",
           UNCHANGED <<service, stopping, offered, accepted, connection, connects, setting, history>>
    PROVE  IInv'
<1> USE Names
<1>1. PICK there \in {"submit", "serving", "over", "raised"} :
        /\ pc' = [pc EXCEPT ![t] = there]
        /\ there = "raised" => timeout_overflows
        /\ there = "submit" => ~timeout_overflows
        /\ \/ t \in Chats /\ there \in {"submit", "raised"} /\ rejected' = rejected
           \/ t \in Chats /\ there = "over" /\ rejected' = rejected + 1
           \/ t \in Readyz /\ there = "over" /\ rejected' = rejected
           \/ t = Lifespan /\ there = "serving" /\ rejected' = rejected
  BY ReadinessEnds
<1>2. t \in Tasks /\ there \in Places /\ pc[t] \in Inside
  BY DEF Places, Inside
<1>3. Types'
  BY <1>1, <1>2 DEF IInv, Types
<1>4. LockHeld'
  BY <1>1, <1>2 DEF IInv, Types, LockHeld
<1>5. Unbuilt' /\ Late' /\ Overflow'
  <2>1. service = "built" /\ (t = Lifespan => ~stopping)
    BY <1>2, Underway
  <2>2. t = Lifespan => there = "serving"
    BY <1>1
  <2> QED  BY <1>1, <1>2, <2>1, <2>2, CallMoves DEF history
<1>6. Counts'
  <2>1. Cardinality(Uncounted) \in Nat
    BY <1>1, <1>2, SubmitCount DEF IInv
  <2>2. CASE t \in Chats /\ there = "over" /\ rejected' = rejected + 1
    <3>1. Cardinality(Uncounted') = Cardinality(Uncounted) - 1
      BY <1>1, <1>2, <2>2, SubmitCount DEF IInv, Inside
    <3> QED  BY <2>1, <2>2, <3>1 DEF IInv, Types, Counts
  <2>3. CASE (t \in Chats => there \in {"submit", "raised"}) /\ rejected' = rejected
    <3>1. Uncounted' = Uncounted
      BY <1>1, <1>2, <2>3, SubmitCount DEF IInv, Inside
    <3> QED  BY <2>3, <3>1 DEF IInv, Counts
  <2> QED  BY <1>1, <2>2, <2>3, CallsDistinct DEF Lifespan
<1> QED  BY <1>3, <1>4, <1>5, <1>6 DEF IInv

LEMMA ConnectStep ==
    ASSUME IInv, NEW t \in Chats \cup Readyz \cup {Lifespan}, ConnectReturns(t)
    PROVE  IInv'
<1> USE Names
<1>1. CASE ReadinessFails(t) /\ UNCHANGED <<connection, connects, connected_by>>
  BY <1>1, LockReleased DEF ConnectReturns, ReadinessFails, history
<1>2. CASE /\ connects' = connects + 1 /\ connection' = connects + 1 /\ connected_by' = t
           /\ Go(t, "health") /\ UNCHANGED <<connection_lock, rejected>>
  <2>1. /\ t \in Tasks /\ pc[t] = "connect" /\ pc' = [pc EXCEPT ![t] = "health"]
        /\ pc[t] \in Inside /\ "health" \in Inside /\ "health" \in Places
    BY <1>2 DEF Go, ConnectReturns, Inside, Places
  <2>2. Types'
    BY <1>2, <2>1 DEF IInv, Types, Places, ConnectReturns
  <2>3. LockHeld'
    BY <1>2, <2>1 DEF IInv, Types, LockHeld
  <2>4. Unbuilt' /\ Late' /\ Overflow'
    <3>1. service = "built" /\ (t = Lifespan => ~stopping)
      BY <2>1, Underway
    <3> QED  BY <1>2, <2>1, <3>1, CallMoves DEF ConnectReturns
  <2>5. Counts'
    <3>1. Uncounted' = Uncounted
      BY <2>1, SubmitCount DEF IInv
    <3> QED  BY <1>2, <3>1 DEF IInv, Counts, ConnectReturns
  <2> QED  BY <2>2, <2>3, <2>4, <2>5 DEF IInv
<1> QED  BY <1>1, <1>2 DEF ConnectReturns

LEMMA HealthStep ==
    ASSUME IInv, NEW t \in Chats \cup Readyz \cup {Lifespan}, HealthReturns(t)
    PROVE  IInv'
BY LockReleased DEF HealthReturns, ReadinessFails

\* A call that only moves, outside the lock and outside submit.
LEMMA PlainMove ==
    ASSUME IInv, NEW t \in Tasks, NEW there \in {"lock", "body", "stats", "over"},
           pc' = [pc EXCEPT ![t] = there], t # Lifespan,
           pc[t] \in {"idle", "body", "stats"}, t \in Chats => there # "lock",
           service = "built" \/ there = "over", there = "lock" => ~stopping,
           UNCHANGED <<service, stopping, connection_lock, metrics, connection, connects, setting, history>>
    PROVE  IInv'
<1>1. Types' /\ there \in Places
  BY DEF IInv, Types, Places, metrics
<1>2. LockHeld'
  BY Names DEF IInv, Types, LockHeld
<1>3. Unbuilt' /\ Late' /\ Overflow'
  BY <1>1, CallMoves DEF Inside, metrics, history
<1>4. Counts'
  <2>1. Uncounted' = Uncounted
    BY <1>1, SubmitCount DEF IInv, Inside
  <2> QED  BY <2>1 DEF IInv, Counts, metrics
<1> QED  BY <1>1, <1>2, <1>3, <1>4 DEF IInv

\* The calls of /readyz and /metrics, and a chat until its body is read.
LEMMA CallStep ==
    ASSUME IInv, NEW t \in Tasks,
           \/ t \in Readyz /\ CallReadyz(t)
           \/ t \in Scrapes /\ (CallMetrics(t) \/ StatsReturn(t))
           \/ t \in Chats /\ CallChat(t)
    PROVE  IInv'
<1> USE Names
<1>1. \/ t \in Readyz /\ CallReadyz(t) /\ pc[t] = "idle"
      \/ t \in Scrapes /\ CallMetrics(t) /\ pc[t] = "idle"
      \/ t \in Scrapes /\ StatsReturn(t) /\ pc[t] = "stats"
      \/ t \in Chats /\ CallChat(t) /\ pc[t] = "idle"
  BY DEF CallReadyz, CallMetrics, StatsReturn, CallChat
<1>2. UNCHANGED <<service, stopping, connection_lock, metrics, connection, connects, setting, history>>
  BY CallsDistinct
  DEF CallReadyz, CheckReadiness, ReadinessRefused, CallMetrics, StatsReturn, CallChat, gateway, metrics
<1>3. PICK there \in {"lock", "body", "stats", "over"} :
        /\ pc' = [pc EXCEPT ![t] = there]
        /\ service = "built" \/ there = "over"
        /\ there = "lock" => ~stopping
        /\ t \in Chats => there # "lock"
  BY CallsDistinct DEF CallReadyz, CheckReadiness, ReadinessRefused, CallMetrics, StatsReturn,
                       CallChat, Answer, Go
<1>4. t # Lifespan
  BY <1>1
<1> QED  BY <1>1, <1>2, <1>3, <1>4, PlainMove

\* The body is refused, or submit counts it as offered and, if it leaves at once, as rejected.
LEMMA BodyStep ==
    ASSUME IInv, NEW t \in Chats, BodyRead(t)
    PROVE  IInv'
<1> USE Names
<1>1. pc[t] = "body" /\ t \in Tasks /\ t # Lifespan
  BY DEF BodyRead
<1>2. PICK there \in {"lock", "submit", "over", "raised"} :
        /\ pc' = [pc EXCEPT ![t] = there]
        /\ there \in Inside => ~stopping
        /\ there = "raised" => timeout_overflows
        /\ there = "submit" => ~timeout_overflows
        /\ \/ there = "over" /\ UNCHANGED <<offered, rejected>>
           \/ there = "over" /\ offered' = offered + 1 /\ rejected' = rejected + 1
           \/ there # "over" /\ offered' = offered + 1 /\ UNCHANGED rejected
  BY CallsDistinct
  DEF BodyRead, Submit, Encode, CheckReadiness, ReadinessRefused, Reject, Answer, Go, Inside
<1>3. there \in Places
  BY DEF Places
<1>4. UNCHANGED <<service, stopping, connection_lock, accepted, connection, connects, setting,
                  history>>
  BY DEF BodyRead, gateway
<1>5. Types'
  BY <1>1, <1>2, <1>3, <1>4 DEF IInv, Types
<1>6. LockHeld'
  BY <1>1, <1>2, <1>4 DEF IInv, Types, LockHeld
<1>7. Unbuilt' /\ Late' /\ Overflow'
  BY <1>1, <1>2, <1>3, <1>4, Underway, CallMoves DEF history
<1>8. Counts'
  <2>1. Cardinality(Uncounted) \in Nat
    BY <1>1, <1>2, <1>3, SubmitCount DEF IInv
  <2>2. CASE there = "over"
    <3>1. Uncounted' = Uncounted
      BY <1>1, <1>2, <1>3, <2>2, SubmitCount DEF IInv, Inside
    <3> QED  BY <1>2, <1>4, <2>1, <2>2, <3>1 DEF IInv, Types, Counts
  <2>3. CASE there # "over"
    <3>1. Cardinality(Uncounted') = Cardinality(Uncounted) + 1
      BY <1>1, <1>2, <1>3, <2>3, SubmitCount DEF IInv, Inside
    <3> QED  BY <1>2, <1>4, <2>1, <2>3, <3>1 DEF IInv, Types, Counts
  <2> QED  BY <2>2, <2>3
<1> QED  BY <1>5, <1>6, <1>7, <1>8 DEF IInv

\* client.submit returns or raises: the call is counted as accepted or as rejected.
LEMMA SubmitStep ==
    ASSUME IInv, NEW t \in Chats, SubmitReturns(t)
    PROVE  IInv'
<1> USE Names
<1>1. /\ pc[t] = "submit" /\ t \in Tasks /\ t # Lifespan
      /\ pc' = [pc EXCEPT ![t] = "over"]
      /\ \/ accepted' = accepted + 1 /\ UNCHANGED rejected
         \/ rejected' = rejected + 1 /\ UNCHANGED accepted
      /\ UNCHANGED <<service, stopping, connection_lock, offered, connection, connects, setting,
                     history>>
  BY DEF SubmitReturns, Reject, Answer, Go
<1>2. Types' /\ "over" \in Places /\ "over" \notin Inside \cup {"raised"} /\ pc[t] \in Inside
  BY <1>1 DEF IInv, Types, Places, Inside
<1>3. LockHeld'
  BY <1>1 DEF IInv, Types, LockHeld
<1>4. Unbuilt' /\ Late' /\ Overflow'
  BY <1>1, <1>2, Underway, CallMoves DEF history
<1>5. Counts'
  <2>1. Cardinality(Uncounted) \in Nat /\ Cardinality(Uncounted') = Cardinality(Uncounted) - 1
    BY <1>1, <1>2, SubmitCount DEF IInv
  <2>2. offered' = accepted' + rejected' - 1 + Cardinality(Uncounted)
    BY <1>1, <2>1 DEF IInv, Types, Counts
  <2> QED  BY <1>2, <2>1, <2>2 DEF Types, Counts
<1> QED  BY <1>2, <1>3, <1>4, <1>5 DEF IInv

LEMMA NextIInv == IInv /\ [Next]_vars => IInv'
<1> SUFFICES ASSUME IInv, [Next]_vars PROVE IInv'
  OBVIOUS
<1> USE Names
<1>1. CASE LifespanBuilds \/ LifespanStops \/ StopDrained \/ StopCloses
  BY <1>1, LifespanStep
<1>2. CASE ConnectionLost
  BY <1>2 DEF ConnectionLost, IInv, setting, history, Types, LockHeld, Unbuilt, Late, Overflow, NoCalls,
              Counts, Uncounted, gateway, metrics
<1>3. CASE \E t \in Chats \cup Readyz \cup {Lifespan} : Readiness(t)
  BY <1>3, ReadinessLocksStep, ConnectStep, HealthStep DEF Readiness
<1>4. CASE \/ \E t \in Readyz : CallReadyz(t)
           \/ \E t \in Scrapes : CallMetrics(t) \/ StatsReturn(t)
           \/ \E t \in Chats : CallChat(t)
  BY <1>4, CallStep
<1>5. CASE \E t \in Chats : BodyRead(t) \/ SubmitReturns(t)
  BY <1>5, BodyStep, SubmitStep
<1>6. CASE \E t \in Chats : SessionFinished(t)
  BY <1>6 DEF SessionFinished, IInv, setting, history, Types, LockHeld, Unbuilt, Late, Overflow, NoCalls,
              Counts, Uncounted, metrics
<1>7. CASE UNCHANGED vars
  BY <1>7 DEF vars, IInv, setting, history, Types, LockHeld, Unbuilt, Late, Overflow, NoCalls, Counts, Uncounted,
              gateway, metrics
<1> QED  BY <1>1, <1>2, <1>3, <1>4, <1>5, <1>6, <1>7 DEF Next

-----------------------------------------------------------------------------
\* The inductive invariant holds for any sets of calls.
THEOREM Invariance == Spec => []IInv
BY InitIInv, NextIInv, PTL DEF Spec

\* GatewayService.submit counts every offered request once more, as accepted or as
\* rejected, for any number of concurrent calls, but for the OverflowError of a
\* timeout that overflows, with which nothing is ever accepted.
THEOREM OfferedAlwaysAccounted == Spec => []OfferedAccounted
<1>1. IInv => OfferedAccounted
  BY Names DEF IInv, Counts, Overflow, OfferedAccounted
<1> QED  BY <1>1, Invariance, PTL

\* A step that gives the client a connection is that of the holder of the lock.
LEMMA ConnectorHoldsLock ==
    ASSUME IInv, [Next]_vars, connection' \notin {0, connection}
    PROVE  \E t \in Tasks : connection_lock = t /\ pc[t] = "connect"
<1> USE Names
<1>1. PICK t \in Tasks : ConnectReturns(t)
  <2>1. ~UNCHANGED connection
    OBVIOUS
  <2>2. \E t \in Chats \cup Readyz \cup {Lifespan} : Readiness(t)
    BY <2>1 DEF Next, vars, LifespanBuilds, LifespanStops, StopDrained, StopCloses, ConnectionLost, CallReadyz,
                CallMetrics, StatsReturn, CallChat, BodyRead, SubmitReturns, SessionFinished
  <2> QED  BY <2>1, <2>2 DEF Readiness, ReadinessLocks, HealthReturns
<1>2. pc[t] = "connect"
  BY <1>1 DEF ConnectReturns
<1> QED  BY <1>2 DEF IInv, LockHeld

\* check_readiness connects the client under _connection_lock, one caller at a time
\* and never while it is connected, and nobody else connects it, for any number of
\* calls that find it disconnected.
THEOREM ConnectsAlwaysOneAtATime == Spec => ConnectsOneAtATime
<1>1. IInv /\ [Next]_vars =>
        [connection' \notin {0, connection} =>
            \E t \in Tasks : connection_lock = t /\ pc[t] = "connect"]_vars
  BY ConnectorHoldsLock
<1>2. IInv => \A t \in Tasks : pc[t] = "connect" =>
                 ~connected /\ \A u \in Tasks \ {t} : pc[u] \notin {"connect", "health"}
  BY DEF IInv, LockHeld, connected
<1> QED  BY <1>1, <1>2, Invariance, PTL DEF Spec, ConnectsOneAtATime

\* For any number of calls in flight when GatewayService.stop begins: what outlives
\* it, a connection or a session, is the work of one of them, and of no later call.
THEOREM OnlyCaughtAlwaysOutlive == Spec => OnlyCaughtOutlive
<1>1. IInv => (stopping /\ pc[Lifespan] = "over" /\ connected => connected_by \in caught)
  BY DEF IInv, Late, connected
<1>2. ASSUME IInv, [Next]_vars, stopping
      PROVE  active' \ active \subseteq caught
  <2> USE Names
  <2>1. ASSUME NEW t \in Chats, SubmitReturns(t)
        PROVE  active' \subseteq active \cup {t} /\ t \in caught
    BY <1>2, <2>1 DEF SubmitReturns, IInv, Late, Inside
  <2>2. CASE ~\E t \in Chats : SubmitReturns(t)
    BY <1>2, <2>2 DEF Next, vars, gateway, LifespanBuilds, LifespanStops, StopDrained, StopCloses,
                ConnectionLost, CallReadyz, CallMetrics, StatsReturn, CallChat, BodyRead,
                SessionFinished, Readiness, ReadinessLocks, ConnectReturns, HealthReturns
  <2> QED  BY <2>1, <2>2
<1>3. IInv /\ [Next]_vars => [stopping => active' \ active \subseteq caught]_vars
  BY <1>2
<1> QED  BY <1>1, <1>3, Invariance, PTL DEF Spec, OnlyCaughtOutlive

====
