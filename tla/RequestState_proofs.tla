------------------------ MODULE RequestState_proofs ------------------------
(***************************************************************************)
(* For any number of requests, any mailbox limits and any statuses: the    *)
(* invariants of RequestState, and that it implements TokenStream.         *)
(***************************************************************************)
EXTENDS RequestState, Sums_proofs, SequenceTheorems

\* The inductive invariant: queue, usage and gate only hold together.
IInv == TypeOK /\ QueueContiguous /\ UsageExact /\ TerminalGate

-----------------------------------------------------------------------------
\* Deltas carry natural numbers of tokens.
LEMMA DeltaType ==
    ASSUME NEW q \in Seq(Delta)
    PROVE  \A i \in 1..Len(q) : q[i] \in Delta /\ q[i].tokens \in Nat
<1>1. \A d \in Delta : d.tokens \in Nat
  BY MailboxConfigValid DEF Delta
<1> QED BY <1>1, ElementOfSeq

\* No delta, no tokens.
LEMMA TokensEmpty == Tokens(<<>>) = 0
BY SumEmpty, 1..0 = {} DEF Tokens

\* The tokens of a queue are a natural number.
LEMMA TokensType ==
    ASSUME NEW q \in Seq(Delta)
    PROVE  Tokens(q) \in Nat
<1> DEFINE f == [i \in 1..Len(q) |-> q[i].tokens]
<1>1. IsFiniteSet(1..Len(q))
  BY FS_Interval, Len(q) \in Int, 1 \in Int
<1>2. \A i \in 1..Len(q) : f[i] \in Nat
  BY DeltaType
<1> QED BY <1>1, <1>2, SumType DEF Tokens

\* A queued delta adds its tokens.
LEMMA TokensAppend ==
    ASSUME NEW q \in Seq(Delta), NEW d \in Delta
    PROVE  Tokens(Append(q, d)) = Tokens(q) + d.tokens
<1> DEFINE n == Len(q)
           f == [i \in 1..n |-> q[i].tokens]
           g == [i \in 1..(n + 1) |-> Append(q, d)[i].tokens]
<1>1. /\ n \in Nat /\ Len(Append(q, d)) = n + 1
      /\ 1..(n + 1) = (1..n) \cup {n + 1} /\ n + 1 \notin 1..n
  OBVIOUS
<1>2. IsFiniteSet(1..n)
  BY FS_Interval, n \in Int, 1 \in Int
<1>3. \A i \in (1..n) \cup {n + 1} : g[i] \in Nat
  <2>1. Append(q, d) \in Seq(Delta)
    OBVIOUS
  <2>2. \A i \in 1..(n + 1) : Append(q, d)[i].tokens \in Nat
    BY <1>1, <2>1, DeltaType, Zenon
  <2> QED BY <1>1, <2>2
<1>4. g[n + 1] = d.tokens /\ \A i \in 1..n : g[i] = f[i]
  OBVIOUS
<1>5. Tokens(Append(q, d)) = SumOf((1..n) \cup {n + 1}, g)
  BY <1>1, Zenon DEF Tokens
<1>6. Tokens(q) = SumOf(1..n, f)
  BY DEF Tokens
<1> HIDE DEF f, g
<1>7. SumOf((1..n) \cup {n + 1}, g) = SumOf(1..n, g) + g[n + 1]
  BY <1>1, <1>2, <1>3, SumAdd, Zenon
<1>8. SumOf(1..n, g) = SumOf(1..n, f)
  BY <1>4, SumSame
<1> QED BY <1>4, <1>5, <1>6, <1>7, <1>8

\* The first delta takes its tokens with it, which the queue had.
LEMMA TokensTail ==
    ASSUME NEW q \in Seq(Delta), q # <<>>
    PROVE  /\ Tokens(Tail(q)) = Tokens(q) - Head(q).tokens
           /\ Head(q).tokens <= Tokens(q)
<1> DEFINE n == Len(q)
           f == [i \in 1..n |-> q[i].tokens]
           g == [i \in 1..(n - 1) |-> Tail(q)[i].tokens]
<1>1. n \in Nat \ {0} /\ Len(Tail(q)) = n - 1 /\ f[1] = Head(q).tokens
  OBVIOUS
<1>2. \A i \in 1..n : f[i] \in Nat
  BY DeltaType
<1>3. \A i \in 1..(n - 1) : g[i] = f[i + 1]
  <2>1. \A i \in 1..(n - 1) : Tail(q)[i] = q[i + 1] /\ i + 1 \in 1..n
    OBVIOUS
  <2> QED BY <2>1
<1>4. Tokens(q) = SumOf(1..n, f) /\ Tokens(Tail(q)) = SumOf(1..(n - 1), g)
  BY <1>1, ZenonT(40) DEF Tokens
<1> HIDE DEF f, g
<1> QED BY <1>1, <1>2, <1>3, <1>4, SumShift, SMTT(40)

-----------------------------------------------------------------------------
\* The invariant holds before any request is created.
LEMMA InitIInv == Init => IInv
<1> SUFFICES ASSUME Init PROVE IInv
  OBVIOUS
<1>1. TypeOK
  BY DEF Init, TypeOK, Seen, Phases, NoTerminal, Stream!Nothing
<1>2. QueueContiguous
  BY TokensEmpty, MailboxConfigValid DEF Init, QueueContiguous, Stream!Nothing
<1>3. UsageExact
  BY DEF Init, UsageExact, NoTerminal, Stream!Nothing
<1>4. TerminalGate
  BY DEF Init, TerminalGate, NoTerminal, Stream!Nothing
<1> QED BY <1>1, <1>2, <1>3, <1>4 DEF IInv

\* create, markRunning and markCancelling only move the phase.
LEMMA PhaseStep ==
    ASSUME IInv, NEW j \in Jobs, create(j) \/ markRunning(j) \/ markCancelling(j)
    PROVE  IInv'
<1>0. TypeOK /\ QueueContiguous /\ UsageExact /\ TerminalGate
  BY DEF IInv
<1>1. /\ UNCHANGED <<nextSequenceNo, completionTokens, finalizing, mailbox, seen>>
      /\ \E p \in {"Accepted", "Running", "Cancelling"} : phase' = [phase EXCEPT ![j] = p]
      /\ phase[j] # "Terminal"
  BY DEF create, markRunning, markCancelling, Live
<1>2. TypeOK'
  BY <1>0, <1>1 DEF TypeOK, Phases, mailbox
<1>3. QueueContiguous' /\ UsageExact'
  BY <1>0, <1>1 DEF QueueContiguous, UsageExact, mailbox
<1>4. TerminalGate'
  BY <1>0, <1>1 DEF TerminalGate, TypeOK, mailbox
<1> QED BY <1>2, <1>3, <1>4 DEF IInv

\* A queue that continues from the consumer still does with one more delta.
LEMMA QueueGrows ==
    ASSUME NEW q \in Seq(Delta), NEW d \in Delta, NEW from \in Nat,
           d.sequence_no = from + Len(q),
           \A i \in 1..Len(q) : q[i].sequence_no = from + i - 1
    PROVE  /\ Append(q, d) \in Seq(Delta) /\ Len(q) \in Nat
           /\ Len(Append(q, d)) = Len(q) + 1
           /\ \A i \in 1..Len(Append(q, d)) : Append(q, d)[i].sequence_no = from + i - 1
<1>1. /\ Append(q, d) \in Seq(Delta) /\ Len(q) \in Nat
      /\ Len(Append(q, d)) = Len(q) + 1
      /\ \A i \in 1..Len(q) : Append(q, d)[i] = q[i]
      /\ Append(q, d)[Len(q) + 1] = d
  OBVIOUS
<1>2. ASSUME NEW i \in 1..Len(Append(q, d))
      PROVE  Append(q, d)[i].sequence_no = from + i - 1
  <2>1. i \in 1..Len(q) \/ i = Len(q) + 1
    BY <1>1
  <2>2. CASE i \in 1..Len(q)
    BY <1>1, <2>2
  <2>3. CASE i = Len(q) + 1
    BY <1>1, <2>3
  <2> QED BY <2>1, <2>2, <2>3
<1> QED BY <1>1, <1>2

\* What tryCommitDelta changes.
LEMMA CommitEffect ==
    ASSUME TypeOK, NEW j \in Jobs, NEW n \in 1..(MaxTokens - completionTokens[j]),
           tryCommitDelta(j, n)
    PROVE  /\ ~finalizing[j] /\ Live(j) /\ ~closed[j] /\ ~terminalCommitted[j]
           /\ n \in Nat
           /\ NextDelta(j, n) \in Delta /\ NextDelta(j, n).tokens = n
           /\ NextDelta(j, n).sequence_no = nextSequenceNo[j]
           /\ Len(deltas[j]) + 1 <= max_queued_deltas
           /\ queuedTokens[j] + n <= max_queued_tokens
           /\ deltas' = [deltas EXCEPT ![j] = Append(deltas[j], NextDelta(j, n))]
           /\ queuedTokens' = [queuedTokens EXCEPT ![j] = queuedTokens[j] + n]
           /\ nextSequenceNo' = [nextSequenceNo EXCEPT ![j] = nextSequenceNo[j] + 1]
           /\ completionTokens' = [completionTokens EXCEPT ![j] = completionTokens[j] + n]
           /\ phase' = [phase EXCEPT ![j] = "Running"]
           /\ UNCHANGED <<terminal, terminalCommitted, closed, finalizing, seen>>
<1>1. /\ completionTokens[j] \in Nat /\ queuedTokens[j] \in Nat /\ nextSequenceNo[j] \in Nat
      /\ Len(deltas[j]) \in Nat
      /\ max_queued_deltas \in Nat /\ max_queued_tokens \in Nat /\ MaxTokens \in Nat
  BY MailboxConfigValid DEF TypeOK
<1>2. n \in Nat /\ n \in 1..MaxTokens
  BY <1>1
<1>3. /\ NextDelta(j, n) \in Delta /\ NextDelta(j, n).tokens = n
      /\ NextDelta(j, n).sequence_no = nextSequenceNo[j]
  BY <1>1, <1>2 DEF Delta, NextDelta
<1>4. ~closed[j] /\ ~terminalCommitted[j] /\ ~(Len(deltas[j]) >= max_queued_deltas)
      /\ ~(n > max_queued_tokens - queuedTokens[j])
  BY <1>3 DEF tryCommitDelta, tryPushDelta, PushRefused
<1>5. Len(deltas[j]) + 1 <= max_queued_deltas /\ queuedTokens[j] + n <= max_queued_tokens
  BY <1>1, <1>2, <1>4
<1>6. queuedTokens' = [queuedTokens EXCEPT ![j] = queuedTokens[j] + n]
  BY <1>3, Zenon DEF tryCommitDelta, tryPushDelta
<1> QED BY <1>2, <1>3, <1>4, <1>5, <1>6 DEF tryCommitDelta, tryPushDelta, TakesDelta

\* A committed delta continues the queue and is counted.
LEMMA CommitStep ==
    ASSUME IInv, NEW j \in Jobs, NEW n \in 1..(MaxTokens - completionTokens[j]),
           tryCommitDelta(j, n)
    PROVE  IInv'
<1>0. TypeOK /\ QueueContiguous /\ UsageExact /\ TerminalGate
  BY DEF IInv
<1> PICK d, q : d = NextDelta(j, n) /\ q = Append(deltas[j], d)
  BY Zenon
<1>1. /\ ~finalizing[j] /\ Live(j) /\ ~closed[j] /\ ~terminalCommitted[j]
      /\ n \in Nat
      /\ d \in Delta /\ d.tokens = n /\ d.sequence_no = nextSequenceNo[j]
      /\ Len(deltas[j]) + 1 <= max_queued_deltas
      /\ queuedTokens[j] + n <= max_queued_tokens
      /\ deltas' = [deltas EXCEPT ![j] = q]
      /\ queuedTokens' = [queuedTokens EXCEPT ![j] = queuedTokens[j] + n]
      /\ nextSequenceNo' = [nextSequenceNo EXCEPT ![j] = nextSequenceNo[j] + 1]
      /\ completionTokens' = [completionTokens EXCEPT ![j] = completionTokens[j] + n]
      /\ phase' = [phase EXCEPT ![j] = "Running"]
      /\ UNCHANGED <<terminal, terminalCommitted, closed, finalizing, seen>>
  BY <1>0, CommitEffect
<1>2. /\ completionTokens[j] \in Nat /\ queuedTokens[j] \in Nat /\ nextSequenceNo[j] \in Nat
      /\ deltas[j] \in Seq(Delta) /\ seen[j].deltas \in Nat /\ seen[j].tokens \in Nat
  BY <1>0 DEF TypeOK, Seen
<1>3. /\ nextSequenceNo[j] = seen[j].deltas + Len(deltas[j])
      /\ \A i \in 1..Len(deltas[j]) : deltas[j][i].sequence_no = seen[j].deltas + i - 1
      /\ queuedTokens[j] = Tokens(deltas[j])
  BY <1>0 DEF QueueContiguous
<1>4. /\ q \in Seq(Delta) /\ Len(q) = Len(deltas[j]) + 1 /\ Len(deltas[j]) \in Nat
      /\ \A i \in 1..Len(q) : q[i].sequence_no = seen[j].deltas + i - 1
  <2>1. d.sequence_no = seen[j].deltas + Len(deltas[j])
    BY <1>1, <1>3
  <2>2. d \in Delta /\ deltas[j] \in Seq(Delta) /\ seen[j].deltas \in Nat
    BY <1>1, <1>2
  <2>3. \A i \in 1..Len(deltas[j]) : deltas[j][i].sequence_no = seen[j].deltas + i - 1
    BY <1>3
  <2> QED BY <2>1, <2>2, <2>3, QueueGrows, ZenonT(40)
<1>5. Tokens(q) = queuedTokens[j] + n
  BY <1>1, <1>2, <1>3, TokensAppend
<1>6. /\ queuedTokens[j] + n \in Nat /\ nextSequenceNo[j] + 1 \in Nat
      /\ completionTokens[j] + n \in Nat
  BY <1>1, <1>2, SMTT(40)
<1>7. TypeOK'
  BY <1>0, <1>1, <1>4, <1>6, ZenonT(40) DEF TypeOK, Phases
<1>8. /\ deltas'[j] = q /\ queuedTokens'[j] = queuedTokens[j] + n /\ seen'[j] = seen[j]
      /\ nextSequenceNo'[j] = nextSequenceNo[j] + 1
      /\ completionTokens'[j] = completionTokens[j] + n
      /\ terminal'[j] = terminal[j]
  BY <1>0, <1>1 DEF TypeOK
<1>9. ASSUME NEW k \in Jobs, k # j
      PROVE  UNCHANGED <<nextSequenceNo[k], seen[k], deltas[k], queuedTokens[k],
                         completionTokens[k], terminal[k]>>
  BY <1>0, <1>1, <1>9 DEF TypeOK
<1>10. QueueContiguous'
  <2>1. nextSequenceNo[j] + 1 = seen[j].deltas + Len(q)
    BY <1>2, <1>3, <1>4
  <2>2. Len(q) <= max_queued_deltas
    BY <1>1, <1>4
  <2>3. /\ nextSequenceNo'[j] = seen'[j].deltas + Len(deltas'[j])
        /\ \A i \in 1..Len(deltas'[j]) : deltas'[j][i].sequence_no = seen'[j].deltas + i - 1
        /\ queuedTokens'[j] = Tokens(deltas'[j])
        /\ Len(deltas'[j]) <= max_queued_deltas
        /\ queuedTokens'[j] <= max_queued_tokens
    BY <1>1, <1>4, <1>5, <1>8, <2>1, <2>2, ZenonT(40)
  <2> QED BY <1>0, <1>9, <2>3 DEF QueueContiguous
<1>11. ~seen[j].ended /\ terminal[j].status = "none"
  BY <1>0, <1>1 DEF TerminalGate
<1>12. UsageExact'
  <2>1. completionTokens[j] = seen[j].tokens + queuedTokens[j]
    BY <1>0 DEF UsageExact
  <2>2. completionTokens[j] + n = seen[j].tokens + (queuedTokens[j] + n)
    BY <1>1, <1>2, <2>1, SMTT(40)
  <2> QED BY <1>0, <1>8, <1>9, <1>11, <2>2, SMTT(40) DEF UsageExact
<1>13. TerminalGate'
  BY <1>0, <1>1, ZenonT(40) DEF TerminalGate, TypeOK, Live
<1> QED BY <1>7, <1>10, <1>12, <1>13 DEF IInv

\* finalize: the Terminal carries the usage of that moment.
LEMMA PushTerminalStep ==
    ASSUME IInv, NEW j \in Jobs, NEW status \in Statuses, pushTerminal(j, status)
    PROVE  IInv'
<1>0. TypeOK /\ QueueContiguous /\ UsageExact /\ TerminalGate
  BY DEF IInv
<1> DEFINE t == [status |-> status, usage |-> completionTokens[j]]
<1>1. /\ ~finalizing[j] /\ phase[j] \notin {"None", "Terminal"}
      /\ ~closed[j] /\ ~terminalCommitted[j]
      /\ terminal' = [terminal EXCEPT ![j] = t]
      /\ terminalCommitted' = [terminalCommitted EXCEPT ![j] = TRUE]
      /\ finalizing' = [finalizing EXCEPT ![j] = TRUE]
      /\ UNCHANGED <<phase, nextSequenceNo, completionTokens, deltas, queuedTokens, closed, seen>>
  BY DEF pushTerminal
<1>2. /\ t \in [status : Statuses \cup {"none"}, usage : Nat]
      /\ t.status # "none" /\ t.usage = completionTokens[j]
  BY <1>0, NoneIsNoStatus DEF TypeOK
<1> HIDE DEF t
<1>3. TypeOK'
  BY <1>0, <1>1, <1>2 DEF TypeOK
<1>4. QueueContiguous'
  BY <1>0, <1>1 DEF QueueContiguous
<1>5. UsageExact'
  BY <1>0, <1>1, <1>2 DEF UsageExact, TypeOK
<1>6. TerminalGate'
  BY <1>0, <1>1, <1>2 DEF TerminalGate, TypeOK
<1> QED BY <1>3, <1>4, <1>5, <1>6 DEF IInv

\* The end of finalize moves the phase under the mutex.
LEMMA EndFinalizeStep ==
    ASSUME IInv, NEW j \in Jobs, endFinalize(j)
    PROVE  IInv'
<1>0. TypeOK /\ QueueContiguous /\ UsageExact /\ TerminalGate
  BY DEF IInv
<1>1. TypeOK'
  BY <1>0 DEF endFinalize, TypeOK, Phases, mailbox
<1>2. QueueContiguous' /\ UsageExact'
  BY <1>0 DEF endFinalize, QueueContiguous, UsageExact, mailbox
<1>3. TerminalGate'
  BY <1>0, SMTT(40) DEF endFinalize, TerminalGate, TypeOK, mailbox
<1> QED BY <1>1, <1>2, <1>3 DEF IInv

\* The first delta of a queue, and the queue without it.
LEMMA FirstDelta ==
    ASSUME NEW q \in Seq(Delta), q # <<>>
    PROVE  /\ Head(q) = q[1] /\ Head(q) \in Delta /\ Tail(q) \in Seq(Delta)
           /\ Len(q) \in Nat \ {0} /\ Len(Tail(q)) = Len(q) - 1
           /\ \A i \in 1..(Len(q) - 1) : Tail(q)[i] = q[i + 1] /\ i + 1 \in 1..Len(q)
<1>1. Head(q) = q[1] /\ Tail(q) \in Seq(Delta) /\ Len(q) \in Nat \ {0} /\ Len(Tail(q)) = Len(q) - 1
  OBVIOUS
<1>2. \A i \in 1..(Len(q) - 1) : Tail(q)[i] = q[i + 1] /\ i + 1 \in 1..Len(q)
  OBVIOUS
<1>3. 1 \in 1..Len(q)
  BY <1>1
<1> QED BY <1>1, <1>2, <1>3, DeltaType

\* A queue that continues from the consumer still does when the consumer has
\* taken its first delta.
LEMMA QueueShrinks ==
    ASSUME NEW q \in Seq(Delta), q # <<>>, NEW from \in Nat,
           \A i \in 1..Len(q) : q[i].sequence_no = from + i - 1
    PROVE  /\ Head(q).sequence_no = from
           /\ \A i \in 1..Len(Tail(q)) : Tail(q)[i].sequence_no = (from + 1) + i - 1
<1>1. /\ Head(q) = q[1] /\ Len(q) \in Nat \ {0} /\ Len(Tail(q)) = Len(q) - 1
      /\ \A i \in 1..(Len(q) - 1) : Tail(q)[i] = q[i + 1] /\ i + 1 \in 1..Len(q)
  BY FirstDelta
<1>2. Head(q).sequence_no = from + 1 - 1
  BY <1>1
<1>3. ASSUME NEW i \in 1..(Len(q) - 1)
      PROVE  Tail(q)[i].sequence_no = (from + 1) + i - 1
  <2>1. q[i + 1].sequence_no = from + (i + 1) - 1 /\ i \in Int
    BY <1>1
  <2>2. Tail(q)[i] = q[i + 1]
    BY <1>1
  <2> QED BY <2>1, <2>2
<1> QED BY <1>1, <1>2, <1>3, SMTT(40)

\* What waitPop changes when it hands out a delta.
LEMMA PopEffect ==
    ASSUME IInv, NEW j \in Jobs, waitPopDelta(j)
    PROVE  LET d == Head(deltas[j]) IN
           /\ deltas[j] \in Seq(Delta) /\ deltas[j] # <<>>
           /\ d.tokens \in 1..MaxTokens /\ d.tokens \in Nat
           /\ d.sequence_no = seen[j].deltas
           /\ Tokens(Tail(deltas[j])) = queuedTokens[j] - d.tokens
           /\ d.tokens <= queuedTokens[j]
           /\ deltas' = [deltas EXCEPT ![j] = Tail(deltas[j])]
           /\ queuedTokens' = [queuedTokens EXCEPT ![j] = queuedTokens[j] - d.tokens]
           /\ seen' = [seen EXCEPT ![j] = Stream!GotDelta(seen[j], d.tokens, d.sequence_no)]
           /\ phase[j] # "None" /\ ~seen[j].ended
<1> DEFINE d == Head(deltas[j])
<1>0. TypeOK /\ QueueContiguous /\ UsageExact /\ TerminalGate
  BY DEF IInv
<1>1. deltas[j] \in Seq(Delta) /\ deltas[j] # <<>> /\ seen[j].deltas \in Nat
  BY <1>0 DEF TypeOK, Seen, waitPopDelta
<1>2. d \in Delta
  BY <1>1, FirstDelta
<1>3. d.tokens \in 1..MaxTokens /\ d.tokens \in Nat
  BY <1>2, MailboxConfigValid DEF Delta
<1>4. d.sequence_no = seen[j].deltas
  BY <1>0, <1>1, QueueShrinks DEF QueueContiguous
<1>5. d.tokens <= queuedTokens[j] /\ Tokens(Tail(deltas[j])) = queuedTokens[j] - d.tokens
  BY <1>0, <1>1, TokensTail DEF QueueContiguous
<1>6. phase[j] # "None" /\ ~seen[j].ended
  BY <1>0, <1>1 DEF TerminalGate, UsageExact
<1>7. /\ deltas' = [deltas EXCEPT ![j] = Tail(deltas[j])]
      /\ queuedTokens' = [queuedTokens EXCEPT ![j] = queuedTokens[j] - d.tokens]
      /\ seen' = [seen EXCEPT ![j] = Stream!GotDelta(seen[j], d.tokens, d.sequence_no)]
  BY Zenon DEF waitPopDelta
<1> QED BY <1>1, <1>3, <1>4, <1>5, <1>6, <1>7, SMTT(40)

\* waitPop of a delta: the tokens move from the mailbox to the consumer.
LEMMA PopDeltaStep ==
    ASSUME IInv, NEW j \in Jobs, waitPopDelta(j)
    PROVE  IInv'
<1>0. TypeOK /\ QueueContiguous /\ UsageExact /\ TerminalGate
  BY DEF IInv
<1> PICK d, n, q, s : /\ d = Head(deltas[j]) /\ n = d.tokens /\ q = Tail(deltas[j])
                      /\ s = Stream!GotDelta(seen[j], n, d.sequence_no)
  BY Zenon
<1>1. /\ deltas[j] \in Seq(Delta) /\ deltas[j] # <<>>
      /\ n \in Nat /\ n <= queuedTokens[j] /\ d.sequence_no = seen[j].deltas
      /\ Tokens(q) = queuedTokens[j] - n
      /\ deltas' = [deltas EXCEPT ![j] = q]
      /\ queuedTokens' = [queuedTokens EXCEPT ![j] = queuedTokens[j] - n]
      /\ seen' = [seen EXCEPT ![j] = s]
      /\ phase[j] # "None" /\ ~seen[j].ended
  BY PopEffect
<1>2. /\ UNCHANGED <<phase, nextSequenceNo, completionTokens, finalizing>>
      /\ UNCHANGED <<terminal, terminalCommitted, closed>>
  BY DEF waitPopDelta, requestState
<1>3. /\ queuedTokens[j] \in Nat /\ nextSequenceNo[j] \in Nat /\ seen[j] \in Seen
      /\ seen[j].deltas \in Nat /\ seen[j].tokens \in Nat
      /\ max_queued_deltas \in Nat /\ max_queued_tokens \in Nat
  BY <1>0, MailboxConfigValid, ZenonT(40) DEF TypeOK, Seen
<1>4. /\ s \in Seen /\ s.deltas = seen[j].deltas + 1 /\ s.tokens = seen[j].tokens + n
      /\ s.ended = seen[j].ended /\ s.usage = seen[j].usage
  <2>1. d.sequence_no \in Nat
    BY <1>1, <1>3, SMTT(40)
  <2>2. s = [deltas |-> seen[j].deltas + 1, tokens |-> seen[j].tokens + n,
             last |-> d.sequence_no, ended |-> seen[j].ended, usage |-> seen[j].usage]
    BY DEF Stream!GotDelta
  <2>3. seen[j].ended \in BOOLEAN /\ seen[j].usage \in Nat
    BY <1>3 DEF Seen
  <2>4. seen[j].deltas + 1 \in Nat /\ seen[j].tokens + n \in Nat
    BY <1>1, <1>3, SMTT(40)
  <2>5. s \in Seen
    BY <2>1, <2>2, <2>3, <2>4 DEF Seen
  <2> QED BY <2>2, <2>5, SMTT(40)
<1>5. q \in Seq(Delta) /\ Len(deltas[j]) \in Nat \ {0} /\ Len(q) = Len(deltas[j]) - 1
  BY <1>1, FirstDelta
<1>6. queuedTokens[j] - n \in Nat
  BY <1>1, <1>3, SMTT(40)
<1>7. TypeOK'
  BY <1>0, <1>1, <1>2, <1>4, <1>5, <1>6, ZenonT(40) DEF TypeOK
<1>8. /\ deltas'[j] = q /\ seen'[j] = s /\ queuedTokens'[j] = queuedTokens[j] - n
      /\ nextSequenceNo'[j] = nextSequenceNo[j] /\ completionTokens'[j] = completionTokens[j]
      /\ terminal'[j] = terminal[j]
  BY <1>0, <1>1, <1>2, SMTT(40) DEF TypeOK
<1>9. ASSUME NEW k \in Jobs, k # j
      PROVE  UNCHANGED <<nextSequenceNo[k], seen[k], deltas[k], queuedTokens[k],
                         completionTokens[k], terminal[k]>>
  BY <1>0, <1>1, <1>2, <1>9, ZenonT(40) DEF TypeOK
<1>10. QueueContiguous'
  <2>1. /\ nextSequenceNo[j] = seen[j].deltas + Len(deltas[j])
        /\ \A i \in 1..Len(deltas[j]) : deltas[j][i].sequence_no = seen[j].deltas + i - 1
        /\ Len(deltas[j]) <= max_queued_deltas /\ queuedTokens[j] <= max_queued_tokens
    BY <1>0, ZenonT(40) DEF QueueContiguous
  <2>2. \A i \in 1..Len(q) : q[i].sequence_no = s.deltas + i - 1
    BY <1>1, <1>3, <1>4, <2>1, QueueShrinks, SMTT(40)
  <2>3. nextSequenceNo[j] = s.deltas + Len(q)
    BY <1>3, <1>4, <1>5, <2>1, SMTT(40)
  <2>4. Len(q) <= max_queued_deltas
    BY <1>3, <1>5, <2>1, SMTT(40)
  <2>5. queuedTokens[j] - n <= max_queued_tokens
    BY <1>1, <1>3, <2>1, SMTT(40)
  <2>6. /\ nextSequenceNo'[j] = seen'[j].deltas + Len(deltas'[j])
        /\ \A i \in 1..Len(deltas'[j]) : deltas'[j][i].sequence_no = seen'[j].deltas + i - 1
        /\ queuedTokens'[j] = Tokens(deltas'[j])
        /\ Len(deltas'[j]) <= max_queued_deltas
        /\ queuedTokens'[j] <= max_queued_tokens
    BY <1>1, <1>8, <2>2, <2>3, <2>4, <2>5, Zenon
  <2> QED BY <1>0, <1>9, <2>6 DEF QueueContiguous
<1>11. UsageExact'
  <2>1. completionTokens[j] = seen[j].tokens + queuedTokens[j]
    BY <1>0, ZenonT(40) DEF UsageExact
  <2>2. completionTokens[j] = s.tokens + (queuedTokens[j] - n)
    BY <1>1, <1>3, <1>4, <2>1, SMTT(40)
  <2> QED BY <1>0, <1>1, <1>4, <1>8, <1>9, <2>2, SMTT(40) DEF UsageExact
<1>12. TerminalGate'
  <2>1. \A k \in Jobs : seen'[k].ended = seen[k].ended
    BY <1>4, <1>8, <1>9, SMTT(40)
  <2>2. \A k \in Jobs : phase[k] = "None" => deltas'[k] = <<>>
    BY <1>0, <1>1, <1>9 DEF TerminalGate
  <2> QED BY <1>0, <1>2, <2>1, <2>2, ZenonT(40) DEF TerminalGate
<1> QED BY <1>7, <1>10, <1>11, <1>12 DEF IInv

\* What waitPop does with the Terminal: usage is all the consumer has seen.
LEMMA PopTerminalEffect ==
    ASSUME IInv, NEW j \in Jobs, waitPopTerminal(j)
    PROVE  /\ deltas[j] = <<>> /\ terminal[j].status # "none"
           /\ terminal[j].usage = completionTokens[j]
           /\ terminal[j].usage = seen[j].tokens
           /\ seen' = [seen EXCEPT ![j] = Stream!GotTerminal(seen[j], terminal[j].usage)]
           /\ phase[j] # "None" /\ ~seen[j].ended /\ terminalCommitted[j]
<1>0. TypeOK /\ QueueContiguous /\ UsageExact /\ TerminalGate
  BY DEF IInv
<1>1. /\ deltas[j] = <<>> /\ terminal[j].status # "none"
      /\ seen' = [seen EXCEPT ![j] = Stream!GotTerminal(seen[j], terminal[j].usage)]
  BY DEF waitPopTerminal, TerminalNext
<1>2. queuedTokens[j] = 0
  BY <1>0, <1>1, TokensEmpty DEF QueueContiguous
<1>3. terminal[j].usage = completionTokens[j] /\ completionTokens[j] = seen[j].tokens + queuedTokens[j]
  BY <1>0, <1>1 DEF UsageExact
<1>4. seen[j].tokens \in Nat
  BY <1>0 DEF TypeOK, Seen
<1>5. phase[j] # "None" /\ ~seen[j].ended /\ terminalCommitted[j]
  BY <1>0, <1>1 DEF TerminalGate
<1> QED BY <1>1, <1>2, <1>3, <1>4, <1>5

\* waitPop of the Terminal: it is handed out once, and the mailbox is closed.
LEMMA PopTerminalStep ==
    ASSUME IInv, NEW j \in Jobs, waitPopTerminal(j)
    PROVE  IInv'
<1>0. TypeOK /\ QueueContiguous /\ UsageExact /\ TerminalGate
  BY DEF IInv
<1> PICK s : s = Stream!GotTerminal(seen[j], terminal[j].usage)
  OBVIOUS
<1>1. /\ terminal' = [terminal EXCEPT ![j] = NoTerminal]
      /\ closed' = [closed EXCEPT ![j] = TRUE]
      /\ UNCHANGED <<requestState, deltas, queuedTokens, terminalCommitted>>
  BY DEF waitPopTerminal
<1>2. /\ deltas[j] = <<>> /\ terminalCommitted[j] /\ phase[j] # "None"
      /\ terminal[j].usage = completionTokens[j]
      /\ seen' = [seen EXCEPT ![j] = s]
  BY PopTerminalEffect
<1>3. /\ s \in Seen
      /\ s.deltas = seen[j].deltas /\ s.tokens = seen[j].tokens
      /\ s.ended = TRUE /\ s.usage = completionTokens[j]
  BY <1>0, <1>2, ZenonT(40) DEF TypeOK, Seen, Stream!GotTerminal
<1>4. /\ NoTerminal \in [status : Statuses \cup {"none"}, usage : Nat]
      /\ NoTerminal.status = "none"
  BY DEF NoTerminal
<1>5. TypeOK'
  BY <1>0, <1>1, <1>2, <1>3, <1>4 DEF TypeOK, requestState
<1>6. QueueContiguous'
  BY <1>0, <1>1, <1>2, <1>3, SMTT(40) DEF QueueContiguous, TypeOK, requestState
<1>7. UsageExact'
  BY <1>0, <1>1, <1>2, <1>3, <1>4, ZenonT(40) DEF UsageExact, TypeOK, requestState
<1>8. TerminalGate'
  BY <1>0, <1>1, <1>2, <1>3, <1>4 DEF TerminalGate, TypeOK, requestState
<1> QED BY <1>5, <1>6, <1>7, <1>8 DEF IInv

-----------------------------------------------------------------------------
\* Whatever the threads do, in whatever order, queue, usage and Terminal gate of
\* every request stay consistent.
THEOREM Invariance == Spec => []IInv
<1>1. IInv /\ [Next]_vars => IInv'
  <2> SUFFICES ASSUME IInv, [Next]_vars PROVE IInv'
    OBVIOUS
  <2>1. ASSUME NEW j \in Jobs, create(j) \/ markRunning(j) \/ markCancelling(j) PROVE IInv'
    BY <2>1, PhaseStep
  <2>2. ASSUME NEW j \in Jobs, NEW n \in 1..(MaxTokens - completionTokens[j]), tryCommitDelta(j, n)
        PROVE  IInv'
    BY <2>2, CommitStep
  <2>3. ASSUME NEW j \in Jobs, NEW status \in Statuses, pushTerminal(j, status) PROVE IInv'
    BY <2>3, PushTerminalStep
  <2>4. ASSUME NEW j \in Jobs, endFinalize(j) PROVE IInv'
    BY <2>4, EndFinalizeStep
  <2>5. ASSUME NEW j \in Jobs, waitPopDelta(j) PROVE IInv'
    BY <2>5, PopDeltaStep, ZenonT(40)
  <2>6. ASSUME NEW j \in Jobs, waitPopTerminal(j) PROVE IInv'
    BY <2>6, PopTerminalStep
  <2>7. CASE UNCHANGED vars
    BY <2>7 DEF vars, requestState, mailbox, IInv, TypeOK, QueueContiguous, UsageExact, TerminalGate
  <2> QED BY <2>1, <2>2, <2>3, <2>4, <2>5, <2>6, <2>7 DEF Next
<1> QED BY <1>1, InitIInv, PTL DEF Spec

\* The mailbox counters never wrap.
THEOREM TypeCorrect == Spec => []TypeOK
<1>1. IInv => TypeOK
  BY DEF IInv
<1> QED BY <1>1, Invariance, PTL

\* The deltas in the mailbox continue what the consumer has seen, within limits.
THEOREM QueueCorrect == Spec => []QueueContiguous
<1>1. IInv => QueueContiguous
  BY DEF IInv
<1> QED BY <1>1, Invariance, PTL

\* Usage counts exactly the tokens delivered before the Terminal.
THEOREM UsageCorrect == Spec => []UsageExact
<1>1. IInv => UsageExact
  BY DEF IInv
<1> QED BY <1>1, Invariance, PTL

\* finalize is the only gate to the Terminal and its slot is free when first used.
THEOREM GateCorrect == Spec => []TerminalGate
<1>1. IInv => TerminalGate
  BY DEF IInv
<1> QED BY <1>1, Invariance, PTL

\* Mailbox, counters and phase agree, for any number of requests and any limits.
THEOREM BookkeepingAlways == Spec => []Bookkeeping
<1>1. IInv => Bookkeeping
  BY DEF IInv, Bookkeeping
<1> QED BY <1>1, Invariance, PTL

-----------------------------------------------------------------------------
\* A request that is being cancelled, or has ended, commits nothing any more and
\* never goes back to an earlier phase.
THEOREM CancelIsFinal == Spec => CancelSilences
<1> DEFINE Silent == \A j \in Jobs :
                        phase[j] \in {"Cancelling", "Terminal"} =>
                           /\ nextSequenceNo'[j] = nextSequenceNo[j]
                           /\ phase'[j] \in {phase[j], "Terminal"}
<1>1. IInv /\ [Next]_vars => [Silent]_vars
  <2> SUFFICES ASSUME TypeOK, [Next]_vars PROVE Silent
    BY DEF IInv
  <2>1. ASSUME NEW j \in Jobs, create(j) \/ markRunning(j) \/ markCancelling(j) \/ endFinalize(j)
        PROVE  Silent
    BY <2>1 DEF create, markRunning, markCancelling, endFinalize, Live, TypeOK
  <2>2. ASSUME NEW j \in Jobs, NEW n \in 1..(MaxTokens - completionTokens[j]), tryCommitDelta(j, n)
        PROVE  Silent
    BY <2>2 DEF tryCommitDelta, TakesDelta, Live, TypeOK
  <2>3. ASSUME UNCHANGED <<phase, nextSequenceNo>> PROVE Silent
    BY <2>3, ZenonT(40)
  <2>4. ASSUME NEW j \in Jobs,
               waitPopDelta(j) \/ waitPopTerminal(j) \/ \E status \in Statuses : pushTerminal(j, status)
        PROVE  Silent
    BY <2>3, <2>4, ZenonT(40) DEF waitPopDelta, waitPopTerminal, pushTerminal, requestState
  <2>5. CASE UNCHANGED vars
    BY <2>3, <2>5 DEF vars, requestState
  <2> QED BY <2>1, <2>2, <2>4, <2>5 DEF Next
<1> QED BY <1>1, Invariance, PTL DEF Spec, CancelSilences

\* The requests that TokenStream calls open.
Opened == {j \in Jobs : phase[j] # "None"}

\* Every step of the threads is a step of the stream, or one it does not see.
LEMMA StreamStep == IInv /\ [Next]_vars => [Stream!Next]_<<Opened, seen>>
<1> SUFFICES ASSUME IInv, [Next]_vars PROVE [Stream!Next]_<<Opened, seen>>
  OBVIOUS
<1>0. TypeOK /\ TerminalGate
  BY DEF IInv
<1>1. ASSUME NEW j \in Jobs, create(j) PROVE Stream!Next
  <2>1. j \notin Opened /\ Opened' = Opened \cup {j} /\ seen' = seen
    BY <1>0, <1>1 DEF create, Opened, TypeOK
  <2>2. Stream!Open(j)
    BY <2>1 DEF Stream!Open, Opened
  <2> QED BY <2>2 DEF Stream!Next
<1>2. ASSUME NEW j \in Jobs,
             \/ markRunning(j) \/ markCancelling(j) \/ endFinalize(j)
             \/ \E n \in 1..(MaxTokens - completionTokens[j]) : tryCommitDelta(j, n)
             \/ \E status \in Statuses : pushTerminal(j, status)
      PROVE  UNCHANGED <<Opened, seen>>
  <2>1. CASE \E status \in Statuses : pushTerminal(j, status)
    BY <2>1 DEF pushTerminal, Opened
  <2>2. CASE \/ markRunning(j) \/ markCancelling(j) \/ endFinalize(j)
             \/ \E n \in 1..(MaxTokens - completionTokens[j]) : tryCommitDelta(j, n)
    <3>1. /\ phase[j] # "None" /\ seen' = seen
          /\ \E p \in Phases \ {"None"} : phase' = [phase EXCEPT ![j] = p]
      BY <1>0, <2>2 DEF markRunning, markCancelling, endFinalize, tryCommitDelta, TakesDelta, Live,
                   TerminalGate, Phases
    <3> QED BY <1>0, <3>1 DEF Opened, TypeOK
  <2> QED BY <1>2, <2>1, <2>2
<1>3. ASSUME NEW j \in Jobs, waitPopDelta(j) PROVE Stream!Next
  <2> PICK n : n = Head(deltas[j]).tokens
    BY ZenonT(40)
  <2>1. /\ n \in 1..MaxTokens /\ phase[j] # "None" /\ ~seen[j].ended
        /\ seen' = [seen EXCEPT ![j] = Stream!GotDelta(seen[j], n, seen[j].deltas)]
    BY <1>3, PopEffect
  <2>2. phase' = phase
    BY <1>3 DEF waitPopDelta, requestState
  <2>3. Stream!Delta(j, n)
    BY <2>1, <2>2 DEF Stream!Delta
  <2> QED BY <2>1, <2>3 DEF Stream!Next
<1>4. ASSUME NEW j \in Jobs, waitPopTerminal(j) PROVE Stream!Next
  <2>1. /\ phase[j] # "None" /\ ~seen[j].ended
        /\ seen' = [seen EXCEPT ![j] = Stream!GotTerminal(seen[j], seen[j].tokens)]
    BY <1>4, PopTerminalEffect
  <2>2. phase' = phase
    BY <1>4 DEF waitPopTerminal, requestState
  <2>3. Stream!Terminal(j)
    BY <2>1, <2>2 DEF Stream!Terminal
  <2> QED BY <2>3 DEF Stream!Next
<1>5. CASE UNCHANGED vars
  BY <1>5 DEF vars, requestState, Opened
<1> QED BY <1>1, <1>2, <1>3, <1>4, <1>5 DEF Next

\* Through the mailbox and whatever races to end a request, the consumer of every
\* request sees consecutive deltas, then one Terminal with the exact usage.
THEOREM Implements == Spec => ImplementsStream
<1>1. Init => Stream!Init
  BY DEF Init, Stream!Init
<1>2. IInv /\ [Next]_vars => [Stream!Next]_<<{j \in Jobs : phase[j] # "None"}, seen>>
  BY StreamStep DEF Opened
<1> QED BY <1>1, <1>2, Invariance, PTL DEF Spec, ImplementsStream, Stream!Spec

====
