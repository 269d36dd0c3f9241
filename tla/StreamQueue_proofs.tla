-------------------------- MODULE StreamQueue_proofs --------------------------
(***************************************************************************)
(* Proofs about StreamQueue, for any workers, tasks, batch sizes, attempts *)
(* and number of faults.                                                   *)
(***************************************************************************)
EXTENDS StreamQueue, FiniteSetTheorems, TLAPS

\* What appending to a sequence does to its length and elements.
LEMMA AppendFacts ==
  ASSUME NEW S, NEW q \in Seq(S), NEW e \in S
  PROVE  /\ Append(q, e) \in Seq(S)
         /\ Len(q) \in Nat
         /\ Len(Append(q, e)) = Len(q) + 1
         /\ \A i \in 1..Len(q) : Append(q, e)[i] = q[i]
         /\ Append(q, e)[Len(q) + 1] = e
  OBVIOUS

\* The stage table stays within the stages and its streams within the streams.
LEMMA StageFacts ==
  ASSUME NEW g \in Stages
  PROVE  NextStage[g] \in Stages /\ StreamOf[g] \in Streams
  BY DEF Stages, NextStage, StreamOf, Streams

\* A read hands out the ids right after the last delivered one.
LEMMA FreshFacts ==
  ASSUME QueueAssumption, TypeOK, NEW s \in Streams
  PROVE  LET n == last[s] + Cardinality(Fresh(s))
         IN  /\ n \in Nat /\ n <= Len(log[s]) /\ last[s] <= n
             /\ Fresh(s) = (last[s] + 1)..n
<1> DEFINE len == Len(log[s])
           size == BatchSize[s]
           top == IF last[s] + size <= len THEN last[s] + size ELSE len
<1>1. size \in Nat \ {0}
  BY DEF QueueAssumption, BatchSize, Streams
<1>2. len \in Nat /\ last[s] \in Nat /\ last[s] <= len
  BY DEF TypeOK, StreamsOK
<1>3. top \in Nat /\ last[s] <= top /\ top <= len
  BY <1>1, <1>2
<1>4. Fresh(s) = (last[s] + 1)..top
  BY <1>1, <1>2, <1>3 DEF Fresh, Ids
<1> HIDE DEF top
<1>5. Cardinality((last[s] + 1)..top) = top - last[s]
  <2>1. last[s] + 1 \in Int /\ top \in Int
    BY <1>2, <1>3
  <2>2. Cardinality((last[s] + 1)..top)
          = IF last[s] + 1 > top THEN 0 ELSE top - (last[s] + 1) + 1
    BY <2>1, FS_Interval
  <2> QED BY <2>2, <1>2, <1>3
<1> QED BY <1>2, <1>3, <1>4, <1>5

LEMMA ClaimFacts ==
  ASSUME TypeOK, NEW s \in Streams, NEW c, NEW ids
  PROVE  /\ Claimed(s, c) \subseteq idle[s]
         /\ Claimed(s, c) \subseteq 1..last[s]
         /\ NextCursor(s, ids) \subseteq Nat
  BY DEF TypeOK, StreamsOK, Claimed, NextCursor, First

-----------------------------------------------------------------------------
(* Type correctness. *)

LEMMA TypeInit == QueueAssumption /\ Init => TypeOK /\ Shape
  BY DEF QueueAssumption, Init, TypeOK, StreamsOK, Shape, Stages, NextStage, StreamOf, Streams

\* Starting a worker, or failing to, leaves a group that has delivered anything
\* where it is.
LEMMA EnsureGroupFacts ==
  ASSUME TypeOK, Shape, NEW S, EnsureGroup(S)
  PROVE  /\ last' = last
         /\ group' \in [Streams -> BOOLEAN]
         /\ \A s \in Streams : (s \in S \/ group[s]) => group'[s]
         /\ \A s \in Streams : ~group'[s] => last'[s] = 0
  BY DEF TypeOK, StreamsOK, Shape, EnsureGroup, GroupStart

\* A step of a running worker that goes on with the messages of ids keeps the
\* invariant when the streams are well formed after it and ids were delivered.
LEMMA ProceedStep ==
  ASSUME TypeOK, Shape, StreamsOK',
         NEW w \in Workers, NEW ids \in SUBSET Nat, Proceed(w, ids),
         pc[w] # "down", group' = group,
         \A s \in Streams : last[s] <= last'[s],
         ids \subseteq 1..last'[StreamOf[stage[w]]],
         cursor' \in [Workers -> [Streams -> Nat]],
         handled' \in [Streams -> SUBSET Task],
         faults' \in 0..MaxFaults
  PROVE  TypeOK' /\ Shape'
<1>1. /\ stage' \in [Workers -> Stages]
      /\ batch' = [batch EXCEPT ![w] = ids]
      /\ pc' \in [Workers -> {"down", "fetch", "handle"} \cup Results]
  BY StageFacts DEF Proceed, TypeOK
<1>2. ASSUME NEW v \in Workers
      PROVE  batch'[v] \subseteq 1..last'[StreamOf[stage'[v]]]
  <2>1. CASE v # w
    <3>1. stage'[v] = stage[v] /\ batch'[v] = batch[v]
      BY <2>1 DEF Proceed, TypeOK
    <3>2. StreamOf[stage[v]] \in Streams
      BY StageFacts DEF TypeOK
    <3>3. last \in [Streams -> Nat] /\ last' \in [Streams -> Nat]
      BY DEF TypeOK, StreamsOK
    <3> QED BY <3>1, <3>2, <3>3 DEF TypeOK
  <2>2. CASE v = w /\ ids = {}
    BY <2>2, <1>1 DEF TypeOK
  <2>3. CASE v = w /\ ids # {}
    BY <2>3 DEF Proceed, TypeOK
  <2> QED BY <2>1, <2>2, <2>3
<1>3. \A s \in Streams : ~group'[s] => last'[s] = 0
  <2>1. \A s \in Streams : group'[s]
    BY DEF Shape
  <2> QED BY <2>1
<1>4. \A v \in Workers : pc'[v] # "down" => \A s \in Streams : group'[s]
  BY DEF Shape
<1>5. \A v \in Workers : pc'[v] \in {"down", "fetch"} => batch'[v] = {}
  BY DEF Shape, Proceed, TypeOK, Results
<1> QED BY <1>1, <1>2, <1>3, <1>4, <1>5 DEF TypeOK, Shape

\* Every step of the program preserves the types.
LEMMA TypeStep ==
  ASSUME QueueAssumption, TypeOK, Shape, [Next]_vars
  PROVE  TypeOK' /\ Shape'
<1>1. ASSUME NEW s \in Streams, NEW t \in TasksOf[s], Enqueue(s, t)
      PROVE  TypeOK' /\ Shape'
  <2> DEFINE e == [task |-> t, attempt |-> 0, kind |-> "none"]
  <2>1. e \in Entry
    BY DEF Entry, Task, TasksOf, Streams
  <2>2. log' = [log EXCEPT ![s] = Append(log[s], e)] /\ log[s] \in Seq(Entry)
    BY <1>1 DEF Enqueue, TypeOK, StreamsOK
  <2> HIDE DEF e
  <2>3. /\ log' \in [Streams -> Seq(Entry)]
        /\ \A r \in Streams : Len(log[r]) \in Nat /\ Len(log'[r]) \in Nat
                             /\ Len(log[r]) <= Len(log'[r])
    BY <2>1, <2>2, AppendFacts DEF TypeOK, StreamsOK
  <2>4. StreamsOK'
    BY <1>1, <2>3 DEF Enqueue, TypeOK, StreamsOK
  <2> QED BY <1>1, <2>4 DEF Enqueue, TypeOK, Shape, workerVars
<1>2. ASSUME NEW w \in Workers, Start(w)
      PROVE  TypeOK' /\ Shape'
  <2>1. /\ last' = last
        /\ group' \in [Streams -> BOOLEAN]
        /\ \A s \in Streams : group'[s]
    BY <1>2, EnsureGroupFacts DEF Start
  <2>2. /\ stage' \in [Workers -> Stages]
        /\ cursor' \in [Workers -> [Streams -> Nat]]
        /\ pc' \in [Workers -> {"down", "fetch", "handle"} \cup Results]
    BY <1>2 DEF Start, TypeOK, Stages, NextStage
  <2>3. \A v \in Workers : batch[v] \subseteq 1..last[StreamOf[stage'[v]]]
    BY <1>2 DEF Start, TypeOK, Shape
  <2>4. StreamsOK'
    BY <1>2, <2>1 DEF Start, TypeOK, StreamsOK
  <2> QED BY <1>2, <2>1, <2>2, <2>3, <2>4 DEF Start, TypeOK, Shape
<1>3. ASSUME NEW w \in Workers, StartFails(w)
      PROVE  TypeOK' /\ Shape'
  <2>1. /\ last' = last
        /\ group' \in [Streams -> BOOLEAN]
        /\ \A s \in Streams : group[s] => group'[s]
        /\ \A s \in Streams : ~group'[s] => last'[s] = 0
    BY <1>3, EnsureGroupFacts DEF StartFails
  <2>2. StreamsOK'
    BY <1>3, <2>1 DEF StartFails, TypeOK, StreamsOK
  <2> QED BY <1>3, <2>1, <2>2
          DEF StartFails, Fault, TypeOK, Shape, workerVars, QueueAssumption
<1>4. ASSUME NEW w \in Workers, Stop(w)
      PROVE  TypeOK' /\ Shape'
  <2>1. StreamsOK'
    BY <1>4 DEF Stop, TypeOK, StreamsOK, streamVars
  <2> QED BY <1>4, <2>1 DEF Stop, Fault, TypeOK, Shape, streamVars, QueueAssumption
<1>5. ASSUME NEW w \in Workers, ClaimPending(w)
      PROVE  TypeOK' /\ Shape'
  <2> DEFINE s == StreamOf[stage[w]]
             ids == Claimed(s, cursor[w][s])
  <2>1. s \in Streams /\ ids \subseteq idle[s] /\ ids \subseteq 1..last[s]
    BY StageFacts, ClaimFacts DEF TypeOK
  <2>2. /\ idle' = [idle EXCEPT ![s] = @ \ ids]
        /\ Proceed(w, ids)
        /\ UNCHANGED <<log, dlq, group, last, pending, handled, faults>>
        /\ pc[w] # "down"
        /\ \E c \in NextCursor(s, ids) : cursor' = [cursor EXCEPT ![w][s] = c]
    BY <1>5 DEF ClaimPending
  <2>3. cursor' \in [Workers -> [Streams -> Nat]]
    BY <2>1, <2>2, ClaimFacts DEF TypeOK
  <2>4. ids \in SUBSET Nat /\ ids \subseteq 1..last'[s]
    BY <2>1, <2>2 DEF TypeOK, StreamsOK
  <2>5. StreamsOK' /\ \A r \in Streams : last[r] <= last'[r]
    BY <2>1, <2>2 DEF TypeOK, StreamsOK
  <2>6. handled' \in [Streams -> SUBSET Task] /\ faults' \in 0..MaxFaults
    BY <2>2 DEF TypeOK
  <2> QED BY <2>2, <2>3, <2>4, <2>5, <2>6, ProceedStep
<1>6. ASSUME NEW w \in Workers, ClaimLost(w)
      PROVE  TypeOK' /\ Shape'
  <2> DEFINE s == StreamOf[stage[w]]
             ids == Claimed(s, cursor[w][s])
  <2>1. /\ idle' = [idle EXCEPT ![s] = @ \ ids]
        /\ Proceed(w, {})
        /\ UNCHANGED <<log, dlq, group, last, pending, cursor, handled>>
        /\ pc[w] # "down"
    BY <1>6 DEF ClaimLost
  <2>2. s \in Streams
    BY StageFacts DEF TypeOK
  <2>3. StreamsOK' /\ \A r \in Streams : last[r] <= last'[r]
    BY <2>1, <2>2 DEF TypeOK, StreamsOK
  <2>4. /\ handled' \in [Streams -> SUBSET Task] /\ faults' \in 0..MaxFaults
        /\ cursor' \in [Workers -> [Streams -> Nat]]
    BY <1>6, <2>1 DEF ClaimLost, Fault, TypeOK, QueueAssumption
  <2> QED BY <2>1, <2>3, <2>4, ProceedStep
<1>7. ASSUME NEW w \in Workers, NEW ids \in SUBSET Fresh(StreamOf[stage[w]]),
             DeliverNew(StreamOf[stage[w]]), Proceed(w, ids), pc[w] = "fetch",
             UNCHANGED <<log, dlq, group, idle, cursor, handled>>,
             faults' \in 0..MaxFaults
      PROVE  TypeOK' /\ Shape'
  <2> DEFINE s == StreamOf[stage[w]]
             n == last[s] + Cardinality(Fresh(s))
  <2>1. /\ s \in Streams /\ n \in Nat /\ n <= Len(log[s]) /\ last[s] <= n
        /\ last[s] \in Nat
        /\ Fresh(s) = (last[s] + 1)..n
    BY StageFacts, FreshFacts DEF TypeOK, StreamsOK
  <2>2. /\ last' = [last EXCEPT ![s] = n]
        /\ pending' = [pending EXCEPT ![s] = @ \cup Fresh(s)]
    BY <1>7 DEF DeliverNew
  <2> HIDE DEF n
  <2>3. /\ last' \in [Streams -> Nat]
        /\ \A r \in Streams : last[r] <= last'[r] /\ last'[r] <= Len(log[r])
        /\ pending' \in [Streams -> SUBSET Nat]
        /\ \A r \in Streams : pending'[r] \subseteq 1..last'[r]
        /\ \A r \in Streams : idle[r] \subseteq pending'[r]
    BY <2>1, <2>2 DEF TypeOK, StreamsOK
  <2>4. StreamsOK'
    BY <1>7, <2>3 DEF TypeOK, StreamsOK
  <2>5. ids \in SUBSET Nat /\ ids \subseteq 1..last'[s]
    BY <1>7, <2>1, <2>2 DEF TypeOK, StreamsOK
  <2>6. handled' \in [Streams -> SUBSET Task] /\ cursor' \in [Workers -> [Streams -> Nat]]
    BY <1>7 DEF TypeOK
  <2> QED BY <1>7, <2>3, <2>4, <2>5, <2>6, ProceedStep
<1>8. ASSUME NEW w \in Workers, ReadNew(w)
      PROVE  TypeOK' /\ Shape'
  <2>1. Fresh(StreamOf[stage[w]]) \in SUBSET Fresh(StreamOf[stage[w]])
    OBVIOUS
  <2> QED BY <1>7, <1>8, <2>1 DEF ReadNew, TypeOK
<1>9. ASSUME NEW w \in Workers, ReadLost(w)
      PROVE  TypeOK' /\ Shape'
  <2>1. {} \in SUBSET Fresh(StreamOf[stage[w]]) /\ faults' \in 0..MaxFaults
    BY <1>9 DEF ReadLost, Fault, TypeOK, QueueAssumption
  <2> QED BY <1>7, <1>9, <2>1 DEF ReadLost
<1>10. ASSUME NEW w \in Workers, FetchFails(w)
       PROVE  TypeOK' /\ Shape'
  <2>1. StreamsOK' /\ \A r \in Streams : last[r] <= last'[r]
    BY <1>10 DEF FetchFails, TypeOK, StreamsOK, streamVars
  <2>2. /\ handled' \in [Streams -> SUBSET Task] /\ faults' \in 0..MaxFaults
        /\ cursor' \in [Workers -> [Streams -> Nat]]
        /\ pc[w] # "down" /\ group' = group /\ Proceed(w, {})
    BY <1>10 DEF FetchFails, Fault, TypeOK, QueueAssumption, streamVars
  <2> QED BY <2>1, <2>2, ProceedStep
<1>11. ASSUME NEW w \in Workers, NEW r \in Outcomes, HandlerReturns(w, r)
       PROVE  TypeOK' /\ Shape'
  <2> DEFINE s == StreamOf[stage[w]]
  <2>1. s \in Streams /\ batch[w] \subseteq Ids(s)
    BY StageFacts DEF TypeOK, StreamsOK, Ids
  <2>2. \A i \in First(batch[w]) : log[s][i].task \in Task
    <3>1. log[s] \in Seq(Entry) /\ First(batch[w]) \subseteq 1..Len(log[s])
      BY <2>1 DEF TypeOK, StreamsOK, First, Ids
    <3>2. \A i \in First(batch[w]) : log[s][i] \in Entry
      BY <3>1
    <3> QED BY <3>2 DEF Entry
  <2>3. handled' \in [Streams -> SUBSET Task]
    BY <1>11, <2>1, <2>2 DEF HandlerReturns, TypeOK
  <2>4. StreamsOK' /\ r \in Results
    BY <1>11 DEF HandlerReturns, TypeOK, StreamsOK, streamVars, QueueAssumption
  <2> QED BY <1>11, <2>3, <2>4 DEF HandlerReturns, TypeOK, Shape, streamVars, Results
<1>12. ASSUME NEW w \in Workers, NEW i \in First(batch[w]),
              Proceed(w, batch[w] \ {i}), pc[w] # "down",
              StreamsOK', group' = group, last' = last, cursor' = cursor,
              handled' = handled, faults' \in 0..MaxFaults
       PROVE  TypeOK' /\ Shape'
  <2>1. batch[w] \ {i} \in SUBSET Nat /\ batch[w] \ {i} \subseteq 1..last'[StreamOf[stage[w]]]
    BY <1>12 DEF TypeOK
  <2>2. \A r \in Streams : last[r] <= last'[r]
    BY <1>12 DEF TypeOK, StreamsOK
  <2>3. /\ handled' \in [Streams -> SUBSET Task]
        /\ cursor' \in [Workers -> [Streams -> Nat]]
    BY <1>12 DEF TypeOK
  <2> QED BY <1>12, <2>1, <2>2, <2>3, ProceedStep
<1>13. ASSUME NEW w \in Workers, Ack(w)
       PROVE  TypeOK' /\ Shape'
  <2> DEFINE s == StreamOf[stage[w]]
  <2>1. PICK i \in First(batch[w]) : Acknowledge(s, i) /\ Proceed(w, batch[w] \ {i})
    BY <1>13 DEF Ack
  <2>2. StreamsOK'
    BY <1>13, <2>1, StageFacts DEF Ack, Acknowledge, TypeOK, StreamsOK
  <2>3. faults' \in 0..MaxFaults
    BY <1>13 DEF Ack, TypeOK
  <2> QED BY <1>12, <1>13, <2>1, <2>2, <2>3 DEF Ack
<1>14. ASSUME NEW w \in Workers, RetryOrDLQ(w)
       PROVE  TypeOK' /\ Shape'
  <2> DEFINE s == StreamOf[stage[w]]
             e(i) == [task |-> log[s][i].task, attempt |-> log[s][i].attempt + 1,
                      kind |-> pc[w]]
  <2>1. PICK i \in First(batch[w]) :
          /\ AckAndAdd(s, i, ToDLQ(pc[w], log[s][i].attempt + 1), e(i))
          /\ Proceed(w, batch[w] \ {i})
    BY <1>14 DEF RetryOrDLQ
  <2>2. s \in Streams /\ i \in 1..Len(log[s])
    BY StageFacts DEF TypeOK, StreamsOK, First
  <2>3. e(i) \in Entry
    <3>1. log[s][i] \in Entry
      BY <2>2 DEF TypeOK, StreamsOK
    <3> QED BY <1>14, <3>1 DEF RetryOrDLQ, Entry
  <2> HIDE DEF e, s
  <2>4. /\ log[s] \in Seq(Entry) /\ dlq[s] \in Seq(Entry)
        /\ Append(log[s], e(i)) \in Seq(Entry) /\ Append(dlq[s], e(i)) \in Seq(Entry)
        /\ Len(log[s]) \in Nat /\ Len(Append(log[s], e(i))) = Len(log[s]) + 1
    BY <2>2, <2>3, AppendFacts DEF TypeOK, StreamsOK
  <2>5. StreamsOK'
    <3>1. group' = group /\ last' = last
      BY <1>14 DEF RetryOrDLQ
    <3>2. CASE i \notin pending[s]
      BY <2>1, <3>1, <3>2 DEF AckAndAdd, TypeOK, StreamsOK
    <3>3. CASE i \in pending[s]
      <4>1. /\ pending' = [pending EXCEPT ![s] = @ \ {i}]
            /\ idle' = [idle EXCEPT ![s] = @ \ {i}]
            /\ \/ dlq' = [dlq EXCEPT ![s] = Append(@, e(i))] /\ log' = log
               \/ log' = [log EXCEPT ![s] = Append(@, e(i))] /\ dlq' = dlq
        BY <2>1, <3>3 DEF AckAndAdd, Acknowledge
      <4>2. /\ pending' \in [Streams -> SUBSET Nat]
            /\ \A r \in Streams : pending'[r] \subseteq 1..last[r]
            /\ idle' \in [Streams -> SUBSET Nat]
            /\ \A r \in Streams : idle'[r] \subseteq pending'[r]
        BY <4>1, <2>2 DEF TypeOK, StreamsOK
      <4>3. /\ log' \in [Streams -> Seq(Entry)] /\ dlq' \in [Streams -> Seq(Entry)]
            /\ \A r \in Streams : last[r] <= Len(log'[r])
        <5> DEFINE a == Append(log[s], e(i))
                   b == Append(dlq[s], e(i))
        <5>1. /\ a \in Seq(Entry) /\ b \in Seq(Entry)
              /\ last[s] \in Nat /\ last[s] <= Len(a)
          BY <2>2, <2>4 DEF TypeOK, StreamsOK
        <5>2. /\ \A r \in Streams : last[r] <= Len(log[r])
              /\ log \in [Streams -> Seq(Entry)] /\ dlq \in [Streams -> Seq(Entry)]
          BY DEF TypeOK, StreamsOK
        <5>3. \/ dlq' = [dlq EXCEPT ![s] = b] /\ log' = log
              \/ log' = [log EXCEPT ![s] = a] /\ dlq' = dlq
          BY <4>1
        <5> HIDE DEF a, b
        <5> QED BY <5>1, <5>2, <5>3, <2>2
      <4> QED BY <4>2, <4>3, <3>1 DEF TypeOK, StreamsOK
    <3> QED BY <3>2, <3>3
  <2>6. faults' \in 0..MaxFaults
    BY <1>14 DEF RetryOrDLQ, TypeOK
  <2> QED BY <1>12, <1>14, <2>1, <2>5, <2>6 DEF RetryOrDLQ
<1>15. ASSUME NEW w \in Workers, SettleFails(w)
       PROVE  TypeOK' /\ Shape'
  <2>1. PICK i \in First(batch[w]) : Proceed(w, batch[w] \ {i})
    BY <1>15 DEF SettleFails
  <2>2. StreamsOK' /\ faults' \in 0..MaxFaults /\ pc[w] # "down"
    BY <1>15 DEF SettleFails, Fault, TypeOK, StreamsOK, streamVars, QueueAssumption, Results
  <2> QED BY <1>12, <1>15, <2>1, <2>2 DEF SettleFails, streamVars
<1>16. ASSUME NEW s \in Streams, NEW i \in pending[s], Age(s, i)
       PROVE  TypeOK' /\ Shape'
  <2>1. StreamsOK'
    BY <1>16 DEF Age, TypeOK, StreamsOK
  <2> QED BY <1>16, <2>1 DEF Age, TypeOK, Shape, workerVars
<1>17. CASE UNCHANGED vars
  BY <1>17 DEF vars, TypeOK, StreamsOK, Shape
<1> QED
  BY <1>1, <1>2, <1>3, <1>4, <1>5, <1>6, <1>8, <1>9, <1>10, <1>11, <1>13, <1>14, <1>15,
     <1>16, <1>17 DEF Next, Work, Disturb

\* Every reachable state is well typed, and no batch or pending entry names a
\* message its stream has not delivered.
THEOREM TypeCorrect == Spec => []TypeOK
<1>1. Init => TypeOK /\ Shape
  BY TypeInit, QueueAssumption
<1>2. (TypeOK /\ Shape) /\ [Next]_vars => (TypeOK /\ Shape)'
  BY TypeStep, QueueAssumption
<1> QED BY <1>1, <1>2, PTL DEF Spec

-----------------------------------------------------------------------------
(* What a step does to a stream, as its messages see it. *)

Untouched(s) ==
  log'[s] = log[s] /\ dlq'[s] = dlq[s] /\ Live(s)' = Live(s)

Submitted(s) == \E t \in TasksOf[s] \ Enqueued(s) :
  /\ log'[s] = Append(log[s], [task |-> t, attempt |-> 0, kind |-> "none"])
  /\ dlq'[s] = dlq[s]
  /\ Live(s)' = Live(s) \cup {Len(log[s]) + 1}

Acked(s) == \E i \in Live(s) \cap 1..last[s] :
  /\ log[s][i].task \in handled[s]
  /\ log'[s] = log[s] /\ dlq'[s] = dlq[s]
  /\ Live(s)' = Live(s) \ {i}

Requeued(s) == \E i \in Live(s) \cap 1..last[s], r \in {"transient", "permanent"} :
  LET next == log[s][i].attempt + 1
  IN  /\ next < MaxAttempts
      /\ log'[s] = Append(log[s], [task |-> log[s][i].task, attempt |-> next, kind |-> r])
      /\ dlq'[s] = dlq[s]
      /\ Live(s)' = (Live(s) \ {i}) \cup {Len(log[s]) + 1}

Buried(s) == \E i \in Live(s) \cap 1..last[s], r \in {"transient", "permanent"} :
  LET next == log[s][i].attempt + 1
  IN  /\ r = "permanent" \/ next >= MaxAttempts
      /\ log'[s] = log[s]
      /\ dlq'[s] = Append(dlq[s], [task |-> log[s][i].task, attempt |-> next, kind |-> r])
      /\ Live(s)' = Live(s) \ {i}

\* A step leaves the messages of a stream alone, or submits, acknowledges,
\* requeues or buries exactly one of them.
StepEffect(s) ==
  /\ Untouched(s) \/ Submitted(s) \/ Acked(s) \/ Requeued(s) \/ Buried(s)
  /\ handled[s] \subseteq handled'[s]
  /\ last[s] <= last'[s]

LEMMA SameStreams ==
  ASSUME NEW s \in Streams, log' = log, dlq' = dlq, last' = last, pending' = pending
  PROVE  Untouched(s)
  BY DEF Untouched, Live, Ids

LEMMA DeliveryEffect ==
  ASSUME QueueAssumption, TypeOK, NEW r \in Streams, NEW s \in Streams,
         DeliverNew(r), log' = log, dlq' = dlq
  PROVE  Untouched(s) /\ last[s] <= last'[s]
<1> DEFINE n == last[r] + Cardinality(Fresh(r))
<1>1. /\ n \in Nat /\ n <= Len(log[r]) /\ last[r] <= n
      /\ Fresh(r) = (last[r] + 1)..n
  BY FreshFacts
<1>2. /\ last' = [last EXCEPT ![r] = n]
      /\ pending' = [pending EXCEPT ![r] = @ \cup Fresh(r)]
  BY DEF DeliverNew
<1> HIDE DEF n
<1>3. last \in [Streams -> Nat] /\ pending \in [Streams -> SUBSET Nat]
  BY DEF TypeOK, StreamsOK
<1>4. last[s] <= last'[s]
  BY <1>1, <1>2, <1>3
<1>5. Live(s)' = Live(s)
  <2>1. CASE s = r
    <3>1. \A i \in 1..Len(log[s]) :
             (i > last'[s] \/ i \in pending'[s]) <=> (i > last[s] \/ i \in pending[s])
      BY <2>1, <1>1, <1>2, <1>3
    <3> QED BY <3>1 DEF Live, Ids
  <2>2. CASE s # r
    BY <2>2, <1>2, <1>3 DEF Live, Ids
  <2> QED BY <2>1, <2>2
<1> QED BY <1>4, <1>5 DEF Untouched

LEMMA StepEffectHolds ==
  ASSUME QueueAssumption, TypeOK, Shape, AckJustified, [Next]_vars, NEW s \in Streams
  PROVE  StepEffect(s)
<1>0. /\ last \in [Streams -> Nat] /\ log \in [Streams -> Seq(Entry)]
      /\ dlq \in [Streams -> Seq(Entry)] /\ pending \in [Streams -> SUBSET Nat]
      /\ handled \in [Streams -> SUBSET Task]
      /\ \A r \in Streams : last[r] <= Len(log[r]) /\ pending[r] \subseteq 1..last[r]
      /\ \A r \in Streams : Len(log[r]) \in Nat
  BY DEF TypeOK, StreamsOK
<1>1. ASSUME NEW r \in Streams, NEW t \in TasksOf[r], Enqueue(r, t)
      PROVE  StepEffect(s)
  <2>1. CASE s = r
    <3> DEFINE e == [task |-> t, attempt |-> 0, kind |-> "none"]
    <3>1. /\ log'[s] = Append(log[s], e) /\ dlq'[s] = dlq[s]
          /\ last' = last /\ pending' = pending /\ handled' = handled
          /\ t \in TasksOf[s] \ Enqueued(s)
      BY <1>1, <2>1, <1>0 DEF Enqueue
    <3>2. e \in Entry
      BY DEF Entry, Task, TasksOf, Streams
    <3> HIDE DEF e
    <3>3. Len(log'[s]) = Len(log[s]) + 1
      BY <3>1, <3>2, <1>0, AppendFacts
    <3>4. Live(s)' = Live(s) \cup {Len(log[s]) + 1}
      BY <3>1, <3>3, <1>0 DEF Live, Ids
    <3> QED BY <3>1, <3>4, <1>0 DEF StepEffect, Submitted, e
  <2>2. CASE s # r
    BY <1>1, <2>2, <1>0 DEF Enqueue, StepEffect, Untouched, Live, Ids
  <2> QED BY <2>1, <2>2
<1>2. ASSUME NEW w \in Workers, Start(w) \/ StartFails(w)
      PROVE  StepEffect(s)
  <2>1. last' = last /\ log' = log /\ dlq' = dlq /\ pending' = pending /\ handled' = handled
    BY <1>2, EnsureGroupFacts DEF Start, StartFails
  <2> QED BY <2>1, <1>0, SameStreams DEF StepEffect
<1>3. ASSUME NEW w \in Workers,
             \/ Stop(w) \/ ClaimPending(w) \/ ClaimLost(w) \/ FetchFails(w) \/ SettleFails(w)
      PROVE  StepEffect(s)
  <2>1. last' = last /\ log' = log /\ dlq' = dlq /\ pending' = pending /\ handled' = handled
    BY <1>3 DEF Stop, ClaimPending, ClaimLost, FetchFails, SettleFails, streamVars
  <2> QED BY <2>1, <1>0, SameStreams DEF StepEffect
<1>4. ASSUME NEW w \in Workers, ReadNew(w) \/ ReadLost(w)
      PROVE  StepEffect(s)
  <2>1. /\ DeliverNew(StreamOf[stage[w]]) /\ log' = log /\ dlq' = dlq /\ handled' = handled
        /\ StreamOf[stage[w]] \in Streams
    BY <1>4, StageFacts DEF ReadNew, ReadLost, TypeOK
  <2> QED BY <2>1, DeliveryEffect DEF StepEffect
<1>5. ASSUME NEW w \in Workers, NEW r \in Outcomes, HandlerReturns(w, r)
      PROVE  StepEffect(s)
  <2>1. /\ last' = last /\ log' = log /\ dlq' = dlq /\ pending' = pending
        /\ handled[s] \subseteq handled'[s]
    BY <1>5, <1>0 DEF HandlerReturns, streamVars
  <2> QED BY <2>1, <1>0, SameStreams DEF StepEffect
<1>6. ASSUME NEW w \in Workers, Ack(w)
      PROVE  StepEffect(s)
  <2> DEFINE r == StreamOf[stage[w]]
  <2>1. PICK i \in First(batch[w]) : Acknowledge(r, i)
    BY <1>6 DEF Ack
  <2>2. /\ last' = last /\ log' = log /\ dlq' = dlq /\ handled' = handled
        /\ pending' = [pending EXCEPT ![r] = @ \ {i}]
        /\ r \in Streams /\ i \in 1..last[r] /\ log[r][i].task \in handled[r]
    BY <1>6, <2>1, StageFacts DEF Ack, Acknowledge, TypeOK, First, AckJustified
  <2>3. CASE s = r /\ i \in pending[r]
    <3>1. Live(s)' = Live(s) \ {i} /\ i \in Live(s) \cap 1..last[s]
      BY <2>2, <2>3, <1>0 DEF Live, Ids
    <3>2. Acked(s)
      BY <2>2, <2>3, <3>1 DEF Acked
    <3> QED BY <2>2, <3>2, <1>0 DEF StepEffect
  <2>4. CASE s # r \/ i \notin pending[r]
    <3>1. pending'[s] = pending[s]
      BY <2>2, <2>4, <1>0
    <3> QED BY <2>2, <3>1, <1>0 DEF StepEffect, Untouched, Live, Ids
  <2> QED BY <2>3, <2>4
<1>7. ASSUME NEW w \in Workers, RetryOrDLQ(w)
      PROVE  StepEffect(s)
  <2> DEFINE r == StreamOf[stage[w]]
             next(i) == log[r][i].attempt + 1
             e(i) == [task |-> log[r][i].task, attempt |-> next(i), kind |-> pc[w]]
  <2>1. PICK i \in First(batch[w]) : AckAndAdd(r, i, ToDLQ(pc[w], next(i)), e(i))
    BY <1>7 DEF RetryOrDLQ
  <2>2. /\ last' = last /\ handled' = handled /\ r \in Streams
        /\ pc[w] \in {"transient", "permanent"} /\ i \in 1..last[r]
    BY <1>7, <2>1, StageFacts DEF RetryOrDLQ, TypeOK, First
  <2>3. CASE i \notin pending[r]
    <3>1. log' = log /\ dlq' = dlq /\ pending' = pending
      BY <2>1, <2>3 DEF AckAndAdd
    <3> QED BY <2>2, <3>1, <1>0, SameStreams DEF StepEffect
  <2>4. CASE i \in pending[r] /\ s # r
    <3>1. log'[s] = log[s] /\ dlq'[s] = dlq[s] /\ pending'[s] = pending[s]
      BY <2>1, <2>4, <1>0 DEF AckAndAdd, Acknowledge
    <3> QED BY <2>2, <3>1, <1>0 DEF StepEffect, Untouched, Live, Ids
  <2>5. CASE i \in pending[r] /\ s = r /\ ToDLQ(pc[w], next(i))
    <3>1. /\ log'[s] = log[s] /\ pending' = [pending EXCEPT ![s] = @ \ {i}]
          /\ dlq'[s] = Append(dlq[s], e(i))
      BY <2>1, <2>5, <1>0 DEF AckAndAdd, Acknowledge
    <3>2. Live(s)' = Live(s) \ {i} /\ i \in Live(s) \cap 1..last[s]
      BY <2>2, <2>5, <3>1, <1>0 DEF Live, Ids
    <3>3. log[r] = log[s] /\ (pc[w] = "permanent" \/ next(i) >= MaxAttempts)
      BY <2>5 DEF ToDLQ
    <3>4. Buried(s)
      BY <2>2, <3>1, <3>2, <3>3 DEF Buried
    <3> QED BY <2>2, <3>4, <1>0 DEF StepEffect
  <2>6. CASE i \in pending[r] /\ s = r /\ ~ToDLQ(pc[w], next(i))
    <3>1. /\ dlq'[s] = dlq[s] /\ pending' = [pending EXCEPT ![s] = @ \ {i}]
          /\ log'[s] = Append(log[s], e(i))
      BY <2>1, <2>6, <1>0 DEF AckAndAdd, Acknowledge
    <3>2. log[s][i] \in Entry /\ log[s] \in Seq(Entry) /\ Len(log[s]) \in Nat
      BY <2>2, <2>6, <1>0
    <3>3. e(i) \in Entry /\ next(i) \in Nat
      BY <2>2, <2>6, <3>2 DEF Entry
    <3>4. Len(log'[s]) = Len(log[s]) + 1
      BY <3>1, <3>2, <3>3, AppendFacts
    <3>5. Live(s)' = (Live(s) \ {i}) \cup {Len(log[s]) + 1} /\ i \in Live(s) \cap 1..last[s]
      BY <2>2, <2>6, <3>1, <3>4, <1>0 DEF Live, Ids
    <3>6. next(i) < MaxAttempts
      BY <2>6, <3>3 DEF ToDLQ, QueueAssumption
    <3>7. Requeued(s)
      BY <2>2, <2>6, <3>1, <3>5, <3>6 DEF Requeued
    <3> QED BY <2>2, <3>7, <1>0 DEF StepEffect
  <2> QED BY <2>3, <2>4, <2>5, <2>6
<1>8. ASSUME NEW r \in Streams, NEW i \in pending[r], Age(r, i)
      PROVE  StepEffect(s)
  BY <1>8, <1>0, SameStreams DEF Age, StepEffect
<1>9. CASE UNCHANGED vars
  BY <1>9, <1>0, SameStreams DEF vars, StepEffect
<1> QED
  BY <1>1, <1>2, <1>3, <1>4, <1>5, <1>6, <1>7, <1>8, <1>9 DEF Next, Work, Disturb

\* Streams only grow, and old messages stay what they are.
LEMMA GrowthFacts ==
  ASSUME QueueAssumption, TypeOK, TypeOK', NEW s \in Streams, StepEffect(s)
  PROVE  /\ Len(log[s]) \in Nat /\ Len(log'[s]) \in Nat /\ Len(log[s]) <= Len(log'[s])
         /\ \A k \in 1..Len(log[s]) : log'[s][k] = log[s][k]
         /\ last[s] \in Nat /\ last'[s] \in Nat /\ last[s] <= last'[s]
         /\ last[s] <= Len(log[s]) /\ last'[s] <= Len(log'[s])
         /\ \A k \in 1..Len(log[s]) : log[s][k] \in Entry
<1>1. /\ log[s] \in Seq(Entry) /\ log'[s] \in Seq(Entry)
      /\ last[s] \in Nat /\ last'[s] \in Nat
      /\ last[s] <= Len(log[s]) /\ last'[s] <= Len(log'[s])
  BY DEF TypeOK, StreamsOK
<1>2. log'[s] = log[s] \/ \E e : log'[s] = Append(log[s], e)
  BY DEF StepEffect, Untouched, Submitted, Acked, Requeued, Buried
<1>3. ASSUME NEW e, log'[s] = Append(log[s], e)
      PROVE  Len(log[s]) <= Len(log'[s]) /\ \A k \in 1..Len(log[s]) : log'[s][k] = log[s][k]
  BY <1>1, <1>3
<1>4. last[s] <= last'[s]
  BY DEF StepEffect
<1> QED BY <1>1, <1>2, <1>3, <1>4

LEMMA FirstUnique ==
  ASSUME NEW S \in SUBSET Nat, NEW i \in First(S), NEW j \in First(S)
  PROVE  i = j
  BY DEF First

\* A worker is about to acknowledge only when it was before or its handler has
\* just returned nil.
LEMMA OkStep ==
  ASSUME TypeOK, [Next]_vars, NEW w \in Workers, pc'[w] = "ok"
  PROVE  \/ pc[w] = "ok" /\ batch'[w] = batch[w] /\ stage'[w] = stage[w]
         \/ HandlerReturns(w, "ok")
<1>1. ASSUME NEW v \in Workers, NEW ids, Proceed(v, ids)
      PROVE  pc[w] = "ok" /\ batch'[w] = batch[w] /\ stage'[w] = stage[w]
  BY <1>1 DEF Proceed, TypeOK
<1>2. ASSUME NEW v \in Workers, Disturb(v)
      PROVE  pc[w] = "ok" /\ batch'[w] = batch[w] /\ stage'[w] = stage[w]
  BY <1>1, <1>2 DEF Disturb, StartFails, Stop, ClaimLost, ReadLost, FetchFails, SettleFails,
                    workerVars, TypeOK
<1>3. ASSUME NEW v \in Workers,
             Start(v) \/ ClaimPending(v) \/ ReadNew(v) \/ Ack(v) \/ RetryOrDLQ(v)
      PROVE  pc[w] = "ok" /\ batch'[w] = batch[w] /\ stage'[w] = stage[w]
  BY <1>1, <1>3 DEF Start, ClaimPending, ReadNew, Ack, RetryOrDLQ, TypeOK
<1>4. ASSUME NEW v \in Workers, NEW r \in Outcomes, HandlerReturns(v, r)
      PROVE  \/ pc[w] = "ok" /\ batch'[w] = batch[w] /\ stage'[w] = stage[w]
             \/ HandlerReturns(w, "ok")
  BY <1>4 DEF HandlerReturns, TypeOK
<1>5. ASSUME \/ UNCHANGED vars
             \/ \E s \in Streams : \E t \in TasksOf[s] : Enqueue(s, t)
             \/ \E s \in Streams : \E i \in pending[s] : Age(s, i)
      PROVE  pc[w] = "ok" /\ batch'[w] = batch[w] /\ stage'[w] = stage[w]
  BY <1>5 DEF Enqueue, Age, vars, workerVars
<1> QED BY <1>2, <1>3, <1>4, <1>5 DEF Next, Work

LEMMA AckJustifiedStep ==
  ASSUME QueueAssumption, TypeOK, TypeOK', AckJustified, [Next]_vars,
         \A s \in Streams : StepEffect(s)
  PROVE  AckJustified'
<1> SUFFICES ASSUME NEW w \in Workers, pc'[w] = "ok",
                    NEW i \in First(batch'[w])
             PROVE  log'[StreamOf[stage'[w]]][i].task \in handled'[StreamOf[stage'[w]]]
  BY DEF AckJustified, First
<1> DEFINE s == StreamOf[stage[w]]
<1>1. /\ s \in Streams /\ batch[w] \in SUBSET Nat /\ batch[w] \subseteq 1..last[s]
      /\ handled \in [Streams -> SUBSET Task]
  BY StageFacts DEF TypeOK
<1>2. /\ \A k \in 1..last[s] : log'[s][k] = log[s][k]
      /\ handled[s] \subseteq handled'[s]
  BY <1>1, GrowthFacts DEF StepEffect
<1>3. CASE pc[w] = "ok" /\ batch'[w] = batch[w] /\ stage'[w] = stage[w]
  <2>1. i \in First(batch[w]) /\ i \in 1..last[s]
    BY <1>1, <1>3 DEF First
  <2>2. log[s][i].task \in handled[s]
    BY <1>3, <2>1 DEF AckJustified
  <2> QED BY <1>2, <1>3, <2>1, <2>2
<1>4. CASE HandlerReturns(w, "ok")
  <2>1. stage' = stage /\ batch' = batch /\ log' = log
    BY <1>4 DEF HandlerReturns, streamVars
  <2>2. PICK j \in First(batch[w]) :
          handled' = [handled EXCEPT ![s] = @ \cup {log[s][j].task}]
    BY <1>4 DEF HandlerReturns
  <2>3. i = j
    BY <1>1, <2>1, FirstUnique
  <2> QED BY <1>1, <2>1, <2>2, <2>3
<1> QED BY <1>3, <1>4, OkStep

-----------------------------------------------------------------------------
(* The safety invariants, stream by stream. *)

LEMMA AttemptsInOrderStep ==
  ASSUME QueueAssumption, TypeOK, TypeOK', AttemptsInOrder, \A s \in Streams : StepEffect(s)
  PROVE  AttemptsInOrder'
<1> SUFFICES ASSUME NEW s \in Streams, NEW i \in Ids(s)', NEW j \in Ids(s)'
             PROVE  /\ log'[s][i].attempt < MaxAttempts
                    /\ i < j /\ log'[s][i].task = log'[s][j].task =>
                         log'[s][i].attempt < log'[s][j].attempt /\ i \notin Live(s)'
  BY DEF AttemptsInOrder, Ids, Live
<1> DEFINE n == Len(log[s])
<1>1. /\ n \in Nat /\ last[s] \in Nat /\ last[s] <= n
      /\ \A k \in 1..n : log[s][k] \in Entry
      /\ \A k \in 1..n : log'[s][k] = log[s][k]
      /\ Live(s) \subseteq 1..n
      /\ log[s] \in Seq(Entry) /\ log'[s] \in Seq(Entry)
  BY GrowthFacts DEF Live, Ids, TypeOK, StreamsOK
<1>2. \A k, l \in 1..n :
        /\ log[s][k].attempt < MaxAttempts /\ log[s][k].attempt \in Nat
        /\ k < l /\ log[s][k].task = log[s][l].task =>
             log[s][k].attempt < log[s][l].attempt /\ k \notin Live(s)
  BY <1>1 DEF AttemptsInOrder, Ids, Entry
<1>3. CASE log'[s] = log[s] /\ Live(s)' \subseteq Live(s)
  BY <1>1, <1>2, <1>3 DEF Ids
<1>4. CASE Submitted(s)
  <2>1. PICK t \in TasksOf[s] \ Enqueued(s) :
          /\ log'[s] = Append(log[s], [task |-> t, attempt |-> 0, kind |-> "none"])
          /\ Live(s)' = Live(s) \cup {n + 1}
    BY <1>4 DEF Submitted
  <2>2. log'[s][n + 1].task = t /\ log'[s][n + 1].attempt = 0 /\ Len(log'[s]) = n + 1
    BY <1>1, <2>1
  <2>3. \A k \in 1..n : log[s][k].task # t
    BY <2>1 DEF Enqueued, Ids
  <2>4. i \in 1..(n + 1) /\ j \in 1..(n + 1)
    BY <2>2 DEF Ids
  <2> QED BY <1>1, <1>2, <2>1, <2>2, <2>3, <2>4 DEF QueueAssumption
<1>5. CASE Requeued(s)
  <2>1. PICK h \in Live(s) \cap 1..last[s], r \in {"transient", "permanent"} :
          /\ log[s][h].attempt + 1 < MaxAttempts
          /\ log'[s] = Append(log[s], [task |-> log[s][h].task,
                                       attempt |-> log[s][h].attempt + 1, kind |-> r])
          /\ Live(s)' = (Live(s) \ {h}) \cup {n + 1}
    BY <1>5 DEF Requeued
  <2>2. /\ log'[s][n + 1].task = log[s][h].task
        /\ log'[s][n + 1].attempt = log[s][h].attempt + 1
        /\ Len(log'[s]) = n + 1
    BY <1>1, <2>1
  <2>3. h \in 1..n /\ h \in Live(s)
    BY <1>1, <2>1
  <2>4. \A k \in 1..n : log[s][k].task = log[s][h].task =>
          log[s][k].attempt < log[s][h].attempt + 1 /\ k \notin Live(s) \ {h}
    <3> SUFFICES ASSUME NEW k \in 1..n, log[s][k].task = log[s][h].task
                 PROVE  log[s][k].attempt < log[s][h].attempt + 1 /\ k \notin Live(s) \ {h}
      OBVIOUS
    <3>1. log[s][k].attempt \in Nat /\ log[s][h].attempt \in Nat
      BY <1>2, <2>3
    <3>2. ~(h < k)
      BY <1>2, <2>3
    <3>3. CASE k < h
      BY <1>2, <2>3, <3>1, <3>3
    <3>4. CASE k = h
      BY <3>1, <3>4
    <3> QED BY <2>3, <3>2, <3>3, <3>4, <1>1
  <2> HIDE DEF n
  <2>5. (i \in 1..n \/ i = n + 1) /\ (j \in 1..n \/ j = n + 1)
    BY <1>1, <2>2 DEF Ids
  <2>6. CASE i \in 1..n /\ j \in 1..n
    <3>1. Live(s)' \cap 1..n \subseteq Live(s)
      BY <1>1, <2>1
    <3> QED BY <1>1, <1>2, <2>6, <3>1
  <2>7. CASE i \in 1..n /\ j = n + 1
    <3>1. Live(s)' \cap 1..n = Live(s) \ {h}
      BY <1>1, <2>1
    <3>2. log'[s][i] = log[s][i] /\ log'[s][j].task = log[s][h].task
          /\ log'[s][j].attempt = log[s][h].attempt + 1
      BY <1>1, <2>2, <2>7
    <3>3. log[s][i].attempt < MaxAttempts
      BY <1>2, <2>7
    <3>4. log[s][i].task = log[s][h].task =>
            log[s][i].attempt < log[s][h].attempt + 1 /\ i \notin Live(s)'
      BY <2>4, <2>7, <3>1
    <3> QED BY <3>2, <3>3, <3>4
  <2>8. CASE i = n + 1
    <3>1. ~(i < j)
      BY <1>1, <2>5, <2>8
    <3> QED BY <2>1, <2>2, <2>8, <3>1
  <2> QED BY <2>5, <2>6, <2>7, <2>8
<1>6. CASE Untouched(s) \/ Acked(s) \/ Buried(s)
  BY <1>3, <1>6 DEF Untouched, Acked, Buried
<1> QED BY <1>4, <1>5, <1>6 DEF StepEffect

\* What a step does to the tasks of a stream that were enqueued, are live or dead.
LEMMA TaskSetsStep ==
  ASSUME QueueAssumption, TypeOK, TypeOK', NEW s \in Streams, StepEffect(s), AttemptsInOrder
  PROVE  \/ /\ Untouched(s)
            /\ Enqueued(s)' = Enqueued(s) /\ LiveTasks(s)' = LiveTasks(s)
            /\ DeadTasks(s)' = DeadTasks(s)
         \/ /\ Submitted(s)
            /\ \E t \in TasksOf[s] \ Enqueued(s) :
                 /\ Enqueued(s)' = Enqueued(s) \cup {t}
                 /\ LiveTasks(s)' = LiveTasks(s) \cup {t}
                 /\ DeadTasks(s)' = DeadTasks(s)
         \/ /\ Acked(s)
            /\ \E t \in LiveTasks(s) \cap handled[s] :
                 /\ Enqueued(s)' = Enqueued(s)
                 /\ LiveTasks(s)' = LiveTasks(s) \ {t}
                 /\ DeadTasks(s)' = DeadTasks(s)
         \/ /\ Requeued(s)
            /\ Enqueued(s)' = Enqueued(s) /\ LiveTasks(s)' = LiveTasks(s)
            /\ DeadTasks(s)' = DeadTasks(s)
         \/ /\ Buried(s)
            /\ \E t \in LiveTasks(s) :
                 /\ Enqueued(s)' = Enqueued(s)
                 /\ LiveTasks(s)' = LiveTasks(s) \ {t}
                 /\ DeadTasks(s)' = DeadTasks(s) \cup {t}
                 /\ dlq'[s] = Append(dlq[s], dlq'[s][Len(dlq[s]) + 1])
                 /\ dlq'[s][Len(dlq[s]) + 1].task = t
<1> DEFINE n == Len(log[s])
<1>1. /\ n \in Nat /\ last[s] \in Nat /\ last[s] <= n
      /\ log[s] \in Seq(Entry) /\ dlq[s] \in Seq(Entry)
      /\ log'[s] \in Seq(Entry) /\ dlq'[s] \in Seq(Entry)
      /\ Live(s) \subseteq 1..n /\ Ids(s) = 1..n
  BY DEF TypeOK, StreamsOK, Live, Ids
<1>2. \A k, l \in Live(s) : log[s][k].task = log[s][l].task => k = l
  BY <1>1 DEF AttemptsInOrder
<1>3. CASE Untouched(s)
  BY <1>3 DEF Untouched, Enqueued, LiveTasks, DeadTasks, Ids
<1>4. CASE Submitted(s)
  <2>1. PICK t \in TasksOf[s] \ Enqueued(s) :
          /\ log'[s] = Append(log[s], [task |-> t, attempt |-> 0, kind |-> "none"])
          /\ dlq'[s] = dlq[s]
          /\ Live(s)' = Live(s) \cup {n + 1}
    BY <1>4 DEF Submitted
  <2>2. /\ log'[s][n + 1].task = t /\ Len(log'[s]) = n + 1
        /\ \A k \in 1..n : log'[s][k] = log[s][k]
    BY <1>1, <2>1
  <2> HIDE DEF n
  <2>3. Ids(s)' = Ids(s) \cup {n + 1}
    BY <1>1, <2>2 DEF Ids
  <2>4. Enqueued(s)' = Enqueued(s) \cup {t}
    BY <1>1, <2>2, <2>3 DEF Enqueued
  <2>5. LiveTasks(s)' = LiveTasks(s) \cup {t}
    BY <1>1, <2>1, <2>2 DEF LiveTasks
  <2>6. DeadTasks(s)' = DeadTasks(s)
    BY <2>1 DEF DeadTasks
  <2> QED BY <1>4, <2>4, <2>5, <2>6
<1>5. CASE Acked(s)
  <2>1. PICK i \in Live(s) \cap 1..last[s] :
          /\ log[s][i].task \in handled[s]
          /\ log'[s] = log[s] /\ dlq'[s] = dlq[s]
          /\ Live(s)' = Live(s) \ {i}
    BY <1>5 DEF Acked
  <2>2. log[s][i].task \in LiveTasks(s) \cap handled[s]
    BY <2>1 DEF LiveTasks
  <2>3. LiveTasks(s)' = LiveTasks(s) \ {log[s][i].task}
    BY <1>2, <2>1 DEF LiveTasks
  <2>4. Enqueued(s)' = Enqueued(s) /\ DeadTasks(s)' = DeadTasks(s)
    BY <2>1 DEF Enqueued, DeadTasks, Ids
  <2> QED BY <1>5, <2>2, <2>3, <2>4
<1>6. CASE Requeued(s)
  <2>1. PICK i \in Live(s) \cap 1..last[s], r \in {"transient", "permanent"} :
          /\ log'[s] = Append(log[s], [task |-> log[s][i].task,
                                       attempt |-> log[s][i].attempt + 1, kind |-> r])
          /\ dlq'[s] = dlq[s]
          /\ Live(s)' = (Live(s) \ {i}) \cup {n + 1}
    BY <1>6 DEF Requeued
  <2>2. /\ log'[s][n + 1].task = log[s][i].task /\ Len(log'[s]) = n + 1
        /\ \A k \in 1..n : log'[s][k] = log[s][k]
    BY <1>1, <2>1
  <2> HIDE DEF n
  <2>3. Ids(s)' = Ids(s) \cup {n + 1}
    BY <1>1, <2>2 DEF Ids
  <2>4. Enqueued(s)' = Enqueued(s)
    BY <1>1, <2>1, <2>2, <2>3 DEF Enqueued
  <2>5. LiveTasks(s)' = LiveTasks(s)
    BY <1>1, <2>1, <2>2 DEF LiveTasks
  <2>6. DeadTasks(s)' = DeadTasks(s)
    BY <2>1 DEF DeadTasks
  <2> QED BY <1>6, <2>4, <2>5, <2>6
<1>7. CASE Buried(s)
  <2>1. PICK i \in Live(s) \cap 1..last[s], r \in {"transient", "permanent"} :
          /\ log'[s] = log[s]
          /\ dlq'[s] = Append(dlq[s], [task |-> log[s][i].task,
                                       attempt |-> log[s][i].attempt + 1, kind |-> r])
          /\ Live(s)' = Live(s) \ {i}
    BY <1>7 DEF Buried
  <2> DEFINE m == Len(dlq[s])
             t == log[s][i].task
  <2>2. /\ dlq'[s][m + 1].task = t /\ Len(dlq'[s]) = m + 1 /\ m \in Nat
        /\ \A k \in 1..m : dlq'[s][k] = dlq[s][k]
        /\ dlq'[s] = Append(dlq[s], dlq'[s][m + 1])
        /\ DOMAIN dlq[s] = 1..m /\ DOMAIN dlq'[s] = 1..(m + 1)
    BY <1>1, <2>1
  <2>3. t \in LiveTasks(s)
    BY <2>1 DEF LiveTasks
  <2>4. LiveTasks(s)' = LiveTasks(s) \ {t}
    BY <1>2, <2>1 DEF LiveTasks
  <2>5. Enqueued(s)' = Enqueued(s)
    BY <2>1 DEF Enqueued, Ids
  <2>6. DeadTasks(s)' = DeadTasks(s) \cup {t}
    <3> HIDE DEF m, t
    <3>1. 1..(m + 1) = 1..m \cup {m + 1} /\ m + 1 \notin 1..m
      BY <2>2
    <3>2. DeadTasks(s)' = {dlq'[s][d].task : d \in 1..m \cup {m + 1}}
      BY <2>2, <3>1 DEF DeadTasks
    <3>3. DeadTasks(s) = {dlq'[s][d].task : d \in 1..m}
      BY <2>2 DEF DeadTasks
    <3> QED BY <2>2, <3>2, <3>3
  <2> HIDE DEF t
  <2> QED BY <1>7, <2>2, <2>3, <2>4, <2>5, <2>6
<1> QED BY <1>3, <1>4, <1>5, <1>6, <1>7 DEF StepEffect

LEMMA CopiesStep ==
  ASSUME QueueAssumption, TypeOK, TypeOK', AttemptsInOrder, AttemptsInOrder',
         AtMostOneCopy, DeadWereEnqueued, \A s \in Streams : StepEffect(s)
  PROVE  AtMostOneCopy' /\ DeadWereEnqueued'
<1> SUFFICES ASSUME NEW s \in Streams
             PROVE  /\ \A i, j \in Live(s)' : log'[s][i].task = log'[s][j].task => i = j
                    /\ \A d, e \in DOMAIN dlq'[s] : dlq'[s][d].task = dlq'[s][e].task => d = e
                    /\ LiveTasks(s)' \cap DeadTasks(s)' = {}
                    /\ DeadTasks(s)' \subseteq Enqueued(s)'
  BY DEF AtMostOneCopy, DeadWereEnqueued
<1>1. \A i, j \in Live(s)' : log'[s][i].task = log'[s][j].task => i = j
  <2>1. Live(s)' \subseteq Ids(s)' /\ Ids(s)' \subseteq Nat
    BY DEF Live, Ids
  <2> QED BY <2>1 DEF AttemptsInOrder
<1>2. /\ \A d, e \in DOMAIN dlq[s] : dlq[s][d].task = dlq[s][e].task => d = e
      /\ LiveTasks(s) \cap DeadTasks(s) = {}
      /\ DeadTasks(s) \subseteq Enqueued(s)
      /\ LiveTasks(s) \subseteq Enqueued(s)
  BY DEF AtMostOneCopy, DeadWereEnqueued, LiveTasks, Enqueued, Live
<1>3. CASE \/ Untouched(s) /\ Enqueued(s)' = Enqueued(s) /\ LiveTasks(s)' = LiveTasks(s)
           \/ Requeued(s) /\ Enqueued(s)' = Enqueued(s) /\ LiveTasks(s)' = LiveTasks(s)
  <2>1. dlq'[s] = dlq[s]
    BY <1>3 DEF Untouched, Requeued
  <2>2. DeadTasks(s)' = DeadTasks(s)
    BY <2>1 DEF DeadTasks
  <2> QED BY <1>1, <1>2, <1>3, <2>1, <2>2
<1>4. ASSUME Submitted(s) \/ Acked(s), DeadTasks(s)' = DeadTasks(s),
             NEW t \in LiveTasks(s) \cup (TasksOf[s] \ Enqueued(s)),
             \/ t \notin Enqueued(s) /\ Enqueued(s)' = Enqueued(s) \cup {t}
                                     /\ LiveTasks(s)' = LiveTasks(s) \cup {t}
             \/ Enqueued(s)' = Enqueued(s) /\ LiveTasks(s)' = LiveTasks(s) \ {t}
      PROVE  /\ \A d, e \in DOMAIN dlq'[s] : dlq'[s][d].task = dlq'[s][e].task => d = e
             /\ LiveTasks(s)' \cap DeadTasks(s)' = {}
             /\ DeadTasks(s)' \subseteq Enqueued(s)'
  <2>1. dlq'[s] = dlq[s]
    BY <1>4 DEF Submitted, Acked
  <2> QED BY <1>2, <1>4, <2>1
<1>5. ASSUME NEW t \in LiveTasks(s), Enqueued(s)' = Enqueued(s),
             LiveTasks(s)' = LiveTasks(s) \ {t}, DeadTasks(s)' = DeadTasks(s) \cup {t},
             dlq'[s] = Append(dlq[s], dlq'[s][Len(dlq[s]) + 1]),
             dlq'[s][Len(dlq[s]) + 1].task = t
      PROVE  /\ \A d, e \in DOMAIN dlq'[s] : dlq'[s][d].task = dlq'[s][e].task => d = e
             /\ LiveTasks(s)' \cap DeadTasks(s)' = {}
             /\ DeadTasks(s)' \subseteq Enqueued(s)'
  <2> DEFINE m == Len(dlq[s])
  <2>1. /\ dlq[s] \in Seq(Entry) /\ dlq'[s] \in Seq(Entry)
    BY DEF TypeOK, StreamsOK
  <2>2. /\ m \in Nat /\ DOMAIN dlq[s] = 1..m /\ DOMAIN dlq'[s] = 1..m \cup {m + 1}
        /\ \A k \in 1..m : dlq'[s][k] = dlq[s][k]
    BY <1>5, <2>1
  <2>3. \A k \in 1..m : dlq'[s][k].task # t
    BY <1>2, <1>5, <2>2 DEF DeadTasks
  <2>4. \A d, e \in DOMAIN dlq'[s] : dlq'[s][d].task = dlq'[s][e].task => d = e
    <3> HIDE DEF m
    <3>1. dlq'[s][m + 1].task = t
      BY <1>5 DEF m
    <3> QED BY <1>2, <2>2, <2>3, <3>1
  <2> QED BY <1>2, <1>5, <2>4
<1> QED BY <1>1, <1>3, <1>4, <1>5, TaskSetsStep

LEMMA NothingLostStep ==
  ASSUME QueueAssumption, TypeOK, TypeOK', AttemptsInOrder, NothingLost,
         \A s \in Streams : StepEffect(s)
  PROVE  NothingLost'
<1> SUFFICES ASSUME NEW s \in Streams
             PROVE  Enqueued(s)' \subseteq handled'[s] \cup LiveTasks(s)' \cup DeadTasks(s)'
  BY DEF NothingLost
<1>1. /\ Enqueued(s) \subseteq handled[s] \cup LiveTasks(s) \cup DeadTasks(s)
      /\ handled[s] \subseteq handled'[s]
  BY DEF NothingLost, StepEffect
<1> QED BY <1>1, TaskSetsStep

\* Attempts below the one a message carries were delivered, and stay so.
Delivered(s, t, n) ==
  \E k \in 1..last[s] : log[s][k].task = t /\ log[s][k].attempt = n

DeliveredNext(s, t, n) ==
  \E k \in 1..last'[s] : log'[s][k].task = t /\ log'[s][k].attempt = n

LEMMA DeliveredStays ==
  ASSUME QueueAssumption, TypeOK, TypeOK', NEW s \in Streams, StepEffect(s),
         NEW t, NEW n, Delivered(s, t, n)
  PROVE  DeliveredNext(s, t, n)
<1>1. PICK k \in 1..last[s] : log[s][k].task = t /\ log[s][k].attempt = n
  BY DEF Delivered
<1>2. log'[s][k] = log[s][k] /\ k \in 1..last'[s]
  BY <1>1, GrowthFacts
<1> QED BY <1>1, <1>2 DEF DeliveredNext

\* The attempt a retried message gets counts a delivered message as well.
LEMMA NextAttemptDelivered ==
  ASSUME QueueAssumption, TypeOK, EarlierAttemptsDelivered, NEW s \in Streams,
         NEW i \in 1..last[s], NEW n \in 0..log[s][i].attempt
  PROVE  Delivered(s, log[s][i].task, n)
<1>1. i \in Ids(s) /\ log[s] \in Seq(Entry) /\ i \in 1..Len(log[s])
  BY DEF TypeOK, StreamsOK, Ids
<1>2. log[s][i] \in Entry
  BY <1>1
<1>3. log[s][i].attempt \in Nat
  BY <1>2 DEF Entry
<1>4. CASE n = log[s][i].attempt
  BY <1>4 DEF Delivered
<1>5. CASE n # log[s][i].attempt
  <2>1. n \in 0..(log[s][i].attempt - 1)
    BY <1>3, <1>5
  <2> QED BY <1>1, <2>1 DEF EarlierAttemptsDelivered, Delivered
<1> QED BY <1>4, <1>5

LEMMA HistoryStep ==
  ASSUME QueueAssumption, TypeOK, TypeOK', EarlierAttemptsDelivered, DeadLettersJustified,
         AttemptsInOrder, \A s \in Streams : StepEffect(s)
  PROVE  EarlierAttemptsDelivered' /\ DeadLettersJustified'
<1> SUFFICES ASSUME NEW s \in Streams
             PROVE  /\ \A i \in 1..Len(log'[s]) : \A n \in 0..(log'[s][i].attempt - 1) :
                          DeliveredNext(s, log'[s][i].task, n)
                    /\ \A d \in DOMAIN dlq'[s] :
                         /\ \/ dlq'[s][d].kind = "permanent"
                            \/ dlq'[s][d].kind = "transient"
                                 /\ dlq'[s][d].attempt = MaxAttempts
                         /\ \A n \in 0..(dlq'[s][d].attempt - 1) :
                              DeliveredNext(s, dlq'[s][d].task, n)
  BY DEF EarlierAttemptsDelivered, DeadLettersJustified, Ids, DeliveredNext
<1>1. /\ log[s] \in Seq(Entry) /\ dlq[s] \in Seq(Entry)
      /\ Len(log[s]) \in Nat /\ Len(dlq[s]) \in Nat
      /\ StepEffect(s)
  BY DEF TypeOK, StreamsOK
<1>2. \A i \in 1..Len(log[s]) : \A n \in 0..(log[s][i].attempt - 1) :
        DeliveredNext(s, log[s][i].task, n)
  BY <1>1, DeliveredStays DEF EarlierAttemptsDelivered, Ids, Delivered
<1>3. \A d \in DOMAIN dlq[s] :
        /\ \/ dlq[s][d].kind = "permanent"
           \/ dlq[s][d].kind = "transient" /\ dlq[s][d].attempt = MaxAttempts
        /\ \A n \in 0..(dlq[s][d].attempt - 1) : DeliveredNext(s, dlq[s][d].task, n)
  BY <1>1, DeliveredStays DEF DeadLettersJustified, Delivered
<1>4. CASE Untouched(s) \/ Acked(s)
  <2>1. log'[s] = log[s] /\ dlq'[s] = dlq[s]
    BY <1>4 DEF Untouched, Acked
  <2> QED BY <1>2, <1>3, <2>1
<1>5. ASSUME NEW e \in Entry, log'[s] = Append(log[s], e), dlq'[s] = dlq[s],
             \A n \in 0..(e.attempt - 1) : DeliveredNext(s, e.task, n)
      PROVE  /\ \A i \in 1..Len(log'[s]) : \A n \in 0..(log'[s][i].attempt - 1) :
                   DeliveredNext(s, log'[s][i].task, n)
             /\ dlq'[s] = dlq[s]
  <2>1. /\ \A i \in 1..Len(log'[s]) : i \in 1..Len(log[s]) \/ i = Len(log[s]) + 1
        /\ \A i \in 1..Len(log[s]) : log'[s][i] = log[s][i]
        /\ log'[s][Len(log[s]) + 1] = e
    BY <1>1, <1>5, AppendFacts
  <2> QED BY <1>2, <1>5, <2>1
<1>6. CASE Submitted(s)
  <2>1. PICK t \in TasksOf[s] \ Enqueued(s) :
          /\ log'[s] = Append(log[s], [task |-> t, attempt |-> 0, kind |-> "none"])
          /\ dlq'[s] = dlq[s]
    BY <1>6 DEF Submitted
  <2>2. [task |-> t, attempt |-> 0, kind |-> "none"] \in Entry
    BY DEF Entry, Task, TasksOf, Streams
  <2>3. 0..(0 - 1) = {}
    OBVIOUS
  <2> QED BY <1>3, <1>5, <2>1, <2>2, <2>3
<1>7. ASSUME NEW i \in Live(s) \cap 1..last[s]
      PROVE  /\ log[s][i].attempt \in Nat /\ log[s][i].task \in Task
             /\ log[s][i].attempt < MaxAttempts
             /\ \A n \in 0..log[s][i].attempt : DeliveredNext(s, log[s][i].task, n)
  <2>1. i \in 1..Len(log[s])
    BY <1>7 DEF Live, Ids
  <2>2. log[s][i] \in Entry
    BY <1>1, <2>1
  <2>3. log[s][i].attempt < MaxAttempts
    BY <2>1 DEF AttemptsInOrder, Ids
  <2>4. \A n \in 0..log[s][i].attempt : DeliveredNext(s, log[s][i].task, n)
    BY <1>1, <1>7, NextAttemptDelivered, DeliveredStays
  <2> QED BY <2>2, <2>3, <2>4 DEF Entry
<1>8. CASE Requeued(s)
  <2>1. PICK i \in Live(s) \cap 1..last[s], r \in {"transient", "permanent"} :
          /\ log'[s] = Append(log[s], [task |-> log[s][i].task,
                                       attempt |-> log[s][i].attempt + 1, kind |-> r])
          /\ dlq'[s] = dlq[s]
    BY <1>8 DEF Requeued
  <2> DEFINE e == [task |-> log[s][i].task, attempt |-> log[s][i].attempt + 1, kind |-> r]
  <2>2. /\ e \in Entry /\ \A n \in 0..(e.attempt - 1) : DeliveredNext(s, e.task, n)
    BY <1>7, <2>1 DEF Entry
  <2> QED BY <1>3, <1>5, <2>1, <2>2
<1>9. CASE Buried(s)
  <2>1. PICK i \in Live(s) \cap 1..last[s], r \in {"transient", "permanent"} :
          /\ r = "permanent" \/ log[s][i].attempt + 1 >= MaxAttempts
          /\ log'[s] = log[s]
          /\ dlq'[s] = Append(dlq[s], [task |-> log[s][i].task,
                                       attempt |-> log[s][i].attempt + 1, kind |-> r])
    BY <1>9 DEF Buried
  <2> DEFINE e == [task |-> log[s][i].task, attempt |-> log[s][i].attempt + 1, kind |-> r]
  <2>2. /\ e \in Entry /\ \A n \in 0..(e.attempt - 1) : DeliveredNext(s, e.task, n)
        /\ \/ e.kind = "permanent"
           \/ e.kind = "transient" /\ e.attempt = MaxAttempts
    BY <1>7, <2>1 DEF Entry, QueueAssumption
  <2> HIDE DEF e
  <2>3. /\ DOMAIN dlq[s] = 1..Len(dlq[s])
        /\ DOMAIN dlq'[s] = 1..Len(dlq[s]) \cup {Len(dlq[s]) + 1}
        /\ \A d \in 1..Len(dlq[s]) : dlq'[s][d] = dlq[s][d]
        /\ dlq'[s][Len(dlq[s]) + 1] = e
    BY <1>1, <2>1, <2>2, AppendFacts DEF e
  <2> QED BY <1>2, <1>3, <2>1, <2>2, <2>3
<1> QED BY <1>4, <1>6, <1>8, <1>9, <1>1, <1>3 DEF StepEffect

-----------------------------------------------------------------------------
LEMMA InvInit == QueueAssumption /\ Init => QueueInv
<1> SUFFICES ASSUME QueueAssumption, Init PROVE QueueInv
  OBVIOUS
<1>1. TypeOK /\ Shape
  BY TypeInit
<1>2. \A s \in Streams : Ids(s) = {} /\ DOMAIN dlq[s] = {} /\ log[s] = << >>
  BY DEF Init, Ids
<1>3. \A s \in Streams : Enqueued(s) = {} /\ Live(s) = {} /\ LiveTasks(s) = {} /\ DeadTasks(s) = {}
  BY <1>2 DEF Enqueued, Live, LiveTasks, DeadTasks
<1>4. AckJustified
  BY DEF Init, AckJustified
<1> QED BY <1>1, <1>2, <1>3, <1>4
    DEF QueueInv, DeadWereEnqueued, NothingLost, AtMostOneCopy, AttemptsInOrder,
        EarlierAttemptsDelivered, DeadLettersJustified

LEMMA InvStep ==
  ASSUME QueueAssumption, QueueInv, [Next]_vars
  PROVE  QueueInv'
<1>1. TypeOK' /\ Shape'
  BY TypeStep DEF QueueInv
<1>2. \A s \in Streams : StepEffect(s)
  BY StepEffectHolds DEF QueueInv
<1>3. AckJustified'
  BY <1>1, <1>2, AckJustifiedStep DEF QueueInv
<1>4. AttemptsInOrder'
  BY <1>1, <1>2, AttemptsInOrderStep DEF QueueInv
<1>5. AtMostOneCopy' /\ DeadWereEnqueued'
  BY <1>1, <1>2, <1>4, CopiesStep DEF QueueInv
<1>6. NothingLost'
  BY <1>1, <1>2, NothingLostStep DEF QueueInv
<1>7. EarlierAttemptsDelivered' /\ DeadLettersJustified'
  BY <1>1, <1>2, HistoryStep DEF QueueInv
<1> QED BY <1>1, <1>3, <1>4, <1>5, <1>6, <1>7 DEF QueueInv

\* The conjunction the safety theorems rest on holds in every reachable state.
THEOREM Invariance == Spec => []QueueInv
<1>1. Init => QueueInv
  BY InvInit, QueueAssumption
<1>2. QueueInv /\ [Next]_vars => QueueInv'
  BY InvStep, QueueAssumption
<1> QED BY <1>1, <1>2, PTL DEF Spec

\* No task is ever lost: it is waiting or pending, dead, or its handler succeeded.
THEOREM QueueKeepsTasks == Spec => []NothingLost
<1>1. QueueInv => NothingLost
  BY DEF QueueInv
<1> QED BY <1>1, Invariance, PTL

\* A task never has two messages that could still be handled or are dead.
THEOREM QueueNeverCopies == Spec => []AtMostOneCopy
<1>1. QueueInv => AtMostOneCopy
  BY DEF QueueInv
<1> QED BY <1>1, Invariance, PTL

\* Attempt numbers grow along the stream, stay below the maximum, and only the
\* newest message of a task may be live.
THEOREM QueueCountsAttempts == Spec => []AttemptsInOrder
<1>1. QueueInv => AttemptsInOrder
  BY DEF QueueInv
<1> QED BY <1>1, Invariance, PTL

\* Nothing is dead before its attempts are used up or its error is permanent.
THEOREM QueueBuriesLast == Spec => []DeadLettersJustified
<1>1. QueueInv => DeadLettersJustified
  BY DEF QueueInv
<1> QED BY <1>1, Invariance, PTL

-----------------------------------------------------------------------------
(* The size of the streams. *)

\* A function that tells the members of a finite set apart does not shrink it.
LEMMA Injects ==
  ASSUME NEW S, NEW T, NEW f \in [S -> T], IsFiniteSet(T),
         \A x, y \in S : f[x] = f[y] => x = y
  PROVE  IsFiniteSet(S) /\ Cardinality(S) <= Cardinality(T)
<1>1. f \in Injection(S, T)
  BY DEF Injection, IsInjective
<1> QED BY <1>1, FS_Injection

\* Each message of a stream has a task and an attempt of its own.
LEMMA LogBounded ==
  ASSUME QueueInv, QueueAssumption, NEW s \in Streams
  PROVE  /\ IsFiniteSet(Enqueued(s))
         /\ Len(log[s]) <= MaxAttempts * Cardinality(Enqueued(s))
<1> DEFINE attempts == 0..(MaxAttempts - 1)
           tag == [i \in Ids(s) |-> <<log[s][i].task, log[s][i].attempt>>]
           tasks == [i \in Ids(s) |-> log[s][i].task]
<1>1. /\ MaxAttempts \in Nat \ {0} /\ Len(log[s]) \in Nat
      /\ \A i \in Ids(s) : log[s][i] \in Entry
  BY DEF QueueInv, TypeOK, StreamsOK, QueueAssumption, Ids
<1>2. IsFiniteSet(Ids(s)) /\ Cardinality(Ids(s)) = Len(log[s])
  <2>1. 1 \in Int /\ Len(log[s]) \in Int
    BY <1>1
  <2>2. /\ IsFiniteSet(1..Len(log[s]))
        /\ Cardinality(1..Len(log[s]))
             = IF 1 > Len(log[s]) THEN 0 ELSE Len(log[s]) - 1 + 1
    BY <2>1, FS_Interval
  <2> QED BY <2>2, <1>1 DEF Ids
<1>3. IsFiniteSet(Enqueued(s))
  <2>1. tasks \in Surjection(Ids(s), Enqueued(s))
    BY DEF Enqueued, Surjection
  <2> HIDE DEF tasks
  <2> QED BY <2>1, <1>2, FS_Surjection
<1>4. IsFiniteSet(attempts) /\ Cardinality(attempts) = MaxAttempts
  <2>1. 0 \in Int /\ MaxAttempts - 1 \in Int
    BY <1>1
  <2>2. /\ IsFiniteSet(attempts)
        /\ Cardinality(attempts)
             = IF 0 > MaxAttempts - 1 THEN 0 ELSE MaxAttempts - 1 - 0 + 1
    BY <2>1, FS_Interval
  <2> QED BY <2>2, <1>1
<1>5. \A i \in Ids(s) : log[s][i].task \in Enqueued(s) /\ log[s][i].attempt \in attempts
  <2>1. \A i \in Ids(s) : log[s][i].attempt \in Nat /\ log[s][i].attempt < MaxAttempts
    BY <1>1 DEF QueueInv, AttemptsInOrder, Entry
  <2> QED BY <2>1, <1>1 DEF Enqueued
<1>6. \A i, j \in Ids(s) :
        log[s][i].task = log[s][j].task /\ log[s][i].attempt = log[s][j].attempt => i = j
  <2>1. \A i, j \in Ids(s) : i < j /\ log[s][i].task = log[s][j].task
                               => log[s][i].attempt < log[s][j].attempt
    BY DEF QueueInv, AttemptsInOrder
  <2>2. \A i \in Ids(s) : i \in Nat /\ log[s][i].attempt \in Nat
    BY <1>1 DEF Ids, Entry
  <2> QED BY <2>1, <2>2
<1> HIDE DEF attempts
<1>7. tag \in [Ids(s) -> Enqueued(s) \X attempts]
  BY <1>5
<1>8. \A i, j \in Ids(s) : tag[i] = tag[j] => i = j
  BY <1>6
<1> HIDE DEF tag
<1>9. /\ IsFiniteSet(Enqueued(s) \X attempts)
      /\ Cardinality(Enqueued(s) \X attempts) = Cardinality(Enqueued(s)) * MaxAttempts
  BY <1>3, <1>4, FS_Product
<1>10. Cardinality(Ids(s)) <= Cardinality(Enqueued(s) \X attempts)
  BY <1>7, <1>8, <1>9, Injects
<1>11. Cardinality(Enqueued(s)) \in Nat
  BY <1>3, FS_CardinalityType
<1> QED BY <1>1, <1>2, <1>3, <1>9, <1>10, <1>11

\* Each live message and each dead letter has a task of its own.
LEMMA LiveAndDeadBounded ==
  ASSUME QueueInv, NEW s \in Streams, IsFiniteSet(Enqueued(s))
  PROVE  Cardinality(Live(s)) + Len(dlq[s]) <= Cardinality(Enqueued(s))
<1> DEFINE live == [i \in Live(s) |-> log[s][i].task]
           places == 1..Len(dlq[s])
           dead == [d \in places |-> dlq[s][d].task]
<1>1. /\ LiveTasks(s) \subseteq Enqueued(s) /\ DeadTasks(s) \subseteq Enqueued(s)
      /\ LiveTasks(s) \cap DeadTasks(s) = {}
  BY DEF QueueInv, AtMostOneCopy, DeadWereEnqueued, LiveTasks, Live, Enqueued
<1>2. /\ IsFiniteSet(LiveTasks(s)) /\ IsFiniteSet(DeadTasks(s))
      /\ IsFiniteSet(LiveTasks(s) \cup DeadTasks(s))
  BY <1>1, FS_Subset
<1>3. DOMAIN dlq[s] = places /\ Len(dlq[s]) \in Nat
  BY DEF QueueInv, TypeOK, StreamsOK
<1>4. IsFiniteSet(Live(s)) /\ Cardinality(Live(s)) <= Cardinality(LiveTasks(s))
  <2>1. live \in [Live(s) -> LiveTasks(s)]
    BY DEF LiveTasks
  <2>2. \A i, j \in Live(s) : live[i] = live[j] => i = j
    BY DEF QueueInv, AtMostOneCopy
  <2> HIDE DEF live
  <2> QED BY <2>1, <2>2, <1>2, Injects
<1>5. Cardinality(places) <= Cardinality(DeadTasks(s))
  <2>1. dead \in [places -> DeadTasks(s)]
    BY <1>3 DEF DeadTasks
  <2>2. \A d, e \in places : dead[d] = dead[e] => d = e
    BY <1>3 DEF QueueInv, AtMostOneCopy
  <2> HIDE DEF dead, places
  <2> QED BY <2>1, <2>2, <1>2, Injects
<1>6. Cardinality(places) = Len(dlq[s])
  <2>1. 1 \in Int /\ Len(dlq[s]) \in Int
    BY <1>3
  <2>2. Cardinality(places) = IF 1 > Len(dlq[s]) THEN 0 ELSE Len(dlq[s]) - 1 + 1
    BY <2>1, FS_Interval
  <2> QED BY <2>2, <1>3
<1>7. Cardinality(LiveTasks(s)) + Cardinality(DeadTasks(s)) <= Cardinality(Enqueued(s))
  <2>1. Cardinality(LiveTasks(s) \cup DeadTasks(s))
          = Cardinality(LiveTasks(s)) + Cardinality(DeadTasks(s)) - Cardinality({})
    BY <1>1, <1>2, FS_Union
  <2>2. Cardinality(LiveTasks(s) \cup DeadTasks(s)) <= Cardinality(Enqueued(s))
    BY <1>1, FS_Subset
  <2>3. Cardinality({}) = 0
    BY FS_EmptySet
  <2>4. Cardinality(LiveTasks(s)) \in Nat /\ Cardinality(DeadTasks(s)) \in Nat
    BY <1>2, FS_CardinalityType
  <2> QED BY <2>1, <2>2, <2>3, <2>4
<1>8. /\ Cardinality(Live(s)) \in Nat /\ Cardinality(LiveTasks(s)) \in Nat
      /\ Cardinality(DeadTasks(s)) \in Nat /\ Cardinality(Enqueued(s)) \in Nat
  BY <1>2, <1>4, FS_CardinalityType
<1> QED BY <1>3, <1>4, <1>5, <1>6, <1>7, <1>8

\* The streams stay within MaxAttempts messages per task, for any workers, faults
\* and any number of claims: neither a retry nor a late copy adds one too many.
THEOREM StreamsStayBounded == Spec => []StreamsBounded
<1>1. QueueInv => StreamsBounded
  BY QueueAssumption, LogBounded, LiveAndDeadBounded DEF StreamsBounded
<1> QED BY <1>1, Invariance, PTL

-----------------------------------------------------------------------------
(* Each stream implements the ledger of its tasks. *)

\* A stream carries the tasks enqueued to it and no others.
OwnTasks == \A s \in Streams : Enqueued(s) \subseteq TasksOf[s]

\* A worker settles its message by something its handler may return.
Returned == \A w \in Workers : pc[w] \in Results => pc[w] \in Outcomes

\* The attempt of a live message is the number of requeues of its task.
CountsAgree ==
  \A s \in Streams : \A t \in TasksOf[s] : \A i \in Live(s) :
    log[s][i].task = t => Requeues(s, t) = log[s][i].attempt

LedgerInv == QueueInv /\ OwnTasks /\ Returned /\ CountsAgree

LEMMA RequeuesAppend ==
  ASSUME TypeOK, NEW s \in Streams, NEW e \in Entry, log'[s] = Append(log[s], e), NEW t
  PROVE  /\ Requeues(s, t) \in Nat
         /\ Requeues(s, t)' = IF e.task = t /\ e.attempt > 0
                              THEN Requeues(s, t) + 1 ELSE Requeues(s, t)
<1> DEFINE n == Len(log[s])
           old == {i \in Ids(s) : log[s][i].task = t /\ log[s][i].attempt > 0}
           new == {i \in Ids(s)' : log'[s][i].task = t /\ log'[s][i].attempt > 0}
<1>1. /\ n \in Nat /\ Len(log'[s]) = n + 1 /\ log'[s][n + 1] = e
      /\ \A i \in 1..n : log'[s][i] = log[s][i]
  BY AppendFacts DEF TypeOK, StreamsOK
<1>2. Ids(s) = 1..n /\ Ids(s)' = 1..n \cup {n + 1} /\ n + 1 \notin 1..n
  BY <1>1 DEF Ids
<1>3. IsFiniteSet(old) /\ Cardinality(old) \in Nat
  <2>1. IsFiniteSet(1..n)
    BY <1>1, FS_Interval
  <2> QED BY <1>2, <2>1, FS_Subset, FS_CardinalityType
<1>4. Requeues(s, t) = Cardinality(old) /\ Requeues(s, t)' = Cardinality(new)
  BY DEF Requeues
<1> HIDE DEF n
<1>5. new = IF e.task = t /\ e.attempt > 0 THEN old \cup {n + 1} ELSE old
  BY <1>1, <1>2
<1>6. n + 1 \notin old
  BY <1>2
<1> HIDE DEF old, new
<1> QED BY <1>3, <1>4, <1>5, <1>6, FS_AddElement

LEMMA RequeuesSame ==
  ASSUME NEW s \in Streams, log'[s] = log[s], NEW t
  PROVE  Requeues(s, t)' = Requeues(s, t)
  BY DEF Requeues, Ids

LEMMA RequeuesNone ==
  ASSUME NEW s \in Streams, NEW t, t \notin Enqueued(s)
  PROVE  Requeues(s, t) = 0
<1>1. {i \in Ids(s) : log[s][i].task = t /\ log[s][i].attempt > 0} = {}
  BY DEF Enqueued
<1> QED BY <1>1, FS_EmptySet DEF Requeues

LEMMA OwnTasksStep ==
  ASSUME QueueAssumption, LedgerInv, TypeOK', \A s \in Streams : StepEffect(s)
  PROVE  OwnTasks'
<1> SUFFICES ASSUME NEW s \in Streams PROVE Enqueued(s)' \subseteq TasksOf[s]
  BY DEF OwnTasks
<1>1. Enqueued(s) \subseteq TasksOf[s] /\ TypeOK /\ AttemptsInOrder
  BY DEF LedgerInv, OwnTasks, QueueInv
<1>2. \/ Enqueued(s)' = Enqueued(s)
      \/ \E t \in TasksOf[s] : Enqueued(s)' = Enqueued(s) \cup {t}
  BY <1>1, TaskSetsStep
<1> QED BY <1>1, <1>2

LEMMA ReturnedStep ==
  ASSUME TypeOK, Returned, [Next]_vars
  PROVE  Returned'
<1> SUFFICES ASSUME NEW w \in Workers, pc'[w] \in Results PROVE pc'[w] \in Outcomes
  BY DEF Returned
<1>1. ASSUME NEW v \in Workers, NEW ids, Proceed(v, ids) PROVE pc'[w] = pc[w]
  BY <1>1 DEF Proceed, TypeOK, Results
<1>2. ASSUME NEW v \in Workers, Disturb(v) PROVE pc'[w] = pc[w]
  BY <1>1, <1>2 DEF Disturb, StartFails, Stop, ClaimLost, ReadLost, FetchFails, SettleFails,
                    workerVars, TypeOK, Results
<1>3. ASSUME NEW v \in Workers,
             Start(v) \/ ClaimPending(v) \/ ReadNew(v) \/ Ack(v) \/ RetryOrDLQ(v)
      PROVE  pc'[w] = pc[w]
  BY <1>1, <1>3 DEF Start, ClaimPending, ReadNew, Ack, RetryOrDLQ, TypeOK, Results
<1>4. ASSUME NEW v \in Workers, NEW r \in Outcomes, HandlerReturns(v, r)
      PROVE  pc'[w] = pc[w] \/ pc'[w] \in Outcomes
  BY <1>4 DEF HandlerReturns, TypeOK
<1>5. ASSUME \/ UNCHANGED vars
             \/ \E s \in Streams : \E t \in TasksOf[s] : Enqueue(s, t)
             \/ \E s \in Streams : \E i \in pending[s] : Age(s, i)
      PROVE  pc'[w] = pc[w]
  BY <1>5 DEF Enqueue, Age, vars, workerVars
<1>6. pc'[w] = pc[w] \/ pc'[w] \in Outcomes
  BY <1>2, <1>3, <1>4, <1>5 DEF Next, Work
<1> QED BY <1>6 DEF Returned

LEMMA CountsAgreeStep ==
  ASSUME QueueAssumption, LedgerInv, TypeOK', \A s \in Streams : StepEffect(s)
  PROVE  CountsAgree'
<1> SUFFICES ASSUME NEW s \in Streams, NEW u \in TasksOf[s], NEW j \in Live(s)',
                    log'[s][j].task = u
             PROVE  Requeues(s, u)' = log'[s][j].attempt
  BY DEF CountsAgree
<1> DEFINE n == Len(log[s])
<1>1. /\ n \in Nat /\ log[s] \in Seq(Entry) /\ TypeOK
      /\ \A k \in 1..n : log[s][k] \in Entry
      /\ \A k \in 1..n : log'[s][k] = log[s][k]
      /\ Live(s) \subseteq 1..n
  BY GrowthFacts DEF LedgerInv, QueueInv, Live, Ids, TypeOK, StreamsOK
<1>2. \A i \in Live(s) : log[s][i].task = u => Requeues(s, u) = log[s][i].attempt
  BY DEF LedgerInv, CountsAgree
<1>3. CASE Untouched(s) \/ Acked(s) \/ Buried(s)
  <2>1. log'[s] = log[s] /\ j \in Live(s)
    BY <1>3 DEF Untouched, Acked, Buried
  <2> QED BY <1>2, <2>1, RequeuesSame
<1>4. CASE Submitted(s)
  <2>1. PICK t \in TasksOf[s] \ Enqueued(s) :
          /\ log'[s] = Append(log[s], [task |-> t, attempt |-> 0, kind |-> "none"])
          /\ Live(s)' = Live(s) \cup {n + 1}
    BY <1>4 DEF Submitted
  <2> DEFINE e == [task |-> t, attempt |-> 0, kind |-> "none"]
  <2>2. e \in Entry /\ e.task = t /\ e.attempt = 0 /\ log'[s] = Append(log[s], e)
    BY <2>1 DEF Entry, Task, TasksOf, Streams
  <2> HIDE DEF e
  <2>3. log'[s][n + 1] = e
    BY <1>1, <2>2, AppendFacts
  <2>4. Requeues(s, u)' = Requeues(s, u)
    BY <1>1, <2>2, RequeuesAppend
  <2>5. CASE j \in Live(s)
    BY <1>1, <1>2, <2>4, <2>5
  <2>6. CASE j = n + 1
    BY <2>1, <2>2, <2>3, <2>4, <2>6, RequeuesNone
  <2> QED BY <2>1, <2>5, <2>6
<1>5. CASE Requeued(s)
  <2>1. PICK h \in Live(s) \cap 1..last[s], r \in {"transient", "permanent"} :
          /\ log[s][h].attempt + 1 < MaxAttempts
          /\ log'[s] = Append(log[s], [task |-> log[s][h].task,
                                       attempt |-> log[s][h].attempt + 1, kind |-> r])
          /\ Live(s)' = (Live(s) \ {h}) \cup {n + 1}
    BY <1>5 DEF Requeued
  <2> DEFINE e == [task |-> log[s][h].task, attempt |-> log[s][h].attempt + 1, kind |-> r]
  <2>2. /\ e \in Entry /\ e.task = log[s][h].task /\ e.attempt = log[s][h].attempt + 1
        /\ log'[s] = Append(log[s], e) /\ h \in Live(s) /\ log[s][h].attempt \in Nat
    BY <1>1, <2>1 DEF Entry
  <2> HIDE DEF e
  <2>3. log'[s][n + 1] = e
    BY <1>1, <2>2, AppendFacts
  <2>4. Requeues(s, u)' = IF e.task = u THEN Requeues(s, u) + 1 ELSE Requeues(s, u)
    BY <1>1, <2>2, RequeuesAppend
  <2>5. CASE j \in Live(s) \ {h}
    <3>1. log[s][j].task # e.task
      BY <2>2, <2>5 DEF LedgerInv, QueueInv, AtMostOneCopy
    <3> QED BY <1>1, <1>2, <2>4, <2>5, <3>1
  <2>6. CASE j = n + 1
    BY <1>2, <2>2, <2>3, <2>4, <2>6
  <2> QED BY <2>1, <2>5, <2>6
<1> QED BY <1>3, <1>4, <1>5 DEF StepEffect

LEMMA LedgerInit == QueueAssumption /\ Init => LedgerInv
<1> SUFFICES ASSUME QueueAssumption, Init PROVE LedgerInv
  OBVIOUS
<1>1. QueueInv
  BY InvInit
<1>2. \A s \in Streams : Ids(s) = {}
  BY DEF Init, Ids
<1>3. OwnTasks /\ Returned /\ CountsAgree
  BY <1>2 DEF Init, OwnTasks, Enqueued, Returned, Results, CountsAgree, Live
<1> QED BY <1>1, <1>3 DEF LedgerInv

LEMMA LedgerInvStep ==
  ASSUME QueueAssumption, LedgerInv, [Next]_vars
  PROVE  LedgerInv'
<1>1. QueueInv'
  BY InvStep DEF LedgerInv
<1>2. \A s \in Streams : StepEffect(s)
  BY StepEffectHolds DEF LedgerInv, QueueInv
<1>3. OwnTasks' /\ CountsAgree'
  BY <1>1, <1>2, OwnTasksStep, CountsAgreeStep DEF LedgerInv, QueueInv
<1>4. Returned'
  BY ReturnedStep DEF LedgerInv, QueueInv
<1> QED BY <1>1, <1>3, <1>4 DEF LedgerInv

LEMMA LedgerInvariance == Spec => []LedgerInv
<1>1. Init => LedgerInv
  BY QueueAssumption, LedgerInit
<1>2. LedgerInv /\ [Next]_vars => LedgerInv'
  BY QueueAssumption, LedgerInvStep
<1> QED BY <1>1, <1>2, PTL DEF Spec

\* The ledger of a stream as functions of its tasks.
PhaseOf(s) == [t \in TasksOf[s] |-> Phase(s, t)]

RequeuesOf(s) == [t \in TasksOf[s] |-> Requeues(s, t)]

\* The ledger of one stream takes a step of TaskLedger, or none.
LedgerMoves(s) ==
  \/ UNCHANGED <<PhaseOf(s), RequeuesOf(s), handled[s]>>
  \/ \E t \in TasksOf[s] :
       \/ /\ PhaseOf(s)[t] = "absent" /\ PhaseOf(s)' = [PhaseOf(s) EXCEPT ![t] = "queued"]
          /\ UNCHANGED <<RequeuesOf(s), handled[s]>>
       \/ /\ "ok" \in Outcomes /\ PhaseOf(s)[t] # "absent"
          /\ handled'[s] = handled[s] \cup {t}
          /\ UNCHANGED <<PhaseOf(s), RequeuesOf(s)>>
       \/ /\ PhaseOf(s)[t] = "queued" /\ t \in handled[s]
          /\ PhaseOf(s)' = [PhaseOf(s) EXCEPT ![t] = "done"]
          /\ UNCHANGED <<RequeuesOf(s), handled[s]>>
       \/ /\ PhaseOf(s)[t] = "queued" /\ RequeuesOf(s)[t] + 1 < MaxAttempts
          /\ RequeuesOf(s)' = [RequeuesOf(s) EXCEPT ![t] = @ + 1]
          /\ UNCHANGED <<PhaseOf(s), handled[s]>>
       \/ /\ PhaseOf(s)[t] = "queued"
          /\ "permanent" \in Outcomes \/ RequeuesOf(s)[t] + 1 = MaxAttempts
          /\ PhaseOf(s)' = [PhaseOf(s) EXCEPT ![t] = "dead"]
          /\ UNCHANGED <<RequeuesOf(s), handled[s]>>

\* Only a handler that returns nil adds to the history, and it changes nothing else.
LEMMA HandledStep ==
  ASSUME TypeOK, [Next]_vars, NEW s \in Streams
  PROVE  \/ handled'[s] = handled[s]
         \/ /\ "ok" \in Outcomes /\ log' = log /\ dlq' = dlq /\ Untouched(s)
            /\ \E t \in Enqueued(s) : handled'[s] = handled[s] \cup {t}
<1>1. ASSUME NEW w \in Workers, NEW r \in Outcomes, HandlerReturns(w, r)
      PROVE  \/ handled'[s] = handled[s]
             \/ /\ "ok" \in Outcomes /\ log' = log /\ dlq' = dlq /\ Untouched(s)
                /\ \E t \in Enqueued(s) : handled'[s] = handled[s] \cup {t}
  <2> DEFINE z == StreamOf[stage[w]]
  <2>1. PICK i \in First(batch[w]) :
          handled' = IF r = "ok" THEN [handled EXCEPT ![z] = @ \cup {log[z][i].task}]
                     ELSE handled
    BY <1>1 DEF HandlerReturns
  <2>2. z \in Streams /\ i \in 1..last[z] /\ handled \in [Streams -> SUBSET Task]
    BY StageFacts DEF TypeOK, First
  <2>3. log' = log /\ dlq' = dlq /\ Untouched(s)
    BY <1>1, SameStreams DEF HandlerReturns, streamVars
  <2>4. CASE s = z /\ r = "ok"
    <3>1. log[z][i].task \in Enqueued(s)
      BY <2>2, <2>4 DEF Enqueued, Ids, TypeOK, StreamsOK
    <3> QED BY <2>1, <2>2, <2>3, <2>4, <3>1
  <2>5. CASE s # z \/ r # "ok"
    BY <2>1, <2>2, <2>5
  <2> QED BY <2>4, <2>5
<1>2. ASSUME NEW w \in Workers,
             \/ Start(w) \/ ClaimPending(w) \/ ReadNew(w) \/ Ack(w) \/ RetryOrDLQ(w)
             \/ Disturb(w)
      PROVE  handled'[s] = handled[s]
  BY <1>2 DEF Start, ClaimPending, ReadNew, Ack, RetryOrDLQ, Disturb, StartFails, Stop,
              ClaimLost, ReadLost, FetchFails, SettleFails
<1>3. ASSUME \/ UNCHANGED vars
             \/ \E r \in Streams : \E t \in TasksOf[r] : Enqueue(r, t)
             \/ \E r \in Streams : \E i \in pending[r] : Age(r, i)
      PROVE  handled'[s] = handled[s]
  BY <1>3 DEF Enqueue, Age, vars
<1> QED BY <1>1, <1>2, <1>3 DEF Next, Work

\* A dead letter records what a handler has returned.
LEMMA DeadKind ==
  ASSUME TypeOK, Returned, [Next]_vars, NEW s \in Streams, NEW e \in Entry,
         dlq'[s] = Append(dlq[s], e)
  PROVE  e.kind \in Outcomes
<1>1. /\ dlq \in [Streams -> Seq(Entry)] /\ dlq'[s] # dlq[s]
      /\ dlq'[s][Len(dlq[s]) + 1] = e
  BY AppendFacts DEF TypeOK, StreamsOK
<1>2. PICK w \in Workers : RetryOrDLQ(w)
  <2>1. dlq' # dlq
    BY <1>1
  <2>2. \A w \in Workers :
          ~(Start(w) \/ ClaimPending(w) \/ ReadNew(w) \/ Ack(w) \/ Disturb(w))
    BY <2>1 DEF Start, ClaimPending, ReadNew, Ack, Disturb, StartFails, Stop, ClaimLost,
                ReadLost, FetchFails, SettleFails, streamVars
  <2>3. \A w \in Workers, r \in Outcomes : ~HandlerReturns(w, r)
    BY <2>1 DEF HandlerReturns, streamVars
  <2>4. ~UNCHANGED vars /\ (\A r \in Streams : \A t \in TasksOf[r] : ~Enqueue(r, t))
          /\ (\A r \in Streams : \A i \in pending[r] : ~Age(r, i))
    BY <2>1 DEF vars, Enqueue, Age
  <2> QED BY <2>2, <2>3, <2>4 DEF Next, Work
<1> DEFINE z == StreamOf[stage[w]]
<1>3. PICK i \in First(batch[w]) :
        AckAndAdd(z, i, ToDLQ(pc[w], log[z][i].attempt + 1),
          [task |-> log[z][i].task, attempt |-> log[z][i].attempt + 1, kind |-> pc[w]])
  BY <1>2 DEF RetryOrDLQ
<1> DEFINE x == [task |-> log[z][i].task, attempt |-> log[z][i].attempt + 1, kind |-> pc[w]]
<1>4. dlq' = [dlq EXCEPT ![z] = Append(@, x)]
  BY <1>1, <1>3 DEF AckAndAdd
<1>5. z \in Streams /\ pc[w] \in {"transient", "permanent"} /\ i \in 1..last[z]
  BY <1>2, StageFacts DEF RetryOrDLQ, TypeOK, First
<1>6. x \in Entry
  <2>1. i \in 1..Len(log[z]) /\ log[z] \in Seq(Entry)
    BY <1>5 DEF TypeOK, StreamsOK
  <2>2. log[z][i] \in Entry
    BY <2>1
  <2> QED BY <1>5, <2>2 DEF Entry
<1> HIDE DEF x
<1>7. s = z /\ dlq'[s] = Append(dlq[s], x)
  BY <1>1, <1>4, <1>5
<1>8. x = e
  BY <1>1, <1>6, <1>7, AppendFacts
<1> QED BY <1>5, <1>8 DEF x, Returned, Results

LEMMA LedgerStep ==
  ASSUME QueueAssumption, LedgerInv, LedgerInv', [Next]_vars, NEW s \in Streams
  PROVE  LedgerMoves(s)
<1>1. /\ TypeOK /\ TypeOK' /\ AttemptsInOrder /\ AtMostOneCopy /\ StepEffect(s)
      /\ Returned /\ CountsAgree /\ Enqueued(s) \subseteq TasksOf[s]
  BY StepEffectHolds DEF LedgerInv, QueueInv, OwnTasks
<1>2. /\ LiveTasks(s) \subseteq Enqueued(s) /\ DeadTasks(s) \subseteq Enqueued(s)
      /\ LiveTasks(s) \cap DeadTasks(s) = {}
  BY DEF LedgerInv, QueueInv, AtMostOneCopy, DeadWereEnqueued, LiveTasks, Enqueued, Live
<1>3. /\ LiveTasks(s)' \subseteq Enqueued(s)' /\ DeadTasks(s)' \subseteq Enqueued(s)'
      /\ LiveTasks(s)' \cap DeadTasks(s)' = {}
  BY DEF LedgerInv, QueueInv, AtMostOneCopy, DeadWereEnqueued, LiveTasks, Enqueued, Live
<1>4. \A t : Phase(s, t) = IF t \in LiveTasks(s) THEN "queued"
                           ELSE IF t \in DeadTasks(s) THEN "dead"
                           ELSE IF t \in Enqueued(s) THEN "done" ELSE "absent"
  BY <1>2 DEF Phase
<1>5. \A t : Phase(s, t)' = IF t \in LiveTasks(s)' THEN "queued"
                            ELSE IF t \in DeadTasks(s)' THEN "dead"
                            ELSE IF t \in Enqueued(s)' THEN "done" ELSE "absent"
  BY <1>3 DEF Phase
<1>6. ASSUME log'[s] = log[s] PROVE RequeuesOf(s)' = RequeuesOf(s)
  BY <1>6, RequeuesSame DEF RequeuesOf
<1>7. ASSUME ~Untouched(s) PROVE handled'[s] = handled[s]
  BY <1>1, <1>7, HandledStep
<1>8. CASE Untouched(s)
  <2>1. PhaseOf(s)' = PhaseOf(s)
    BY <1>4, <1>5, <1>8 DEF PhaseOf, Untouched, Enqueued, LiveTasks, DeadTasks, Ids
  <2>2. RequeuesOf(s)' = RequeuesOf(s)
    BY <1>6, <1>8 DEF Untouched
  <2>3. \A t \in Enqueued(s) : t \in TasksOf[s] /\ PhaseOf(s)[t] # "absent"
    BY <1>1, <1>4 DEF PhaseOf
  <2> QED BY <1>1, <2>1, <2>2, <2>3, HandledStep DEF LedgerMoves
<1>9. ASSUME ~Untouched(s), Submitted(s), NEW t \in TasksOf[s] \ Enqueued(s),
             Enqueued(s)' = Enqueued(s) \cup {t}, LiveTasks(s)' = LiveTasks(s) \cup {t},
             DeadTasks(s)' = DeadTasks(s)
      PROVE  LedgerMoves(s)
  <2>1. PhaseOf(s)[t] = "absent" /\ PhaseOf(s)' = [PhaseOf(s) EXCEPT ![t] = "queued"]
    BY <1>2, <1>4, <1>5, <1>9 DEF PhaseOf
  <2>2. PICK u \in TasksOf[s] :
          log'[s] = Append(log[s], [task |-> u, attempt |-> 0, kind |-> "none"])
    BY <1>9 DEF Submitted
  <2> DEFINE e == [task |-> u, attempt |-> 0, kind |-> "none"]
  <2>3. e \in Entry /\ ~(e.attempt > 0)
    BY DEF Entry, Task, TasksOf, Streams
  <2>4. log'[s] = Append(log[s], e)
    BY <2>2
  <2> HIDE DEF e
  <2>5. RequeuesOf(s)' = RequeuesOf(s)
    BY <1>1, <2>3, <2>4, RequeuesAppend DEF RequeuesOf
  <2> QED BY <1>7, <1>9, <2>1, <2>5 DEF LedgerMoves
<1>10. ASSUME ~Untouched(s), Acked(s), NEW t \in LiveTasks(s) \cap handled[s],
              Enqueued(s)' = Enqueued(s), LiveTasks(s)' = LiveTasks(s) \ {t},
              DeadTasks(s)' = DeadTasks(s)
       PROVE  LedgerMoves(s)
  <2>1. /\ t \in TasksOf[s] /\ PhaseOf(s)[t] = "queued"
        /\ PhaseOf(s)' = [PhaseOf(s) EXCEPT ![t] = "done"]
    BY <1>1, <1>2, <1>4, <1>5, <1>10 DEF PhaseOf
  <2>2. RequeuesOf(s)' = RequeuesOf(s)
    BY <1>6, <1>10 DEF Acked
  <2> QED BY <1>7, <1>10, <2>1, <2>2 DEF LedgerMoves
<1>11. ASSUME ~Untouched(s), Requeued(s), Enqueued(s)' = Enqueued(s),
              LiveTasks(s)' = LiveTasks(s), DeadTasks(s)' = DeadTasks(s)
       PROVE  LedgerMoves(s)
  <2>1. PhaseOf(s)' = PhaseOf(s)
    BY <1>4, <1>5, <1>11 DEF PhaseOf
  <2>2. PICK h \in Live(s) \cap 1..last[s], r \in {"transient", "permanent"} :
          /\ log[s][h].attempt + 1 < MaxAttempts
          /\ log'[s] = Append(log[s], [task |-> log[s][h].task,
                                       attempt |-> log[s][h].attempt + 1, kind |-> r])
    BY <1>11 DEF Requeued
  <2> DEFINE t == log[s][h].task
             e == [task |-> t, attempt |-> log[s][h].attempt + 1, kind |-> r]
  <2>3. /\ t \in LiveTasks(s) /\ log[s][h] \in Entry
    BY <2>2, <1>1 DEF LiveTasks, Live, Ids, TypeOK, StreamsOK
  <2>4. e \in Entry /\ e.task = t /\ e.attempt > 0 /\ log'[s] = Append(log[s], e)
    BY <2>2, <2>3 DEF Entry
  <2>5. t \in TasksOf[s] /\ PhaseOf(s)[t] = "queued" /\ Requeues(s, t) = log[s][h].attempt
    BY <1>1, <1>2, <1>4, <2>2, <2>3 DEF PhaseOf, CountsAgree
  <2> HIDE DEF t, e
  <2>6. RequeuesOf(s)' = [RequeuesOf(s) EXCEPT ![t] = @ + 1]
    <3>1. \A u \in TasksOf[s] :
            Requeues(s, u)' = IF u = t THEN Requeues(s, u) + 1 ELSE Requeues(s, u)
      BY <1>1, <2>4, RequeuesAppend
    <3> QED BY <2>5, <3>1 DEF RequeuesOf
  <2>7. RequeuesOf(s)[t] + 1 < MaxAttempts
    BY <2>2, <2>5 DEF RequeuesOf
  <2> QED BY <1>7, <1>11, <2>1, <2>5, <2>6, <2>7 DEF LedgerMoves
<1>12. ASSUME ~Untouched(s), Buried(s), NEW t \in LiveTasks(s), Enqueued(s)' = Enqueued(s),
              LiveTasks(s)' = LiveTasks(s) \ {t}, DeadTasks(s)' = DeadTasks(s) \cup {t},
              dlq'[s][Len(dlq[s]) + 1].task = t
       PROVE  LedgerMoves(s)
  <2>1. /\ t \in TasksOf[s] /\ PhaseOf(s)[t] = "queued"
        /\ PhaseOf(s)' = [PhaseOf(s) EXCEPT ![t] = "dead"]
    BY <1>1, <1>2, <1>4, <1>5, <1>12 DEF PhaseOf
  <2>2. PICK i \in Live(s) \cap 1..last[s], r \in {"transient", "permanent"} :
          /\ r = "permanent" \/ log[s][i].attempt + 1 >= MaxAttempts
          /\ log'[s] = log[s]
          /\ dlq'[s] = Append(dlq[s], [task |-> log[s][i].task,
                                       attempt |-> log[s][i].attempt + 1, kind |-> r])
    BY <1>12 DEF Buried
  <2> DEFINE e == [task |-> log[s][i].task, attempt |-> log[s][i].attempt + 1, kind |-> r]
  <2>3. /\ i \in Ids(s) /\ log[s][i] \in Entry /\ log[s][i].attempt \in Nat
        /\ log[s][i].attempt < MaxAttempts
    <3>1. i \in Ids(s) /\ log[s][i] \in Entry
      BY <2>2, <1>1 DEF Live, Ids, TypeOK, StreamsOK
    <3> QED BY <3>1, <1>1 DEF AttemptsInOrder, Entry
  <2>4. e \in Entry /\ e.kind = r /\ e.task = log[s][i].task /\ dlq'[s] = Append(dlq[s], e)
    BY <2>2, <2>3 DEF Entry
  <2> HIDE DEF e
  <2>5. dlq'[s][Len(dlq[s]) + 1] = e
    BY <1>1, <2>4, AppendFacts DEF TypeOK, StreamsOK
  <2>6. Requeues(s, t) = log[s][i].attempt
    BY <1>1, <1>12, <2>1, <2>2, <2>4, <2>5 DEF CountsAgree
  <2>7. "permanent" \in Outcomes \/ RequeuesOf(s)[t] + 1 = MaxAttempts
    <3>1. CASE r = "permanent"
      BY <1>1, <2>4, <3>1, DeadKind
    <3>2. CASE log[s][i].attempt + 1 >= MaxAttempts
      BY <2>1, <2>3, <2>6, <3>2, QueueAssumption DEF RequeuesOf, QueueAssumption
    <3> QED BY <2>2, <3>1, <3>2
  <2>8. RequeuesOf(s)' = RequeuesOf(s)
    BY <1>6, <2>2
  <2> QED BY <1>7, <1>12, <2>1, <2>7, <2>8 DEF LedgerMoves
<1> QED BY <1>1, <1>8, <1>9, <1>10, <1>11, <1>12, TaskSetsStep

\* The parse stream keeps the promises of the ledger, which SourceParsing relies on:
\* a task is done only after a success, dead only from the queue and never again.
THEOREM ParseStreamIsLedger == Spec => ParseLedgerSpec
<1>1. Init => ParseLedger!Init
  <2> SUFFICES ASSUME Init PROVE ParseLedger!Init
    OBVIOUS
  <2>1. /\ Ids("parse_jobs") = {} /\ DOMAIN dlq["parse_jobs"] = {}
        /\ handled["parse_jobs"] = {}
    BY DEF Init, Ids, Streams
  <2>2. /\ Enqueued("parse_jobs") = {} /\ LiveTasks("parse_jobs") = {}
        /\ DeadTasks("parse_jobs") = {}
    BY <2>1 DEF Enqueued, LiveTasks, DeadTasks, Live
  <2>3. \A t : Phase("parse_jobs", t) = "absent" /\ Requeues("parse_jobs", t) = 0
    BY <2>2, RequeuesNone DEF Phase, Streams
  <2> QED BY <2>1, <2>3 DEF ParseLedger!Init
<1>2. LedgerInv /\ LedgerInv' /\ [Next]_vars => [ParseLedger!Next]_(ParseLedger!ledger)
  <2> SUFFICES ASSUME LedgerInv, LedgerInv', [Next]_vars
               PROVE  [ParseLedger!Next]_(ParseLedger!ledger)
    OBVIOUS
  <2>1. LedgerMoves("parse_jobs")
    BY QueueAssumption, LedgerStep DEF Streams
  <2> DEFINE P == [t \in ParseTasks |-> Phase("parse_jobs", t)]
             R == [t \in ParseTasks |-> Requeues("parse_jobs", t)]
             H == handled["parse_jobs"]
  <2>2. /\ TasksOf["parse_jobs"] = ParseTasks
        /\ PhaseOf("parse_jobs") = P /\ RequeuesOf("parse_jobs") = R
        /\ PhaseOf("parse_jobs")' = P' /\ RequeuesOf("parse_jobs")' = R'
    BY DEF TasksOf, PhaseOf, RequeuesOf
  <2>3. \/ UNCHANGED <<P, R, H>>
        \/ \E t \in ParseTasks :
             \/ P[t] = "absent" /\ P' = [P EXCEPT ![t] = "queued"] /\ UNCHANGED <<R, H>>
             \/ "ok" \in Outcomes /\ P[t] # "absent" /\ H' = H \cup {t} /\ UNCHANGED <<P, R>>
             \/ /\ P[t] = "queued" /\ t \in H
                /\ P' = [P EXCEPT ![t] = "done"] /\ UNCHANGED <<R, H>>
             \/ /\ P[t] = "queued" /\ R[t] + 1 < MaxAttempts
                /\ R' = [R EXCEPT ![t] = @ + 1] /\ UNCHANGED <<P, H>>
             \/ /\ P[t] = "queued" /\ ("permanent" \in Outcomes \/ R[t] + 1 = MaxAttempts)
                /\ P' = [P EXCEPT ![t] = "dead"] /\ UNCHANGED <<R, H>>
    <3> HIDE DEF P, R
    <3> QED BY <2>1, <2>2 DEF LedgerMoves
  <2> QED BY <2>3
      DEF ParseLedger!ledger, ParseLedger!Next, ParseLedger!Submit, ParseLedger!Succeed,
          ParseLedger!Complete, ParseLedger!Requeue, ParseLedger!Bury
<1> QED BY <1>1, <1>2, LedgerInvariance, PTL DEF Spec, ParseLedgerSpec, ParseLedger!Spec

\* So does the gen stream, which is what CardGeneration takes from the queue:
\* a task is done only after a success, dead only from the queue and never again.
THEOREM GenStreamIsLedger == Spec => GenLedgerSpec
<1>1. Init => GenLedger!Init
  <2> SUFFICES ASSUME Init PROVE GenLedger!Init
    OBVIOUS
  <2>1. /\ Ids("gen_jobs") = {} /\ DOMAIN dlq["gen_jobs"] = {}
        /\ handled["gen_jobs"] = {}
    BY DEF Init, Ids, Streams
  <2>2. /\ Enqueued("gen_jobs") = {} /\ LiveTasks("gen_jobs") = {}
        /\ DeadTasks("gen_jobs") = {}
    BY <2>1 DEF Enqueued, LiveTasks, DeadTasks, Live
  <2>3. \A t : Phase("gen_jobs", t) = "absent" /\ Requeues("gen_jobs", t) = 0
    BY <2>2, RequeuesNone DEF Phase, Streams
  <2> QED BY <2>1, <2>3 DEF GenLedger!Init
<1>2. LedgerInv /\ LedgerInv' /\ [Next]_vars => [GenLedger!Next]_(GenLedger!ledger)
  <2> SUFFICES ASSUME LedgerInv, LedgerInv', [Next]_vars
               PROVE  [GenLedger!Next]_(GenLedger!ledger)
    OBVIOUS
  <2>1. LedgerMoves("gen_jobs")
    BY QueueAssumption, LedgerStep DEF Streams
  <2> DEFINE P == [t \in GenTasks |-> Phase("gen_jobs", t)]
             R == [t \in GenTasks |-> Requeues("gen_jobs", t)]
             H == handled["gen_jobs"]
  <2>2. /\ TasksOf["gen_jobs"] = GenTasks
        /\ PhaseOf("gen_jobs") = P /\ RequeuesOf("gen_jobs") = R
        /\ PhaseOf("gen_jobs")' = P' /\ RequeuesOf("gen_jobs")' = R'
    BY DEF TasksOf, PhaseOf, RequeuesOf
  <2>3. \/ UNCHANGED <<P, R, H>>
        \/ \E t \in GenTasks :
             \/ P[t] = "absent" /\ P' = [P EXCEPT ![t] = "queued"] /\ UNCHANGED <<R, H>>
             \/ "ok" \in Outcomes /\ P[t] # "absent" /\ H' = H \cup {t} /\ UNCHANGED <<P, R>>
             \/ /\ P[t] = "queued" /\ t \in H
                /\ P' = [P EXCEPT ![t] = "done"] /\ UNCHANGED <<R, H>>
             \/ /\ P[t] = "queued" /\ R[t] + 1 < MaxAttempts
                /\ R' = [R EXCEPT ![t] = @ + 1] /\ UNCHANGED <<P, H>>
             \/ /\ P[t] = "queued" /\ ("permanent" \in Outcomes \/ R[t] + 1 = MaxAttempts)
                /\ P' = [P EXCEPT ![t] = "dead"] /\ UNCHANGED <<R, H>>
    <3> HIDE DEF P, R
    <3> QED BY <2>1, <2>2 DEF LedgerMoves
  <2> QED BY <2>3
      DEF GenLedger!ledger, GenLedger!Next, GenLedger!Submit, GenLedger!Succeed,
          GenLedger!Complete, GenLedger!Requeue, GenLedger!Bury
<1> QED BY <1>1, <1>2, LedgerInvariance, PTL DEF Spec, GenLedgerSpec, GenLedger!Spec

\* Both at once: whatever the workers do to one stream is nothing to the other.
THEOREM StreamsAreLedgers == Spec => LedgerSpecs
  BY ParseStreamIsLedger, GenStreamIsLedger, PTL DEF LedgerSpecs
=============================================================================
