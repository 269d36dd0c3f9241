------------------------- MODULE Deployment_proofs -------------------------
(***************************************************************************)
(* The deployment implements the application over ledgers, for any number  *)
(* of sources, jobs, workers, faults and messages in a batch; and so what  *)
(* is proved of the application holds of it.                               *)
(*                                                                         *)
(* Three facts carry the refinement.  A message counts no more attempts    *)
(* than its task has requeues (AttemptsCounted), so that whoever reads one *)
(* that is no longer live has an old copy of the ledger, or one of a task  *)
(* that is settled.  A message still live is the only one of its task and  *)
(* counts all of them (CopyIsLive).  And a worker whose handler is busy    *)
(* has its task from the first message of its batch (HandSound).           *)
(***************************************************************************)
EXTENDS Deployment, StreamQueue_proofs

-----------------------------------------------------------------------------
(* The ledger of a stream, seen from one message and from one queue action. *)

\* The ledger of a stream is left alone by what leaves its messages alone.
LEMMA LedgerStays ==
  ASSUME NEW s \in Streams, Untouched(s)
  PROVE  PhaseOf(s)' = PhaseOf(s) /\ RequeuesOf(s)' = RequeuesOf(s)
<1>1. /\ Enqueued(s)' = Enqueued(s) /\ LiveTasks(s)' = LiveTasks(s)
      /\ DeadTasks(s)' = DeadTasks(s)
  BY DEF Untouched, Enqueued, LiveTasks, DeadTasks, Ids
<1>2. \A t : Requeues(s, t)' = Requeues(s, t)
  BY RequeuesSame DEF Untouched
<1> QED BY <1>1, <1>2 DEF PhaseOf, RequeuesOf, Phase

LEMMA PhaseCases ==
  ASSUME LedgerInv, NEW s \in Streams, NEW t
  PROVE  Phase(s, t) = IF t \in LiveTasks(s) THEN "queued"
                       ELSE IF t \in DeadTasks(s) THEN "dead"
                       ELSE IF t \in Enqueued(s) THEN "done" ELSE "absent"
<1>1. /\ LiveTasks(s) \subseteq Enqueued(s) /\ DeadTasks(s) \subseteq Enqueued(s)
      /\ LiveTasks(s) \cap DeadTasks(s) = {}
  BY DEF LedgerInv, QueueInv, AtMostOneCopy, DeadWereEnqueued, LiveTasks, Enqueued, Live
<1> QED BY <1>1 DEF Phase

\* A message counts no more attempts than its task has requeues: for each of
\* them an earlier message of the task is in the stream.
LEMMA AttemptsCounted ==
  ASSUME LedgerInv, NEW s \in Streams, NEW i \in Ids(s)
  PROVE  /\ log[s][i].attempt \in Nat
         /\ Requeues(s, log[s][i].task) \in Nat
         /\ log[s][i].attempt <= Requeues(s, log[s][i].task)
<1> DEFINE t == log[s][i].task
           a == log[s][i].attempt
           again == {k \in Ids(s) : log[s][k].task = t /\ log[s][k].attempt > 0}
           of == [n \in 1..a |-> CHOOSE k \in Ids(s) : log[s][k].task = t /\ log[s][k].attempt = n]
<1>1. /\ log[s] \in Seq(Entry) /\ Ids(s) = 1..Len(log[s]) /\ last[s] \in Nat
      /\ last[s] <= Len(log[s]) /\ Len(log[s]) \in Nat
  BY DEF LedgerInv, QueueInv, TypeOK, StreamsOK, Ids
<1>2. a \in Nat
  <2>1. log[s][i] \in Entry
    BY <1>1
  <2> QED BY <2>1 DEF Entry
<1>3. \A n \in 1..a : \E k \in Ids(s) : log[s][k].task = t /\ log[s][k].attempt = n
  <2> SUFFICES ASSUME NEW n \in 1..a
               PROVE  \E k \in Ids(s) : log[s][k].task = t /\ log[s][k].attempt = n
    OBVIOUS
  <2>1. CASE n = a
    BY <2>1
  <2>2. CASE n # a
    <3>1. n \in 0..(a - 1)
      BY <2>2, <1>2
    <3>2. \E k \in 1..last[s] : log[s][k].task = t /\ log[s][k].attempt = n
      BY <3>1 DEF LedgerInv, QueueInv, EarlierAttemptsDelivered
    <3>3. 1..last[s] \subseteq Ids(s)
      BY <1>1
    <3> QED BY <3>2, <3>3
  <2> QED BY <2>1, <2>2
<1>4. \A n \in 1..a : of[n] \in Ids(s) /\ log[s][of[n]].task = t /\ log[s][of[n]].attempt = n
  BY <1>3
<1> HIDE DEF of
<1>5. of \in [1..a -> again]
  <2>1. \A n \in 1..a : n > 0
    BY <1>2
  <2>2. of = [n \in 1..a |-> of[n]]
    BY DEF of
  <2> QED BY <1>4, <2>1, <2>2
<1>6. \A m, n \in 1..a : of[m] = of[n] => m = n
  BY <1>4
<1>7. IsFiniteSet(again) /\ Cardinality(again) \in Nat
  <2>1. again \subseteq 1..Len(log[s])
    BY <1>1
  <2>2. IsFiniteSet(1..Len(log[s]))
    BY <1>1, FS_Interval
  <2> QED BY <2>1, <2>2, FS_Subset, FS_CardinalityType
<1>8. Cardinality(1..a) = a
  BY <1>2, FS_Interval
<1> HIDE DEF again, a, t
<1>9. Cardinality(1..a) <= Cardinality(again)
  BY <1>5, <1>6, <1>7, Injects
<1> QED BY <1>2, <1>7, <1>8, <1>9 DEF Requeues, again, a, t

\* A message of a stream is live exactly if it is the copy its ledger knows.
LEMMA CopyIsLive ==
  ASSUME LedgerInv, NEW s \in Streams, NEW i \in Ids(s)
  PROVE  LET t == log[s][i].task
             a == log[s][i].attempt
         IN  /\ t \in TasksOf[s] /\ a \in Nat /\ a < MaxAttempts
             /\ Phase(s, t) # "absent"
             /\ Requeues(s, t) \in Nat /\ a <= Requeues(s, t)
             /\ i \in Live(s) <=> Phase(s, t) = "queued" /\ Requeues(s, t) = a
<1> DEFINE t == log[s][i].task
           a == log[s][i].attempt
<1>1. t \in Enqueued(s) /\ t \in TasksOf[s]
  BY DEF LedgerInv, OwnTasks, Enqueued
<1>2. a \in Nat /\ Requeues(s, t) \in Nat /\ a <= Requeues(s, t)
  BY AttemptsCounted
<1>3. a < MaxAttempts
  BY DEF LedgerInv, QueueInv, AttemptsInOrder
<1>4. Phase(s, t) # "absent" /\ (Phase(s, t) = "queued" <=> t \in LiveTasks(s))
  BY <1>1, PhaseCases
<1>5. ASSUME i \in Live(s) PROVE t \in LiveTasks(s) /\ Requeues(s, t) = a
  BY <1>1, <1>5 DEF LiveTasks, LedgerInv, CountsAgree
<1>6. ASSUME t \in LiveTasks(s), Requeues(s, t) = a PROVE i \in Live(s)
  <2>1. PICK j \in Live(s) : log[s][j].task = t
    BY <1>6 DEF LiveTasks
  <2>2. j \in Ids(s) /\ log[s][j].attempt = a
    BY <1>1, <1>6, <2>1 DEF Live, LedgerInv, CountsAgree
  <2>3. \A k, l \in Ids(s) : k < l /\ log[s][k].task = log[s][l].task =>
           log[s][k].attempt < log[s][l].attempt
    BY DEF LedgerInv, QueueInv, AttemptsInOrder
  <2>4. ~(a < a) /\ i \in Int /\ j \in Int
    BY <1>2, <2>2 DEF Ids
  <2>5. ~(i < j) /\ ~(j < i)
    BY <2>1, <2>2, <2>3, <2>4
  <2>6. i = j
    BY <2>4, <2>5
  <2> QED BY <2>1, <2>6
<1> HIDE DEF t, a
<1>7. i \in Live(s) <=> Phase(s, t) = "queued" /\ Requeues(s, t) = a
  BY <1>4, <1>5, <1>6
<1> QED BY <1>1, <1>2, <1>3, <1>4, <1>7 DEF t, a

\* What holds of the message a worker has in its hands.
LEMMA InBatch ==
  ASSUME TypeOK, NEW w \in Workers, NEW i \in First(batch[w])
  PROVE  LET s == StreamOf[stage[w]]
         IN  /\ s \in Streams /\ i \in Ids(s) /\ i \in 1..last[s] /\ i \in batch[w]
             /\ i \in Live(s) <=> i \in pending[s]
  BY StageFacts DEF TypeOK, StreamsOK, First, Ids, Live

\* XADD of a new task, seen from the ledgers.
LEMMA EnqueueEffect ==
  ASSUME QueueAssumption, LedgerInv, LedgerInv', NEW s \in Streams, NEW t \in TasksOf[s],
         Enqueue(s, t)
  PROVE  /\ handled' = handled
         /\ \A r \in Streams \ {s} : PhaseOf(r)' = PhaseOf(r) /\ RequeuesOf(r)' = RequeuesOf(r)
         /\ PhaseOf(s)[t] = "absent"
         /\ PhaseOf(s)' = [PhaseOf(s) EXCEPT ![t] = "queued"]
         /\ RequeuesOf(s)' = RequeuesOf(s)
<1>1. /\ handled' = handled /\ dlq' = dlq /\ last' = last /\ pending' = pending
      /\ t \notin Enqueued(s)
  BY DEF Enqueue
<1>2. log \in [Streams -> Seq(Entry)]
  BY DEF LedgerInv, QueueInv, TypeOK, StreamsOK
<1>3. ASSUME NEW r \in Streams \ {s}
      PROVE  PhaseOf(r)' = PhaseOf(r) /\ RequeuesOf(r)' = RequeuesOf(r)
  <2>1. Untouched(r)
    BY <1>1, <1>2 DEF Enqueue, Untouched, Live, Ids
  <2> QED BY <2>1, LedgerStays
<1>4. PhaseOf(s)[t] = "absent"
  BY <1>1, PhaseCases DEF PhaseOf, LedgerInv, QueueInv, DeadWereEnqueued, LiveTasks, Enqueued, Live
<1>5. t \in Enqueued(s)'
  <2> DEFINE e == [task |-> t, attempt |-> 0, kind |-> "none"]
  <2>1. e \in Entry /\ log'[s] = Append(log[s], e)
    BY <1>2 DEF Enqueue, Entry, Task, TasksOf, Streams
  <2>2. e.task = t
    OBVIOUS
  <2> HIDE DEF e
  <2>3. log'[s][Len(log[s]) + 1] = e /\ Len(log[s]) + 1 \in 1..Len(log'[s])
    BY <1>2, <2>1, AppendFacts
  <2> QED BY <2>2, <2>3 DEF Enqueued, Ids
<1>6. Phase(s, t)' # "absent"
  <2>1. t \in LiveTasks(s)' \/ t \in DeadTasks(s)' \/ t \in Enqueued(s)'
    BY <1>5
  <2> QED BY <2>1 DEF Phase
<1>7. PhaseOf(s)'[t] # "absent"
  BY <1>6 DEF PhaseOf
<1>8. LedgerMoves(s)
  BY QueueAssumption, LedgerStep DEF Next
<1>9. PhaseOf(s) = [u \in TasksOf[s] |-> PhaseOf(s)[u]]
  BY DEF PhaseOf
<1> QED BY <1>1, <1>3, <1>4, <1>7, <1>8, <1>9 DEF LedgerMoves

\* An entry that is acknowledged or moved leaves the other stream alone, and one
\* that is not pending any more both.
LEMMA OthersStay ==
  ASSUME TypeOK, NEW s \in Streams, NEW r \in Streams \ {s}, last' = last,
         \/ pending' = pending
         \/ \E i : pending' = [pending EXCEPT ![s] = @ \ {i}],
         \/ log' = log
         \/ \E e : log' = [log EXCEPT ![s] = Append(@, e)],
         \/ dlq' = dlq
         \/ \E e : dlq' = [dlq EXCEPT ![s] = Append(@, e)]
  PROVE  PhaseOf(r)' = PhaseOf(r) /\ RequeuesOf(r)' = RequeuesOf(r)
<1>1. log'[r] = log[r] /\ dlq'[r] = dlq[r] /\ pending'[r] = pending[r] /\ last'[r] = last[r]
  BY DEF TypeOK, StreamsOK
<1>2. Untouched(r)
  BY <1>1 DEF Untouched, Live, Ids
<1> QED BY <1>2, LedgerStays

\* XACK, seen from the ledgers.
LEMMA AckEffect ==
  ASSUME QueueAssumption, LedgerInv, LedgerInv', NEW w \in Workers, Ack(w),
         NEW i \in First(batch[w]), NEW s, s = StreamOf[stage[w]],
         NEW t, t = log[s][i].task
  PROVE  /\ handled' = handled
         /\ \A r \in Streams \ {s} : PhaseOf(r)' = PhaseOf(r) /\ RequeuesOf(r)' = RequeuesOf(r)
         /\ IF i \in Live(s)
            THEN /\ PhaseOf(s)[t] = "queued" /\ t \in handled[s]
                 /\ PhaseOf(s)' = [PhaseOf(s) EXCEPT ![t] = "done"]
                 /\ RequeuesOf(s)' = RequeuesOf(s)
            ELSE PhaseOf(s)' = PhaseOf(s) /\ RequeuesOf(s)' = RequeuesOf(s)
<1>0. TypeOK /\ TypeOK' /\ pending \in [Streams -> SUBSET Nat]
  BY DEF LedgerInv, QueueInv, TypeOK, StreamsOK
<1>1. /\ s \in Streams /\ i \in Ids(s) /\ i \in 1..last[s]
      /\ i \in Live(s) <=> i \in pending[s]
  BY <1>0, InBatch
<1>2. /\ handled' = handled /\ log' = log /\ dlq' = dlq /\ last' = last
      /\ pending' = [pending EXCEPT ![s] = @ \ {i}]
  <2>1. PICK j \in First(batch[w]) : Acknowledge(s, j)
    BY DEF Ack
  <2>2. j = i
    BY <1>0, <2>1, FirstUnique DEF TypeOK
  <2> QED BY <2>1, <2>2 DEF Ack, Acknowledge
<1>3. \A r \in Streams \ {s} : PhaseOf(r)' = PhaseOf(r) /\ RequeuesOf(r)' = RequeuesOf(r)
  BY <1>0, <1>1, <1>2, OthersStay
<1>4. CASE i \notin Live(s)
  <2>1. pending'[s] = pending[s]
    BY <1>0, <1>1, <1>2, <1>4
  <2>2. Untouched(s)
    BY <1>2, <2>1 DEF Untouched, Live, Ids
  <2> QED BY <1>2, <1>3, <1>4, <2>2, <1>1, LedgerStays
<1>5. CASE i \in Live(s)
  <2>1. t \in LiveTasks(s) /\ t \in TasksOf[s] /\ Phase(s, t) = "queued"
    BY <1>1, <1>5, CopyIsLive DEF LiveTasks
  <2>2. \A k, l \in Live(s) : log[s][k].task = log[s][l].task => k = l
    BY <1>1 DEF LedgerInv, QueueInv, AtMostOneCopy
  <2>3. Live(s)' = Live(s) \ {i}
    <3>1. pending'[s] = pending[s] \ {i}
      BY <1>0, <1>1, <1>2
    <3>2. ~(i > last[s])
      BY <1>0, <1>1 DEF TypeOK, StreamsOK
    <3> QED BY <1>2, <3>1, <3>2 DEF Live, Ids
  <2>4. t \notin LiveTasks(s)'
    BY <1>2, <1>5, <2>2, <2>3 DEF LiveTasks
  <2>5. t \notin DeadTasks(s)' /\ t \in Enqueued(s)'
    <3>1. t \notin DeadTasks(s)
      BY <1>1, <2>1 DEF LedgerInv, QueueInv, AtMostOneCopy
    <3> QED BY <1>1, <1>2, <3>1 DEF DeadTasks, Enqueued, Ids
  <2>6. Phase(s, t)' = "done"
    BY <2>4, <2>5 DEF Phase
  <2>7. PhaseOf(s)[t] = "queued" /\ PhaseOf(s)'[t] = "done"
    BY <2>1, <2>6 DEF PhaseOf
  <2>8. LedgerMoves(s)
    BY <1>1, QueueAssumption, LedgerStep DEF Next, Work
  <2>9. PhaseOf(s) = [u \in TasksOf[s] |-> PhaseOf(s)[u]]
    BY DEF PhaseOf
  <2>10. /\ t \in handled[s] /\ PhaseOf(s)' = [PhaseOf(s) EXCEPT ![t] = "done"]
         /\ RequeuesOf(s)' = RequeuesOf(s)
    BY <2>1, <2>7, <2>8, <2>9 DEF LedgerMoves
  <2> QED BY <1>2, <1>3, <1>5, <2>7, <2>10
<1> QED BY <1>4, <1>5

\* The script of RetryOrDLQ, seen from the ledgers.
LEMMA RetryEffect ==
  ASSUME QueueAssumption, LedgerInv, LedgerInv', NEW w \in Workers, RetryOrDLQ(w),
         NEW i \in First(batch[w]), NEW s, s = StreamOf[stage[w]],
         NEW t, t = log[s][i].task
  PROVE  /\ handled' = handled
         /\ \A r \in Streams \ {s} : PhaseOf(r)' = PhaseOf(r) /\ RequeuesOf(r)' = RequeuesOf(r)
         /\ IF i \in Live(s)
            THEN /\ PhaseOf(s)[t] = "queued"
                 /\ \/ /\ RequeuesOf(s)[t] + 1 < MaxAttempts
                       /\ RequeuesOf(s)' = [RequeuesOf(s) EXCEPT ![t] = @ + 1]
                       /\ PhaseOf(s)' = PhaseOf(s)
                    \/ /\ "permanent" \in Outcomes \/ RequeuesOf(s)[t] + 1 = MaxAttempts
                       /\ PhaseOf(s)' = [PhaseOf(s) EXCEPT ![t] = "dead"]
                       /\ RequeuesOf(s)' = RequeuesOf(s)
            ELSE PhaseOf(s)' = PhaseOf(s) /\ RequeuesOf(s)' = RequeuesOf(s)
<1> DEFINE n == log[s][i].attempt + 1
           e == [task |-> t, attempt |-> n, kind |-> pc[w]]
<1>0. /\ TypeOK /\ TypeOK' /\ log \in [Streams -> Seq(Entry)] /\ dlq \in [Streams -> Seq(Entry)]
      /\ pending \in [Streams -> SUBSET Nat]
  BY DEF LedgerInv, QueueInv, TypeOK, StreamsOK
<1>1. /\ s \in Streams /\ i \in Ids(s) /\ i \in 1..last[s]
      /\ i \in Live(s) <=> i \in pending[s]
  BY <1>0, InBatch
<1>2. /\ AckAndAdd(s, i, ToDLQ(pc[w], n), e) /\ handled' = handled /\ last' = last
      /\ pc[w] \in {"transient", "permanent"}
  <2>1. PICK j \in First(batch[w]) :
          AckAndAdd(s, j, ToDLQ(pc[w], log[s][j].attempt + 1),
            [task |-> log[s][j].task, attempt |-> log[s][j].attempt + 1, kind |-> pc[w]])
    BY DEF RetryOrDLQ
  <2>2. j = i
    BY <1>0, <2>1, FirstUnique DEF TypeOK
  <2> QED BY <2>1, <2>2 DEF RetryOrDLQ
<1>3. e \in Entry /\ e.task = t /\ e.attempt > 0
  <2>1. t \in TasksOf[s] /\ log[s][i].attempt \in Nat
    BY <1>1, CopyIsLive
  <2>2. t \in Task
    BY <1>1, <2>1 DEF Task, TasksOf, Streams
  <2> QED BY <1>2, <2>1, <2>2 DEF Entry
<1> HIDE DEF e
<1>4. \A r \in Streams \ {s} : PhaseOf(r)' = PhaseOf(r) /\ RequeuesOf(r)' = RequeuesOf(r)
  BY <1>0, <1>1, <1>2, OthersStay DEF AckAndAdd, Acknowledge
<1>5. CASE i \notin Live(s)
  <2>1. log' = log /\ dlq' = dlq /\ pending' = pending
    BY <1>1, <1>2, <1>5 DEF AckAndAdd
  <2>2. Untouched(s)
    BY <1>1, <1>2, <2>1, SameStreams
  <2> QED BY <1>1, <1>2, <1>4, <1>5, <2>2, LedgerStays
<1>6. CASE i \in Live(s)
  <2>1. t \in LiveTasks(s) /\ t \in TasksOf[s] /\ Phase(s, t) = "queued"
    BY <1>1, <1>6, CopyIsLive DEF LiveTasks
  <2>2. PhaseOf(s)[t] = "queued" /\ PhaseOf(s) = [u \in TasksOf[s] |-> PhaseOf(s)[u]]
    BY <2>1 DEF PhaseOf
  <2>3. LedgerMoves(s)
    BY <1>1, QueueAssumption, LedgerStep DEF Next, Work
  <2>4. CASE ToDLQ(pc[w], n)
    <3>1. dlq' = [dlq EXCEPT ![s] = Append(@, e)]
      BY <1>1, <1>2, <1>6, <2>4 DEF AckAndAdd
    <3>2. dlq'[s] = Append(dlq[s], e) /\ dlq[s] \in Seq(Entry)
      BY <1>0, <1>1, <3>1
    <3>3. /\ dlq'[s][Len(dlq[s]) + 1] = e /\ Len(dlq[s]) + 1 \in 1..Len(dlq'[s])
          /\ dlq'[s] \in Seq(Entry)
      BY <1>3, <3>2, AppendFacts
    <3>4. t \in DeadTasks(s)'
      BY <1>3, <3>3 DEF DeadTasks
    <3>5. Phase(s, t)' = "dead"
      <4>1. t \notin LiveTasks(s)'
        BY <1>1, <3>4 DEF LedgerInv, QueueInv, AtMostOneCopy
      <4> QED BY <3>4, <4>1 DEF Phase
    <3>6. PhaseOf(s)'[t] = "dead"
      BY <2>1, <3>5 DEF PhaseOf
    <3>7. /\ "permanent" \in Outcomes \/ RequeuesOf(s)[t] + 1 = MaxAttempts
          /\ PhaseOf(s)' = [PhaseOf(s) EXCEPT ![t] = "dead"]
          /\ RequeuesOf(s)' = RequeuesOf(s)
      BY <2>1, <2>2, <2>3, <3>6 DEF LedgerMoves
    <3> QED BY <1>2, <1>4, <1>6, <2>2, <3>7
  <2>5. CASE ~ToDLQ(pc[w], n)
    <3>1. log' = [log EXCEPT ![s] = Append(@, e)]
      BY <1>1, <1>2, <1>6, <2>5 DEF AckAndAdd
    <3>2. log'[s] = Append(log[s], e)
      BY <1>0, <1>1, <3>1
    <3>3. Requeues(s, t) \in Nat /\ Requeues(s, t)' = Requeues(s, t) + 1
      BY <1>0, <1>1, <1>3, <3>2, RequeuesAppend
    <3>4. RequeuesOf(s)[t] \in Nat /\ RequeuesOf(s)'[t] = RequeuesOf(s)[t] + 1
      BY <2>1, <3>3 DEF RequeuesOf
    <3>5. RequeuesOf(s) = [u \in TasksOf[s] |-> RequeuesOf(s)[u]]
      BY DEF RequeuesOf
    <3>6. RequeuesOf(s)' # RequeuesOf(s)
      BY <3>4
    <3>7. /\ RequeuesOf(s)[t] + 1 < MaxAttempts
          /\ RequeuesOf(s)' = [RequeuesOf(s) EXCEPT ![t] = @ + 1]
          /\ PhaseOf(s)' = PhaseOf(s)
      <4>1. PICK u \in TasksOf[s] :
              /\ RequeuesOf(s)[u] + 1 < MaxAttempts
              /\ RequeuesOf(s)' = [RequeuesOf(s) EXCEPT ![u] = @ + 1]
              /\ PhaseOf(s)' = PhaseOf(s)
        BY <2>3, <3>6 DEF LedgerMoves
      <4>2. u # t => RequeuesOf(s)'[t] = RequeuesOf(s)[t]
        BY <2>1, <3>5, <4>1
      <4>3. u = t
        BY <3>4, <4>2
      <4> QED BY <4>1, <4>3
    <3> QED BY <1>2, <1>4, <1>6, <2>2, <3>7
  <2> QED BY <2>4, <2>5
<1> QED BY <1>5, <1>6

-----------------------------------------------------------------------------
(* The steps of the deployment are steps of the queue. *)

LEMMA QueueStep ==
  ASSUME DeploymentAssumption, [AppNext]_appVars
  PROVE  [Next]_vars
<1>1. Outcomes = {"ok", "transient"}
  BY DEF DeploymentAssumption
<1>2. ASSUME NEW s \in ParseTasks, UploadCall(s) \/ UploadEnqueue(s) PROVE [Next]_vars
  <2>1. "parse_jobs" \in Streams /\ s \in TasksOf["parse_jobs"]
    BY DEF Streams, TasksOf
  <2>2. Enqueue("parse_jobs", s) \/ UNCHANGED queueVars
    BY <1>2 DEF UploadCall, UploadEnqueue
  <2> QED BY <2>1, <2>2 DEF Next, queueVars, vars
<1>3. ASSUME NEW j \in GenTasks, JobCall(j) \/ JobEnqueue(j) PROVE [Next]_vars
  <2>1. "gen_jobs" \in Streams /\ j \in TasksOf["gen_jobs"]
    BY DEF Streams, TasksOf
  <2>2. Enqueue("gen_jobs", j) \/ UNCHANGED queueVars
    BY <1>3 DEF JobCall, JobEnqueue
  <2> QED BY <2>1, <2>2 DEF Next, queueVars, vars
<1>4. ASSUME NEW w \in Workers,
             \/ Fetch(w) \/ FetchDisturbed(w) \/ Return(w) \/ Settle(w) \/ Drop(w)
      PROVE  [Next]_vars
  <2>1. Work(w) \/ Disturb(w)
    BY <1>1, <1>4 DEF Fetch, FetchDisturbed, Return, Settle, Drop, Work, Disturb
  <2> QED BY <2>1 DEF Next
<1>5. ASSUME NEW w \in Workers, HandOver(w) \/ HandlerCalls(w) \/ HandlerCallFails(w)
      PROVE  UNCHANGED vars
  BY <1>5 DEF HandOver, HandlerCalls, HandlerCallFails, queueVars, vars
<1>6. ASSUME NEW s \in Streams, NEW i \in pending[s], Tick(s, i) PROVE [Next]_vars
  BY <1>6 DEF Tick, Next
<1>7. ASSUME UNCHANGED appVars PROVE UNCHANGED vars
  BY <1>7 DEF appVars, queueVars, vars
<1> QED BY <1>2, <1>3, <1>4, <1>5, <1>6, <1>7 DEF AppNext, Loop

\* The invariants of the queue hold of the deployment.
LEMMA LedgersInvariant == AppSpec => []LedgerInv
<1>1. AppInit => LedgerInv
  BY QueueAssumption, LedgerInit DEF AppInit
<1>2. LedgerInv /\ [AppNext]_appVars => LedgerInv'
  BY QueueAssumption, DeploymentAssumption, QueueStep, LedgerInvStep
<1> QED BY <1>1, <1>2, PTL DEF AppSpec

\* The deployment implements StreamQueue: real handlers are among those the queue
\* was shown to bear with, and all that is proved of the queue holds here.
THEOREM DeploymentRunsQueue == AppSpec => Spec
<1>1. AppInit => Init
  BY DEF AppInit
<1> QED BY <1>1, DeploymentAssumption, QueueStep, PTL DEF AppSpec, Spec

-----------------------------------------------------------------------------
(* Whose message a busy handler has. *)

\* A call of a handler moves this handler on, and nothing of the others.
LEMMA ParseCallEffect ==
  ASSUME HandTypes, NEW w \in Workers, Whole!Parsing!Call(w) \/ Whole!Parsing!CallFails(w)
  PROVE  /\ parseAt[w] \notin {"idle", "ack", "retry"}
         /\ \E x \in Whole!Parsing!Steps : parseAt' = [parseAt EXCEPT ![w] = x]
         /\ UNCHANGED <<source, parseCopy>>
         /\ parseLapses' \in Nat
<1> USE DEF HandTypes, Whole!Parsing!Steps, Whole!Parsing!HandlerSteps, Whole!Parsing!Go,
            Whole!Parsing!Fault
<1>1. CASE Whole!Parsing!Find(w) \/ Whole!Parsing!Claim(w) \/ Whole!Parsing!Refind(w)
  BY <1>1 DEF Whole!Parsing!Find, Whole!Parsing!Claim, Whole!Parsing!Refind
<1>2. CASE \/ Whole!Parsing!Prepare(w) \/ Whole!Parsing!Insert(w) \/ Whole!Parsing!Finish(w)
           \/ Whole!Parsing!Confirm(w) \/ Whole!Parsing!MarkError(w)
  BY <1>2 DEF Whole!Parsing!Prepare, Whole!Parsing!Insert, Whole!Parsing!Finish,
              Whole!Parsing!Confirm, Whole!Parsing!MarkError
<1>3. CASE Whole!Parsing!CallFails(w)
  BY <1>3 DEF Whole!Parsing!CallFails, Whole!Parsing!FindFails, Whole!Parsing!ClaimFails,
              Whole!Parsing!PrepareFails, Whole!Parsing!InsertFails,
              Whole!Parsing!FinishFails, Whole!Parsing!MarkErrorFails
<1> QED BY <1>1, <1>2, <1>3 DEF Whole!Parsing!Call

LEMMA GenCallEffect ==
  ASSUME HandTypes, NEW w \in Workers,
         Whole!Generation!Call(w) \/ Whole!Generation!CallFails(w)
  PROVE  /\ genAt[w] \notin {"idle", "ack", "retry"}
         /\ \E x \in Whole!Generation!Steps : genAt' = [genAt EXCEPT ![w] = x]
         /\ UNCHANGED <<job, genCopy>>
         /\ genLapses' \in Nat
<1> USE DEF HandTypes, Whole!Generation!Steps, Whole!Generation!HandlerSteps,
            Whole!Generation!Go, Whole!Generation!Goto, Whole!Generation!Fault
<1>1. CASE \/ Whole!Generation!Find(w) \/ Whole!Generation!Claim(w)
           \/ Whole!Generation!Refind(w) \/ Whole!Generation!FailJob(w)
  BY <1>1 DEF Whole!Generation!Find, Whole!Generation!Claim, Whole!Generation!Refind,
              Whole!Generation!FailJob
<1>2. CASE Whole!Generation!Generate(w)
  BY <1>2 DEF Whole!Generation!Generate
<1>3. CASE Whole!Generation!Insert(w) \/ Whole!Generation!Finish(w)
  BY <1>3 DEF Whole!Generation!Insert, Whole!Generation!Finish
<1>4. CASE Whole!Generation!CallFails(w)
  BY <1>4 DEF Whole!Generation!CallFails, Whole!Generation!FindFails,
              Whole!Generation!ClaimFails, Whole!Generation!GenerateFails,
              Whole!Generation!InsertFails, Whole!Generation!FinishFails,
              Whole!Generation!FailJobFails
<1> QED BY <1>1, <1>2, <1>3, <1>4 DEF Whole!Generation!Call

\* The hands of a worker stay in order as long as it does nothing itself.
LEMMA HandsStay ==
  ASSUME QueueAssumption, LedgerInv, LedgerInv', [Next]_vars, HandTypes,
         NEW w \in Workers, HandOK(w),
         stage'[w] = stage[w], batch'[w] = batch[w], pc'[w] = pc[w],
         parseAt'[w] = parseAt[w], source'[w] = source[w], parseCopy'[w] = parseCopy[w],
         genAt'[w] = genAt[w], job'[w] = job[w], genCopy'[w] = genCopy[w]
  PROVE  HandOK(w)'
<1> DEFINE s == StreamOf[stage[w]]
<1>1. TypeOK /\ TypeOK' /\ s \in Streams /\ StepEffect(s)
  BY StageFacts, StepEffectHolds DEF LedgerInv, QueueInv, TypeOK
<1>2. \A i \in First(batch[w]) : log'[s][i] = log[s][i]
  <2>1. \A k \in 1..Len(log[s]) : log'[s][k] = log[s][k]
    BY <1>1, GrowthFacts
  <2>2. \A i \in First(batch[w]) : i \in 1..Len(log[s])
    BY <1>1, InBatch DEF Ids
  <2> QED BY <2>1, <2>2
<1>3. At(w)' = At(w)
  BY DEF At
<1>4. InHand(w, parseAt, source, parseCopy, "parse_jobs")'
  BY <1>2 DEF HandOK, InHand
<1>5. InHand(w, genAt, job, genCopy, "gen_jobs")'
  BY <1>2 DEF HandOK, InHand
<1> QED BY <1>3, <1>4, <1>5 DEF HandOK

\* A worker of the queue leaves the others where they are.
LEMMA WorkersApart ==
  ASSUME TypeOK, NEW w \in Workers, NEW v \in Workers, v # w, Work(w) \/ Disturb(w)
  PROVE  stage'[v] = stage[v] /\ batch'[v] = batch[v] /\ pc'[v] = pc[v]
<1>0. /\ stage \in [Workers -> Stages] /\ batch \in [Workers -> SUBSET Nat]
      /\ pc \in [Workers -> {"down", "fetch", "handle"} \cup Results]
  BY DEF TypeOK
<1>1. ASSUME NEW ids, Proceed(w, ids)
      PROVE  stage'[v] = stage[v] /\ batch'[v] = batch[v] /\ pc'[v] = pc[v]
  BY <1>0, <1>1 DEF Proceed
<1>2. CASE Start(w) \/ StartFails(w) \/ Stop(w) \/ \E r \in Outcomes : HandlerReturns(w, r)
  BY <1>0, <1>2 DEF Start, StartFails, Stop, HandlerReturns, workerVars
<1>3. CASE \/ ClaimPending(w) \/ ReadNew(w) \/ Ack(w) \/ RetryOrDLQ(w) \/ ClaimLost(w)
           \/ ReadLost(w) \/ FetchFails(w) \/ SettleFails(w)
  BY <1>1, <1>3 DEF ClaimPending, ReadNew, Ack, RetryOrDLQ, ClaimLost, ReadLost, FetchFails,
                    SettleFails
<1> QED BY <1>2, <1>3 DEF Work, Disturb

\* Between two messages and at the end of one a worker is at no handler.
LEMMA HandsFree ==
  ASSUME NEW w \in Workers, parseAt'[w] = "idle", genAt'[w] = "idle",
         pc'[w] \in {"down", "fetch", "handle"}
  PROVE  HandOK(w)'
  BY DEF HandOK, InHand

LEMMA ProceedEnds ==
  ASSUME TypeOK, NEW w \in Workers, NEW ids, Proceed(w, ids)
  PROVE  pc'[w] \in {"fetch", "handle"}
  BY DEF Proceed, TypeOK

LEMMA HandsInit == AppInit => HandTypes /\ HandSound
  BY DEF AppInit, Init, HandTypes, HandSound, HandOK, InHand, Whole!Parsing!Steps,
         Whole!Generation!Steps

LEMMA HandsStep ==
  ASSUME DeploymentAssumption, LedgerInv, LedgerInv', HandTypes, HandSound,
         [AppNext]_appVars
  PROVE  HandTypes' /\ HandSound'
<1>0. /\ QueueAssumption /\ TypeOK /\ TypeOK' /\ [Next]_vars
      /\ \A v \in Workers : HandOK(v)
  BY QueueAssumption, QueueStep DEF LedgerInv, QueueInv, HandSound
<1>1. ASSUME UNCHANGED <<parseAt, source, parseCopy, genAt, job, genCopy>>,
             UNCHANGED workerVars, parseLapses' \in Nat, genLapses' \in Nat
      PROVE  HandTypes' /\ HandSound'
  <2>1. HandTypes'
    BY <1>1 DEF HandTypes
  <2>2. ASSUME NEW v \in Workers PROVE HandOK(v)'
    BY <1>0, <1>1, HandsStay DEF workerVars
  <2> QED BY <2>1, <2>2 DEF HandSound
<1>2. ASSUME NEW w \in Workers, HandTypes', HandOK(w)',
             \/ UNCHANGED workerVars
             \/ Work(w) \/ Disturb(w),
             \A v \in Workers \ {w} :
               /\ parseAt'[v] = parseAt[v] /\ source'[v] = source[v]
               /\ parseCopy'[v] = parseCopy[v] /\ genAt'[v] = genAt[v]
               /\ job'[v] = job[v] /\ genCopy'[v] = genCopy[v]
      PROVE  HandTypes' /\ HandSound'
  <2>1. ASSUME NEW v \in Workers, v # w PROVE HandOK(v)'
    <3>1. stage'[v] = stage[v] /\ batch'[v] = batch[v] /\ pc'[v] = pc[v]
      BY <1>0, <1>2, <2>1, WorkersApart DEF workerVars
    <3> QED BY <1>0, <1>2, <2>1, <3>1, HandsStay
  <2> QED BY <1>2, <2>1 DEF HandSound
<1>3. ASSUME NEW s \in ParseTasks, UploadCall(s) \/ UploadEnqueue(s)
      PROVE  HandTypes' /\ HandSound'
  <2>1. UNCHANGED <<parseAt, source, parseCopy, genAt, job, genCopy, genLapses>>
    BY <1>3 DEF UploadCall, UploadEnqueue, genVars, Whole!Parsing!Create,
         Whole!Parsing!Rollback, Whole!Parsing!CreateUnconfirmed, Whole!Parsing!RollbackFails,
         Whole!Parsing!ApiCrash, Whole!Parsing!deliveryVars
  <2>2. UNCHANGED workerVars
    BY <1>3 DEF UploadCall, UploadEnqueue, queueVars, Enqueue, workerVars
  <2>3. parseLapses' \in Nat
    BY <1>3 DEF HandTypes, UploadCall, UploadEnqueue, Whole!Parsing!Create,
         Whole!Parsing!Rollback, Whole!Parsing!CreateUnconfirmed, Whole!Parsing!RollbackFails,
         Whole!Parsing!ApiCrash, Whole!Parsing!Fault
  <2> QED BY <1>1, <2>1, <2>2, <2>3 DEF HandTypes
<1>4. ASSUME NEW j \in GenTasks, JobCall(j) \/ JobEnqueue(j)
      PROVE  HandTypes' /\ HandSound'
  <2>1. UNCHANGED <<parseAt, source, parseCopy, parseLapses>>
    BY <1>4 DEF JobCall, JobEnqueue, parseVars
  <2>2. UNCHANGED <<genAt, job, genCopy>>
    BY <1>4 DEF JobCall, JobEnqueue, Whole!LookUpSource, Whole!FindDeck, Whole!CreateDeck,
         Whole!GiveUp, Whole!genVars, Whole!Generation!Create, Whole!Generation!Rollback,
         Whole!Generation!CreateUnconfirmed, Whole!Generation!RollbackFails,
         Whole!Generation!ApiCrash, Whole!Generation!deliveryVars
  <2>3. UNCHANGED workerVars
    BY <1>4 DEF JobCall, JobEnqueue, queueVars, Enqueue, workerVars
  <2>4. genLapses' \in Nat
    BY <1>4 DEF HandTypes, JobCall, JobEnqueue, Whole!LookUpSource, Whole!FindDeck,
         Whole!CreateDeck, Whole!GiveUp, Whole!genVars, Whole!Generation!Create,
         Whole!Generation!Rollback, Whole!Generation!CreateUnconfirmed,
         Whole!Generation!RollbackFails, Whole!Generation!ApiCrash, Whole!Generation!Fault
  <2> QED BY <1>1, <2>1, <2>2, <2>3, <2>4 DEF HandTypes
<1>5. ASSUME NEW w \in Workers, Fetch(w) \/ FetchDisturbed(w)
      PROVE  HandTypes' /\ HandSound'
  <2>1. UNCHANGED <<parseAt, source, parseCopy, parseLapses, genAt, job, genCopy, genLapses>>
    BY <1>5 DEF Fetch, FetchDisturbed, handlerVars, parseVars, genVars
  <2>2. Work(w) \/ Disturb(w)
    BY <1>5 DEF Fetch, FetchDisturbed, Work, Disturb
  <2>3. pc[w] \in {"down", "fetch"} /\ pc'[w] \in {"down", "fetch", "handle"}
    <3>1. CASE Start(w) \/ StartFails(w)
      BY <1>0, <3>1 DEF Start, StartFails, workerVars, TypeOK
    <3>2. CASE ClaimPending(w) \/ ReadNew(w) \/ ClaimLost(w) \/ ReadLost(w) \/ FetchFails(w)
      <4>1. pc[w] = "fetch" /\ \E ids : Proceed(w, ids)
        BY <3>2 DEF ClaimPending, ReadNew, ClaimLost, ReadLost, FetchFails
      <4> QED BY <1>0, <4>1, ProceedEnds
    <3> QED BY <1>5, <3>1, <3>2 DEF Fetch, FetchDisturbed
  <2>4. parseAt[w] = "idle" /\ genAt[w] = "idle"
    BY <1>0, <2>3 DEF HandOK, InHand
  <2>5. HandTypes' /\ HandOK(w)'
    BY <2>1, <2>3, <2>4, HandsFree DEF HandTypes
  <2> QED BY <1>2, <2>1, <2>2, <2>5
<1>6. ASSUME NEW w \in Workers, HandOver(w)
      PROVE  HandTypes' /\ HandSound'
  <2> DEFINE s == StreamOf[stage[w]]
  <2>1. PICK i \in First(batch[w]) :
          LET late == IF i \in Live(s) THEN 0 ELSE 1
          IN  \/ /\ s = "parse_jobs" /\ parseLapses' = parseLapses + late
                 /\ Whole!Parsing!Take(w, log[s][i].task, log[s][i].attempt)
                 /\ UNCHANGED genVars
              \/ /\ s = "gen_jobs" /\ genLapses' = genLapses + late
                 /\ Whole!Generation!Take(w, log[s][i].task, log[s][i].attempt)
                 /\ UNCHANGED parseVars
    BY <1>6 DEF HandOver
  <2>2. /\ s \in Streams /\ i \in Ids(s) /\ log[s][i].task \in TasksOf[s]
        /\ log[s][i].attempt \in Nat
    BY <1>0, InBatch, CopyIsLive
  <2>3. /\ pc[w] = "handle" /\ parseAt[w] = "idle" /\ genAt[w] = "idle"
        /\ UNCHANGED <<log, stage, batch, pc>> /\ UNCHANGED workerVars
    BY <1>6 DEF HandOver, Whole!Idle, queueVars, workerVars
  <2>6. parseLapses \in Nat /\ genLapses \in Nat
    BY DEF HandTypes
  <2>4. CASE s = "parse_jobs"
    <3>1. /\ parseAt' = [parseAt EXCEPT ![w] = "find"]
          /\ source' = [source EXCEPT ![w] = log[s][i].task]
          /\ parseCopy' = [parseCopy EXCEPT ![w] = log[s][i].attempt]
          /\ UNCHANGED <<genAt, job, genCopy, genLapses>> /\ parseLapses' \in Nat
      BY <2>1, <2>4, <2>6 DEF Whole!Parsing!Take, genVars
    <3>2. log[s][i].task \in ParseTasks
      BY <2>2, <2>4 DEF TasksOf
    <3>3. HandTypes'
      BY <2>2, <3>1, <3>2 DEF HandTypes, Whole!Parsing!Steps, Whole!Parsing!HandlerSteps
    <3>4. /\ parseAt'[w] = "find" /\ genAt'[w] = "idle"
          /\ source'[w] = log[s][i].task /\ parseCopy'[w] = log[s][i].attempt
      BY <2>3, <3>1 DEF HandTypes
    <3>5. HandOK(w)'
      BY <2>3, <2>4, <3>4 DEF HandOK, InHand
    <3>6. \A v \in Workers \ {w} :
            /\ parseAt'[v] = parseAt[v] /\ source'[v] = source[v]
            /\ parseCopy'[v] = parseCopy[v]
      BY <3>1 DEF HandTypes
    <3> QED BY <1>2, <2>3, <3>1, <3>3, <3>5, <3>6
  <2>5. CASE s = "gen_jobs"
    <3>1. /\ genAt' = [genAt EXCEPT ![w] = "find"]
          /\ job' = [job EXCEPT ![w] = log[s][i].task]
          /\ genCopy' = [genCopy EXCEPT ![w] = log[s][i].attempt]
          /\ UNCHANGED <<parseAt, source, parseCopy, parseLapses>> /\ genLapses' \in Nat
      BY <2>1, <2>5, <2>6 DEF Whole!Generation!Take, parseVars
    <3>2. log[s][i].task \in GenTasks
      BY <2>2, <2>5 DEF TasksOf
    <3>3. HandTypes'
      BY <2>2, <3>1, <3>2 DEF HandTypes, Whole!Generation!Steps, Whole!Generation!HandlerSteps
    <3>4. /\ genAt'[w] = "find" /\ parseAt'[w] = "idle"
          /\ job'[w] = log[s][i].task /\ genCopy'[w] = log[s][i].attempt
      BY <2>3, <3>1 DEF HandTypes
    <3>5. HandOK(w)'
      BY <2>3, <2>5, <3>4 DEF HandOK, InHand
    <3>6. \A v \in Workers \ {w} :
            /\ genAt'[v] = genAt[v] /\ job'[v] = job[v] /\ genCopy'[v] = genCopy[v]
      BY <3>1 DEF HandTypes
    <3> QED BY <1>2, <2>3, <3>1, <3>3, <3>5, <3>6
  <2> QED BY <2>1, <2>4, <2>5
<1>7. ASSUME NEW w \in Workers, HandlerCalls(w) \/ HandlerCallFails(w)
      PROVE  HandTypes' /\ HandSound'
  <2>1. UNCHANGED <<log, stage, batch, pc>> /\ UNCHANGED workerVars
    BY <1>7 DEF HandlerCalls, HandlerCallFails, queueVars, workerVars
  <2>2. CASE (Whole!Parsing!Call(w) \/ Whole!Parsing!CallFails(w)) /\ UNCHANGED genVars
    <3>1. PICK x \in Whole!Parsing!Steps :
            /\ parseAt[w] \notin {"idle", "ack", "retry"} /\ parseAt' = [parseAt EXCEPT ![w] = x]
            /\ UNCHANGED <<source, parseCopy>> /\ parseLapses' \in Nat
      BY <2>2, ParseCallEffect
    <3>2. UNCHANGED <<genAt, job, genCopy, genLapses>> /\ HandTypes'
      BY <2>2, <3>1 DEF genVars, HandTypes
    <3>3. genAt[w] = "idle" /\ pc[w] = "handle"
      BY <1>0, <3>1 DEF HandOK, InHand, At
    <3>4. HandOK(w)'
      BY <1>0, <2>1, <3>1, <3>2, <3>3 DEF HandOK, InHand
    <3>5. \A v \in Workers \ {w} : parseAt'[v] = parseAt[v]
      BY <3>1 DEF HandTypes
    <3> QED BY <1>2, <2>1, <3>1, <3>2, <3>4, <3>5
  <2>3. CASE (Whole!Generation!Call(w) \/ Whole!Generation!CallFails(w)) /\ UNCHANGED parseVars
    <3>1. PICK x \in Whole!Generation!Steps :
            /\ genAt[w] \notin {"idle", "ack", "retry"} /\ genAt' = [genAt EXCEPT ![w] = x]
            /\ UNCHANGED <<job, genCopy>> /\ genLapses' \in Nat
      BY <2>3, GenCallEffect
    <3>2. UNCHANGED <<parseAt, source, parseCopy, parseLapses>> /\ HandTypes'
      BY <2>3, <3>1 DEF parseVars, HandTypes
    <3>3. parseAt[w] = "idle" /\ pc[w] = "handle"
      BY <1>0, <3>1 DEF HandOK, InHand, At
    <3>4. HandOK(w)'
      BY <1>0, <2>1, <3>1, <3>2, <3>3 DEF HandOK, InHand
    <3>5. \A v \in Workers \ {w} : genAt'[v] = genAt[v]
      BY <3>1 DEF HandTypes
    <3> QED BY <1>2, <2>1, <3>1, <3>2, <3>4, <3>5
  <2> QED BY <1>7, <2>2, <2>3 DEF HandlerCalls, HandlerCallFails
<1>8. ASSUME NEW w \in Workers, Return(w)
      PROVE  HandTypes' /\ HandSound'
  <2>1. UNCHANGED <<parseAt, source, parseCopy, parseLapses, genAt, job, genCopy, genLapses>>
    BY <1>8 DEF Return, handlerVars, parseVars, genVars
  <2>2. PICK r \in {"ok", "transient"} :
          HandlerReturns(w, r) /\ At(w) = IF r = "ok" THEN "ack" ELSE "retry"
    BY <1>8 DEF Return
  <2>3. Work(w)
    BY <2>2 DEF DeploymentAssumption, Work
  <2>4. /\ pc[w] = "handle" /\ pc'[w] = r /\ UNCHANGED <<log, stage, batch>>
    BY <1>0, <2>2 DEF HandlerReturns, streamVars, TypeOK
  <2>5. HandTypes' /\ At(w)' = At(w)
    BY <2>1 DEF HandTypes, At
  <2>6. HandOK(w)'
    BY <1>0, <2>1, <2>2, <2>4, <2>5 DEF HandOK, InHand
  <2> QED BY <1>2, <2>1, <2>3, <2>5, <2>6
<1>9. ASSUME NEW w \in Workers, Settle(w) \/ Drop(w)
      PROVE  HandTypes' /\ HandSound'
  <2>1. /\ parseAt' = [parseAt EXCEPT ![w] = "idle"] /\ genAt' = [genAt EXCEPT ![w] = "idle"]
        /\ UNCHANGED <<source, parseCopy, job, genCopy>>
        /\ parseLapses' \in Nat /\ genLapses' \in Nat
    BY <1>9 DEF Settle, Drop, Leave, HandTypes
  <2>2. Work(w) \/ Disturb(w)
    BY <1>9 DEF Settle, Drop, Work, Disturb
  <2>3. pc'[w] \in {"down", "fetch", "handle"}
    <3>1. CASE Stop(w)
      BY <1>0, <3>1 DEF Stop, TypeOK
    <3>2. CASE Ack(w) \/ RetryOrDLQ(w) \/ SettleFails(w)
      <4>1. \E ids : Proceed(w, ids)
        BY <3>2 DEF Ack, RetryOrDLQ, SettleFails
      <4> QED BY <1>0, <4>1, ProceedEnds
    <3> QED BY <1>9, <3>1, <3>2 DEF Settle, Drop
  <2>4. HandTypes'
    BY <2>1 DEF HandTypes, Whole!Parsing!Steps, Whole!Generation!Steps
  <2>5. HandOK(w)'
    <3>1. parseAt'[w] = "idle" /\ genAt'[w] = "idle"
      BY <2>1 DEF HandTypes
    <3> QED BY <2>3, <3>1, HandsFree
  <2>6. \A v \in Workers \ {w} : parseAt'[v] = parseAt[v] /\ genAt'[v] = genAt[v]
    BY <2>1 DEF HandTypes
  <2> QED BY <1>2, <2>1, <2>2, <2>4, <2>5, <2>6
<1>10. ASSUME NEW s \in Streams, NEW i \in pending[s], Tick(s, i)
       PROVE  HandTypes' /\ HandSound'
  BY <1>1, <1>10 DEF Tick, Age, handlerVars, parseVars, genVars, HandTypes
<1>11. CASE UNCHANGED appVars
  BY <1>1, <1>11 DEF appVars, queueVars, handlerVars, parseVars, genVars, workerVars, HandTypes
<1> QED BY <1>3, <1>4, <1>5, <1>6, <1>7, <1>8, <1>9, <1>10, <1>11 DEF AppNext, Loop

\* A busy handler has its task from the message at the head of its worker's batch,
\* and the deployment keeps it so.
LEMMA HandsInvariant == AppSpec => [](HandTypes /\ HandSound)
<1>1. AppInit => HandTypes /\ HandSound
  BY HandsInit
<1>2. LedgerInv /\ LedgerInv' /\ (HandTypes /\ HandSound) /\ [AppNext]_appVars
        => (HandTypes /\ HandSound)'
  <2> SUFFICES ASSUME LedgerInv, LedgerInv', HandTypes, HandSound, [AppNext]_appVars
               PROVE  HandTypes' /\ HandSound'
    OBVIOUS
  <2> QED BY DeploymentAssumption, HandsStep
<1> QED BY <1>1, <1>2, LedgersInvariant, PTL DEF AppSpec

-----------------------------------------------------------------------------
(* The steps of the deployment are steps of the application. *)

LEMMA LedgerNames ==
  /\ ParsePhase = PhaseOf("parse_jobs") /\ ParseRequeues = RequeuesOf("parse_jobs")
  /\ GenPhase = PhaseOf("gen_jobs") /\ GenRequeues = RequeuesOf("gen_jobs")
  /\ ParsePhase' = PhaseOf("parse_jobs")' /\ ParseRequeues' = RequeuesOf("parse_jobs")'
  /\ GenPhase' = PhaseOf("gen_jobs")' /\ GenRequeues' = RequeuesOf("gen_jobs")'
  BY DEF ParsePhase, ParseRequeues, GenPhase, GenRequeues, PhaseOf, RequeuesOf, TasksOf

LEMMA LedgersStay ==
  ASSUME Untouched("parse_jobs"), Untouched("gen_jobs")
  PROVE  UNCHANGED <<ParsePhase, ParseRequeues, GenPhase, GenRequeues>>
  BY LedgerNames, LedgerStays DEF Streams

LEMMA CalmFacts ==
  ASSUME DeploymentAssumption, LedgerInv, HandTypes, Calm
  PROVE  parseLapses < MaxLapses /\ genLapses < MaxLapses
<1>1. MaxLapses \in Nat /\ MaxFaults <= MaxLapses
  BY DEF DeploymentAssumption, Whole!PartsAssumption, Whole!Parsing!ParsingAssumption
<1>2. MaxFaults \in Nat
  BY QueueAssumption DEF QueueAssumption
<1>3. faults \in Nat /\ parseLapses \in Nat /\ genLapses \in Nat
  BY <1>2 DEF LedgerInv, QueueInv, TypeOK, HandTypes
<1> QED BY <1>1, <1>2, <1>3 DEF Calm

LEMMA UploadRefines ==
  ASSUME DeploymentAssumption, LedgerInv, LedgerInv', HandTypes, NEW s \in ParseTasks,
         UploadCall(s) \/ UploadEnqueue(s)
  PROVE  Whole!Upload(s)
<1>1. ASSUME UploadCall(s) PROVE Whole!Upload(s)
  <2>1. Whole!Parsing!Api(s) \/ Whole!Parsing!ApiDisturbed(s)
    BY <1>1 DEF UploadCall, Whole!Parsing!Api, Whole!Parsing!ApiDisturbed
  <2>2. UNCHANGED <<log, dlq, last, pending, handled>> /\ UNCHANGED <<genVars, intakeVars>>
    BY <1>1 DEF UploadCall, queueVars
  <2>3. UNCHANGED <<GenPhase, GenRequeues>>
    BY <2>2, LedgersStay, SameStreams DEF Streams
  <2> QED BY <2>1, <2>2, <2>3 DEF Whole!Upload, Whole!genVars, Whole!intakeVars, genVars, intakeVars
<1>2. ASSUME UploadEnqueue(s) PROVE Whole!Upload(s)
  <2>1. /\ UNCHANGED <<sourceStatus, rows, parseAt, source, parseCopy>>
        /\ UNCHANGED <<genVars, intakeVars>>
    BY <1>2 DEF UploadEnqueue
  <2>2. ASSUME Enqueue("parse_jobs", s)
        PROVE  /\ ParsePhase[s] = "absent" /\ ParsePhase' = [ParsePhase EXCEPT ![s] = "queued"]
               /\ UNCHANGED <<ParseRequeues, GenPhase, GenRequeues, handled>>
    BY <2>2, QueueAssumption, EnqueueEffect, LedgerNames DEF Streams, TasksOf
  <2>3. ASSUME UNCHANGED queueVars
        PROVE  UNCHANGED <<ParsePhase, ParseRequeues, GenPhase, GenRequeues, handled>>
    BY <2>3, LedgersStay, SameStreams DEF Streams, queueVars
  <2>4. UNCHANGED <<GenPhase, GenRequeues, handled>>
    BY <1>2, <2>2, <2>3 DEF UploadEnqueue
  <2>5. Whole!Parsing!Enqueue(s) \/ Whole!Parsing!EnqueueFails(s)
    <3>1. CASE /\ Enqueue("parse_jobs", s) /\ UNCHANGED parseLapses
               /\ Whole!Parsing!ApiStep(s, "created", "accepted")
      BY <2>1, <2>2, <3>1 DEF Whole!Parsing!Enqueue, Whole!Parsing!Queue!Submit,
                              Whole!Parsing!deliveryVars
    <3>2. CASE /\ Calm /\ parseLapses' = parseLapses + 1
               /\ Enqueue("parse_jobs", s) \/ UNCHANGED queueVars
               /\ Whole!Parsing!ApiStep(s, "created", "rollback")
      BY <2>1, <2>2, <2>3, <3>2, CalmFacts
         DEF Whole!Parsing!EnqueueFails, Whole!Parsing!Fault, Whole!Parsing!Queue!Submit,
             Whole!Parsing!ledgerVars, Whole!Parsing!deliveryVars
    <3> QED BY <1>2, <3>1, <3>2 DEF UploadEnqueue
  <2> QED BY <2>1, <2>4, <2>5
      DEF Whole!Upload, Whole!Parsing!Api, Whole!Parsing!ApiDisturbed, Whole!genVars,
          Whole!intakeVars, genVars, intakeVars
<1> QED BY <1>1, <1>2

LEMMA JobRefines ==
  ASSUME DeploymentAssumption, LedgerInv, LedgerInv', HandTypes, NEW j \in GenTasks,
         JobCall(j) \/ JobEnqueue(j)
  PROVE  \/ Whole!LookUpSource(j) \/ Whole!FindDeck(j) \/ Whole!CreateDeck(j)
         \/ Whole!GiveUp(j) \/ Whole!Submit(j)
<1>1. ASSUME JobCall(j)
      PROVE  \/ Whole!LookUpSource(j) \/ Whole!FindDeck(j) \/ Whole!CreateDeck(j)
             \/ Whole!GiveUp(j) \/ Whole!Submit(j)
  <2>1. UNCHANGED <<log, dlq, last, pending, handled>> /\ UNCHANGED parseVars
    BY <1>1 DEF JobCall, queueVars
  <2>2. UNCHANGED <<ParsePhase, ParseRequeues>>
    BY <2>1, LedgersStay, SameStreams DEF Streams
  <2>3. CASE \/ Whole!LookUpSource(j) \/ Whole!FindDeck(j) \/ Whole!CreateDeck(j)
             \/ Whole!GiveUp(j)
    BY <2>3
  <2>4. CASE ~(\/ Whole!LookUpSource(j) \/ Whole!FindDeck(j) \/ Whole!CreateDeck(j)
               \/ Whole!GiveUp(j))
    <3>1. /\ intake[j] = "decked" /\ UNCHANGED intakeVars
          /\ Whole!Generation!Api(j) \/ Whole!Generation!ApiDisturbed(j)
      BY <1>1, <2>4 DEF JobCall, Whole!Generation!Api, Whole!Generation!ApiDisturbed
    <3> QED BY <2>1, <2>2, <3>1 DEF Whole!Submit, Whole!parseVars, Whole!intakeVars, parseVars,
                                    intakeVars
  <2> QED BY <2>3, <2>4
<1>2. ASSUME JobEnqueue(j) PROVE Whole!Submit(j)
  <2>1. /\ UNCHANGED <<jobStatus, counters, cards, links, genAt, job, genCopy, run>>
        /\ UNCHANGED <<parseVars, intakeVars>> /\ intake[j] = "decked"
    BY <1>2 DEF JobEnqueue
  <2>2. ASSUME Enqueue("gen_jobs", j)
        PROVE  /\ GenPhase[j] = "absent" /\ GenPhase' = [GenPhase EXCEPT ![j] = "queued"]
               /\ UNCHANGED <<GenRequeues, ParsePhase, ParseRequeues, handled>>
    BY <2>2, QueueAssumption, EnqueueEffect, LedgerNames DEF Streams, TasksOf
  <2>3. ASSUME UNCHANGED queueVars
        PROVE  UNCHANGED <<ParsePhase, ParseRequeues, GenPhase, GenRequeues, handled>>
    BY <2>3, LedgersStay, SameStreams DEF Streams, queueVars
  <2>4. UNCHANGED <<ParsePhase, ParseRequeues, handled>>
    BY <1>2, <2>2, <2>3 DEF JobEnqueue
  <2>5. Whole!Generation!Enqueue(j) \/ Whole!Generation!EnqueueFails(j)
    <3>1. CASE /\ Enqueue("gen_jobs", j) /\ UNCHANGED genLapses
               /\ Whole!Generation!ApiStep(j, "created", "accepted")
      BY <2>1, <2>2, <3>1 DEF Whole!Generation!Enqueue, Whole!Generation!Queue!Submit,
                              Whole!Generation!deliveryVars, Whole!Generation!rowVars
    <3>2. CASE /\ Calm /\ genLapses' = genLapses + 1
               /\ Enqueue("gen_jobs", j) \/ UNCHANGED queueVars
               /\ Whole!Generation!ApiStep(j, "created", "rollback")
      BY <2>1, <2>2, <2>3, <3>2, CalmFacts
         DEF Whole!Generation!EnqueueFails, Whole!Generation!Fault,
             Whole!Generation!Queue!Submit, Whole!Generation!ledgerVars,
             Whole!Generation!deliveryVars, Whole!Generation!rowVars
    <3> QED BY <1>2, <3>1, <3>2 DEF JobEnqueue
  <2> QED BY <2>1, <2>4, <2>5
      DEF Whole!Submit, Whole!Generation!Api, Whole!Generation!ApiDisturbed,
          Whole!parseVars, Whole!intakeVars, parseVars, intakeVars
<1> QED BY <1>1, <1>2

\* What only moves messages between the stream, the PEL and a batch shows in no ledger.
LEMMA FetchRefines ==
  ASSUME DeploymentAssumption, LedgerInv,
         \/ \E w \in Workers : Fetch(w) \/ FetchDisturbed(w)
         \/ \E s \in Streams : \E i \in pending[s] : Tick(s, i)
  PROVE  UNCHANGED Whole!vars
<1>0. TypeOK /\ Shape
  BY DEF LedgerInv, QueueInv
<1>1. UNCHANGED handlerVars /\ handled' = handled
  BY DEF Fetch, FetchDisturbed, Tick, Age, Start, ClaimPending, ReadNew, StartFails, ClaimLost,
         ReadLost, FetchFails
<1>2. Untouched("parse_jobs") /\ Untouched("gen_jobs")
  <2>1. ASSUME NEW w \in Workers, Start(w) \/ StartFails(w)
        PROVE  Untouched("parse_jobs") /\ Untouched("gen_jobs")
    <3>1. log' = log /\ dlq' = dlq /\ pending' = pending
      BY <2>1 DEF Start, StartFails
    <3>2. \E S : EnsureGroup(S)
      BY <2>1 DEF Start, StartFails
    <3>3. last' = last
      BY <1>0, <3>2, EnsureGroupFacts
    <3> QED BY <3>1, <3>3, SameStreams DEF Streams
  <2>2. ASSUME NEW w \in Workers, ReadNew(w) \/ ReadLost(w)
        PROVE  Untouched("parse_jobs") /\ Untouched("gen_jobs")
    <3>1. /\ log' = log /\ dlq' = dlq /\ DeliverNew(StreamOf[stage[w]])
          /\ StreamOf[stage[w]] \in Streams
      BY <1>0, <2>2, StageFacts DEF ReadNew, ReadLost, TypeOK
    <3> QED BY <1>0, <3>1, QueueAssumption, DeliveryEffect DEF Streams
  <2>3. ASSUME \/ \E w \in Workers : ClaimPending(w) \/ ClaimLost(w) \/ FetchFails(w)
               \/ \E s \in Streams : \E i \in pending[s] : Tick(s, i)
        PROVE  Untouched("parse_jobs") /\ Untouched("gen_jobs")
    <3>1. log' = log /\ dlq' = dlq /\ last' = last /\ pending' = pending
      BY <2>3 DEF ClaimPending, ClaimLost, FetchFails, Tick, Age, streamVars
    <3> QED BY <3>1, SameStreams DEF Streams
  <2> QED BY <2>1, <2>2, <2>3 DEF Fetch, FetchDisturbed
<1>3. UNCHANGED <<ParsePhase, ParseRequeues, GenPhase, GenRequeues>>
  BY <1>2, LedgersStay
<1> QED BY <1>1, <1>3 DEF Whole!vars, handlerVars, parseVars, genVars, intakeVars

LEMMA HandOverRefines ==
  ASSUME DeploymentAssumption, LedgerInv, HandTypes, NEW w \in Workers, HandOver(w)
  PROVE  \/ \E s \in ParseTasks : Whole!BeginParse(w, s)
         \/ \E j \in GenTasks : Whole!BeginGen(w, j)
         \/ Whole!BeginLate(w)
<1> DEFINE s == StreamOf[stage[w]]
<1>1. PICK i \in First(batch[w]) :
        LET late == IF i \in Live(s) THEN 0 ELSE 1
            m    == log[s][i]
        IN  \/ /\ s = "parse_jobs"
               /\ parseLapses + late <= MaxLapses /\ parseLapses' = parseLapses + late
               /\ Whole!Parsing!Take(w, m.task, m.attempt)
               /\ UNCHANGED genVars
            \/ /\ s = "gen_jobs"
               /\ genLapses + late <= MaxLapses /\ genLapses' = genLapses + late
               /\ Whole!Generation!Take(w, m.task, m.attempt)
               /\ UNCHANGED parseVars
  BY DEF HandOver
<1>2. /\ Whole!Idle(w) /\ UNCHANGED intakeVars
      /\ UNCHANGED <<log, dlq, last, pending, handled>>
  BY DEF HandOver, queueVars
<1>3. UNCHANGED <<ParsePhase, ParseRequeues, GenPhase, GenRequeues>>
  BY <1>2, LedgersStay, SameStreams DEF Streams
<1> DEFINE t == log[s][i].task
           a == log[s][i].attempt
<1>4. /\ s \in Streams /\ t \in TasksOf[s] /\ a \in Nat /\ Phase(s, t) # "absent"
      /\ Requeues(s, t) \in Nat /\ a <= Requeues(s, t)
      /\ i \in Live(s) <=> Phase(s, t) = "queued" /\ Requeues(s, t) = a
  <2>1. s \in Streams /\ i \in Ids(s)
    BY InBatch DEF LedgerInv, QueueInv
  <2> QED BY <2>1, CopyIsLive
<1>5. parseLapses \in Nat /\ genLapses \in Nat /\ MaxLapses \in Nat
  BY DEF HandTypes, DeploymentAssumption, Whole!PartsAssumption, Whole!Parsing!ParsingAssumption
<1>6. CASE s = "parse_jobs"
  <2>1. t \in ParseTasks /\ ParsePhase[t] = Phase(s, t) /\ ParseRequeues[t] = Requeues(s, t)
    BY <1>4, <1>6 DEF TasksOf, ParsePhase, ParseRequeues
  <2>2. /\ parseLapses' = parseLapses + (IF i \in Live(s) THEN 0 ELSE 1)
        /\ parseLapses + (IF i \in Live(s) THEN 0 ELSE 1) <= MaxLapses
        /\ Whole!Parsing!Take(w, t, a) /\ UNCHANGED genVars
    BY <1>1, <1>6
  <2>3. UNCHANGED Whole!genVars /\ UNCHANGED Whole!intakeVars
    BY <1>2, <1>3, <2>2 DEF Whole!genVars, Whole!intakeVars, genVars, intakeVars
  <2> HIDE DEF s, t, a
  <2>4. CASE i \in Live(s)
    <3>1. parseLapses' = parseLapses
      BY <1>5, <2>2, <2>4
    <3>2. Whole!Parsing!Begin(w, t)
      BY <1>4, <2>1, <2>2, <2>4, <3>1 DEF Whole!Parsing!Begin
    <3> QED BY <1>2, <2>1, <2>3, <3>2 DEF Whole!BeginParse
  <2>5. CASE i \notin Live(s)
    <3>1. Whole!Parsing!Fault
      BY <1>5, <2>2, <2>5 DEF Whole!Parsing!Fault
    <3>2. a \in 0..ParseRequeues[t] /\ (ParsePhase[t] = "queued" => a < ParseRequeues[t])
      BY <1>4, <2>1, <2>5
    <3>3. Whole!Parsing!BeginLate(w, t)
      BY <1>4, <2>1, <2>2, <3>1, <3>2 DEF Whole!Parsing!BeginLate
    <3> QED BY <1>2, <2>1, <2>3, <3>3 DEF Whole!BeginLate
  <2> QED BY <2>4, <2>5
<1>7. CASE s = "gen_jobs"
  <2>1. t \in GenTasks /\ GenPhase[t] = Phase(s, t) /\ GenRequeues[t] = Requeues(s, t)
    BY <1>4, <1>7 DEF TasksOf, GenPhase, GenRequeues
  <2>2. /\ genLapses' = genLapses + (IF i \in Live(s) THEN 0 ELSE 1)
        /\ genLapses + (IF i \in Live(s) THEN 0 ELSE 1) <= MaxLapses
        /\ Whole!Generation!Take(w, t, a) /\ UNCHANGED parseVars
    BY <1>1, <1>7
  <2>3. UNCHANGED Whole!parseVars /\ UNCHANGED Whole!intakeVars
    BY <1>2, <1>3, <2>2 DEF Whole!parseVars, Whole!intakeVars, parseVars, intakeVars
  <2> HIDE DEF s, t, a
  <2>4. CASE i \in Live(s)
    <3>1. genLapses' = genLapses
      BY <1>5, <2>2, <2>4
    <3>2. Whole!Generation!Begin(w, t)
      BY <1>4, <2>1, <2>2, <2>4, <3>1 DEF Whole!Generation!Begin
    <3> QED BY <1>2, <2>1, <2>3, <3>2 DEF Whole!BeginGen
  <2>5. CASE i \notin Live(s)
    <3>1. Whole!Generation!Fault
      BY <1>5, <2>2, <2>5 DEF Whole!Generation!Fault
    <3>2. a \in 0..GenRequeues[t] /\ (GenPhase[t] = "queued" => a < GenRequeues[t])
      BY <1>4, <2>1, <2>5
    <3>3. Whole!Generation!BeginLate(w, t)
      BY <1>4, <2>1, <2>2, <3>1, <3>2 DEF Whole!Generation!BeginLate
    <3> QED BY <1>2, <2>1, <2>3, <3>3 DEF Whole!BeginLate
  <2> QED BY <2>4, <2>5
<1> QED BY <1>4, <1>6, <1>7 DEF Streams

LEMMA CallRefines ==
  ASSUME NEW w \in Workers, HandlerCalls(w) \/ HandlerCallFails(w)
  PROVE  Whole!Handle(w) \/ Whole!Disturb(w)
<1>1. UNCHANGED intakeVars /\ UNCHANGED <<log, dlq, last, pending, handled>>
  BY DEF HandlerCalls, HandlerCallFails, queueVars
<1>2. UNCHANGED <<ParsePhase, ParseRequeues, GenPhase, GenRequeues>>
  BY <1>1, LedgersStay, SameStreams DEF Streams
<1>3. CASE (Whole!Parsing!Call(w) \/ Whole!Parsing!CallFails(w)) /\ UNCHANGED genVars
  <2>1. UNCHANGED Whole!genVars /\ UNCHANGED Whole!intakeVars
    BY <1>1, <1>2, <1>3 DEF Whole!genVars, Whole!intakeVars, genVars, intakeVars
  <2>2. Whole!Parsing!Handle(w) \/ Whole!Parsing!HandleDisturbed(w)
    BY <1>3 DEF Whole!Parsing!Handle, Whole!Parsing!HandleDisturbed
  <2> QED BY <2>1, <2>2 DEF Whole!Handle, Whole!Disturb
<1>4. CASE (Whole!Generation!Call(w) \/ Whole!Generation!CallFails(w)) /\ UNCHANGED parseVars
  <2>1. UNCHANGED Whole!parseVars /\ UNCHANGED Whole!intakeVars
    BY <1>1, <1>2, <1>4 DEF Whole!parseVars, Whole!intakeVars, parseVars, intakeVars
  <2>2. Whole!Generation!Handle(w) \/ Whole!Generation!HandleDisturbed(w)
    BY <1>4 DEF Whole!Generation!Handle, Whole!Generation!HandleDisturbed
  <2> QED BY <2>1, <2>2 DEF Whole!Handle, Whole!Disturb
<1> QED BY <1>3, <1>4 DEF HandlerCalls, HandlerCallFails

\* A busy worker settles the message its handler was called with.
LEMMA InHandFacts ==
  ASSUME LedgerInv, HandTypes, NEW w \in Workers, HandOK(w), NEW i \in First(batch[w])
  PROVE  LET s == StreamOf[stage[w]]
             m == log[s][i]
         IN  /\ s \in Streams /\ i \in Ids(s)
             /\ parseAt[w] # "idle" =>
                  /\ s = "parse_jobs" /\ genAt[w] = "idle" /\ At(w) = parseAt[w]
                  /\ source[w] = m.task /\ parseCopy[w] = m.attempt
             /\ genAt[w] # "idle" =>
                  /\ s = "gen_jobs" /\ parseAt[w] = "idle" /\ At(w) = genAt[w]
                  /\ job[w] = m.task /\ genCopy[w] = m.attempt
<1> DEFINE s == StreamOf[stage[w]]
<1>1. s \in Streams /\ i \in Ids(s)
  BY InBatch DEF LedgerInv, QueueInv
<1>2. \A j \in First(batch[w]) : j = i
  BY FirstUnique DEF LedgerInv, QueueInv, TypeOK
<1>3. parseAt[w] = "idle" \/ genAt[w] = "idle"
  BY DEF HandOK
<1>4. ASSUME parseAt[w] # "idle"
      PROVE  s = "parse_jobs" /\ source[w] = log[s][i].task /\ parseCopy[w] = log[s][i].attempt
  BY <1>2, <1>4 DEF HandOK, InHand
<1>5. ASSUME genAt[w] # "idle"
      PROVE  s = "gen_jobs" /\ job[w] = log[s][i].task /\ genCopy[w] = log[s][i].attempt
  BY <1>2, <1>5 DEF HandOK, InHand
<1> QED BY <1>1, <1>3, <1>4, <1>5 DEF At

LEMMA ReturnRefines ==
  ASSUME DeploymentAssumption, LedgerInv, HandTypes, NEW w \in Workers, HandOK(w), Return(w)
  PROVE  Whole!Handle(w) \/ UNCHANGED Whole!vars
<1>1. /\ UNCHANGED handlerVars /\ UNCHANGED <<log, dlq, last, pending>>
      /\ handled \in [Streams -> SUBSET Task]
  BY DEF Return, HandlerReturns, streamVars, LedgerInv, QueueInv, TypeOK
<1>2. UNCHANGED <<ParsePhase, ParseRequeues, GenPhase, GenRequeues>>
  BY <1>1, LedgersStay, SameStreams DEF Streams
<1>3. CASE At(w) = "retry"
  <2>1. handled' = handled
    BY <1>3 DEF Return, HandlerReturns
  <2> QED BY <1>1, <1>2, <2>1 DEF Whole!vars, handlerVars, parseVars, genVars, intakeVars
<1>4. CASE At(w) = "ack"
  <2> DEFINE s == StreamOf[stage[w]]
  <2>1. PICK i \in First(batch[w]) : handled' = [handled EXCEPT ![s] = @ \cup {log[s][i].task}]
    BY <1>4 DEF Return, HandlerReturns
  <2> DEFINE t == log[s][i].task
  <2>2. /\ s \in Streams /\ i \in Ids(s) /\ t \in TasksOf[s] /\ Phase(s, t) # "absent"
        /\ parseAt[w] # "idle" => /\ s = "parse_jobs" /\ parseAt[w] = "ack" /\ source[w] = t
        /\ genAt[w] # "idle" => /\ s = "gen_jobs" /\ genAt[w] = "ack" /\ job[w] = t
    BY <1>4, InHandFacts, CopyIsLive
  <2>3. parseAt[w] # "idle" \/ genAt[w] # "idle"
    BY <1>4 DEF At
  <2>4. CASE parseAt[w] # "idle"
    <3>1. t \in ParseTasks /\ ParsePhase[t] # "absent" /\ source[w] = t /\ parseAt[w] = "ack"
      BY <2>2, <2>4 DEF TasksOf, ParsePhase
    <3>2. /\ handled'["parse_jobs"] = handled["parse_jobs"] \cup {t}
          /\ handled'["gen_jobs"] = handled["gen_jobs"]
      BY <1>1, <2>1, <2>2, <2>4 DEF Streams
    <3>3. UNCHANGED <<Whole!genVars, Whole!intakeVars>>
      BY <1>1, <1>2, <3>2 DEF Whole!genVars, Whole!intakeVars, handlerVars, genVars, intakeVars
    <3> HIDE DEF t, s
    <3>4. CASE t \in handled["parse_jobs"]
      <4>1. handled'["parse_jobs"] = handled["parse_jobs"]
        BY <3>2, <3>4
      <4> QED BY <1>1, <1>2, <3>2, <4>1 DEF Whole!vars, handlerVars, parseVars, genVars, intakeVars
    <3>5. CASE t \notin handled["parse_jobs"]
      <4>1. Whole!Parsing!Succeed(w)
        BY <1>1, <1>2, <3>1, <3>2, <3>5
           DEF Whole!Parsing!Succeed, Whole!Parsing!Queue!Succeed,
               Whole!Parsing!deliveryVars, handlerVars, parseVars
      <4> QED BY <3>3, <4>1 DEF Whole!Handle, Whole!Parsing!Handle
    <3> QED BY <3>4, <3>5
  <2>5. CASE genAt[w] # "idle"
    <3>1. t \in GenTasks /\ GenPhase[t] # "absent" /\ job[w] = t /\ genAt[w] = "ack"
      BY <2>2, <2>5 DEF TasksOf, GenPhase
    <3>2. /\ handled'["gen_jobs"] = handled["gen_jobs"] \cup {t}
          /\ handled'["parse_jobs"] = handled["parse_jobs"]
      BY <1>1, <2>1, <2>2, <2>5 DEF Streams
    <3>3. UNCHANGED <<Whole!parseVars, Whole!intakeVars>>
      BY <1>1, <1>2, <3>2 DEF Whole!parseVars, Whole!intakeVars, handlerVars, parseVars, intakeVars
    <3> HIDE DEF t, s
    <3>4. CASE t \in handled["gen_jobs"]
      <4>1. handled'["gen_jobs"] = handled["gen_jobs"]
        BY <3>2, <3>4
      <4> QED BY <1>1, <1>2, <3>2, <4>1 DEF Whole!vars, handlerVars, parseVars, genVars, intakeVars
    <3>5. CASE t \notin handled["gen_jobs"]
      <4>1. Whole!Generation!Succeed(w)
        BY <1>1, <1>2, <3>1, <3>2, <3>5
           DEF Whole!Generation!Succeed, Whole!Generation!Queue!Succeed,
               Whole!Generation!deliveryVars, Whole!Generation!rowVars, handlerVars,
               genVars
      <4> QED BY <3>3, <4>1 DEF Whole!Handle, Whole!Generation!Handle
    <3> QED BY <3>4, <3>5
  <2> QED BY <2>3, <2>4, <2>5
<1> QED BY <1>3, <1>4 DEF Return

\* A worker that leaves its message lets go of the handler it was busy with.
LEMMA LeaveEffect ==
  ASSUME HandTypes, NEW w \in Workers, Leave(w)
  PROVE  /\ parseAt' = [parseAt EXCEPT ![w] = "idle"] /\ genAt' = [genAt EXCEPT ![w] = "idle"]
         /\ parseAt[w] = "idle" => parseAt' = parseAt
         /\ genAt[w] = "idle" => genAt' = genAt
         /\ UNCHANGED <<upload, sourceStatus, rows, source, parseCopy, request, jobStatus,
                        counters, cards, links, job, genCopy, run, intake, deck, decks>>
  BY DEF Leave, HandTypes, intakeVars

\* What settling a message means for the ledger of its task.
SettledIn(P, R, H, t, live, ack) ==
  IF ~live THEN UNCHANGED <<P, R>>
  ELSE /\ P[t] = "queued"
       /\ IF ack THEN t \in H /\ P' = [P EXCEPT ![t] = "done"] /\ UNCHANGED R
          ELSE \/ /\ R[t] + 1 < MaxAttempts
                  /\ R' = [R EXCEPT ![t] = @ + 1] /\ UNCHANGED P
               \/ /\ R[t] + 1 = MaxAttempts
                  /\ P' = [P EXCEPT ![t] = "dead"] /\ UNCHANGED R

LEMMA SettleEffect ==
  ASSUME DeploymentAssumption, LedgerInv, LedgerInv', NEW w \in Workers,
         Ack(w) \/ RetryOrDLQ(w), NEW i \in First(batch[w]),
         NEW s, s = StreamOf[stage[w]], NEW t, t = log[s][i].task
  PROVE  /\ handled' = handled
         /\ \A r \in Streams \ {s} : PhaseOf(r)' = PhaseOf(r) /\ RequeuesOf(r)' = RequeuesOf(r)
         /\ Ack(w) => t \in handled[s]
         /\ SettledIn(PhaseOf(s), RequeuesOf(s), handled[s], t, i \in Live(s), Ack(w))
<1>1. "permanent" \notin Outcomes
  BY DEF DeploymentAssumption
<1>2. CASE Ack(w)
  <2>1. t \in handled[s]
    BY <1>2 DEF Ack, LedgerInv, QueueInv, AckJustified
  <2>2. /\ handled' = handled
        /\ \A r \in Streams \ {s} : PhaseOf(r)' = PhaseOf(r) /\ RequeuesOf(r)' = RequeuesOf(r)
        /\ IF i \in Live(s)
           THEN /\ PhaseOf(s)[t] = "queued"
                /\ PhaseOf(s)' = [PhaseOf(s) EXCEPT ![t] = "done"]
                /\ RequeuesOf(s)' = RequeuesOf(s)
           ELSE PhaseOf(s)' = PhaseOf(s) /\ RequeuesOf(s)' = RequeuesOf(s)
    BY <1>2, QueueAssumption, AckEffect
  <2> QED BY <1>2, <2>1, <2>2 DEF SettledIn
<1>3. CASE RetryOrDLQ(w)
  <2>1. ~Ack(w)
    BY <1>3 DEF Ack, RetryOrDLQ
  <2> QED BY <1>1, <1>3, <2>1, QueueAssumption, RetryEffect DEF SettledIn
<1> QED BY <1>2, <1>3

LEMMA SettleRefines ==
  ASSUME DeploymentAssumption, LedgerInv, LedgerInv', HandTypes, NEW w \in Workers, HandOK(w),
         Settle(w)
  PROVE  Whole!Handle(w)
<1>1. PICK i : i \in First(batch[w])
  BY DEF Settle, Ack, RetryOrDLQ
<1>2. PICK s, t, a : /\ s = StreamOf[stage[w]] /\ t = log[s][i].task /\ a = log[s][i].attempt
  OBVIOUS
<1>3. /\ s \in Streams /\ i \in Ids(s) /\ t \in TasksOf[s]
      /\ i \in Live(s) <=> Phase(s, t) = "queued" /\ Requeues(s, t) = a
  <2>1. s \in Streams /\ i \in Ids(s)
    BY <1>1, <1>2, InHandFacts
  <2> QED BY <1>2, <2>1, CopyIsLive
<1>4. /\ handled' = handled
      /\ \A r \in Streams \ {s} : PhaseOf(r)' = PhaseOf(r) /\ RequeuesOf(r)' = RequeuesOf(r)
      /\ Ack(w) => t \in handled[s]
      /\ SettledIn(PhaseOf(s), RequeuesOf(s), handled[s], t, i \in Live(s), Ack(w))
  BY <1>1, <1>2, SettleEffect DEF Settle
<1>5. /\ Ack(w) \/ RetryOrDLQ(w)
      /\ At(w) = IF Ack(w) THEN "ack" ELSE "retry"
  BY DEF Settle, HandOK, Ack, RetryOrDLQ
<1>6. UNCHANGED <<parseLapses, genLapses>> /\ Leave(w)
  BY DEF Settle
<1>7. CASE parseAt[w] # "idle"
  <2>1. /\ s = "parse_jobs" /\ t \in ParseTasks /\ source[w] = t /\ parseCopy[w] = a
        /\ genAt[w] = "idle" /\ parseAt[w] = IF Ack(w) THEN "ack" ELSE "retry"
    BY <1>1, <1>2, <1>3, <1>5, <1>7, InHandFacts DEF TasksOf
  <2>2. UNCHANGED <<GenPhase, GenRequeues>>
    BY <1>4, <2>1, LedgerNames DEF Streams
  <2>3. UNCHANGED Whole!genVars /\ UNCHANGED Whole!intakeVars
    BY <1>4, <1>6, <2>1, <2>2, LeaveEffect DEF Whole!genVars, Whole!intakeVars
  <2>4. SettledIn(ParsePhase, ParseRequeues, handled["parse_jobs"], t, i \in Live(s), Ack(w))
    BY <1>4, <2>1, LedgerNames DEF SettledIn
  <2>5. i \in Live(s) <=> Whole!Parsing!Current(w)
    BY <1>3, <2>1 DEF Whole!Parsing!Current, ParsePhase, ParseRequeues
  <2>6. /\ Whole!Parsing!Go(w, "idle") /\ UNCHANGED <<upload, sourceStatus, rows>>
        /\ UNCHANGED parseLapses /\ handled' = handled
    BY <1>4, <1>6, LeaveEffect DEF Whole!Parsing!Go
  <2>7. Whole!Parsing!Ack(w) \/ Whole!Parsing!Retry(w)
    BY <1>4, <2>1, <2>4, <2>5, <2>6
       DEF SettledIn, Whole!Parsing!Ack, Whole!Parsing!Retry, Whole!Parsing!ledgerVars,
           Whole!Parsing!Queue!Complete, Whole!Parsing!Queue!Requeue, Whole!Parsing!Queue!Bury
  <2> QED BY <2>3, <2>7 DEF Whole!Handle, Whole!Parsing!Handle
<1>8. CASE genAt[w] # "idle"
  <2>1. /\ s = "gen_jobs" /\ t \in GenTasks /\ job[w] = t /\ genCopy[w] = a
        /\ parseAt[w] = "idle" /\ genAt[w] = IF Ack(w) THEN "ack" ELSE "retry"
    BY <1>1, <1>2, <1>3, <1>5, <1>8, InHandFacts DEF TasksOf
  <2>2. UNCHANGED <<ParsePhase, ParseRequeues>>
    BY <1>4, <2>1, LedgerNames DEF Streams
  <2>3. UNCHANGED Whole!parseVars /\ UNCHANGED Whole!intakeVars
    BY <1>4, <1>6, <2>1, <2>2, LeaveEffect DEF Whole!parseVars, Whole!intakeVars
  <2>4. SettledIn(GenPhase, GenRequeues, handled["gen_jobs"], t, i \in Live(s), Ack(w))
    BY <1>4, <2>1, LedgerNames DEF SettledIn
  <2>5. i \in Live(s) <=> Whole!Generation!Current(w)
    BY <1>3, <2>1 DEF Whole!Generation!Current, GenPhase, GenRequeues
  <2>6. /\ Whole!Generation!Go(w, "idle") /\ UNCHANGED <<request, jobStatus, counters, cards, links>>
        /\ UNCHANGED genLapses /\ handled' = handled
    BY <1>4, <1>6, LeaveEffect DEF Whole!Generation!Go, Whole!Generation!Goto
  <2>7. Whole!Generation!Ack(w) \/ Whole!Generation!Retry(w)
    BY <1>4, <2>1, <2>4, <2>5, <2>6
       DEF SettledIn, Whole!Generation!Ack, Whole!Generation!Retry, Whole!Generation!ledgerVars,
           Whole!Generation!rowVars, Whole!Generation!Queue!Complete,
           Whole!Generation!Queue!Requeue, Whole!Generation!Queue!Bury
  <2> QED BY <2>3, <2>7 DEF Whole!Handle, Whole!Generation!Handle
<1> QED BY <1>5, <1>7, <1>8 DEF At

LEMMA DropRefines ==
  ASSUME DeploymentAssumption, LedgerInv, HandTypes, NEW w \in Workers, HandOK(w), Drop(w)
  PROVE  Whole!Disturb(w) \/ UNCHANGED Whole!vars
<1>1. /\ Leave(w) /\ Calm /\ UNCHANGED <<log, dlq, last, pending, handled>>
      /\ parseLapses' = parseLapses + (IF parseAt[w] = "idle" THEN 0 ELSE 1)
      /\ genLapses' = genLapses + (IF genAt[w] = "idle" THEN 0 ELSE 1)
  BY DEF Drop, Stop, SettleFails, streamVars
<1>2. UNCHANGED <<ParsePhase, ParseRequeues, GenPhase, GenRequeues>>
  BY <1>1, LedgersStay, SameStreams DEF Streams
<1>3. /\ parseLapses < MaxLapses /\ genLapses < MaxLapses
      /\ parseLapses \in Nat /\ genLapses \in Nat
  BY <1>1, CalmFacts DEF HandTypes
<1>4. parseAt[w] = "idle" \/ genAt[w] = "idle"
  BY DEF HandOK
<1>5. CASE parseAt[w] # "idle"
  <2>1. UNCHANGED Whole!genVars /\ UNCHANGED Whole!intakeVars
    <3>1. genLapses' = genLapses
      BY <1>1, <1>3, <1>4, <1>5
    <3> QED BY <1>1, <1>2, <1>4, <1>5, <3>1, LeaveEffect DEF Whole!genVars, Whole!intakeVars
  <2>2. Whole!Parsing!Fault
    BY <1>1, <1>3, <1>5 DEF Whole!Parsing!Fault
  <2>3. Whole!Parsing!Crash(w)
    BY <1>1, <1>2, <1>5, <2>2, LeaveEffect
       DEF Whole!Parsing!Crash, Whole!Parsing!Go, Whole!Parsing!ledgerVars
  <2> QED BY <2>1, <2>3 DEF Whole!Disturb, Whole!Parsing!HandleDisturbed
<1>6. CASE genAt[w] # "idle"
  <2>1. UNCHANGED Whole!parseVars /\ UNCHANGED Whole!intakeVars
    <3>1. parseLapses' = parseLapses
      BY <1>1, <1>3, <1>4, <1>6
    <3> QED BY <1>1, <1>2, <1>4, <1>6, <3>1, LeaveEffect DEF Whole!parseVars, Whole!intakeVars
  <2>2. Whole!Generation!Fault
    BY <1>1, <1>3, <1>6 DEF Whole!Generation!Fault
  <2>3. Whole!Generation!Crash(w)
    BY <1>1, <1>2, <1>6, <2>2, LeaveEffect
       DEF Whole!Generation!Crash, Whole!Generation!Go, Whole!Generation!Goto,
           Whole!Generation!ledgerVars, Whole!Generation!rowVars
  <2> QED BY <2>1, <2>3 DEF Whole!Disturb, Whole!Generation!HandleDisturbed
<1>7. CASE parseAt[w] = "idle" /\ genAt[w] = "idle"
  <2>1. parseLapses' = parseLapses /\ genLapses' = genLapses
    BY <1>1, <1>3, <1>7
  <2> QED BY <1>1, <1>2, <1>7, <2>1, LeaveEffect DEF Whole!vars
<1> QED BY <1>5, <1>6, <1>7

LEMMA WholeInit == AppInit => Whole!Init
<1> SUFFICES ASSUME AppInit PROVE Whole!Init
  OBVIOUS
<1>1. \A s \in Streams : Enqueued(s) = {} /\ LiveTasks(s) = {} /\ DeadTasks(s) = {}
  BY DEF AppInit, Init, Enqueued, LiveTasks, DeadTasks, Live, Ids
<1>2. \A s \in Streams : \A t : Phase(s, t) = "absent" /\ Requeues(s, t) = 0
  BY <1>1, RequeuesNone DEF Phase
<1>3. /\ ParsePhase = [s \in ParseTasks |-> "absent"] /\ ParseRequeues = [s \in ParseTasks |-> 0]
      /\ GenPhase = [j \in GenTasks |-> "absent"] /\ GenRequeues = [j \in GenTasks |-> 0]
      /\ handled["parse_jobs"] = {} /\ handled["gen_jobs"] = {}
  BY <1>2 DEF ParsePhase, ParseRequeues, GenPhase, GenRequeues, Streams, AppInit, Init
<1>4. Whole!Parsing!Init
  BY <1>3 DEF AppInit, Whole!Parsing!Init, Whole!Parsing!Queue!Init
<1>5. Whole!Generation!Init
  BY <1>3 DEF AppInit, Whole!Generation!Init, Whole!Generation!Queue!Init
<1> QED BY <1>4, <1>5 DEF AppInit, Whole!Init

LEMMA WholeStep ==
  ASSUME DeploymentAssumption, LedgerInv, LedgerInv', HandTypes, HandSound, [AppNext]_appVars
  PROVE  [Whole!Next]_(Whole!vars)
<1>0. \A w \in Workers : HandOK(w)
  BY DEF HandSound
<1>1. ASSUME NEW s \in ParseTasks, UploadCall(s) \/ UploadEnqueue(s) PROVE Whole!Next
  BY <1>1, UploadRefines DEF Whole!Next
<1>2. ASSUME NEW j \in GenTasks, JobCall(j) \/ JobEnqueue(j) PROVE Whole!Next
  BY <1>2, JobRefines DEF Whole!Next
<1>3. ASSUME \/ \E w \in Workers : Fetch(w) \/ FetchDisturbed(w)
             \/ \E s \in Streams : \E i \in pending[s] : Tick(s, i)
      PROVE  UNCHANGED Whole!vars
  BY <1>3, FetchRefines
<1>4. ASSUME NEW w \in Workers, HandOver(w) PROVE Whole!Next
  BY <1>4, HandOverRefines DEF Whole!Next
<1>5. ASSUME NEW w \in Workers, HandlerCalls(w) \/ HandlerCallFails(w) PROVE Whole!Next
  BY <1>5, CallRefines DEF Whole!Next
<1>6. ASSUME NEW w \in Workers, Return(w) PROVE [Whole!Next]_(Whole!vars)
  BY <1>0, <1>6, ReturnRefines DEF Whole!Next
<1>7. ASSUME NEW w \in Workers, Settle(w) PROVE Whole!Next
  BY <1>0, <1>7, SettleRefines DEF Whole!Next
<1>8. ASSUME NEW w \in Workers, Drop(w) PROVE [Whole!Next]_(Whole!vars)
  BY <1>0, <1>8, DropRefines DEF Whole!Next
<1>9. CASE UNCHANGED appVars
  <2>1. UNCHANGED <<ParsePhase, ParseRequeues, GenPhase, GenRequeues>>
    BY <1>9, LedgersStay, SameStreams DEF Streams, appVars, queueVars
  <2> QED BY <1>9, <2>1 DEF Whole!vars, appVars, queueVars, handlerVars, parseVars, genVars,
                            intakeVars
<1> QED BY <1>1, <1>2, <1>3, <1>4, <1>5, <1>6, <1>7, <1>8, <1>9 DEF AppNext, Loop

\* The deployment implements the application over ledgers: whatever batches,
\* claims, lost replies and late workers do to the streams, the tables see what
\* AutoAnki says, so that all that is proved of AutoAnki holds of the deployment
\* (queue.go:265-270, cmd/worker/main.go:159-212).
THEOREM DeploymentImplementsApplication == AppSpec => WholeSpec
<1>1. AppInit => Whole!Init
  BY WholeInit
<1>2. LedgerInv /\ LedgerInv' /\ (HandTypes /\ HandSound) /\ [AppNext]_appVars
        => [Whole!Next]_(Whole!vars)
  <2> SUFFICES ASSUME LedgerInv, LedgerInv', HandTypes, HandSound, [AppNext]_appVars
               PROVE  [Whole!Next]_(Whole!vars)
    OBVIOUS
  <2> QED BY DeploymentAssumption, WholeStep
<1> QED BY <1>1, <1>2, LedgersInvariant, HandsInvariant, PTL DEF AppSpec, WholeSpec, Whole!Spec

-----------------------------------------------------------------------------
(* What is proved of the application holds of the deployment.  The module of *)
(* proofs about AutoAnki extends it: both instances have the same            *)
(* definitions, expanded here to the last one.                               *)

Proved == INSTANCE AutoAnki_proofs WITH
  Sources       <- ParseTasks,
  Jobs          <- GenTasks,
  MaxFaults     <- MaxLapses,
  parsePhase    <- ParsePhase,
  parseRequeues <- ParseRequeues,
  parseHandled  <- handled["parse_jobs"],
  parseFaults   <- parseLapses,
  genPhase      <- GenPhase,
  genRequeues   <- GenRequeues,
  genHandled    <- handled["gen_jobs"],
  genFaults     <- genLapses

LEMMA SameWholeInit == Whole!Init => Proved!Init
  BY DEF
     Whole!Init, Proved!Init, Whole!Parsing!Init, Proved!Parsing!Init,
     Whole!Generation!Init, Proved!Generation!Init, Whole!Parsing!Nobody,
     Proved!Parsing!Nobody, Whole!Parsing!Ords, Proved!Parsing!Ords,
     Whole!Generation!Counted, Proved!Generation!Counted, Whole!Generation!NewRun,
     Proved!Generation!NewRun, Whole!Parsing!Queue!Init, Proved!Parsing!Queue!Init,
     Whole!Generation!Queue!Init, Proved!Generation!Queue!Init

LEMMA SameWholeStep == [Whole!Next]_(Whole!vars) => [Proved!Next]_(Proved!vars)
  BY DEF
     Whole!Next, Proved!Next, Whole!LookUpSource, Proved!LookUpSource, Whole!FindDeck,
     Proved!FindDeck, Whole!CreateDeck, Proved!CreateDeck, Whole!GiveUp, Proved!GiveUp,
     Whole!Submit, Proved!Submit, Whole!Upload, Proved!Upload, Whole!BeginParse,
     Proved!BeginParse, Whole!BeginGen, Proved!BeginGen, Whole!BeginLate,
     Proved!BeginLate, Whole!Handle, Proved!Handle, Whole!Disturb, Proved!Disturb,
     Whole!Idle, Proved!Idle, Whole!Admits, Proved!Admits, Whole!vars, Proved!vars,
     Whole!parseVars, Proved!parseVars, Whole!genVars, Proved!genVars, Whole!intakeVars,
     Proved!intakeVars, Whole!Parsing!Nobody, Proved!Parsing!Nobody, Whole!Parsing!Ords,
     Proved!Parsing!Ords, Whole!Parsing!Fault, Proved!Parsing!Fault,
     Whole!Parsing!UpdateStatus, Proved!Parsing!UpdateStatus, Whole!Parsing!ApiStep,
     Proved!Parsing!ApiStep, Whole!Parsing!Create, Proved!Parsing!Create,
     Whole!Parsing!CreateUnconfirmed, Proved!Parsing!CreateUnconfirmed,
     Whole!Parsing!Enqueue, Proved!Parsing!Enqueue, Whole!Parsing!EnqueueFails,
     Proved!Parsing!EnqueueFails, Whole!Parsing!Rollback, Proved!Parsing!Rollback,
     Whole!Parsing!RollbackFails, Proved!Parsing!RollbackFails, Whole!Parsing!ApiCrash,
     Proved!Parsing!ApiCrash, Whole!Parsing!Go, Proved!Parsing!Go, Whole!Parsing!Take,
     Proved!Parsing!Take, Whole!Parsing!Begin, Proved!Parsing!Begin,
     Whole!Parsing!BeginLate, Proved!Parsing!BeginLate, Whole!Parsing!Find,
     Proved!Parsing!Find, Whole!Parsing!Claim, Proved!Parsing!Claim,
     Whole!Parsing!Refind, Proved!Parsing!Refind, Whole!Parsing!Prepare,
     Proved!Parsing!Prepare, Whole!Parsing!InsertBatch, Proved!Parsing!InsertBatch,
     Whole!Parsing!Insert, Proved!Parsing!Insert, Whole!Parsing!Finish,
     Proved!Parsing!Finish, Whole!Parsing!Confirm, Proved!Parsing!Confirm,
     Whole!Parsing!MarkError, Proved!Parsing!MarkError, Whole!Parsing!MarkErrorFails,
     Proved!Parsing!MarkErrorFails, Whole!Parsing!FindFails, Proved!Parsing!FindFails,
     Whole!Parsing!ClaimFails, Proved!Parsing!ClaimFails, Whole!Parsing!PrepareFails,
     Proved!Parsing!PrepareFails, Whole!Parsing!InsertFails, Proved!Parsing!InsertFails,
     Whole!Parsing!FinishFails, Proved!Parsing!FinishFails, Whole!Parsing!Crash,
     Proved!Parsing!Crash, Whole!Parsing!Current, Proved!Parsing!Current,
     Whole!Parsing!Succeed, Proved!Parsing!Succeed, Whole!Parsing!Ack,
     Proved!Parsing!Ack, Whole!Parsing!Retry, Proved!Parsing!Retry,
     Whole!Parsing!SettleFails, Proved!Parsing!SettleFails, Whole!Parsing!Api,
     Proved!Parsing!Api, Whole!Parsing!ApiDisturbed, Proved!Parsing!ApiDisturbed,
     Whole!Parsing!Handle, Proved!Parsing!Handle, Whole!Parsing!HandleDisturbed,
     Proved!Parsing!HandleDisturbed, Whole!Parsing!ledgerVars,
     Proved!Parsing!ledgerVars, Whole!Parsing!deliveryVars, Proved!Parsing!deliveryVars,
     Whole!Parsing!Queue!Submit, Proved!Parsing!Queue!Submit,
     Whole!Parsing!Queue!Succeed, Proved!Parsing!Queue!Succeed,
     Whole!Parsing!Queue!Complete, Proved!Parsing!Queue!Complete,
     Whole!Parsing!Queue!Requeue, Proved!Parsing!Queue!Requeue,
     Whole!Parsing!Queue!Bury, Proved!Parsing!Queue!Bury, Whole!Generation!Rounds,
     Proved!Generation!Rounds, Whole!Generation!Finished, Proved!Generation!Finished,
     Whole!Generation!Range, Proved!Generation!Range, Whole!Generation!Cardinality,
     Proved!Generation!Cardinality, Whole!Generation!NewRun, Proved!Generation!NewRun,
     Whole!Generation!Counted, Proved!Generation!Counted, Whole!Generation!Fault,
     Proved!Generation!Fault, Whole!Generation!MarkRunning,
     Proved!Generation!MarkRunning, Whole!Generation!MarkFinished,
     Proved!Generation!MarkFinished, Whole!Generation!ApiStep,
     Proved!Generation!ApiStep, Whole!Generation!Create, Proved!Generation!Create,
     Whole!Generation!CreateUnconfirmed, Proved!Generation!CreateUnconfirmed,
     Whole!Generation!Enqueue, Proved!Generation!Enqueue, Whole!Generation!EnqueueFails,
     Proved!Generation!EnqueueFails, Whole!Generation!Rollback,
     Proved!Generation!Rollback, Whole!Generation!RollbackFails,
     Proved!Generation!RollbackFails, Whole!Generation!ApiCrash,
     Proved!Generation!ApiCrash, Whole!Generation!Goto, Proved!Generation!Goto,
     Whole!Generation!Go, Proved!Generation!Go, Whole!Generation!Take,
     Proved!Generation!Take, Whole!Generation!Begin, Proved!Generation!Begin,
     Whole!Generation!BeginLate, Proved!Generation!BeginLate, Whole!Generation!Find,
     Proved!Generation!Find, Whole!Generation!Claim, Proved!Generation!Claim,
     Whole!Generation!Refind, Proved!Generation!Refind, Whole!Generation!Generate,
     Proved!Generation!Generate, Whole!Generation!Citations,
     Proved!Generation!Citations, Whole!Generation!Linked, Proved!Generation!Linked,
     Whole!Generation!Upsert, Proved!Generation!Upsert,
     Whole!Generation!InsertBatchWithLinks, Proved!Generation!InsertBatchWithLinks,
     Whole!Generation!Insert, Proved!Generation!Insert, Whole!Generation!Finish,
     Proved!Generation!Finish, Whole!Generation!FailJob, Proved!Generation!FailJob,
     Whole!Generation!FindFails, Proved!Generation!FindFails,
     Whole!Generation!ClaimFails, Proved!Generation!ClaimFails,
     Whole!Generation!GenerateFails, Proved!Generation!GenerateFails,
     Whole!Generation!InsertFails, Proved!Generation!InsertFails,
     Whole!Generation!FinishFails, Proved!Generation!FinishFails,
     Whole!Generation!FailJobFails, Proved!Generation!FailJobFails,
     Whole!Generation!Crash, Proved!Generation!Crash, Whole!Generation!Current,
     Proved!Generation!Current, Whole!Generation!Succeed, Proved!Generation!Succeed,
     Whole!Generation!Ack, Proved!Generation!Ack, Whole!Generation!Retry,
     Proved!Generation!Retry, Whole!Generation!SettleFails,
     Proved!Generation!SettleFails, Whole!Generation!Api, Proved!Generation!Api,
     Whole!Generation!ApiDisturbed, Proved!Generation!ApiDisturbed,
     Whole!Generation!Handle, Proved!Generation!Handle,
     Whole!Generation!HandleDisturbed, Proved!Generation!HandleDisturbed,
     Whole!Generation!rowVars, Proved!Generation!rowVars, Whole!Generation!ledgerVars,
     Proved!Generation!ledgerVars, Whole!Generation!deliveryVars,
     Proved!Generation!deliveryVars, Whole!Generation!Queue!Submit,
     Proved!Generation!Queue!Submit, Whole!Generation!Queue!Succeed,
     Proved!Generation!Queue!Succeed, Whole!Generation!Queue!Complete,
     Proved!Generation!Queue!Complete, Whole!Generation!Queue!Requeue,
     Proved!Generation!Queue!Requeue, Whole!Generation!Queue!Bury,
     Proved!Generation!Queue!Bury, Whole!Parsing!Call, Proved!Parsing!Call,
     Whole!Parsing!CallFails, Proved!Parsing!CallFails, Whole!Generation!Call,
     Proved!Generation!Call, Whole!Generation!CallFails, Proved!Generation!CallFails

LEMMA SameWholeAssumptions == Proved!CompositionAssumption /\ Proved!PartsAssumption
  BY DeploymentAssumption DEF DeploymentAssumption,
     Whole!CompositionAssumption, Proved!CompositionAssumption, Whole!PartsAssumption,
     Proved!PartsAssumption, Whole!Parsing!ParsingAssumption,
     Proved!Parsing!ParsingAssumption, Whole!Generation!GenerationAssumption,
     Proved!Generation!GenerationAssumption, Whole!Parsing!Nobody, Proved!Parsing!Nobody,
     Whole!Generation!Rounds, Proved!Generation!Rounds, Whole!Range, Proved!Range

LEMMA DeployedApplication == AppSpec => Proved!Spec
  BY DeploymentImplementsApplication, SameWholeInit, SameWholeStep, PTL
     DEF WholeSpec, Whole!Spec, Proved!Spec

\* The parts, as their own proofs know them.
LEMMA DeployedParsing == AppSpec => Proved!P!Spec
<1>1. Proved!Spec => Proved!Parsing!Spec
  BY SameWholeAssumptions, Proved!WholeParses
<1>2. Proved!Parsing!Spec => Proved!P!Spec
  BY SameWholeAssumptions, Proved!SameParsingInit, Proved!SameParsingStep, PTL
     DEF Proved!Parsing!Spec, Proved!P!Spec
<1> QED BY <1>1, <1>2, DeployedApplication

LEMMA DeployedGeneration == AppSpec => Proved!G!Spec
<1>1. Proved!Spec => Proved!Generation!Spec
  BY SameWholeAssumptions, Proved!WholeGenerates
<1>2. Proved!Generation!Spec => Proved!G!Spec
  BY SameWholeAssumptions, Proved!SameGenerationInit, Proved!SameGenerationStep, PTL
     DEF Proved!Generation!Spec, Proved!G!Spec
<1> QED BY <1>1, <1>2, DeployedApplication

LEMMA PartsAssumed == Proved!P!ParsingAssumption /\ Proved!G!GenerationAssumption
  BY SameWholeAssumptions, Proved!SameAssumptions

\* In the deployment, an indexed source has all its chunks, of one delivery.
THEOREM DeployedSourcesComplete == AppSpec => []Whole!Parsing!IndexedComplete
<1>1. Proved!P!IndexedComplete => Whole!Parsing!IndexedComplete
  BY DEF Proved!P!IndexedComplete, Whole!Parsing!IndexedComplete, Proved!P!Ords,
         Whole!Parsing!Ords, Proved!P!Nobody, Whole!Parsing!Nobody
<1>2. Proved!P!Spec => []Proved!P!IndexedComplete
  BY SameWholeAssumptions, PartsAssumed, Proved!P!IndexedSourcesComplete
<1> QED BY <1>1, <1>2, DeployedParsing, PTL

\* In the deployment, a source between upload and outcome has a message in its
\* stream or its DLQ, or its request is under way or never enqueued one.
THEOREM DeployedSourcesNotForgotten == AppSpec => []Whole!Parsing!NotForgotten
<1>1. Proved!P!NotForgotten => Whole!Parsing!NotForgotten
  BY DEF Proved!P!NotForgotten, Whole!Parsing!NotForgotten
<1>2. Proved!P!Spec => []Proved!P!NotForgotten
  BY SameWholeAssumptions, PartsAssumed, Proved!P!SourcesNotForgotten
<1> QED BY <1>1, <1>2, DeployedParsing, PTL

\* The same of a job.
THEOREM DeployedJobsNotForgotten == AppSpec => []Whole!Generation!NotForgotten
<1>1. Proved!G!NotForgotten => Whole!Generation!NotForgotten
  BY DEF Proved!G!NotForgotten, Whole!Generation!NotForgotten
<1>2. Proved!G!Spec => []Proved!G!NotForgotten
  BY SameWholeAssumptions, PartsAssumed, Proved!G!JobsNotForgotten
<1> QED BY <1>1, <1>2, DeployedGeneration, PTL

\* In the deployment, whatever the model answers each time it is asked, a ready job
\* has the counters of one run and all the cards of it.
THEOREM DeployedReadyJobsHaveRun == AppSpec => []Whole!Generation!ReadyHasRun
<1>1. Proved!G!ReadyHasRun => Whole!Generation!ReadyHasRun
  BY DEF Proved!G!ReadyHasRun, Whole!Generation!ReadyHasRun, Proved!G!IsRow,
         Whole!Generation!IsRow, Proved!G!Runs, Whole!Generation!Runs, Proved!G!Given,
         Whole!Generation!Given, Proved!G!Answers, Whole!Generation!Answers,
         Proved!G!Rounds, Whole!Generation!Rounds, Proved!G!Range, Whole!Generation!Range,
         Proved!G!Cardinality, Whole!Generation!Cardinality
<1>2. Proved!G!Spec => []Proved!G!ReadyHasRun
  BY SameWholeAssumptions, PartsAssumed, Proved!G!ReadyJobsHaveRun
<1> QED BY <1>1, <1>2, DeployedGeneration, PTL

\* In the deployment, a job is about a source that is indexed and a deck that
\* exists, both its user's.
THEOREM DeployedJobsFounded == AppSpec => []Whole!JobsFounded
<1>1. Proved!JobsFounded => Whole!JobsFounded
  BY DEF Proved!JobsFounded, Whole!JobsFounded, Proved!Parsing!Nobody, Whole!Parsing!Nobody
<1>2. Proved!Spec => []Proved!JobsFounded
  BY SameWholeAssumptions, Proved!JobsAreFounded
<1> QED BY <1>1, <1>2, DeployedApplication, PTL

\* In the deployment, the chunks that cards cite stay as they are.
THEOREM DeployedCitedChunksStay == AppSpec => Whole!CitedChunksStay
<1>1. Proved!CitedChunksStay => Whole!CitedChunksStay
  BY PTL DEF Proved!CitedChunksStay, Whole!CitedChunksStay, Proved!Parsing!Nobody,
             Whole!Parsing!Nobody, Proved!vars, Whole!vars
<1>2. Proved!Spec => Proved!CitedChunksStay
  BY SameWholeAssumptions, Proved!CitedChunksAreKept
<1> QED BY <1>1, <1>2, DeployedApplication
=============================================================================
