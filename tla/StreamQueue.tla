---------------------------- MODULE StreamQueue ----------------------------
(***************************************************************************)
(* The job queue: two Redis streams read through one consumer group by     *)
(* several workers (internal/infra/redisq/queue.go), and the loop each     *)
(* worker runs over them (cmd/worker/main.go).                             *)
(*                                                                         *)
(* A task stands for one executed XADD of an enqueue call.  The id of a    *)
(* message is its position in the stream: ids grow, and the program never  *)
(* trims a stream.  The owner recorded in the pending-entries list (PEL)   *)
(* is left out, since no command the program issues consults it: XACK and  *)
(* XAUTOCLAIM work on the group's PEL whoever the owner is.  Time is left  *)
(* out too: any pending entry may at any moment have been idle for longer  *)
(* than the claim threshold, also one whose worker is still busy with it.  *)
(***************************************************************************)
EXTENDS Integers, Sequences, FiniteSets

CONSTANTS Workers,         \* the worker processes
          ParseTasks,      \* enqueues of the parse_jobs stream
          GenTasks,        \* enqueues of the gen_jobs stream
          MaxAttempts,     \* STREAM_MAX_ATTEMPTS
          ParseBatchSize,  \* PARSE_BATCH_SIZE
          GenBatchSize,    \* GEN_BATCH_SIZE
          Outcomes,        \* what a handler may return
          MaxFaults        \* bound on stops and failed or lost Redis calls

Results == {"ok", "transient", "permanent"}

ASSUME QueueAssumption ==
  /\ MaxAttempts \in Nat \ {0}
  /\ ParseBatchSize \in Nat \ {0}
  /\ GenBatchSize \in Nat \ {0}
  /\ MaxFaults \in Nat
  /\ Outcomes \subseteq Results

VARIABLES log,      \* the streams, append-only
          dlq,      \* the dead-letter stream of each
          group,    \* does the consumer group exist
          last,     \* the group's last delivered id
          pending,  \* the group's PEL
          idle,     \* the entries of the PEL idle beyond the claim threshold
          stage,    \* where each worker is in runLoopOnce
          cursor,   \* each worker's parseCursor and genCursor
          batch,    \* messages of the current stage it has not finished
          pc,       \* its step in the stage
          handled,  \* history: tasks with a run of the handler that returned nil
          faults    \* stops and failed or lost calls so far

streamVars == <<log, dlq, group, last, pending, idle>>
workerVars == <<stage, cursor, batch, pc>>
vars == <<log, dlq, group, last, pending, idle, stage, cursor, batch, pc,
          handled, faults>>

-----------------------------------------------------------------------------
(* Streams, stages and messages. *)

Streams == {"parse_jobs", "gen_jobs"}

TasksOf == [parse_jobs |-> ParseTasks, gen_jobs |-> GenTasks]

BatchSize == [parse_jobs |-> ParseBatchSize, gen_jobs |-> GenBatchSize]

\* The four stages of runLoopOnce, in order; after the last the loop repeats.
NextStage == [claim_parse |-> "read_parse",
              read_parse  |-> "claim_gen",
              claim_gen   |-> "read_gen",
              read_gen    |-> "claim_parse"]

Stages == DOMAIN NextStage

StreamOf == [claim_parse |-> "parse_jobs", read_parse |-> "parse_jobs",
             claim_gen   |-> "gen_jobs",   read_gen   |-> "gen_jobs"]

Claims == {"claim_parse", "claim_gen"}

\* The fields of a message the code acts on, and the error_kind it records.
Task == ParseTasks \cup GenTasks

Entry == [task : Task, attempt : Nat, kind : {"none", "transient", "permanent"}]

Ids(s) == 1..Len(log[s])

\* The tasks some message of the stream carries.
Enqueued(s) == {log[s][i].task : i \in Ids(s)}

\* Not delivered yet, or delivered and not acknowledged.
Live(s) == {i \in Ids(s) : i > last[s] \/ i \in pending[s]}

\* The least element of a nonempty set of ids.
First(S) == {i \in S : \A j \in S : i <= j}

-----------------------------------------------------------------------------
Init ==
  /\ log     = [s \in Streams |-> << >>]
  /\ dlq     = [s \in Streams |-> << >>]
  /\ group   = [s \in Streams |-> FALSE]
  /\ last    = [s \in Streams |-> 0]
  /\ pending = [s \in Streams |-> {}]
  /\ idle    = [s \in Streams |-> {}]
  /\ stage   = [w \in Workers |-> "claim_parse"]
  /\ cursor  = [w \in Workers |-> [s \in Streams |-> 0]]
  /\ batch   = [w \in Workers |-> {}]
  /\ pc      = [w \in Workers |-> "down"]
  /\ handled = [s \in Streams |-> {}]
  /\ faults  = 0

\* One more stop, or call to Redis that failed or whose reply was lost.
Fault == faults < MaxFaults /\ faults' = faults + 1

\* EnqueueParseSource, EnqueueGenerateCards: XADD with attempt 0.
Enqueue(s, t) ==
  /\ t \in TasksOf[s] \ Enqueued(s)
  /\ log' = [log EXCEPT ![s] =
               Append(@, [task |-> t, attempt |-> 0, kind |-> "none"])]
  /\ UNCHANGED <<dlq, group, last, pending, idle, workerVars, handled, faults>>

-----------------------------------------------------------------------------
(* Starting and stopping a worker. *)

\* (a mistake: "$" starts the group after the messages already there)
GroupStartAtEnd(s) == Len(log[s])

\* XGROUP CREATE ... "0": the group starts before the first message.
GroupStart(s) == 0

\* (a mistake: a group that exists is set back as well)
EnsureGroupResets(S) ==
  /\ group' = [s \in Streams |-> group[s] \/ s \in S]
  /\ last'  = [s \in Streams |-> IF s \in S THEN GroupStart(s) ELSE last[s]]

\* ensureGroup on the streams of S; BUSYGROUP (it exists already) is no error.
EnsureGroup(S) ==
  /\ group' = [s \in Streams |-> group[s] \/ s \in S]
  /\ last'  = [s \in Streams |->
                 IF s \in S /\ ~group[s] THEN GroupStart(s) ELSE last[s]]

\* main: EnsureGroups, cursors at "0-0", then the loop.
Start(w) ==
  /\ pc[w] = "down"
  /\ EnsureGroup(Streams)
  /\ pc'     = [pc EXCEPT ![w] = "fetch"]
  /\ stage'  = [stage EXCEPT ![w] = "claim_parse"]
  /\ cursor' = [cursor EXCEPT ![w] = [s \in Streams |-> 0]]
  /\ UNCHANGED <<log, dlq, pending, idle, batch, handled, faults>>

\* EnsureGroups failed and main exits; parse_jobs comes first, so its group may
\* have been created.
StartFails(w) ==
  /\ Fault
  /\ pc[w] = "down"
  /\ \E S \in {{}, {"parse_jobs"}, Streams} : EnsureGroup(S)
  /\ UNCHANGED <<log, dlq, pending, idle, workerVars, handled>>

\* A crash, or a shutdown signal: the rest of the batch is dropped without ack
\* or retry and stays in the PEL.
Stop(w) ==
  /\ Fault
  /\ pc[w] # "down"
  /\ pc'    = [pc EXCEPT ![w] = "down"]
  /\ batch' = [batch EXCEPT ![w] = {}]
  /\ UNCHANGED <<streamVars, stage, cursor, handled>>

-----------------------------------------------------------------------------
(* One pass of runLoopOnce. *)

\* processBatch goes on with these messages; with none left the stage is over.
Proceed(w, ids) ==
  /\ batch' = [batch EXCEPT ![w] = ids]
  /\ IF ids = {}
     THEN /\ pc'    = [pc EXCEPT ![w] = "fetch"]
          /\ stage' = [stage EXCEPT ![w] = NextStage[@]]
     ELSE /\ pc'    = [pc EXCEPT ![w] = "handle"]
          /\ UNCHANGED stage

\* XAUTOCLAIM: the first BatchSize idle entries of the PEL from the cursor on.
Claimed(s, c) ==
  {i \in idle[s] :
     c <= i /\ Cardinality({j \in idle[s] : c <= j /\ j < i}) < BatchSize[s]}

\* (a mistake: the cursor only ever moves forward)
NextCursorNoWrap(s, ids) ==
  IF ids = {} THEN {last[s] + 1}
  ELSE {i + 1 : i \in {j \in ids : \A k \in ids : k <= j}}

\* The cursor XAUTOCLAIM returns: the PEL entry after a full batch; zero
\* ("0-0") when the scan has reached the end.
NextCursor(s, ids) ==
  LET rest == {i \in pending[s] : \A j \in ids : j < i}
  IN  IF Cardinality(ids) < BatchSize[s] \/ rest = {} THEN {0} ELSE First(rest)

\* ConsumeParsePending, ConsumeGenPending.
ClaimPending(w) ==
  LET s   == StreamOf[stage[w]]
      ids == Claimed(s, cursor[w][s])
  IN  /\ pc[w] = "fetch" /\ stage[w] \in Claims
      /\ idle'   = [idle EXCEPT ![s] = @ \ ids]
      /\ \E c \in NextCursor(s, ids) : cursor' = [cursor EXCEPT ![w][s] = c]
      /\ Proceed(w, ids)
      /\ UNCHANGED <<log, dlq, group, last, pending, handled, faults>>

\* The claim took place and its reply was lost: the error branch keeps the
\* cursor and skips the stage.
ClaimLost(w) ==
  LET s   == StreamOf[stage[w]]
      ids == Claimed(s, cursor[w][s])
  IN  /\ Fault
      /\ pc[w] = "fetch" /\ stage[w] \in Claims
      /\ idle' = [idle EXCEPT ![s] = @ \ ids]
      /\ Proceed(w, {})
      /\ UNCHANGED <<log, dlq, group, last, pending, cursor, handled>>

\* XREADGROUP ">": the next BatchSize messages move to the PEL.
Fresh(s) == {i \in Ids(s) : last[s] < i /\ i <= last[s] + BatchSize[s]}

DeliverNew(s) ==
  /\ last'    = [last EXCEPT ![s] = @ + Cardinality(Fresh(s))]
  /\ pending' = [pending EXCEPT ![s] = @ \cup Fresh(s)]

\* ConsumeParse, ConsumeGen.
ReadNew(w) ==
  LET s == StreamOf[stage[w]]
  IN  /\ pc[w] = "fetch" /\ stage[w] \notin Claims
      /\ DeliverNew(s)
      /\ Proceed(w, Fresh(s))
      /\ UNCHANGED <<log, dlq, group, idle, cursor, handled, faults>>

\* Redis delivered the messages and the reply was lost.
ReadLost(w) ==
  /\ Fault
  /\ pc[w] = "fetch" /\ stage[w] \notin Claims
  /\ DeliverNew(StreamOf[stage[w]])
  /\ Proceed(w, {})
  /\ UNCHANGED <<log, dlq, group, idle, cursor, handled>>

\* The claim or read did not reach Redis.
FetchFails(w) ==
  /\ Fault
  /\ pc[w] = "fetch"
  /\ Proceed(w, {})
  /\ UNCHANGED <<streamVars, cursor, handled>>

-----------------------------------------------------------------------------
(* processBatch, one message at a time in the order of their ids. *)

HandlerReturns(w, r) ==
  LET s == StreamOf[stage[w]]
  IN  /\ pc[w] = "handle"
      /\ pc' = [pc EXCEPT ![w] = r]
      /\ \E i \in First(batch[w]) :
           handled' = IF r = "ok"
                      THEN [handled EXCEPT ![s] = @ \cup {log[s][i].task}]
                      ELSE handled
      /\ UNCHANGED <<streamVars, stage, cursor, batch, faults>>

Acknowledge(s, i) ==
  /\ pending' = [pending EXCEPT ![s] = @ \ {i}]
  /\ idle'    = [idle EXCEPT ![s] = @ \ {i}]

\* The handler returned nil: XACK.  Acknowledging an entry that is no longer in
\* the PEL is no error.
Ack(w) ==
  LET s == StreamOf[stage[w]]
  IN  /\ pc[w] = "ok"
      /\ \E i \in First(batch[w]) :
           Acknowledge(s, i) /\ Proceed(w, batch[w] \ {i})
      /\ UNCHANGED <<log, dlq, group, last, cursor, handled, faults>>

\* (a mistake: XADD whatever XACK returned)
AckAndAddAlways(s, i, toDLQ, entry) ==
  /\ Acknowledge(s, i)
  /\ IF toDLQ
     THEN dlq' = [dlq EXCEPT ![s] = Append(@, entry)] /\ UNCHANGED log
     ELSE log' = [log EXCEPT ![s] = Append(@, entry)] /\ UNCHANGED dlq

\* The Lua script: XACK and, only if the entry was pending, XADD.
AckAndAdd(s, i, toDLQ, entry) ==
  IF i \in pending[s]
  THEN /\ Acknowledge(s, i)
       /\ IF toDLQ
          THEN dlq' = [dlq EXCEPT ![s] = Append(@, entry)] /\ UNCHANGED log
          ELSE log' = [log EXCEPT ![s] = Append(@, entry)] /\ UNCHANGED dlq
  ELSE UNCHANGED <<log, dlq, pending, idle>>

\* (mistakes: one attempt too many; one too few)
ToDLQLate(r, nextAttempt) == r = "permanent" \/ nextAttempt > MaxAttempts
ToDLQEarly(r, nextAttempt) == r = "permanent" \/ nextAttempt + 1 >= MaxAttempts

\* The entry goes to the DLQ: a permanent error, or no attempt left.
ToDLQ(r, nextAttempt) == r = "permanent" \/ nextAttempt >= MaxAttempts

\* The handler returned an error: RetryOrDLQ.  ErrMessageNotPending is logged
\* and the loop goes on.
RetryOrDLQ(w) ==
  LET s == StreamOf[stage[w]]
      r == pc[w]
  IN  /\ r \in {"transient", "permanent"}
      /\ \E i \in First(batch[w]) :
           LET next == log[s][i].attempt + 1
           IN  /\ AckAndAdd(s, i, ToDLQ(r, next),
                    [task |-> log[s][i].task, attempt |-> next, kind |-> r])
               /\ Proceed(w, batch[w] \ {i})
      /\ UNCHANGED <<group, last, cursor, handled, faults>>

\* The XACK or the script did not take place; the error is logged and the loop
\* goes on.  (When only the reply is lost the outcome is that of a success.)
SettleFails(w) ==
  /\ Fault
  /\ pc[w] \in Results
  /\ \E i \in First(batch[w]) : Proceed(w, batch[w] \ {i})
  /\ UNCHANGED <<streamVars, cursor, handled>>

\* The claim threshold passes for an entry of the PEL.
Age(s, i) ==
  /\ i \in pending[s] \ idle[s]
  /\ idle' = [idle EXCEPT ![s] = @ \cup {i}]
  /\ UNCHANGED <<log, dlq, group, last, pending, workerVars, handled, faults>>

-----------------------------------------------------------------------------
\* A step of the worker's loop that no failure disturbs.
Work(w) ==
  \/ Start(w)
  \/ ClaimPending(w)
  \/ ReadNew(w)
  \/ \E r \in Outcomes : HandlerReturns(w, r)
  \/ Ack(w)
  \/ RetryOrDLQ(w)

Disturb(w) ==
  \/ StartFails(w)
  \/ Stop(w)
  \/ ClaimLost(w)
  \/ ReadLost(w)
  \/ FetchFails(w)
  \/ SettleFails(w)

Next ==
  \/ \E s \in Streams : \E t \in TasksOf[s] : Enqueue(s, t)
  \/ \E w \in Workers : Work(w) \/ Disturb(w)
  \/ \E s \in Streams : \E i \in pending[s] : Age(s, i)

Spec == Init /\ [][Next]_vars

\* Each worker keeps looping and is restarted after it stops; time passes.  An
\* enqueue is up to the users, and a disturbance never has to happen.
Fairness ==
  /\ \A w \in Workers : WF_vars(Work(w))
  /\ \A s \in Streams : \A i \in 1..(MaxAttempts * Cardinality(TasksOf[s])) :
       WF_vars(Age(s, i))

FairSpec == Spec /\ Fairness

-----------------------------------------------------------------------------
(* Properties. *)

StreamsOK ==
  /\ log \in [Streams -> Seq(Entry)]
  /\ dlq \in [Streams -> Seq(Entry)]
  /\ group \in [Streams -> BOOLEAN]
  /\ last \in [Streams -> Nat]
  /\ \A s \in Streams : last[s] <= Len(log[s])
  /\ pending \in [Streams -> SUBSET Nat]
  /\ \A s \in Streams : pending[s] \subseteq 1..last[s]
  /\ idle \in [Streams -> SUBSET Nat]
  /\ \A s \in Streams : idle[s] \subseteq pending[s]

\* Every variable has its type, and what is pending or in a batch was delivered
\* by the group: no claim, ack or retry concerns any other message.
TypeOK ==
  /\ StreamsOK
  /\ stage \in [Workers -> Stages]
  /\ cursor \in [Workers -> [Streams -> Nat]]
  /\ batch \in [Workers -> SUBSET Nat]
  /\ \A w \in Workers : batch[w] \subseteq 1..last[StreamOf[stage[w]]]
  /\ pc \in [Workers -> {"down", "fetch", "handle"} \cup Results]
  /\ handled \in [Streams -> SUBSET Task]
  /\ faults \in 0..MaxFaults

LiveTasks(s) == {log[s][i].task : i \in Live(s)}

DeadTasks(s) == {dlq[s][d].task : d \in DOMAIN dlq[s]}

\* No message disappears (comment of RetryOrDLQ, queue.go:270): a task that was
\* enqueued is still waiting or pending, is in the DLQ, or a run of its handler
\* has succeeded, whatever crashes, lost replies and claims came in between.
NothingLost ==
  \A s \in Streams : Enqueued(s) \subseteq
    handled[s] \cup LiveTasks(s) \cup DeadTasks(s)

\* A task has at most one message that is waiting, pending or dead, although
\* several workers may hold a copy of a message and each of them may retry it.
AtMostOneCopy ==
  \A s \in Streams :
    /\ \A i, j \in Live(s) : log[s][i].task = log[s][j].task => i = j
    /\ \A d, e \in DOMAIN dlq[s] : dlq[s][d].task = dlq[s][e].task => d = e
    /\ LiveTasks(s) \cap DeadTasks(s) = {}

\* The messages of a task carry growing attempt numbers below the maximum, and
\* only the newest of them may still be live: a worker that is late with an old
\* copy cannot set the count back.
AttemptsInOrder ==
  \A s \in Streams : \A i, j \in Ids(s) :
    /\ log[s][i].attempt < MaxAttempts
    /\ i < j /\ log[s][i].task = log[s][j].task =>
         log[s][i].attempt < log[s][j].attempt /\ i \notin Live(s)

\* A message reaches the DLQ for a permanent error or with the last attempt
\* used up, and every attempt it counts was a delivery of its own.
DeadLettersJustified ==
  \A s \in Streams : \A d \in DOMAIN dlq[s] :
    LET dead == dlq[s][d]
    IN  /\ \/ dead.kind = "permanent"
           \/ dead.kind = "transient" /\ dead.attempt = MaxAttempts
        /\ \A n \in 0..(dead.attempt - 1) : \E i \in 1..last[s] :
             log[s][i].task = dead.task /\ log[s][i].attempt = n

\* A stream has at most MaxAttempts messages for each task ever enqueued, and what
\* is live or dead is at most one message per task: XACK trims nothing, but no
\* claim, lost reply or retry makes the streams grow any further.
StreamsBounded ==
  \A s \in Streams :
    LET n == Cardinality(Enqueued(s))
    IN  /\ Len(log[s]) <= MaxAttempts * n
        /\ Cardinality(Live(s)) + Len(dlq[s]) <= n

\* The parts the proofs add.  A group that does not exist has delivered nothing,
\* a running worker has created the groups, and between batches it holds no
\* message.
Shape ==
  /\ \A s \in Streams : ~group[s] => last[s] = 0
  /\ \A w \in Workers : pc[w] # "down" => \A s \in Streams : group[s]
  /\ \A w \in Workers : pc[w] \in {"down", "fetch"} => batch[w] = {}

DeadWereEnqueued == \A s \in Streams : DeadTasks(s) \subseteq Enqueued(s)

\* Every attempt a message counts was a delivered message of the same task.
EarlierAttemptsDelivered ==
  \A s \in Streams : \A i \in Ids(s) : \A n \in 0..(log[s][i].attempt - 1) :
    \E k \in 1..last[s] :
      log[s][k].task = log[s][i].task /\ log[s][k].attempt = n

\* A worker only acknowledges a message whose task a run of the handler completed.
AckJustified ==
  \A w \in Workers : pc[w] = "ok" =>
    LET s == StreamOf[stage[w]]
    IN  \A i \in First(batch[w]) : log[s][i].task \in handled[s]

\* The inductive invariant.
QueueInv ==
  /\ TypeOK
  /\ Shape
  /\ DeadWereEnqueued
  /\ AckJustified
  /\ NothingLost
  /\ AtMostOneCopy
  /\ AttemptsInOrder
  /\ EarlierAttemptsDelivered
  /\ DeadLettersJustified

\* What the code promises of one task, as a ledger: its phase, how often it was
\* requeued, and whether a run of its handler succeeded.
Phase(s, t) ==
  CASE t \in LiveTasks(s) -> "queued"
    [] t \in DeadTasks(s) -> "dead"
    [] t \in Enqueued(s) \ (LiveTasks(s) \cup DeadTasks(s)) -> "done"
    [] OTHER -> "absent"

Requeues(s, t) ==
  Cardinality({i \in Ids(s) : log[s][i].task = t /\ log[s][i].attempt > 0})

ParseLedger == INSTANCE TaskLedger WITH
  Tasks    <- ParseTasks,
  phase    <- [t \in ParseTasks |-> Phase("parse_jobs", t)],
  requeues <- [t \in ParseTasks |-> Requeues("parse_jobs", t)],
  handled  <- handled["parse_jobs"]

GenLedger == INSTANCE TaskLedger WITH
  Tasks    <- GenTasks,
  phase    <- [t \in GenTasks |-> Phase("gen_jobs", t)],
  requeues <- [t \in GenTasks |-> Requeues("gen_jobs", t)],
  handled  <- handled["gen_jobs"]

\* Each stream implements the ledger (README "Retry и DLQ"): a task is only ever
\* done after a success, only ever dies from the queue, and never comes back.
ParseLedgerSpec == ParseLedger!Spec
GenLedgerSpec   == GenLedger!Spec
LedgerSpecs     == ParseLedgerSpec /\ GenLedgerSpec

\* Every enqueued task is settled for good in the end: acknowledged after a
\* success, or dead; no message is stuck in the PEL.
EventuallySettled ==
  \A s \in Streams : \A t \in TasksOf[s] :
    t \in Enqueued(s) ~> (t \in handled[s] \cup DeadTasks(s)
                           /\ t \notin LiveTasks(s))
=============================================================================
