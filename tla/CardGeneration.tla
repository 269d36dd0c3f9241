--------------------------- MODULE CardGeneration ---------------------------
(***************************************************************************)
(* The life of a generation job: the API stores it and enqueues a gen      *)
(* message (usecase/generation.go), a worker's HandleGenMessage asks the   *)
(* LLM for cards, one round after the other, stores what each round adds   *)
(* and at last the job's counters (app/worker/pipeline.go).  Each call to  *)
(* the database, the LLM or the queue is a step of its own that may fail.  *)
(*                                                                         *)
(* The gen_jobs stream appears as the TaskLedger that StreamQueue is shown *)
(* to implement; deliveries are as in SourceParsing.  A card stands for    *)
(* what hashQA and content_hash tell apart, question and answer.  The job  *)
(* is about an indexed source, whose chunks no longer change (ChunksFrozen *)
(* of SourceParsing); its deck, made before the job, is left out.          *)
(***************************************************************************)
EXTENDS Integers, Sequences, FiniteSets, Functions

CONSTANTS Jobs,         \* the generation jobs users ask for
          Workers,      \* deliveries that can be in progress at once
          MaxCards,     \* the job's max_cards: the rounds of a run
          Cards,        \* questions with their answers
          Chunks,       \* chunks, those of the source and those a model makes up
          Context,      \* SearchSimilar: the chunks each round is about, best first
          Replies,      \* what the LLM may answer in each round
          Cites,        \* the chunks a card of the LLM cites
          Stored,       \* the card post-validation makes of it
          MaxAttempts,  \* STREAM_MAX_ATTEMPTS
          MaxFaults     \* bound on crashes, late workers and failed calls

Rounds == 1..MaxCards

ASSUME GenerationAssumption ==
  /\ MaxCards \in Nat
  /\ Context \in [Rounds -> Seq(Chunks)]
  /\ \A i \in Rounds : Replies[i] \subseteq Seq(Cards) /\ Replies[i] # {}
  /\ Cites \in [Cards -> SUBSET Chunks]
  /\ Stored \in [Cards -> Cards]
  /\ MaxAttempts \in Nat \ {0}
  /\ MaxFaults \in Nat

VARIABLES request,   \* the user's request of each job, as the API sees it
          status,    \* generation_jobs.status
          counters,  \* total_cards_generated and duplicate_count
          cards,     \* how many rows the job has of each card
          links,     \* card_source_links of those rows
          phase, requeues, handled,  \* the ledger of gen messages
          at,        \* where each delivery is in HandleGenMessage
          job,       \* the job it is about
          copy,      \* the requeues its message was read with
          run,       \* the local variables of its loop
          faults     \* crashes, late workers and failed calls so far

rowVars == <<cards, links>>
ledgerVars == <<phase, requeues, handled>>
deliveryVars == <<at, job, copy, run>>
vars == <<request, status, counters, cards, links, phase, requeues, handled,
          at, job, copy, run, faults>>

Queue == INSTANCE TaskLedger WITH Tasks <- Jobs, Outcomes <- {"ok", "transient"}

RequestSteps == {"none", "created", "rollback", "accepted", "rejected", "abandoned"}

Statuses == {"absent", "pending", "running", "ready", "failed"}

Finished == {"ready", "failed"}

HandlerSteps == {"find", "claim", "refind", "generate", "insert", "fail"}

Steps == HandlerSteps \cup {"idle", "ack", "retry"}

\* totalGenerated is the number of cards in seen; batch is toInsert.
NewRun == [round |-> 1, seen |-> {}, duplicates |-> 0, batch |-> {}]

Counted(total, duplicates) == [total |-> total, duplicates |-> duplicates]

-----------------------------------------------------------------------------
Init ==
  /\ request = [j \in Jobs |-> "none"]
  /\ status = [j \in Jobs |-> "absent"]
  /\ counters = [j \in Jobs |-> Counted(0, 0)]
  /\ cards = [j \in Jobs |-> [c \in Cards |-> 0]]
  /\ links = [j \in Jobs |-> {}]
  /\ Queue!Init
  /\ at = [w \in Workers |-> "idle"]
  /\ job \in [Workers -> Jobs]
  /\ copy = [w \in Workers |-> 0]
  /\ run = [w \in Workers |-> NewRun]
  /\ faults = 0

Fault == faults < MaxFaults /\ faults' = faults + 1

\* MarkRunning: only a pending job starts to run.
MarkRunning(j) ==
  status' = IF status[j] = "pending" THEN [status EXCEPT ![j] = "running"] ELSE status

\* (a mistake: whoever finishes last has the last word)
MarkFinishedAlways(j, outcome, total, duplicates) ==
  /\ status'   = [status EXCEPT ![j] = outcome]
  /\ counters' = [counters EXCEPT ![j] = Counted(total, duplicates)]

\* MarkFinished: outcome and counters in one update, of a running job only.
MarkFinished(j, outcome, total, duplicates) ==
  IF status[j] = "running"
  THEN /\ status'   = [status EXCEPT ![j] = outcome]
       /\ counters' = [counters EXCEPT ![j] = Counted(total, duplicates)]
  ELSE UNCHANGED <<status, counters>>

-----------------------------------------------------------------------------
(* The API: GenerationService.CreateAndEnqueue. *)

ApiStep(j, from, to) ==
  /\ request[j] = from
  /\ request' = [request EXCEPT ![j] = to]

\* Jobs.Create.
Create(j) ==
  /\ ApiStep(j, "none", "created")
  /\ status' = [status EXCEPT ![j] = "pending"]
  /\ UNCHANGED <<counters, rowVars, ledgerVars, deliveryVars, faults>>

\* The insert took place and its confirmation was lost: the request fails.
CreateUnconfirmed(j) ==
  /\ Fault
  /\ ApiStep(j, "none", "rejected")
  /\ status' = [status EXCEPT ![j] = "pending"]
  /\ UNCHANGED <<counters, rowVars, ledgerVars, deliveryVars>>

\* EnqueueGenerateCards.
Enqueue(j) ==
  /\ ApiStep(j, "created", "accepted")
  /\ Queue!Submit(j)
  /\ UNCHANGED <<status, counters, rowVars, deliveryVars, faults>>

EnqueueFails(j) ==
  /\ Fault
  /\ ApiStep(j, "created", "rollback")
  /\ Queue!Submit(j) \/ UNCHANGED ledgerVars
  /\ UNCHANGED <<status, counters, rowVars, deliveryVars>>

\* MarkFinished(failed), which finds the job pending unless the message was
\* enqueued all the same and a worker has it.
Rollback(j) ==
  /\ ApiStep(j, "rollback", "rejected")
  /\ MarkFinished(j, "failed", 0, 0)
  /\ UNCHANGED <<rowVars, ledgerVars, deliveryVars, faults>>

RollbackFails(j) ==
  /\ Fault
  /\ ApiStep(j, "rollback", "rejected")
  /\ UNCHANGED <<status, counters, rowVars, ledgerVars, deliveryVars>>

\* The API process stops between two calls of a request.
ApiCrash(j) ==
  /\ Fault
  /\ request[j] \in {"created", "rollback"}
  /\ request' = [request EXCEPT ![j] = "abandoned"]
  /\ UNCHANGED <<status, counters, rowVars, ledgerVars, deliveryVars>>

-----------------------------------------------------------------------------
(* The worker: HandleGenMessage. *)

Goto(w, step) == at' = [at EXCEPT ![w] = step] /\ UNCHANGED <<job, copy>>

Go(w, step) == Goto(w, step) /\ UNCHANGED run

\* processBatch hands the handler a message that was requeued c times.
Take(w, j, c) ==
  /\ at[w] = "idle"
  /\ at'   = [at EXCEPT ![w] = "find"]
  /\ job'  = [job EXCEPT ![w] = j]
  /\ copy' = [copy EXCEPT ![w] = c]
  /\ run'  = [run EXCEPT ![w] = NewRun]
  /\ UNCHANGED <<request, status, counters, rowVars, ledgerVars>>

Begin(w, j) ==
  /\ phase[j] = "queued"
  /\ Take(w, j, requeues[j])
  /\ UNCHANGED faults

\* The worker is late: it gets to a message of its batch, or ends the backoff
\* before it, after another worker has claimed the message and settled it or put
\* it back.  What it has is an old copy.
BeginLate(w, j) ==
  /\ Fault
  /\ phase[j] # "absent"
  /\ \E c \in 0..requeues[j] :
       /\ phase[j] = "queued" => c < requeues[j]
       /\ Take(w, j, c)

\* (a mistake: a running job is somebody else's)
FindSkipsRunning(w) ==
  /\ at[w] = "find"
  /\ Go(w, IF status[job[w]] = "pending" THEN "claim" ELSE "ack")
  /\ UNCHANGED <<request, status, counters, rowVars, ledgerVars, faults>>

\* FindByID; a finished job needs nothing more.
Find(w) ==
  /\ at[w] = "find"
  /\ Go(w, IF status[job[w]] \in Finished THEN "ack" ELSE "claim")
  /\ UNCHANGED <<request, status, counters, rowVars, ledgerVars, faults>>

\* MarkRunning.
Claim(w) ==
  LET j == job[w]
  IN  /\ at[w] = "claim"
      /\ MarkRunning(j)
      /\ Go(w, IF status[j] = "pending" THEN "generate" ELSE "refind")
      /\ UNCHANGED <<request, counters, rowVars, ledgerVars, faults>>

\* (a mistake: the job is running already, so there is nothing left to do)
RefindGivesUp(w) ==
  /\ at[w] = "refind"
  /\ Go(w, "ack")
  /\ UNCHANGED <<request, status, counters, rowVars, ledgerVars, faults>>

\* (a mistake: the status is not looked at again)
RefindGoesOn(w) ==
  /\ at[w] = "refind"
  /\ Go(w, "generate")
  /\ UNCHANGED <<request, status, counters, rowVars, ledgerVars, faults>>

\* The status had moved on: a running job, of a worker that crashed or not, is
\* gone through from the first round.
Refind(w) ==
  /\ at[w] = "refind"
  /\ Go(w, IF status[job[w]] = "running" THEN "generate" ELSE "ack")
  /\ UNCHANGED <<request, status, counters, rowVars, ledgerVars, faults>>

\* Embed, SearchSimilar, GenerateCards, then the cards of the reply one by one:
\* a card this run has seen is a duplicate, any other goes into the batch.
\* Nothing shared changes.
Generate(w) ==
  LET r == run[w]
  IN  /\ at[w] = "generate" /\ r.round \in Rounds
      /\ \E reply \in Replies[r.round] :
           LET new == Range(reply) \ r.seen
           IN  /\ run' = [run EXCEPT ![w] =
                            [round      |-> IF new = {} THEN r.round + 1 ELSE r.round,
                             seen       |-> r.seen \cup new,
                             duplicates |-> r.duplicates + Len(reply) - Cardinality(new),
                             batch      |-> new]]
               /\ Goto(w, IF new = {} THEN "generate" ELSE "insert")
      /\ UNCHANGED <<request, status, counters, rowVars, ledgerVars, faults>>

\* (a mistake: a card without citations is left at that)
CitationsAsGiven(c, i) == Cites[c]

\* "Ensure we have at least one citation": the best chunk, if the card has none.
Citations(c, i) ==
  IF Cites[c] = {} /\ Context[i] # <<>> THEN {Head(Context[i])} ELSE Cites[c]

\* Only chunks of the round's context become links.
Linked(c, i) == Citations(c, i) \cap Range(Context[i])

\* upsertCardReturnID: on conflict (generation_job_id, content_hash) the row stays.
Upsert(rows, new) ==
  [c \in Cards |-> IF c \in {Stored[d] : d \in new} /\ rows[c] = 0 THEN 1 ELSE rows[c]]

\* (a mistake: no transaction, and the cards may be cut short)
InsertBatchPartly(j, new, i) ==
  \E part \in SUBSET new :
    /\ cards' = [cards EXCEPT ![j] = Upsert(cards[j], part)]
    /\ links' = [links EXCEPT ![j] = @ \cup UNION {{Stored[c]} \X Linked(c, i) : c \in part}]

\* Cards.InsertBatchWithLinks: cards and links in one transaction; the links of
\* a card that was there already go to the row it conflicts with.
InsertBatchWithLinks(j, new, i) ==
  /\ cards' = [cards EXCEPT ![j] = Upsert(cards[j], new)]
  /\ links' = [links EXCEPT ![j] = @ \cup UNION {{Stored[c]} \X Linked(c, i) : c \in new}]

Insert(w) ==
  LET r == run[w]
  IN  /\ at[w] = "insert"
      /\ InsertBatchWithLinks(job[w], r.batch, r.round)
      /\ run' = [run EXCEPT ![w] = [r EXCEPT !.round = @ + 1, !.batch = {}]]
      /\ Goto(w, "generate")
      /\ UNCHANGED <<request, status, counters, ledgerVars, faults>>

\* After the last round MarkFinished(ready); whether or not the job was still
\* running, the handler returns nil.
Finish(w) ==
  LET r == run[w]
  IN  /\ at[w] = "generate" /\ r.round \notin Rounds
      /\ MarkFinished(job[w], "ready", Cardinality(r.seen), r.duplicates)
      /\ Go(w, "ack")
      /\ UNCHANGED <<request, rowVars, ledgerVars, faults>>

\* failJob: best-effort MarkFinished(failed), and the handler returns the error.
FailJob(w) ==
  /\ at[w] = "fail"
  /\ MarkFinished(job[w], "failed", 0, 0)
  /\ Go(w, "retry")
  /\ UNCHANGED <<request, rowVars, ledgerVars, faults>>

\* A call of the handler reports an error; an update or insert that does may
\* have taken effect all the same.  FindByID:
FindFails(w) ==
  /\ Fault
  /\ at[w] \in {"find", "refind"}
  /\ Go(w, "retry")
  /\ UNCHANGED <<request, status, counters, rowVars, ledgerVars>>

ClaimFails(w) ==
  /\ Fault
  /\ at[w] = "claim"
  /\ MarkRunning(job[w]) \/ UNCHANGED status
  /\ Go(w, "retry")
  /\ UNCHANGED <<request, counters, rowVars, ledgerVars>>

GenerateFails(w) ==
  /\ Fault
  /\ at[w] = "generate" /\ run[w].round \in Rounds
  /\ Go(w, "fail")
  /\ UNCHANGED <<request, status, counters, rowVars, ledgerVars>>

\* (a mistake: the error is logged and the run goes on)
InsertErrorIgnored(w) ==
  /\ Fault
  /\ at[w] = "insert"
  /\ \/ InsertBatchWithLinks(job[w], run[w].batch, run[w].round)
     \/ UNCHANGED rowVars
  /\ run' = [run EXCEPT ![w].round = @ + 1, ![w].batch = {}]
  /\ Goto(w, "generate")
  /\ UNCHANGED <<request, status, counters, ledgerVars>>

InsertFails(w) ==
  /\ Fault
  /\ at[w] = "insert"
  /\ \/ InsertBatchWithLinks(job[w], run[w].batch, run[w].round)
     \/ UNCHANGED rowVars
  /\ Go(w, "fail")
  /\ UNCHANGED <<request, status, counters, ledgerVars>>

FinishFails(w) ==
  LET r == run[w]
  IN  /\ Fault
      /\ at[w] = "generate" /\ r.round \notin Rounds
      /\ \/ MarkFinished(job[w], "ready", Cardinality(r.seen), r.duplicates)
         \/ UNCHANGED <<status, counters>>
      /\ Go(w, "retry")
      /\ UNCHANGED <<request, rowVars, ledgerVars>>

FailJobFails(w) ==
  /\ Fault
  /\ at[w] = "fail"
  /\ Go(w, "retry")
  /\ UNCHANGED <<request, status, counters, rowVars, ledgerVars>>

\* The process stops: the message stays in the PEL.
Crash(w) ==
  /\ Fault
  /\ at[w] # "idle"
  /\ Go(w, "idle")
  /\ UNCHANGED <<request, status, counters, rowVars, ledgerVars>>

-----------------------------------------------------------------------------
(* Settling the message, as StreamQueue does. *)

\* The copy this delivery read is still the task's live message.
Current(w) == phase[job[w]] = "queued" /\ requeues[job[w]] = copy[w]

\* The handler returned nil: the ledger notes the success.
Succeed(w) ==
  /\ at[w] = "ack" /\ job[w] \notin handled
  /\ Queue!Succeed(job[w])
  /\ UNCHANGED <<request, status, counters, rowVars, deliveryVars, faults>>

Ack(w) ==
  LET j == job[w]
  IN  /\ at[w] = "ack" /\ j \in handled
      /\ IF Current(w) THEN Queue!Complete(j) ELSE UNCHANGED ledgerVars
      /\ Go(w, "idle")
      /\ UNCHANGED <<request, status, counters, rowVars, faults>>

Retry(w) ==
  LET j == job[w]
  IN  /\ at[w] = "retry"
      /\ IF Current(w) THEN Queue!Requeue(j) \/ Queue!Bury(j) ELSE UNCHANGED ledgerVars
      /\ Go(w, "idle")
      /\ UNCHANGED <<request, status, counters, rowVars, faults>>

\* The queue call fails: the message stays pending.
SettleFails(w) ==
  /\ Fault
  /\ at[w] \in {"ack", "retry"}
  /\ Go(w, "idle")
  /\ UNCHANGED <<request, status, counters, rowVars, ledgerVars>>

-----------------------------------------------------------------------------
Api(j) == Create(j) \/ Enqueue(j) \/ Rollback(j)

ApiDisturbed(j) ==
  CreateUnconfirmed(j) \/ EnqueueFails(j) \/ RollbackFails(j) \/ ApiCrash(j)

\* One call of the handler, and one that fails.
Call(w) ==
  \/ Find(w) \/ Claim(w) \/ Refind(w) \/ Generate(w) \/ Insert(w)
  \/ Finish(w) \/ FailJob(w)

CallFails(w) ==
  \/ FindFails(w) \/ ClaimFails(w) \/ GenerateFails(w) \/ InsertFails(w)
  \/ FinishFails(w) \/ FailJobFails(w)

Handle(w) == Call(w) \/ Succeed(w) \/ Ack(w) \/ Retry(w)

HandleDisturbed(w) == CallFails(w) \/ Crash(w) \/ SettleFails(w)

Next ==
  \/ \E j \in Jobs : Api(j) \/ ApiDisturbed(j)
  \/ \E w \in Workers, j \in Jobs : Begin(w, j) \/ BeginLate(w, j)
  \/ \E w \in Workers : Handle(w) \/ HandleDisturbed(w)

Spec == Init /\ [][Next]_vars

\* A queued message is delivered again and again (EventuallySettled of
\* StreamQueue), and a worker that has one goes on with it.
Fairness ==
  /\ \A j \in Jobs : WF_vars(\E w \in Workers : Begin(w, j))
  /\ \A w \in Workers : WF_vars(Handle(w))

FairSpec == Spec /\ Fairness

-----------------------------------------------------------------------------
(* Properties. *)

\* Every variable has its type, and a batch is part of what its run has seen.
TypeOK ==
  /\ request \in [Jobs -> RequestSteps]
  /\ status \in [Jobs -> Statuses]
  /\ counters \in [Jobs -> [total : Nat, duplicates : Nat]]
  /\ cards \in [Jobs -> [Cards -> Nat]]
  /\ links \in [Jobs -> SUBSET (Cards \X Chunks)]
  /\ phase \in [Jobs -> {"absent", "queued", "done", "dead"}]
  /\ requeues \in [Jobs -> 0..(MaxAttempts - 1)]
  /\ handled \subseteq Jobs
  /\ at \in [Workers -> Steps]
  /\ job \in [Workers -> Jobs]
  /\ copy \in [Workers -> 0..(MaxAttempts - 1)]
  /\ run \in [Workers -> [round : 1..(MaxCards + 1), seen : SUBSET Cards,
                          duplicates : Nat, batch : SUBSET Cards]]
  /\ \A w \in Workers : run[w].batch \subseteq run[w].seen
  /\ faults \in 0..MaxFaults

\* The answers an LLM can give a whole run.
Runs == {f \in [Rounds -> UNION {Replies[i] : i \in Rounds}] :
           \A i \in Rounds : f[i] \in Replies[i]}

Given(f) == UNION {Range(f[i]) : i \in Rounds}

\* How many cards they are, counted by round and place in the reply.
Answers(f) == Cardinality(UNION {{i} \X DOMAIN f[i] : i \in Rounds})

\* The card is a row of the job, and there is one row of it.
IsRow(j, card) == cards[j][Stored[card]] = 1

\* Every card of the reply is.
Whole(j, reply) == \A card \in Range(reply) : IsRow(j, card)

\* Whatever crashed, was retried or ran twice in between, and whether or not the
\* model repeated itself: the counters of a ready job are those of one run of all
\* its rounds, and every card of that run is a row of the job (pipeline.go:186-288).
ReadyHasRun ==
  \A j \in Jobs : status[j] = "ready" =>
    \E f \in Runs :
      /\ counters[j].total = Cardinality(Given(f))
      /\ counters[j].total + counters[j].duplicates = Answers(f)
      /\ \A card \in Given(f) : IsRow(j, card)

\* What a job has at any time, and keeps when it fails, is made of whole replies
\* and begins with the first round: a row comes with all the cards of a reply to
\* some round and of replies to each round before.  Although failJob takes nothing
\* back, a batch may be stored with its confirmation lost, and runs with different
\* replies mix; and the counters of a failed job are zero (pipeline.go:270, 299-302).
WholeRounds ==
  \A j \in Jobs :
    /\ \A c \in Cards : cards[j][c] # 0 =>
         \E i \in Rounds : \E reply \in Replies[i] :
           /\ c \in {Stored[d] : d \in Range(reply)} /\ Whole(j, reply)
           /\ \A k \in 1..(i - 1) : \E earlier \in Replies[k] : Whole(j, earlier)
    /\ status[j] = "failed" => counters[j] = Counted(0, 0)

\* What the comments say of retries: "UNIQUE(generation_job_id, content_hash) makes
\* retries idempotent" (postgres/cards.go:65), "идемпотентность генерации при
\* retry/DLQ" (migrations/002_cards_dedup.sql:2).  Then the rows of a ready job are
\* those of the one run it counts.
ReadyIsOneRun ==
  \A j \in Jobs : status[j] = "ready" =>
    \E f \in Runs :
      /\ counters[j].total = Cardinality(Given(f))
      /\ cards[j] = [c \in Cards |-> IF c \in {Stored[d] : d \in Given(f)} THEN 1 ELSE 0]

\* A job that is pending or running still has a message that is queued or dead,
\* or its request is under way or never enqueued one: no handler may return nil
\* and leave it there (the comment at pipeline.go:156-158).
NotForgotten ==
  \A j \in Jobs : status[j] \in {"pending", "running"} =>
    \/ phase[j] \in {"queued", "dead"}
    \/ request[j] \in {"created", "rollback"}
    \/ phase[j] = "absent" /\ request[j] \in {"rejected", "abandoned"}

\* Ready and failed are final, and so are the counters: of two deliveries that
\* end differently one decides (pipeline.go:292-295).
JobOutcomeFinal ==
  [][\A j \in Jobs : status[j] \in Finished =>
       status'[j] = status[j] /\ counters'[j] = counters[j]]_vars

\* The deliveries that are going through the rounds of a job.
Storing(j) == {w \in Workers : job[w] = j /\ at[w] \in {"generate", "insert"}}

\* Once a job is finished nobody begins to go through its rounds, however often its
\* message comes again (pipeline.go:147-167).  Deliveries in the middle of them may
\* still add cards, as nothing before an insert looks at the status; when the last
\* of them is gone the user's deck stands still.
OnlyStragglersStore ==
  [][\A j \in Jobs : status[j] \in Finished =>
       /\ Storing(j)' \subseteq Storing(j)
       /\ Storing(j) = {} => cards'[j] = cards[j] /\ links'[j] = links[j]]_vars

\* Every card of a job is linked to a chunk of its source if the source has any
\* ("Ensure we have at least one citation.", pipeline.go:219).
EveryCardLinked ==
  \A j \in Jobs : \A c \in Cards :
    cards[j][c] > 0 /\ (\A i \in Rounds : Context[i] # <<>>) =>
      \E k \in Chunks : <<c, k>> \in links[j]

\* A job that was accepted is ready or failed in the end, unless its message
\* has died.
JobSettles ==
  \A j \in Jobs :
    request[j] = "accepted" ~> (status[j] \in Finished \/ phase[j] = "dead")

\* What the README says of failures ("повторную обработку сообщений", "перенос
\* необработанных сообщений в DLQ", README.md:90-93 and 103-108): only the
\* message of a job that got its cards leaves the queue without reaching the DLQ.
UnprocessedReachDLQ ==
  \A j \in Jobs : phase[j] = "done" => status[j] = "ready"
=============================================================================
