----------------------------- MODULE Deployment -----------------------------
(***************************************************************************)
(* The program as it is deployed: the handlers of AutoAnki run by the      *)
(* workers of StreamQueue.  A task of the parse stream is a source, one of *)
(* the gen stream a job; what a handler does between the moment its worker *)
(* gets to a message and the moment it settles it is what SourceParsing    *)
(* and CardGeneration say, and every other step is one of StreamQueue.     *)
(*                                                                         *)
(* There is no ledger here.  It is what the streams look like from the     *)
(* tables: the deployment is shown to implement AutoAnki, in which the     *)
(* ledger, the copy a delivery has read and the late worker are given.     *)
(***************************************************************************)
EXTENDS StreamQueue, Functions

CONSTANTS Readable, ChunkCount, MaxCards, Cards, Chunks, Context, Replies,
          Cites, Stored, SourceOwner, JobUser, JobSource, DeckOwner, OrdOf,
                      \* as in AutoAnki
          MaxLapses   \* bound on the faults of each part, late workers included

VARIABLES upload, sourceStatus, rows, parseAt, source, parseCopy, parseLapses,
          request, jobStatus, counters, cards, links, genAt, job, genCopy, run,
          genLapses, intake, deck, decks

queueVars == <<log, dlq, group, last, pending, idle, stage, cursor, batch, pc,
               handled, faults>>
parseVars == <<upload, sourceStatus, rows, parseAt, source, parseCopy, parseLapses>>
genVars == <<request, jobStatus, counters, cards, links, genAt, job, genCopy,
             run, genLapses>>
intakeVars == <<intake, deck, decks>>
handlerVars == <<parseVars, genVars, intakeVars>>
appVars == <<queueVars, handlerVars>>

\* What the streams say of each task: the ledgers of AutoAnki.
ParsePhase    == [s \in ParseTasks |-> Phase("parse_jobs", s)]
ParseRequeues == [s \in ParseTasks |-> Requeues("parse_jobs", s)]
GenPhase      == [j \in GenTasks |-> Phase("gen_jobs", j)]
GenRequeues   == [j \in GenTasks |-> Requeues("gen_jobs", j)]

\* The application as the tables see it.
Whole == INSTANCE AutoAnki WITH
  Sources       <- ParseTasks,
  Jobs          <- GenTasks,
  MaxFaults     <- MaxLapses,
  parsePhase    <- ParsePhase,
  parseRequeues <- ParseRequeues,
  parseHandled  <- handled["parse_jobs"],
  parseFaults   <- parseLapses,
  genPhase      <- GenPhase,
  genRequeues   <- GenRequeues,
  genHandled    <- handled["gen_jobs"],
  genFaults     <- genLapses

ASSUME DeploymentAssumption ==
  /\ Whole!CompositionAssumption
  /\ Whole!PartsAssumption
  /\ Outcomes = {"ok", "transient"}
  /\ MaxFaults <= MaxLapses

-----------------------------------------------------------------------------
AppInit ==
  /\ Init
  /\ upload = [s \in ParseTasks |-> "none"]
  /\ sourceStatus = [s \in ParseTasks |-> "absent"]
  /\ rows = [s \in ParseTasks |-> [o \in Whole!Parsing!Ords(s) |-> Whole!Parsing!Nobody]]
  /\ parseAt = [w \in Workers |-> "idle"]
  /\ source \in [Workers -> ParseTasks]
  /\ parseCopy = [w \in Workers |-> 0]
  /\ parseLapses = 0
  /\ request = [j \in GenTasks |-> "none"]
  /\ jobStatus = [j \in GenTasks |-> "absent"]
  /\ counters = [j \in GenTasks |-> Whole!Generation!Counted(0, 0)]
  /\ cards = [j \in GenTasks |-> [c \in Cards |-> 0]]
  /\ links = [j \in GenTasks |-> {}]
  /\ genAt = [w \in Workers |-> "idle"]
  /\ job \in [Workers -> GenTasks]
  /\ genCopy = [w \in Workers |-> 0]
  /\ run = [w \in Workers |-> Whole!Generation!NewRun]
  /\ genLapses = 0
  /\ intake = [j \in GenTasks |-> "none"]
  /\ deck \in [GenTasks -> DOMAIN DeckOwner \cup GenTasks]
  /\ \A j \in GenTasks : deck[j] \in DOMAIN DeckOwner \cup {j}
  /\ decks = DOMAIN DeckOwner

\* The bound on whatever fails or stops.
Calm == faults + parseLapses + genLapses < MaxFaults

-----------------------------------------------------------------------------
(* The API. *)

\* The calls of a request that do not concern the queue.
UploadCall(s) ==
  /\ UNCHANGED <<queueVars, genVars, intakeVars>>
  /\ \/ Whole!Parsing!Create(s) \/ Whole!Parsing!Rollback(s)
     \/ /\ Calm
        /\ \/ Whole!Parsing!CreateUnconfirmed(s) \/ Whole!Parsing!RollbackFails(s)
           \/ Whole!Parsing!ApiCrash(s)

\* EnqueueParseSource; when it fails the message may be in the stream all the same.
UploadEnqueue(s) ==
  /\ \/ /\ Enqueue("parse_jobs", s)
        /\ Whole!Parsing!ApiStep(s, "created", "accepted") /\ UNCHANGED parseLapses
     \/ /\ Calm /\ parseLapses' = parseLapses + 1
        /\ Enqueue("parse_jobs", s) \/ UNCHANGED queueVars
        /\ Whole!Parsing!ApiStep(s, "created", "rollback")
  /\ UNCHANGED <<sourceStatus, rows, parseAt, source, parseCopy, genVars, intakeVars>>

\* The checks before a job is stored, and the calls of the request that do not
\* concern the queue.
JobCall(j) ==
  /\ UNCHANGED <<queueVars, parseVars>>
  /\ \/ Whole!LookUpSource(j) \/ Whole!FindDeck(j) \/ Whole!CreateDeck(j)
     \/ Whole!GiveUp(j)
     \/ /\ intake[j] = "decked" /\ UNCHANGED intakeVars
        /\ \/ Whole!Generation!Create(j) \/ Whole!Generation!Rollback(j)
           \/ /\ Calm
              /\ \/ Whole!Generation!CreateUnconfirmed(j)
                 \/ Whole!Generation!RollbackFails(j) \/ Whole!Generation!ApiCrash(j)

\* EnqueueGenerateCards.
JobEnqueue(j) ==
  /\ intake[j] = "decked"
  /\ \/ /\ Enqueue("gen_jobs", j)
        /\ Whole!Generation!ApiStep(j, "created", "accepted") /\ UNCHANGED genLapses
     \/ /\ Calm /\ genLapses' = genLapses + 1
        /\ Enqueue("gen_jobs", j) \/ UNCHANGED queueVars
        /\ Whole!Generation!ApiStep(j, "created", "rollback")
  /\ UNCHANGED <<jobStatus, counters, cards, links, genAt, job, genCopy, run,
                 parseVars, intakeVars>>

-----------------------------------------------------------------------------
(* The workers. *)

\* runLoopOnce between two batches, and time.
Fetch(w) ==
  /\ UNCHANGED handlerVars
  /\ Start(w) \/ ClaimPending(w) \/ ReadNew(w)

FetchDisturbed(w) ==
  /\ Calm
  /\ UNCHANGED handlerVars
  /\ StartFails(w) \/ ClaimLost(w) \/ ReadLost(w) \/ FetchFails(w)

Tick(s, i) == Age(s, i) /\ UNCHANGED handlerVars

\* processBatch gives the payload of the next message to its handler.  A message
\* another worker has settled by then makes the worker late.
HandOver(w) ==
  LET s == StreamOf[stage[w]]
  IN  /\ pc[w] = "handle" /\ Whole!Idle(w)
      /\ UNCHANGED <<queueVars, intakeVars>>
      /\ \E i \in First(batch[w]) :
           LET late == IF i \in Live(s) THEN 0 ELSE 1
               m    == log[s][i]
           IN  \/ /\ s = "parse_jobs"
                  /\ parseLapses + late <= MaxLapses /\ parseLapses' = parseLapses + late
                  /\ Whole!Parsing!Take(w, m.task, m.attempt)
                  /\ UNCHANGED genVars
               \/ /\ s = "gen_jobs"
                  /\ genLapses + late <= MaxLapses /\ genLapses' = genLapses + late
                  /\ Whole!Generation!Take(w, m.task, m.attempt)
                  /\ UNCHANGED parseVars

\* A call of the handler.
HandlerCalls(w) ==
  /\ UNCHANGED <<queueVars, intakeVars>>
  /\ \/ Whole!Parsing!Call(w) /\ UNCHANGED genVars
     \/ Whole!Generation!Call(w) /\ UNCHANGED parseVars

HandlerCallFails(w) ==
  /\ Calm
  /\ UNCHANGED <<queueVars, intakeVars>>
  /\ \/ Whole!Parsing!CallFails(w) /\ UNCHANGED genVars
     \/ Whole!Generation!CallFails(w) /\ UNCHANGED parseVars

\* Where the handler of this worker is.
At(w) == IF genAt[w] = "idle" THEN parseAt[w] ELSE genAt[w]

\* (a mistake: a handler that failed counts as one that succeeded)
ReturnNil(w) ==
  /\ At(w) \in {"ack", "retry"} /\ HandlerReturns(w, "ok")
  /\ UNCHANGED handlerVars

\* The handler returns nil or its error.
Return(w) ==
  /\ \/ At(w) = "ack" /\ HandlerReturns(w, "ok")
     \/ At(w) = "retry" /\ HandlerReturns(w, "transient")
  /\ UNCHANGED handlerVars

\* The worker has done with the message.
Leave(w) ==
  /\ parseAt' = [parseAt EXCEPT ![w] = "idle"]
  /\ genAt' = [genAt EXCEPT ![w] = "idle"]
  /\ UNCHANGED <<upload, sourceStatus, rows, source, parseCopy, request, jobStatus,
                 counters, cards, links, job, genCopy, run, intakeVars>>

Settle(w) ==
  /\ Ack(w) \/ RetryOrDLQ(w)
  /\ Leave(w)
  /\ UNCHANGED <<parseLapses, genLapses>>

\* The worker stops, or its XACK or script fails; if its handler was busy, its
\* part counts a fault.
Drop(w) ==
  /\ Calm
  /\ Stop(w) \/ SettleFails(w)
  /\ Leave(w)
  /\ parseLapses' = parseLapses + (IF parseAt[w] = "idle" THEN 0 ELSE 1)
  /\ genLapses' = genLapses + (IF genAt[w] = "idle" THEN 0 ELSE 1)

-----------------------------------------------------------------------------
Loop(w) == Fetch(w) \/ HandOver(w) \/ HandlerCalls(w) \/ Return(w) \/ Settle(w)

AppNext ==
  \/ \E s \in ParseTasks : UploadCall(s) \/ UploadEnqueue(s)
  \/ \E j \in GenTasks : JobCall(j) \/ JobEnqueue(j)
  \/ \E w \in Workers : Loop(w) \/ FetchDisturbed(w) \/ HandlerCallFails(w) \/ Drop(w)
  \/ \E s \in Streams : \E i \in pending[s] : Tick(s, i)

AppSpec == AppInit /\ [][AppNext]_appVars

-----------------------------------------------------------------------------
\* The deployment implements the application over ledgers: whatever the streams,
\* claims, batches and late workers do, the handlers see no more than that a
\* message is queued, done or dead, and that a copy may be old (queue.go:265-270).
WholeSpec == Whole!Spec

\* The parts the proofs add.  A worker whose handler is busy has its source or
\* job from the first message of its batch, read with the attempt it knows, and
\* settles as the handler returned.
InHand(w, at, task, copy, s) ==
  at[w] # "idle" =>
    /\ pc[w] \in {"handle", "ok", "transient"} /\ StreamOf[stage[w]] = s
    /\ \E i \in First(batch[w]) : log[s][i].task = task[w] /\ log[s][i].attempt = copy[w]

HandOK(w) ==
  /\ parseAt[w] = "idle" \/ genAt[w] = "idle"
  /\ InHand(w, parseAt, source, parseCopy, "parse_jobs")
  /\ InHand(w, genAt, job, genCopy, "gen_jobs")
  /\ pc[w] = "ok" => At(w) = "ack"
  /\ pc[w] = "transient" => At(w) = "retry"
  /\ pc[w] # "permanent"

HandSound == \A w \in Workers : HandOK(w)

HandTypes ==
  /\ parseAt \in [Workers -> Whole!Parsing!Steps]
  /\ source \in [Workers -> ParseTasks]
  /\ parseCopy \in [Workers -> Nat]
  /\ parseLapses \in Nat
  /\ genAt \in [Workers -> Whole!Generation!Steps]
  /\ job \in [Workers -> GenTasks]
  /\ genCopy \in [Workers -> Nat]
  /\ genLapses \in Nat
=============================================================================
