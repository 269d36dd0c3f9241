--------------------------- MODULE SourceParsing ---------------------------
(***************************************************************************)
(* The life of an uploaded source: the API stores it and enqueues a parse  *)
(* message (usecase/source.go), a worker's HandleParseMessage turns it     *)
(* into chunks (app/worker/pipeline.go), each call to the database or the  *)
(* queue being a step of its own that may fail, with or without effect.    *)
(*                                                                         *)
(* The parse_jobs stream appears as the TaskLedger that StreamQueue is     *)
(* shown to implement.  A delivery is one message in the hands of one      *)
(* worker; the message is known by the number of requeues it was read      *)
(* with, so that a worker that is late settles an old copy in vain.        *)
(***************************************************************************)
EXTENDS Integers, FiniteSets

CONSTANTS Sources,      \* the sources users upload
          Workers,      \* deliveries that can be in progress at once
          ChunkCount,   \* how many chunks chunkText makes of each source
          Readable,     \* sources of a type extractText supports
          MaxAttempts,  \* STREAM_MAX_ATTEMPTS
          MaxFaults     \* bound on crashes, late workers and failed calls

Nobody == "nobody"

ASSUME ParsingAssumption ==
  /\ ChunkCount \in [Sources -> Nat]
  /\ Readable \subseteq Sources
  /\ MaxAttempts \in Nat \ {0}
  /\ MaxFaults \in Nat
  /\ Nobody \notin Workers

VARIABLES request,   \* the upload request of each source, as the API sees it
          status,    \* sources.status
          rows,      \* chunks of each source: by which delivery each ord was inserted
          phase, requeues, handled,  \* the ledger of parse messages
          at,        \* where each delivery is in HandleParseMessage
          source,    \* the source it is about
          copy,      \* the requeues its message was read with
          faults     \* crashes, late workers and failed calls so far

ledgerVars == <<phase, requeues, handled>>
deliveryVars == <<at, source, copy>>
vars == <<request, status, rows, phase, requeues, handled, at, source, copy, faults>>

Queue == INSTANCE TaskLedger WITH Tasks <- Sources, Outcomes <- {"ok", "transient"}

Ords(s) == 0..(ChunkCount[s] - 1)

RequestSteps == {"none", "created", "rollback", "accepted", "rejected", "abandoned"}

Statuses == {"absent", "uploaded", "parsed", "indexed", "error"}

HandlerSteps == {"find", "claim", "refind", "prepare", "insert", "fail", "finish", "confirm"}

Steps == HandlerSteps \cup {"idle", "ack", "retry"}

-----------------------------------------------------------------------------
Init ==
  /\ request = [s \in Sources |-> "none"]
  /\ status = [s \in Sources |-> "absent"]
  /\ rows = [s \in Sources |-> [o \in Ords(s) |-> Nobody]]
  /\ Queue!Init
  /\ at = [w \in Workers |-> "idle"]
  /\ source \in [Workers -> Sources]
  /\ copy = [w \in Workers |-> 0]
  /\ faults = 0

Fault == faults < MaxFaults /\ faults' = faults + 1

\* (a mistake: the update forgets the status it expects)
UpdateStatusBlindly(s, from, to) == status' = [status EXCEPT ![s] = to]

\* UpdateStatus: a compare-and-set of the status column.
UpdateStatus(s, from, to) ==
  status' = IF status[s] = from THEN [status EXCEPT ![s] = to] ELSE status

-----------------------------------------------------------------------------
(* The API: SourceService.CreateAndEnqueue. *)

ApiStep(s, from, to) ==
  /\ request[s] = from
  /\ request' = [request EXCEPT ![s] = to]

\* SaveSource, then Sources.Create.
Create(s) ==
  /\ ApiStep(s, "none", "created")
  /\ status' = [status EXCEPT ![s] = "uploaded"]
  /\ UNCHANGED <<rows, ledgerVars, deliveryVars, faults>>

\* The insert took place and its confirmation was lost: the request fails.
CreateUnconfirmed(s) ==
  /\ Fault
  /\ ApiStep(s, "none", "rejected")
  /\ status' = [status EXCEPT ![s] = "uploaded"]
  /\ UNCHANGED <<rows, ledgerVars, deliveryVars>>

\* EnqueueParseSource.
Enqueue(s) ==
  /\ ApiStep(s, "created", "accepted")
  /\ Queue!Submit(s)
  /\ UNCHANGED <<status, rows, deliveryVars, faults>>

EnqueueFails(s) ==
  /\ Fault
  /\ ApiStep(s, "created", "rollback")
  /\ Queue!Submit(s) \/ UNCHANGED ledgerVars
  /\ UNCHANGED <<status, rows, deliveryVars>>

\* "best-effort rollback": the source goes to error if it is still uploaded.
Rollback(s) ==
  /\ ApiStep(s, "rollback", "rejected")
  /\ UpdateStatus(s, "uploaded", "error")
  /\ UNCHANGED <<rows, ledgerVars, deliveryVars, faults>>

RollbackFails(s) ==
  /\ Fault
  /\ ApiStep(s, "rollback", "rejected")
  /\ UNCHANGED <<status, rows, ledgerVars, deliveryVars>>

\* The API process stops between two calls of a request.
ApiCrash(s) ==
  /\ Fault
  /\ request[s] \in {"created", "rollback"}
  /\ request' = [request EXCEPT ![s] = "abandoned"]
  /\ UNCHANGED <<status, rows, ledgerVars, deliveryVars>>

-----------------------------------------------------------------------------
(* The worker: HandleParseMessage. *)

Go(w, step) == at' = [at EXCEPT ![w] = step] /\ UNCHANGED <<source, copy>>

\* processBatch hands the handler a message that was requeued c times.
Take(w, s, c) ==
  /\ at[w] = "idle"
  /\ at'     = [at EXCEPT ![w] = "find"]
  /\ source' = [source EXCEPT ![w] = s]
  /\ copy'   = [copy EXCEPT ![w] = c]
  /\ UNCHANGED <<request, status, rows, ledgerVars>>

Begin(w, s) ==
  /\ phase[s] = "queued"
  /\ Take(w, s, requeues[s])
  /\ UNCHANGED faults

\* The worker is late: it gets to a message of its batch, or ends the backoff
\* before it, after another worker has claimed the message and settled it or put
\* it back.  What it has is an old copy.
BeginLate(w, s) ==
  /\ Fault
  /\ phase[s] # "absent"
  /\ \E c \in 0..requeues[s] :
       /\ phase[s] = "queued" => c < requeues[s]
       /\ Take(w, s, c)

\* (a mistake: any status but uploaded counts as progress)
FindSkipsParsed(w) ==
  /\ at[w] = "find"
  /\ Go(w, IF status[source[w]] # "uploaded" THEN "ack" ELSE "claim")
  /\ UNCHANGED <<request, status, rows, ledgerVars, faults>>

\* FindByID; an indexed source needs nothing more.
Find(w) ==
  /\ at[w] = "find"
  /\ Go(w, IF status[source[w]] = "indexed" THEN "ack" ELSE "claim")
  /\ UNCHANGED <<request, status, rows, ledgerVars, faults>>

\* UpdateStatus uploaded -> parsed.
Claim(w) ==
  LET s == source[w]
  IN  /\ at[w] = "claim"
      /\ UpdateStatus(s, "uploaded", "parsed")
      /\ Go(w, IF status[s] = "uploaded" THEN "prepare" ELSE "refind")
      /\ UNCHANGED <<request, rows, ledgerVars, faults>>

\* (a mistake: somebody else is at it, so there is nothing left to do)
RefindGivesUp(w) ==
  /\ at[w] = "refind"
  /\ Go(w, "ack")
  /\ UNCHANGED <<request, status, rows, ledgerVars, faults>>

\* The status had moved on: only a parsed source is taken further.
Refind(w) ==
  /\ at[w] = "refind"
  /\ Go(w, IF status[source[w]] = "parsed" THEN "prepare" ELSE "ack")
  /\ UNCHANGED <<request, status, rows, ledgerVars, faults>>

\* OpenSource, extractText, chunkText, Embed: nothing shared changes.
Prepare(w) ==
  /\ at[w] = "prepare"
  /\ Go(w, IF source[w] \in Readable THEN "insert" ELSE "fail")
  /\ UNCHANGED <<request, status, rows, ledgerVars, faults>>

\* (a mistake: on conflict do update)
InsertBatchReplaces(w, s) ==
  rows' = [rows EXCEPT ![s] = [o \in Ords(s) |-> w]]

\* (a mistake: the first chunk is left out)
InsertBatchFromOne(w, s) ==
  rows' = [rows EXCEPT ![s] =
             [o \in Ords(s) |-> IF rows[s][o] = Nobody /\ o > 0 THEN w ELSE rows[s][o]]]

\* Chunks.InsertBatch: one transaction, on conflict (source_id, ord) do nothing.
InsertBatch(w, s) ==
  rows' = [rows EXCEPT ![s] =
             [o \in Ords(s) |-> IF rows[s][o] = Nobody THEN w ELSE rows[s][o]]]

Insert(w) ==
  /\ at[w] = "insert"
  /\ InsertBatch(w, source[w])
  /\ Go(w, "finish")
  /\ UNCHANGED <<request, status, ledgerVars, faults>>

\* UpdateStatus parsed -> indexed.
Finish(w) ==
  LET s == source[w]
  IN  /\ at[w] = "finish"
      /\ UpdateStatus(s, "parsed", "indexed")
      /\ Go(w, IF status[s] = "parsed" THEN "ack" ELSE "confirm")
      /\ UNCHANGED <<request, rows, ledgerVars, faults>>

\* FindByID once more; whatever it finds, the handler returns nil.
Confirm(w) ==
  /\ at[w] = "confirm"
  /\ Go(w, "ack")
  /\ UNCHANGED <<request, status, rows, ledgerVars, faults>>

\* The error branches after the claim: best-effort UpdateStatus parsed -> error.
MarkError(w) ==
  /\ at[w] = "fail"
  /\ UpdateStatus(source[w], "parsed", "error")
  /\ Go(w, "retry")
  /\ UNCHANGED <<request, rows, ledgerVars, faults>>

MarkErrorFails(w) ==
  /\ Fault
  /\ at[w] = "fail"
  /\ Go(w, "retry")
  /\ UNCHANGED <<request, status, rows, ledgerVars>>

\* A call of the handler reports an error; an update or insert that does may
\* have taken effect all the same.  FindByID:
FindFails(w) ==
  /\ Fault
  /\ at[w] \in {"find", "refind", "confirm"}
  /\ Go(w, "retry")
  /\ UNCHANGED <<request, status, rows, ledgerVars>>

ClaimFails(w) ==
  /\ Fault
  /\ at[w] = "claim"
  /\ UpdateStatus(source[w], "uploaded", "parsed") \/ UNCHANGED status
  /\ Go(w, "retry")
  /\ UNCHANGED <<request, rows, ledgerVars>>

PrepareFails(w) ==
  /\ Fault
  /\ at[w] = "prepare"
  /\ Go(w, "fail")
  /\ UNCHANGED <<request, status, rows, ledgerVars>>

InsertFails(w) ==
  /\ Fault
  /\ at[w] = "insert"
  /\ InsertBatch(w, source[w]) \/ UNCHANGED rows
  /\ Go(w, "fail")
  /\ UNCHANGED <<request, status, ledgerVars>>

FinishFails(w) ==
  /\ Fault
  /\ at[w] = "finish"
  /\ UpdateStatus(source[w], "parsed", "indexed") \/ UNCHANGED status
  /\ Go(w, "retry")
  /\ UNCHANGED <<request, rows, ledgerVars>>

\* The process stops: the message stays in the PEL.
Crash(w) ==
  /\ Fault
  /\ at[w] # "idle"
  /\ Go(w, "idle")
  /\ UNCHANGED <<request, status, rows, ledgerVars>>

-----------------------------------------------------------------------------
(* Settling the message, as StreamQueue does. *)

\* The copy this delivery read is still the task's live message.
Current(w) ==
  phase[source[w]] = "queued" /\ requeues[source[w]] = copy[w]

\* The handler returned nil: the ledger notes the success.
Succeed(w) ==
  /\ at[w] = "ack" /\ source[w] \notin handled
  /\ Queue!Succeed(source[w])
  /\ UNCHANGED <<request, status, rows, deliveryVars, faults>>

Ack(w) ==
  LET s == source[w]
  IN  /\ at[w] = "ack" /\ s \in handled
      /\ IF Current(w) THEN Queue!Complete(s) ELSE UNCHANGED ledgerVars
      /\ Go(w, "idle")
      /\ UNCHANGED <<request, status, rows, faults>>

Retry(w) ==
  LET s == source[w]
  IN  /\ at[w] = "retry"
      /\ IF Current(w) THEN Queue!Requeue(s) \/ Queue!Bury(s) ELSE UNCHANGED ledgerVars
      /\ Go(w, "idle")
      /\ UNCHANGED <<request, status, rows, faults>>

\* The queue call fails: the message stays pending.
SettleFails(w) ==
  /\ Fault
  /\ at[w] \in {"ack", "retry"}
  /\ Go(w, "idle")
  /\ UNCHANGED <<request, status, rows, ledgerVars>>

-----------------------------------------------------------------------------
Api(s) == Create(s) \/ Enqueue(s) \/ Rollback(s)

ApiDisturbed(s) ==
  CreateUnconfirmed(s) \/ EnqueueFails(s) \/ RollbackFails(s) \/ ApiCrash(s)

\* One call of the handler, and one that fails.
Call(w) ==
  \/ Find(w) \/ Claim(w) \/ Refind(w) \/ Prepare(w) \/ Insert(w)
  \/ Finish(w) \/ Confirm(w) \/ MarkError(w)

CallFails(w) ==
  \/ FindFails(w) \/ ClaimFails(w) \/ PrepareFails(w) \/ InsertFails(w)
  \/ FinishFails(w) \/ MarkErrorFails(w)

Handle(w) == Call(w) \/ Succeed(w) \/ Ack(w) \/ Retry(w)

HandleDisturbed(w) == CallFails(w) \/ Crash(w) \/ SettleFails(w)

Next ==
  \/ \E s \in Sources : Api(s) \/ ApiDisturbed(s)
  \/ \E w \in Workers, s \in Sources : Begin(w, s) \/ BeginLate(w, s)
  \/ \E w \in Workers : Handle(w) \/ HandleDisturbed(w)

Spec == Init /\ [][Next]_vars

\* A queued message is delivered again and again (EventuallySettled of
\* StreamQueue), and a worker that has one goes on with it.
Fairness ==
  /\ \A s \in Sources : WF_vars(\E w \in Workers : Begin(w, s))
  /\ \A w \in Workers : WF_vars(Handle(w))

FairSpec == Spec /\ Fairness

-----------------------------------------------------------------------------
(* Properties. *)

Settled == {"indexed", "error"}

RowsOK ==
  /\ rows = [s \in Sources |-> rows[s]]
  /\ \A s \in Sources : rows[s] \in [Ords(s) -> Workers \cup {Nobody}]

\* Every variable has its type; the requeues of a message stay below the maximum.
TypeOK ==
  /\ request \in [Sources -> RequestSteps]
  /\ status \in [Sources -> Statuses]
  /\ RowsOK
  /\ phase \in [Sources -> {"absent", "queued", "done", "dead"}]
  /\ requeues \in [Sources -> 0..(MaxAttempts - 1)]
  /\ handled \subseteq Sources
  /\ at \in [Workers -> Steps]
  /\ source \in [Workers -> Sources]
  /\ copy \in [Workers -> 0..(MaxAttempts - 1)]
  /\ faults \in 0..MaxFaults

\* An indexed source has all its chunks, and they are those of a single delivery:
\* generation never searches half a document (pipeline.go:105-110).
IndexedComplete ==
  \A s \in Sources : status[s] = "indexed" =>
    \A o, p \in Ords(s) : rows[s][o] # Nobody /\ rows[s][o] = rows[s][p]

\* A source stuck between upload and outcome still has a message that is queued
\* or dead, or its upload request is under way or never enqueued one.  No
\* handler may return nil and leave a source as uploaded or parsed
\* (the comment at pipeline.go:55-57).
NotForgotten ==
  \A s \in Sources : status[s] \in {"uploaded", "parsed"} =>
    \/ phase[s] \in {"queued", "dead"}
    \/ request[s] \in {"created", "rollback"}
    \/ phase[s] = "absent" /\ request[s] \in {"rejected", "abandoned"}

\* Indexed and error are final: neither a late delivery, nor a failing one next
\* to one that succeeds, nor the API's rollback takes an outcome back.
OutcomeFinal ==
  [][\A s \in Sources : status[s] \in Settled => status'[s] = status[s]]_vars

\* The chunks of an indexed source never change, though other deliveries of its
\* message may still insert theirs: citations keep their chunks.
ChunksFrozen ==
  [][\A s \in Sources : status[s] = "indexed" => rows'[s] = rows[s]]_vars

\* A source whose upload was accepted is indexed or marked with an error in the
\* end, unless its message has died.
SourceSettles ==
  \A s \in Sources :
    request[s] = "accepted" ~> (status[s] \in Settled \/ phase[s] = "dead")

\* The parts the proofs add.  What a delivery has learnt stays true while others
\* go on: past the claim a source is never uploaded again, before the last
\* update its chunks are in, and what it is about to acknowledge is settled.
DeliveryOK(w) ==
  LET s == source[w]
  IN  /\ at[w] # "idle" => status[s] # "absent"
      /\ at[w] \in {"refind", "prepare", "insert", "fail", "finish"} =>
           status[s] # "uploaded"
      /\ at[w] = "finish" => \A o \in Ords(s) : rows[s][o] # Nobody
      /\ at[w] \in {"confirm", "ack"} => status[s] \in Settled

DeliverySound == \A w \in Workers : DeliveryOK(w)

\* The chunks of a source come in one transaction, all or none.
RowsAtomic ==
  \A s \in Sources : \A o, p \in Ords(s) : rows[s][o] = rows[s][p]

\* A message exists only for a stored source, and for every accepted upload; it
\* leaves the queue for good only when its source is settled.
MessageSound ==
  \A s \in Sources :
    /\ status[s] = "absent" <=> request[s] = "none"
    /\ request[s] \in {"none", "created"} => phase[s] = "absent"
    /\ request[s] = "accepted" => phase[s] # "absent"
    /\ s \in handled => status[s] \in Settled
    /\ phase[s] = "done" => s \in handled

\* The inductive invariant.
ParsingInv ==
  /\ TypeOK
  /\ IndexedComplete
  /\ DeliverySound
  /\ RowsAtomic
  /\ MessageSound

\* What the README says of messages that are not processed ("перенос
\* необработанных сообщений в DLQ", README.md:93 and 103-108): only the message
\* of a source that was indexed leaves the queue without reaching the DLQ.
UnprocessedReachDLQ ==
  \A s \in Sources : phase[s] = "done" => status[s] = "indexed"
=============================================================================
