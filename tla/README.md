# Auto-Anki: a TLA+ model

Auto-Anki turns uploaded documents into flashcards. An HTTP API stores a source
or a generation job in PostgreSQL and puts a message on a Redis stream; worker
processes read the stream, cut sources into chunks, ask a language model for
cards and store them, and users review and export the cards. What is hard about
the program lies between these parts: several workers share a consumer group,
any call may fail with or without effect, any process may stop between two
calls, and messages come back. These modules model it, check it with TLC on
small instances and prove most of it with TLAPS for all instances. Paths are
those of the repository.

## Inventory

| Component | State | Operations | Talks to | Hard behaviours | What makes it correct |
|---|---|---|---|---|---|
| Job queue, `internal/infra/redisq/queue.go` | two streams, their consumer group (last delivered id, pending-entries list or PEL), two DLQ streams | enqueue, ensure groups, read new, claim pending, ack, retry or DLQ, backoff | API and workers call it, Redis executes | lost replies, claims of messages still being handled, late settlement, attempt counting | no task lost, none twice in the queue, attempts bounded, DLQ justified, everything settled in the end |
| Worker loop, `cmd/worker/main.go` | two claim cursors, the current batch | four stages per pass; backoff, handle, ack or retry per message; shutdown | queue, handlers | batches dropped on shutdown, idle time running while a batch waits, cursor wrap | as above |
| Parsing, `internal/usecase/source.go`, `internal/app/worker/pipeline.go`, `postgres/sources.go`, `postgres/chunks.go` | `sources.status`, rows of `chunks` | `CreateAndEnqueue`, `HandleParseMessage` | file store, embedder, queue | stale reads before a compare-and-set, two deliveries of one message, crash between claim and index, rollback racing a worker | outcomes final, an indexed source whole and frozen, none forgotten |
| Text, `extractText`, `stripTags`, `chunkText` of `pipeline.go` | a loop's variables | from bytes to chunks | parsing | brackets that do not pair, odd runs of newlines, windows and what is left after them | nothing but space lost, chunks in order, within a paragraph and a size |
| Generation, `internal/usecase/generation.go`, `pipeline.go`, `postgres/generation_jobs.go`, `cards.go`, `card_source_links.go` | `generation_jobs.status` and counters, `cards`, `card_source_links` | `CreateAndEnqueue`, `HandleGenMessage` | LLM, embedder, vector search, queue, sources, card sets | runs started again, two runs side by side, a model that varies, checks made before the job is stored | a job stands on an indexed source, a ready job has a run with all its cards, outcome final, nobody begins to store afterwards, cards linked |
| Grounding and prompt, `internal/usecase/post_validate.go`, `rag.go` | none | tokens, overlap, cited chunks, automatic fix, prompt text | generation | thresholds, an answer replaced between two checks, two orders of scores | coverage counts what is stored, the fix quotes the best chunk and works |
| LLM and embedding clients, `internal/infra/llm` | none | one request each, checks on the reply, types of error | workers | error classification | errors reach the queue as they are |
| Review of cards, `internal/usecase/cards.go`, `postgres/cards.go` | `cards` | list, patch | API | an edit during a run that is started again | edits survive, the cards of a job differ |
| Export, `internal/usecase/export.go`, `postgres/export_jobs.go`, `infra/export/csv.go` | `export_jobs`, files | create and run in one request, get, download | cards, file store | reviews and runs between listing and writing, failing between running and finished, unflushed file | only its user's approved cards, the newest of them |
| Card sets, `postgres/card_sets.go` | `card_sets` | create, find | generation, export | a deck made for a job that never comes | a job has a deck of its user's |
| Accounts, `internal/usecase/auth.go`, `postgres/users.go`, `infra/auth/jwt.go` | `users` | register, login | API | two registrations at once, unconfirmed inserts, late updates | one account per address, tokens only for the right password |
| HTTP API, file store, domain types, schema | see `PROJECT.json` | | | | |

`PROJECT.json` lists the hazards of the code line by line, with the properties
that watch each and, where there is none, the reason.

## Modules

| Module | What it is |
|---|---|
| `TaskLedger` | what the queue promises of a task: absent, queued, done or dead, a bounded number of requeues, done only after a success |
| `StreamQueue` | both streams, the group, the PEL, the DLQs and the loop of each worker |
| `SourceParsing` | a source from upload to indexed or error, over the ledger |
| `Chunking` | from the bytes of a source to its chunks |
| `CardGeneration` | a generation job from request to ready or failed, over the ledger |
| `CardContent` | from a reply of the language model to rows, links and coverage |
| `AutoAnki` | parsing and generation put together: shared workers, the checks before a job, decks |
| `Deployment` | the same handlers run by the workers of `StreamQueue`: no ledger, but streams, batches and claims |
| `DeckExport` | the table of cards as runs, reviews and exports use it, and an export from request to file |
| `Accounts` | registration and login over the table of users |
| `MCStreamQueue`, `MCSourceParsing`, `MCCardGeneration`, `MCAutoAnki`, `MCDeployment`, `MCDeckExport`, `MCParts` | instances for TLC; `MCParts` has `Chunking`, `CardContent`, `Accounts` and (through `MCDeckExport`) `DeckExport`, which share no state, in one specification: a behaviour is that of one of them |
| `StreamQueue_proofs`, `SourceParsing_proofs`, `CardGeneration_proofs`, `Content_proofs`, `AutoAnki_proofs`, `Deployment_proofs`, `DeckExport_proofs`, `Accounts_proofs` | theorems; `Content_proofs` is about `Chunking` and `CardContent` |

How they fit together: `StreamQueue` is shown to implement `TaskLedger` for each
stream, by TLC (run `queue_streams`) and by proof. `SourceParsing` and
`CardGeneration` use the ledger in place of the stream
(`Queue == INSTANCE TaskLedger`), so each stays about its own tables, and what it
takes from the queue is what the queue was shown to give. `AutoAnki` instantiates
both and is proved to implement each of them, so that every safety theorem about
a part holds of the whole. `Deployment` closes the circle: it has the real queue
and the real handlers, without a ledger, and implements `AutoAnki` (run
`deployment_streams`, and by proof), so that the theorems reach the program as it
is deployed.
`Chunking` and `CardContent` are what `SourceParsing`
does in `Prepare` and `CardGeneration` in `Generate`, in isolation: nothing else
reads or writes the variables of those loops.

### StreamQueue

* `log[s]` is the stream, append-only as in the program, which never trims; a
  message's id is its position. `last[s]` and `pending[s]` are the group's last
  delivered id and PEL. The owner of a pending entry is left out: XACK, the Lua
  script and XAUTOCLAIM work whoever it is. `idle[s]` are the entries that have
  been idle for longer than `PARSE_CLAIM_IDLE_MS` or `GEN_CLAIM_IDLE_MS`; `Age`
  lets that happen at any moment, also to a message that is being handled.
* `stage`, `cursor`, `batch` and `pc` are where a worker is in `runLoopOnce` and
  `processBatch`. `ClaimPending` and `ReadNew` are the two kinds of fetch,
  `HandlerReturns` the handler with any outcome, then `Ack` or `RetryOrDLQ`.
* Every call to Redis can fail, or take effect with its reply lost: `FetchFails`,
  `ClaimLost`, `ReadLost`, `SettleFails`, `StartFails`. `Stop` is a crash or a
  shutdown; `Start` creates the groups anew and resets the cursors.
* A worker that sees `ErrMessageNotPending` logs it and goes on, like `AckAndAdd`
  when the entry is not pending.
* `MarkPermanent` is never called in the repository; the outcome `permanent` is
  in the model for the queue's own code.
* `Phase` and `Requeues` say what of this state the ledger sees: the refinement
  mapping of `ParseLedger` and `GenLedger`.

### SourceParsing and Chunking

* `request[s]` is where `CreateAndEnqueue` is; `Rollback` is the best-effort
  update after a failed enqueue. `EnqueueFails` may or may not have enqueued.
  `ApiCrash` is also a client that goes away: the request's context ends with it.
* `at[w]` is the call a delivery makes next in `HandleParseMessage`; each action
  is one call with the branch taken on its result. Reading the file, extracting,
  chunking and embedding change nothing shared and are one action, `Prepare`.
* `rows[s][o]` is the delivery whose `InsertBatch` stored chunk `o`, so the model
  tells the chunks of two deliveries apart.
* `copy[w]` is the number of requeues the message was read with. A delivery whose
  message has since been settled by another one settles nothing (`Current`).
* `Begin` is a delivery of the message the ledger has queued. `BeginLate` is one
  of a message that was settled or put back while its worker was busy with the
  rest of a batch: the handler runs all the same, on an old attempt or for a task
  that is done or dead. It counts as a fault, which bounds it.
* In `Chunking` each pass of a loop is a step: `Strip` is one rune in
  `stripTags`, `Split` one paragraph and `Cut` one window in `chunkText`. A rune
  is known by its kind, what is cut by its place: `text` is the sequence of
  positions kept of the document, a chunk a pair of positions in `text`, so "lost"
  and "in order" can be said. `TrimSpace` is `strings.TrimSpace`.

### CardGeneration and CardContent

* The API and the settling of messages are as in `SourceParsing`.
* `run[w]` are the locals of the loop in `HandleGenMessage`. `Generate` is one
  round up to the batch: embedding, search, the LLM's reply, duplicates by
  `hashQA`. `Insert` is the transaction of the batch. `totalGenerated` is the
  number of cards in `seen`.
* `Stored` is what the post-validation's auto-fix makes of a card and `Linked`
  the citations that become rows. `cards[j][c]` counts rows, so that the unique
  key of `migrations/002_cards_dedup.sql` has something to keep unique.
* A card is known by question and answer; cards that agree in these carry the
  same citations.
* `Replies[i]` are the answers the model may give in round `i`, and each run gets
  any of them each time it asks. The worker wires an OpenAI client
  (`cmd/worker/main.go:66`) with a low temperature and no seed, so nothing says
  that a round is answered in the same words again; `FakeCardLLM`, which would, is
  not used.
* `Storing(j)` are the deliveries between the last look at the job's status and
  its outcome. A late one of these may still add cards to a job that is finished,
  since no insert looks at the status; `OnlyStragglersStore` says that it is only
  these.
* `CardContent` opens what `CardGeneration` takes for granted, in one run of one
  job: `ErrorOf` and `Valid` are the checks of `openai_cards.go`, `Take` is the
  body of the loop over the cards of a reply. Texts are sequences of words; a word
  of two bytes or less, which `tokenSet` drops, is in `Short`. `Score` is in
  thousandths, since links carry it clamped to 0..0.999 and the order of the cited
  chunks is that of the raw one. `Kept` and `Stub` say where `truncate` cuts.
  Its specification is `LoopSpec`, so that `MCParts` can extend it and `Chunking`.

### AutoAnki

* The variables of both parts, renamed; `intake`, `deck` and `decks` are its own.
  `intake[j]` is how far `GenerationService.CreateAndEnqueue` has come before
  `Jobs.Create`: the source looked up and found good (`LookUpSource`), the deck
  found or made (`FindDeck`, `CreateDeck`). `GiveUp` is a failed call, a refusal
  or a stop; a deck that was made stays.
* `Idle(w)`: a worker has one message of either stream at a time. Everything else
  is a step of `SourceParsing` or of `CardGeneration`, the other's variables
  unchanged.
* `OrdOf` places the chunks the vector search can return in the job's source,
  which is all `SearchSimilar` looks through.

### Deployment

* The variables are those of `StreamQueue` and the tables and handlers of
  `AutoAnki`. A task of the parse stream is a source, one of the gen stream a job.
* `HandOver` is `handle(ctx, m.Payload)` in `processBatch`: the worker's first
  message goes to the handler of its stream. `HandlerCalls` are the calls of the
  handler, `Return` its result, `Settle` the acknowledgement or the script,
  `Drop` a stop or a call to Redis that fails. `Fetch` is a worker between two
  batches.
* `UploadEnqueue` and `JobEnqueue` put the message into the stream, where the
  parts had a step of the ledger; the other calls of a request are those of the
  parts.
* The mapping: `ParsePhase` and `GenPhase` are what the streams say of a task
  (a live message, a dead letter, neither), `ParseRequeues` and `GenRequeues` the
  messages of it with an attempt above zero.
* `MaxFaults` bounds failures and stops of all the parts together (`Calm`), late
  workers included once they happen; `MaxLapses` is the bound `AutoAnki` knows,
  which counts late workers that cost no failure here.

### DeckExport

* `cards` is the table, a card's id its position. `StoreCards` is the transaction
  of a run's batch, whatever the state of its job: the first run, or one started
  again after the user has reviewed. `Patch` is `CardsRepo.Update`.
* `created_at` is `now()`, the start of the transaction: equal within a batch and
  not in the order of commits, so `Times` is free and `Newest` has choices.
* `where[e]` is the call `CreateAndRun` makes next. `Prepare` also chooses the
  format, which nothing looks at before: csv goes on to `Write`, any other to
  `FailExport`. `CallFails`, `StepFails`, `FlushFails` and `Abandoned` are its
  failures; after a failed `PrepareExport` nobody closes the export.
* `ever` and `always` are history: the cards that were approved at some moment
  of the request, and at every moment. They say what a listing may and must have
  without saying when it is made.
* A status other than the three is refused by the table's check constraint, like
  a patch the unique key refuses. Two contents with the same hash are one.
* Its specification is `DeckSpec`, its type invariant `DeckOK`, so that `MCParts`
  can extend it beside the other parts.

### Accounts

* `at[q]` is the database call a request makes next; `email` and `password` are
  what it says. An account is the registration that made it, a hash the password
  it was made from.
* `LookUpAddressFails` goes on, since `Register` takes any error of `FindByEmail`
  for "no such user"; `FindUserFails` answers like a wrong password.
* `seen[q]` is the time a login read the clock, which `UpdateLastLogin` writes
  later; the error of that call is dropped.

## Runs

| Run | Question | Instance |
|---|---|---|
| `queue_tasks` | is a task ever lost or in two messages, are attempts counted right and dead letters justified, does a stream stay bounded? | 2 workers, 2 tasks on one stream, batches of 2, 2 attempts, 2 faults |
| `queue_streams` | does each stream implement the ledger, and is every task settled? | 2 workers, one task on each stream, 2 attempts, 2 faults |
| `parsing_outcomes` | are outcomes final, sources whole, frozen, not forgotten, settled? | a readable source of 2 chunks, an unreadable one, 2 deliveries, 3 attempts, 2 faults |
| `generation_outcomes` | with a model that varies: does a ready job have the counters and all cards of one run, every job whole replies, are outcomes final, cards linked, accepted jobs settled, does nobody begin to store for a finished job? | 1 job, 2 rounds, two answers to the first, 5 cards, 2 deliveries, 3 attempts, 3 faults; 304 thousand states |
| `application_whole` | do jobs stand on indexed sources, do cited chunks stay, does neither stream starve the other? | 1 source of 2 chunks, 1 job of one round, 2 workers, 2 attempts, one fault in each part |
| `deployment_streams` | do streams, batches, claims and late workers show the tables no more than the ledgers of `AutoAnki`? | 1 source of 1 chunk, 1 job of one round, 2 workers, 2 attempts, 1 fault, batches of 1; 248 thousand states |
| `parts_alone` | what do chunking and the loop over the cards lose, cut or count wrongly; one account per address, tokens and login times earned; do reviews, later runs and exports leave each other's cards right? | every document of up to 5 runes and every plain one of up to 6, chunks of 2; 2 rounds with any of some seventy replies; 2 registrations, 2 logins, 2 addresses, 2 passwords of which one is too long to hash, 2 times, 2 faults; 1 job of 2 cards, 2 times of creation, 2 users with an export each, a limit of 1, 1 fault; 950 thousand states in all |
| `generation_retry`, `generation_dlq`, `generation_citations`, `export_flush`, `parts_errors` | findings, below | one worker, one export, one reply |

The bounds are the least at which the interesting cases happen. Two workers are
what a claim race needs, and a third could only repeat the part of the second
after the message has been settled. Two messages in a batch make one wait while
the other is handled; with the PEL of the other worker they make the claim cursor
stop in the middle and come round. Two attempts give a retry and a burial, three
a retry of a retry. `MaxFaults` bounds stops and failed or lost calls together:
two let the second failure strike in the repair of the first. Six runes are a
paragraph of more than one window, three newlines in a row and a blank
paragraph, one beside the other. Two cards and a limit of one make a listing
leave a card out, and let a patch make two cards equal. Two answers to one round,
one of which repeats nothing, let two runs of a job differ; the second round, with
one answer, shares a card with one of them and comes after both. One job is enough, since
jobs share no state but the deliveries; two sources run side by side in
`parsing_outcomes`. Symmetry is used only in runs without liveness properties, on
sets whose members no definition names: tasks and workers of `queue_tasks`, the
addresses of `parts_alone`.

Deadlock is checked for the queue and the deployment, whose workers loop for
ever. The others stop when there is nothing left to do - sources and jobs settled,
a document cut, requests answered - so their runs do not check it.

### Fairness

* Queue: weak fairness of each worker's undisturbed step (a worker loops and is
  restarted when it stops) and of time passing for a pending message. Nothing is
  assumed of users, of failures, or of which outcome a handler has.
* Parsing, generation and the whole: a queued message is delivered as long as it
  is queued (`EventuallySettled` of the queue), and a delivery goes on with its
  handler (the calls have time limits or fail). In the whole it is delivered by
  whichever worker is free, since a pass of `runLoopOnce` looks at both streams.
  No failure is assumed to happen or stop; `MaxFaults` makes them finite, late
  deliveries among them.
* `Deployment` states no fairness: its liveness would be that of the queue and of
  the whole put together, each checked where it is stated; the product is out of
  TLC's reach in any instance with a claim.

### Findings

* `generation_retry`: a comment says the unique key on job and content hash "makes
  retries idempotent" (`postgres/cards.go:65`), the migration that it is there for
  the idempotence of generation under retries. The key tells cards apart by their
  words. A worker stores the first round and stops; the next delivery runs the job
  again from the first round, the model answers in other words, and the job is
  ready with the cards of both runs, while `total_cards_generated` is that of the
  second. Two deliveries side by side do the same. What does hold is
  `ReadyHasRun` and `WholeRounds`: nothing of the run that counts is missing, and
  what is left over from others are whole replies.
* `generation_dlq`: the README says failed messages are tried again and that
  unprocessed ones end in the DLQ. `failJob` records the failure in the table at
  the first attempt; the retry reads that status as "nothing to do", returns nil,
  and its message is acknowledged. A job whose LLM failed once never reaches the
  DLQ, and no further attempt does any work. Parsing does the same with
  `sources.status = error`.
* `generation_citations`: "Ensure we have at least one citation" looks at what
  the model cited, not at what remains of it: a card that cites only made-up
  chunks is stored without a link.
* `export_flush`: `ExportCSV` ends with `return w.Error()`, but its `Flush` is
  deferred and runs after. A deck that fits the writer's buffer is written only
  then; if that fails, the export is ready with an incomplete file.
* `parts_errors`: the LLM client has types of error "for queue retry/DLQ
  classification", but the queue looks for a type of its own with the same name.
  Every error of the client is transient to the queue and is retried until the
  attempts are used up.

A remark that is no finding: the mark `auto_fixed_to_source`, put into the
validation at `pipeline.go:233`, is lost when the next line replaces it.

## Proofs

All theorems are about every value of the constants that the named assumption of
the module admits; the bounds of the runs, `MaxFaults` included, are parameters.
For each module there is an inductive invariant, since what the runs check is
seldom inductive as it stands.

`StreamQueue_proofs` proves `TypeOK`, `NothingLost`, `AtMostOneCopy`,
`AttemptsInOrder`, `DeadLettersJustified` and `StreamsBounded`. The invariant is
`QueueInv`. It adds to the first five: `Shape` (without a group nothing was delivered, and between
batches a worker holds nothing), since a group created late must not set `last`
back; `AckJustified`, since an acknowledgement takes a message out of the PEL
and the task must then be in `handled`; `DeadWereEnqueued` and
`EarlierAttemptsDelivered`, which carry the history a dead letter stands for.
The argument goes through one lemma, `StepEffect`: whatever the action, a step
does to each stream one of five things - nothing, a submission, an
acknowledgement, a requeue or a burial of a single message - and each part of
the invariant is shown for these five. `ParseStreamIsLedger` and
`GenStreamIsLedger` are the refinement: `LedgerInv` adds that a stream carries
only its own tasks, that results are outcomes, and `CountsAgree`, that the attempt
written in a live message is the number of requeues counted in the stream; then
each of the five effects is a step of the ledger or none. `StreamsAreLedgers` is
both at once, `LedgerSpecs`. `StreamsBounded` is a matter of counting: attempts
only grow along the stream, so that a message is known by its task and attempt
(`Injects`), and there are at most `MaxAttempts` for each task (`LogBounded`). It
is the check in the script that makes this so, which keeps a late worker from
adding another message for the same attempt.

`SourceParsing_proofs` proves `TypeOK`, `IndexedComplete`, `NotForgotten` and
the action properties `OutcomeFinal` and `ChunksFrozen`.
The invariant is `ParsingInv`. It adds `DeliverySound`, what each delivery has
learnt of its source at the step it is at; `RowsAtomic`, that chunks come all or
none; and `MessageSound`, how request, status and message fit together. The
argument is that of rely and guarantee: every step of anyone moves sources only
`Forward` (a status never returns to uploaded, an outcome never changes, a row
once there stays), and what a delivery knows is stable under `Forward`
(`DeliveryStays`). `NotForgotten` then follows from `MessageSound`; the action
properties from `Forward` and `IndexedComplete`.

`CardGeneration_proofs` argues in the same way for `TypeOK`, `NotForgotten` and
`JobOutcomeFinal` (`GenerationInv`). `EveryCardLinked` is proved under
`CitesContext`, that the model cites only chunks it was given; the finding
`generation_citations` shows that it takes that.

`ReadyHasRun`, `WholeRounds` and `OnlyStragglersStore` are proved for any replies,
a model that never repeats itself included. There is no lock between two runs of a
job and no common order of their rounds; the invariant `RunsSound` says of each
delivery that there is a run of its own it follows (`Follows`): one reply to each
round, so that what it has seen and counted is what those of its earlier rounds
say, and every card of these is a row of the job, whoever stored it. It is stable
because rows are never removed (`Grown`): other deliveries, whatever they are
answered, only add to what a delivery relies on. The replies a run will get are
not known before it asks, so `RunGoesOn` puts the reply of the moment into the run
it follows, whose earlier rounds stay. When a delivery marks its job ready, its run
is the one `ReadyHasRun` asks for. Of a row `Comes` says which reply brought it and
that replies to all earlier rounds came before; that needs the transaction, since a
batch together with what the run had seen makes its reply whole. The counters are
counted by round and place in the reply, for which the proof carries `Cardinality`
of the places through the rounds (`RoundCounted`). `OnlyStragglersStore` needs from
the invariant only that outcomes are final. That the rows of a ready job are those
of a single run, as the comments have it, is refuted by `generation_retry`.

`AutoAnki_proofs` shows first that a step of the whole is a step of each part, or
leaves it unchanged: `WholeParses`, `WholeGenerates`. With that the proofs of the
parts are instantiated (`P`, `G`) and their invariants hold of the whole.
`JobsFounded` then needs `IntakeSound`, that what a request for a job was told
of its source and deck is still so; it is stable because sources move `Forward`
and decks stay. `CitedChunksStay` follows from `Forward` too, once it is known
that links name chunks of the context of a job that was founded (`LinksSound`).

`Deployment_proofs` proves `WholeSpec`: the deployment implements `AutoAnki`. The
invariants are `LedgerInv` of the queue, which holds since every step of the
deployment is one of `StreamQueue` or leaves it alone (`QueueStep`; so the
deployment also implements `StreamQueue`, `DeploymentRunsQueue`), and `HandSound`: a worker whose handler is busy has its source or job from the first
message of its batch and settles as the handler returned. Then each step is
mapped. Fetching and ageing are stutters (`FetchRefines`): the ledger does not see
deliveries. Handing over a live message is `Begin`, since it is the only one of
its task and counts all its attempts (`CopyIsLive`); handing over any other one is
`BeginLate`, since it counts fewer than were made, or its task is no longer queued
(`AttemptsCounted`). The return of a handler is the ledger's `Succeed` or a
stutter, settling a message is a completion, a requeue, a burial or, for a message
that is no longer pending, nothing (`SettleRefines`); a stop of a worker that had
more messages in its batch is a crash of the one handler that was busy
(`DropRefines`). With `WholeSpec` the theorems about the ledgers carry over:
`Proved` instantiates `AutoAnki_proofs` under the same mapping, and
`DeployedSourcesComplete`, `DeployedSourcesNotForgotten`,
`DeployedJobsNotForgotten`, `DeployedReadyJobsHaveRun` (whatever the model
answers), `DeployedJobsFounded` and `DeployedCitedChunksStay` state the most
important of them of the streams, for any number of workers and faults. In
`DeployedSourcesNotForgotten` the message that is queued or dead is one in a real
stream or DLQ. `DeploymentAssumption` adds to those of the parts that a handler
succeeds or fails with a transient error, as nothing makes a permanent one.

`Content_proofs` proves of `Chunking` `TextOutsideTags`, `ChunksFit` and `NothingLost` for
documents and chunks of any length. `ChunkingInv` says of `stripTags` that the
text is what stands outside the tags of the runes read so far, and of `chunkText`
that everything before `rest` is in a chunk or in what is left of the paragraph.
A by-product (`ReturnKeeps`): the last case of `chunkText`, which makes a chunk
of a text that gave none, is never taken. `ChunkingEnds`: every pass of the loops
lowers `PassesLeft`, which is between 0 and twice the runes of the document and
five, so that they end; `LengthsSound` says that the text is no longer than what was
read and that `rest` is at most three behind its end.

Of `CardContent` it proves `CoverageCounted`, `FixQuotesBest` and `FixSuffices`
for any texts, scores, cuts and replies that `ContentAssumption` admits: scores
are at most 1, the preamble has at most two words and a cut leaves at most one
part of a word. `ContentInv` says that rows are
made of cards of the replies and that the counts are those of the rows; what
remains is about a single row. `CountedAsStored`: the chunks that are cited and in
the context are those of the links, so the check that is counted is the one the
row would pass. `FixedRow`: the order of the raw scores is kept by the clamp.
`QuotationIsGrounded`: with `k > 0` whole words that count, the quotation has at
most `k + 3`, and `100 k >= 12 (k + 3)`. `LoopEnds`: rounds are at most `MaxCards`, and
within one each card looked at, each batch stored and the end of the job lower
`RoundLeft`, so that a delivery whose calls return comes to an end.

`DeckExport_proofs` proves all that `parts_alone` checks of decks, and that a ready
export has a file. The invariant is `DeckInv`. It adds to the properties
`HistorySound`, that what was approved all the time is approved now and what is
approved now was at some time; `ListedOwned`, that what is listed is a card of
the user's; and `ClosedSound`, which ties the status and the file of an export to
the call it makes next. There are two kinds of step. Runs and users change the
table and no export: the table `Grows`, and each card keeps its job and time, so
that what was listed stays as good (`TableChange`). A request changes its own
export and not the table (`RequestChange`). The heart is `NewestFaithful`: a card
of the listing's choice that is left out has `Limit` others before it.

`Accounts_proofs` proves all that `parts_alone` checks of accounts.
`CredentialsEarned` is `TokensEarned` and `LastLoginEarned`. `AccountsInv` adds
`RequestSound`, what each request knows at its next call: what a login found has
its address and password, and a registration about to sign has its row. Accounts
are only added, so that stays true; two of one address cannot be, since the
insert is the only step that adds one and looks at the table itself.

Only model-checked: liveness (`EventuallySettled`, `SourceSettles`, `JobSettles`,
`EverythingSettles`), which is out of the prover's reach. No liveness is
stated of exports, since a failure may leave one running for good, nor of
requests, which a stopped process never answers.

## Not modelled

* The length and jitter of the backoff and the pauses of the loop: any time may
  pass between two steps, so they change no behaviour. Diagnostic fields of a
  message (`last_error`, `error_kind`), logging, configuration.
* The trimming of streams, which the program does not do; `StreamsBounded` says
  how far they grow.
* The prompt, the average answer length, token counts: formatting and statistics.
* Embeddings as vectors. The schema's `vector(1536)` and the configured model's
  dimension must agree; an insert that is refused is a failed call.
* HTTP decoding and wording, handlers that only read, parsing of tokens, roles
  and expiry: no state of their own. `Get` and the download of exports only read.
* bcrypt refuses to hash a password of more than 72 bytes (`TooLong`) but compares
  the first 72 only. `Accounts` compares passwords as wholes.
* The bytes of files: reading and writing are calls that may fail.
* `max_cards` bounds the rounds; a reply with several cards may give more than
  that many, in the code as in the model. CRLF texts have no pair of newlines and
  are one paragraph; a source of nothing but space is indexed with no chunks. No
  property says otherwise, as nothing in the repository does.
* A failed `PrepareExport` (`export.go:98`) and the dropped error of
  `MarkFinished` (`export.go:118`) leave an export running; `DeckExport` reaches
  both, and nothing in the repository promises that an export is closed.
* Redis and PostgreSQL are modelled by the commands the code issues: single
  commands, the Lua script and transactions are atomic, and data is not lost.

## Plan

Every component that has state is modelled, and every safety property checked is
proved; the deployment is proved to implement the application. What is left:

1. The life of a task from request to outcome as an abstract specification of
   its own, implemented by parsing, generation and export alike.
2. Exports in the whole: `AutoAnki` with `DeckExport`, cards stored by real runs
   under review, and `NothingForeign` of that.
