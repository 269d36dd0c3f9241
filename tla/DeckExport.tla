----------------------------- MODULE DeckExport -----------------------------
(***************************************************************************)
(* Reviewing cards and exporting decks: generation jobs store cards, and   *)
(* may store the same ones again when they are run again; users approve,   *)
(* reject and edit them (usecase/cards.go); an export lists the approved   *)
(* cards of a deck and writes a file, all within one request whose calls   *)
(* are steps of their own (usecase/export.go, infra/export/csv.go).        *)
(*                                                                         *)
(* A card's id is its position in the table: cards are never deleted.  Its *)
(* created_at is when its transaction began, so that cards of one batch    *)
(* have the same time, and a later position need not have a later one.     *)
(* Citations, which an export adds to the answers if it can read them, and *)
(* all other fields are left out.                                          *)
(***************************************************************************)
EXTENDS Integers, Sequences, FiniteSets, SequencesExt

CONSTANTS Users,
          Decks,          \* card sets
          Jobs,           \* generation jobs
          Contents,       \* questions with their answers, up to content_hash
          Exports,        \* export requests
          JobUser, JobDeck,                    \* whose job it is, and its deck
          ExportUser, ExportDeck,
          Times,          \* values of created_at
          Limit,          \* how many cards an export lists at most
          MaxExportFaults \* bound on stops and failed or unconfirmed calls

ASSUME ExportAssumption ==
  /\ JobUser \in [Jobs -> Users] /\ JobDeck \in [Jobs -> Decks]
  /\ ExportUser \in [Exports -> Users] /\ ExportDeck \in [Exports -> Decks]
  /\ IsFiniteSet(Contents) /\ Times \subseteq Nat
  /\ Limit \in Nat \ {0}
  /\ MaxExportFaults \in Nat

VARIABLES cards,         \* the table of cards
          exportStatus,  \* export_jobs.status
          where,         \* where each request is in CreateAndRun
          listed,        \* the cards it holds: id and content of each
          file,          \* what its file on disk contains; none is a file of its own
          ever,          \* history: cards that were approved at some time of the request
          always,        \* history: cards that were approved all the time
          exportFaults   \* stops and failed or unconfirmed calls so far

exportVars == <<exportStatus, where, listed, file>>
deckVars == <<cards, exportStatus, where, listed, file, ever, always, exportFaults>>

CardStatuses == {"draft", "approved", "rejected"}

CardRow == [job : Jobs, content : Contents, created : Times, status : CardStatuses]

Statuses == {"absent", "pending", "running", "ready", "failed"}

ExportSteps == {"none", "created", "list", "prepare", "write", "fail", "finish", "answered"}

Item == Nat \X Contents

NoFile == {<<0, "no file">>}

-----------------------------------------------------------------------------
DeckInit ==
  /\ cards = << >>
  /\ exportStatus = [e \in Exports |-> "absent"]
  /\ where = [e \in Exports |-> "none"]
  /\ listed = [e \in Exports |-> {}]
  /\ file = [e \in Exports |-> NoFile]
  /\ ever = [e \in Exports |-> {}]
  /\ always = [e \in Exports |-> {}]
  /\ exportFaults = 0

ExportFault == exportFaults < MaxExportFaults /\ exportFaults' = exportFaults + 1

-----------------------------------------------------------------------------
(* The table of cards. *)

Owner(row) == JobUser[row.job]

\* (a mistake: the owner is taken from the deck)
AnybodysCards(table, e) ==
  {i \in DOMAIN table : /\ JobDeck[table[i].job] = ExportDeck[e]
                        /\ table[i].status = "approved"}

\* What Cards.List finds for an export: its user's approved cards of the deck.
Matching(table, e) ==
  {i \in DOMAIN table : /\ Owner(table[i]) = ExportUser[e]
                        /\ JobDeck[table[i].job] = ExportDeck[e]
                        /\ table[i].status = "approved"}

Items(table, ids) == {<<i, table[i].content>> : i \in ids}

Open(e) == where[e] \notin {"none", "answered"}

\* An open request goes on watching what is approved.
Watch ==
  LET now(e) == Items(cards', Matching(cards', e))
  IN  /\ ever'   = [e \in Exports |-> IF Open(e) THEN ever[e] \cup now(e) ELSE ever[e]]
      /\ always' = [e \in Exports |-> IF Open(e) THEN always[e] \cap now(e) ELSE always[e]]

\* The rows of a job with this content: at most one, by the unique key.
Holding(j, c) == {i \in DOMAIN cards : cards[i].job = j /\ cards[i].content = c}

\* The new rows of a batch, in some order.
Rows(j, batch, t) ==
  LET new == {c \in batch : Holding(j, c) = {}}
  IN  [k \in 1..Cardinality(new) |->
         [job |-> j, content |-> SetToSeq(new)[k], created |-> t, status |-> "draft"]]

\* (a mistake: on conflict do update set status = excluded.status)
UpsertResets(j, batch, t) ==
  cards' = [i \in DOMAIN cards |->
              IF \E c \in batch : i \in Holding(j, c)
              THEN [cards[i] EXCEPT !.status = "draft"] ELSE cards[i]] \o Rows(j, batch, t)

\* upsertCardReturnID for a batch, in one transaction: a card that is there
\* already stays as it is.
Upsert(j, batch, t) == cards' = cards \o Rows(j, batch, t)

\* A run of the job, the first or a later one, stores the cards of a round.
StoreCards(j, batch, t) ==
  /\ Upsert(j, batch, t)
  /\ Watch
  /\ UNCHANGED <<exportVars, exportFaults>>

\* (a mistake: the unique key is only looked at on insert)
AcceptedAlways(i, row) == TRUE

\* The unique key: no other row of the job has the new content.
Accepted(i, row) == Holding(row.job, row.content) \subseteq {i}

\* Cards.Update of the user's own card: some fields are set, the others stay.  A
\* patch the unique key refuses, or of somebody else's card, changes nothing.
Patch(u, i) ==
  /\ Owner(cards[i]) = u
  /\ \E c \in Contents, s \in CardStatuses :
       LET row == [cards[i] EXCEPT !.content = c, !.status = s]
       IN  Accepted(i, row) /\ cards' = [cards EXCEPT ![i] = row]
  /\ Watch
  /\ UNCHANGED <<exportVars, exportFaults>>

-----------------------------------------------------------------------------
(* An export request: ExportService.CreateAndRun. *)

Go(e, step) == where' = [where EXCEPT ![e] = step]

Set(e, to) == exportStatus' = [exportStatus EXCEPT ![e] = to]

\* Exports.Create; the request's history begins.
CreateExport(e) ==
  LET now == Items(cards, Matching(cards, e))
  IN  /\ where[e] = "none"
      /\ Set(e, "pending")
      /\ Go(e, "created")
      /\ ever' = [ever EXCEPT ![e] = now] /\ always' = [always EXCEPT ![e] = now]
      /\ UNCHANGED <<cards, listed, file, exportFaults>>

\* MarkRunning, of a pending export.
MarkRunning(e) ==
  /\ where[e] = "created"
  /\ IF exportStatus[e] = "pending" THEN Set(e, "running") /\ Go(e, "list")
                                    ELSE UNCHANGED exportStatus /\ Go(e, "answered")
  /\ UNCHANGED <<cards, listed, file, ever, always, exportFaults>>

\* The ways to choose at most Limit of the ids.
Portions(ids) ==
  {some \in SUBSET ids :
     Cardinality(some) = Limit \/ (some = ids /\ Cardinality(ids) < Limit)}

\* (a mistake: order by created_at without desc)
OldestFirst(ids) ==
  {some \in Portions(ids) :
     \A i \in some, k \in ids \ some : cards[k].created >= cards[i].created}

\* order by created_at desc limit Limit: any of those created at the same time.
Newest(ids) ==
  {some \in Portions(ids) :
     \A i \in some, k \in ids \ some : cards[k].created <= cards[i].created}

\* Cards.List.
List(e) ==
  /\ where[e] = "list"
  /\ \E ids \in Newest(Matching(cards, e)) : listed' = [listed EXCEPT ![e] = Items(cards, ids)]
  /\ Go(e, "prepare")
  /\ UNCHANGED <<cards, exportStatus, file, ever, always, exportFaults>>

\* Links.ListByCardIDs, whose error is ignored; Files.PrepareExport; the exporter
\* for the format of the request, and there is one for csv only.
Prepare(e) ==
  /\ where[e] = "prepare"
  /\ Go(e, "write") \/ Go(e, "fail")
  /\ UNCHANGED <<cards, exportStatus, listed, file, ever, always, exportFaults>>

\* (a mistake: every card of the deck is written, read again for the file)
WriteAfresh(e) ==
  /\ where[e] = "write"
  /\ file' = [file EXCEPT ![e] = Items(cards, Matching(cards, e))]
  /\ Go(e, "finish")
  /\ UNCHANGED <<cards, exportStatus, listed, ever, always, exportFaults>>

\* ExportCSV.
Write(e) ==
  /\ where[e] = "write"
  /\ file' = [file EXCEPT ![e] = listed[e]]
  /\ Go(e, "finish")
  /\ UNCHANGED <<cards, exportStatus, listed, ever, always, exportFaults>>

\* A write fails in the deferred Flush, after the error was read: part of the
\* file is missing and ExportCSV returns nil.
FlushFails(e) ==
  /\ ExportFault
  /\ where[e] = "write"
  /\ \E part \in SUBSET listed[e] : file' = [file EXCEPT ![e] = part]
  /\ Go(e, "finish")
  /\ UNCHANGED <<cards, exportStatus, listed, ever, always>>

\* MarkFinished, of a running export.
MarkFinished(e, to) ==
  IF exportStatus[e] = "running" THEN Set(e, to) ELSE UNCHANGED exportStatus

\* MarkFinished(ready), the error ignored; the answer is ready in any case.
FinishExport(e) ==
  /\ where[e] = "finish"
  /\ MarkFinished(e, "ready")
  /\ Go(e, "answered")
  /\ UNCHANGED <<cards, listed, file, ever, always, exportFaults>>

\* The error branches after listing and writing.
FailExport(e) ==
  /\ where[e] = "fail"
  /\ MarkFinished(e, "failed")
  /\ Go(e, "answered")
  /\ UNCHANGED <<cards, listed, file, ever, always, exportFaults>>

\* Create, MarkRunning or MarkFinished report an error, having taken effect or
\* not, and the request ends.
CallFails(e) ==
  /\ ExportFault
  /\ \/ where[e] = "none" /\ Set(e, "pending")
     \/ where[e] = "created" /\ Set(e, "running")
     \/ where[e] = "finish" /\ MarkFinished(e, "ready")
     \/ where[e] = "fail" /\ MarkFinished(e, "failed")
     \/ where[e] \in {"created", "finish", "fail"} /\ UNCHANGED exportStatus
  /\ Go(e, "answered")
  /\ UNCHANGED <<cards, listed, file, ever, always>>

\* Listing or writing fails; of a file some part may be there.
StepFails(e) ==
  /\ ExportFault
  /\ \/ where[e] = "list" /\ UNCHANGED file
     \/ /\ where[e] = "write"
        /\ \E part \in (SUBSET listed[e]) \cup {NoFile} : file' = [file EXCEPT ![e] = part]
  /\ Go(e, "fail")
  /\ UNCHANGED <<cards, exportStatus, listed, ever, always>>

\* PrepareExport fails, or the process stops at any point: nobody closes the
\* export.
Abandoned(e) ==
  /\ ExportFault
  /\ where[e] \notin {"none", "answered"}
  /\ Go(e, "answered")
  /\ UNCHANGED <<cards, exportStatus, listed, file, ever, always>>

-----------------------------------------------------------------------------
Request(e) ==
  \/ CreateExport(e) \/ MarkRunning(e) \/ List(e) \/ Prepare(e) \/ Write(e)
  \/ FinishExport(e) \/ FailExport(e)

ExportDisturbed(e) == CallFails(e) \/ StepFails(e) \/ FlushFails(e) \/ Abandoned(e)

DeckNext ==
  \/ \E j \in Jobs, batch \in SUBSET Contents \ {{}}, t \in Times : StoreCards(j, batch, t)
  \/ \E u \in Users : \E i \in DOMAIN cards : Patch(u, i)
  \/ \E e \in Exports : Request(e) \/ ExportDisturbed(e)

DeckSpec == DeckInit /\ [][DeckNext]_deckVars

-----------------------------------------------------------------------------
(* Properties. *)

\* Every variable has its type; a file has only cards its request listed.
DeckOK ==
  /\ cards \in Seq(CardRow)
  /\ exportStatus \in [Exports -> Statuses]
  /\ where \in [Exports -> ExportSteps]
  /\ {listed, ever, always} \subseteq [Exports -> SUBSET Item]
  /\ file \in [Exports -> SUBSET (Item \cup NoFile)]
  /\ \A e \in Exports : file[e] = NoFile \/ file[e] \subseteq listed[e]
  /\ exportFaults \in 0..MaxExportFaults

\* The cards of a job differ, whoever writes them: a run that stores its cards
\* again, or a user who edits one into another (migrations/002_cards_dedup.sql).
CardsDiffer ==
  \A i, k \in DOMAIN cards :
    cards[i].job = cards[k].job /\ cards[i].content = cards[k].content => i = k

\* A card only ever changes by a patch of its owner: a run that is started again
\* leaves what the user made of it ("When UPSERT hits a duplicate, we keep the
\* existing row", postgres/cards.go:33).
OnlyOwnersChangeCards ==
  [][\A i \in DOMAIN cards :
       /\ i \in DOMAIN cards'
       /\ cards'[i] # cards[i] => Patch(Owner(cards[i]), i)]_deckVars

\* The request has its cards and goes on with them.
Listed(e) == where[e] \in {"prepare", "write", "finish"}

NotOlder(e, item) ==
  {other \in listed[e] : cards[other[1]].created >= cards[item[1]].created}

\* What an export lists was approved during its request, by the user who asks;
\* and a card that was approved all the time is left out only for as many others,
\* none of them older, as the limit allows.  Reviews, runs and other exports may go
\* on meanwhile.
ListingFaithful ==
  \A e \in Exports : Listed(e) =>
    /\ listed[e] \subseteq ever[e]
    /\ \A item \in always[e] \ listed[e] : Cardinality(NotOlder(e, item)) >= Limit

\* No file has a card of somebody else, also when a user names another's deck,
\* which nothing in export.go:30-61 refuses.
NothingForeign ==
  \A e \in Exports : file[e] # NoFile =>
    \A item \in file[e] : Owner(cards[item[1]]) = ExportUser[e]

\* Only a ready export can be downloaded ("export not ready", handler.go:422-424),
\* and what a ready one has is a file: no order of failures makes it ready before
\* the file is written or after writing was reported as failed.
ReadyHasFile == \A e \in Exports : exportStatus[e] = "ready" => file[e] # NoFile

\* What the writer's last line says, "return w.Error()" (infra/export/csv.go:34):
\* an export whose writer reported no error has all its cards in the file.
ReadyFileComplete ==
  \A e \in Exports : exportStatus[e] = "ready" => file[e] = listed[e]

-----------------------------------------------------------------------------
(* The inductive invariant. *)

\* An export that is not closed yet, and what a closed one has.
ClosedSound(e) ==
  /\ where[e] \in {"none", "created", "list", "prepare", "write"} => file[e] = NoFile
  /\ where[e] = "finish" => file[e] # NoFile
  /\ exportStatus[e] = "ready" => where[e] = "answered" /\ file[e] # NoFile

\* The history of an open request fits the table.
HistorySound(e) ==
  Open(e) => LET now == Items(cards, Matching(cards, e))
             IN  always[e] \subseteq now /\ now \subseteq ever[e]

\* What is listed is a card of the user's.
ListedOwned(e) ==
  \A item \in listed[e] : item[1] \in DOMAIN cards /\ Owner(cards[item[1]]) = ExportUser[e]

DeckInv ==
  /\ DeckOK /\ CardsDiffer /\ ListingFaithful
  /\ \A e \in Exports : ClosedSound(e) /\ HistorySound(e) /\ ListedOwned(e)
=============================================================================
