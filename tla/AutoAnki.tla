------------------------------ MODULE AutoAnki ------------------------------
(***************************************************************************)
(* Parsing and generation put together: the same workers handle the        *)
(* messages of both streams, one at a time (cmd/worker/main.go), and a     *)
(* user may ask for cards of a source that the API finds indexed, for a    *)
(* deck the API makes or finds (usecase/generation.go).                    *)
(*                                                                         *)
(* SourceParsing and CardGeneration are used as they are.  What is added   *)
(* is what lies between them: the checks before a job is created, each a   *)
(* database call whose result is used later, the decks, and the workers    *)
(* they share.  CardGeneration takes the chunks of a job's source for      *)
(* granted; here that is something to be shown.                            *)
(***************************************************************************)
EXTENDS Integers, Sequences, FiniteSets, Functions

CONSTANTS Sources, Readable, ChunkCount,            \* as in SourceParsing
          Jobs, MaxCards, Cards, Chunks, Context, Replies, Cites, Stored,
                                                    \* as in CardGeneration
          Workers, MaxAttempts, MaxFaults,          \* of both
          SourceOwner,  \* the user who uploads each source
          JobUser,      \* the user who asks for each job
          JobSource,    \* the source it names
          DeckOwner,    \* the owner of each deck that is there already
          OrdOf         \* the position of each chunk of the context in its source

ASSUME CompositionAssumption ==
  /\ JobSource \in [Jobs -> Sources]
  /\ DOMAIN SourceOwner = Sources /\ DOMAIN JobUser = Jobs
  /\ Jobs \cap DOMAIN DeckOwner = {}
  /\ \A j \in Jobs, i \in 1..MaxCards : \A c \in Range(Context[i]) :
       OrdOf[c] \in 0..(ChunkCount[JobSource[j]] - 1)

VARIABLES upload, sourceStatus, rows, parsePhase, parseRequeues, parseHandled,
          parseAt, source, parseCopy, parseFaults
VARIABLES request, jobStatus, counters, cards, links, genPhase, genRequeues,
          genHandled, genAt, job, genCopy, run, genFaults
VARIABLES intake,  \* how far the checks of each request for a job have come
          deck,    \* the deck it is for: one that is there, or the job's own
          decks    \* card_sets; a new one is known by the job it was made for

parseVars == <<upload, sourceStatus, rows, parsePhase, parseRequeues,
               parseHandled, parseAt, source, parseCopy, parseFaults>>
genVars == <<request, jobStatus, counters, cards, links, genPhase, genRequeues,
             genHandled, genAt, job, genCopy, run, genFaults>>
intakeVars == <<intake, deck, decks>>
vars == <<upload, sourceStatus, rows, parsePhase, parseRequeues, parseHandled,
          parseAt, source, parseCopy, parseFaults, request, jobStatus, counters,
          cards, links, genPhase, genRequeues, genHandled, genAt, job, genCopy,
          run, genFaults, intake, deck, decks>>

Parsing == INSTANCE SourceParsing WITH
  request <- upload, status <- sourceStatus, phase <- parsePhase,
  requeues <- parseRequeues, handled <- parseHandled, at <- parseAt,
  copy <- parseCopy, faults <- parseFaults

Generation == INSTANCE CardGeneration WITH
  status <- jobStatus, phase <- genPhase, requeues <- genRequeues,
  handled <- genHandled, at <- genAt, copy <- genCopy, faults <- genFaults

ASSUME PartsAssumption ==
  /\ Parsing!ParsingAssumption
  /\ Generation!GenerationAssumption

-----------------------------------------------------------------------------
Init ==
  /\ Parsing!Init
  /\ Generation!Init
  /\ intake = [j \in Jobs |-> "none"]
  /\ deck \in [Jobs -> DOMAIN DeckOwner \cup Jobs]
  /\ \A j \in Jobs : deck[j] \in DOMAIN DeckOwner \cup {j}
  /\ decks = DOMAIN DeckOwner

\* (a mistake: a source with some of its chunks is good enough)
AdmitsParsed(j) ==
  LET s == JobSource[j]
  IN  SourceOwner[s] = JobUser[j] /\ sourceStatus[s] \in {"parsed", "indexed"}

\* The source the request names exists, is the user's and is indexed.
Admits(j) ==
  LET s == JobSource[j]
  IN  SourceOwner[s] = JobUser[j] /\ sourceStatus[s] = "indexed"

\* Sources.FindByID and the checks on the row.  A request that is refused leaves
\* nothing behind; the user may make it again.
LookUpSource(j) ==
  /\ intake[j] = "none" /\ Admits(j)
  /\ intake' = [intake EXCEPT ![j] = "admitted"]
  /\ UNCHANGED <<deck, decks, parseVars, genVars>>

\* CardSets.FindByID: the named deck is the user's.
FindDeck(j) ==
  /\ intake[j] = "admitted" /\ deck[j] # j
  /\ DeckOwner[deck[j]] = JobUser[j]
  /\ intake' = [intake EXCEPT ![j] = "decked"]
  /\ UNCHANGED <<deck, decks, parseVars, genVars>>

\* CardSets.Create, for a request that names no deck.
CreateDeck(j) ==
  /\ intake[j] = "admitted" /\ deck[j] = j
  /\ intake' = [intake EXCEPT ![j] = "decked"]
  /\ decks' = decks \cup {j}
  /\ UNCHANGED <<deck, parseVars, genVars>>

\* The request ends before its job is created: a call fails, the deck is not
\* found or the process stops.  A deck already stored stays, without a job.
GiveUp(j) ==
  /\ intake[j] \in {"admitted", "decked"} /\ request[j] = "none"
  /\ intake' = [intake EXCEPT ![j] = "ended"]
  /\ \/ intake[j] = "admitted" /\ deck[j] = j /\ decks' = decks \cup {j}
     \/ UNCHANGED decks
  /\ UNCHANGED <<deck, parseVars, genVars>>

\* The rest of CreateAndEnqueue, on what was looked up before.
Submit(j) ==
  /\ intake[j] = "decked"
  /\ Generation!Api(j) \/ Generation!ApiDisturbed(j)
  /\ UNCHANGED <<parseVars, intakeVars>>

Upload(s) ==
  /\ Parsing!Api(s) \/ Parsing!ApiDisturbed(s)
  /\ UNCHANGED <<genVars, intakeVars>>

-----------------------------------------------------------------------------
(* The workers: processBatch has one message at a time, of either stream. *)

Idle(w) == parseAt[w] = "idle" /\ genAt[w] = "idle"

BeginParse(w, s) ==
  /\ Idle(w) /\ Parsing!Begin(w, s)
  /\ UNCHANGED <<genVars, intakeVars>>

BeginGen(w, j) ==
  /\ Idle(w) /\ Generation!Begin(w, j)
  /\ UNCHANGED <<parseVars, intakeVars>>

\* The message was settled or put back while the worker was busy with others.
BeginLate(w) ==
  \/ /\ Idle(w) /\ \E s \in Sources : Parsing!BeginLate(w, s)
     /\ UNCHANGED <<genVars, intakeVars>>
  \/ /\ Idle(w) /\ \E j \in Jobs : Generation!BeginLate(w, j)
     /\ UNCHANGED <<parseVars, intakeVars>>

Handle(w) ==
  \/ Parsing!Handle(w) /\ UNCHANGED <<genVars, intakeVars>>
  \/ Generation!Handle(w) /\ UNCHANGED <<parseVars, intakeVars>>

Disturb(w) ==
  \/ Parsing!HandleDisturbed(w) /\ UNCHANGED <<genVars, intakeVars>>
  \/ Generation!HandleDisturbed(w) /\ UNCHANGED <<parseVars, intakeVars>>

Next ==
  \/ \E s \in Sources : Upload(s)
  \/ \E j \in Jobs : LookUpSource(j) \/ FindDeck(j) \/ CreateDeck(j) \/ GiveUp(j) \/ Submit(j)
  \/ \E w \in Workers, s \in Sources : BeginParse(w, s)
  \/ \E w \in Workers, j \in Jobs : BeginGen(w, j)
  \/ \E w \in Workers : BeginLate(w) \/ Handle(w) \/ Disturb(w)

Spec == Init /\ [][Next]_vars

\* Messages of both streams are delivered as long as they are queued, by
\* whichever worker is free, and a worker goes on with what it has.
Fairness ==
  /\ \A s \in Sources : WF_vars(\E w \in Workers : BeginParse(w, s))
  /\ \A j \in Jobs : WF_vars(\E w \in Workers : BeginGen(w, j))
  /\ \A w \in Workers : WF_vars(Handle(w))

FairSpec == Spec /\ Fairness

-----------------------------------------------------------------------------
(* Properties. *)

\* A job is about a source that is indexed with all its chunks, and its cards go
\* to a deck of its user that exists: what CreateAndEnqueue read before it stored
\* the job still holds, whatever deliveries and requests went on in between
\* (generation.go:37-72).  This is what CardGeneration takes for granted.
JobsFounded ==
  \A j \in Jobs : jobStatus[j] # "absent" =>
    LET s == JobSource[j]
    IN  /\ sourceStatus[s] = "indexed" /\ SourceOwner[s] = JobUser[j]
        /\ \A o \in 0..(ChunkCount[s] - 1) : rows[s][o] # Parsing!Nobody
        /\ deck[j] \in decks
        /\ deck[j] # j => DeckOwner[deck[j]] = JobUser[j]

\* A chunk some card cites is there and stays as it is, also when a delivery of
\* the parse message that was overtaken inserts its own chunks later.
CitedChunksStay ==
  [][\A j \in Jobs : \A l \in links[j] :
       LET s == JobSource[j]
       IN  rows[s][OrdOf[l[2]]] # Parsing!Nobody
           /\ rows'[s][OrdOf[l[2]]] = rows[s][OrdOf[l[2]]]]_vars

\* Neither stream keeps the workers from the other: every accepted source and
\* job is settled in the end, or its message dead.
EverythingSettles == Parsing!SourceSettles /\ Generation!JobSettles
=============================================================================
