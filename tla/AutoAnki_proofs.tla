--------------------------- MODULE AutoAnki_proofs ---------------------------
(***************************************************************************)
(* Proofs about AutoAnki, for any sources, jobs, users, decks, deliveries, *)
(* attempts and number of faults.  Each part keeps the invariants proved   *)
(* of it alone, because a step of the whole is a step of one part at most; *)
(* what the parts rely on of each other follows.                           *)
(***************************************************************************)
EXTENDS AutoAnki, TLAPS

P == INSTANCE SourceParsing_proofs WITH
  request <- upload, status <- sourceStatus, phase <- parsePhase,
  requeues <- parseRequeues, handled <- parseHandled, at <- parseAt,
  copy <- parseCopy, faults <- parseFaults

G == INSTANCE CardGeneration_proofs WITH
  status <- jobStatus, phase <- genPhase, requeues <- genRequeues,
  handled <- genHandled, at <- genAt, copy <- genCopy, faults <- genFaults

-----------------------------------------------------------------------------
(* The module of proofs about a part extends that part: both instances have *)
(* the same definitions, expanded here to the last one.                     *)

LEMMA SameParsingInit == Parsing!Init => P!Init
  BY DEF Parsing!Init, P!Init, Parsing!Queue!Init, P!Queue!Init, Parsing!Nobody,
     P!Nobody, Parsing!Ords, P!Ords

LEMMA SameParsingStep == [Parsing!Next]_(Parsing!vars) => [P!Next]_(P!vars)
  BY DEF Parsing!Nobody, P!Nobody, Parsing!Ords, P!Ords, Parsing!Settled, P!Settled,
     Parsing!Fault, P!Fault, Parsing!UpdateStatus, P!UpdateStatus, Parsing!ApiStep,
     P!ApiStep, Parsing!Create, P!Create, Parsing!CreateUnconfirmed,
     P!CreateUnconfirmed, Parsing!Enqueue, P!Enqueue, Parsing!EnqueueFails,
     P!EnqueueFails, Parsing!Rollback, P!Rollback, Parsing!RollbackFails,
     P!RollbackFails, Parsing!ApiCrash, P!ApiCrash, Parsing!Go, P!Go, Parsing!Take,
     P!Take, Parsing!Begin, P!Begin, Parsing!BeginLate, P!BeginLate, Parsing!Find,
     P!Find, Parsing!Claim, P!Claim, Parsing!Refind, P!Refind, Parsing!Prepare,
     P!Prepare, Parsing!InsertBatch, P!InsertBatch, Parsing!Insert, P!Insert,
     Parsing!Finish, P!Finish, Parsing!Confirm, P!Confirm, Parsing!MarkError,
     P!MarkError, Parsing!MarkErrorFails, P!MarkErrorFails, Parsing!FindFails,
     P!FindFails, Parsing!ClaimFails, P!ClaimFails, Parsing!PrepareFails,
     P!PrepareFails, Parsing!InsertFails, P!InsertFails, Parsing!FinishFails,
     P!FinishFails, Parsing!Crash, P!Crash, Parsing!Current, P!Current, Parsing!Succeed,
     P!Succeed, Parsing!Ack, P!Ack, Parsing!Retry, P!Retry, Parsing!SettleFails,
     P!SettleFails, Parsing!Api, P!Api, Parsing!ApiDisturbed, P!ApiDisturbed,
     Parsing!Handle, P!Handle, Parsing!HandleDisturbed, P!HandleDisturbed, Parsing!Next,
     P!Next, Parsing!ledgerVars, P!ledgerVars, Parsing!deliveryVars, P!deliveryVars,
     Parsing!vars, P!vars, Parsing!Queue!Submit, P!Queue!Submit, Parsing!Queue!Succeed,
     P!Queue!Succeed, Parsing!Queue!Complete, P!Queue!Complete, Parsing!Queue!Requeue,
     P!Queue!Requeue, Parsing!Queue!Bury, P!Queue!Bury, Parsing!Call, P!Call,
     Parsing!CallFails, P!CallFails

LEMMA SameGenerationInit == Generation!Init => G!Init
  BY DEF Generation!Init, G!Init, Generation!Queue!Init, G!Queue!Init,
     Generation!Counted, G!Counted, Generation!NewRun, G!NewRun

LEMMA SameGenerationStep == [Generation!Next]_(Generation!vars) => [G!Next]_(G!vars)
  BY DEF Generation!Rounds, G!Rounds, Generation!Finished, G!Finished, Generation!Range,
     G!Range, Generation!Cardinality, G!Cardinality, Generation!NewRun, G!NewRun,
     Generation!Counted, G!Counted, Generation!Fault, G!Fault, Generation!MarkRunning,
     G!MarkRunning, Generation!MarkFinished, G!MarkFinished, Generation!ApiStep,
     G!ApiStep, Generation!Create, G!Create, Generation!CreateUnconfirmed,
     G!CreateUnconfirmed, Generation!Enqueue, G!Enqueue, Generation!EnqueueFails,
     G!EnqueueFails, Generation!Rollback, G!Rollback, Generation!RollbackFails,
     G!RollbackFails, Generation!ApiCrash, G!ApiCrash, Generation!Goto, G!Goto,
     Generation!Go, G!Go, Generation!Take, G!Take, Generation!Begin, G!Begin,
     Generation!BeginLate, G!BeginLate, Generation!Find, G!Find, Generation!Claim,
     G!Claim, Generation!Refind, G!Refind, Generation!Generate, G!Generate,
     Generation!Citations, G!Citations, Generation!Linked, G!Linked, Generation!Upsert,
     G!Upsert, Generation!InsertBatchWithLinks, G!InsertBatchWithLinks,
     Generation!Insert, G!Insert, Generation!Finish, G!Finish, Generation!FailJob,
     G!FailJob, Generation!FindFails, G!FindFails, Generation!ClaimFails, G!ClaimFails,
     Generation!GenerateFails, G!GenerateFails, Generation!InsertFails, G!InsertFails,
     Generation!FinishFails, G!FinishFails, Generation!FailJobFails, G!FailJobFails,
     Generation!Crash, G!Crash, Generation!Current, G!Current, Generation!Succeed,
     G!Succeed, Generation!Ack, G!Ack, Generation!Retry, G!Retry,
     Generation!SettleFails, G!SettleFails, Generation!Api, G!Api,
     Generation!ApiDisturbed, G!ApiDisturbed, Generation!Handle, G!Handle,
     Generation!HandleDisturbed, G!HandleDisturbed, Generation!Next, G!Next,
     Generation!rowVars, G!rowVars, Generation!ledgerVars, G!ledgerVars,
     Generation!deliveryVars, G!deliveryVars, Generation!vars, G!vars,
     Generation!Queue!Submit, G!Queue!Submit, Generation!Queue!Succeed, G!Queue!Succeed,
     Generation!Queue!Complete, G!Queue!Complete, Generation!Queue!Requeue,
     G!Queue!Requeue, Generation!Queue!Bury, G!Queue!Bury, Generation!Call, G!Call,
     Generation!CallFails, G!CallFails

LEMMA SameAssumptions == P!ParsingAssumption /\ G!GenerationAssumption
  BY PartsAssumption DEF Parsing!ParsingAssumption, P!ParsingAssumption,
     Generation!GenerationAssumption, G!GenerationAssumption, Parsing!Nobody, P!Nobody,
     Generation!Rounds, G!Rounds

-----------------------------------------------------------------------------
(* A step of the whole is a step of one part, or of none. *)

LEMMA ParsingStep ==
  ASSUME [Next]_vars
  PROVE  [Parsing!Next]_(Parsing!vars)
<1>1. CASE UNCHANGED parseVars
  BY <1>1 DEF parseVars, Parsing!vars
<1>2. CASE ~ UNCHANGED parseVars
  <2>1. \/ \E s \in Sources : Upload(s)
        \/ \E w \in Workers, s \in Sources : BeginParse(w, s) \/ Parsing!BeginLate(w, s)
        \/ \E w \in Workers : Parsing!Handle(w) \/ Parsing!HandleDisturbed(w)
    BY <1>2 DEF Next, vars, parseVars, LookUpSource, FindDeck, CreateDeck, GiveUp, Submit,
       BeginGen, BeginLate, Handle, Disturb
  <2> QED BY <2>1 DEF Upload, BeginParse, Parsing!Next
<1> QED BY <1>1, <1>2

LEMMA GenerationStep ==
  ASSUME [Next]_vars
  PROVE  [Generation!Next]_(Generation!vars)
<1>1. CASE UNCHANGED genVars
  BY <1>1 DEF genVars, Generation!vars
<1>2. CASE ~ UNCHANGED genVars
  <2>1. \/ \E j \in Jobs : Submit(j)
        \/ \E w \in Workers, j \in Jobs : BeginGen(w, j) \/ Generation!BeginLate(w, j)
        \/ \E w \in Workers : Generation!Handle(w) \/ Generation!HandleDisturbed(w)
    BY <1>2 DEF Next, vars, genVars, LookUpSource, FindDeck, CreateDeck, GiveUp, Upload,
       BeginParse, BeginLate, Handle, Disturb
  <2> QED BY <2>1 DEF Submit, BeginGen, Generation!Next
<1> QED BY <1>1, <1>2

\* The application implements the specification of parsing: sharing the workers
\* and serving jobs adds no step to it.
THEOREM WholeParses == Spec => Parsing!Spec
<1>1. Init => Parsing!Init
  BY DEF Init
<1>2. [Next]_vars => [Parsing!Next]_(Parsing!vars)
  BY ParsingStep
<1> QED BY <1>1, <1>2, PTL DEF Spec, Parsing!Spec

\* And that of generation.
THEOREM WholeGenerates == Spec => Generation!Spec
<1>1. Init => Generation!Init
  BY DEF Init
<1>2. [Next]_vars => [Generation!Next]_(Generation!vars)
  BY GenerationStep
<1> QED BY <1>1, <1>2, PTL DEF Spec, Generation!Spec

LEMMA PartsInvariance == Spec => [](P!ParsingInv /\ G!GenerationInv)
<1>1. Init => P!ParsingInv /\ G!GenerationInv
  BY SameAssumptions, SameParsingInit, SameGenerationInit, P!ParsingInit, G!GenerationInit
     DEF Init
<1>2. P!ParsingInv /\ [Next]_vars => P!ParsingInv'
  BY SameAssumptions, ParsingStep, SameParsingStep, P!StepKeeps, P!StutterKeeps
<1>3. G!GenerationInv /\ [Next]_vars => G!GenerationInv'
  BY SameAssumptions, GenerationStep, SameGenerationStep, G!StepKeeps, G!StutterKeeps
<1> QED BY <1>1, <1>2, <1>3, PTL DEF Spec

-----------------------------------------------------------------------------
(* What a request looked up before it stored its job. *)

IntakeSound ==
  /\ intake \in [Jobs -> {"none", "admitted", "decked", "ended"}]
  /\ DOMAIN DeckOwner \subseteq decks
  /\ \A j \in Jobs :
       /\ deck[j] \in DOMAIN DeckOwner \cup {j}
       /\ intake[j] # "none" => Admits(j)
       /\ intake[j] = "decked" =>
            deck[j] \in decks /\ (deck[j] # j => DeckOwner[deck[j]] = JobUser[j])
       /\ jobStatus[j] # "absent" => intake[j] = "decked"

\* An indexed source stays so, whatever deliveries of its message still do.
LEMMA AdmittedStays ==
  ASSUME P!ParsingInv, [Next]_vars, NEW j \in Jobs, Admits(j)
  PROVE  Admits(j)'
<1>1. P!Forward
  BY SameAssumptions, ParsingStep, SameParsingStep, P!StepKeeps, P!StutterKeeps
<1>2. JobSource[j] \in Sources
  BY CompositionAssumption
<1> QED BY <1>1, <1>2 DEF Admits, P!Forward, P!Moves, P!Settled

\* A job appears only by a request whose checks are done.
LEMMA JobAppears ==
  ASSUME G!GenerationInv, G!GenerationInv', [Next]_vars, NEW j \in Jobs,
         jobStatus'[j] # "absent"
  PROVE  jobStatus[j] # "absent" \/ Submit(j)
<1>1. request'[j] # "none"
  BY DEF G!GenerationInv, G!MessageSound
<1>2. CASE request'[j] = request[j]
  BY <1>1, <1>2 DEF G!GenerationInv, G!MessageSound
<1>3. CASE request'[j] # request[j]
  <2>1. \E i \in Jobs : Submit(i)
    <3>1. ASSUME NEW w \in Workers, Generation!Handle(w) \/ Generation!HandleDisturbed(w)
          PROVE  request' = request
      BY <3>1 DEF Generation!Handle, Generation!HandleDisturbed, Generation!Call,
         Generation!CallFails, Generation!Find,
         Generation!Claim, Generation!Refind, Generation!Generate, Generation!Insert,
         Generation!Finish, Generation!FailJob, Generation!Succeed, Generation!Ack,
         Generation!Retry, Generation!FindFails, Generation!ClaimFails,
         Generation!GenerateFails, Generation!InsertFails, Generation!FinishFails,
         Generation!FailJobFails, Generation!Crash, Generation!SettleFails
    <3>2. ASSUME NEW w \in Workers, NEW i \in Jobs,
                 Generation!Begin(w, i) \/ Generation!BeginLate(w, i)
          PROVE  request' = request
      BY <3>2 DEF Generation!Begin, Generation!BeginLate, Generation!Take
    <3> QED BY <1>3, <3>1, <3>2
        DEF Next, vars, genVars, Upload, LookUpSource, FindDeck, CreateDeck, GiveUp,
            BeginParse, BeginGen, BeginLate, Handle, Disturb
  <2>2. PICK i \in Jobs : Submit(i)
    BY <2>1
  <2>3. \E step : request' = [request EXCEPT ![i] = step]
    BY <2>2 DEF Submit, Generation!Api, Generation!ApiDisturbed, Generation!Create,
       Generation!CreateUnconfirmed, Generation!Enqueue, Generation!EnqueueFails,
       Generation!Rollback, Generation!RollbackFails, Generation!ApiCrash,
       Generation!ApiStep
  <2>4. i = j
    BY <1>3, <2>3 DEF G!GenerationInv, G!TypeOK
  <2> QED BY <2>2, <2>4
<1> QED BY <1>2, <1>3

LEMMA IntakeStep ==
  ASSUME P!ParsingInv, G!GenerationInv, G!GenerationInv', IntakeSound, [Next]_vars
  PROVE  IntakeSound'
<1>1. \/ UNCHANGED intakeVars
      \/ \E j \in Jobs : LookUpSource(j) \/ FindDeck(j) \/ CreateDeck(j) \/ GiveUp(j)
  BY DEF Next, vars, intakeVars, Upload, Submit, BeginParse, BeginGen, BeginLate,
     Handle, Disturb
<1>2. /\ intake' \in [Jobs -> {"none", "admitted", "decked", "ended"}]
      /\ DOMAIN DeckOwner \subseteq decks' /\ decks \subseteq decks' /\ deck' = deck
      /\ \A i \in Jobs :
           \/ intake'[i] = intake[i]
           \/ intake[i] = "none" /\ intake'[i] = "admitted" /\ Admits(i)
           \/ /\ intake[i] = "admitted" /\ intake'[i] = "decked"
              /\ deck[i] \in decks' /\ (deck[i] # i => DeckOwner[deck[i]] = JobUser[i])
           \/ intake[i] # "none" /\ intake'[i] = "ended" /\ request[i] = "none"
  <2>1. CASE UNCHANGED intakeVars
    BY <2>1 DEF intakeVars, IntakeSound
  <2>2. CASE \E j \in Jobs : LookUpSource(j)
    BY <2>2 DEF LookUpSource, IntakeSound
  <2>3. CASE \E j \in Jobs : FindDeck(j)
    BY <2>3 DEF FindDeck, IntakeSound
  <2>4. CASE \E j \in Jobs : CreateDeck(j)
    BY <2>4 DEF CreateDeck, IntakeSound
  <2>5. CASE \E j \in Jobs : GiveUp(j)
    BY <2>5 DEF GiveUp, IntakeSound
  <2> QED BY <1>1, <2>1, <2>2, <2>3, <2>4, <2>5
<1> SUFFICES ASSUME NEW j \in Jobs
             PROVE  /\ intake'[j] # "none" => Admits(j)'
                    /\ intake'[j] = "decked" =>
                         /\ deck[j] \in decks'
                         /\ deck[j] # j => DeckOwner[deck[j]] = JobUser[j]
                    /\ jobStatus'[j] # "absent" => intake'[j] = "decked"
  BY <1>2 DEF IntakeSound
<1>3. intake'[j] # "none" => Admits(j)'
  BY <1>2, AdmittedStays DEF IntakeSound
<1>4. intake'[j] = "decked" =>
        deck[j] \in decks' /\ (deck[j] # j => DeckOwner[deck[j]] = JobUser[j])
  BY <1>2 DEF IntakeSound
<1>5. jobStatus'[j] # "absent" => intake'[j] = "decked"
  <2> SUFFICES ASSUME jobStatus'[j] # "absent" PROVE intake'[j] = "decked"
    OBVIOUS
  <2>1. CASE Submit(j)
    BY <2>1 DEF Submit, intakeVars
  <2>2. CASE jobStatus[j] # "absent"
    <3>1. intake[j] = "decked" /\ request[j] # "none"
      BY <2>2 DEF IntakeSound, G!GenerationInv, G!MessageSound
    <3> QED BY <1>2, <3>1
  <2> QED BY <2>1, <2>2, JobAppears
<1> QED BY <1>3, <1>4, <1>5

LEMMA IntakeInvariance == Spec => []IntakeSound
<1>1. Init => IntakeSound
  <2> SUFFICES ASSUME Init PROVE IntakeSound
    OBVIOUS
  <2>1. \A j \in Jobs : jobStatus[j] = "absent"
    BY DEF Init, Generation!Init
  <2> QED BY <2>1 DEF Init, IntakeSound
<1>2. P!ParsingInv /\ G!GenerationInv /\ G!GenerationInv' /\ IntakeSound /\ [Next]_vars
        => IntakeSound'
  BY IntakeStep
<1> QED BY <1>1, <1>2, PartsInvariance, PTL DEF Spec

\* A job is about a source that is indexed with all its chunks, for a deck of its
\* user (generation.go:37-72), whatever happens between the checks and the insert.
THEOREM JobsAreFounded == Spec => []JobsFounded
<1>1. P!ParsingInv /\ IntakeSound => JobsFounded
  <2> SUFFICES ASSUME P!ParsingInv, IntakeSound, NEW j \in Jobs, jobStatus[j] # "absent"
               PROVE  LET s == JobSource[j]
                      IN  /\ sourceStatus[s] = "indexed" /\ SourceOwner[s] = JobUser[j]
                          /\ \A o \in 0..(ChunkCount[s] - 1) : rows[s][o] # Parsing!Nobody
                          /\ deck[j] \in decks
                          /\ deck[j] # j => DeckOwner[deck[j]] = JobUser[j]
    BY DEF JobsFounded
  <2>1. JobSource[j] \in Sources /\ intake[j] = "decked" /\ Admits(j)
    BY CompositionAssumption DEF IntakeSound
  <2>2. \A o \in 0..(ChunkCount[JobSource[j]] - 1) : rows[JobSource[j]][o] # Parsing!Nobody
    BY <2>1 DEF Admits, P!ParsingInv, P!IndexedComplete, P!Ords, P!Nobody, Parsing!Nobody
  <2> QED BY <2>1, <2>2 DEF IntakeSound, Admits
<1> QED BY <1>1, PartsInvariance, IntakeInvariance, PTL

-----------------------------------------------------------------------------
(* Cited chunks. *)

LinksSound ==
  \A j \in Jobs : \A l \in links[j] :
    /\ jobStatus[j] # "absent"
    /\ \E i \in 1..MaxCards : l[2] \in Range(Context[i])

LEMMA LinksStep ==
  ASSUME G!GenerationInv, LinksSound, [Next]_vars
  PROVE  LinksSound'
<1>1. [G!Next]_(G!vars)
  BY GenerationStep, SameGenerationStep
<1>2. \A j \in Jobs : jobStatus[j] # "absent" => jobStatus'[j] # "absent"
  <2>1. G!Forward
    BY <1>1, SameAssumptions, G!StepKeeps, G!StutterKeeps
  <2> QED BY <2>1 DEF G!Forward, G!Moves
<1>3. CASE UNCHANGED links
  BY <1>2, <1>3 DEF LinksSound
<1>4. CASE \E w \in Workers :
             /\ genAt[w] = "insert"
             /\ G!InsertBatchWithLinks(job[w], run[w].batch, run[w].round)
  <2>1. PICK w \in Workers, j \in Jobs, i \in 1..(MaxCards + 1), new \in SUBSET Cards :
               /\ genAt[w] = "insert" /\ j = job[w] /\ i = run[w].round /\ new = run[w].batch
               /\ G!InsertBatchWithLinks(j, new, i)
    BY <1>4 DEF G!GenerationInv, G!TypeOK
  <2>2. jobStatus[j] # "absent" /\ i \in 1..MaxCards /\ i \in G!Rounds /\ new \in SUBSET Cards
    BY <2>1 DEF G!GenerationInv, G!TypeOK, G!DeliverySound, G!DeliveryOK, G!Rounds
  <2>3. /\ \A k \in Jobs \ {j} : links'[k] = links[k]
        /\ links'[j] = links[j] \cup UNION {{Stored[c]} \X G!Linked(c, i) : c \in new}
    <3>1. G!GenerationAssumption /\ G!TypeOK /\ G!InsertBatchWithLinks(j, new, i)
      BY <2>1, SameAssumptions DEF G!GenerationInv
    <3>2. j \in Jobs
      BY <2>1
    <3> QED BY <2>2, <3>1, <3>2, G!InsertFacts
  <2>4. \A c \in new : \A l \in {Stored[c]} \X G!Linked(c, i) : l[2] \in Range(Context[i])
    BY DEF G!Linked, G!Range, Range
  <2>5. \A l \in links'[j] : l \in links[j] \/ l[2] \in Range(Context[i])
    BY <2>3, <2>4
  <2> QED BY <1>2, <2>2, <2>3, <2>5 DEF LinksSound
<1> QED BY <1>1, <1>3, <1>4, SameAssumptions, G!RowSteps DEF G!rowVars

\* A chunk that some card cites stays as it is: deliveries of the parse message
\* that are still at work find it there (postgres/chunks.go:15-35).
THEOREM CitedChunksAreKept == Spec => CitedChunksStay
<1>1. Init => LinksSound
  BY DEF Init, Generation!Init, LinksSound
<1>2. G!GenerationInv /\ LinksSound /\ [Next]_vars => LinksSound'
  BY LinksStep
<1>3. P!ParsingInv /\ IntakeSound /\ LinksSound /\ [Next]_vars =>
        [\A j \in Jobs : \A l \in links[j] :
           LET s == JobSource[j]
           IN  rows[s][OrdOf[l[2]]] # Parsing!Nobody
               /\ rows'[s][OrdOf[l[2]]] = rows[s][OrdOf[l[2]]]]_vars
  <2> SUFFICES ASSUME P!ParsingInv, IntakeSound, LinksSound, [Next]_vars,
                      NEW j \in Jobs, NEW l \in links[j]
               PROVE  LET s == JobSource[j]
                      IN  rows[s][OrdOf[l[2]]] # Parsing!Nobody
                          /\ rows'[s][OrdOf[l[2]]] = rows[s][OrdOf[l[2]]]
    OBVIOUS
  <2>1. P!Forward
    BY SameAssumptions, ParsingStep, SameParsingStep, P!StepKeeps, P!StutterKeeps
  <2>2. PICK i \in 1..MaxCards : jobStatus[j] # "absent" /\ l[2] \in Range(Context[i])
    BY DEF LinksSound
  <2>3. JobSource[j] \in Sources /\ OrdOf[l[2]] \in P!Ords(JobSource[j])
    BY <2>2, CompositionAssumption DEF P!Ords
  <2>4. sourceStatus[JobSource[j]] = "indexed"
    BY <2>2 DEF IntakeSound, Admits
  <2>5. rows[JobSource[j]][OrdOf[l[2]]] # P!Nobody
    BY <2>3, <2>4 DEF P!ParsingInv, P!IndexedComplete
  <2> QED BY <2>1, <2>3, <2>5 DEF P!Forward, P!Nobody, Parsing!Nobody
<1> QED BY <1>1, <1>2, <1>3, PartsInvariance, IntakeInvariance, PTL DEF Spec, CitedChunksStay

=============================================================================
