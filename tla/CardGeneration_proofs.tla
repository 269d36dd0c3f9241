------------------------ MODULE CardGeneration_proofs ------------------------
(***************************************************************************)
(* Proofs about CardGeneration, for any jobs, deliveries, cards, chunks,   *)
(* rounds, replies, attempts and number of faults.                         *)
(***************************************************************************)
EXTENDS CardGeneration, FiniteSetTheorems, FunctionTheorems, TLAPS

\* What a delivery has learnt of its job stays true while others go on: past
\* the claim the job is never pending again, a batch belongs to a round of the
\* run, and a job about to be acknowledged is finished.
DeliveryOK(w) ==
  LET j == job[w]
  IN  /\ at[w] # "idle" => status[j] # "absent"
      /\ at[w] \in {"refind", "generate", "insert", "fail"} => status[j] # "pending"
      /\ at[w] = "insert" => run[w].round \in Rounds
      /\ at[w] = "ack" => status[j] \in Finished
      /\ IsFiniteSet(run[w].seen)

DeliverySound == \A w \in Workers : DeliveryOK(w)

\* A message exists only for a stored job, and for every accepted request; it
\* leaves the queue for good only when its job is finished.
MessageSound ==
  \A j \in Jobs :
    /\ status[j] = "absent" <=> request[j] = "none"
    /\ request[j] \in {"none", "created"} => phase[j] = "absent"
    /\ request[j] = "accepted" => phase[j] # "absent"
    /\ j \in handled => status[j] \in Finished
    /\ phase[j] = "done" => j \in handled

\* The inductive invariant.
GenerationInv == TypeOK /\ DeliverySound /\ MessageSound

-----------------------------------------------------------------------------
\* What a job's status and counters may do, whoever takes the step.
Moves(old, new) ==
  /\ new \in Statuses
  /\ old # "absent" => new # "absent"
  /\ old \notin {"absent", "pending"} => new # "pending"
  /\ old \in Finished => new = old

Forward ==
  /\ status' \in [Jobs -> Statuses]
  /\ counters' \in [Jobs -> [total : Nat, duplicates : Nat]]
  /\ \A i \in Jobs : Moves(status[i], status'[i])
  /\ \A i \in Jobs : status[i] \in Finished => counters'[i] = counters[i]

LEMMA SameIsForward ==
  ASSUME TypeOK, UNCHANGED <<status, counters>>
  PROVE  Forward
  BY DEF TypeOK, Forward, Moves

\* MarkRunning and MarkFinished move one job forward, and no other.
LEMMA MarkRunningFacts ==
  ASSUME TypeOK, NEW j \in Jobs, MarkRunning(j), UNCHANGED counters
  PROVE  /\ Forward
         /\ \A i \in Jobs : i # j => status'[i] = status[i]
         /\ status'[j] = IF status[j] = "pending" THEN "running" ELSE status[j]
<1>1. /\ status' \in [Jobs -> Statuses]
      /\ \A i \in Jobs : i # j => status'[i] = status[i]
      /\ status'[j] = IF status[j] = "pending" THEN "running" ELSE status[j]
  BY DEF TypeOK, MarkRunning, Statuses
<1> QED BY <1>1 DEF TypeOK, Forward, Moves, Statuses, Finished

LEMMA MarkFinishedFacts ==
  ASSUME TypeOK, NEW j \in Jobs, NEW outcome \in Finished, NEW total \in Nat,
         NEW duplicates \in Nat, MarkFinished(j, outcome, total, duplicates)
  PROVE  /\ Forward
         /\ \A i \in Jobs : i # j => status'[i] = status[i] /\ counters'[i] = counters[i]
         /\ IF status[j] = "running"
            THEN status'[j] = outcome /\ counters'[j] = Counted(total, duplicates)
            ELSE status'[j] = status[j] /\ counters'[j] = counters[j]
<1>1. CASE status[j] = "running"
  <2>1. /\ status' = [status EXCEPT ![j] = outcome]
        /\ counters' = [counters EXCEPT ![j] = Counted(total, duplicates)]
    BY <1>1 DEF MarkFinished
  <2>2. Counted(total, duplicates) \in [total : Nat, duplicates : Nat]
    BY DEF Counted
  <2>3. /\ status' \in [Jobs -> Statuses]
        /\ counters' \in [Jobs -> [total : Nat, duplicates : Nat]]
        /\ \A i \in Jobs : i # j => status'[i] = status[i] /\ counters'[i] = counters[i]
        /\ status'[j] = outcome /\ counters'[j] = Counted(total, duplicates)
    BY <2>1, <2>2 DEF TypeOK, Statuses, Finished
  <2> QED BY <1>1, <2>3 DEF TypeOK, Forward, Moves, Statuses, Finished
<1>2. CASE status[j] # "running"
  BY <1>2, SameIsForward DEF MarkFinished
<1> QED BY <1>1, <1>2

-----------------------------------------------------------------------------
LEMMA GenerationInit == GenerationAssumption /\ Init => GenerationInv
<1> SUFFICES ASSUME GenerationAssumption, Init PROVE GenerationInv
  OBVIOUS
<1>1. /\ phase = [j \in Jobs |-> "absent"] /\ requeues = [j \in Jobs |-> 0]
      /\ handled = {}
  BY DEF Init, Queue!Init
<1>2. TypeOK
  <2>1. 0 \in 0..(MaxAttempts - 1) /\ 0 \in 0..MaxFaults /\ 1 \in 1..(MaxCards + 1)
    BY DEF GenerationAssumption
  <2>2. /\ counters \in [Jobs -> [total : Nat, duplicates : Nat]]
        /\ cards \in [Jobs -> [Cards -> Nat]]
        /\ links \in [Jobs -> SUBSET (Cards \X Chunks)]
    BY DEF Init, Counted
  <2>3. /\ run \in [Workers -> [round : 1..(MaxCards + 1), seen : SUBSET Cards,
                                duplicates : Nat, batch : SUBSET Cards]]
        /\ \A w \in Workers : run[w].batch \subseteq run[w].seen
    BY <2>1 DEF Init, NewRun
  <2> QED BY <1>1, <2>1, <2>2, <2>3 DEF Init, TypeOK, RequestSteps, Statuses, Steps
<1>3. DeliverySound
  BY FS_EmptySet DEF Init, DeliverySound, DeliveryOK, NewRun
<1>4. MessageSound
  BY <1>1 DEF Init, MessageSound
<1> QED BY <1>2, <1>3, <1>4 DEF GenerationInv

\* What a delivery knows stays true while jobs only move forward.
LEMMA DeliveryStays ==
  ASSUME TypeOK, DeliverySound, Forward, NEW w \in Workers,
         at'[w] \in {at[w], "idle", "retry"}, job'[w] = job[w], run'[w] = run[w],
         at[w] # "idle" \/ at'[w] = "idle"
  PROVE  DeliveryOK(w)'
<1>1. job[w] \in Jobs /\ DeliveryOK(w)
  BY DEF TypeOK, DeliverySound
<1>2. Moves(status[job[w]], status'[job[w]])
  BY <1>1 DEF Forward
<1> QED BY <1>1, <1>2 DEF DeliveryOK, Moves, Rounds

-----------------------------------------------------------------------------
(* The API. *)

LEMMA ApiKeeps ==
  ASSUME GenerationAssumption, GenerationInv, NEW j \in Jobs, Api(j) \/ ApiDisturbed(j)
  PROVE  GenerationInv' /\ Forward
<1> USE DEF GenerationInv
<1>1. /\ UNCHANGED <<cards, links, at, job, copy, run>>
      /\ faults' \in 0..MaxFaults
  <2>1. CASE Create(j) \/ Enqueue(j) \/ Rollback(j)
    BY <2>1 DEF Create, Enqueue, Rollback, rowVars, deliveryVars, TypeOK
  <2>2. CASE CreateUnconfirmed(j) \/ EnqueueFails(j) \/ RollbackFails(j) \/ ApiCrash(j)
    BY <2>2 DEF CreateUnconfirmed, EnqueueFails, RollbackFails, ApiCrash, Fault,
       rowVars, deliveryVars, TypeOK, GenerationAssumption
  <2> QED BY <2>1, <2>2 DEF Api, ApiDisturbed
<1>2. /\ request' \in [Jobs -> RequestSteps]
      /\ \A i \in Jobs : i # j => request'[i] = request[i]
  <2>1. \E step \in RequestSteps : request' = [request EXCEPT ![j] = step]
    BY DEF Api, ApiDisturbed, Create, CreateUnconfirmed, Enqueue, EnqueueFails, Rollback,
       RollbackFails, ApiCrash, ApiStep, RequestSteps
  <2> QED BY <2>1 DEF TypeOK
<1>3. /\ Forward
      /\ \A i \in Jobs : i # j => status'[i] = status[i]
      /\ request'[j] # "none"
      /\ \/ status'[j] # "absent" /\ status[j] = "absent"
         \/ Moves(status[j], status'[j]) /\ request[j] # "none"
  <2>1. CASE Create(j) \/ CreateUnconfirmed(j)
    <3>1. status' = [status EXCEPT ![j] = "pending"] /\ counters' = counters
          /\ request[j] = "none" /\ request'[j] # "none"
      BY <2>1 DEF Create, CreateUnconfirmed, ApiStep, TypeOK
    <3>2. status[j] = "absent"
      BY <3>1 DEF MessageSound
    <3> QED BY <3>1, <3>2 DEF TypeOK, Forward, Moves, Statuses, Finished
  <2>2. CASE Rollback(j)
    <3>1. MarkFinished(j, "failed", 0, 0) /\ "failed" \in Finished
      BY <2>2 DEF Rollback, Finished
    <3>2. /\ Forward
          /\ \A i \in Jobs : i # j => status'[i] = status[i]
      BY <3>1, MarkFinishedFacts
    <3>3. request[j] # "none" /\ request'[j] # "none"
      BY <2>2 DEF Rollback, ApiStep, TypeOK
    <3> QED BY <3>2, <3>3 DEF Forward
  <2>3. CASE Enqueue(j) \/ EnqueueFails(j) \/ RollbackFails(j) \/ ApiCrash(j)
    <3>1. /\ UNCHANGED <<status, counters>>
          /\ request[j] # "none" /\ request'[j] # "none"
      BY <2>3 DEF Enqueue, EnqueueFails, RollbackFails, ApiCrash, ApiStep, TypeOK
    <3>2. Forward
      BY <3>1, SameIsForward
    <3> QED BY <3>1, <3>2 DEF Forward
  <2> QED BY <2>1, <2>2, <2>3 DEF Api, ApiDisturbed
<1>4. /\ requeues' = requeues /\ handled' = handled
      /\ phase' \in [Jobs -> {"absent", "queued", "done", "dead"}]
      /\ \A i \in Jobs : i # j => phase'[i] = phase[i]
      /\ \/ phase'[j] = phase[j]
         \/ phase'[j] = "queued" /\ request[j] = "created"
  BY DEF Api, ApiDisturbed, Create, CreateUnconfirmed, Enqueue, EnqueueFails, Rollback,
     RollbackFails, ApiCrash, ApiStep, ledgerVars, Queue!Submit, TypeOK
<1>5. /\ request'[j] = "accepted" => phase'[j] # "absent"
      /\ request'[j] \in {"none", "created"} => phase'[j] = "absent"
  BY DEF Api, ApiDisturbed, Create, CreateUnconfirmed, Enqueue, EnqueueFails, Rollback,
     RollbackFails, ApiCrash, ApiStep, ledgerVars, Queue!Submit, TypeOK, MessageSound
<1>6. TypeOK'
  BY <1>1, <1>2, <1>3, <1>4 DEF TypeOK, Forward
<1>7. DeliverySound'
  <2> SUFFICES ASSUME NEW w \in Workers PROVE DeliveryOK(w)'
    BY DEF DeliverySound
  <2>1. CASE at[w] # "idle"
    BY <1>1, <1>3, <2>1, DeliveryStays
  <2>2. CASE at[w] = "idle"
    BY <1>1, <2>2 DEF DeliverySound, DeliveryOK
  <2> QED BY <2>1, <2>2
<1>8. MessageSound'
  BY <1>2, <1>3, <1>4, <1>5 DEF MessageSound, Forward, Moves, Finished, TypeOK
<1> QED BY <1>3, <1>6, <1>7, <1>8

-----------------------------------------------------------------------------
(* The worker. *)

\* What holds after a step of one delivery follows from what it did to the job,
\* to its own run and to the messages.
LEMMA WorkerKeeps ==
  ASSUME GenerationAssumption, GenerationInv, Forward, NEW w \in Workers,
         request' = request, faults' \in 0..MaxFaults,
         cards' \in [Jobs -> [Cards -> Nat]],
         links' \in [Jobs -> SUBSET (Cards \X Chunks)],
         at' \in [Workers -> Steps], job' \in [Workers -> Jobs],
         copy' \in [Workers -> 0..(MaxAttempts - 1)],
         run' \in [Workers -> [round : 1..(MaxCards + 1), seen : SUBSET Cards,
                               duplicates : Nat, batch : SUBSET Cards]],
         \A v \in Workers \ {w} : at'[v] = at[v] /\ job'[v] = job[v] /\ run'[v] = run[v],
         run'[w].batch \subseteq run'[w].seen,
         \A i \in Jobs : status'[i] = "absent" <=> status[i] = "absent",
         phase' \in [Jobs -> {"absent", "queued", "done", "dead"}],
         requeues' \in [Jobs -> 0..(MaxAttempts - 1)],
         handled' \subseteq Jobs,
         \A i \in Jobs : phase'[i] = "absent" <=> phase[i] = "absent",
         \A i \in handled' : status'[i] \in Finished,
         \A i \in Jobs : phase'[i] = "done" => i \in handled',
         DeliveryOK(w)'
  PROVE  GenerationInv'
<1> USE DEF GenerationInv
<1>1. TypeOK'
  <2>1. \A v \in Workers : run'[v].batch \subseteq run'[v].seen
    BY DEF TypeOK
  <2> QED BY <2>1 DEF TypeOK, Forward
<1>2. DeliverySound'
  <2> SUFFICES ASSUME NEW v \in Workers, v # w PROVE DeliveryOK(v)'
    BY DEF DeliverySound
  <2>1. at'[v] = at[v] /\ job'[v] = job[v] /\ run'[v] = run[v]
    OBVIOUS
  <2>2. CASE at[v] # "idle"
    BY <2>1, <2>2, DeliveryStays
  <2>3. CASE at[v] = "idle"
    BY <2>1, <2>3 DEF DeliverySound, DeliveryOK
  <2> QED BY <2>2, <2>3
<1>3. MessageSound'
  BY DEF MessageSound
<1> QED BY <1>1, <1>2, <1>3

LEMMA BeginKeeps ==
  ASSUME GenerationAssumption, GenerationInv, NEW w \in Workers, NEW j \in Jobs,
         Begin(w, j) \/ BeginLate(w, j)
  PROVE  GenerationInv' /\ Forward
<1> USE DEF GenerationInv
<1>0. /\ phase[j] # "absent" /\ faults' \in 0..MaxFaults
      /\ \E c \in 0..requeues[j] : Take(w, j, c)
  BY DEF Begin, BeginLate, Fault, TypeOK, GenerationAssumption
<1>1. /\ UNCHANGED <<request, status, counters, cards, links, phase, requeues, handled>>
      /\ at' \in [Workers -> Steps] /\ job' \in [Workers -> Jobs]
      /\ copy' \in [Workers -> 0..(MaxAttempts - 1)]
      /\ \A v \in Workers \ {w} : at'[v] = at[v] /\ job'[v] = job[v]
  BY <1>0 DEF Take, rowVars, ledgerVars, TypeOK, Steps, HandlerSteps, GenerationAssumption
<1>2. Forward
  BY <1>1, SameIsForward
<1>3. at'[w] = "find" /\ job'[w] = j /\ status'[j] # "absent"
  BY <1>0 DEF Take, TypeOK, MessageSound
<1>4. /\ run' \in [Workers -> [round : 1..(MaxCards + 1), seen : SUBSET Cards,
                               duplicates : Nat, batch : SUBSET Cards]]
      /\ \A v \in Workers \ {w} : run'[v] = run[v]
      /\ run'[w].seen = {} /\ run'[w].batch = {}
  <2>1. run' = [run EXCEPT ![w] = NewRun] /\ 1 \in 1..(MaxCards + 1)
    BY <1>0 DEF Take, GenerationAssumption
  <2>2. NewRun \in [round : 1..(MaxCards + 1), seen : SUBSET Cards,
                    duplicates : Nat, batch : SUBSET Cards]
    BY <2>1 DEF NewRun
  <2>3. run'[w] = NewRun
    BY <2>1 DEF TypeOK
  <2> QED BY <2>1, <2>2, <2>3 DEF TypeOK, NewRun
<1>5. DeliveryOK(w)'
  BY <1>3, <1>4, FS_EmptySet DEF DeliveryOK
<1>6. /\ cards' \in [Jobs -> [Cards -> Nat]] /\ links' \in [Jobs -> SUBSET (Cards \X Chunks)]
      /\ phase' \in [Jobs -> {"absent", "queued", "done", "dead"}]
      /\ requeues' \in [Jobs -> 0..(MaxAttempts - 1)]
      /\ handled' \subseteq Jobs /\ faults' \in 0..MaxFaults
  BY <1>0, <1>1 DEF TypeOK
<1>7. /\ \A i \in handled' : status'[i] \in Finished
      /\ \A i \in Jobs : phase'[i] = "done" => i \in handled'
  BY <1>1 DEF MessageSound, TypeOK
<1> QED BY <1>1, <1>2, <1>4, <1>5, <1>6, <1>7, WorkerKeeps

-----------------------------------------------------------------------------
(* Steps of a delivery that leave the messages alone. *)

LEMMA HandlerKeeps ==
  ASSUME GenerationAssumption, GenerationInv, Forward, NEW w \in Workers, NEW step \in Steps,
         Goto(w, step), UNCHANGED <<request, ledgerVars>>, faults' \in 0..MaxFaults,
         cards' \in [Jobs -> [Cards -> Nat]],
         links' \in [Jobs -> SUBSET (Cards \X Chunks)],
         NEW next \in [round : 1..(MaxCards + 1), seen : SUBSET Cards,
                       duplicates : Nat, batch : SUBSET Cards],
         run' = [run EXCEPT ![w] = next], next.batch \subseteq next.seen,
         \A i \in Jobs : status'[i] = "absent" <=> status[i] = "absent",
         DeliveryOK(w)'
  PROVE  GenerationInv'
<1> USE DEF GenerationInv
<1>1. /\ at' \in [Workers -> Steps] /\ job' \in [Workers -> Jobs]
      /\ copy' \in [Workers -> 0..(MaxAttempts - 1)]
      /\ \A v \in Workers \ {w} : at'[v] = at[v] /\ job'[v] = job[v]
  BY DEF Goto, TypeOK
<1>2. /\ run' \in [Workers -> [round : 1..(MaxCards + 1), seen : SUBSET Cards,
                               duplicates : Nat, batch : SUBSET Cards]]
      /\ \A v \in Workers \ {w} : run'[v] = run[v]
      /\ run'[w] = next
  BY DEF TypeOK
<1>3. UNCHANGED <<phase, requeues, handled>>
  BY DEF ledgerVars
<1>4. /\ \A i \in handled' : status'[i] \in Finished
      /\ \A i \in Jobs : phase'[i] = "done" => i \in handled'
  BY <1>3 DEF MessageSound, Forward, Moves, TypeOK
<1>5. /\ phase' \in [Jobs -> {"absent", "queued", "done", "dead"}]
      /\ requeues' \in [Jobs -> 0..(MaxAttempts - 1)]
      /\ handled' \subseteq Jobs
      /\ \A i \in Jobs : phase'[i] = "absent" <=> phase[i] = "absent"
  BY <1>3 DEF TypeOK
<1> QED BY <1>1, <1>2, <1>4, <1>5, WorkerKeeps

\* Of those, the ones that leave the run alone too.
LEMMA SameRunKeeps ==
  ASSUME GenerationAssumption, GenerationInv, Forward, NEW w \in Workers, NEW step \in Steps,
         Go(w, step), UNCHANGED <<request, rowVars, ledgerVars>>, faults' \in 0..MaxFaults,
         \A i \in Jobs : status'[i] = "absent" <=> status[i] = "absent",
         DeliveryOK(w)'
  PROVE  GenerationInv'
<1> USE DEF GenerationInv
<1>1. /\ Goto(w, step)
      /\ run[w] \in [round : 1..(MaxCards + 1), seen : SUBSET Cards,
                     duplicates : Nat, batch : SUBSET Cards]
      /\ run' = [run EXCEPT ![w] = run[w]] /\ run[w].batch \subseteq run[w].seen
      /\ cards' \in [Jobs -> [Cards -> Nat]]
      /\ links' \in [Jobs -> SUBSET (Cards \X Chunks)]
  BY DEF Go, TypeOK, rowVars
<1> QED BY <1>1, HandlerKeeps

Quiet(w) ==
  \/ Find(w) \/ Refind(w)
  \/ FindFails(w) \/ GenerateFails(w) \/ FailJobFails(w) \/ Crash(w) \/ SettleFails(w)

LEMMA QuietSteps ==
  ASSUME GenerationAssumption, GenerationInv, NEW w \in Workers, Quiet(w)
  PROVE  GenerationInv' /\ Forward
<1> DEFINE j == job[w]
<1> USE DEF GenerationInv
<1>1. UNCHANGED <<request, status, counters, rowVars, ledgerVars>> /\ faults' \in 0..MaxFaults
  <2>1. CASE Find(w) \/ Refind(w)
    BY <2>1 DEF Find, Refind, TypeOK
  <2>2. CASE \/ FindFails(w) \/ GenerateFails(w) \/ FailJobFails(w)
             \/ Crash(w) \/ SettleFails(w)
    BY <2>2 DEF FindFails, GenerateFails, FailJobFails, Crash, SettleFails, Fault,
       TypeOK, GenerationAssumption
  <2> QED BY <2>1, <2>2 DEF Quiet
<1>2. j \in Jobs /\ DeliveryOK(w) /\ status[j] \in Statuses
  BY DEF TypeOK, DeliverySound
<1>3. PICK step \in Steps :
        /\ Go(w, step)
        /\ at[w] # "idle"
        /\ \/ step \in {"idle", "retry", "claim"}
           \/ step \in {"generate", "fail"} /\ status[j] # "pending"
           \/ step = "ack" /\ status[j] \in Finished
  <2>1. CASE Find(w)
    BY <2>1 DEF Find, Steps, HandlerSteps
  <2>2. CASE Refind(w)
    BY <1>2, <2>2 DEF Refind, Steps, HandlerSteps, Finished, Statuses, DeliveryOK
  <2>3. CASE GenerateFails(w)
    BY <1>2, <2>3 DEF GenerateFails, Steps, HandlerSteps, DeliveryOK
  <2>4. CASE FailJobFails(w) \/ FindFails(w) \/ Crash(w) \/ SettleFails(w)
    BY <2>4 DEF FailJobFails, FindFails, Crash, SettleFails, Steps, HandlerSteps
  <2> QED BY <2>1, <2>2, <2>3, <2>4 DEF Quiet
<1>4. at'[w] = step /\ job'[w] = j /\ run'[w] = run[w] /\ status' = status
  BY <1>1, <1>3 DEF Go, Goto, TypeOK
<1>5. status[j] # "absent"
  BY <1>2, <1>3 DEF DeliveryOK
<1>6. DeliveryOK(w)'
  BY <1>2, <1>3, <1>4, <1>5 DEF DeliveryOK
<1>7. Forward
  BY <1>1, SameIsForward
<1> QED BY <1>1, <1>3, <1>6, <1>7, SameRunKeeps

\* The updates of the job's row.
LEMMA UpdateSteps ==
  ASSUME GenerationAssumption, GenerationInv, NEW w \in Workers,
         Claim(w) \/ ClaimFails(w) \/ Finish(w) \/ FinishFails(w) \/ FailJob(w)
  PROVE  GenerationInv' /\ Forward
<1> DEFINE j == job[w]
<1> USE DEF GenerationInv
<1>1. j \in Jobs /\ DeliveryOK(w) /\ status[j] \in Statuses
  BY DEF TypeOK, DeliverySound
<1>2. UNCHANGED <<request, rowVars, ledgerVars>> /\ faults' \in 0..MaxFaults
  BY DEF Claim, Finish, FailJob, ClaimFails, FinishFails, Fault, TypeOK, GenerationAssumption
<1>3. \E step \in Steps :
        /\ Go(w, step) /\ at[w] # "idle" /\ Forward
        /\ \A i \in Jobs : status'[i] = "absent" <=> status[i] = "absent"
        /\ \/ step = "retry"
           \/ step \in {"generate", "refind"} /\ status'[j] # "pending"
           \/ step = "ack" /\ status'[j] \in Finished
  <2>1. CASE Claim(w) \/ ClaimFails(w)
    <3>1. PICK step \in Steps :
            /\ Go(w, step) /\ at[w] = "claim" /\ counters' = counters
            /\ MarkRunning(j) \/ status' = status
            /\ step = "retry" \/ (step \in {"generate", "refind"} /\ MarkRunning(j))
      BY <2>1 DEF Claim, ClaimFails, Steps, HandlerSteps
    <3>2. CASE status' = status /\ step = "retry"
      BY <3>1, <3>2, SameIsForward
    <3>3. CASE MarkRunning(j)
      <4>1. /\ Forward
            /\ \A i \in Jobs : i # j => status'[i] = status[i]
            /\ status'[j] = IF status[j] = "pending" THEN "running" ELSE status[j]
        BY <1>1, <3>1, <3>3, MarkRunningFacts
      <4> QED BY <3>1, <4>1
    <3> QED BY <3>1, <3>2, <3>3
  <2>2. CASE Finish(w) \/ FinishFails(w)
    <3> DEFINE total == Cardinality(run[w].seen)
               duplicates == run[w].duplicates
    <3>1. PICK step \in Steps :
            /\ Go(w, step) /\ at[w] = "generate"
            /\ MarkFinished(j, "ready", total, duplicates) \/ UNCHANGED <<status, counters>>
            /\ step = "retry" \/ (step = "ack" /\ MarkFinished(j, "ready", total, duplicates))
      BY <2>2 DEF Finish, FinishFails, Steps
    <3>2. "ready" \in Finished /\ total \in Nat /\ duplicates \in Nat
      BY <1>1, FS_CardinalityType DEF DeliveryOK, TypeOK, Finished
    <3>3. CASE UNCHANGED <<status, counters>> /\ step = "retry"
      BY <3>1, <3>3, SameIsForward
    <3>4. CASE MarkFinished(j, "ready", total, duplicates)
      <4> HIDE DEF total, duplicates
      <4>1. /\ Forward
            /\ \A i \in Jobs : i # j => status'[i] = status[i]
            /\ status'[j] = IF status[j] = "running" THEN "ready" ELSE status[j]
        BY <1>1, <3>2, <3>4, MarkFinishedFacts
      <4>2. status'[j] \in Finished
        BY <1>1, <3>1, <4>1 DEF DeliveryOK, Statuses, Finished
      <4> QED BY <3>1, <4>1, <4>2
    <3> QED BY <3>1, <3>3, <3>4
  <2>3. CASE FailJob(w)
    <3>1. /\ Go(w, "retry") /\ at[w] = "fail" /\ MarkFinished(j, "failed", 0, 0)
          /\ "failed" \in Finished /\ "retry" \in Steps
      BY <2>3 DEF FailJob, Finished, Steps
    <3>2. /\ Forward
          /\ \A i \in Jobs : i # j => status'[i] = status[i]
          /\ status'[j] = IF status[j] = "running" THEN "failed" ELSE status[j]
      BY <1>1, <3>1, MarkFinishedFacts
    <3> QED BY <3>1, <3>2
  <2> QED BY <2>1, <2>2, <2>3
<1>4. PICK step \in Steps :
        /\ Go(w, step) /\ at[w] # "idle" /\ Forward
        /\ \A i \in Jobs : status'[i] = "absent" <=> status[i] = "absent"
        /\ \/ step = "retry"
           \/ step \in {"generate", "refind"} /\ status'[j] # "pending"
           \/ step = "ack" /\ status'[j] \in Finished
  BY <1>3
<1>5. at'[w] = step /\ job'[w] = j /\ run'[w] = run[w]
  BY <1>4 DEF Go, Goto, TypeOK
<1>6. status'[j] # "absent"
  BY <1>1, <1>4 DEF DeliveryOK
<1>7. DeliveryOK(w)'
  BY <1>1, <1>4, <1>5, <1>6 DEF DeliveryOK
<1> QED BY <1>2, <1>4, <1>7, SameRunKeeps

-----------------------------------------------------------------------------
(* A round. *)

\* The cards of a reply are no more than its places.
LEMMA ReplyFacts ==
  ASSUME NEW reply \in Seq(Cards)
  PROVE  /\ Range(reply) \subseteq Cards
         /\ IsFiniteSet(Range(reply))
         /\ Cardinality(Range(reply)) \in Nat /\ Cardinality(Range(reply)) <= Len(reply)
<1>1. /\ reply \in [1..Len(reply) -> Cards] /\ Len(reply) \in Nat
      /\ IsFiniteSet(1..Len(reply)) /\ Cardinality(1..Len(reply)) = Len(reply)
  <2>1. reply \in [1..Len(reply) -> Cards] /\ Len(reply) \in Nat
    OBVIOUS
  <2> DEFINE n == Len(reply)
  <2>2. n \in Nat
    BY <2>1
  <2> HIDE DEF n
  <2>3. IsFiniteSet(1..n) /\ Cardinality(1..n) = n
    BY <2>2, FS_Interval
  <2> QED BY <2>1, <2>3 DEF n
<1>2. Range(reply) \subseteq Cards /\ reply \in Surjection(1..Len(reply), Range(reply))
  BY <1>1, Fun_RangeProperties
<1> QED BY <1>1, <1>2, FS_Surjection, FS_CardinalityType

\* What a reply adds to a run.
LEMMA NewFacts ==
  ASSUME NEW reply \in Seq(Cards), NEW seen \in SUBSET Cards, IsFiniteSet(seen),
         NEW new \in SUBSET Cards, new = Range(reply) \ seen
  PROVE  /\ IsFiniteSet(new) /\ IsFiniteSet(seen \cup new)
         /\ Cardinality(new) \in Nat /\ Len(reply) - Cardinality(new) \in Nat
         /\ Cardinality(seen \cup new) = Cardinality(seen) + Cardinality(new)
<1>1. /\ Range(reply) \subseteq Cards /\ IsFiniteSet(Range(reply))
      /\ Cardinality(Range(reply)) \in Nat /\ Cardinality(Range(reply)) <= Len(reply)
  BY ReplyFacts
<1>2. new \in SUBSET Range(reply)
  OBVIOUS
<1>3. IsFiniteSet(new) /\ Cardinality(new) <= Cardinality(Range(reply))
  BY <1>1, <1>2, FS_Subset
<1>4. Cardinality(new) \in Nat /\ Cardinality(seen) \in Nat
  BY <1>3, FS_CardinalityType
<1>5. seen \cap new = {}
  OBVIOUS
<1>6. /\ IsFiniteSet(seen \cup new)
      /\ Cardinality(seen \cup new) = Cardinality(seen) + Cardinality(new)
  <2>1. /\ IsFiniteSet(seen \cup new)
        /\ Cardinality(seen \cup new) =
             Cardinality(seen) + Cardinality(new) - Cardinality(seen \cap new)
    BY <1>3, FS_Union
  <2>2. Cardinality(seen \cap new) = 0
    BY <1>5, FS_EmptySet
  <2> QED BY <1>4, <2>1, <2>2
<1>7. Len(reply) \in Nat
  OBVIOUS
<1> QED BY <1>1, <1>3, <1>4, <1>6, <1>7

LEMMA GenerateKeeps ==
  ASSUME GenerationAssumption, GenerationInv, NEW w \in Workers, Generate(w)
  PROVE  GenerationInv' /\ Forward
<1> DEFINE j == job[w]
           r == run[w]
<1> USE DEF GenerationInv
<1>1. /\ j \in Jobs /\ DeliveryOK(w) /\ at[w] = "generate" /\ r.round \in Rounds
      /\ r \in [round : 1..(MaxCards + 1), seen : SUBSET Cards,
                duplicates : Nat, batch : SUBSET Cards]
      /\ UNCHANGED <<request, status, counters, rowVars, ledgerVars, faults>>
  BY DEF TypeOK, DeliverySound, Generate
<1>2. PICK reply \in Replies[r.round] :
        LET new == Range(reply) \ r.seen
        IN  /\ run' = [run EXCEPT ![w] =
                        [round      |-> IF new = {} THEN r.round + 1 ELSE r.round,
                         seen       |-> r.seen \cup new,
                         duplicates |-> r.duplicates + Len(reply) - Cardinality(new),
                         batch      |-> new]]
            /\ Goto(w, IF new = {} THEN "generate" ELSE "insert")
  BY DEF Generate
<1> DEFINE new == Range(reply) \ r.seen
           next == [round      |-> IF new = {} THEN r.round + 1 ELSE r.round,
                    seen       |-> r.seen \cup new,
                    duplicates |-> r.duplicates + Len(reply) - Cardinality(new),
                    batch      |-> new]
           step == IF new = {} THEN "generate" ELSE "insert"
<1>3. reply \in Seq(Cards) /\ Len(reply) \in Nat
  BY <1>1, <1>2 DEF GenerationAssumption
<1>4. /\ new \in SUBSET Cards /\ IsFiniteSet(r.seen \cup new)
      /\ Cardinality(new) \in Nat /\ Len(reply) - Cardinality(new) \in Nat
  <2>1. r.seen \in SUBSET Cards /\ IsFiniteSet(r.seen)
    BY <1>1 DEF DeliveryOK
  <2>2. new = Range(reply) \ r.seen /\ new \in SUBSET Cards
    BY <1>3, ReplyFacts
  <2> HIDE DEF new, r
  <2> QED BY <1>3, <2>1, <2>2, NewFacts
<1>5. /\ (IF new = {} THEN r.round + 1 ELSE r.round) \in 1..(MaxCards + 1)
      /\ r.duplicates + Len(reply) - Cardinality(new) \in Nat
      /\ r.seen \cup new \in SUBSET Cards
  <2>1. /\ r.round \in 1..(MaxCards + 1) /\ r.round + 1 \in 1..(MaxCards + 1)
        /\ r.duplicates \in Nat /\ r.seen \in SUBSET Cards
    <3>1. MaxCards \in Nat /\ r.round \in 1..MaxCards
      BY <1>1 DEF Rounds, GenerationAssumption
    <3>2. r.duplicates \in Nat /\ r.seen \in SUBSET Cards
      BY <1>1
    <3> HIDE DEF r
    <3> QED BY <3>1, <3>2
  <2> HIDE DEF r, new
  <2> QED BY <1>3, <1>4, <2>1
<1>6. /\ next \in [round : 1..(MaxCards + 1), seen : SUBSET Cards,
                   duplicates : Nat, batch : SUBSET Cards]
      /\ next.batch \subseteq next.seen
  BY <1>4, <1>5
<1>7. /\ run' = [run EXCEPT ![w] = next] /\ Goto(w, step) /\ step \in Steps
  BY <1>2 DEF Steps, HandlerSteps
<1>8. at'[w] = step /\ job'[w] = j /\ run'[w] = next
  BY <1>7 DEF Goto, TypeOK
<1>9. DeliveryOK(w)'
  BY <1>1, <1>4, <1>8 DEF DeliveryOK, Rounds
<1>10. Forward
  BY <1>1, SameIsForward
<1>11. cards' \in [Jobs -> [Cards -> Nat]] /\ links' \in [Jobs -> SUBSET (Cards \X Chunks)]
       /\ faults' \in 0..MaxFaults
  BY <1>1 DEF TypeOK, rowVars
<1> HIDE DEF next, step
<1> QED BY <1>1, <1>6, <1>7, <1>9, <1>10, <1>11, HandlerKeeps

\* A batch adds rows that were missing and links to chunks of the round's context.
LEMMA InsertFacts ==
  ASSUME GenerationAssumption, TypeOK, NEW j \in Jobs, NEW i \in Rounds,
         NEW new \in SUBSET Cards, InsertBatchWithLinks(j, new, i)
  PROVE  /\ cards' \in [Jobs -> [Cards -> Nat]]
         /\ links' \in [Jobs -> SUBSET (Cards \X Chunks)]
         /\ \A k \in Jobs \ {j} : cards'[k] = cards[k] /\ links'[k] = links[k]
         /\ cards'[j] = Upsert(cards[j], new)
         /\ links'[j] = links[j] \cup UNION {{Stored[c]} \X Linked(c, i) : c \in new}
<1>1. Upsert(cards[j], new) \in [Cards -> Nat]
  BY DEF Upsert, TypeOK
<1>2. \A c \in new : Stored[c] \in Cards /\ Linked(c, i) \subseteq Chunks
  <2>1. Context[i] \in Seq(Chunks)
    BY DEF GenerationAssumption
  <2>2. Range(Context[i]) \subseteq Chunks
    BY <2>1 DEF Range
  <2> QED BY <2>2 DEF GenerationAssumption, Linked
<1> DEFINE added == UNION {{Stored[c]} \X Linked(c, i) : c \in new}
<1>3. added \in SUBSET (Cards \X Chunks)
  BY <1>2
<1>4. links[j] \cup added \in SUBSET (Cards \X Chunks)
  BY <1>3 DEF TypeOK
<1>5. /\ cards' = [cards EXCEPT ![j] = Upsert(cards[j], new)]
      /\ links' = [links EXCEPT ![j] = links[j] \cup added]
  BY DEF InsertBatchWithLinks
<1> HIDE DEF added
<1>6. /\ cards'[j] = Upsert(cards[j], new) /\ links'[j] = links[j] \cup added
      /\ cards' \in [Jobs -> [Cards -> Nat]]
      /\ links' \in [Jobs -> SUBSET (Cards \X Chunks)]
      /\ \A k \in Jobs \ {j} : cards'[k] = cards[k] /\ links'[k] = links[k]
  BY <1>1, <1>4, <1>5 DEF TypeOK
<1> QED BY <1>6 DEF added

LEMMA InsertKeeps ==
  ASSUME GenerationAssumption, GenerationInv, NEW w \in Workers, Insert(w) \/ InsertFails(w)
  PROVE  GenerationInv' /\ Forward
<1> DEFINE j == job[w]
           r == run[w]
<1> USE DEF GenerationInv
<1>1. /\ j \in Jobs /\ DeliveryOK(w) /\ at[w] = "insert"
      /\ r \in [round : 1..(MaxCards + 1), seen : SUBSET Cards,
                duplicates : Nat, batch : SUBSET Cards]
      /\ r.batch \subseteq r.seen
  BY DEF TypeOK, DeliverySound, Insert, InsertFails
<1>2. /\ UNCHANGED <<request, status, counters, ledgerVars>> /\ faults' \in 0..MaxFaults
  BY DEF Insert, InsertFails, Fault, TypeOK, GenerationAssumption
<1>3. r.round \in Rounds /\ r.batch \in SUBSET Cards
  BY <1>1 DEF DeliveryOK
<1>4. InsertBatchWithLinks(j, r.batch, r.round) \/ UNCHANGED rowVars
  BY DEF Insert, InsertFails
<1>5. cards' \in [Jobs -> [Cards -> Nat]] /\ links' \in [Jobs -> SUBSET (Cards \X Chunks)]
  BY <1>1, <1>3, <1>4, InsertFacts DEF rowVars, TypeOK
<1>6. Forward
  BY <1>2, SameIsForward
<1>7. CASE InsertFails(w)
  <2>1. Goto(w, "fail") /\ run' = run /\ "fail" \in Steps
    BY <1>7 DEF InsertFails, Go, Steps, HandlerSteps
  <2>2. at'[w] = "fail" /\ job'[w] = j /\ run' = [run EXCEPT ![w] = r]
    BY <2>1 DEF Goto, TypeOK
  <2>3. DeliveryOK(w)'
    BY <1>1, <1>2, <2>1, <2>2 DEF DeliveryOK
  <2> QED BY <1>1, <1>2, <1>5, <1>6, <2>1, <2>2, <2>3, HandlerKeeps
<1>8. CASE Insert(w)
  <2> DEFINE next == [r EXCEPT !.round = r.round + 1, !.batch = {}]
  <2>1. Goto(w, "generate") /\ run' = [run EXCEPT ![w] = next] /\ "generate" \in Steps
    BY <1>8 DEF Insert, Steps, HandlerSteps
  <2>2. /\ next \in [round : 1..(MaxCards + 1), seen : SUBSET Cards,
                     duplicates : Nat, batch : SUBSET Cards]
        /\ next.batch \subseteq next.seen /\ next.seen = r.seen
    <3>1. MaxCards \in Nat /\ r.round \in 1..MaxCards
      BY <1>3 DEF Rounds, GenerationAssumption
    <3>2. r.round + 1 \in 1..(MaxCards + 1)
      <4> HIDE DEF r
      <4> QED BY <3>1
    <3> QED BY <1>1, <3>2
  <2>3. at'[w] = "generate" /\ job'[w] = j /\ run'[w] = next
    BY <2>1 DEF Goto, TypeOK
  <2>4. DeliveryOK(w)'
    BY <1>1, <1>2, <2>2, <2>3 DEF DeliveryOK
  <2> HIDE DEF next
  <2> QED BY <1>1, <1>2, <1>5, <1>6, <2>1, <2>2, <2>4, HandlerKeeps
<1> QED BY <1>7, <1>8

-----------------------------------------------------------------------------
(* Settling the message. *)

LEMMA SettleSteps ==
  ASSUME GenerationAssumption, GenerationInv, NEW w \in Workers, Succeed(w) \/ Ack(w) \/ Retry(w)
  PROVE  GenerationInv' /\ Forward
<1> DEFINE j == job[w]
<1> USE DEF GenerationInv
<1>1. j \in Jobs /\ DeliveryOK(w)
  BY DEF TypeOK, DeliverySound
<1>2. /\ UNCHANGED <<request, status, counters, cards, links, faults, job, copy, run>>
      /\ at[w] # "idle"
      /\ at' = at \/ at' = [at EXCEPT ![w] = "idle"]
  BY DEF Succeed, Ack, Retry, Go, Goto, rowVars, deliveryVars
<1>3. Forward
  BY <1>2, SameIsForward
<1>4. /\ at' \in [Workers -> Steps]
      /\ \A v \in Workers \ {w} : at'[v] = at[v]
      /\ at'[w] \in {at[w], "idle"}
  BY <1>2 DEF TypeOK, Steps
<1>5. DeliveryOK(w)'
  BY <1>2, <1>3, <1>4, DeliveryStays
<1>6. /\ phase' \in [Jobs -> {"absent", "queued", "done", "dead"}]
      /\ requeues' \in [Jobs -> 0..(MaxAttempts - 1)]
      /\ handled' \subseteq Jobs
      /\ \A i \in Jobs : phase'[i] = "absent" <=> phase[i] = "absent"
      /\ \A i \in handled' : i \in handled \/ status[i] \in Finished
      /\ \A i \in Jobs : phase'[i] = "done" => i \in handled'
  <2>1. CASE UNCHANGED ledgerVars
    BY <2>1 DEF ledgerVars, TypeOK, MessageSound
  <2>2. CASE Succeed(w)
    BY <1>1, <2>2 DEF Succeed, Queue!Succeed, TypeOK, MessageSound, DeliveryOK
  <2>3. CASE Queue!Complete(j)
    BY <1>1, <2>3 DEF Queue!Complete, TypeOK, MessageSound
  <2>4. CASE Queue!Requeue(j)
    <3>1. /\ requeues[j] \in 0..(MaxAttempts - 1) /\ requeues[j] + 1 < MaxAttempts
          /\ requeues' = [requeues EXCEPT ![j] = requeues[j] + 1]
      BY <1>1, <2>4 DEF Queue!Requeue, TypeOK
    <3>2. requeues[j] + 1 \in 0..(MaxAttempts - 1)
      BY <3>1 DEF GenerationAssumption
    <3> QED BY <2>4, <3>1, <3>2 DEF Queue!Requeue, TypeOK, MessageSound
  <2>5. CASE Queue!Bury(j)
    BY <1>1, <2>5 DEF Queue!Bury, TypeOK, MessageSound
  <2> QED BY <2>1, <2>2, <2>3, <2>4, <2>5 DEF Succeed, Ack, Retry
<1>7. \A i \in handled' : status'[i] \in Finished
  BY <1>2, <1>6 DEF MessageSound, TypeOK
<1>8. \A v \in Workers \ {w} : at'[v] = at[v] /\ job'[v] = job[v] /\ run'[v] = run[v]
  BY <1>2, <1>4
<1> QED BY <1>2, <1>3, <1>4, <1>5, <1>6, <1>7, <1>8, WorkerKeeps DEF TypeOK

-----------------------------------------------------------------------------
(* Every step. *)

LEMMA StepKeeps ==
  ASSUME GenerationAssumption, GenerationInv, Next
  PROVE  GenerationInv' /\ Forward
<1>1. CASE \E j \in Jobs : Api(j) \/ ApiDisturbed(j)
  BY <1>1, ApiKeeps
<1>2. CASE \E w \in Workers, j \in Jobs : Begin(w, j) \/ BeginLate(w, j)
  BY <1>2, BeginKeeps
<1>3. CASE \E w \in Workers : Handle(w) \/ HandleDisturbed(w)
  <2>1. PICK w \in Workers : Handle(w) \/ HandleDisturbed(w)
    BY <1>3
  <2>2. CASE Quiet(w)
    BY <2>2, QuietSteps
  <2>3. CASE Claim(w) \/ ClaimFails(w) \/ Finish(w) \/ FinishFails(w) \/ FailJob(w)
    BY <2>3, UpdateSteps
  <2>4. CASE Generate(w)
    BY <2>4, GenerateKeeps
  <2>5. CASE Insert(w) \/ InsertFails(w)
    BY <2>5, InsertKeeps
  <2>6. CASE Succeed(w) \/ Ack(w) \/ Retry(w)
    BY <2>6, SettleSteps
  <2> QED BY <2>1, <2>2, <2>3, <2>4, <2>5, <2>6 DEF Handle, HandleDisturbed, Call, CallFails, Quiet
<1> QED BY <1>1, <1>2, <1>3 DEF Next

LEMMA StutterKeeps ==
  ASSUME GenerationInv, UNCHANGED vars
  PROVE  GenerationInv' /\ Forward
<1>1. TypeOK' /\ MessageSound'
  BY DEF vars, GenerationInv, TypeOK, MessageSound
<1>2. DeliverySound'
  BY DEF vars, GenerationInv, DeliverySound, DeliveryOK
<1>3. Forward
  BY SameIsForward DEF vars, GenerationInv
<1> QED BY <1>1, <1>2, <1>3 DEF GenerationInv

\* The inductive invariant holds in every reachable state.
THEOREM GenerationInvariance == Spec => []GenerationInv
<1>1. Init => GenerationInv
  BY GenerationAssumption, GenerationInit
<1>2. GenerationInv /\ [Next]_vars => GenerationInv'
  BY GenerationAssumption, StepKeeps, StutterKeeps
<1> QED BY <1>1, <1>2, PTL DEF Spec

\* TypeOK of CardGeneration, for any number of jobs, deliveries and rounds.
THEOREM GenerationTypes == Spec => []TypeOK
<1>1. GenerationInv => TypeOK
  BY DEF GenerationInv
<1> QED BY <1>1, GenerationInvariance, PTL

\* No run of the handler returns nil on a job that is still on its way, so such
\* a job keeps its message (pipeline.go:156-158).
THEOREM JobsNotForgotten == Spec => []NotForgotten
<1>1. GenerationInv => NotForgotten
  <2> SUFFICES ASSUME GenerationInv, NEW j \in Jobs, status[j] \in {"pending", "running"},
                      phase[j] \notin {"queued", "dead"}
               PROVE  \/ request[j] \in {"created", "rollback"}
                      \/ phase[j] = "absent" /\ request[j] \in {"rejected", "abandoned"}
    BY DEF NotForgotten
  <2>1. phase[j] = "absent"
    BY DEF GenerationInv, TypeOK, MessageSound, Finished
  <2> QED BY <2>1 DEF GenerationInv, TypeOK, MessageSound, RequestSteps
<1> QED BY <1>1, GenerationInvariance, PTL

\* No step of any actor changes the outcome or the counters of a finished job
\* (pipeline.go:292-295).
THEOREM JobOutcomesFinal == Spec => JobOutcomeFinal
<1>1. GenerationInv /\ [Next]_vars =>
        [\A j \in Jobs : status[j] \in Finished =>
           status'[j] = status[j] /\ counters'[j] = counters[j]]_vars
  <2> SUFFICES ASSUME GenerationInv, Next, NEW j \in Jobs, status[j] \in Finished
               PROVE  status'[j] = status[j] /\ counters'[j] = counters[j]
    OBVIOUS
  <2>1. Forward
    BY GenerationAssumption, StepKeeps
  <2> QED BY <2>1 DEF Forward, Moves
<1> QED BY <1>1, GenerationInvariance, PTL DEF Spec, JobOutcomeFinal

-----------------------------------------------------------------------------
(* Links, for a model that cites chunks of the round's context, if any. *)

CitesContext == \A c \in Cards, i \in Rounds : Cites[c] \subseteq Range(Context[i])

LinkedSoFar ==
  (\A i \in Rounds : Context[i] # <<>>) =>
    \A j \in Jobs : \A c \in Cards :
      cards[j][c] > 0 => \E k \in Chunks : <<c, k>> \in links[j]

\* The default citation makes up for the one the card lacks.
LEMMA LinkedSome ==
  ASSUME GenerationAssumption, CitesContext, NEW c \in Cards, NEW i \in Rounds,
         Context[i] # <<>>
  PROVE  \E k \in Chunks : k \in Linked(c, i)
<1>1. /\ Context[i] \in Seq(Chunks) /\ Cites[c] \in SUBSET Chunks
      /\ Cites[c] \subseteq Range(Context[i])
  BY DEF GenerationAssumption, CitesContext
<1>2. Head(Context[i]) \in Chunks /\ Head(Context[i]) \in Range(Context[i])
  <2> DEFINE s == Context[i]
  <2>1. s \in Seq(Chunks) /\ s # <<>>
    BY <1>1
  <2> HIDE DEF s
  <2>2. Head(s) = s[1] /\ 1 \in DOMAIN s /\ s[1] \in Chunks
    BY <2>1
  <2> QED BY <2>2 DEF s, Range
<1>3. CASE Cites[c] = {}
  BY <1>2, <1>3 DEF Linked, Citations
<1>4. CASE Cites[c] # {}
  BY <1>1, <1>4 DEF Linked, Citations
<1> QED BY <1>3, <1>4

\* The only step that touches a job's rows stores a batch of a delivery.
LEMMA RowSteps ==
  ASSUME GenerationAssumption, GenerationInv, [Next]_vars
  PROVE  \/ UNCHANGED rowVars
         \/ \E w \in Workers :
              /\ at[w] = "insert" /\ (Insert(w) \/ InsertFails(w))
              /\ InsertBatchWithLinks(job[w], run[w].batch, run[w].round)
  BY DEF vars, rowVars, Next, Api, ApiDisturbed, Create, CreateUnconfirmed, Enqueue,
     EnqueueFails, Rollback, RollbackFails, ApiCrash, Begin, BeginLate, Take, Handle,
     HandleDisturbed, Call, CallFails, Find, Claim, Refind, Generate, Insert, Finish,
     FailJob, Succeed, Ack, Retry, FindFails, ClaimFails, GenerateFails, InsertFails,
     FinishFails, FailJobFails, Crash, SettleFails

LEMMA LinkedKept ==
  ASSUME GenerationAssumption, GenerationInv, CitesContext, LinkedSoFar, [Next]_vars
  PROVE  LinkedSoFar'
<1>1. CASE UNCHANGED rowVars
  BY <1>1 DEF rowVars, LinkedSoFar
<1>2. CASE \E w \in Workers :
             /\ at[w] = "insert" /\ (Insert(w) \/ InsertFails(w))
             /\ InsertBatchWithLinks(job[w], run[w].batch, run[w].round)
  <2>1. PICK w \in Workers :
               at[w] = "insert" /\ InsertBatchWithLinks(job[w], run[w].batch, run[w].round)
    BY <1>2
  <2> DEFINE j == job[w]
             new == run[w].batch
             i == run[w].round
  <2>2. j \in Jobs /\ i \in Rounds /\ new \in SUBSET Cards
    BY <2>1 DEF GenerationInv, TypeOK, DeliverySound, DeliveryOK
  <2> HIDE DEF j, new, i
  <2>3. /\ \A k \in Jobs \ {j} : cards'[k] = cards[k] /\ links'[k] = links[k]
        /\ cards'[j] = Upsert(cards[j], new)
        /\ links'[j] = links[j] \cup UNION {{Stored[c]} \X Linked(c, i) : c \in new}
    <3>1. TypeOK /\ InsertBatchWithLinks(j, new, i)
      BY <2>1 DEF GenerationInv, j, new, i
    <3> QED BY <2>2, <3>1, InsertFacts
  <2> SUFFICES ASSUME \A l \in Rounds : Context[l] # <<>>,
                      NEW h \in Jobs, NEW c \in Cards, cards'[h][c] > 0
               PROVE  \E k \in Chunks : <<c, k>> \in links'[h]
    BY DEF LinkedSoFar
  <2>4. CASE h # j
    BY <2>3, <2>4 DEF LinkedSoFar
  <2>5. CASE h = j /\ cards[j][c] > 0
    BY <2>3, <2>5 DEF LinkedSoFar
  <2>6. CASE h = j /\ ~(cards[j][c] > 0)
    <3>1. PICK d \in new : c = Stored[d]
      BY <2>3, <2>6 DEF Upsert
    <3>2. PICK k \in Chunks : k \in Linked(d, i)
      BY <2>2, <3>1, LinkedSome
    <3>3. <<c, k>> \in {Stored[d]} \X Linked(d, i)
      BY <3>1, <3>2
    <3> QED BY <2>3, <2>6, <3>1, <3>3
  <2> QED BY <2>4, <2>5, <2>6
<1> QED BY <1>1, <1>2, RowSteps

\* With such a model every card of a job has a link (pipeline.go:219), whatever
\* fails or runs twice; the run generation_citations shows why it takes one.
THEOREM CardsLinked == Spec => [](CitesContext => EveryCardLinked)
<1> DEFINE L == CitesContext => LinkedSoFar
<1>1. Init => L
  BY DEF Init, LinkedSoFar
<1>2. GenerationInv /\ L /\ [Next]_vars => L'
  BY GenerationAssumption, LinkedKept DEF CitesContext
<1>3. L => (CitesContext => EveryCardLinked)
  BY DEF LinkedSoFar, EveryCardLinked
<1> HIDE DEF L
<1> QED BY <1>1, <1>2, <1>3, GenerationInvariance, PTL DEF Spec

-----------------------------------------------------------------------------
(* Runs, for a model that may answer anything each time it is asked.        *)

\* The cards of the first k replies, and the places they stand at.
GivenBy(f, k) == UNION {Range(f[i]) : i \in 1..k}

PlacesBy(f, k) == UNION {{i} \X DOMAIN f[i] : i \in 1..k}

LEMMA RunFacts ==
  ASSUME GenerationAssumption, NEW f \in Runs
  PROVE  /\ \A i \in Rounds : /\ f[i] \in Replies[i] /\ f[i] \in Seq(Cards)
                              /\ Range(f[i]) \subseteq Cards
         /\ GivenBy(f, 0) = {} /\ PlacesBy(f, 0) = {}
         /\ Given(f) = GivenBy(f, MaxCards) /\ Answers(f) = Cardinality(PlacesBy(f, MaxCards))
<1>1. \A i \in Rounds : f[i] \in Replies[i] /\ f[i] \in Seq(Cards)
  BY DEF Runs, GenerationAssumption
<1>2. \A i \in Rounds : Range(f[i]) \subseteq Cards
  BY <1>1, ReplyFacts
<1>3. 1..0 = {} /\ Rounds = 1..MaxCards
  BY DEF Rounds
<1>4. GivenBy(f, 0) = {} /\ PlacesBy(f, 0) = {}
  BY <1>3 DEF GivenBy, PlacesBy
<1> QED BY <1>1, <1>2, <1>3, <1>4 DEF Given, Answers, GivenBy, PlacesBy

\* There is a run to begin with.
LEMMA SomeRun ==
  ASSUME GenerationAssumption
  PROVE  \E f : f \in Runs
<1> DEFINE f == [i \in Rounds |-> CHOOSE reply : reply \in Replies[i]]
<1>1. \A i \in Rounds : f[i] \in Replies[i]
  BY DEF GenerationAssumption
<1>2. f \in Runs
  BY <1>1 DEF Runs
<1> QED BY <1>2

\* A run goes on with any reply to round i; what it was told before stays.
LEMMA RunGoesOn ==
  ASSUME GenerationAssumption, NEW f \in Runs, NEW i \in Rounds, NEW reply \in Replies[i]
  PROVE  LET g == [f EXCEPT ![i] = reply]
         IN  /\ g \in Runs /\ g[i] = reply
             /\ \A k \in 1..(i - 1) : g[k] = f[k]
             /\ GivenBy(g, i - 1) = GivenBy(f, i - 1)
             /\ PlacesBy(g, i - 1) = PlacesBy(f, i - 1)
<1> DEFINE g == [f EXCEPT ![i] = reply]
<1>1. MaxCards \in Nat /\ i \in 1..MaxCards /\ Rounds = 1..MaxCards
  BY DEF Rounds, GenerationAssumption
<1>2. g[i] = reply /\ (\A k \in Rounds \ {i} : g[k] = f[k])
  BY DEF Runs
<1>3. g \in Runs
  BY <1>2 DEF Runs
<1> HIDE DEF g
<1>4. \A k \in 1..(i - 1) : g[k] = f[k]
  BY <1>1, <1>2
<1>5. GivenBy(g, i - 1) = GivenBy(f, i - 1)
  BY <1>4 DEF GivenBy
<1>6. PlacesBy(g, i - 1) = PlacesBy(f, i - 1)
  BY <1>4 DEF PlacesBy
<1> QED BY <1>2, <1>3, <1>4, <1>5, <1>6 DEF g

\* What a run counts: every place of the replies so far holds a new card or a
\* duplicate.
LEMMA RoundCounted ==
  ASSUME GenerationAssumption, NEW f \in Runs, NEW i \in Rounds, NEW duplicates \in Nat,
         IsFiniteSet(GivenBy(f, i - 1)), IsFiniteSet(PlacesBy(f, i - 1)),
         Cardinality(GivenBy(f, i - 1)) + duplicates = Cardinality(PlacesBy(f, i - 1))
  PROVE  LET new == Range(f[i]) \ GivenBy(f, i - 1)
         IN  /\ GivenBy(f, i) = GivenBy(f, i - 1) \cup new /\ IsFiniteSet(PlacesBy(f, i))
             /\ Cardinality(GivenBy(f, i)) + (duplicates + Len(f[i]) - Cardinality(new))
                  = Cardinality(PlacesBy(f, i))
<1> PICK new : new = Range(f[i]) \ GivenBy(f, i - 1)
  OBVIOUS
<1> DEFINE n == Len(f[i])
           here == {i} \X DOMAIN f[i]
<1>1. f[i] \in Seq(Cards) /\ n \in Nat /\ DOMAIN f[i] = 1..n
  BY RunFacts
<1>2. MaxCards \in Nat /\ i \in 1..MaxCards
  BY DEF Rounds, GenerationAssumption
<1>3. 1..i = (1..(i - 1)) \cup {i} /\ i \notin 1..(i - 1)
  BY <1>2
<1>4. GivenBy(f, i) = GivenBy(f, i - 1) \cup Range(f[i])
  BY <1>3 DEF GivenBy
<1>5. PlacesBy(f, i) = PlacesBy(f, i - 1) \cup here
  BY <1>3 DEF PlacesBy
<1>6. PlacesBy(f, i - 1) \cap here = {}
  BY <1>3 DEF PlacesBy
<1>7. IsFiniteSet(here) /\ Cardinality(here) = n
  <2> HIDE DEF n
  <2>1. IsFiniteSet(1..n) /\ Cardinality(1..n) = n
    BY <1>1, FS_Interval
  <2>2. IsFiniteSet({i}) /\ Cardinality({i}) = 1
    BY FS_Singleton
  <2>3. IsFiniteSet({i} \X (1..n)) /\ Cardinality({i} \X (1..n)) = Cardinality({i}) * Cardinality(1..n)
    BY <2>1, <2>2, FS_Product
  <2> QED BY <1>1, <2>1, <2>2, <2>3
<1> HIDE DEF n, here
<1>8. IsFiniteSet(PlacesBy(f, i)) /\ Cardinality(PlacesBy(f, i)) = Cardinality(PlacesBy(f, i - 1)) + n
  <2>1. /\ IsFiniteSet(PlacesBy(f, i - 1) \cup here)
        /\ Cardinality(PlacesBy(f, i - 1) \cup here) =
             Cardinality(PlacesBy(f, i - 1)) + Cardinality(here)
               - Cardinality(PlacesBy(f, i - 1) \cap here)
    BY <1>7, FS_Union
  <2>2. Cardinality(PlacesBy(f, i - 1) \cap here) = 0
    BY <1>6, FS_EmptySet
  <2>3. Cardinality(PlacesBy(f, i - 1)) \in Nat
    BY FS_CardinalityType
  <2> QED BY <1>1, <1>5, <1>7, <2>1, <2>2, <2>3
<1>9. /\ Cardinality(new) \in Nat
       /\ Cardinality(GivenBy(f, i - 1) \cup new) = Cardinality(GivenBy(f, i - 1)) + Cardinality(new)
  <2>1. IsFiniteSet(Range(f[i]))
    BY <1>1, ReplyFacts
  <2>2. IsFiniteSet(new) /\ GivenBy(f, i - 1) \cap new = {}
    BY <2>1, FS_Difference
  <2>3. /\ IsFiniteSet(GivenBy(f, i - 1) \cup new)
        /\ Cardinality(GivenBy(f, i - 1) \cup new) =
             Cardinality(GivenBy(f, i - 1)) + Cardinality(new)
               - Cardinality(GivenBy(f, i - 1) \cap new)
    BY <2>2, FS_Union
  <2>4. Cardinality(GivenBy(f, i - 1) \cap new) = 0
    BY <2>2, FS_EmptySet
  <2>5. Cardinality(GivenBy(f, i - 1)) \in Nat /\ Cardinality(new) \in Nat
    BY <2>2, FS_CardinalityType
  <2> QED BY <2>3, <2>4, <2>5
<1>10. GivenBy(f, i) = GivenBy(f, i - 1) \cup new
  BY <1>4
<1>11. Cardinality(GivenBy(f, i - 1)) \in Nat
  BY FS_CardinalityType
<1> QED BY <1>1, <1>8, <1>9, <1>10, <1>11 DEF n

-----------------------------------------------------------------------------
\* Deliveries whose run still counts.
Live == {"find", "claim", "refind", "generate", "insert"}

\* The rounds whose replies the run has gone through.
Done(w) == IF at[w] = "insert" THEN run[w].round ELSE run[w].round - 1

\* The run of w is the one that got these replies so far: it has counted them, and
\* all their cards are rows of its job, but for the batch in its hands.
Follows(w, f) ==
  /\ run[w].seen = GivenBy(f, Done(w)) /\ IsFiniteSet(PlacesBy(f, Done(w)))
  /\ Cardinality(run[w].seen) + run[w].duplicates = Cardinality(PlacesBy(f, Done(w)))
  /\ \A k \in 1..(run[w].round - 1) : Whole(job[w], f[k])
  /\ at[w] = "insert" =>
       /\ run[w].batch \subseteq Range(f[run[w].round])
       /\ \A card \in Range(f[run[w].round]) \ run[w].batch : IsRow(job[w], card)

RunOK(w) == at[w] \in Live => \E f \in Runs : Follows(w, f)

\* Rows come as whole replies, each after one to every earlier round.
Comes(j, c) ==
  \E i \in Rounds : \E reply \in Replies[i] :
    /\ c \in {Stored[d] : d \in Range(reply)} /\ Whole(j, reply)
    /\ \A k \in 1..(i - 1) : \E earlier \in Replies[k] : Whole(j, earlier)

RowsOK(j) == \A c \in Cards : cards[j][c] \in {0, 1} /\ (cards[j][c] # 0 => Comes(j, c))

HasRun(j) ==
  \E f \in Runs :
    /\ counters[j].total = Cardinality(Given(f))
    /\ counters[j].total + counters[j].duplicates = Answers(f)
    /\ \A card \in Given(f) : IsRow(j, card)

OutcomeOK(j) == IF status[j] = "ready" THEN HasRun(j) ELSE counters[j] = Counted(0, 0)

\* Each run knows of its own replies only, and what it relies on are rows, which
\* never go away: the invariant that makes up for the missing lock.
RunsSound ==
  /\ \A w \in Workers : RunOK(w)
  /\ \A j \in Jobs : RowsOK(j) /\ OutcomeOK(j)

\* Rows are never removed.
Grown == \A j \in Jobs, c \in Cards : cards[j][c] = 1 => cards'[j][c] = 1

LEMMA RunsInit == GenerationAssumption /\ Init => RunsSound
<1> SUFFICES ASSUME GenerationAssumption, Init PROVE RunsSound
  OBVIOUS
<1>1. \A w \in Workers : RunOK(w)
  BY DEF Init, RunOK, Live
<1>2. \A j \in Jobs : RowsOK(j)
  BY DEF Init, RowsOK
<1>3. \A j \in Jobs : OutcomeOK(j)
  BY DEF Init, OutcomeOK
<1> QED BY <1>1, <1>2, <1>3 DEF RunsSound

LEMMA WholeStays ==
  ASSUME GenerationAssumption, Grown, NEW j \in Jobs, NEW i \in Rounds, NEW reply \in Replies[i],
         Whole(j, reply)
  PROVE  Whole(j, reply)'
<1>1. \A card \in Range(reply) : Stored[card] \in Cards
  <2>1. reply \in Seq(Cards)
    BY DEF GenerationAssumption
  <2> QED BY <2>1, ReplyFacts DEF GenerationAssumption
<1> QED BY <1>1 DEF Whole, IsRow, Grown

\* While rows are only added, a run stays what it was.
LEMMA FollowsStays ==
  ASSUME GenerationAssumption, GenerationInv, Grown, NEW w \in Workers, NEW f \in Runs,
         Follows(w, f), job'[w] = job[w], run'[w] = run[w], at[w] \in Live,
         at'[w] = "insert" <=> at[w] = "insert"
  PROVE  Follows(w, f)'
<1>1. /\ job[w] \in Jobs /\ MaxCards \in Nat /\ run[w].round \in 1..(MaxCards + 1)
      /\ at[w] = "insert" => run[w].round \in Rounds
  BY DEF GenerationInv, TypeOK, DeliverySound, DeliveryOK, GenerationAssumption
<1>2. Done(w)' = Done(w)
  BY DEF Done
<1>3. \A k \in 1..(run[w].round - 1) : Whole(job[w], f[k])'
  <2> TAKE k \in 1..(run[w].round - 1)
  <2>1. k \in Rounds
    BY <1>1 DEF Rounds
  <2>2. f[k] \in Replies[k] /\ Whole(job[w], f[k])
    BY <2>1, RunFacts DEF Follows
  <2> QED BY <1>1, <2>1, <2>2, WholeStays DEF Whole, IsRow
<1>4. at[w] = "insert" =>
        \A card \in Range(f[run[w].round]) \ run[w].batch : IsRow(job[w], card)'
  <2> SUFFICES ASSUME at[w] = "insert", NEW card \in Range(f[run[w].round]) \ run[w].batch
               PROVE  IsRow(job[w], card)'
    OBVIOUS
  <2>1. Stored[card] \in Cards /\ IsRow(job[w], card)
    BY <1>1, RunFacts DEF Follows, GenerationAssumption
  <2> QED BY <1>1, <2>1 DEF IsRow, Grown
<1> QED BY <1>2, <1>3, <1>4 DEF Follows, Whole, IsRow

LEMMA ComesStays ==
  ASSUME GenerationAssumption, Grown, NEW j \in Jobs, NEW c \in Cards, Comes(j, c)
  PROVE  Comes(j, c)'
<1>1. PICK i \in Rounds : \E reply \in Replies[i] :
        /\ c \in {Stored[d] : d \in Range(reply)} /\ Whole(j, reply)
        /\ \A k \in 1..(i - 1) : \E earlier \in Replies[k] : Whole(j, earlier)
  BY DEF Comes
<1>2. PICK reply \in Replies[i] :
        /\ c \in {Stored[d] : d \in Range(reply)} /\ Whole(j, reply)
        /\ \A k \in 1..(i - 1) : \E earlier \in Replies[k] : Whole(j, earlier)
  BY <1>1
<1>3. Whole(j, reply)'
  BY <1>2, WholeStays
<1>4. \A k \in 1..(i - 1) : \E earlier \in Replies[k] : Whole(j, earlier)'
  <2> TAKE k \in 1..(i - 1)
  <2>1. k \in Rounds
    BY DEF Rounds, GenerationAssumption
  <2>2. PICK earlier \in Replies[k] : Whole(j, earlier)
    BY <1>2
  <2> QED BY <2>1, <2>2, WholeStays
<1> QED BY <1>2, <1>3, <1>4 DEF Comes

\* An outcome other than ready needs counters of zero, and a ready one its rows.
LEMMA OutcomeKept ==
  ASSUME GenerationAssumption, RunsSound, Grown, NEW j \in Jobs,
         \/ status'[j] = status[j] /\ counters'[j] = counters[j]
         \/ /\ status[j] # "ready" /\ status'[j] # "ready"
            /\ counters'[j] \in {counters[j], Counted(0, 0)}
  PROVE  OutcomeOK(j)'
<1>1. CASE status'[j] # "ready"
  BY <1>1 DEF RunsSound, OutcomeOK
<1>2. CASE status'[j] = "ready"
  <2>1. status[j] = "ready" /\ counters'[j] = counters[j]
    BY <1>2
  <2>2. PICK f \in Runs :
          /\ counters[j].total = Cardinality(Given(f))
          /\ counters[j].total + counters[j].duplicates = Answers(f)
          /\ \A card \in Given(f) : IsRow(j, card)
    BY <2>1 DEF RunsSound, OutcomeOK, HasRun
  <2>3. \A card \in Given(f) : Stored[card] \in Cards
    BY RunFacts DEF Given, GenerationAssumption
  <2>4. \A card \in Given(f) : IsRow(j, card)'
    BY <2>2, <2>3 DEF IsRow, Grown
  <2>5. HasRun(j)'
    BY <2>1, <2>2, <2>4 DEF HasRun
  <2> QED BY <1>2, <2>5 DEF OutcomeOK
<1> QED BY <1>1, <1>2

LEMMA FailKeeps ==
  ASSUME GenerationAssumption, TypeOK, RunsSound, Grown, NEW j \in Jobs,
         MarkFinished(j, "failed", 0, 0)
  PROVE  \A i \in Jobs : OutcomeOK(i)'
<1>1. "failed" \in Finished
  BY DEF Finished
<1>2. /\ \A i \in Jobs : i # j => status'[i] = status[i] /\ counters'[i] = counters[i]
      /\ IF status[j] = "running"
         THEN status'[j] = "failed" /\ counters'[j] = Counted(0, 0)
         ELSE status'[j] = status[j] /\ counters'[j] = counters[j]
  BY <1>1, MarkFinishedFacts
<1> QED BY <1>2, OutcomeKept

LEMMA SameGrown == ASSUME UNCHANGED cards PROVE Grown
  BY DEF Grown

LEMMA SameRows ==
  ASSUME RunsSound, UNCHANGED cards
  PROVE  \A j \in Jobs : RowsOK(j)'
  BY DEF RunsSound, RowsOK, Comes, Whole, IsRow

\* A step that stores nothing and takes no run further.
LEMMA CalmKeeps ==
  ASSUME GenerationAssumption, GenerationInv, RunsSound, UNCHANGED <<cards, run, job>>,
         \A w \in Workers : at'[w] \in Live =>
           at[w] \in Live /\ (at'[w] = "insert" <=> at[w] = "insert"),
         \A j \in Jobs : OutcomeOK(j)'
  PROVE  RunsSound'
<1>1. \A w \in Workers : RunOK(w)'
  <2> SUFFICES ASSUME NEW w \in Workers, at'[w] \in Live PROVE \E f \in Runs : Follows(w, f)'
    BY DEF RunOK
  <2>1. PICK f \in Runs : Follows(w, f)
    BY DEF RunsSound, RunOK
  <2> QED BY <2>1, FollowsStays, SameGrown
<1>2. \A j \in Jobs : RowsOK(j)'
  BY SameRows
<1> QED BY <1>1, <1>2 DEF RunsSound

LEMMA ApiRuns ==
  ASSUME GenerationAssumption, GenerationInv, RunsSound, NEW j \in Jobs,
         Api(j) \/ ApiDisturbed(j)
  PROVE  RunsSound'
<1>1. UNCHANGED <<cards, at, job, run>> /\ Grown
  BY SameGrown DEF Api, ApiDisturbed, Create, Enqueue, Rollback, CreateUnconfirmed, EnqueueFails,
     RollbackFails, ApiCrash, rowVars, deliveryVars
<1>2. CASE Create(j) \/ CreateUnconfirmed(j)
  <2>1. /\ status' = [status EXCEPT ![j] = "pending"] /\ counters' = counters
        /\ request[j] = "none"
    BY <1>2 DEF Create, CreateUnconfirmed, ApiStep
  <2>2. status[j] = "absent"
    BY <2>1 DEF GenerationInv, MessageSound
  <2>3. \A i \in Jobs : OutcomeOK(i)'
    BY <1>1, <2>1, <2>2, OutcomeKept DEF GenerationInv, TypeOK
  <2> QED BY <1>1, <2>3, CalmKeeps
<1>3. CASE Rollback(j)
  BY <1>1, <1>3, FailKeeps, CalmKeeps DEF Rollback, GenerationInv
<1>4. CASE Enqueue(j) \/ EnqueueFails(j) \/ RollbackFails(j) \/ ApiCrash(j)
  <2>1. UNCHANGED <<status, counters>>
    BY <1>4 DEF Enqueue, EnqueueFails, RollbackFails, ApiCrash
  <2> QED BY <1>1, <2>1, OutcomeKept, CalmKeeps
<1> QED BY <1>2, <1>3, <1>4 DEF Api, ApiDisturbed

\* A run begins: it has been told nothing.
LEMMA BeginRuns ==
  ASSUME GenerationAssumption, GenerationInv, RunsSound,
         NEW w \in Workers, NEW j \in Jobs, Begin(w, j) \/ BeginLate(w, j)
  PROVE  RunsSound'
<1>1. /\ UNCHANGED <<status, counters, cards>> /\ Grown
      /\ at'[w] = "find" /\ job'[w] = j /\ run'[w] = NewRun
      /\ \A v \in Workers \ {w} : at'[v] = at[v] /\ job'[v] = job[v] /\ run'[v] = run[v]
  BY SameGrown DEF Begin, BeginLate, Take, rowVars, GenerationInv, TypeOK
<1>2. \A v \in Workers : RunOK(v)'
  <2> TAKE v \in Workers
  <2>1. CASE v = w
    <3>1. PICK f : f \in Runs
      BY SomeRun
    <3>2. GivenBy(f, 0) = {} /\ PlacesBy(f, 0) = {}
      BY <3>1, RunFacts
    <3>3. Done(v)' = 0 /\ run'[v].seen = {} /\ run'[v].duplicates = 0 /\ at'[v] # "insert"
      BY <1>1, <2>1 DEF Done, NewRun
    <3>4. 1..(run'[v].round - 1) = {}
      BY <1>1, <2>1 DEF NewRun
    <3>5. IsFiniteSet({}) /\ Cardinality({}) = 0
      BY FS_EmptySet
    <3>6. /\ run'[v].seen = GivenBy(f, Done(v)') /\ IsFiniteSet(PlacesBy(f, Done(v)'))
          /\ Cardinality(run'[v].seen) + run'[v].duplicates = Cardinality(PlacesBy(f, Done(v)'))
      <4>1. GivenBy(f, Done(v)') = {} /\ PlacesBy(f, Done(v)') = {}
        BY <3>2, <3>3
      <4>2. Cardinality(run'[v].seen) = 0 /\ Cardinality(PlacesBy(f, Done(v)')) = 0
        BY <3>3, <3>5, <4>1
      <4>3. IsFiniteSet(PlacesBy(f, Done(v)'))
        BY <3>5, <4>1
      <4> QED BY <3>3, <4>1, <4>2, <4>3
    <3>7. Follows(v, f)'
      BY <3>3, <3>4, <3>6 DEF Follows
    <3> QED BY <3>1, <3>7 DEF RunOK
  <2>2. CASE v # w
    <3> SUFFICES ASSUME at'[v] \in Live PROVE \E f \in Runs : Follows(v, f)'
      BY DEF RunOK
    <3>1. PICK f \in Runs : Follows(v, f)
      BY <1>1, <2>2 DEF RunsSound, RunOK
    <3> QED BY <1>1, <2>2, <3>1, FollowsStays
  <2> QED BY <2>1, <2>2
<1>3. \A i \in Jobs : RowsOK(i)'
  BY <1>1, SameRows
<1>4. \A i \in Jobs : OutcomeOK(i)'
  BY <1>1, OutcomeKept
<1> QED BY <1>2, <1>3, <1>4 DEF RunsSound

\* A delivery that neither asks the model nor stores a batch.
LEMMA HandlerRuns ==
  ASSUME GenerationAssumption, GenerationInv, RunsSound, NEW w \in Workers,
         \/ Quiet(w) \/ Claim(w) \/ ClaimFails(w) \/ FailJob(w)
         \/ Succeed(w) \/ Ack(w) \/ Retry(w)
  PROVE  RunsSound'
<1>1. UNCHANGED <<cards, run, job>> /\ Grown
  BY SameGrown DEF Quiet, Find, Refind, FindFails, GenerateFails, FailJobFails, Crash, SettleFails,
     Claim, ClaimFails, FailJob, Succeed, Ack, Retry, Go, Goto, rowVars, deliveryVars
<1>2. \A v \in Workers : at'[v] \in Live =>
        at[v] \in Live /\ (at'[v] = "insert" <=> at[v] = "insert")
  <2>1. \/ at' = at
        \/ at[w] \in Live \ {"insert"} /\ at' = [at EXCEPT ![w] = "claim"]
        \/ at[w] \in Live \ {"insert"} /\ at' = [at EXCEPT ![w] = "refind"]
        \/ at[w] \in Live \ {"insert"} /\ at' = [at EXCEPT ![w] = "generate"]
        \/ at' = [at EXCEPT ![w] = "ack"]
        \/ at' = [at EXCEPT ![w] = "fail"]
        \/ at' = [at EXCEPT ![w] = "retry"]
        \/ at' = [at EXCEPT ![w] = "idle"]
    BY DEF Quiet, Find, Refind, FindFails, GenerateFails, FailJobFails, Crash, SettleFails,
       Claim, ClaimFails, FailJob, Succeed, Ack, Retry, Go, Goto, deliveryVars, Live
  <2> QED BY <2>1 DEF Live, GenerationInv, TypeOK
<1>3. CASE Claim(w) \/ ClaimFails(w)
  <2>1. job[w] \in Jobs /\ counters' = counters
        /\ (MarkRunning(job[w]) \/ status' = status)
    BY <1>3 DEF Claim, ClaimFails, GenerationInv, TypeOK
  <2>2. \A i \in Jobs : \/ status'[i] = status[i]
                        \/ status[i] # "ready" /\ status'[i] # "ready"
    BY <2>1, MarkRunningFacts DEF GenerationInv
  <2>3. \A i \in Jobs : OutcomeOK(i)'
    BY <1>1, <2>1, <2>2, OutcomeKept
  <2> QED BY <1>1, <1>2, <2>3, CalmKeeps
<1>4. CASE FailJob(w)
  <2>1. job[w] \in Jobs /\ MarkFinished(job[w], "failed", 0, 0)
    BY <1>4 DEF FailJob, GenerationInv, TypeOK
  <2>2. \A i \in Jobs : OutcomeOK(i)'
    BY <1>1, <2>1, FailKeeps DEF GenerationInv
  <2> QED BY <1>1, <1>2, <2>2, CalmKeeps
<1>5. CASE Quiet(w) \/ Succeed(w) \/ Ack(w) \/ Retry(w)
  <2>1. UNCHANGED <<status, counters>>
    BY <1>5 DEF Quiet, Find, Refind, FindFails, GenerateFails, FailJobFails, Crash,
       SettleFails, Succeed, Ack, Retry
  <2> QED BY <1>1, <1>2, <2>1, OutcomeKept, CalmKeeps
<1> QED BY <1>3, <1>4, <1>5

\* After the last round the cards of this run are rows, whatever other runs did.
LEMMA FinishRuns ==
  ASSUME GenerationAssumption, GenerationInv, RunsSound, NEW w \in Workers,
         Finish(w) \/ FinishFails(w)
  PROVE  RunsSound'
<1>j. PICK j \in Jobs : j = job[w]
  BY DEF GenerationInv, TypeOK
<1>t. PICK total, duplicates : total = Cardinality(run[w].seen) /\ duplicates = run[w].duplicates
  OBVIOUS
<1>1. /\ UNCHANGED <<cards, run, job>> /\ Grown
      /\ at[w] = "generate" /\ run[w].round \notin Rounds
      /\ at' = [at EXCEPT ![w] = "ack"] \/ at' = [at EXCEPT ![w] = "retry"]
      /\ MarkFinished(j, "ready", total, duplicates) \/ UNCHANGED <<status, counters>>
  BY <1>j, <1>t, SameGrown DEF Finish, FinishFails, Go, Goto, rowVars
<1>2. /\ run[w].round \in 1..(MaxCards + 1) /\ MaxCards \in Nat
      /\ IsFiniteSet(run[w].seen) /\ duplicates \in Nat
  BY <1>t DEF GenerationInv, TypeOK, DeliverySound, DeliveryOK, GenerationAssumption
<1>3. run[w].round - 1 = MaxCards
  BY <1>1, <1>2 DEF Rounds
<1>4. PICK f \in Runs : Follows(w, f)
  BY <1>1 DEF RunsSound, RunOK, Live
<1>5. run[w].seen = GivenBy(f, MaxCards)
      /\ Cardinality(run[w].seen) + run[w].duplicates = Cardinality(PlacesBy(f, MaxCards))
      /\ \A k \in 1..MaxCards : Whole(j, f[k])
  BY <1>j, <1>1, <1>3, <1>4 DEF Follows, Done
<1>6. /\ total = Cardinality(Given(f)) /\ total + duplicates = Answers(f)
      /\ \A card \in Given(f) : IsRow(j, card)
  <2>1. Given(f) = GivenBy(f, MaxCards) /\ Answers(f) = Cardinality(PlacesBy(f, MaxCards))
    BY <1>4, RunFacts
  <2>2. \A card \in GivenBy(f, MaxCards) : IsRow(j, card)
    BY <1>5 DEF GivenBy, Whole
  <2> QED BY <1>t, <1>5, <2>1, <2>2
<1>7. \A v \in Workers : at'[v] \in Live =>
        at[v] \in Live /\ (at'[v] = "insert" <=> at[v] = "insert")
  BY <1>1 DEF Live, GenerationInv, TypeOK
<1>8. \A i \in Jobs : OutcomeOK(i)'
  <2>1. CASE UNCHANGED <<status, counters>>
    BY <1>1, <2>1, OutcomeKept
  <2>2. CASE MarkFinished(j, "ready", total, duplicates)
    <3>1. total \in Nat /\ "ready" \in Finished
      BY <1>t, <1>2, FS_CardinalityType DEF Finished
    <3>2. /\ \A i \in Jobs : i # j => status'[i] = status[i] /\ counters'[i] = counters[i]
          /\ IF status[j] = "running"
             THEN status'[j] = "ready" /\ counters'[j] = Counted(total, duplicates)
             ELSE status'[j] = status[j] /\ counters'[j] = counters[j]
      BY <1>2, <2>2, <3>1, MarkFinishedFacts DEF GenerationInv
    <3>3. CASE status[j] = "running"
      <4>1. counters'[j].total = total /\ counters'[j].duplicates = duplicates
        BY <3>2, <3>3 DEF Counted
      <4>2. \A card \in Given(f) : IsRow(j, card)'
        BY <1>1, <1>6 DEF IsRow
      <4>3. HasRun(j)'
        BY <1>6, <4>1, <4>2 DEF HasRun
      <4>4. OutcomeOK(j)'
        BY <3>2, <3>3, <4>3 DEF OutcomeOK
      <4> QED BY <1>1, <3>2, <4>4, OutcomeKept
    <3>4. CASE status[j] # "running"
      BY <1>1, <3>2, <3>4, OutcomeKept
    <3> QED BY <3>3, <3>4
  <2> QED BY <1>1, <2>1, <2>2
<1> QED BY <1>1, <1>7, <1>8, CalmKeeps

\* A round is asked for: the run goes on with the reply, whatever it is.
LEMMA GenerateRuns ==
  ASSUME GenerationAssumption, GenerationInv, RunsSound, NEW w \in Workers, Generate(w)
  PROVE  RunsSound'
<1>i. PICK i : i = run[w].round
  OBVIOUS
<1>r. PICK reply \in Replies[i] :
        LET new == Range(reply) \ run[w].seen
        IN  /\ run' = [run EXCEPT ![w] =
                         [round      |-> IF new = {} THEN i + 1 ELSE i,
                          seen       |-> run[w].seen \cup new,
                          duplicates |-> run[w].duplicates + Len(reply) - Cardinality(new),
                          batch      |-> new]]
            /\ Goto(w, IF new = {} THEN "generate" ELSE "insert")
  BY <1>i DEF Generate
<1> DEFINE r == run[w]
           new == Range(reply) \ r.seen
           step == IF new = {} THEN "generate" ELSE "insert"
           next == [round      |-> IF new = {} THEN i + 1 ELSE i,
                    seen       |-> r.seen \cup new,
                    duplicates |-> r.duplicates + Len(reply) - Cardinality(new),
                    batch      |-> new]
<1>1. /\ UNCHANGED <<status, counters, cards, job>> /\ Grown
      /\ at[w] = "generate" /\ i \in Rounds /\ i - 1 \in 0..MaxCards /\ i \in Nat
      /\ job[w] \in Jobs /\ r.duplicates \in Nat /\ r.seen \in SUBSET Cards
      /\ IsFiniteSet(r.seen)
  BY <1>i, SameGrown DEF Generate, Goto, rowVars, GenerationInv, TypeOK, DeliverySound, DeliveryOK,
     GenerationAssumption, Rounds
<1>2. PICK f \in Runs : Follows(w, f)
  BY <1>1 DEF RunsSound, RunOK, Live
<1> DEFINE g == [f EXCEPT ![i] = reply]
<1>3. /\ g \in Runs /\ g[i] = reply
      /\ \A k \in 1..(i - 1) : g[k] = f[k]
      /\ GivenBy(g, i - 1) = GivenBy(f, i - 1)
      /\ PlacesBy(g, i - 1) = PlacesBy(f, i - 1)
  BY <1>1, <1>2, RunGoesOn
<1> HIDE DEF g
<1>4. /\ r.seen = GivenBy(g, i - 1) /\ IsFiniteSet(PlacesBy(g, i - 1))
      /\ Cardinality(r.seen) + r.duplicates = Cardinality(PlacesBy(g, i - 1))
      /\ \A k \in 1..(i - 1) : Whole(job[w], g[k])
  BY <1>i, <1>1, <1>2, <1>3 DEF Follows, Done
<1>5. /\ GivenBy(g, i) = r.seen \cup new /\ IsFiniteSet(PlacesBy(g, i))
      /\ Cardinality(GivenBy(g, i)) + (r.duplicates + Len(reply) - Cardinality(new))
           = Cardinality(PlacesBy(g, i))
  <2>1. PICK duplicates \in Nat : duplicates = r.duplicates
    BY <1>1
  <2>2. /\ g \in Runs /\ i \in Rounds
        /\ IsFiniteSet(GivenBy(g, i - 1)) /\ IsFiniteSet(PlacesBy(g, i - 1))
        /\ Cardinality(GivenBy(g, i - 1)) + duplicates = Cardinality(PlacesBy(g, i - 1))
    BY <1>1, <1>3, <1>4, <2>1
  <2>3. LET added == Range(g[i]) \ GivenBy(g, i - 1)
        IN  /\ GivenBy(g, i) = GivenBy(g, i - 1) \cup added /\ IsFiniteSet(PlacesBy(g, i))
            /\ Cardinality(GivenBy(g, i)) + (duplicates + Len(g[i]) - Cardinality(added))
                 = Cardinality(PlacesBy(g, i))
    BY <2>2, RoundCounted
  <2>4. new = Range(g[i]) \ GivenBy(g, i - 1)
    BY <1>3, <1>4
  <2> HIDE DEF new
  <2> QED BY <1>3, <1>4, <2>1, <2>3, <2>4
<1>6. run' = [run EXCEPT ![w] = next] /\ Goto(w, step)
  BY <1>r
\* A card that is not new was in an earlier reply, and so it is a row.
<1>7. \A card \in Range(reply) \ new : IsRow(job[w], card)
  <2> SUFFICES ASSUME NEW card \in Range(reply), card \in r.seen PROVE IsRow(job[w], card)
    OBVIOUS
  <2>1. PICK k \in 1..(i - 1) : card \in Range(g[k])
    BY <1>4 DEF GivenBy
  <2> QED BY <1>4, <2>1 DEF Whole
<1>8. /\ step = "insert" => next.round = i /\ next.batch \subseteq Range(g[i])
      /\ step = "insert" => \A card \in Range(g[i]) \ next.batch : IsRow(job[w], card)
      /\ \A k \in 1..(next.round - 1) : Whole(job[w], g[k])
      /\ next.seen = GivenBy(g, i)
      /\ next.duplicates = r.duplicates + Len(reply) - Cardinality(new)
      /\ (IF step = "insert" THEN next.round ELSE next.round - 1) = i
  <2>1. CASE new = {}
    <3>1. Whole(job[w], g[i])
      BY <1>3, <1>7, <2>1 DEF Whole
    <3>2. step = "generate" /\ next.round = i + 1
      BY <2>1
    <3>3. \A k \in 1..(next.round - 1) : Whole(job[w], g[k])
      BY <1>1, <1>4, <3>1, <3>2
    <3> QED BY <1>1, <1>5, <3>2, <3>3
  <2>2. CASE new # {}
    <3>1. step = "insert" /\ next.round = i
      BY <2>2
    <3> QED BY <1>3, <1>4, <1>5, <1>7, <3>1
  <2> QED BY <2>1, <2>2
<1> HIDE DEF next, step, new
<1>9. /\ run'[w] = next /\ at'[w] = step
      /\ \A v \in Workers \ {w} : run'[v] = run[v] /\ at'[v] = at[v]
  BY <1>6 DEF Goto, GenerationInv, TypeOK
<1>10. \A v \in Workers : RunOK(v)'
  <2> TAKE v \in Workers
  <2>1. CASE v = w
    <3>1. Done(v)' = i
      BY <1>8, <1>9, <2>1 DEF Done
    <3>2. /\ run'[v].seen = GivenBy(g, Done(v)') /\ IsFiniteSet(PlacesBy(g, Done(v)'))
          /\ Cardinality(run'[v].seen) + run'[v].duplicates = Cardinality(PlacesBy(g, Done(v)'))
      BY <1>5, <1>8, <1>9, <2>1, <3>1
    <3>3. /\ \A k \in 1..(run'[v].round - 1) : Whole(job[v], g[k])'
          /\ at'[v] = "insert" =>
               /\ run'[v].batch \subseteq Range(g[run'[v].round])
               /\ \A card \in Range(g[run'[v].round]) \ run'[v].batch : IsRow(job[v], card)'
      BY <1>1, <1>8, <1>9, <2>1 DEF Whole, IsRow
    <3>4. Follows(v, g)'
      BY <3>2, <3>3 DEF Follows
    <3> QED BY <1>3, <3>4 DEF RunOK
  <2>2. CASE v # w
    <3> SUFFICES ASSUME at'[v] \in Live PROVE \E h \in Runs : Follows(v, h)'
      BY DEF RunOK
    <3>1. PICK h \in Runs : Follows(v, h)
      BY <1>9, <2>2 DEF RunsSound, RunOK
    <3> QED BY <1>1, <1>9, <2>2, <3>1, FollowsStays
  <2> QED BY <2>1, <2>2
<1>11. \A h \in Jobs : RowsOK(h)'
  BY <1>1, SameRows
<1>12. \A h \in Jobs : OutcomeOK(h)'
  BY <1>1, OutcomeKept
<1> QED BY <1>10, <1>11, <1>12 DEF RunsSound

\* Storing what a job lacks of a reply makes the reply whole.
LEMMA StoredWhole ==
  ASSUME GenerationAssumption, TypeOK, \A h \in Jobs : RowsOK(h),
         NEW j \in Jobs, NEW i \in Rounds, NEW reply \in Replies[i],
         NEW new \in SUBSET Range(reply),
         \A card \in Range(reply) \ new : IsRow(j, card),
         InsertBatchWithLinks(j, new, i)
  PROVE  /\ Grown /\ Whole(j, reply)'
         /\ \A h \in Jobs, c \in Cards : cards'[h][c] \in {0, 1}
         /\ \A h \in Jobs, c \in Cards :
              cards'[h][c] # 0 => \/ cards[h][c] # 0
                                  \/ h = j /\ c \in {Stored[d] : d \in Range(reply)}
<1>1. Range(reply) \subseteq Cards
  <2>1. reply \in Seq(Cards)
    BY DEF GenerationAssumption
  <2> QED BY <2>1, ReplyFacts
<1>2. /\ cards'[j] = Upsert(cards[j], new)
      /\ \A h \in Jobs \ {j} : cards'[h] = cards[h]
  BY <1>1, InsertFacts
<1>3. \A h \in Jobs, c \in Cards : cards[h][c] \in {0, 1}
  BY DEF RowsOK
<1>4. \A c \in Cards : cards'[j][c] =
        IF c \in {Stored[d] : d \in new} /\ cards[j][c] = 0 THEN 1 ELSE cards[j][c]
  BY <1>2 DEF Upsert
<1>5. Grown
  BY <1>2, <1>4 DEF Grown
<1>6. Whole(j, reply)'
  <2> SUFFICES ASSUME NEW card \in Range(reply) PROVE cards'[j][Stored[card]] = 1
    BY DEF Whole, IsRow
  <2>1. Stored[card] \in Cards
    BY <1>1 DEF GenerationAssumption
  <2>2. CASE card \in new
    BY <1>3, <1>4, <2>1, <2>2
  <2>3. CASE card \notin new
    BY <1>5, <2>1, <2>3 DEF IsRow, Grown
  <2> QED BY <2>2, <2>3
<1> QED BY <1>2, <1>3, <1>4, <1>5, <1>6

\* A batch is stored, or fails and may have been stored.
LEMMA InsertRuns ==
  ASSUME GenerationAssumption, GenerationInv, RunsSound, NEW w \in Workers,
         Insert(w) \/ InsertFails(w)
  PROVE  RunsSound'
<1>j. PICK j \in Jobs, i \in Rounds : j = job[w] /\ i = run[w].round
  BY DEF GenerationInv, TypeOK, DeliverySound, DeliveryOK, Insert, InsertFails
<1>1. /\ UNCHANGED <<status, counters, job>> /\ at[w] = "insert" /\ i \in Nat
      /\ MaxCards \in Nat
  BY DEF Insert, InsertFails, Go, Goto, GenerationAssumption, Rounds
<1>2. PICK f \in Runs : Follows(w, f)
  BY <1>1 DEF RunsSound, RunOK, Live
<1> DEFINE reply == f[i]
           new == run[w].batch
<1>3. /\ reply \in Replies[i] /\ new \in SUBSET Range(reply)
      /\ \A card \in Range(reply) \ new : IsRow(j, card)
      /\ \A k \in 1..(i - 1) : f[k] \in Replies[k] /\ Whole(j, f[k])
      /\ \A k \in 1..(i - 1) : k \in Rounds
  <2>1. \A k \in 1..(i - 1) : k \in Rounds
    BY <1>1 DEF Rounds
  <2> QED BY <1>j, <1>1, <1>2, <2>1, RunFacts DEF Follows
<1> HIDE DEF reply
<1>4. InsertBatchWithLinks(j, new, i) \/ (UNCHANGED rowVars /\ at' = [at EXCEPT ![w] = "fail"])
  BY <1>j DEF Insert, InsertFails, Go, Goto
<1>5. ASSUME InsertBatchWithLinks(j, new, i)
      PROVE  /\ Grown /\ Whole(j, reply)'
             /\ \A h \in Jobs, c \in Cards : cards'[h][c] \in {0, 1}
             /\ \A h \in Jobs, c \in Cards :
                  cards'[h][c] # 0 => \/ cards[h][c] # 0
                                      \/ h = j /\ c \in {Stored[d] : d \in Range(reply)}
  BY <1>3, <1>5, StoredWhole DEF RunsSound, GenerationInv
<1>6. Grown
  BY <1>4, <1>5, SameGrown DEF rowVars
<1>7. /\ \A v \in Workers \ {w} : run'[v] = run[v] /\ at'[v] = at[v]
      /\ \/ at'[w] = "fail"
         \/ /\ run'[w] = [run[w] EXCEPT !.round = i + 1, !.batch = {}] /\ at'[w] = "generate"
            /\ InsertBatchWithLinks(j, new, i)
  BY <1>j DEF Insert, InsertFails, Go, Goto, GenerationInv, TypeOK
<1>8. \A k \in 1..(i - 1) : Whole(j, f[k])'
  BY <1>3, <1>6, WholeStays
<1>9. \A v \in Workers : RunOK(v)'
  <2> TAKE v \in Workers
  <2>1. CASE v = w
    <3>1. CASE at'[w] = "fail"
      BY <2>1, <3>1 DEF RunOK, Live
    <3>2. CASE at'[w] = "generate"
      <4>1. run[w] \in [round : 1..(MaxCards + 1), seen : SUBSET Cards,
                        duplicates : Nat, batch : SUBSET Cards]
        BY DEF GenerationInv, TypeOK
      <4>2. run'[w] = [run[w] EXCEPT !.round = i + 1, !.batch = {}]
        BY <1>7, <3>2
      <4>3. /\ run'[w].round = i + 1 /\ run'[w].seen = run[w].seen
            /\ run'[w].duplicates = run[w].duplicates
        BY <4>1, <4>2
      <4>4. Done(w)' = i /\ Done(w) = i
        BY <1>j, <1>1, <3>2, <4>3 DEF Done
      <4>5. Whole(j, reply)'
        BY <1>5, <1>7, <3>2
      <4>6. \A k \in 1..i : Whole(j, f[k])'
        <5>1. \A k \in 1..i : k = i \/ k \in 1..(i - 1)
          BY <1>1
        <5> QED BY <1>8, <4>5, <5>1 DEF reply
      <4>7. \A k \in 1..(run'[w].round - 1) : Whole(job[w], f[k])'
        BY <1>j, <1>1, <4>3, <4>6 DEF Whole, IsRow
      <4>8. /\ run'[w].seen = GivenBy(f, i) /\ IsFiniteSet(PlacesBy(f, i))
            /\ Cardinality(run'[w].seen) + run'[w].duplicates = Cardinality(PlacesBy(f, i))
        BY <1>2, <4>3, <4>4 DEF Follows
      <4>9. Follows(w, f)'
        BY <3>2, <4>4, <4>7, <4>8 DEF Follows
      <4> QED BY <2>1, <4>9 DEF RunOK
    <3> QED BY <1>7, <3>1, <3>2
  <2>2. CASE v # w
    <3> SUFFICES ASSUME at'[v] \in Live PROVE \E h \in Runs : Follows(v, h)'
      BY DEF RunOK
    <3>1. PICK h \in Runs : Follows(v, h)
      BY <1>7, <2>2 DEF RunsSound, RunOK
    <3> QED BY <1>1, <1>6, <1>7, <2>2, <3>1, FollowsStays
  <2> QED BY <2>1, <2>2
<1>10. \A h \in Jobs : RowsOK(h)'
  <2>1. CASE InsertBatchWithLinks(j, new, i)
    <3> SUFFICES ASSUME NEW h \in Jobs, NEW c \in Cards, cards'[h][c] # 0
                 PROVE  Comes(h, c)'
      BY <1>5, <2>1 DEF RowsOK
    <3>1. CASE cards[h][c] # 0
      <4>1. Comes(h, c)
        BY <3>1 DEF RunsSound, RowsOK
      <4> QED BY <1>6, <4>1, ComesStays
    <3>2. CASE h = j /\ c \in {Stored[d] : d \in Range(reply)}
      <4>1. /\ reply \in Replies[i] /\ c \in {Stored[d] : d \in Range(reply)}
            /\ Whole(j, reply)'
        BY <1>3, <1>5, <2>1, <3>2
      <4>2. \A k \in 1..(i - 1) : \E earlier \in Replies[k] : Whole(j, earlier)'
        BY <1>3, <1>8
      <4> QED BY <3>2, <4>1, <4>2 DEF Comes
    <3> QED BY <1>5, <2>1, <3>1, <3>2
  <2>2. CASE UNCHANGED rowVars
    BY <2>2, SameRows DEF rowVars
  <2> QED BY <1>4, <2>1, <2>2
<1>11. \A h \in Jobs : OutcomeOK(h)'
  BY <1>1, <1>6, OutcomeKept
<1> QED BY <1>9, <1>10, <1>11 DEF RunsSound

LEMMA StepRuns ==
  ASSUME GenerationAssumption, GenerationInv, RunsSound, [Next]_vars
  PROVE  RunsSound'
<1>1. CASE \E j \in Jobs : Api(j) \/ ApiDisturbed(j)
  BY <1>1, ApiRuns
<1>2. CASE \E w \in Workers, j \in Jobs : Begin(w, j) \/ BeginLate(w, j)
  BY <1>2, BeginRuns
<1>3. CASE \E w \in Workers : Handle(w) \/ HandleDisturbed(w)
  <2>1. PICK w \in Workers : Handle(w) \/ HandleDisturbed(w)
    BY <1>3
  <2>2. CASE \/ Quiet(w) \/ Claim(w) \/ ClaimFails(w) \/ FailJob(w)
             \/ Succeed(w) \/ Ack(w) \/ Retry(w)
    BY <2>2, HandlerRuns
  <2>3. CASE Finish(w) \/ FinishFails(w)
    BY <2>3, FinishRuns
  <2>4. CASE Generate(w)
    BY <2>4, GenerateRuns
  <2>5. CASE Insert(w) \/ InsertFails(w)
    BY <2>5, InsertRuns
  <2> QED BY <2>1, <2>2, <2>3, <2>4, <2>5 DEF Handle, HandleDisturbed, Call, CallFails, Quiet
<1>4. CASE UNCHANGED vars
  <2>1. \A j \in Jobs : OutcomeOK(j)'
    BY <1>4, SameGrown, OutcomeKept DEF vars
  <2> QED BY <1>4, <2>1, CalmKeeps DEF vars
<1> QED BY <1>1, <1>2, <1>3, <1>4 DEF Next

\* Runs of one job may mix, with any replies, and still each keeps its own account
\* and finds its cards in the table.
THEOREM RunsAreSound == Spec => []RunsSound
<1>1. Init => RunsSound
  BY GenerationAssumption, RunsInit
<1>2. GenerationInv /\ RunsSound /\ [Next]_vars => RunsSound'
  BY GenerationAssumption, StepRuns
<1> QED BY <1>1, <1>2, GenerationInvariance, PTL DEF Spec

\* A ready job counts one run and has all its cards (pipeline.go:186-288), whatever
\* the model answers, for any number of rounds, deliveries, faults and attempts.
THEOREM ReadyJobsHaveRun == Spec => []ReadyHasRun
<1>1. RunsSound => ReadyHasRun
  BY DEF RunsSound, OutcomeOK, HasRun, ReadyHasRun
<1> QED BY <1>1, RunsAreSound, PTL

\* Whatever fails, what a job has is made of whole replies from the first round on,
\* and a failed one counts nothing (pipeline.go:270, 299-302).
THEOREM JobsHaveWholeRounds == Spec => []WholeRounds
<1>1. RunsSound => WholeRounds
  <2> SUFFICES ASSUME RunsSound, NEW j \in Jobs
               PROVE  /\ \A c \in Cards : cards[j][c] # 0 => Comes(j, c)
                      /\ status[j] = "failed" => counters[j] = Counted(0, 0)
    BY DEF WholeRounds, Comes
  <2> QED BY DEF RunsSound, RowsOK, OutcomeOK
<1> QED BY <1>1, RunsAreSound, PTL

-----------------------------------------------------------------------------
(* Finished jobs.                                                            *)

\* Who comes to a finished job turns away before the first round.
LEMMA NobodyBegins ==
  ASSUME GenerationAssumption, GenerationInv, [Next]_vars,
         NEW j \in Jobs, status[j] \in Finished, NEW w \in Workers,
         job'[w] = j, at'[w] \in {"generate", "insert"}
  PROVE  job[w] = j /\ at[w] \in {"generate", "insert"}
<1>1. /\ at \in [Workers -> Steps] /\ job \in [Workers -> Jobs]
      /\ status[j] \notin {"pending", "running"}
  BY DEF GenerationInv, TypeOK, Finished
<1>2. CASE UNCHANGED <<at, job>>
  BY <1>2
<1>3. CASE \E v \in Workers, h \in Jobs : Begin(v, h) \/ BeginLate(v, h)
  BY <1>1, <1>3 DEF Begin, BeginLate, Take
<1>4. ASSUME NEW v \in Workers, Handle(v) \/ HandleDisturbed(v), ~UNCHANGED <<at, job>>
      PROVE  job[w] = j /\ at[w] \in {"generate", "insert"}
  <2>1. job' = job /\ (\A u \in Workers \ {v} : at'[u] = at[u])
    BY <1>1, <1>4 DEF Handle, HandleDisturbed, Call, CallFails, Find, Claim, Refind, Generate,
       Insert, Finish, FailJob, Succeed, Ack, Retry, FindFails, ClaimFails, GenerateFails,
       InsertFails, FinishFails, FailJobFails, Crash, SettleFails, Go, Goto, deliveryVars
  <2>2. CASE v # w
    BY <2>1, <2>2
  <2>3. CASE v = w
    <3>1. CASE Claim(v) \/ Refind(v)
      BY <1>1, <2>1, <2>3, <3>1 DEF Claim, Refind, Go, Goto
    <3>2. CASE Generate(v) \/ Insert(v)
      BY <2>1, <2>3, <3>2 DEF Generate, Insert
    <3>3. CASE ~(Claim(v) \/ Refind(v) \/ Generate(v) \/ Insert(v))
      <4>1. at'[v] \in {"ack", "claim", "retry", "fail", "idle"}
        BY <1>1, <1>4, <3>3 DEF Handle, HandleDisturbed, Call, CallFails, Find, Finish, FailJob,
           Succeed, Ack, Retry, FindFails, ClaimFails, GenerateFails, InsertFails, FinishFails,
           FailJobFails, Crash, SettleFails, Go, Goto, deliveryVars
      <4> QED BY <2>3, <4>1
    <3> QED BY <3>1, <3>2, <3>3
  <2> QED BY <2>2, <2>3
<1>5. CASE \E h \in Jobs : Api(h) \/ ApiDisturbed(h)
  BY <1>2, <1>5 DEF Api, ApiDisturbed, Create, Enqueue, Rollback, CreateUnconfirmed,
     EnqueueFails, RollbackFails, ApiCrash, deliveryVars
<1>6. CASE UNCHANGED vars
  BY <1>2, <1>6 DEF vars
<1> QED BY <1>2, <1>3, <1>4, <1>5, <1>6 DEF Next

\* Only a delivery that is storing a job's cards changes them.
LEMMA NobodyElseStores ==
  ASSUME GenerationAssumption, GenerationInv, [Next]_vars, NEW j \in Jobs, Storing(j) = {}
  PROVE  cards'[j] = cards[j] /\ links'[j] = links[j]
<1>1. CASE UNCHANGED rowVars
  BY <1>1 DEF rowVars
<1>2. ASSUME NEW w \in Workers, at[w] = "insert",
             InsertBatchWithLinks(job[w], run[w].batch, run[w].round)
      PROVE  cards'[j] = cards[j] /\ links'[j] = links[j]
  <2>1. job[w] \in Jobs /\ run[w].round \in Rounds /\ run[w].batch \in SUBSET Cards
    BY <1>2 DEF GenerationInv, TypeOK, DeliverySound, DeliveryOK
  <2>2. job[w] # j
    BY <1>2 DEF Storing
  <2> QED BY <1>2, <2>1, <2>2, InsertFacts DEF GenerationInv
<1> QED BY <1>1, <1>2, RowSteps

\* Once a job is finished its deliveries can only end: nobody begins to store, and
\* without those that were at it nothing changes (pipeline.go:147-167).
THEOREM OnlyStragglersStoring == Spec => OnlyStragglersStore
<1>1. GenerationInv /\ [Next]_vars =>
        [\A j \in Jobs : status[j] \in Finished =>
           /\ Storing(j)' \subseteq Storing(j)
           /\ Storing(j) = {} => cards'[j] = cards[j] /\ links'[j] = links[j]]_vars
  <2> SUFFICES ASSUME GenerationInv, Next, NEW j \in Jobs, status[j] \in Finished
               PROVE  /\ Storing(j)' \subseteq Storing(j)
                      /\ Storing(j) = {} => cards'[j] = cards[j] /\ links'[j] = links[j]
    OBVIOUS
  <2>1. Storing(j)' \subseteq Storing(j)
    BY GenerationAssumption, NobodyBegins DEF Storing
  <2>2. Storing(j) = {} => cards'[j] = cards[j] /\ links'[j] = links[j]
    BY GenerationAssumption, NobodyElseStores
  <2> QED BY <2>1, <2>2
<1> QED BY <1>1, GenerationInvariance, PTL DEF Spec, OnlyStragglersStore

=============================================================================
