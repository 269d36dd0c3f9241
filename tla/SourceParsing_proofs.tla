------------------------ MODULE SourceParsing_proofs ------------------------
(***************************************************************************)
(* Proofs about SourceParsing, for any sources, texts, deliveries, attempts*)
(* and number of faults.                                                   *)
(***************************************************************************)
EXTENDS SourceParsing, TLAPS

\* A source goes to `to` if its status is `from` and stays as it is otherwise.
LEMMA UpdateFacts ==
  ASSUME TypeOK, NEW s \in Sources, NEW from, NEW to \in Statuses, UpdateStatus(s, from, to)
  PROVE  /\ status' \in [Sources -> Statuses]
         /\ \A r \in Sources : r # s => status'[r] = status[r]
         /\ status'[s] = (IF status[s] = from THEN to ELSE status[s])
  BY DEF TypeOK, UpdateStatus

\* A batch fills the missing rows of one source, and only those.
LEMMA InsertFacts ==
  ASSUME ParsingAssumption, TypeOK, NEW w \in Workers, NEW s \in Sources, InsertBatch(w, s)
  PROVE  /\ rows' = [r \in Sources |-> rows'[r]]
         /\ \A r \in Sources : rows'[r] \in [Ords(r) -> Workers \cup {Nobody}]
         /\ \A r \in Sources : r # s => rows'[r] = rows[r]
         /\ \A o \in Ords(s) : rows'[s][o] # Nobody
         /\ \A o \in Ords(s) : rows[s][o] # Nobody => rows'[s][o] = rows[s][o]
         /\ \A o \in Ords(s) : rows[s][o] = Nobody => rows'[s][o] = w
<1> DEFINE new == [o \in Ords(s) |-> IF rows[s][o] = Nobody THEN w ELSE rows[s][o]]
<1>1. new \in [Ords(s) -> Workers \cup {Nobody}]
  BY DEF TypeOK, RowsOK
<1>2. /\ \A o \in Ords(s) : new[o] # Nobody
      /\ \A o \in Ords(s) : rows[s][o] # Nobody => new[o] = rows[s][o]
      /\ \A o \in Ords(s) : rows[s][o] = Nobody => new[o] = w
  BY DEF ParsingAssumption
<1>3. rows' = [rows EXCEPT ![s] = new]
  BY DEF InsertBatch
<1> HIDE DEF new
<1>4. rows'[s] = new /\ \A r \in Sources : r # s => rows'[r] = rows[r]
  BY <1>3 DEF TypeOK, RowsOK
<1>5. rows' = [r \in Sources |-> rows'[r]]
  BY <1>3 DEF TypeOK, RowsOK
<1> QED BY <1>1, <1>2, <1>4, <1>5 DEF TypeOK, RowsOK

-----------------------------------------------------------------------------
LEMMA ParsingInit == ParsingAssumption /\ Init => ParsingInv
<1> SUFFICES ASSUME ParsingAssumption, Init PROVE ParsingInv
  OBVIOUS
<1>1. /\ phase = [s \in Sources |-> "absent"] /\ requeues = [s \in Sources |-> 0]
      /\ handled = {}
  BY DEF Init, Queue!Init
<1>2. TypeOK
  <2>1. /\ rows = [s \in Sources |-> rows[s]]
        /\ \A s \in Sources : rows[s] \in [Ords(s) -> Workers \cup {Nobody}]
    BY DEF Init
  <2>2. 0 \in 0..(MaxAttempts - 1) /\ 0 \in 0..MaxFaults
    BY DEF ParsingAssumption
  <2> QED BY <1>1, <2>1, <2>2
      DEF Init, TypeOK, RowsOK, RequestSteps, Statuses, Steps
<1>3. IndexedComplete /\ DeliverySound /\ RowsAtomic
  BY DEF Init, IndexedComplete, DeliverySound, DeliveryOK, RowsAtomic
<1>4. MessageSound
  BY <1>1 DEF Init, MessageSound
<1> QED BY <1>2, <1>3, <1>4 DEF ParsingInv

-----------------------------------------------------------------------------
(* What a step may do to the sources while other deliveries are under way. *)

Moves(old, new) ==
  /\ new \in Statuses
  /\ old # "absent" => new # "absent"
  /\ old \notin {"absent", "uploaded"} => new # "uploaded"
  /\ old \in Settled => new = old

Forward ==
  /\ status' \in [Sources -> Statuses]
  /\ \A r \in Sources : Moves(status[r], status'[r])
  /\ RowsOK'
  /\ \A r \in Sources : \A o \in Ords(r) :
       rows[r][o] # Nobody => rows'[r][o] = rows[r][o]

LEMMA SameIsForward ==
  ASSUME TypeOK, status' = status, rows' = rows
  PROVE  Forward
  BY DEF TypeOK, Forward, Moves, RowsOK, Ords

\* What a delivery knows stays true while sources only move forward.
LEMMA DeliveryStays ==
  ASSUME TypeOK, DeliverySound, Forward, NEW w \in Workers,
         at'[w] \in {at[w], "idle", "retry"}, source'[w] = source[w], at[w] # "idle" \/ at'[w] = "idle"
  PROVE  DeliveryOK(w)'
<1>1. source[w] \in Sources /\ DeliveryOK(w)
  BY DEF TypeOK, DeliverySound
<1>2. Moves(status[source[w]], status'[source[w]])
  BY <1>1 DEF Forward
<1>3. \A o \in Ords(source[w]) :
        rows[source[w]][o] # Nobody => rows'[source[w]][o] = rows[source[w]][o]
  BY <1>1 DEF Forward
<1> QED BY <1>1, <1>2, <1>3 DEF DeliveryOK, Moves, Ords

-----------------------------------------------------------------------------
(* The API. *)

LEMMA ApiKeeps ==
  ASSUME ParsingAssumption, ParsingInv, NEW s \in Sources, Api(s) \/ ApiDisturbed(s)
  PROVE  ParsingInv' /\ Forward
<1> USE DEF ParsingInv
<1>1. /\ UNCHANGED <<rows, at, source, copy>>
      /\ faults' \in 0..MaxFaults
  <2>1. CASE Create(s) \/ Enqueue(s) \/ Rollback(s)
    BY <2>1 DEF Create, Enqueue, Rollback, deliveryVars, TypeOK
  <2>2. CASE CreateUnconfirmed(s) \/ EnqueueFails(s) \/ RollbackFails(s) \/ ApiCrash(s)
    BY <2>2 DEF CreateUnconfirmed, EnqueueFails, RollbackFails, ApiCrash, Fault,
       deliveryVars, TypeOK, ParsingAssumption
  <2> QED BY <2>1, <2>2 DEF Api, ApiDisturbed
<1>r. /\ request' \in [Sources -> RequestSteps]
      /\ \A r \in Sources : r # s => request'[r] = request[r]
  <2>1. \E step \in RequestSteps : request' = [request EXCEPT ![s] = step]
    BY DEF Api, ApiDisturbed, Create, CreateUnconfirmed, Enqueue, EnqueueFails, Rollback,
       RollbackFails, ApiCrash, ApiStep, RequestSteps
  <2> QED BY <2>1 DEF TypeOK
<1>2. /\ status' \in [Sources -> Statuses]
      /\ \A r \in Sources : r # s => status'[r] = status[r]
      /\ \/ status' = status /\ request[s] # "none" /\ request'[s] # "none"
         \/ status[s] = "absent" /\ status'[s] = "uploaded" /\ request'[s] # "none"
         \/ status[s] = "uploaded" /\ status'[s] = "error" /\ request'[s] # "none"
  <2>1. CASE Create(s) \/ CreateUnconfirmed(s)
    BY <2>1 DEF Create, CreateUnconfirmed, ApiStep, TypeOK, Statuses, MessageSound
  <2>2. CASE Rollback(s)
    <3>1. UpdateStatus(s, "uploaded", "error") /\ "error" \in Statuses
      BY <2>2 DEF Rollback, Statuses
    <3> QED BY <2>2, <3>1, UpdateFacts DEF Rollback, ApiStep, TypeOK
  <2>3. CASE Enqueue(s) \/ EnqueueFails(s) \/ RollbackFails(s) \/ ApiCrash(s)
    BY <2>3 DEF Enqueue, EnqueueFails, RollbackFails, ApiCrash, ApiStep, TypeOK
  <2> QED BY <2>1, <2>2, <2>3 DEF Api, ApiDisturbed
<1>3. /\ requeues' = requeues /\ handled' = handled
      /\ phase' \in [Sources -> {"absent", "queued", "done", "dead"}]
      /\ \A r \in Sources : r # s => phase'[r] = phase[r]
      /\ \/ phase'[s] = phase[s]
         \/ /\ phase'[s] = "queued" /\ request[s] = "created"
            /\ request'[s] \in {"accepted", "rollback"}
  BY DEF Api, ApiDisturbed, Create, CreateUnconfirmed, Enqueue, EnqueueFails, Rollback,
     RollbackFails, ApiCrash, ApiStep, ledgerVars, Queue!Submit, TypeOK
<1>4. /\ request'[s] = "accepted" => phase'[s] # "absent"
      /\ request'[s] \in {"none", "created"} => phase'[s] = "absent"
  BY DEF Api, ApiDisturbed, Create, CreateUnconfirmed, Enqueue, EnqueueFails, Rollback,
     RollbackFails, ApiCrash, ApiStep, ledgerVars, Queue!Submit, TypeOK, MessageSound
<1>5. Forward
  BY <1>1, <1>2 DEF Forward, Moves, Statuses, Settled, TypeOK, RowsOK, Ords
<1>6. TypeOK'
  BY <1>1, <1>r, <1>2, <1>3, <1>5 DEF TypeOK, Forward
<1>7. DeliverySound'
  <2> SUFFICES ASSUME NEW w \in Workers PROVE DeliveryOK(w)'
    BY DEF DeliverySound
  <2>1. CASE at[w] # "idle"
    BY <1>1, <1>5, <2>1, DeliveryStays
  <2>2. CASE at[w] = "idle"
    BY <1>1, <2>2 DEF DeliveryOK
  <2> QED BY <2>1, <2>2
<1>8. IndexedComplete' /\ RowsAtomic'
  BY <1>1, <1>2 DEF IndexedComplete, RowsAtomic, Ords
<1>9. MessageSound'
  BY <1>2, <1>3, <1>4, <1>r DEF MessageSound, Settled, TypeOK
<1> QED BY <1>5, <1>6, <1>7, <1>8, <1>9

-----------------------------------------------------------------------------
(* The worker. *)

\* What holds after a step of one delivery follows from what it did to the
\* sources, to its own knowledge and to the messages.
LEMMA WorkerKeeps ==
  ASSUME ParsingAssumption, ParsingInv, Forward, NEW w \in Workers,
         request' = request, faults' \in 0..MaxFaults,
         at' \in [Workers -> Steps], source' \in [Workers -> Sources],
         copy' \in [Workers -> 0..(MaxAttempts - 1)],
         \A v \in Workers \ {w} : at'[v] = at[v] /\ source'[v] = source[v],
         \A r \in Sources : status'[r] = "absent" <=> status[r] = "absent",
         \A r \in Sources : status[r] # "indexed" /\ status'[r] = "indexed" =>
           \A o \in Ords(r) : rows'[r][o] # Nobody,
         RowsAtomic',
         phase' \in [Sources -> {"absent", "queued", "done", "dead"}],
         requeues' \in [Sources -> 0..(MaxAttempts - 1)],
         handled' \subseteq Sources,
         \A r \in Sources : phase'[r] = "absent" <=> phase[r] = "absent",
         \A r \in handled' : status'[r] \in Settled,
         \A r \in Sources : phase'[r] = "done" => r \in handled',
         DeliveryOK(w)'
  PROVE  ParsingInv'
<1> USE DEF ParsingInv
<1>1. TypeOK'
  BY DEF TypeOK, Forward
<1>2. DeliverySound'
  <2> SUFFICES ASSUME NEW v \in Workers, v # w PROVE DeliveryOK(v)'
    BY DEF DeliverySound
  <2>1. at'[v] = at[v] /\ source'[v] = source[v]
    OBVIOUS
  <2>2. CASE at[v] # "idle"
    BY <2>1, <2>2, DeliveryStays
  <2>3. CASE at[v] = "idle"
    BY <2>1, <2>3 DEF DeliveryOK
  <2> QED BY <2>2, <2>3
<1>3. IndexedComplete'
  <2> SUFFICES ASSUME NEW r \in Sources, status'[r] = "indexed", NEW o \in Ords(r), NEW p \in Ords(r)
               PROVE  rows'[r][o] # Nobody /\ rows'[r][o] = rows'[r][p]
    BY DEF IndexedComplete, Ords
  <2>1. rows'[r][o] = rows'[r][p]
    BY DEF RowsAtomic, Ords
  <2>2. CASE status[r] = "indexed"
    BY <2>1, <2>2 DEF IndexedComplete, Forward, Ords
  <2>3. CASE status[r] # "indexed"
    BY <2>1, <2>3
  <2> QED BY <2>2, <2>3
<1>4. MessageSound'
  BY DEF MessageSound
<1> QED BY <1>1, <1>2, <1>3, <1>4

LEMMA BeginKeeps ==
  ASSUME ParsingAssumption, ParsingInv, NEW w \in Workers, NEW s \in Sources,
         Begin(w, s) \/ BeginLate(w, s)
  PROVE  ParsingInv' /\ Forward
<1> USE DEF ParsingInv
<1>0. /\ phase[s] # "absent" /\ faults' \in 0..MaxFaults
      /\ \E c \in 0..requeues[s] : Take(w, s, c)
  BY DEF Begin, BeginLate, Fault, TypeOK, ParsingAssumption
<1>1. /\ UNCHANGED <<request, status, rows, phase, requeues, handled>>
      /\ at' \in [Workers -> Steps] /\ source' \in [Workers -> Sources]
      /\ copy' \in [Workers -> 0..(MaxAttempts - 1)]
      /\ \A v \in Workers \ {w} : at'[v] = at[v] /\ source'[v] = source[v]
  BY <1>0 DEF Take, ledgerVars, TypeOK, Steps, HandlerSteps, ParsingAssumption
<1>2. Forward
  BY <1>1, SameIsForward
<1>3. at'[w] = "find" /\ source'[w] = s /\ status'[s] # "absent"
  BY <1>0 DEF Take, TypeOK, MessageSound
<1>4. DeliveryOK(w)'
  BY <1>3 DEF DeliveryOK
<1>5. RowsAtomic'
  BY <1>1 DEF RowsAtomic, Ords
<1>6. /\ \A r \in handled' : status'[r] \in Settled
      /\ \A r \in Sources : phase'[r] = "done" => r \in handled'
  BY <1>1 DEF MessageSound, TypeOK, Settled
<1> QED BY <1>0, <1>1, <1>2, <1>4, <1>5, <1>6, WorkerKeeps DEF TypeOK

-----------------------------------------------------------------------------
(* Steps of a delivery that leave the messages alone. *)

\* The delivery goes to another step of the handler; what is left to show of it
\* is about the sources and its own knowledge.
LEMMA HandlerKeeps ==
  ASSUME ParsingAssumption, ParsingInv, Forward, NEW w \in Workers, NEW step \in Steps,
         Go(w, step), UNCHANGED <<request, ledgerVars>>, faults' \in 0..MaxFaults,
         \A r \in Sources : status'[r] = "absent" <=> status[r] = "absent",
         \A r \in Sources : status[r] # "indexed" /\ status'[r] = "indexed" =>
           \A o \in Ords(r) : rows'[r][o] # Nobody,
         RowsAtomic',
         DeliveryOK(w)'
  PROVE  ParsingInv'
<1> USE DEF ParsingInv
<1>1. /\ at' \in [Workers -> Steps] /\ source' \in [Workers -> Sources]
      /\ copy' \in [Workers -> 0..(MaxAttempts - 1)]
      /\ \A v \in Workers \ {w} : at'[v] = at[v] /\ source'[v] = source[v]
  BY DEF Go, TypeOK
<1>2. UNCHANGED <<phase, requeues, handled>>
  BY DEF ledgerVars
<1>3. \A r \in handled' : status'[r] \in Settled
  BY <1>2 DEF MessageSound, Forward, Moves, TypeOK, Settled
<1>4. \A r \in Sources : phase'[r] = "done" => r \in handled'
  BY <1>2 DEF MessageSound
<1> QED BY <1>1, <1>2, <1>3, <1>4, WorkerKeeps DEF TypeOK

\* A delivery that goes on without a write knows no less than before.
LEMMA QuietKeeps ==
  ASSUME ParsingAssumption, ParsingInv, NEW w \in Workers, NEW step \in Steps,
         Go(w, step), UNCHANGED <<request, status, rows, ledgerVars>>,
         faults' \in 0..MaxFaults, DeliveryOK(w)'
  PROVE  ParsingInv' /\ Forward
<1> USE DEF ParsingInv
<1>1. Forward
  BY SameIsForward
<1>2. RowsAtomic'
  BY DEF RowsAtomic, Ords
<1> QED BY <1>1, <1>2, HandlerKeeps

Quiet(w) ==
  \/ Find(w) \/ Refind(w) \/ Prepare(w) \/ Confirm(w) \/ MarkErrorFails(w)
  \/ FindFails(w) \/ PrepareFails(w) \/ Crash(w) \/ SettleFails(w)

LEMMA QuietSteps ==
  ASSUME ParsingAssumption, ParsingInv, NEW w \in Workers, Quiet(w)
  PROVE  ParsingInv' /\ Forward
<1> DEFINE s == source[w]
<1> USE DEF ParsingInv
<1>1. UNCHANGED <<request, status, rows, ledgerVars>> /\ faults' \in 0..MaxFaults
  <2>1. CASE Find(w) \/ Refind(w) \/ Prepare(w) \/ Confirm(w)
    BY <2>1 DEF Find, Refind, Prepare, Confirm, TypeOK
  <2>2. CASE \/ MarkErrorFails(w) \/ FindFails(w) \/ PrepareFails(w)
             \/ Crash(w) \/ SettleFails(w)
    BY <2>2 DEF MarkErrorFails, FindFails, PrepareFails, Crash, SettleFails, Fault,
       TypeOK, ParsingAssumption
  <2> QED BY <2>1, <2>2 DEF Quiet
<1>2. s \in Sources /\ DeliveryOK(w) /\ status[s] \in Statuses
  BY DEF TypeOK, DeliverySound
<1>3. \E step \in Steps :
        /\ Go(w, step)
        /\ at[w] # "idle"
        /\ \/ step \in {"idle", "retry"}
           \/ step = "claim"
           \/ step \in {"prepare", "insert", "fail"} /\ status[s] # "uploaded"
           \/ step = "ack" /\ status[s] \in Settled
  <2>1. CASE Find(w)
    BY <2>1 DEF Find, Steps, HandlerSteps, Settled
  <2>2. CASE Refind(w)
    BY <1>2, <2>2 DEF Refind, Steps, HandlerSteps, Settled, Statuses, DeliveryOK
  <2>3. CASE Prepare(w) \/ Confirm(w) \/ PrepareFails(w)
    BY <1>2, <2>3 DEF Prepare, Confirm, PrepareFails, Steps, HandlerSteps, DeliveryOK
  <2>4. CASE MarkErrorFails(w) \/ FindFails(w) \/ Crash(w) \/ SettleFails(w)
    BY <2>4 DEF MarkErrorFails, FindFails, Crash, SettleFails, Steps, HandlerSteps
  <2> QED BY <2>1, <2>2, <2>3, <2>4 DEF Quiet
<1>4. PICK step \in Steps :
        /\ Go(w, step)
        /\ at[w] # "idle"
        /\ \/ step \in {"idle", "retry"}
           \/ step = "claim"
           \/ step \in {"prepare", "insert", "fail"} /\ status[s] # "uploaded"
           \/ step = "ack" /\ status[s] \in Settled
  BY <1>3
<1>5. at'[w] = step /\ source'[w] = s /\ status' = status
  BY <1>1, <1>4 DEF Go, TypeOK
<1>6. status[s] # "absent"
  BY <1>2, <1>4 DEF DeliveryOK
<1>7. DeliveryOK(w)'
  BY <1>4, <1>5, <1>6 DEF DeliveryOK
<1> QED BY <1>1, <1>4, <1>7, QuietKeeps

\* The three updates the handler makes, whether or not they find the status they expect.
Updates == {<<"uploaded", "parsed">>, <<"parsed", "indexed">>, <<"parsed", "error">>}

LEMMA UpdateIsForward ==
  ASSUME ParsingAssumption, ParsingInv, NEW s \in Sources, NEW from, NEW to,
         <<from, to>> \in Updates, UpdateStatus(s, from, to) \/ UNCHANGED status, rows' = rows
  PROVE  /\ Forward
         /\ RowsAtomic'
         /\ \A r \in Sources : status'[r] = "absent" <=> status[r] = "absent"
         /\ \A r \in Sources : r # s => status'[r] = status[r]
         /\ status'[s] = status[s] \/ (status[s] = from /\ status'[s] = to)
<1> USE DEF ParsingInv
<1>1. /\ from \in {"uploaded", "parsed"} /\ to \in Statuses \ {"absent", "uploaded"}
  BY DEF Updates, Statuses
<1>2. /\ status' \in [Sources -> Statuses]
      /\ \A r \in Sources : r # s => status'[r] = status[r]
      /\ status'[s] = status[s] \/ (status[s] = from /\ status'[s] = to)
  <2>1. CASE UpdateStatus(s, from, to)
    BY <1>1, <2>1, UpdateFacts
  <2>2. CASE UNCHANGED status
    BY <2>2 DEF TypeOK
  <2> QED BY <2>1, <2>2
<1>3. \A r \in Sources : Moves(status[r], status'[r])
  BY <1>1, <1>2 DEF Moves, Settled, TypeOK
<1>4. Forward
  BY <1>2, <1>3 DEF Forward, TypeOK, RowsOK, Ords
<1>5. RowsAtomic'
  BY DEF RowsAtomic, Ords
<1>6. \A r \in Sources : status'[r] = "absent" <=> status[r] = "absent"
  BY <1>1, <1>2
<1> QED BY <1>2, <1>4, <1>5, <1>6

LEMMA UpdateSteps ==
  ASSUME ParsingAssumption, ParsingInv, NEW w \in Workers,
         \/ Claim(w) \/ ClaimFails(w) \/ Finish(w) \/ FinishFails(w) \/ MarkError(w)
  PROVE  ParsingInv' /\ Forward
<1> DEFINE s == source[w]
<1> USE DEF ParsingInv
<1>1. s \in Sources /\ DeliveryOK(w) /\ status[s] \in Statuses
  BY DEF TypeOK, DeliverySound
<1>2. UNCHANGED <<request, rows, ledgerVars>> /\ faults' \in 0..MaxFaults
  <2>1. CASE Claim(w) \/ Finish(w) \/ MarkError(w)
    BY <2>1 DEF Claim, Finish, MarkError, TypeOK
  <2>2. CASE ClaimFails(w) \/ FinishFails(w)
    BY <2>2 DEF ClaimFails, FinishFails, Fault, TypeOK, ParsingAssumption
  <2> QED BY <2>1, <2>2
<1>3. CASE Claim(w) \/ ClaimFails(w)
  <2>1. PICK step \in Steps :
          /\ Go(w, step) /\ at[w] = "claim"
          /\ UpdateStatus(s, "uploaded", "parsed") \/ UNCHANGED status
          /\ \/ step = "retry"
             \/ step \in {"prepare", "refind"} /\ UpdateStatus(s, "uploaded", "parsed")
    BY <1>3 DEF Claim, ClaimFails, Steps, HandlerSteps
  <2>2. <<"uploaded", "parsed">> \in Updates
    BY DEF Updates
  <2>3. /\ Forward /\ RowsAtomic'
        /\ \A r \in Sources : status'[r] = "absent" <=> status[r] = "absent"
        /\ \A r \in Sources : r # s => status'[r] = status[r]
        /\ status'[s] = status[s] \/ (status[s] = "uploaded" /\ status'[s] = "parsed")
    BY <1>1, <1>2, <2>1, <2>2, UpdateIsForward
  <2>4. UpdateStatus(s, "uploaded", "parsed") => status'[s] # "uploaded"
    BY <1>1, UpdateFacts DEF Statuses
  <2>5. at'[w] = step /\ source'[w] = s
    BY <2>1 DEF Go, TypeOK
  <2>6. status'[s] # "absent"
    BY <1>1, <2>1, <2>3 DEF DeliveryOK
  <2>7. DeliveryOK(w)'
    BY <2>1, <2>4, <2>5, <2>6 DEF DeliveryOK
  <2>8. \A r \in Sources : status[r] # "indexed" /\ status'[r] = "indexed" =>
          \A o \in Ords(r) : rows'[r][o] # Nobody
    BY <2>3
  <2> QED BY <1>2, <2>1, <2>3, <2>7, <2>8, HandlerKeeps
<1>4. CASE Finish(w) \/ FinishFails(w)
  <2>1. PICK step \in Steps :
          /\ Go(w, step) /\ at[w] = "finish"
          /\ UpdateStatus(s, "parsed", "indexed") \/ UNCHANGED status
          /\ \/ step = "retry"
             \/ step \in {"ack", "confirm"} /\ UpdateStatus(s, "parsed", "indexed")
    BY <1>4 DEF Finish, FinishFails, Steps, HandlerSteps
  <2>2. <<"parsed", "indexed">> \in Updates
    BY DEF Updates
  <2>3. /\ Forward /\ RowsAtomic'
        /\ \A r \in Sources : status'[r] = "absent" <=> status[r] = "absent"
        /\ \A r \in Sources : r # s => status'[r] = status[r]
        /\ status'[s] = status[s] \/ (status[s] = "parsed" /\ status'[s] = "indexed")
    BY <1>1, <1>2, <2>1, <2>2, UpdateIsForward
  <2>4. UpdateStatus(s, "parsed", "indexed") => status'[s] \in Settled
    <3>1. UpdateStatus(s, "parsed", "indexed") =>
            status'[s] = (IF status[s] = "parsed" THEN "indexed" ELSE status[s])
      BY <1>1, UpdateFacts DEF Statuses
    <3> QED BY <1>1, <2>1, <3>1 DEF DeliveryOK, Statuses, Settled
  <2>5. at'[w] = step /\ source'[w] = s
    BY <2>1 DEF Go, TypeOK
  <2>6. status'[s] # "absent"
    BY <1>1, <2>1, <2>3 DEF DeliveryOK
  <2>7. DeliveryOK(w)'
    BY <2>1, <2>4, <2>5, <2>6 DEF DeliveryOK
  <2>8. \A r \in Sources : status[r] # "indexed" /\ status'[r] = "indexed" =>
          \A o \in Ords(r) : rows'[r][o] # Nobody
    BY <1>1, <1>2, <2>1, <2>3 DEF DeliveryOK, Ords
  <2> QED BY <1>2, <2>1, <2>3, <2>7, <2>8, HandlerKeeps
<1>5. CASE MarkError(w)
  <2>1. /\ Go(w, "retry") /\ at[w] = "fail" /\ UpdateStatus(s, "parsed", "error")
        /\ "retry" \in Steps /\ <<"parsed", "error">> \in Updates
    BY <1>5 DEF MarkError, Steps, HandlerSteps, Updates
  <2>3. /\ Forward /\ RowsAtomic'
        /\ \A r \in Sources : status'[r] = "absent" <=> status[r] = "absent"
        /\ \A r \in Sources : r # s => status'[r] = status[r]
        /\ status'[s] = status[s] \/ (status[s] = "parsed" /\ status'[s] = "error")
    BY <1>1, <1>2, <2>1, UpdateIsForward
  <2>5. at'[w] = "retry" /\ source'[w] = s
    BY <2>1 DEF Go, TypeOK
  <2>6. status'[s] # "absent"
    BY <1>1, <2>1, <2>3 DEF DeliveryOK
  <2>7. DeliveryOK(w)'
    BY <2>5, <2>6 DEF DeliveryOK
  <2>8. \A r \in Sources : status[r] # "indexed" /\ status'[r] = "indexed" =>
          \A o \in Ords(r) : rows'[r][o] # Nobody
    BY <2>3
  <2> QED BY <1>2, <2>1, <2>3, <2>7, <2>8, HandlerKeeps
<1> QED BY <1>3, <1>4, <1>5

LEMMA InsertSteps ==
  ASSUME ParsingAssumption, ParsingInv, NEW w \in Workers, Insert(w) \/ InsertFails(w)
  PROVE  ParsingInv' /\ Forward
<1> DEFINE s == source[w]
<1> USE DEF ParsingInv
<1>1. s \in Sources /\ DeliveryOK(w)
  BY DEF TypeOK, DeliverySound
<1>2. UNCHANGED <<request, status, ledgerVars>> /\ faults' \in 0..MaxFaults
  BY DEF Insert, InsertFails, Fault, TypeOK, ParsingAssumption
<1>3. PICK step \in Steps :
        /\ Go(w, step) /\ at[w] = "insert"
        /\ \/ step = "fail" /\ (InsertBatch(w, s) \/ UNCHANGED rows)
           \/ step = "finish" /\ InsertBatch(w, s)
  BY DEF Insert, InsertFails, Steps, HandlerSteps
<1>4. /\ Forward /\ RowsAtomic'
      /\ step = "finish" => \A o \in Ords(s) : rows'[s][o] # Nobody
  <2>1. CASE InsertBatch(w, s)
    <3>1. /\ RowsOK'
          /\ \A r \in Sources : r # s => rows'[r] = rows[r]
          /\ \A o \in Ords(s) : rows'[s][o] # Nobody
          /\ \A o \in Ords(s) : rows[s][o] # Nobody => rows'[s][o] = rows[s][o]
          /\ \A o \in Ords(s) : rows[s][o] = Nobody => rows'[s][o] = w
      BY <1>1, <2>1, InsertFacts DEF RowsOK, Ords
    <3>2. Forward
      BY <1>2, <3>1 DEF Forward, Moves, TypeOK, Ords
    <3>3. RowsAtomic'
      <4> SUFFICES ASSUME NEW r \in Sources, NEW o \in Ords(r), NEW p \in Ords(r)
                   PROVE  rows'[r][o] = rows'[r][p]
        BY DEF RowsAtomic, Ords
      <4>1. rows[r][o] = rows[r][p]
        BY DEF RowsAtomic
      <4> QED BY <3>1, <4>1
    <3> QED BY <3>1, <3>2, <3>3
  <2>2. CASE UNCHANGED rows /\ step = "fail"
    BY <1>2, <2>2, SameIsForward DEF RowsAtomic, Ords
  <2> QED BY <1>3, <2>1, <2>2
<1>5. at'[w] = step /\ source'[w] = s
  BY <1>3 DEF Go, TypeOK
<1>6. DeliveryOK(w)'
  BY <1>1, <1>2, <1>3, <1>4, <1>5 DEF DeliveryOK, Ords
<1> QED BY <1>2, <1>3, <1>4, <1>6, HandlerKeeps

-----------------------------------------------------------------------------
(* Settling the message. *)

LEMMA SettleSteps ==
  ASSUME ParsingAssumption, ParsingInv, NEW w \in Workers, Succeed(w) \/ Ack(w) \/ Retry(w)
  PROVE  ParsingInv' /\ Forward
<1> DEFINE s == source[w]
<1> USE DEF ParsingInv
<1>1. s \in Sources /\ DeliveryOK(w)
  BY DEF TypeOK, DeliverySound
<1>2. /\ UNCHANGED <<request, status, rows, faults, source, copy>>
      /\ at[w] # "idle"
      /\ at' = at \/ at' = [at EXCEPT ![w] = "idle"]
  BY DEF Succeed, Ack, Retry, Go, deliveryVars
<1>3. Forward /\ RowsAtomic'
  BY <1>2, SameIsForward DEF RowsAtomic, Ords
<1>4. /\ at' \in [Workers -> Steps]
      /\ \A v \in Workers \ {w} : at'[v] = at[v]
      /\ at'[w] \in {at[w], "idle"}
  BY <1>2 DEF TypeOK, Steps
<1>5. DeliveryOK(w)'
  BY <1>2, <1>3, <1>4, DeliveryStays
<1>6. /\ phase' \in [Sources -> {"absent", "queued", "done", "dead"}]
      /\ requeues' \in [Sources -> 0..(MaxAttempts - 1)]
      /\ handled' \subseteq Sources
      /\ \A r \in Sources : phase'[r] = "absent" <=> phase[r] = "absent"
      /\ \A r \in handled' : r \in handled \/ status[r] \in Settled
      /\ \A r \in Sources : phase'[r] = "done" => r \in handled'
  <2>1. CASE UNCHANGED ledgerVars
    BY <2>1 DEF ledgerVars, TypeOK, MessageSound
  <2>2. CASE Succeed(w)
    BY <1>1, <2>2 DEF Succeed, Queue!Succeed, TypeOK, MessageSound, DeliveryOK
  <2>3. CASE Queue!Complete(s)
    BY <1>1, <2>3 DEF Queue!Complete, TypeOK, MessageSound
  <2>4. CASE Queue!Requeue(s)
    <3>1. /\ requeues[s] \in 0..(MaxAttempts - 1) /\ requeues[s] + 1 < MaxAttempts
          /\ requeues' = [requeues EXCEPT ![s] = requeues[s] + 1]
      BY <1>1, <2>4 DEF Queue!Requeue, TypeOK
    <3>2. requeues[s] + 1 \in 0..(MaxAttempts - 1)
      BY <3>1 DEF ParsingAssumption
    <3> QED BY <2>4, <3>1, <3>2 DEF Queue!Requeue, TypeOK, MessageSound
  <2>5. CASE Queue!Bury(s)
    BY <1>1, <2>5 DEF Queue!Bury, TypeOK, MessageSound
  <2> QED BY <2>1, <2>2, <2>3, <2>4, <2>5 DEF Succeed, Ack, Retry
<1>7. \A r \in handled' : status'[r] \in Settled
  BY <1>2, <1>6 DEF MessageSound, TypeOK
<1> QED BY <1>2, <1>3, <1>4, <1>5, <1>6, <1>7, WorkerKeeps DEF TypeOK

-----------------------------------------------------------------------------
(* Every step. *)

LEMMA StepKeeps ==
  ASSUME ParsingAssumption, ParsingInv, Next
  PROVE  ParsingInv' /\ Forward
<1>1. CASE \E s \in Sources : Api(s) \/ ApiDisturbed(s)
  BY <1>1, ApiKeeps
<1>2. CASE \E w \in Workers, s \in Sources : Begin(w, s) \/ BeginLate(w, s)
  BY <1>2, BeginKeeps
<1>3. CASE \E w \in Workers : Handle(w) \/ HandleDisturbed(w)
  <2>1. PICK w \in Workers : Handle(w) \/ HandleDisturbed(w)
    BY <1>3
  <2>2. CASE Quiet(w)
    BY <2>2, QuietSteps
  <2>3. CASE \/ Claim(w) \/ ClaimFails(w) \/ Finish(w) \/ FinishFails(w) \/ MarkError(w)
    BY <2>3, UpdateSteps
  <2>4. CASE Insert(w) \/ InsertFails(w)
    BY <2>4, InsertSteps
  <2>5. CASE Succeed(w) \/ Ack(w) \/ Retry(w)
    BY <2>5, SettleSteps
  <2> QED BY <2>1, <2>2, <2>3, <2>4, <2>5 DEF Handle, HandleDisturbed, Call, CallFails,
                                                  Quiet
<1> QED BY <1>1, <1>2, <1>3 DEF Next

LEMMA StutterKeeps ==
  ASSUME ParsingInv, UNCHANGED vars
  PROVE  ParsingInv' /\ Forward
<1>1. ParsingInv'
  <2>1. TypeOK'
    BY DEF vars, ParsingInv, TypeOK, RowsOK, Ords
  <2>2. DeliverySound'
    BY DEF vars, ParsingInv, DeliverySound, DeliveryOK, Ords
  <2>3. IndexedComplete' /\ RowsAtomic' /\ MessageSound'
    BY DEF vars, ParsingInv, IndexedComplete, RowsAtomic, MessageSound, Ords
  <2> QED BY <2>1, <2>2, <2>3 DEF ParsingInv
<1>2. Forward
  BY SameIsForward DEF vars, ParsingInv
<1> QED BY <1>1, <1>2

\* The inductive invariant holds in every reachable state: what each delivery
\* has learnt of its source stays true under all the others' steps.
THEOREM ParsingInvariance == Spec => []ParsingInv
<1>1. Init => ParsingInv
  BY ParsingAssumption, ParsingInit
<1>2. ParsingInv /\ [Next]_vars => ParsingInv'
  BY ParsingAssumption, StepKeeps, StutterKeeps
<1> QED BY <1>1, <1>2, PTL DEF Spec

\* TypeOK of SourceParsing, for any number of sources and deliveries.
THEOREM ParsingTypes == Spec => []TypeOK
<1>1. ParsingInv => TypeOK
  BY DEF ParsingInv
<1> QED BY <1>1, ParsingInvariance, PTL

\* An indexed source has all its chunks, from one delivery (pipeline.go:105-110).
THEOREM IndexedSourcesComplete == Spec => []IndexedComplete
<1>1. ParsingInv => IndexedComplete
  BY DEF ParsingInv
<1> QED BY <1>1, ParsingInvariance, PTL

\* No handler run returns nil on a source that is still on its way, so such a
\* source keeps its message (pipeline.go:55-57).
THEOREM SourcesNotForgotten == Spec => []NotForgotten
<1>1. ParsingInv => NotForgotten
  <2> SUFFICES ASSUME ParsingInv, NEW s \in Sources, status[s] \in {"uploaded", "parsed"},
                      phase[s] \notin {"queued", "dead"}
               PROVE  \/ request[s] \in {"created", "rollback"}
                      \/ phase[s] = "absent" /\ request[s] \in {"rejected", "abandoned"}
    BY DEF NotForgotten
  <2>1. phase[s] = "absent"
    BY DEF ParsingInv, TypeOK, MessageSound, Settled
  <2> QED BY <2>1 DEF ParsingInv, TypeOK, MessageSound, RequestSteps
<1> QED BY <1>1, ParsingInvariance, PTL

\* No step of any actor takes an indexed or failed source back (postgres/sources.go:61-67).
THEOREM SourceOutcomesFinal == Spec => OutcomeFinal
<1>1. ParsingInv /\ [Next]_vars =>
        [\A s \in Sources : status[s] \in Settled => status'[s] = status[s]]_vars
  <2> SUFFICES ASSUME ParsingInv, Next
               PROVE  \A s \in Sources : status[s] \in Settled => status'[s] = status[s]
    OBVIOUS
  <2>1. Forward
    BY ParsingAssumption, StepKeeps
  <2> QED BY <2>1 DEF Forward, Moves
<1> QED BY <1>1, ParsingInvariance, PTL DEF Spec, OutcomeFinal

\* A late insert of another delivery leaves the chunks of an indexed source as
\* they are (postgres/chunks.go:15-35).
THEOREM IndexedChunksFrozen == Spec => ChunksFrozen
<1>1. ParsingInv /\ [Next]_vars =>
        [\A s \in Sources : status[s] = "indexed" => rows'[s] = rows[s]]_vars
  <2> SUFFICES ASSUME ParsingInv, Next, NEW s \in Sources, status[s] = "indexed"
               PROVE  rows'[s] = rows[s]
    OBVIOUS
  <2>1. Forward
    BY ParsingAssumption, StepKeeps
  <2>2. /\ rows[s] \in [Ords(s) -> Workers \cup {Nobody}]
        /\ rows'[s] \in [Ords(s) -> Workers \cup {Nobody}]
    BY <2>1 DEF ParsingInv, TypeOK, RowsOK, Forward, Ords
  <2>3. \A o \in Ords(s) : rows'[s][o] = rows[s][o]
    BY <2>1 DEF ParsingInv, IndexedComplete, Forward
  <2> QED BY <2>2, <2>3
<1> QED BY <1>1, ParsingInvariance, PTL DEF Spec, ChunksFrozen
=============================================================================
