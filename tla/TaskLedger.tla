----------------------------- MODULE TaskLedger -----------------------------
(***************************************************************************)
(* What the queue promises of each task, without streams, groups, pending  *)
(* entries or workers: at-least-once handling with a bounded number of     *)
(* requeues and a dead-letter state (README "Retry и DLQ",                 *)
(* internal/infra/redisq/queue.go:265-270).                                *)
(***************************************************************************)
EXTENDS Naturals

CONSTANTS Tasks, MaxAttempts, Outcomes

VARIABLES phase,     \* absent, queued, done or dead
          requeues,  \* how often a retry put it back into the stream
          handled    \* tasks with a run of the handler that returned nil

ledger == <<phase, requeues, handled>>

Init ==
  /\ phase    = [t \in Tasks |-> "absent"]
  /\ requeues = [t \in Tasks |-> 0]
  /\ handled  = {}

Submit(t) ==
  /\ phase[t] = "absent"
  /\ phase' = [phase EXCEPT ![t] = "queued"]
  /\ UNCHANGED <<requeues, handled>>

\* A late copy may be handled after the task is settled (at-least-once).
Succeed(t) ==
  /\ "ok" \in Outcomes
  /\ phase[t] # "absent"
  /\ handled' = handled \cup {t}
  /\ UNCHANGED <<phase, requeues>>

\* Acknowledged, which takes a success.
Complete(t) ==
  /\ phase[t] = "queued" /\ t \in handled
  /\ phase' = [phase EXCEPT ![t] = "done"]
  /\ UNCHANGED <<requeues, handled>>

\* (a mistake: nobody counts)
RequeueForever(t) ==
  /\ phase[t] = "queued"
  /\ requeues' = [requeues EXCEPT ![t] = @ + 1]
  /\ UNCHANGED <<phase, handled>>

Requeue(t) ==
  /\ phase[t] = "queued" /\ requeues[t] + 1 < MaxAttempts
  /\ requeues' = [requeues EXCEPT ![t] = @ + 1]
  /\ UNCHANGED <<phase, handled>>

\* Moved to the DLQ: a permanent error, or the attempts are used up.
Bury(t) ==
  /\ phase[t] = "queued"
  /\ "permanent" \in Outcomes \/ requeues[t] + 1 = MaxAttempts
  /\ phase' = [phase EXCEPT ![t] = "dead"]
  /\ UNCHANGED <<requeues, handled>>

Next == \E t \in Tasks :
          Submit(t) \/ Succeed(t) \/ Complete(t) \/ Requeue(t) \/ Bury(t)

Spec == Init /\ [][Next]_ledger
=============================================================================
