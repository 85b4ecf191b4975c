----------------------------- MODULE QueueRecovery -----------------------------
(***************************************************************************)
(* Queue recovery: what becomes of a Work whose messages use up their      *)
(* retries, and the bounded, automatic second chance it is given           *)
(*                                                                         *)
(* All messages here are of one Work (a stable operation of one            *)
(* generation).  The main consumer runs it under the lease of its cursor.  *)
(* A message that fails permanently has its Work marked terminal; one that *)
(* fails too often is moved by the Queue to the dead letter queue, whose   *)
(* consumer marks the Work terminal, keeps the evidence (dead letter,      *)
(* metadata, alert), claims the incident within the budget of the Work,    *)
(* revives the Work, sends its message again and marks it as queued.  Once *)
(* the Work is complete the main consumer closes its claimed incidents.    *)
(* Every statement to D1 is a step of its own; deliveries repeat, calls    *)
(* fail, Workers die, consumers overlap.                                   *)
(*                                                                         *)
(* The incident of message m is dlq:m.  What a run does is reduced to how  *)
(* it ends; ResumableWork and SyncLease have the detail.                   *)
(***************************************************************************)
EXTENDS Naturals, FiniteSets

CONSTANTS
    Worker,         \* consumers that run at the same time
    None,           \* no Worker
    Messages,       \* bound: messages ever sent, the request being number 1
    MaxRecoveries,  \* MKT_QUEUE_AUTO_RECOVERY_MAX_ATTEMPTS
    MainTries,      \* deliveries of the main queue before it gives up
    DeadTries,      \* deliveries of the dead letter queue before it gives up
    MaxFaults       \* bound: failures, lost leases and crashes

ASSUME NoneAssumption == None \notin Worker
ASSUME BoundAssumption ==
    /\ Messages \in Nat \ {0} /\ MaxRecoveries \in Nat \ {0}
    /\ MainTries \in Nat \ {0} /\ DeadTries \in Nat \ {0}
    /\ MaxFaults \in Nat

VARIABLES
    lease,      \* the Worker whose lease on the cursor has not run out
    life,       \* sync_work_runs.lifecycle_status
    reason,     \* sync_work_runs.terminal_reason
    done,       \* sync_work_runs.completed_at is not NULL
    overtaken,  \* the generation fence belongs to a newer Work
    sent,       \* how many messages have been sent
    where,      \* which queue has each message, or which consumer holds it
    tries,      \* deliveries of each message by the queue it is in
    failed,     \* messages with a dead letter terminal:m
    letter,     \* dead_letter_jobs.status of dlq:m
    meta,       \* dead_letter_operation_metadata.recovery_status of dlq:m
    alert,      \* system_alerts.status of alert:dlq:m
    pc,         \* where each Worker stands
    msg,        \* the message it works on, 0 for none
    listed,     \* the incidents it has read and is about to close
    faults      \* disturbances so far

workVars == <<life, reason, done>>
evidence == <<failed, letter, meta, alert>>
queueVars == <<sent, where, tries>>
localVars == <<msg, listed>>
vars == <<lease, life, reason, done, overtaken, sent, where, tries, failed,
          letter, meta, alert, pc, msg, listed, faults>>

Message == 1..Messages
Life == {"absent", "active", "completed", "terminal", "superseded"}
Reason == {"none", "exhausted", "permanent", "superseded"}
Where == {"unused", "main", "mainHeld", "dead", "deadHeld", "gone"}

RunPc == {"acquire", "begin", "claim", "work", "continue"}
MainPc == RunPc \cup {"list", "close", "failRead", "failWrite", "failLetter"}
DeadPc == {"deadRead", "deadWrite", "letter", "meta", "alert", "authorize",
           "claimIncident", "revive", "reread", "send", "mark"}
Pc == {"idle", "ack"} \cup MainPc \cup DeadPc

Init ==
    /\ lease = None
    /\ life = "absent" /\ reason = "none" /\ done = FALSE
    /\ overtaken = FALSE
    /\ sent = 1
    /\ where = [m \in Message |-> IF m = 1 THEN "main" ELSE "unused"]
    /\ tries = [m \in Message |-> 0]
    /\ failed = {}
    /\ letter = [m \in Message |-> "none"]
    /\ meta = [m \in Message |-> "none"]
    /\ alert = [m \in Message |-> "none"]
    /\ pc = [i \in Worker |-> "idle"]
    /\ msg = [i \in Worker |-> 0]
    /\ listed = [i \in Worker |-> {}]
    /\ faults = 0

At(i, p) == pc[i] = p
Goto(i, p) == pc' = [pc EXCEPT ![i] = p]
LetGo(i) == lease' = IF lease = i THEN None ELSE lease
Disturb == faults < MaxFaults /\ faults' = faults + 1
Leave(i) ==
    /\ Goto(i, "idle")
    /\ msg' = [msg EXCEPT ![i] = 0]
    /\ listed' = [listed EXCEPT ![i] = {}]

(***************************************************************************)
(* The two queues.                                                         *)
(***************************************************************************)
Deliver(i, m, queue, held, first) ==
    /\ At(i, "idle") /\ lease # i
    /\ where[m] = queue
    /\ where' = [where EXCEPT ![m] = held]
    /\ tries' = [tries EXCEPT ![m] = @ + 1]
    /\ msg' = [msg EXCEPT ![i] = m]
    /\ Goto(i, first)
    /\ UNCHANGED <<lease, workVars, overtaken, sent, evidence, listed, faults>>

DeliverMain(i, m) == Deliver(i, m, "main", "mainHeld", "acquire")
DeliverDead(i, m) == Deliver(i, m, "dead", "deadHeld", "deadRead")

\* Mutant: a message that was refused too often is dropped.
MutReturned(m) ==
    IF where[m] = "mainHeld" /\ tries[m] < MainTries THEN "main" ELSE "gone"
\* Where a message goes that is not acknowledged.
Returned(m) ==
    CASE where[m] = "mainHeld" /\ tries[m] < MainTries -> "main"
      [] where[m] = "mainHeld" /\ tries[m] >= MainTries -> "dead"
      [] where[m] = "deadHeld" /\ tries[m] < DeadTries -> "dead"
      [] OTHER -> "gone"

\* message.retry(), or no answer at all.
Retry(i) ==
    LET m == msg[i] IN
    /\ where' = [where EXCEPT ![m] = Returned(m)]
    /\ tries' = [tries EXCEPT ![m] =
                    IF where[m] = "mainHeld" /\ @ >= MainTries THEN 0 ELSE @]
    /\ Leave(i)
    /\ UNCHANGED sent

Ack(i) ==
    /\ At(i, "ack")
    /\ where' = [where EXCEPT ![msg[i]] = "gone"]
    /\ Leave(i)
    /\ UNCHANGED <<lease, workVars, overtaken, sent, tries, evidence, faults>>

\* queue.send: the same body under a message id of its own.
Send ==
    /\ sent < Messages
    /\ sent' = sent + 1
    /\ where' = [where EXCEPT ![sent + 1] = "main"]
    /\ UNCHANGED tries

(***************************************************************************)
(* A run of the Work, by the main consumer.                                *)
(***************************************************************************)
Acquire(i) ==
    /\ At(i, "acquire") /\ lease = None
    /\ lease' = i
    /\ Goto(i, "begin")
    /\ UNCHANGED <<workVars, overtaken, queueVars, evidence, localVars, faults>>

\* SYNC_LOCK_BUSY counts as a try.
Busy(i) ==
    /\ At(i, "acquire") /\ lease # None
    /\ Retry(i)
    /\ UNCHANGED <<lease, workVars, overtaken, evidence, faults>>

\* beginWork reads the row: a Work that has ended is not run again.
BeginRead(i) ==
    /\ At(i, "begin")
    /\ IF life \in {"absent", "active"}
         THEN Goto(i, "claim") /\ UNCHANGED lease
         ELSE Goto(i, "list") /\ LetGo(i)
    /\ UNCHANGED <<workVars, overtaken, queueVars, evidence, localVars, faults>>

\* Mutant: the status is written into the reason.
MutCoalesced(r) == IF reason = "none" THEN life ELSE r
\* COALESCE(terminal_reason, r): the first reason stays.
Coalesced(r) == IF reason = "none" THEN r ELSE reason

\* The fence, then the row: what it has become since the read is not asked.
BeginClaim(i) ==
    /\ At(i, "claim")
    /\ IF overtaken
         THEN /\ life' = "superseded"
              /\ reason' = Coalesced("superseded")
              /\ Goto(i, "list") /\ LetGo(i)
         ELSE /\ life' = IF life = "absent" THEN "active" ELSE life
              /\ Goto(i, "work") /\ UNCHANGED <<lease, reason>>
    /\ UNCHANGED <<done, overtaken, queueVars, evidence, localVars, faults>>

Current(i) == lease = i /\ ~overtaken

\* A bounded piece is done and the lease released.
WorkPauses(i) ==
    /\ At(i, "work") /\ Current(i)
    /\ LetGo(i)
    /\ Goto(i, "continue")
    /\ UNCHANGED <<workVars, overtaken, queueVars, evidence, localVars, faults>>

\* The continuation is sent without the lease.
WorkContinues(i) ==
    /\ At(i, "continue")
    /\ Send
    /\ Goto(i, "list")
    /\ UNCHANGED <<lease, workVars, overtaken, evidence, localVars, faults>>

\* completeWork: only an active Work becomes complete, and nobody is told.
WorkCompletes(i) ==
    /\ At(i, "work") /\ Current(i)
    /\ life' = IF life = "active" THEN "completed" ELSE life
    /\ done' = (done \/ life = "active")
    /\ LetGo(i)
    /\ Goto(i, "list")
    /\ UNCHANGED <<reason, overtaken, queueVars, evidence, localVars, faults>>

\* assertCurrentWork: a lost lease is retryable, a lost fence is not.
WorkIsStale(i) ==
    /\ At(i, "work") /\ ~Current(i)
    /\ LetGo(i)
    /\ IF lease # i
         THEN Retry(i)
         ELSE Goto(i, "failRead") /\ UNCHANGED <<queueVars, localVars>>
    /\ UNCHANGED <<workVars, overtaken, evidence, faults>>

WorkFailsPermanently(i) ==
    /\ At(i, "work")
    /\ Disturb
    /\ LetGo(i)
    /\ Goto(i, "failRead")
    /\ UNCHANGED <<workVars, overtaken, queueVars, evidence, localVars>>

(***************************************************************************)
(* completeSafeAutoRecoveriesForWork, after every run that returned.       *)
(***************************************************************************)
\* Mutant: any Work that has ended closes its incidents.
MutClosable == life \in {"completed", "terminal"}
Closable == life = "completed" /\ done

ListIncidents(i) ==
    /\ At(i, "list")
    /\ IF Closable
         THEN /\ listed' = [listed EXCEPT ![i] =
                               {d \in Message : meta[d] = "in_progress"}]
              /\ Goto(i, "close")
         ELSE Goto(i, "ack") /\ UNCHANGED listed
    /\ UNCHANGED <<lease, workVars, overtaken, queueVars, evidence, msg, faults>>

\* One batch for each: metadata, dead letter, alert.
CloseIncident(i) ==
    /\ At(i, "close")
    /\ \E d \in listed[i] :
         /\ meta' = [meta EXCEPT ![d] =
                        IF @ = "in_progress" THEN "completed" ELSE @]
         /\ letter' = [letter EXCEPT ![d] = IF @ = "none" THEN @ ELSE "redriven"]
         /\ alert' = [alert EXCEPT ![d] = IF @ = "none" THEN @ ELSE "resolved"]
         /\ listed' = [listed EXCEPT ![i] = @ \ {d}]
    /\ UNCHANGED <<lease, workVars, overtaken, queueVars, failed, pc, msg,
                   faults>>

CloseEnds(i) ==
    /\ At(i, "close") /\ listed[i] = {}
    /\ Goto(i, "ack")
    /\ UNCHANGED <<lease, workVars, overtaken, queueVars, evidence, localVars,
                   faults>>

(***************************************************************************)
(* markQueueWorkTerminal, for both consumers.                              *)
(***************************************************************************)
AbandonRead(i, from, write, next) ==
    /\ At(i, from)
    /\ Goto(i, IF life = "completed" THEN next ELSE write)
    /\ UNCHANGED <<lease, workVars, overtaken, queueVars, evidence, localVars,
                   faults>>

\* The UPDATE asks nothing of a completed Work but its delivered warnings.
AbandonWrite(i, from, why, next) ==
    /\ At(i, from)
    /\ IF life = "absent"
         THEN UNCHANGED <<life, reason>>
         ELSE life' = "terminal" /\ reason' = Coalesced(why)
    /\ Goto(i, next)
    /\ UNCHANGED <<lease, done, overtaken, queueVars, evidence, localVars,
                   faults>>

\* recordPermanentQueueFailure.
FailRead(i) == AbandonRead(i, "failRead", "failWrite", "failLetter")
FailWrite(i) == AbandonWrite(i, "failWrite", "permanent", "failLetter")
FailLetter(i) ==
    /\ At(i, "failLetter")
    /\ failed' = failed \cup {msg[i]}
    /\ Goto(i, "ack")
    /\ UNCHANGED <<lease, workVars, overtaken, queueVars, letter, meta, alert,
                   localVars, faults>>

(***************************************************************************)
(* The dead letter consumer: evidence first.                               *)
(***************************************************************************)
DeadRead(i) == AbandonRead(i, "deadRead", "deadWrite", "letter")
DeadWrite(i) == AbandonWrite(i, "deadWrite", "exhausted", "letter")

SaveLetter(i) ==
    /\ At(i, "letter")
    /\ letter' = [letter EXCEPT ![msg[i]] = IF @ = "none" THEN "open" ELSE @]
    /\ Goto(i, "meta")
    /\ UNCHANGED <<lease, workVars, overtaken, queueVars, failed, meta, alert,
                   localVars, faults>>

SaveMetadata(i) ==
    /\ At(i, "meta")
    /\ meta' = [meta EXCEPT ![msg[i]] = IF @ = "none" THEN "not_started" ELSE @]
    /\ Goto(i, "alert")
    /\ UNCHANGED <<lease, workVars, overtaken, queueVars, failed, letter,
                   alert, localVars, faults>>

\* The trigger of migration 0007 keeps a resolved alert resolved.
SaveAlert(i) ==
    /\ At(i, "alert")
    /\ alert' = [alert EXCEPT ![msg[i]] = IF @ = "none" THEN "open" ELSE @]
    /\ Goto(i, "authorize")
    /\ UNCHANGED <<lease, workVars, overtaken, queueVars, failed, letter,
                   meta, localVars, faults>>

(***************************************************************************)
(* authorizeSafeAutoRecovery, queue.send, markSafeAutoRecoveryQueued.      *)
(***************************************************************************)
\* Mutant: completed_at is not asked.
MutExhausted == life = "terminal" /\ reason = "exhausted"
Exhausted == life = "terminal" /\ reason = "exhausted" /\ ~done

\* The row is read and its identity asserted.
Authorize(i) ==
    LET m == msg[i]
        claimed == meta[m] = "in_progress"
    IN
    /\ At(i, "authorize")
    /\ \/ life = "completed" /\ Goto(i, "ack") /\ UNCHANGED <<queueVars, localVars>>
       \/ /\ life # "completed" /\ (Exhausted \/ (life = "active" /\ claimed))
          /\ Goto(i, CASE meta[m] = "completed" -> "ack"
                       [] claimed -> "revive"
                       [] OTHER -> "claimIncident")
          /\ UNCHANGED <<queueVars, localVars>>
       \/ /\ life # "completed" /\ ~Exhausted /\ ~(life = "active" /\ claimed)
          /\ Retry(i)
    /\ UNCHANGED <<lease, workVars, overtaken, evidence, faults>>

\* The incidents of the Work whose recovery_reference is set.
Claimed == {d \in Message : meta[d] \in {"in_progress", "completed"}}

\* Mutant: the budget is off by one.
MutInBudget(m) == Cardinality(Claimed \ {m}) <= MaxRecoveries
\* WHERE of the claim: the other claimed incidents leave room.
InBudget(m) == Cardinality(Claimed \ {m}) < MaxRecoveries

ClaimIncident(i) ==
    LET m == msg[i] IN
    /\ At(i, "claimIncident")
    /\ IF meta[m] = "not_started" /\ InBudget(m)
         THEN /\ meta' = [meta EXCEPT ![m] = "in_progress"]
              /\ Goto(i, "revive")
         ELSE /\ Goto(i, IF meta[m] = "in_progress" THEN "revive" ELSE "ack")
              /\ UNCHANGED meta
    /\ UNCHANGED <<lease, workVars, overtaken, queueVars, failed, letter, alert,
                   localVars, faults>>

Revive(i) ==
    /\ At(i, "revive")
    /\ IF Exhausted
         THEN life' = "active" /\ reason' = "none"
         ELSE UNCHANGED <<life, reason>>
    /\ Goto(i, "reread")
    /\ UNCHANGED <<lease, done, overtaken, queueVars, evidence, localVars,
                   faults>>

Reread(i) ==
    /\ At(i, "reread")
    /\ \/ life = "completed" /\ Goto(i, "ack") /\ UNCHANGED <<queueVars, localVars>>
       \/ life = "active" /\ Goto(i, "send") /\ UNCHANGED <<queueVars, localVars>>
       \/ life \notin {"active", "completed"} /\ Retry(i)
    /\ UNCHANGED <<lease, workVars, overtaken, evidence, faults>>

Resend(i) ==
    /\ At(i, "send")
    /\ Send
    /\ Goto(i, "mark")
    /\ UNCHANGED <<lease, workVars, overtaken, evidence, localVars, faults>>

\* Mutant: the UPDATE asks no status.
MutQueued(status) == IF status # "none" THEN "redrive_pending" ELSE status
\* UPDATE ... WHERE status IN ('open', 'redrive_pending').
Queued(status) ==
    IF status \in {"open", "redrive_pending"} THEN "redrive_pending" ELSE status

\* Both statements of the batch are carried out, then asked for their changes.
MarkQueued(i) ==
    LET m == msg[i]
        accepted == letter[m] \in {"open", "redrive_pending"} /\ meta[m] = "in_progress"
    IN
    /\ At(i, "mark")
    /\ letter' = [letter EXCEPT ![m] = Queued(@)]
    /\ IF accepted
         THEN Goto(i, "ack") /\ UNCHANGED <<queueVars, localVars>>
         ELSE Retry(i)
    /\ UNCHANGED <<lease, workVars, overtaken, failed, meta, alert, faults>>

(***************************************************************************)
(* Failure, and the newer request.                                         *)
(***************************************************************************)
\* A call fails: both consumers hand the message back.
Fails(i) ==
    /\ pc[i] # "idle"
    /\ Disturb
    /\ LetGo(i)
    /\ Retry(i)
    /\ UNCHANGED <<workVars, overtaken, evidence>>

\* The Worker dies: its lease stays until it runs out.
Crash(i) ==
    /\ pc[i] # "idle"
    /\ Disturb
    /\ Retry(i)
    /\ UNCHANGED <<lease, workVars, overtaken, evidence>>

LoseLease(i) ==
    /\ lease = i /\ pc[i] # "idle"
    /\ Disturb
    /\ lease' = None
    /\ UNCHANGED <<workVars, overtaken, queueVars, evidence, pc, localVars>>

LeaseExpires(i) ==
    /\ lease = i /\ pc[i] = "idle"
    /\ lease' = None
    /\ UNCHANGED <<workVars, overtaken, queueVars, evidence, pc, localVars,
                   faults>>

\* A newer Work of the cursor claims the fence, under the lease.
Overtake ==
    /\ lease = None /\ ~overtaken
    /\ Disturb
    /\ overtaken' = TRUE
    /\ UNCHANGED <<lease, workVars, queueVars, evidence, pc, localVars>>

Run(i) == Acquire(i) \/ Busy(i) \/ BeginRead(i) \/ BeginClaim(i)
            \/ WorkPauses(i) \/ WorkContinues(i) \/ WorkCompletes(i)
            \/ WorkIsStale(i)
Close(i) == ListIncidents(i) \/ CloseIncident(i) \/ CloseEnds(i)
Permanent(i) == FailRead(i) \/ FailWrite(i) \/ FailLetter(i)
Evidence(i) == DeadRead(i) \/ DeadWrite(i) \/ SaveLetter(i) \/ SaveMetadata(i)
                 \/ SaveAlert(i)
Recover(i) == Authorize(i) \/ ClaimIncident(i) \/ Revive(i) \/ Reread(i)
                \/ Resend(i) \/ MarkQueued(i)
Step(i) == Run(i) \/ Close(i) \/ Permanent(i) \/ Evidence(i) \/ Recover(i)
             \/ Ack(i) \/ LeaseExpires(i)
Fail(i) == WorkFailsPermanently(i) \/ Fails(i) \/ Crash(i) \/ LoseLease(i)

Next ==
    \/ \E i \in Worker :
         \/ Step(i) \/ Fail(i)
         \/ \E m \in Message : DeliverMain(i, m) \/ DeliverDead(i, m)
    \/ Overtake

Spec == Init /\ [][Next]_vars

(***************************************************************************)
(* Properties.                                                             *)
(***************************************************************************)
\* Every variable stays in its range.
TypeOK ==
    /\ lease \in Worker \cup {None}
    /\ life \in Life /\ reason \in Reason
    /\ done \in BOOLEAN /\ overtaken \in BOOLEAN
    /\ sent \in Message
    /\ where \in [Message -> Where]
    /\ tries \in [Message -> 0..(MainTries + DeadTries)]
    /\ failed \subseteq Message
    /\ letter \in [Message -> {"none", "open", "redrive_pending", "redriven"}]
    /\ meta \in [Message -> {"none", "not_started", "in_progress", "completed"}]
    /\ alert \in [Message -> {"none", "open", "resolved"}]
    /\ pc \in [Worker -> Pc]
    /\ msg \in [Worker -> Message \cup {0}]
    /\ listed \in [Worker -> SUBSET Message]
    /\ faults \in 0..MaxFaults

\* However many consumers claim at once, a Work is never given more recoveries
\* than its budget (authorizeSafeAutoRecovery counts and claims in one UPDATE).
BudgetKept == Cardinality(Claimed) <= MaxRecoveries

\* An incident is closed, in all three tables, only behind a Work that was
\* completed for good (completeSafeAutoRecoveriesForWork).
ClosedIsBacked ==
    \A m \in Message :
        meta[m] = "completed" \/ letter[m] = "redriven" \/ alert[m] = "resolved"
            => done

\* What is closed stays closed in all three tables, although the dead letter may
\* be delivered again and the resent message may complete the Work before the
\* incident is marked as queued (saveDeadLetter, markSafeAutoRecoveryQueued).
ClosedStaysClosed ==
    [][\A m \in Message :
         meta[m] = "completed" =>
             meta'[m] = "completed" /\ letter'[m] = "redriven"
                 /\ alert'[m] = "resolved"]_vars

\* A Work that was once completed is never made active again, not even when a
\* late dead letter has turned it terminal (Revive asks completed_at).
DoneIsNotRevived == [][done /\ life # "active" => life' # "active"]_vars

\* No message is left, no consumer at work.
Quiet ==
    /\ \A i \in Worker : pc[i] = "idle"
    /\ \A m \in Message : where[m] \in {"unused", "gone"}

\* Once every message is dealt with, a Work that is still active or that ended
\* for its used-up retries has an open dead letter with an open alert: somebody
\* is told (processDeadLetterBatch saves the evidence first, acknowledges last).
\* Assumes fewer faults than deliveries of the dead letter queue.
NothingIsForgotten ==
    Quiet /\ ~done /\ (life = "active" \/ reason = "exhausted") =>
        \E m \in Message :
            letter[m] \in {"open", "redrive_pending"} /\ alert[m] = "open"

\* What d1-queue-operation-store.js:130 says of the revival: it "cannot revive
\* completed, superseded or permanent failures".
PermanentIsNotRevived ==
    [][failed # {} /\ life # "active" => life' # "active"]_vars
================================================================================
