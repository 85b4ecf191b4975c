---------------------------- MODULE ResumableWork ----------------------------
(***************************************************************************)
(* Resumable Work: how a sync of one account survives being cut into many  *)
(* Queue invocations, and how a newer request takes over from an older one *)
(*                                                                         *)
(* A Work is one requested sync: a work_key and a generation, the time it  *)
(* was requested.  All Works here share one cursor_key, hence one lease.   *)
(* Each invocation drains the warning outbox, takes the lease, begins the  *)
(* Work (which claims the generation fence of the cursor), carries out one *)
(* bounded piece of it, saves how far it came and queues its continuation. *)
(* The invocation that finds nothing left to write records a warning if    *)
(* there is one, commits the checkpoint and completes the Work.  The Queue *)
(* delivers at least once; any awaited call may fail; a Worker may die.    *)
(*                                                                         *)
(* The driver is the bounded YouTube organic sync; the lease is abstracted *)
(* to its holder (SyncLease has the detail), the staged rows to how many   *)
(* destination chunks are done.                                            *)
(***************************************************************************)
EXTENDS Naturals

CONSTANTS
    Worker,      \* invocations that run at the same time
    Work,        \* the requested syncs of one cursor
    Generation,  \* requested_at of each Work
    Warned,      \* the Works whose result carries a warning
    None,        \* no Worker, no Work
    Chunks,      \* destination chunks of a Work
    MaxFaults    \* bound: failures, copies of messages, lost leases, crashes

ASSUME NoneAssumption == None \notin Worker \cup Work
ASSUME GenerationAssumption == Generation \in [Work -> Nat]
ASSUME WarnedAssumption == Warned \subseteq Work
ASSUME BoundAssumption == Chunks \in Nat \ {0} /\ MaxFaults \in Nat

VARIABLES
    lease,      \* the Worker whose lease on the cursor has not run out
    fence,      \* sync_generation_fences.work_key of the cursor
    life,       \* sync_work_runs.lifecycle_status of each Work
    done,       \* sync_work_runs.completed_at is not NULL
    expired,    \* sync_work_runs.expires_at has passed
    source,     \* the source phase of the Work is stored as complete
    nextIndex,  \* nextIndex of its destination phase, in chunks
    written,    \* the chunks whose rows it has written to the destination
    cursor,     \* sync_cursors.generation_work_key
    warning,    \* status of its row in sync_warning_outbox
    alert,      \* its row in system_alerts exists
    queued,     \* its messages that wait in the Queue
    pc,         \* where each Worker stands
    job,        \* the message it works on: its Work and number
    index,      \* the nextIndex it has loaded
    item,       \* the Work whose warning or row it drains or cleans up
    faults      \* disturbances so far

rowVars == <<life, done, expired>>
stageVars == <<source, nextIndex>>
outboxVars == <<warning, alert>>
localVars == <<job, index, item>>
vars == <<lease, fence, life, done, expired, source, nextIndex, written,
          cursor, warning, alert, queued, pc, job, index, item, faults>>

Life == {"absent", "active", "completed", "terminal", "superseded"}
Final == {"completed", "terminal", "superseded"}
\* A message of a Work: the request itself is 0, a continuation 1 or more.
Message == 0..Chunks
\* next: the continuation to send when the lease is let go; 0 is none.
Job == [work: Work, message: Message, next: Message]
NoJob == [work |-> None, message |-> 0, next |-> 0]

\* assertCurrentWork() before each effect, and the effect it lets through.
CheckPc == {"checkSource", "checkChunk", "checkPhase", "checkWarning",
            "checkCursor"}
EffectPc == {"saveSource", "write", "savePhase", "saveWarning", "saveCursor"}
Behind(p) == CASE p = "checkSource" -> "saveSource"
               [] p = "checkChunk" -> "write"
               [] p = "checkPhase" -> "savePhase"
               [] p = "checkWarning" -> "saveWarning"
               [] p = "checkCursor" -> "saveCursor"
BeforeLease == {"drain", "drained", "acquire"}
UnderLease == {"read", "claim", "supersede", "upsert", "load", "confirm",
               "complete", "raise", "mark", "release"}
                 \cup CheckPc \cup EffectPc
AfterLease == {"cleanup", "clean", "ack"}
AbandonPc == {"abandonRead", "abandonWrite", "deadCleanup", "deadClean",
              "deadAck"}
Pc == {"idle"} \cup BeforeLease \cup UnderLease \cup AfterLease \cup AbandonPc

Init ==
    /\ lease = None
    /\ fence = None
    /\ life = [w \in Work |-> "absent"]
    /\ done = [w \in Work |-> FALSE]
    /\ expired = [w \in Work |-> FALSE]
    /\ source = [w \in Work |-> FALSE]
    /\ nextIndex = [w \in Work |-> 0]
    /\ written = [w \in Work |-> {}]
    /\ cursor = None
    /\ warning = [w \in Work |-> "none"]
    /\ alert = [w \in Work |-> FALSE]
    /\ queued = [w \in Work |-> {0}]
    /\ pc = [i \in Worker |-> "idle"]
    /\ job = [i \in Worker |-> NoJob]
    /\ index = [i \in Worker |-> 0]
    /\ item = [i \in Worker |-> None]
    /\ faults = 0

Goto(i, p) == pc' = [pc EXCEPT ![i] = p]
At(i, p) == pc[i] = p
\* The invocation is over, or the Worker gone: its local variables with it.
Leave(i) ==
    /\ Goto(i, "idle")
    /\ job' = [job EXCEPT ![i] = NoJob]
    /\ index' = [index EXCEPT ![i] = 0]
    /\ item' = [item EXCEPT ![i] = None]
\* The delivery is not acknowledged: the Queue delivers its message again.
Retry(i) ==
    /\ Leave(i)
    /\ queued' = [w \in Work |-> IF w = job[i].work
                                  THEN queued[w] \cup {job[i].message}
                                  ELSE queued[w]]
Disturb == faults < MaxFaults /\ faults' = faults + 1
LetGo(i) == lease' = IF lease = i THEN None ELSE lease

(***************************************************************************)
(* Delivery, the drain of the warning outbox, and the lease.               *)
(***************************************************************************)
Receive(i, w, m) ==
    /\ At(i, "idle") /\ lease # i
    /\ m \in queued[w]
    /\ job' = [job EXCEPT ![i] = [work |-> w, message |-> m, next |-> 0]]

Deliver(i, w, m) ==
    /\ Receive(i, w, m)
    /\ queued' = [queued EXCEPT ![w] = @ \ {m}]
    /\ Goto(i, "drain")
    /\ UNCHANGED <<lease, fence, rowVars, stageVars, written, cursor,
                   outboxVars, index, item, faults>>

\* At-least-once: a copy of the delivered message is still to come.
DeliverTwice(i, w, m) ==
    /\ Receive(i, w, m)
    /\ Disturb
    /\ Goto(i, "drain")
    /\ UNCHANGED <<lease, fence, rowVars, stageVars, written, cursor,
                   outboxVars, queued, index, item>>

\* A job of another account drains the same outbox; the rest of it is not
\* modelled here.  It matters only while a warning is pending.
DeliverOther(i) ==
    /\ At(i, "idle") /\ lease # i
    /\ \E v \in Work : warning[v] = "pending"
    /\ Goto(i, "drain")
    /\ UNCHANGED <<lease, fence, rowVars, stageVars, written, cursor,
                   outboxVars, queued, localVars, faults>>

\* Before the lease, whatever Work the pending warning belongs to.
DrainRaise(i, v) ==
    /\ At(i, "drain")
    /\ warning[v] = "pending"
    /\ alert' = [alert EXCEPT ![v] = TRUE]
    /\ item' = [item EXCEPT ![i] = v]
    /\ Goto(i, "drained")
    /\ UNCHANGED <<lease, fence, rowVars, stageVars, written, cursor, warning,
                   queued, job, index, faults>>

\* UPDATE ... SET status = 'delivered' WHERE status = 'pending'.
Delivered(v) == IF warning[v] = "pending"
                  THEN [warning EXCEPT ![v] = "delivered"]
                  ELSE warning

DrainMark(i) ==
    /\ At(i, "drained")
    /\ warning' = Delivered(item[i])
    /\ item' = [item EXCEPT ![i] = None]
    /\ Goto(i, "drain")
    /\ UNCHANGED <<lease, fence, rowVars, stageVars, written, cursor, alert,
                   queued, job, index, faults>>

DrainEnds(i) ==
    /\ At(i, "drain")
    /\ \A v \in Work : warning[v] # "pending"
    /\ IF job[i] = NoJob
         THEN Leave(i)
         ELSE Goto(i, "acquire") /\ UNCHANGED localVars
    /\ UNCHANGED <<lease, fence, rowVars, stageVars, written, cursor,
                   outboxVars, queued, faults>>

Acquire(i) ==
    /\ At(i, "acquire") /\ lease = None
    /\ lease' = i
    /\ Goto(i, "read")
    /\ UNCHANGED <<fence, rowVars, stageVars, written, cursor, outboxVars,
                   queued, localVars, faults>>

\* SYNC_LOCK_BUSY is retryable: the message goes back to the Queue.
Busy(i) ==
    /\ At(i, "acquire") /\ lease # None
    /\ Retry(i)
    /\ UNCHANGED <<lease, fence, rowVars, stageVars, written, cursor,
                   outboxVars, faults>>

(***************************************************************************)
(* beginWork.                                                              *)
(***************************************************************************)
\* The row is read once; the statements below act on what it said.
ReadWork(i) ==
    LET w == job[i].work IN
    /\ At(i, "read")
    /\ \/ life[w] = "completed" /\ warning[w] = "pending" /\ Goto(i, "raise")
       \/ life[w] = "completed" /\ warning[w] # "pending" /\ Goto(i, "release")
       \/ life[w] \in {"terminal", "superseded"} /\ Goto(i, "release")
       \/ life[w] \in {"absent", "active"} /\ Goto(i, "claim")
    /\ UNCHANGED <<lease, fence, rowVars, stageVars, written, cursor,
                   outboxVars, queued, localVars, faults>>

\* Mutant: any request may claim the fence.
MutClaimable(w) == w \in Work
\* WHERE of the fence upsert: newer, or the same Work again.
Claimable(w) ==
    \/ fence = None
    \/ Generation[w] > Generation[fence]
    \/ w = fence

ClaimFence(i) ==
    LET w == job[i].work IN
    /\ At(i, "claim")
    /\ IF Claimable(w)
         THEN fence' = w /\ Goto(i, "upsert")
         ELSE fence' = fence /\ Goto(i, "supersede")
    /\ UNCHANGED <<lease, rowVars, stageVars, written, cursor, outboxVars,
                   queued, localVars, faults>>

\* #recordSupersededWork: its upsert looks at no earlier status.
RecordSuperseded(i) ==
    LET w == job[i].work IN
    /\ At(i, "supersede")
    /\ life' = [life EXCEPT ![w] = "superseded"]
    /\ Goto(i, "release")
    /\ UNCHANGED <<lease, fence, done, expired, stageVars, written, cursor,
                   outboxVars, queued, localVars, faults>>

\* The row is inserted, or left with the status it has by now.
Upserted(status) == IF status = "absent" THEN "active" ELSE status
UpsertWork(i) ==
    LET w == job[i].work IN
    /\ At(i, "upsert")
    /\ life' = [life EXCEPT ![w] = Upserted(@)]
    /\ Goto(i, "load")
    /\ UNCHANGED <<lease, fence, done, expired, stageVars, written, cursor,
                   outboxVars, queued, localVars, faults>>

(***************************************************************************)
(* One bounded piece of the Work.                                          *)
(***************************************************************************)
\* assertCurrentWork: the lease is held and the fence is this Work's.
Current(i) == lease = i /\ fence = job[i].work

LoadPhases(i) ==
    LET w == job[i].work IN
    /\ At(i, "load")
    /\ index' = [index EXCEPT ![i] = nextIndex[w]]
    /\ \/ ~source[w] /\ Goto(i, "checkSource")
       \/ source[w] /\ nextIndex[w] < Chunks /\ Goto(i, "checkChunk")
       \/ source[w] /\ nextIndex[w] = Chunks /\ Goto(i, "checkWarning")
    /\ UNCHANGED <<lease, fence, rowVars, stageVars, written, cursor,
                   outboxVars, queued, job, item, faults>>

Check(i) ==
    /\ pc[i] \in CheckPc
    /\ Current(i)
    /\ Goto(i, Behind(pc[i]))
    /\ UNCHANGED <<lease, fence, rowVars, stageVars, written, cursor,
                   outboxVars, queued, localVars, faults>>

\* A lost lease is retryable, a superseded generation is not.
CheckFails(i) ==
    /\ pc[i] \in CheckPc
    /\ ~Current(i)
    /\ LetGo(i)
    /\ IF lease # i
         THEN Retry(i)
         ELSE Goto(i, "abandonRead") /\ UNCHANGED <<queued, localVars>>
    /\ UNCHANGED <<fence, rowVars, stageVars, written, cursor, outboxVars,
                   faults>>

\* Mutant: the continuation is numbered one too far.
MutContinue(i, n) ==
    Goto(i, "release") /\ job' = [job EXCEPT ![i].next = n + 1]
\* The bounded piece is done: the rest is left to continuation n.
Continue(i, n) == Goto(i, "release") /\ job' = [job EXCEPT ![i].next = n]

SaveSource(i) ==
    LET w == job[i].work IN
    /\ At(i, "saveSource")
    /\ source' = [source EXCEPT ![w] = TRUE]
    /\ Continue(i, 1)
    /\ UNCHANGED <<lease, fence, rowVars, nextIndex, written, cursor,
                   outboxVars, queued, index, item, faults>>

WriteChunk(i) ==
    LET w == job[i].work IN
    /\ At(i, "write")
    /\ written' = [written EXCEPT ![w] = @ \cup {index[i] + 1}]
    /\ Goto(i, "checkPhase")
    /\ UNCHANGED <<lease, fence, rowVars, stageVars, cursor, outboxVars,
                   queued, localVars, faults>>

\* Mutant: the progress counts the chunk after the one written.
MutReached(k) == k + 2
Reached(k) == k + 1
\* savePhase is guarded by neither the generation nor the lifecycle.
SavePhase(i) ==
    LET w == job[i].work
        reached == Reached(index[i])
    IN
    /\ At(i, "savePhase")
    /\ nextIndex' = [nextIndex EXCEPT ![w] = reached]
    /\ IF reached < Chunks
         THEN Continue(i, reached + 1)
         ELSE Goto(i, "checkWarning") /\ UNCHANGED job
    /\ UNCHANGED <<lease, fence, rowVars, source, written, cursor, outboxVars,
                   queued, index, item, faults>>

(***************************************************************************)
(* Commit: warning, checkpoint, completion, alert.                         *)
(***************************************************************************)
Superseded(i) == LetGo(i) /\ Goto(i, "abandonRead")

\* Mutant: the outbox has it as delivered from the start.
MutOutboxed(status) == IF status = "none" THEN "delivered" ELSE status
\* ON CONFLICT: a warning that is there keeps its status.
Outboxed(status) == IF status = "none" THEN "pending" ELSE status
\* saveWarningOutbox: the INSERT itself asks for the fence.
SaveWarning(i) ==
    LET w == job[i].work IN
    /\ At(i, "saveWarning")
    /\ \/ /\ w \notin Warned
          /\ Goto(i, "checkCursor") /\ UNCHANGED <<lease, warning>>
       \/ /\ w \in Warned /\ fence = w
          /\ warning' = [warning EXCEPT ![w] = Outboxed(@)]
          /\ Goto(i, "checkCursor") /\ UNCHANGED lease
       \/ /\ w \in Warned /\ fence # w
          /\ Superseded(i) /\ UNCHANGED warning
    /\ UNCHANGED <<fence, rowVars, stageVars, written, cursor, alert, queued,
                   localVars, faults>>

\* Mutant: the checkpoint statement does not ask for the fence.
MutCommittable(w) == cursor = None \/ w \in Work
\* WHERE of the cursor statement: the fence is this Work's, and the stored
\* checkpoint is not of a newer generation.
Committable(w) ==
    /\ fence = w
    /\ cursor = None \/ Generation[w] >= Generation[cursor]

SaveCursor(i) ==
    LET w == job[i].work IN
    /\ At(i, "saveCursor")
    /\ cursor' = IF Committable(w) THEN w ELSE cursor
    /\ Goto(i, "confirm")
    /\ UNCHANGED <<lease, fence, rowVars, stageVars, written, outboxVars,
                   queued, localVars, faults>>

\* Mutant: nothing is read after the last batch.
MutConfirmed(w) == w \in Work
\* saveCheckpoint reads the fence once more after its last batch: a statement
\* that found no fence of its own changed nothing and raised no error.
Confirmed(w) == fence = w
Confirm(i) ==
    /\ At(i, "confirm")
    /\ IF Confirmed(job[i].work)
         THEN Goto(i, "complete") /\ UNCHANGED lease
         ELSE Superseded(i)
    /\ UNCHANGED <<fence, rowVars, stageVars, written, cursor, outboxVars,
                   queued, localVars, faults>>

AfterCompletion(w) == IF w \in Warned THEN "raise" ELSE "release"
\* completeWork: the staged rows go whatever the status, which only an
\* active Work changes.  Neither lease nor fence is asked for.
CompleteWork(i) ==
    LET w == job[i].work IN
    /\ At(i, "complete")
    /\ source' = [source EXCEPT ![w] = FALSE]
    /\ nextIndex' = [nextIndex EXCEPT ![w] = 0]
    /\ life' = [life EXCEPT ![w] = IF @ = "active" THEN "completed" ELSE @]
    /\ done' = [done EXCEPT ![w] = @ \/ life[w] = "active"]
    /\ Goto(i, AfterCompletion(w))
    /\ UNCHANGED <<lease, fence, expired, written, cursor, outboxVars, queued,
                   localVars, faults>>

RaiseWarning(i) ==
    /\ At(i, "raise")
    /\ alert' = [alert EXCEPT ![job[i].work] = TRUE]
    /\ Goto(i, "mark")
    /\ UNCHANGED <<lease, fence, rowVars, stageVars, written, cursor, warning,
                   queued, localVars, faults>>

MarkWarning(i) ==
    /\ At(i, "mark")
    /\ warning' = Delivered(job[i].work)
    /\ Goto(i, "release")
    /\ UNCHANGED <<lease, fence, rowVars, stageVars, written, cursor, alert,
                   queued, localVars, faults>>

\* Mutant: the continuation is not sent.
MutSent(i) == queued[job[i].work]
\* What the Queue holds of the Work once the continuation is sent.
Sent(i) == IF job[i].next = 0
             THEN queued[job[i].work]
             ELSE queued[job[i].work] \cup {job[i].next}

\* The finally block of the run, then the send of the continuation.
Release(i) ==
    /\ At(i, "release")
    /\ LetGo(i)
    /\ queued' = [queued EXCEPT ![job[i].work] = Sent(i)]
    /\ Goto(i, "cleanup")
    /\ UNCHANGED <<fence, rowVars, stageVars, written, cursor, outboxVars,
                   localVars, faults>>

(***************************************************************************)
(* Cleanup of expired Works, and the acknowledgement.                      *)
(***************************************************************************)
\* Mutant: a pending warning does not keep its Work.
MutCleanable(v) == life[v] \in Final /\ expired[v] /\ lease = None
Cleanable(v) ==
    /\ life[v] \in Final /\ expired[v]
    /\ lease = None
    /\ warning[v] # "pending"

\* The SELECT of the candidates: one of them is followed here.
CleanupSelect(i) ==
    /\ pc[i] \in {"cleanup", "deadCleanup"}
    /\ \/ \E v \in Work :
            /\ Cleanable(v)
            /\ item' = [item EXCEPT ![i] = v]
            /\ Goto(i, IF At(i, "cleanup") THEN "clean" ELSE "deadClean")
       \/ /\ \A v \in Work : ~Cleanable(v)
          /\ Goto(i, IF At(i, "cleanup") THEN "ack" ELSE "deadAck")
          /\ UNCHANGED item
    /\ UNCHANGED <<lease, fence, rowVars, stageVars, written, cursor,
                   outboxVars, queued, job, index, faults>>

\* Its batch: every DELETE asks again, but for the one of the delivered
\* warnings, whose rows go in any case.
CleanupBatch(i) ==
    LET v == item[i]
        guarded == Cleanable(v)
    IN
    /\ pc[i] \in {"clean", "deadClean"}
    /\ life' = [life EXCEPT ![v] = IF guarded THEN "absent" ELSE @]
    /\ done' = [done EXCEPT ![v] = @ /\ ~guarded]
    /\ expired' = [expired EXCEPT ![v] = @ /\ ~guarded]
    /\ source' = [source EXCEPT ![v] = @ /\ ~guarded]
    /\ nextIndex' = [nextIndex EXCEPT ![v] = IF guarded THEN 0 ELSE @]
    /\ warning' = [warning EXCEPT ![v] = IF @ = "delivered" THEN "none" ELSE @]
    /\ item' = [item EXCEPT ![i] = None]
    /\ Goto(i, IF At(i, "clean") THEN "ack" ELSE "deadAck")
    /\ UNCHANGED <<lease, fence, written, cursor, alert, queued, job, index,
                   faults>>

\* message.ack(), after a finished run or a recorded dead letter.
Ack(i) ==
    /\ pc[i] \in {"ack", "deadAck"}
    /\ Leave(i)
    /\ UNCHANGED <<lease, fence, rowVars, stageVars, written, cursor,
                   outboxVars, queued, faults>>

(***************************************************************************)
(* Failure.                                                                *)
(***************************************************************************)
\* A retryable error, of the run or of what surrounds it.
FailsRetryably(i) ==
    /\ pc[i] # "idle"
    /\ Disturb
    /\ LetGo(i)
    /\ Retry(i)
    /\ UNCHANGED <<fence, rowVars, stageVars, written, cursor, outboxVars>>

\* A permanent error of source, destination or plan: the lease is let go, the
\* Work abandoned.  An error of D1 or of the alert is always retryable.
FailsPermanently(i) ==
    /\ pc[i] \in {"read", "load", "write"} \cup CheckPc
    /\ Disturb
    /\ Superseded(i)
    /\ UNCHANGED <<fence, rowVars, stageVars, written, cursor, outboxVars,
                   queued, localVars>>

\* Its retries used up, the message reaches the dead letter consumer.
DeadLetter(i, w, m) ==
    /\ Receive(i, w, m)
    /\ Disturb
    /\ queued' = [queued EXCEPT ![w] = @ \ {m}]
    /\ Goto(i, "abandonRead")
    /\ UNCHANGED <<lease, fence, rowVars, stageVars, written, cursor,
                   outboxVars, index, item>>

\* The Queue's own abandonWork reads the status first: a completed Work is
\* left alone.
AbandonRead(i) ==
    /\ At(i, "abandonRead")
    /\ Goto(i, IF life[job[i].work] = "completed"
                 THEN "deadCleanup" ELSE "abandonWrite")
    /\ UNCHANGED <<lease, fence, rowVars, stageVars, written, cursor,
                   outboxVars, queued, localVars, faults>>

\* The UPDATE of the base store.
AbandonWrite(i) ==
    LET w == job[i].work IN
    /\ At(i, "abandonWrite")
    /\ life' = [life EXCEPT ![w] =
                   CASE @ \in {"active", "terminal", "superseded"} -> "terminal"
                     [] @ = "completed" /\ warning[w] # "pending" -> "terminal"
                     [] OTHER -> @]
    /\ Goto(i, "deadCleanup")
    /\ UNCHANGED <<lease, fence, done, expired, stageVars, written, cursor,
                   outboxVars, queued, localVars, faults>>

\* The Worker dies; its lease stays until it runs out.
Crash(i) ==
    /\ pc[i] # "idle"
    /\ Disturb
    /\ Retry(i)
    /\ UNCHANGED <<lease, fence, rowVars, stageVars, written, cursor,
                   outboxVars>>

\* A lease runs out under a Worker that still works (its renewals failed).
LoseLease(i) ==
    /\ lease = i /\ pc[i] # "idle"
    /\ Disturb
    /\ lease' = None
    /\ UNCHANGED <<fence, rowVars, stageVars, written, cursor, outboxVars,
                   queued, pc, localVars>>

\* The lease of a dead Worker runs out.
LeaseExpires(i) ==
    /\ lease = i /\ pc[i] = "idle"
    /\ lease' = None
    /\ UNCHANGED <<fence, rowVars, stageVars, written, cursor, outboxVars,
                   queued, pc, localVars, faults>>

\* An operator revives a terminal Work whose source is staged, and sends its
\* message again (prepareCompletedSourceRedrive).
Revivable(w) ==
    life[w] = "terminal" /\ ~done[w] /\ source[w] /\ lease = None
Redrive(w) ==
    /\ Revivable(w)
    /\ life' = [life EXCEPT ![w] = "active"]
    /\ expired' = [expired EXCEPT ![w] = FALSE]
    /\ queued' = [queued EXCEPT ![w] = @ \cup {0}]
    /\ UNCHANGED <<lease, fence, done, stageVars, written, cursor, outboxVars,
                   pc, localVars, faults>>

\* A message of the Work waits or is being worked on.
Outstanding(w) == queued[w] # {} \/ \E i \in Worker : job[i].work = w

\* Assumption: the retention of a Work (7 days) outlives its messages.
Expire(w) ==
    /\ life[w] \in Final /\ ~expired[w]
    /\ ~Outstanding(w)
    /\ expired' = [expired EXCEPT ![w] = TRUE]
    /\ UNCHANGED <<lease, fence, life, done, stageVars, written, cursor,
                   outboxVars, queued, pc, localVars, faults>>

Begin(i) == ReadWork(i) \/ ClaimFence(i) \/ RecordSuperseded(i) \/ UpsertWork(i)
Piece(i) == LoadPhases(i) \/ Check(i) \/ CheckFails(i) \/ SaveSource(i)
              \/ WriteChunk(i) \/ SavePhase(i)
Commit(i) == SaveWarning(i) \/ SaveCursor(i) \/ Confirm(i) \/ CompleteWork(i)
               \/ RaiseWarning(i) \/ MarkWarning(i)
Drain(i) == (\E v \in Work : DrainRaise(i, v)) \/ DrainMark(i) \/ DrainEnds(i)
End(i) == Release(i) \/ CleanupSelect(i) \/ CleanupBatch(i) \/ Ack(i)
            \/ AbandonRead(i) \/ AbandonWrite(i)
Step(i) == Drain(i) \/ Acquire(i) \/ Busy(i) \/ Begin(i) \/ Piece(i)
             \/ Commit(i) \/ End(i) \/ LeaseExpires(i)
Fail(i) == FailsRetryably(i) \/ FailsPermanently(i) \/ Crash(i) \/ LoseLease(i)
Queue(i) ==
    \E w \in Work, m \in Message :
        Deliver(i, w, m) \/ DeliverTwice(i, w, m) \/ DeadLetter(i, w, m)

Next ==
    \/ \E i \in Worker : Step(i) \/ Fail(i) \/ Queue(i) \/ DeliverOther(i)
    \/ \E w \in Work : Redrive(w) \/ Expire(w)

Spec == Init /\ [][Next]_vars

\* Workers keep running; the Queue delivers a message that is deliverable
\* again and again; scheduled jobs of other accounts keep coming.
FairSpec ==
    /\ Spec
    /\ \A i \in Worker : WF_vars(Step(i))
    /\ \A w \in Work : SF_vars(\E i \in Worker, m \in Message : Deliver(i, w, m))
    /\ SF_vars(\E i \in Worker : DeliverOther(i))

(***************************************************************************)
(* Properties.                                                             *)
(***************************************************************************)
\* Every variable stays in its range.
TypeOK ==
    /\ lease \in Worker \cup {None}
    /\ fence \in Work \cup {None}
    /\ life \in [Work -> Life]
    /\ done \in [Work -> BOOLEAN]
    /\ expired \in [Work -> BOOLEAN]
    /\ source \in [Work -> BOOLEAN]
    /\ nextIndex \in [Work -> 0..Chunks]
    /\ written \in [Work -> SUBSET (1..Chunks)]
    /\ cursor \in Work \cup {None}
    /\ warning \in [Work -> {"none", "pending", "delivered"}]
    /\ alert \in [Work -> BOOLEAN]
    /\ queued \in [Work -> SUBSET Message]
    /\ pc \in [Worker -> Pc]
    /\ job \in [Worker -> Job \cup {NoJob}]
    /\ index \in [Worker -> 0..Chunks]
    /\ item \in [Worker -> Work \cup {None}]
    /\ faults \in 0..MaxFaults

\* The stored progress never runs ahead of the destination: every chunk below
\* nextIndex was written by this Work, whichever invocation stored it, and
\* however late its unguarded savePhase arrived.
ProgressIsWritten ==
    \A w \in Work : \A k \in 1..nextIndex[w] : k \in written[w]

\* A Work with completed_at wrote every chunk, and the checkpoint of its
\* cursor is its own or that of a newer generation.
CompletionIsBacked ==
    \A w \in Work : done[w] =>
        /\ written[w] = 1..Chunks
        /\ cursor # None /\ Generation[cursor] >= Generation[w]

\* The checkpoint is never of a newer generation than the fence: no Work
\* commits before its claim, whatever the order of delivery.
CheckpointBehindFence ==
    cursor # None =>
        fence # None /\ Generation[cursor] <= Generation[fence]

\* A Work that completed once never runs again, not even after a failure
\* handler has marked it terminal: the redrive asks for completed_at.
DoneStaysDone == \A w \in Work : done[w] => life[w] # "active"

\* A checkpoint only ever moves to the Work that holds the fence at that
\* moment, and never to an older generation.
CheckpointMovesForward ==
    [][cursor' # cursor =>
         /\ cursor' = fence
         /\ cursor # None => Generation[cursor'] >= Generation[cursor]]_vars

\* A recorded warning is kept until its alert exists, through abandonment,
\* takeover and cleanup, and its Work is kept with it.
WarningIsKept ==
    [][\A w \in Work : warning[w] = "pending" =>
         /\ warning'[w] = "pending" \/ (warning'[w] = "delivered" /\ alert[w])
         /\ life[w] # "absent" => life'[w] # "absent"]_vars

\* Every message is acknowledged in the end, and a Work none of whose
\* messages is left has reached a final status or was cleaned up.
MessagesSettle ==
    \A w \in Work :
        Outstanding(w) ~> (~Outstanding(w) /\ life[w] # "active")

\* A Work that completes with a warning raises its alert in the end, though
\* the invocation that completed it may have died before the alert.
CompletedWarningIsRaised == \A w \in Warned : done[w] ~> alert[w]

\* Comment of the Queue's work store: "Queue failure handling must never
\* reverse durable completion".
CompletionIsNeverReversed ==
    [][\A w \in Work :
         life[w] = "completed" => life'[w] \in {"completed", "absent"}]_vars
=============================================================================
