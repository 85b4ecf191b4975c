---------------------------- MODULE GoogleDelivery ----------------------------
(***************************************************************************)
(* The signed delivery of Google Ads, from the chunks that are posted to   *)
(* the rows that are written.                                              *)
(*                                                                         *)
(* A script posts one LIVE run in chunks.  The request that completes the  *)
(* run reserves its admission and sends one message, of which D1 keeps a   *)
(* status; requests time out and are posted again while the first one is   *)
(* still under way.  A consumer confirms the receipt, takes the lock of    *)
(* the account, and writes the run unit by unit, first to D1 and then to   *)
(* Lark, with a continuation between units; every error it meets is kept   *)
(* in the status.  A run is made invisible after two hours, or when it is  *)
(* completed.  All messages of a run are equal, so the Queue is their      *)
(* number.                                                                 *)
(*                                                                         *)
(* beginWork, abandonWork and the dead letter of a permanent failure are   *)
(* one step each here: ResumableWork and QueueRecovery have their          *)
(* interleavings.  Nonces, PREVIEW runs and authorisations are left out.   *)
(***************************************************************************)
EXTENDS Naturals, FiniteSets

CONSTANTS
    Poster,      \* requests to the API Worker, and operators, at the same time
    Worker,      \* consumers that run at the same time
    NoOne,       \* no Worker
    Chunk,       \* the chunks of the manifest of the run
    D1Units,     \* pieces of the D1 phase
    LarkUnits,   \* pieces of the Lark phase
    MaxPosts,    \* bound: requests
    MaxRedrives, \* bound: redrives
    MaxFaults    \* bound: failures, crashes, copies and lost leases

ASSUME NoOneAssumption == NoOne \notin Worker
ASSUME ProcessAssumption == Poster \cap Worker = {}
ASSUME ChunkAssumption == IsFiniteSet(Chunk) /\ Chunk # {}
ASSUME UnitsAssumption == D1Units \in Nat \ {0} /\ LarkUnits \in Nat \ {0}
ASSUME BoundAssumption == {MaxPosts, MaxRedrives, MaxFaults} \subseteq Nat

VARIABLES
    run,       \* google_ads_delivery_runs.status
    chunks,    \* google_ads_delivery_chunks
    received,  \* received_chunk_count of the run
    redacted,  \* its payload is gone: payload_redacted_at, payload_json
    status,    \* google_ads_live_admissions.status
    life,      \* sync_work_runs.lifecycle_status of the run's Work
    saved,     \* the units its phases say are written
    written,   \* the units written to their destinations
    queue,     \* messages of the run that wait in the Queue
    dead,      \* open dead letters of the run
    lease,     \* the Worker whose lease has not run out
    overtaken, \* a newer generation has claimed the fence
    late,      \* the two hours of the run are over
    pc,        \* where each request and each consumer stands
    req,       \* the chunk each request is about to stage
    my,        \* what each consumer has read: admission, phase, next unit
    posts,     \* requests so far
    redrives,  \* redrives so far
    faults     \* disturbances so far

runVars == <<run, chunks, received, redacted>>
workVars == <<life, saved, written>>
envVars == <<overtaken, late, posts, redrives, faults>>
vars == <<runVars, status, workVars, queue, dead, lease, envVars, pc, req, my>>

Run == {"none", "assembling", "expired", "invalid"}
Status == {"none", "live_validated", "send_pending", "queued", "processing",
           "completed", "failed_retryable", "failed_permanent"}
Terminal == {"completed", "failed_permanent"}
Life == {"none", "active", "completed", "terminal", "superseded"}
Phase == {"d1", "lark"}
Units == [d1 |-> D1Units, lark |-> LarkUnits]
NoUnits == [d1 |-> 0, lark |-> 0]
Unit == UNION {{f} \X (1..Units[f]) : f \in Phase}
My == [admission: Status, phase: Phase, next: Nat]
Fresh == [admission |-> "none", phase |-> "d1", next |-> 0]
\* assertLockActive() before an effect, and the effect it lets through.
Behind(p) == CASE p = "checkClaim" -> "claim"
               [] p = "checkWrite" -> "write"
               [] p = "checkComplete" -> "complete"
CheckPc == {"checkClaim", "checkWrite", "checkComplete"}
PostPc == {"idle", "stage", "validate", "reserve", "reserved", "pending",
           "isPending", "send", "sendFailed", "mark", "resend", "remark"}
\* Inside the processor, which keeps its errors in the status.
ProcessPc == {"claim", "claimed", "load", "begin", "phase", "write", "save",
              "continue", "complete", "markCompleted", "isCompleted"} \cup CheckPc
WorkPc == {"idle", "receipt", "confirm", "confirmed", "acquire", "read", "leave",
           "retry", "failRetryable", "failPermanent", "abandon"} \cup ProcessPc

Init ==
    /\ run = "none" /\ chunks = {} /\ received = 0 /\ redacted = FALSE
    /\ status = "none"
    /\ life = "none" /\ saved = NoUnits /\ written = {}
    /\ queue = 0 /\ dead = 0
    /\ lease = NoOne
    /\ overtaken = FALSE /\ late = FALSE
    /\ pc = [i \in Poster \cup Worker |-> "idle"]
    /\ req = [p \in Poster |-> {}]
    /\ my = [w \in Worker |-> Fresh]
    /\ posts = 0 /\ redrives = 0 /\ faults = 0

At(i, p) == pc[i] = p
Goto(i, p) == pc' = [pc EXCEPT ![i] = p]
Disturb == faults < MaxFaults /\ faults' = faults + 1
Whole == Cardinality(Chunk)

(***************************************************************************)
(* The API Worker: chunks are staged, the last one admits the run.         *)
(***************************************************************************)

\* cleanupExpired: the run that is still assembling after its two hours.
Expires == late /\ run = "assembling"
CleanedUp ==
    /\ run' = IF Expires THEN "expired" ELSE run
    /\ redacted' = (redacted \/ Expires)

\* A request of this run begins; it cleans up and reserves its nonce.
Receive(p, c) ==
    /\ At(p, "idle") /\ posts < MaxPosts
    /\ CleanedUp
    /\ posts' = posts + 1
    /\ req' = [req EXCEPT ![p] = {c}]
    /\ Goto(p, "stage")
    /\ UNCHANGED <<chunks, received, status, workVars, queue, dead, lease,
                   overtaken, late, redrives, faults, my>>

\* A request of another run cleans up.
Cleanup ==
    /\ Expires /\ CleanedUp
    /\ UNCHANGED <<chunks, received, status, workVars, queue, dead, lease,
                   envVars, pc, req, my>>

\* Stored: the run takes chunks.  One that is there already is not stored
\* again, and only a stored one counts.
Open == run \in {"none", "assembling"}
\* Mutant: a chunk is counted each time it comes.
MutCounted(c) == Open
Counted(c) == Open /\ c \notin chunks

\* stageChunk, one batch: the run, the chunk, the count.
StageChunk(p, c) ==
    /\ At(p, "stage") /\ c \in req[p]
    /\ run' = IF run = "none" THEN "assembling" ELSE run
    /\ chunks' = IF Open THEN chunks \cup {c} ELSE chunks
    /\ received' = IF Counted(c) THEN received + 1 ELSE received
    /\ req' = [req EXCEPT ![p] = {}]
    /\ Goto(p, "validate")
    /\ UNCHANGED <<redacted, status, workVars, queue, dead, lease, envVars, my>>

\* The reads after the batch, and the validation of the run once all of it
\* is there.  A run that does not hold together is closed.
Validate(p) ==
    /\ At(p, "validate")
    /\ LET ready == run = "assembling" /\ received >= Whole /\ ~redacted
       IN  /\ run' = IF ready /\ chunks # Chunk THEN "invalid" ELSE run
           /\ Goto(p, IF ready /\ chunks = Chunk THEN "reserve" ELSE "idle")
    /\ UNCHANGED <<chunks, received, redacted, status, workVars, queue, dead,
                   lease, envVars, req, my>>

Admissible == run = "assembling" /\ received = Whole /\ ~redacted

\* reserve, the insert.
Reserve(p) ==
    /\ At(p, "reserve")
    /\ status' = IF status = "none" /\ Admissible THEN "live_validated" ELSE status
    /\ Goto(p, "reserved")
    /\ UNCHANGED <<runVars, workVars, queue, dead, lease, envVars, req, my>>

\* reserve, the read: what is under way or over is only answered.
Reserved(p) ==
    /\ At(p, "reserved")
    /\ Goto(p, IF status \in {"live_validated", "send_pending", "failed_retryable"}
               THEN "pending" ELSE "idle")
    /\ UNCHANGED <<runVars, status, workVars, queue, dead, lease, envVars, req, my>>

MarkSendPending(p) ==
    /\ At(p, "pending")
    /\ status' = IF status \in {"live_validated", "send_pending", "failed_retryable"}
                 THEN "send_pending" ELSE status
    /\ Goto(p, "isPending")
    /\ UNCHANGED <<runVars, workVars, queue, dead, lease, envVars, req, my>>

\* requireMutable: a row that is over is returned like the wanted one.
IsPending(p) ==
    /\ At(p, "isPending")
    /\ Goto(p, IF status \in {"send_pending"} \cup Terminal THEN "send" ELSE "idle")
    /\ UNCHANGED <<runVars, status, workVars, queue, dead, lease, envVars, req, my>>

Send(p) ==
    /\ \/ At(p, "send") /\ Goto(p, "mark")
       \/ At(p, "resend") /\ Goto(p, "remark")
    /\ queue' = queue + 1
    /\ UNCHANGED <<runVars, status, workVars, dead, lease, envVars, req, my>>

\* The send fails; the message may have reached the Queue all the same.
SendFails(p) ==
    /\ At(p, "send") /\ Disturb
    /\ queue' \in {queue, queue + 1}
    /\ Goto(p, "sendFailed")
    /\ UNCHANGED <<runVars, status, workVars, dead, lease, overtaken, late,
                   posts, redrives, req, my>>

\* markFailed.
Failed(s) == IF status = "completed" THEN status ELSE s

MarkSendFailed(p) ==
    /\ At(p, "sendFailed")
    /\ status' = Failed("failed_retryable")
    /\ Goto(p, "idle")
    /\ UNCHANGED <<runVars, workVars, queue, dead, lease, envVars, req, my>>

\* markQueued.
Queued == IF status = "send_pending" THEN "queued" ELSE status

\* markQueued after the send; its answer only decides the response.
MarkQueued(p) ==
    /\ At(p, "mark")
    /\ status' = Queued
    /\ Goto(p, "idle")
    /\ UNCHANGED <<runVars, workVars, queue, dead, lease, envVars, req, my>>

(***************************************************************************)
(* The consumer: receipt, lock, and the states of the admission.           *)
(***************************************************************************)

Deliver(w) ==
    /\ At(w, "idle") /\ queue > 0
    /\ queue' = queue - 1
    /\ Goto(w, "receipt")
    /\ UNCHANGED <<runVars, status, workVars, dead, lease, envVars, req, my>>

\* confirmGoogleAdsQueueReceipt: a receipt proves that an uncertain send
\* arrived.
Receipt(w) ==
    /\ At(w, "receipt")
    /\ Goto(w, IF status = "send_pending" THEN "confirm" ELSE "acquire")
    /\ UNCHANGED <<runVars, status, workVars, queue, dead, lease, envVars, req, my>>

ConfirmReceipt(w) ==
    /\ At(w, "confirm")
    /\ status' = Queued
    /\ Goto(w, "confirmed")
    /\ UNCHANGED <<runVars, workVars, queue, dead, lease, envVars, req, my>>

\* Another state than queued is a permanent error, outside the processor.
Confirmed(w) ==
    /\ At(w, "confirmed")
    /\ Goto(w, IF status \in {"queued"} \cup Terminal THEN "acquire" ELSE "abandon")
    /\ UNCHANGED <<runVars, status, workVars, queue, dead, lease, envVars, req, my>>

Acquire(w) ==
    /\ At(w, "acquire") /\ lease = NoOne
    /\ lease' = w
    /\ Goto(w, "read")
    /\ UNCHANGED <<runVars, status, workVars, queue, dead, envVars, req, my>>

\* Mutant: a message that finds the lock held is acknowledged.
MutBusy(w) ==
    /\ At(w, "acquire") /\ lease # NoOne
    /\ Goto(w, "leave")
    /\ UNCHANGED <<runVars, status, workVars, queue, dead, lease, envVars, req, my>>
Busy(w) ==
    /\ At(w, "acquire") /\ lease # NoOne
    /\ Goto(w, "retry")
    /\ UNCHANGED <<runVars, status, workVars, queue, dead, lease, envVars, req, my>>

\* getByOperationId and assertAdmissionMatches.
ReadAdmission(w) ==
    /\ At(w, "read")
    /\ my' = [my EXCEPT ![w].admission = status]
    /\ Goto(w, CASE status = "completed" -> "leave"
                 [] status \in {"queued", "processing", "failed_retryable"} -> "checkClaim"
                 [] OTHER -> "failPermanent")
    /\ UNCHANGED <<runVars, status, workVars, queue, dead, lease, envVars, req>>

\* assertLockActive: the effect may come after the lease has run out.
Check(w) ==
    /\ pc[w] \in CheckPc /\ lease = w
    /\ Goto(w, Behind(pc[w]))
    /\ UNCHANGED <<runVars, status, workVars, queue, dead, lease, envVars, req, my>>

CheckFails(w) ==
    /\ pc[w] \in CheckPc /\ lease # w
    /\ Goto(w, "failRetryable")
    /\ UNCHANGED <<runVars, status, workVars, queue, dead, lease, envVars, req, my>>

\* markProcessing.
Claim(w) ==
    /\ At(w, "claim")
    /\ status' = IF status \in {"queued", "processing", "failed_retryable"}
                 THEN "processing" ELSE status
    /\ Goto(w, "claimed")
    /\ UNCHANGED <<runVars, workVars, queue, dead, lease, envVars, req, my>>

Claimed(w) ==
    /\ At(w, "claimed")
    /\ IF status \in {"processing"} \cup Terminal
       THEN my' = [my EXCEPT ![w].admission = status] /\ Goto(w, "load")
       ELSE Goto(w, "failPermanent") /\ UNCHANGED my
    /\ UNCHANGED <<runVars, status, workVars, queue, dead, lease, envVars, req>>

\* loadTransportRun: the payload has to be there.
LoadRun(w) ==
    /\ At(w, "load")
    /\ Goto(w, IF received = Whole /\ chunks = Chunk /\ ~redacted
               THEN "begin" ELSE "failPermanent")
    /\ UNCHANGED <<runVars, status, workVars, queue, dead, lease, envVars, req, my>>

\* beginWork.
Begin(w) ==
    /\ At(w, "begin")
    /\ \/ life = "completed" /\ Goto(w, "markCompleted") /\ UNCHANGED life
       \/ life \in {"terminal", "superseded"} /\ Goto(w, "leave") /\ UNCHANGED life
       \/ /\ life \in {"none", "active"} /\ overtaken
          /\ life' = "superseded" /\ Goto(w, "leave")
       \/ /\ life \in {"none", "active"} /\ ~overtaken
          /\ life' = "active" /\ Goto(w, "phase")
    /\ UNCHANGED <<runVars, status, saved, written, queue, dead, lease, envVars,
                   req, my>>

(***************************************************************************)
(* The phases: D1 first, then Lark, one unit of writing each time.         *)
(***************************************************************************)

\* The phase a consumer has come to the end of, and what is next.
AfterPhase(w) ==
    IF my[w].phase = "d1"
    THEN my' = [my EXCEPT ![w].phase = "lark"] /\ Goto(w, "phase")
    ELSE Goto(w, "checkComplete") /\ UNCHANGED my

\* Mutant: the end of a phase is looked for one unit later.
MutPhaseDone(f) == saved[f] > Units[f]
PhaseDone(f) == saved[f] = Units[f]

\* loadPhase: where the phase goes on.
LoadPhase(w) ==
    /\ At(w, "phase")
    /\ IF PhaseDone(my[w].phase)
       THEN AfterPhase(w)
       ELSE /\ my' = [my EXCEPT ![w].next = saved[my[w].phase] + 1]
            /\ Goto(w, "checkWrite")
    /\ UNCHANGED <<runVars, status, workVars, queue, dead, lease, envVars, req>>

WriteUnit(w) ==
    /\ At(w, "write")
    /\ written' = written \cup {<<my[w].phase, my[w].next>>}
    /\ Goto(w, "save")
    /\ UNCHANGED <<runVars, status, life, saved, queue, dead, lease, envVars, req, my>>

\* Mutant: a phase is complete one unit early.
MutLastUnit(f, n) == n + 1 >= Units[f]
LastUnit(f, n) == n = Units[f]

\* savePhase, whatever has become of the Work; a phase that is not complete
\* is left to a continuation.
SaveUnit(w) ==
    /\ At(w, "save")
    /\ saved' = [saved EXCEPT ![my[w].phase] =
                   IF LastUnit(my[w].phase, my[w].next) THEN Units[my[w].phase]
                                                        ELSE my[w].next]
    /\ IF LastUnit(my[w].phase, my[w].next) THEN AfterPhase(w)
       ELSE Goto(w, "continue") /\ UNCHANGED my
    /\ UNCHANGED <<runVars, status, life, written, queue, dead, lease, envVars, req>>

\* Mutant: the continuation is left to the retry of this message.
MutContinued == queue
Continued == queue + 1

\* queueContinuation, sent while the lease is held.
Continue(w) ==
    /\ At(w, "continue")
    /\ queue' = Continued
    /\ Goto(w, "leave")
    /\ UNCHANGED <<runVars, status, workVars, dead, lease, envVars, req, my>>

CompleteWork(w) ==
    /\ At(w, "complete")
    /\ life' = IF life = "active" THEN "completed" ELSE life
    /\ saved' = NoUnits
    /\ Goto(w, "markCompleted")
    /\ UNCHANGED <<runVars, status, written, queue, dead, lease, envVars, req, my>>

\* markCompleted, one batch: the payload goes whatever the status is.
MarkCompleted(w) ==
    /\ At(w, "markCompleted")
    /\ redacted' = TRUE
    /\ status' = IF status = "processing" THEN "completed" ELSE status
    /\ Goto(w, "isCompleted")
    /\ UNCHANGED <<run, chunks, received, workVars, queue, dead, lease, envVars, req, my>>

IsCompleted(w) ==
    /\ At(w, "isCompleted")
    /\ Goto(w, IF status \in Terminal THEN "leave" ELSE "failPermanent")
    /\ UNCHANGED <<runVars, status, workVars, queue, dead, lease, envVars, req, my>>

(***************************************************************************)
(* The ends of a delivery.                                                 *)
(***************************************************************************)

LetGo(w) ==
    /\ lease' = IF lease = w THEN NoOne ELSE lease
    /\ my' = [my EXCEPT ![w] = Fresh]

\* The lease is released and the message acknowledged.
Leave(w) ==
    /\ At(w, "leave") /\ LetGo(w)
    /\ Goto(w, "idle")
    /\ UNCHANGED <<runVars, status, workVars, queue, dead, envVars, req>>

\* The lease is released and the message delivered again.
Retry(w) ==
    /\ At(w, "retry") /\ LetGo(w)
    /\ queue' = queue + 1
    /\ Goto(w, "idle")
    /\ UNCHANGED <<runVars, status, workVars, dead, envVars, req>>

\* The catch of the processor.
KeepError(w) ==
    /\ \/ At(w, "failRetryable") /\ Goto(w, "retry")
       \/ At(w, "failPermanent") /\ Goto(w, "abandon")
    /\ status' = CASE my[w].admission = "completed" -> status
                   [] At(w, "failRetryable") -> Failed("failed_retryable")
                   [] OTHER -> Failed("failed_permanent")
    /\ UNCHANGED <<runVars, workVars, queue, dead, lease, envVars, req, my>>

\* abandonWork of the failure handlers, and their dead letter.
Ended == IF life \in {"none", "completed"} THEN life ELSE "terminal"
Abandon(w) ==
    /\ At(w, "abandon") /\ LetGo(w)
    /\ life' = Ended
    /\ dead' = dead + 1
    /\ Goto(w, "idle")
    /\ UNCHANGED <<runVars, status, saved, written, queue, envVars, req>>

\* A message has used up its retries.
Exhausted ==
    /\ queue > 0 /\ Disturb
    /\ queue' = queue - 1
    /\ life' = Ended
    /\ dead' = dead + 1
    /\ UNCHANGED <<runVars, status, saved, written, lease, overtaken, late,
                   posts, redrives, pc, req, my>>

(***************************************************************************)
(* An operator redrives a dead letter.                                     *)
(***************************************************************************)

\* prepare: nothing to do for what is over or under way; else the Work and
\* the admission are made ready, unless the lock is held.
Prepare(p) ==
    /\ At(p, "idle") /\ dead > 0 /\ redrives < MaxRedrives
    /\ redrives' = redrives + 1
    /\ \/ /\ \/ status = "completed" \/ life = "completed"
             \/ status \in {"queued", "processing"} /\ life = "active"
          /\ dead' = dead - 1
          /\ UNCHANGED <<status, life, pc>>
       \/ /\ status \in {"failed_retryable", "failed_permanent", "send_pending"}
          /\ life \in {"active", "terminal"}
          /\ Admissible
          /\ lease = NoOne \/ (status = "send_pending" /\ life = "active")
          /\ life' = "active"
          /\ status' = "send_pending"
          /\ Goto(p, "resend")
          /\ UNCHANGED dead
    /\ UNCHANGED <<runVars, saved, written, queue, lease, overtaken, late, posts,
                   faults, req, my>>

\* markQueued and markDeadLetterRedriven.
Redriven(p) ==
    /\ At(p, "remark")
    /\ status' = Queued
    /\ dead' = IF status' \in {"queued", "processing", "completed"} /\ dead > 0
               THEN dead - 1 ELSE dead
    /\ Goto(p, "idle")
    /\ UNCHANGED <<runVars, workVars, queue, lease, envVars, req, my>>

(***************************************************************************)
(* Failures and the rest of the world.                                     *)
(***************************************************************************)

\* A call fails, before or after it took effect, or the invocation dies.
PostFails(p) ==
    /\ ~At(p, "idle") /\ Disturb
    /\ req' = [req EXCEPT ![p] = {}]
    /\ Goto(p, "idle")
    /\ UNCHANGED <<runVars, status, workVars, queue, dead, lease, overtaken,
                   late, posts, redrives, my>>

WorkFails(w) ==
    /\ Disturb
    /\ \/ pc[w] \in ProcessPc /\ Goto(w, "failRetryable")
       \/ /\ pc[w] \in {"receipt", "confirm", "confirmed", "acquire", "read",
                        "failRetryable", "failPermanent", "abandon"}
          /\ Goto(w, "retry")
    /\ UNCHANGED <<runVars, status, workVars, queue, dead, lease, overtaken,
                   late, posts, redrives, req, my>>

Crash(w) ==
    /\ ~At(w, "idle") /\ Disturb
    /\ queue' = queue + 1
    /\ my' = [my EXCEPT ![w] = Fresh]
    /\ Goto(w, "idle")
    /\ UNCHANGED <<runVars, status, workVars, dead, lease, overtaken, late,
                   posts, redrives, req>>

LoseLease(w) ==
    /\ lease = w /\ ~At(w, "idle") /\ Disturb
    /\ lease' = NoOne
    /\ UNCHANGED <<runVars, status, workVars, queue, dead, overtaken, late,
                   posts, redrives, pc, req, my>>

LeaseExpires(w) ==
    /\ lease = w /\ At(w, "idle")
    /\ lease' = NoOne
    /\ UNCHANGED <<runVars, status, workVars, queue, dead, envVars, pc, req, my>>

DeliverTwice ==
    /\ queue > 0 /\ Disturb
    /\ queue' = queue + 1
    /\ UNCHANGED <<runVars, status, workVars, dead, lease, overtaken, late,
                   posts, redrives, pc, req, my>>

\* A newer run of the account is processed.
Overtake ==
    /\ ~overtaken /\ lease = NoOne
    /\ overtaken' = TRUE
    /\ UNCHANGED <<runVars, status, workVars, queue, dead, lease, late, posts, redrives,
                   faults, pc, req, my>>

\* The assembly window of the run closes.
Close ==
    /\ ~late
    /\ late' = TRUE
    /\ UNCHANGED <<runVars, status, workVars, queue, dead, lease, overtaken,
                   posts, redrives, faults, pc, req, my>>

Post(p) == (\E c \in Chunk : Receive(p, c) \/ StageChunk(p, c)) \/ Validate(p)
             \/ Reserve(p) \/ Reserved(p) \/ MarkSendPending(p) \/ IsPending(p)
             \/ Send(p) \/ MarkSendFailed(p) \/ MarkQueued(p)
Redrive(p) == Prepare(p) \/ Redriven(p)
Admit(w) == Receipt(w) \/ ConfirmReceipt(w) \/ Confirmed(w) \/ Acquire(w) \/ Busy(w)
              \/ ReadAdmission(w) \/ Claim(w) \/ Claimed(w)
Process(w) == Check(w) \/ CheckFails(w) \/ LoadRun(w) \/ Begin(w) \/ LoadPhase(w)
                \/ WriteUnit(w) \/ SaveUnit(w) \/ Continue(w) \/ CompleteWork(w)
                \/ MarkCompleted(w) \/ IsCompleted(w)
Finish(w) == Leave(w) \/ Retry(w) \/ KeepError(w) \/ Abandon(w) \/ LeaseExpires(w)
Step(w) == Admit(w) \/ Process(w) \/ Finish(w)

Next ==
    \/ \E p \in Poster : Post(p) \/ Redrive(p) \/ SendFails(p) \/ PostFails(p)
    \/ \E w \in Worker : Deliver(w) \/ Step(w) \/ WorkFails(w) \/ Crash(w) \/ LoseLease(w)
    \/ Cleanup \/ Exhausted \/ DeliverTwice \/ Overtake \/ Close

Spec == Init /\ [][Next]_vars

\* Consumers go on, leases run out, and the Queue delivers what it holds.
FairSpec ==
    /\ Spec
    /\ \A w \in Worker : WF_vars(Step(w))
    /\ SF_vars(\E w \in Worker : Deliver(w))

\* Type: every variable has its type in every state.
TypeOK ==
    /\ run \in Run /\ chunks \subseteq Chunk
    /\ received \in Nat /\ redacted \in BOOLEAN
    /\ status \in Status /\ life \in Life
    /\ saved \in [Phase -> Nat] /\ (\A f \in Phase : saved[f] <= Units[f])
    /\ written \subseteq Unit
    /\ queue \in Nat /\ dead \in Nat
    /\ lease \in Worker \cup {NoOne}
    /\ overtaken \in BOOLEAN /\ late \in BOOLEAN
    /\ pc \in [Poster \cup Worker -> PostPc \cup WorkPc]
    /\ req \in [Poster -> SUBSET Chunk] /\ my \in [Worker -> My]
    /\ posts \in Nat /\ redrives \in Nat /\ faults \in Nat

\* The count by which a run is admitted is that of its chunks, so that a
\* good run is never closed as invalid and never admitted in part, whichever
\* chunks are posted again and at once.
AdmittedIsWhole == run # "invalid" /\ (status # "none" => chunks = Chunk)

\* Whoever finishes a run, a second consumer or one whose lease has run out:
\* completed means that all of it was written, and nothing goes to Lark
\* before D1 has everything.
CompletedIsWritten ==
    /\ status = "completed" \/ life = "completed" => written = Unit
    /\ \A k \in 1..LarkUnits : <<"lark", k>> \in written =>
          {<<"d1", j>> : j \in 1..D1Units} \subseteq written

InHand(w) == ~At(w, "idle")
\* A Work that is active has a message, or a dead letter that an operator
\* can redrive - unless another consumer has completed the run.  After one
\* redrive only: a late markQueued of the API Worker makes a second one close
\* its dead letter although the first died before it sent a message.
NothingIsStranded ==
    life = "active" /\ status # "completed" /\ redrives < 2 =>
        queue > 0 \/ dead > 0 \/ \E w \in Worker : InHand(w)

\* A run that is queued comes to its end: completed, failed, superseded, or
\* with a dead letter.
Settles ==
    status = "queued" ~>
        \/ status \in Terminal \/ dead > 0
        \/ life \in {"completed", "terminal", "superseded"}

\* What the contract of the delivery says: an incomplete run expires after
\* two hours, one that failed keeps its payload for a redrive.
PayloadIsKept ==
    status \in {"failed_retryable", "failed_permanent"} /\ redacted => written = Unit
================================================================================
