# Verification of the reliability core

This directory holds TLA+ models of social-marketing-integration, the TLC
configurations that model-check them on small instances, and TLAPS proofs of
theorems about them for every value of their constants. It covers the part of
the program where several invocations, crashes and repeated deliveries meet:
the lease lock, resumable Works, the staged TikTok sync with its incremental
checkpoint, the signed delivery of Google Ads, the at-most-once notification,
the mirror outbox, and the queue consumers with their automatic recovery.

Paths below are relative to `src/`. Short names used throughout:

| short | file |
| --- | --- |
| RUN | `packages/reliability/src/reliable-sync-runner.js` |
| RS | `packages/reliability/src/d1-reliability-store.js` |
| QO | `packages/reliability/src/d1-queue-operation-store.js` |
| MO | `packages/reliability/src/d1-reliability-mirror-outbox.js` |
| WS | `packages/sync-engine/src/d1-resumable-work-store.js` |
| QT | `packages/sync-engine/src/queue-terminal-safe-d1-resumable-work-store.js` |
| QB | `apps/sync-worker/src/queue-batch-router.js` |
| NS | `packages/connectors/src/lark/d1-lark-notification-delivery-store.js` |
| NU | `packages/application/src/notifications/deliver-lark-executive-notification.js` |
| CP | `packages/sync-engine/src/d1-incremental-state-store.js` |
| TT | `packages/application/src/use-cases/sync-tiktok-creator-native-to-lark.js` |
| TB | `packages/application/src/use-cases/sync-tiktok-staged-business-to-lark.js` |
| GA | `packages/connectors/src/google-ads/d1-google-ads-live-admission-store.js` |
| GD | `packages/connectors/src/google-ads/d1-google-ads-manager-delivery-store.js` |
| GR | `packages/connectors/src/google-ads/d1-google-ads-live-redrive-store.js` |
| GP | `packages/application/src/use-cases/process-google-ads-manager-signed-delivery.js` |

Contents: 1 inventory, 2 plan, 3 modules and code, 4 runs, 5 bounds, 6 fairness,
7 proofs, 8 what the code and its documents disagree about, 9 what is not
modelled.

## 1. Inventory

The repository is a JavaScript program for Cloudflare Workers. A cron or an HTTP
request puts job messages into a Cloudflare Queue; a queue consumer (`sync-worker`)
runs each job: it reads a marketing source (YouTube, TikTok, Meta, Chatwoot,
WooCommerce, Google Ads), writes tables of Lark Base, and keeps its own state in
D1 (SQLite). Everything hard comes from four facts: D1 statements are the only
atomic thing; the Queue delivers at least once, and overlapping invocations are
possible; an invocation may be evicted at any `await`; and a remote call may take
effect without its answer arriving.

| component | state it keeps | operations | what makes it hard | what makes it correct |
| --- | --- | --- | --- | --- |
| Sync lease and reliable run (RUN, RS) | row of `sync_locks`, the heartbeat's local expiry, `sync_runs`, `system_alerts` | acquire, renew, check, release, save run, raise alerts | statements arrive late; the check is local; release, renewal and outcome fail after taking effect | one run writes at a time, one late chunk at most, the log tells the outcome, nothing leaves a lease behind |
| Resumable Work (WS, QT, the YouTube driver) | `sync_work_runs`, `sync_generation_fences`, phases, units, `sync_cursors`, `sync_warning_outbox` | begin, save phase, checkpoint, complete, abandon, supersede, redrive, drain, clean up | many invocations per Work, newer Works take over between two statements, unguarded statements | progress is backed by writes, completion by all of them and a checkpoint, the checkpoint moves forward, a warning is raised |
| Executive notification (NU, NS) | `lark_notification_deliveries`, Lark group, Notification Log, AI run | claim, reserve, post, outcome, mirror | claims expire under a live owner, lost answers | at most one post, sent means shown, the mirror is backed |
| Mirror outbox (MO, RS, `deliver-reliability-mirror.js`) | `reliability_mirror_outbox`, Lark log and alert tables | save, schedule, wake, drain, mark | saves overtake deliveries, poison rows, lost wake-ups | no save is lost, delivered means shown, everything Lark takes is delivered |
| Queue consumers and automatic recovery (QB, QO) | `dead_letter_jobs`, its metadata, `system_alerts`, the Work | retry, permanent failure, dead letter, claim, revive, resend, close | two consumers, many statements, dead letters delivered twice, budget | budget kept, closing is earned and final, nothing forgotten, the finished not revived |
| Incremental checkpoint (CP, `plan-tiktok-incremental-source.js`) | `source_record_states`, `sync_cursors` | plan the changed records, batches behind a generation check, final cursor batch, deletion of unseen rows | a superseded run between two batches, a checkpoint whose answer is lost | a recorded fingerprint is shown in Lark, a kept result left no record out |
| TikTok sync (TT, TB, `tiktok-resumable-source.js`, `tiktok-staged-business-phases.js`) | pages, plan, preflight and write phase of its Work, numbered continuations | admit, stage a page, plan, preflight, write a unit, check completeness, checkpoint, complete, continue | the source changes while it is staged, stale deliveries, a crash between keeping and sending a continuation | Lark only moves forward, an active Work always has a message |
| Operator's redrive (`redrive-dead-letter-job.js`, RS 227-303, GR) | dead letter generation, the Work | reserve, send, mark | a crash between the calls | nothing is stranded by it |
| Google Ads delivery (GD, GA, GP, `google-ads-job-router.js`) | runs, chunks, admissions, the Work of the run | stage a chunk, validate, admit, send, confirm receipt, claim, write, continue, complete, fail, redrive, expire | chunks posted at once and again, uncertain sends, status and Work changed by different consumers | an admitted run is whole, a completed one was written, nothing is stranded, every queued run settles |
| Table sync engine (`packages/sync-engine`) | none | plan by key, write in chunks | keys that repeat | the plan makes the table equal to its source |
| Source syncs (Meta, Chatwoot, WooCommerce) | phases and units of their Works | phase plans, collecting, normalising | as for Works | as for Works |
| Retention | Lark rows | delete old rows while nothing is locked | holds no lock itself | nothing current is deleted |
| Customer connections | credentials, OAuth state | authorise, refresh, revoke | concurrent refresh | the newest token stays |
| Reports, dashboards, weekly executive job | requests, weekly state | compute, render, enqueue | mostly pure | one report per request |
| Scheduling, connectors, configuration, scripts | none of their own | | input and output | |

How they interact: a scheduled message names a Work; the consumer calls the
driver, which runs under `runReliableSync` (the lease), inside which
`beginWork` claims the generation fence and the Work store keeps the progress.
The outcome and the alerts are saved by the reliability store, whose durable
variant schedules their mirror. A failure leads back to QB, which retries,
abandons the Work or lets the Queue move the message to the dead letter queue,
whose consumer may revive the Work and send its message again. Google Ads runs
come in by HTTP instead of a schedule: the API Worker stages and admits them,
and from then on they are messages and Works like the others. A report ends in
a notification message, with a delivery protocol of its own. All coordination
goes through D1 rows; no two components share memory.

`PROJECT.json` has the same list with statuses, and under `hazards` every place
where the code is exposed to an interleaving, a crash, a lost answer or a limit,
each with its line and with the properties that watch it, or the reason why none
does. A few lesser ones are in sections 8 and 9 only.

## 2. Plan

The order is that of importance: first what everything else runs under.

1. **SyncLease**, the lease and the run that holds it. *Done.*
2. **ResumableWork**, the life of a Work over many invocations; the lease is
   abstracted to its holder, which is what item 8 justifies. *Done.*
3. **AtMostOnceMessage** (abstract) and **NotificationDelivery**, which
   implements it. *Done.*
4. **MirrorOutbox**. *Done.*
5. **QueueRecovery**; running a Work is abstracted to how it ends, which
   ResumableWork has in detail. *Done.*
6. **TikTokSync**, the driver with the incremental checkpoint, from the page of
   the source to the fingerprint. *Done.*
7. **GoogleDelivery**, from the posted chunk to the written run, with its
   redrive. *Done.*
8. **ExclusiveLease**, the abstract lock ResumableWork, TikTokSync and
   GoogleDelivery take for granted, shown to be implemented by SyncLease. *Done.*
9. **Retention**, which looks for locks and holds none; table planning
   (`planByKey`) as a function against the equality of the tables.
10. The generation of an operator's redrive in the dead letter rows, beside
    QueueRecovery; the phase plan of the Meta sync; customer connections and the
    weekly state machine.

There is one run for each question, and a small question joins an existing run.

Every safety property that a passing run checks is also a theorem. Still worth
proving: that the lease actions of ResumableWork, TikTokSync and GoogleDelivery
allow every step of ExclusiveLease; what the drain guarantees with several
drains; the modules of items 9 and 10 when they are there.

## 3. Modules and code

Every module has one action per statement or remote call that can be told apart
from the outside, with the guards of its WHERE clause and its early returns.
`MC*` modules give the constants; `*Proofs` modules hold the theorems. A
definition named `Mut*` is a mutated form of the definition next to it, not used
by the specification: it is there to show that a property does depend on the
code the definition stands for.

### SyncLease

One row of `sync_locks`, contended by invocations of `runReliableSync`.

* `Start`, `Grant`, `Busy`, `AcquireFails`, `SkipBusy`: reading the clock for the
  acquisition, its statement taking effect later, and the answers. The row is
  granted when it is absent, runs out by the time carried by the statement, or
  has the same owner.
* `RenewStart`, `Renew`, `RenewLost`, `RenewFails`: one renewal of the heartbeat
  with its retries. `Renew` may take effect without its answer.
* `Begin`, `CheckChunk`, `WriteChunk`, `ExecuteReturns`, `ExecuteThrows`: the
  execution, with `assertActive` before every chunk on the local clock.
* `SaveOutcome`, `RaiseWarning`, `SaveFailure`, `RaiseFailure`, `SaveFails`: the
  outcome and its alerts, in the order and with the error paths of RUN.
* `Stop`, `Release`, `ReleaseFails`: the `finally` block.
* `Crash`, `Tick`: the environment.

State: `lock` (the row), `expiresAt`, `attempt`, `terminal` (the heartbeat),
`issued` (the clock value a statement in flight carries), `pc`, `outcome`,
`chunks`, `log` and `alerts`; `late` and `faulted` are history. All Workers read
one clock: a difference between their clocks is not modelled and the
properties do not hold beyond it.

**ExclusiveLease** is what the lease promises to the code that runs under it: one
holder, taken over by force but never while the check of any run would pass; an
effect only behind a check of the holder; no run that lost the lease has it again, so
that the effect it was let through for is its last. `Holders` (runs inside the
guarded body that own the row), `Sure` (those whose `assertActive` would pass)
and `StageOf` (before the lease, inside, behind a check, over) map SyncLease to it.
The other modules abstract the lease to its holder: `Acquire` is `Take` after a
`LoseLease` or `LeaseExpires`, `Check` and the effect behind it are `Check` and
`Effect`, and a Worker that lost the lease goes on to its next check.

### ResumableWork

The Works of one cursor, run by the bounded YouTube driver.

* `Acquire`, `Busy`, `Release`, `LoseLease`, `LeaseExpires`: the lease as its
  holder. A Worker that lost it goes on until its next check.
* `ReadWork`, `ClaimFence`, `RecordSuperseded`, `UpsertWork`: `beginWork`.
* `LoadPhases`, `Check`, `CheckFails`, `SaveSource`, `WriteChunk`, `SavePhase`:
  the pieces, each behind `assertCurrentWork`; `savePhase` itself asks for
  neither generation nor life cycle (WS 185).
* `SaveWarning`, `SaveCursor`, `Confirm`, `CompleteWork`, then `RaiseWarning`,
  `MarkWarning`: the commit; `DrainRaise`, `DrainMark`, `DrainEnds`: the drain
  of the warnings other invocations left.
* `FailsRetryably`, `FailsPermanently`, `AbandonRead`, `AbandonWrite`,
  `DeadLetter`: failure handlers. `AbandonRead` and `AbandonWrite` are QT's two
  statements. `Redrive` is `prepareCompletedSourceRedrive` (QT 33): a terminal
  Work whose source phase is complete is made active again, and sent.
* `CleanupSelect`, `CleanupBatch`, `Expire`: retention of Works, which comes
  only after the Queue has given up their messages.
* `Deliver`, `DeliverTwice`, `DeliverOther`, `Ack`, `Crash`: Queue and Workers.

Abstractions: one source phase; the drain takes one warning at a time; cleanup
has one candidate per invocation; what a Work has written is never taken away.

### TikTokSync

The Works of one TikTok account, one record per page, unit and checkpoint batch,
so that everything that can come between two records can come between any two.

* `Deliver`, `DeliverTwice`, `Acquire`, `Busy`, `Begin` (`beginWork` with its
  fence, one step), `Admit` (`admitInvocation`, TT 121: a message whose number is
  that of the state does the next piece, the one before it sends the kept
  continuation again, an older one ends, a newer one is a permanent error).
* `ReadPage`, `SavePage`: the source. The page is read behind `assertCurrent` and
  stored without it.
* `Load`: what the invocation reads before its piece (phases, checkpoint, the
  row of Lark to compare with) and the choice it makes, in the order of TB:
  result kept, checkpoint already saved, plan, preflight, unit, end of the write
  phase. The scan of the staged units belongs to the plan.
* `Check`, `CheckFails`: `assertCurrent`, before each effect but those above.
* `SavePlan`, `SavePreflight`, `WriteUnit`, `SaveProgress`, `SaveFinal` (with the
  completeness check), `SaveAttempt`: one step per remote call.
* `AssertGeneration`, `Batch`, `FinalBatch`, `Confirm`: `saveCheckpoint` (CP 51-267).
  Every batch is guarded by the generation and by nothing else; the final one
  moves the cursor and, after a full snapshot, deletes what the run has not seen.
* `SaveSaved`, `SaveResult`, `Complete`, `SaveContinue`, `Release`, `Send`.
* `Fails`, `FailsPermanently`, `Abandon`, `DeadLetter`, `LoseLease`,
  `LeaseExpires`: failures and deaths. `Edit`: the source table changes.

State: `source`, `lark`, `recorded` and `cursor` (CP's two tables), `phase` (all
phases of a Work), `life`, `fence`, `lease`, `queued`, and what each Worker has
read (`my`). A fingerprint stands for the content it was made of. `late`, `torn`
and `reverted` are history: the records and Works a Worker wrote which was no
longer current, and the records whose source went back. They mark the exceptions
the properties name; a Worker becomes one of these only by losing its lease or
its generation between a check and the effect behind it, which SyncLease bounds
to one late chunk. `CheckpointIsComplete` excepts the Lark row of a record whose
source went back, but not its fingerprint: see section 8.

### GoogleDelivery

One LIVE run, posted in chunks.

* API Worker: `Receive` (clean up, nonce), `StageChunk` (one batch of GD: run,
  chunk, count), `Validate`, `Reserve` and `Reserved` (the insert and the read of
  it), `MarkSendPending` and `IsPending`, `Send` or `SendFails` (which may have
  sent), `MarkSendFailed`, `MarkQueued`. `Cleanup` is the same clean up by a
  request of another run.
* Consumer: `Receipt`, `ConfirmReceipt`, `Confirmed` (a message that is here was
  sent), `Acquire`, `Busy`, `ReadAdmission`, `Claim`, `Claimed` (the update and
  `requireMutable`, which also returns rows that are over), `LoadRun`, `Begin`,
  `LoadPhase`, `WriteUnit`, `SaveUnit`, `Continue`, `CompleteWork`,
  `MarkCompleted`, `IsCompleted`; `Check` and `CheckFails` are `assertLockActive`.
* Ends: `Leave`, `Retry`, `KeepError` (the catch of GP, which keeps the error in
  the status), `Abandon`, `Exhausted`.
* Operator: `Prepare` (GR), `Send`, `Redriven`.
* `PostFails`, `WorkFails`, `Crash`, `LoseLease`, `LeaseExpires`, `DeliverTwice`,
  `Overtake` (a newer run), `Close` (the two hours are over).

State: `run`, `chunks`, `received`, `redacted` (GD's tables), `status` (the
admission), `life` and `saved` (the Work and its phases), `written` (the
destinations), `queue` and `dead` (numbers, as all messages of a run are equal),
`lease`. Merged: the reads that follow a batch of `stageChunk`; `beginWork`;
`abandonWork` with the dead letter that follows it; the statements of `prepare`.

### NotificationDelivery and AtMostOnceMessage

One row of `lark_notification_deliveries`. `Deliver`, `Load`, `Claim`, `ReadBack`,
`Reserve` (markSending), `Post`, `Arrive`, `Answer`, `NoAnswer`, `NoToken`,
`Confirm` (markSent), `Doubt` (markBlockedUnknown), `Plan`, `WriteLog`,
`WriteMark`, `MarkMirrored`, `MirrorFails`, `MarkFailed`, `Reject`,
`CallFails`, `Crash`, `Edit` (the text of the AI run changes), `Tick`. A
statement's time is some `t` between the step before it and now. A message that
is posted may arrive in the group after its sender has stopped waiting. The
Queue holds copies of each message and gives it up after `MaxAttempts`.

AtMostOnceMessage is the promise: open, reserved, sent or unknown, and one post.
`Phase` maps a row to it; claims, read-backs and mirrors are stutters.

Merged: the update of `claim_count` for a replay of a sent row with the read
that follows; the plan of the AI run is always an update.

### MirrorOutbox

Rows of `sync_runs` and `system_alerts` with their outbox rows and Lark rows.

* Save: `Start`, `SavePrimary`, `ReadAlert` (the alert is read back, RS 126),
  `Schedule` (revision + 1, pending), `Signal`, `SaveFails`; `Resolve` is the
  recovery that resolves alerts with a statement of its own (QO 363).
* Drain: `Drain` lists the first `Limit` pending rows; `Plan` and `Execute` are
  the table sync of one row; `MarkDelivered` asks for the revision that was
  read; `MarkDeliveryFailed` sends the row to the end of the line and ends the
  drain, with `ExecuteFails`, `MarkFails`, `DrainFails`, `Defer` as its error paths.
* `Cron` wakes the drain.

Left out: `markPermanentFailed` of malformed rows; a Lark write that lands after
its Worker was killed; `error_message`, which is omitted when absent, so Lark
keeps an old text.

### QueueRecovery

All messages of one Work, a main consumer and a dead letter consumer.

* Main: `DeliverMain`, `Acquire`, `Busy`, `BeginRead`, `BeginClaim`, then `WorkPauses` (lease
  released) and `WorkContinues` (continuation sent without it), `WorkCompletes`,
  `WorkIsStale`, `WorkFailsPermanently`.
* Closing, at each successful end: `ListIncidents`, `CloseIncident`, `CloseEnds`.
* Permanent failure: `FailRead`, `FailWrite`, `FailLetter` (`terminal:m`).
* Dead letter: `DeliverDead`, `DeadRead`, `DeadWrite`, `SaveLetter`, `SaveMetadata`,
  `SaveAlert` (`dlq:m`), `Authorize`, `ClaimIncident` (one UPDATE that counts
  and claims), `Revive`, `Reread`, `Resend`, `MarkQueued`.
* `Fails`, `Crash`, `LoseLease`, `LeaseExpires`, `Overtake` (a newer request).

Merged: fence claim and row write of `beginWork`; the two reads that list the
incidents. The limits on retries are those of the Queue; a message of the main
queue that exceeds them moves to the dead letter queue, one that exceeds
those of the dead letter queue is lost.

## 4. Runs

| run | question | answer |
| --- | --- | --- |
| `lease_unique` | two runs with ids of their own, expiry, renewals, failed calls, crashes | a passing check means the row is owned; implements ExclusiveLease; at most one late chunk; a run that ended without fault leaves no lease; log and alerts tell the outcome |
| `lease_ends` | does a run end whatever its heartbeat has in flight? | yes, under the fairness of section 6 |
| `work_settles` | two requests of one cursor, the older warned, with failures, crashes, takeover, redrive and clean-up | progress, completion and checkpoint are backed, a warning is kept and raised, every message is settled |
| `work_reversed` | is a completion never reversed? | it can be (section 8) |
| `tiktok_current` | two requests of one account over a source that changes, with a copied message, a failure or a lost lease anywhere | a recorded fingerprint is shown in Lark, a kept result left nothing out, Lark moves forward, no active Work is without a message |
| `tiktok_stale` | is a fingerprint recorded only after its content was written? | not when a stale delivery stores an old page (section 8) |
| `google_delivers` | two chunks posted at once, two consumers, a redrive, a newer run, a fault anywhere | an admitted run is whole, a completed one was written to D1 before Lark, nothing is stranded, every queued run settles |
| `google_expires` | does a failed run keep its payload? | no, it is removed after two hours (section 8) |
| `notification_exact` | two messages of one operation, claims that expire, lost answers, edits | implements AtMostOnceMessage: one post at most; sent is shown, mirror backed |
| `outbox_delivers` | a refused run and an alert share a drain of one row | no save lost, delivered is shown, resolved stays resolved, the alert is delivered |
| `queue_recovers` | three messages through retries, dead letters, one recovery, closing | budget kept, closing backed and final, nothing forgotten, the done not revived |
| `queue_permanent` | is a permanent failure never revived? | it can be (section 8) |

Deadlock is not checked, since these systems legitimately stop: when every
message is settled, every run has ended or the bounded clock stands. What must
not stop early is stated as a liveness property or, for QueueRecovery, as the
invariant NothingIsForgotten about the states in which nothing is left to do.

Every property of a passing run has a mutant in `PROJECT.json`: a plausible
slip in one definition (a dropped guard, a swapped order, an off-by-one) under
which TLC finds the property violated with the same configuration.

## 5. Bounds

* `lease_unique`: 2 invocations, leases of 2 ticks, 1 attempt per renewal, 2
  chunks, 3 ticks. Three ticks let a lease expire, be taken over and the first
  run come back; two chunks are needed for a second late one. Invocations are
  symmetric and no liveness property is checked. 2.25 million states.
* `lease_ends`: 2 attempts per renewal, so that a stop meets a retry in flight; no
  chunks, since they add nothing to the end of a run; no symmetry.
* `work_settles`: 2 Workers, 2 Works, 2 chunks (a continuation in the middle), one
  disturbance: a failure, a lost lease, a crash or an act of an operator.
  `work_reversed` needs two, one Work and one chunk.
* `tiktok_current`: 2 Workers, 2 Works, 2 records, the contents 1 and 2, one of the
  two records absent at first or not, 1 change of the source and 1 disturbance. A second
  record is what a batch, a unit or a page can leave out; a change is what the
  newer Work has to carry. Three exits by permanent error (a continuation ahead
  of its state, phases of different plans, an incomplete write phase) need two
  disturbances and do not happen in this run; the theorems cover them. 3.5
  million states.
* `tiktok_stale`: one Work and one record, two disturbances.
* `google_delivers`: 2 chunks, 2 requests in all (the same chunk twice among
  them), one D1 unit and two Lark units (a continuation in between), 1 redrive,
  1 disturbance. Requests and consumers are not symmetric here, since a liveness
  property is checked. 750 thousand states.
* `notification_exact`: 2 Workers, 2 messages of one owner, so that an owner can
  be mistaken for another invocation of itself; 2 deliveries of each message; 2 texts;
  a lease of one tick and one tick, so that a claim can expire.
* `outbox_delivers`: 1 writer and 1 drain, because two of its properties are only
  claimed for those (one drain: `wrangler.sync.example.jsonc:49`, `max_concurrency` 1);
  the theorem NoLostSave is for any number. `Limit` 1 makes the refused row
  occupy the whole drain; 3 changes of a D1 row; 2 faults.
* `queue_recovers`: 2 consumers, 3 messages (request, continuation, resent or
  second continuation), 2 deliveries on the main queue, 4 on the dead letter
  queue, 3 faults, budget 1. NothingIsForgotten assumes fewer faults than
  deliveries of the dead letter queue: past those the platform drops the message.
  A variant with 4 messages also passes.

Counters are bounded in guards by `MaxChunk`, `MaxTime`, `MaxAttempts`,
`MaxVersion`, `MaxEdits`, `MaxPosts`, `MaxRedrives`, `MaxFaults` and `Messages`
and by nothing else; the theorems hold for any value of them.

## 6. Fairness

* SyncLease: weak fairness of each invocation's steps and of the answer to a
  renewal in flight. An awaited D1 call answers or throws, and an invocation that
  is not evicted continues. The timer is not fair, the clock is not fair, and
  `Crash` is always possible.
* ResumableWork: weak fairness of each Worker's steps; strong fairness of the
  delivery of each Work's messages, since the Queue delivers again what was not
  acknowledged and other deliveries may take the Worker in between; strong
  fairness of messages of other accounts, which the cron keeps sending and whose
  drains raise the warning a dead invocation left.
* GoogleDelivery: weak fairness of each consumer's steps, among them the end of a
  lease left by a dead consumer; strong fairness of the delivery of what the
  Queue holds. Requests, operators, the newer run and the end of the two hours
  are not fair: nothing makes them come.
* MirrorOutbox: weak fairness of saves, drains and the cron, which runs every few
  minutes and wakes the drain without any save.
* TikTokSync, NotificationDelivery and QueueRecovery state no liveness and assume
  no fairness. For TikTokSync the invariant NothingIsStranded is the part of it
  that depends on this code rather than on the Queue.

## 7. Proofs

TLAPS checks these modules; each theorem is about all values of the constants
under the named assumptions of its module, including the number of Workers and
messages. `PROJECT.json` lists the theorems. Every invariant below was checked by
TLC on the instance of a run before it was proved. Some theorems have an
assumption of their own, stated in the theorem:

* `OwnersAreUnique` (SyncLease): the run ids of two invocations differ, as
  `crypto.randomUUID()` makes them. Routers that derive the id from the operation
  break it, and with it these theorems (section 8); `TypeCorrect` and
  `WarningAlerted` do without.
* `OneDrain` (MirrorOutbox): one deliverer, which is `max_concurrency` 1 of the queue
  (`wrangler.sync.example.jsonc:49`). `OneWriter`: one saver at a time.
* `MaxFaults < DeadTries` (QueueRecovery): fewer failures than deliveries of the
  dead letter queue, beyond which the platform drops the message.

**SyncLeaseProofs.** `TypeCorrect`. `ActiveLease` and `MutualExclusion` from
`LeaseInv`: a statement carries a time not later than now, the expiry a run knows
is never beyond what a renewal in flight will set, and the row of a run whose check
passes is its own and lasts as long. `LostLease` (a run that lost the row never
owns it again; no run checks it by itself, it is a step to the next) and
`AtMostOneLateChunk` from `LateInv`: after a late chunk the run does not own the
row and is not at a point from which it writes. `LeaseCleanedUp` from `LeftInv`: a
renewal is in flight only before the point of release, and a row belongs to a run
that holds, that died or that had a fault. `WarningAlerted` and `OutcomeLogged`
from `Course` (the outcome a run carries fits the point it stands at), `Alerted`
and `Logged` (what the stores hold from the statement that saves it to the end).
`LeaseImplemented`: under the mapping of section 3 each step is a step of
ExclusiveLease or a stutter; the step that matters is a grant, which `RowTaken`
shows to happen only when nobody is sure.

**ResumableWorkProofs.** `TypeCorrect`; then `Core`: CheckpointBehindFence, what
every stored row implies (`Stored`), and what a Worker may rely on between its
check and its effect (`Knows`). It is inductive because the fence, the
checkpoint, the written chunks and the alerts only move forward (`Forward`,
`Keeps`): what a Worker knew remains true however late its unguarded statement
comes. From it `CheckpointFollowsClaim`, `ProgressBacked`, `CompletionBacked`,
`CompletedForGood`, `CheckpointForward`, `WarningKept`.

**TikTokSyncProofs.** `TypeCorrect`, and `NoWorkStranded` from `Chain`: an active
Work has a message whose number is at least the one before that its state waits
for, in the Queue or in the hands of a Worker (`Pending`); a Work that has not begun has
no phases (`Unbegun`); a Worker that sends sends the number after that of its
message, and past `beginWork` its Work has begun (`Numbered`). The message before
counts because it sends the kept continuation again.

**TikTokCheckpointProofs.** `FingerprintTrue`, `LarkForward` and
`CheckpointComplete`. None of the three is inductive, since what is recorded was
planned by one Work, written by another and confirmed by a third. The invariant
that carries them has these parts, each about every Work and every Worker:

* `Taken`: the fence has come to, or past, every Work whose phases are not empty
  and the Work of every Worker that has begun one, so it never comes back to them.
* `Rows`: a write row is complete only when every selected record of its plan is
  written, and only then is a checkpoint tried; the rows that Workers hold are of
  this kind, and each attempt under way has a run number of its own.
* `Forward`: of each record, the fingerprint is not ahead of Lark, Lark not ahead
  of the source, and what a Work has staged or a Worker holds to write lies
  between them. This is what makes a fingerprint true and a write no step back.
* `Whole`: of a Work whose phases only current Workers wrote, the plan leaves out
  only what is recorded already, and a result or a saved checkpoint means that all
  is recorded; a current Worker has read what is stored, and what a Worker records
  is the plan of its Work, through attempts that were repeated.

`Forward` needs `Rows` (what is written was selected by the plan in hand) and
`Taken` (a Work that was overtaken plans no more); `Whole` needs all three.

**GoogleDeliveryProofs.** `TypeCorrect`, `WholeRuns` and `CompletedWritten` from
`IInv`: the count is that of the chunks (`Counts`), before the admission
nothing is sent, consumed or dead-lettered (`Begun`), stored progress is
backed by written units and Lark comes after D1 (`Progress`), and what each
consumer knows at its place (`Local`), which stays true because `written` only
grows. `CarriedOn` from `Carried`: an active Work has a message or a consumer that
will send, return or end it. NothingIsStranded itself is not inductive: a consumer
that has completed the Work counts in it although it leaves nothing behind, and a
dead letter counts although `prepare` may close it. So `Carried` lets neither
count before the redrive, and a dead letter after it only until the redrive has
sent.

**NotificationDeliveryProofs.** `TypeCorrect`; then `Core` of three parts: the row
and the group agree (`RowCore`), a Worker between reservation and outcome is the only
one (`SendCore`), a Worker that mirrors works for a sent row (`MirrorCore`). The
owner of the row is not enough, since several messages share one: the reservation
`claimed -> sending` happens once because nothing leads back to `claimed`.
From it `SentShown`, `MirrorBacked`, `ExactSend` (at most one post) and
`FinalOutcome` (sent and blocked_unknown stay), which no run states since the
refinement contains them, and
`ImplementsPromise`: initial state to initial state, and each step to a step or
a stutter of AtMostOnceMessage.

**MirrorOutboxProofs.** `TypeCorrect`, which includes that the line is a ranking
(`ToTheEndRanking`), and `NoLostSave` from `IInv`: types, ranks that tell the rows of
a batch apart, a saving Writer knows its entry, the row about to be marked was
written. `DeliveredShown` from `ShownInv`: with a single drain its batch is of rows that
are still pending at their revision, a plan fits the row of Lark it was made for,
and the row about to be marked is shown. `ResolvedForGood` from `ResolvedInv`: an
alert that was scheduled as resolved is resolved in D1, also in the copy the
single writer has read back.

**QueueRecoveryProofs.** `TypeCorrect`, `ClosingIsEarned`, `Budget`, `Closing`,
`NoSecondLife` from `IInv`: types, `Quota` (a waiting message has a try left),
`Local` (a consumer past a statement has its evidence), `Agree` (the three
tables agree on each incident), `Begun`, ClosedIsBacked. `Closing` is an action
property and needs `Agree`, since the statements of one closing are one batch
but those of a dead letter are not. `NothingForgotten` from `Held` (a
consumer's message is its own and stands where its place says) and `Remembered`
(an exhausted Work, or an active one not done, has a message that will tell of
it): tries of a dead letter are lost one by one to faults, so that with
fewer faults than tries the message is there until its incident is open, and an
incident is closed only for a Work that was done.

Only model-checked: liveness (EveryRunEnds, MessagesSettle,
CompletedWarningIsRaised, PendingIsDelivered, Settles), which is beyond this
prover. The modules declare no RECURSIVE operator.

## 8. Where code and documents disagree

Each of these is a run whose counterexample TLC finds; `PROJECT.json` quotes the
lines.

* **work_reversed.** QT reads the life cycle and then updates; a Work that
  completes in between becomes terminal. It does not run again (`CompletedForGood`).
* **queue_permanent.** The first terminal reason is kept, so that a Work whose
  message ran out of retries is revived after another of its messages failed
  permanently.
* **tiktok_stale.** A page of the source is stored without asking for the lease. A
  delivery that lost it while it read stores its older page over the one another
  delivery has planned: Lark gets the old content, the checkpoint the new
  fingerprint, and later runs skip the record.
* **google_expires.** A LIVE run stays `assembling` after it is whole and
  admitted, so that its payload is removed two hours after it began, also when it
  failed and waits for a redrive, for which the contract
  (`docs/google-ads-manager-script-signed-delivery-contract-v1.md:410`) keeps it
  up to seven days.

Seen while modelling, without a run of their own:

* Release deletes by owner (RS 376). Routers that derive the run id from the
  operation give two deliveries of one message the same owner, and the first one
  to end frees the lease of the other. The runs of SyncLease use ids of their own.
* A Worker that dies after `markSending`, or loses its answer, leaves the row in
  `sending`, which no later delivery turns into `blocked_unknown` (NS 127).
* The recovery resolves an alert in D1 only (QO 363); Lark shows it open.
* Google Ads, uncertain sends: a receipt is confirmed before the lock is taken
  and not afterwards. If a request that is posted again sets `send_pending` in
  between, the consumer reads a status it does not expect and fails the run for
  good. A second consumer that finds `processing` at its own `markQueued` abandons
  the Work, with no fault at all.
* Google Ads, completion: `markCompleted` after a late `markFailed` removes the
  payload, leaves the failed status and reports a permanent failure, of a run
  whose Work is complete and written.
* Google Ads, two requests at once may both find `live_validated` and both send;
  the contract's "queued once" is kept by the consumer, not by the transition.
* Google Ads, `requireMutable` (GA 191) returns rows that are over to a caller
  that wants to send, so that a completed or failed run is sent once more; and a
  request after completion is answered as incomplete rather than as completed.
* Google Ads, the admission of a superseded run stays `processing`.
* Google Ads, a second redrive may close its dead letter although the first one
  sent nothing, when a late `markQueued` of the API Worker has made the status
  `queued` in between; NothingIsStranded speaks of one redrive.
* A permanent failure marks the Work terminal before it saves its dead letter
  (QB 389-398); when the save fails, the redelivery finds the Work ended and is
  acknowledged, and no evidence is left
  (`docs/reliability-layer-v0.5.0.md:93` has the failure recorded in D1 before
  it is acknowledged, as far as D1 is ready).
* Two dead letter consumers of one Work can undo each other's revival, and can
  leave the Work active without a message; the incident stays open, which is why
  NothingIsForgotten holds.
* An incident that is recorded after the Work completed stays `not_started`; one
  that is claimed after the closing has listed stays `in_progress`.
* A notification answered `in_flight` is acknowledged (NU 86): when the claim's
  owner is dead and no other delivery follows, it is never sent.
* The Notification Log can get two rows from two mirrors at once
  (`lark-notification-delivery-source.js:179`), and `markMirrorFailed` of a late
  mirror overwrites `mirrored`.
* The drain of warnings raises "completed with warnings" also for a Work that is
  not complete (RUN 284).
* A crash between the primary save and the schedule loses the mirror of that save.
* A record whose source goes back to the content last recorded, after a newer run
  was superseded between its write to Lark and its checkpoint: the next
  incremental run finds the fingerprint unchanged and skips it, and Lark keeps the
  content of the superseded run until a full run. It needs three runs and two
  edits and no fault; the proof of CheckpointIsComplete came upon it, which
  therefore excepts the Lark row of such a record (`reverted`).
* Two writers of one alert can schedule it as open after it was resolved, and two
  drains can leave Lark on an old value.

## 9. Not modelled

* Components of the plan that are still to come: 9 and 10 of section 2.
* That the lease actions of ResumableWork, TikTokSync and GoogleDelivery allow all
  that ExclusiveLease allows rests on reading them beside it; what is proved is that
  SyncLease allows no more.
* Inside the modelled components: the Meta, Chatwoot and WooCommerce phase plans,
  `cleanupSupersededWorkUnits`, counts and sanitising of errors, the store that
  retires stale running rows; of TikTok the history hooks and their watermark, dry
  runs, account and daily rows, the history bootstrap and the post-Lark pipeline;
  of Google Ads PREVIEW runs, nonces and signatures, authorisation, the preflight
  of the destination, retention after 7 and 30 days and the automatic recovery;
  the reserved generation of an operator's redrive; validation and rendering of
  notifications; quarantine of malformed outbox rows; attempt counters, cooldown
  and the deferred Meta retry of the consumers, messages of other queues and jobs
  that are not eligible for recovery, the TikTok recovery subclass.
* Connectors, normalisers, report computations and configuration: conversions
  and remote calls without a protocol of their own. Scripts under `scripts/` are run by
  hand. Documents and tests were read as statements of intention.
* Clocks that differ between Workers, and D1 read replicas: each statement is
  taken to see the ones before it.
