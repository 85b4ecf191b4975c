------------------------- MODULE NotificationDelivery -------------------------
(***************************************************************************)
(* The delivery of one executive notification to its Lark group.           *)
(*                                                                         *)
(* A Queue message asks for the notification of one AI run.  Its handler   *)
(* reads the run from Lark, claims the delivery row in D1, marks it        *)
(* sending, posts the message once, marks it sent, and mirrors the outcome *)
(* to two Lark tables: a row of the Notification Log, then the flag        *)
(* sent_to_group of the AI run.  The Queue delivers at least once and      *)
(* several messages may ask for the same notification; a D1 or Lark call   *)
(* may fail with or without its effect; a Worker may die between any two   *)
(* steps.                                                                  *)
(*                                                                         *)
(* A D1 statement carries a time read after the step before it and takes   *)
(* effect later: some t in since[i]..now.                                  *)
(***************************************************************************)
EXTENDS Naturals, Sequences

CONSTANTS
    Worker,         \* invocations that run at the same time
    Message,        \* Queue messages that ask for this notification
    Owner, OwnerOf, \* claim_owner: operation id, else message id
    Payload,        \* the texts the AI run may have
    None,
    LeaseMs,        \* length of a claim, in ticks
    MirrorEnabled,  \* MKT_NOTIFICATION_LARK_MIRROR_ENABLED
    MaxAttempts,    \* deliveries of one message before the dead letter queue
    MaxTime         \* bound: where the clock stops

ASSUME OwnerAssumption == OwnerOf \in [Message -> Owner]
ASSUME NoneAssumption == None \notin Message \cup Owner \cup Payload
ASSUME LeaseAssumption == LeaseMs \in Nat \ {0}
ASSUME MirrorAssumption == MirrorEnabled \in BOOLEAN
ASSUME BoundAssumption == MaxAttempts \in Nat /\ MaxTime \in Nat

VARIABLES
    now,       \* the clock every Worker reads
    row,       \* the row of lark_notification_deliveries
    text,      \* the text of the AI run, as it stands in Lark
    marked,    \* its flag sent_to_group
    logRows,   \* rows of the Notification Log with this attempt key
    posts,     \* messages posted to the group, in order
    arrived,   \* which of them are in the group
    queued,    \* copies of each message waiting in the Queue
    attempts,  \* times each message was delivered
    pc,        \* where each Worker stands
    job,       \* the message it handles
    loaded,    \* the text it read
    since,     \* earliest time its D1 statement may carry
    slot,      \* which of the posts is its own
    create     \* its mirror plan creates the log row

chatVars == <<posts, arrived>>
larkVars == <<text, marked, logRows>>
queueVars == <<queued, attempts>>
localVars == <<job, loaded, since, slot, create>>
vars == <<now, row, text, marked, logRows, posts, arrived, queued, attempts,
          pc, job, loaded, since, slot, create>>

Status == {"none", "claimed", "sending", "sent", "blocked_unknown"}
Row == [status: Status, owner: Owner \cup {None}, expires: Nat,
        payload: Payload \cup {None},
        mirror: {"pending", "mirrored", "failed"}]
NoRow == [status |-> "none", owner |-> None, expires |-> 0,
          payload |-> None, mirror |-> "pending"]

\* Where a D1 statement is in flight, and where a Lark mirror call is.
StorePc == {"claim", "won", "lost", "reserve", "confirm", "doubt"}
MirrorPc == {"plan", "writeLog", "writeMark", "markMirrored"}
Pc == {"idle", "load", "post", "answer", "markFailed", "reject"}
        \cup StorePc \cup MirrorPc

Init ==
    /\ now = 0
    /\ row = NoRow
    /\ text \in Payload
    /\ marked = FALSE
    /\ logRows = 0
    /\ posts = <<>>
    /\ arrived = {}
    /\ queued = [m \in Message |-> 1]
    /\ attempts = [m \in Message |-> 0]
    /\ pc = [i \in Worker |-> "idle"]
    /\ job = [i \in Worker |-> None]
    /\ loaded = [i \in Worker |-> None]
    /\ since = [i \in Worker |-> 0]
    /\ slot = [i \in Worker |-> 0]
    /\ create = [i \in Worker |-> FALSE]

At(i, p) == pc[i] = p
\* The clock is read before a statement that carries a time.
Goto(i, p) ==
    /\ pc' = [pc EXCEPT ![i] = p]
    /\ since' = [since EXCEPT ![i] = IF p \in {"claim", "reserve"} THEN now ELSE 0]
\* The invocation is over, or the Worker gone: its local variables with it.
Leave(i) ==
    /\ pc' = [pc EXCEPT ![i] = "idle"]
    /\ job' = [job EXCEPT ![i] = None]
    /\ loaded' = [loaded EXCEPT ![i] = None]
    /\ since' = [since EXCEPT ![i] = 0]
    /\ slot' = [slot EXCEPT ![i] = 0]
    /\ create' = [create EXCEPT ![i] = FALSE]
\* message.ack(): this copy of the message is gone.
Ack(i) == Leave(i) /\ UNCHANGED queueVars
\* A transient error: the copy goes back to the Queue, or after the last
\* attempt to the dead letter queue.
Retry(i) ==
    /\ Leave(i)
    /\ queued' = IF attempts[job[i]] < MaxAttempts
                   THEN [queued EXCEPT ![job[i]] = @ + 1] ELSE queued
    /\ UNCHANGED attempts

(***************************************************************************)
(* Delivery of the message and the read of the AI run.                     *)
(***************************************************************************)
\* At-least-once: a copy may stay behind.
Deliver(i, m) ==
    /\ At(i, "idle")
    /\ queued[m] > 0 /\ attempts[m] < MaxAttempts
    /\ attempts' = [attempts EXCEPT ![m] = @ + 1]
    /\ \/ queued' = [queued EXCEPT ![m] = @ - 1]
       \/ UNCHANGED queued
    /\ job' = [job EXCEPT ![i] = m]
    /\ Goto(i, "load")
    /\ UNCHANGED <<now, row, larkVars, chatVars, loaded, slot, create>>

\* A run that is already marked sent is rejected before D1 is asked.
Load(i) ==
    /\ At(i, "load")
    /\ IF marked
         THEN Goto(i, "reject") /\ UNCHANGED loaded
         ELSE Goto(i, "claim") /\ loaded' = [loaded EXCEPT ![i] = text]
    /\ UNCHANGED <<now, row, larkVars, chatVars, queueVars, job, slot, create>>

(***************************************************************************)
(* The claim.                                                              *)
(***************************************************************************)
OwnerId(i) == OwnerOf[job[i]]

\* Mutant: an expired attempt is reclaimed although it may have been sent.
MutReclaimable(i, t) ==
    /\ row.status \in {"claimed", "sending"}
    /\ row.expires <= t
    /\ row.payload = loaded[i]
\* WHERE of the upsert: an expired claim of the same notification.
Reclaimable(i, t) ==
    /\ row.status = "claimed"
    /\ row.expires <= t
    /\ row.payload = loaded[i]

Claimed(i, t) ==
    [row EXCEPT !.status = "claimed", !.owner = OwnerId(i),
                !.expires = t + LeaseMs, !.payload = loaded[i]]

Claim(i) ==
    /\ At(i, "claim")
    /\ \E t \in since[i]..now :
         IF row = NoRow \/ Reclaimable(i, t)
         THEN row' = Claimed(i, t) /\ Goto(i, "won")
         ELSE UNCHANGED row /\ Goto(i, "lost")
    /\ UNCHANGED <<now, larkVars, chatVars, queueVars, job, loaded, slot,
                   create>>

\* The row is read back: another claim may have come in between.
Acquired(i) ==
    At(i, "won") /\ row.status = "claimed" /\ row.owner = OwnerId(i)

ReadBack(i) ==
    /\ pc[i] \in {"won", "lost"}
    /\ \/ /\ row.payload # loaded[i]
          /\ Goto(i, "reject") /\ UNCHANGED <<queueVars, job, loaded, slot, create>>
       \/ /\ row.payload = loaded[i] /\ Acquired(i)
          /\ Goto(i, "reserve") /\ UNCHANGED <<queueVars, job, loaded, slot, create>>
       \/ /\ row.payload = loaded[i] /\ ~Acquired(i)
          /\ row.status = "sent" /\ row.mirror # "mirrored" /\ MirrorEnabled
          /\ Goto(i, "plan") /\ UNCHANGED <<queueVars, job, loaded, slot, create>>
       \/ /\ row.payload = loaded[i] /\ ~Acquired(i)
          /\ row.status # "sent" \/ row.mirror = "mirrored" \/ ~MirrorEnabled
          /\ Ack(i)
    /\ UNCHANGED <<now, row, larkVars, chatVars>>

(***************************************************************************)
(* The send.                                                               *)
(***************************************************************************)
\* WHERE of markSending.
Reservable(i, t) ==
    row.status = "claimed" /\ row.owner = OwnerId(i) /\ row.expires > t

\* A transition that changes no row is a permanent error.
Reserve(i) ==
    /\ At(i, "reserve")
    /\ \E t \in since[i]..now :
         IF Reservable(i, t)
         THEN row' = [row EXCEPT !.status = "sending"] /\ Goto(i, "post")
         ELSE UNCHANGED row /\ Goto(i, "reject")
    /\ UNCHANGED <<now, larkVars, chatVars, queueVars, job, loaded, slot,
                   create>>

\* The POST is dispatched once.
Post(i) ==
    /\ At(i, "post")
    /\ posts' = Append(posts, loaded[i])
    /\ slot' = [slot EXCEPT ![i] = Len(posts) + 1]
    /\ Goto(i, "answer")
    /\ UNCHANGED <<now, row, larkVars, arrived, queueVars, job, loaded, create>>

\* No access token: nothing was dispatched, but the caller cannot tell.
NoToken(i) ==
    /\ At(i, "post")
    /\ Goto(i, "doubt")
    /\ UNCHANGED <<now, row, larkVars, chatVars, queueVars, job, loaded, slot,
                   create>>

\* Lark shows the message, whether or not its answer comes through.
Arrive ==
    /\ \E k \in 1..Len(posts) : k \notin arrived /\ arrived' = arrived \cup {k}
    /\ UNCHANGED <<now, row, larkVars, posts, queueVars, pc, localVars>>

\* Mutant: any answer counts as a confirmation.
MutConfirmed(i) == slot[i] > 0
\* HTTP ok, code 0 and a message id: the message is in the group.
Confirmed(i) == slot[i] \in arrived
Answer(i) ==
    /\ At(i, "answer")
    /\ Confirmed(i)
    /\ Goto(i, "confirm")
    /\ UNCHANGED <<now, row, larkVars, chatVars, queueVars, job, loaded, slot,
                   create>>

\* A timeout, a broken answer or a refusal.
NoAnswer(i) ==
    /\ At(i, "answer")
    /\ Goto(i, "doubt")
    /\ UNCHANGED <<now, row, larkVars, chatVars, queueVars, job, loaded, slot,
                   create>>

Sending(i) == row.status = "sending" /\ row.owner = OwnerId(i)

Confirm(i) ==
    /\ At(i, "confirm")
    /\ IF ~Sending(i)
         THEN Goto(i, "reject") /\ UNCHANGED <<row, queueVars, job, loaded, slot, create>>
         ELSE /\ row' = [row EXCEPT !.status = "sent"]
              /\ IF MirrorEnabled
                   THEN Goto(i, "plan") /\ UNCHANGED <<queueVars, job, loaded, slot, create>>
                   ELSE Ack(i)
    /\ UNCHANGED <<now, larkVars, chatVars>>

Doubtful(i) == Sending(i)
Doubt(i) ==
    /\ At(i, "doubt")
    /\ row' = IF Doubtful(i) THEN [row EXCEPT !.status = "blocked_unknown"] ELSE row
    /\ Goto(i, "reject")
    /\ UNCHANGED <<now, larkVars, chatVars, queueVars, job, loaded, slot,
                   create>>

(***************************************************************************)
(* The mirror.                                                             *)
(***************************************************************************)
\* Both plans are built before the first write.  A log that holds the key
\* twice cannot be planned.
Plan(i) ==
    /\ At(i, "plan")
    /\ IF logRows > 1
         THEN Goto(i, "markFailed") /\ UNCHANGED create
         ELSE Goto(i, "writeLog") /\ create' = [create EXCEPT ![i] = logRows = 0]
    /\ UNCHANGED <<now, row, larkVars, chatVars, queueVars, job, loaded, slot>>

\* Mutant: the AI run is marked before the log row is written.
MutLogged(i) == Goto(i, "writeMark") /\ marked' = TRUE /\ UNCHANGED logRows
Logged(i) ==
    /\ logRows' = IF create[i] THEN logRows + 1 ELSE logRows
    /\ Goto(i, "writeMark")
    /\ UNCHANGED marked

WriteLog(i) ==
    /\ At(i, "writeLog")
    /\ Logged(i)
    /\ UNCHANGED <<now, row, text, chatVars, queueVars, job, loaded, slot,
                   create>>

WriteMark(i) ==
    /\ At(i, "writeMark")
    /\ marked' = TRUE
    /\ Goto(i, "markMirrored")
    /\ UNCHANGED <<now, row, text, logRows, chatVars, queueVars, job, loaded,
                   slot, create>>

\* Mutant: the wrong column.
MutSetStatus(value) == [row EXCEPT !.status = value]
SetMirror(value) ==
    IF row.status = "sent" THEN [row EXCEPT !.mirror = value] ELSE row

MarkMirrored(i) ==
    /\ At(i, "markMirrored")
    /\ row' = SetMirror("mirrored")
    /\ IF row.status = "sent"
         THEN Ack(i)
         ELSE Goto(i, "markFailed") /\ UNCHANGED <<queueVars, job, loaded, slot, create>>
    /\ UNCHANGED <<now, larkVars, chatVars>>

\* A mirror step fails, with or without its effect.
MirrorFails(i) ==
    /\ pc[i] \in MirrorPc
    /\ \/ UNCHANGED <<row, marked, logRows>>
       \/ /\ At(i, "writeLog")
          /\ logRows' = IF create[i] THEN logRows + 1 ELSE logRows
          /\ UNCHANGED <<row, marked>>
       \/ At(i, "writeMark") /\ marked' = TRUE /\ UNCHANGED <<row, logRows>>
       \/ At(i, "markMirrored") /\ row' = SetMirror("mirrored")
          /\ UNCHANGED <<marked, logRows>>
    /\ Goto(i, "markFailed")
    /\ UNCHANGED <<now, text, chatVars, queueVars, job, loaded, slot, create>>

\* markMirrorFailed, whose own failure is swallowed; then a transient error.
MarkFailed(i) ==
    /\ At(i, "markFailed")
    /\ row' \in {row, SetMirror("failed")}
    /\ Retry(i)
    /\ UNCHANGED <<now, larkVars, chatVars>>

(***************************************************************************)
(* Failures and the environment.                                           *)
(***************************************************************************)
\* A permanent failure is recorded and the message acknowledged, or sent
\* back if it cannot be recorded.
Reject(i) ==
    /\ At(i, "reject")
    /\ Ack(i) \/ Retry(i)
    /\ UNCHANGED <<now, row, larkVars, chatVars>>

\* What the D1 statement in flight makes of the row.
Effects(i) ==
    CASE At(i, "claim") -> {Claimed(i, t) : t \in
                              {u \in since[i]..now : row = NoRow \/ Reclaimable(i, u)}}
      [] At(i, "reserve") -> {[row EXCEPT !.status = "sending"] : t \in
                              {u \in since[i]..now : Reservable(i, u)}}
      [] At(i, "confirm") /\ Sending(i) -> {[row EXCEPT !.status = "sent"]}
      [] At(i, "doubt") /\ Doubtful(i) -> {[row EXCEPT !.status = "blocked_unknown"]}
      [] OTHER -> {}

\* A read of Lark or a D1 call fails, the latter with or without its effect.
CallFails(i) ==
    /\ pc[i] \in StorePc \cup {"load"}
    /\ row' \in {row} \cup Effects(i)
    /\ Retry(i)
    /\ UNCHANGED <<now, larkVars, chatVars>>

\* The Worker is evicted; the Queue delivers the message again.
Crash(i) ==
    /\ pc[i] # "idle"
    /\ Retry(i)
    /\ UNCHANGED <<now, row, larkVars, chatVars>>

\* The text of the AI run changes in Lark.
Edit ==
    /\ text' \in Payload
    /\ UNCHANGED <<now, row, marked, logRows, chatVars, queueVars, pc,
                   localVars>>

Tick ==
    /\ now < MaxTime
    /\ now' = now + 1
    /\ UNCHANGED <<row, larkVars, chatVars, queueVars, pc, localVars>>

Step(i) ==
    \/ (\E m \in Message : Deliver(i, m)) \/ Load(i) \/ Claim(i) \/ ReadBack(i)
    \/ Reserve(i) \/ Post(i) \/ NoToken(i) \/ Answer(i) \/ NoAnswer(i)
    \/ Confirm(i) \/ Doubt(i) \/ Plan(i) \/ WriteLog(i) \/ WriteMark(i)
    \/ MarkMirrored(i) \/ MirrorFails(i) \/ MarkFailed(i) \/ Reject(i)
    \/ CallFails(i)

Next == Arrive \/ Edit \/ Tick \/ \E i \in Worker : Step(i) \/ Crash(i)

Spec == Init /\ [][Next]_vars

(***************************************************************************)
(* Properties.                                                             *)
(***************************************************************************)
\* Every variable has its type.
TypeOK ==
    /\ now \in Nat
    /\ row \in Row
    /\ text \in Payload
    /\ marked \in BOOLEAN
    /\ logRows \in Nat
    /\ posts \in Seq(Payload)
    /\ arrived \subseteq 1..Len(posts)
    /\ queued \in [Message -> Nat]
    /\ attempts \in [Message -> Nat]
    /\ pc \in [Worker -> Pc]
    /\ job \in [Worker -> Message \cup {None}]
    /\ loaded \in [Worker -> Payload \cup {None}]
    /\ since \in [Worker -> Nat]
    /\ slot \in [Worker -> Nat]
    /\ create \in [Worker -> BOOLEAN]

\* Exact send: however often the request is delivered, reclaimed or retried,
\* one message at most is posted to the group.
AtMostOnePost == Len(posts) <= 1

\* The row never claims a delivery that did not happen, and its checksum is
\* that of the message the group received, whatever the AI run says by then.
SentIsShown ==
    /\ row.status = "sent" => arrived # {}
    /\ \A k \in arrived : posts[k] = row.payload

\* What Lark shows is backed: the AI run is marked only after the log row is
\* there, and neither before D1 has recorded the send.
MirrorIsBacked ==
    /\ logRows > 0 => row.status = "sent"
    /\ marked => logRows > 0
    /\ row.mirror = "mirrored" => marked

\* A delivery that was sent, or whose outcome is unknown, stays so.
OutcomeIsFinal ==
    [][row.status \in {"sent", "blocked_unknown"} =>
         row'.status = row.status /\ row'.payload = row.payload]_row

\* The abstract delivery this one implements.
Phase ==
    CASE row.status \in {"none", "claimed"} -> "open"
      [] row.status = "sending" -> "reserved"
      [] row.status = "sent" -> "sent"
      [] row.status = "blocked_unknown" -> "unknown"
Promise == INSTANCE AtMostOnceMessage WITH phase <- Phase
\* Claims, read-backs and mirrors are steps the abstract delivery does not
\* see; every other step is one of its steps.
AtMostOnce == Promise!Spec
=============================================================================
