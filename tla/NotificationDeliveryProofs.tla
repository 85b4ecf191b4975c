---------------------- MODULE NotificationDeliveryProofs ----------------------
(***************************************************************************)
(* What holds of NotificationDelivery for every number of Workers and      *)
(* messages, every choice of owners, texts and lease, and both settings of *)
(* the mirror.                                                             *)
(***************************************************************************)
EXTENDS NotificationDelivery, TLAPS

\* From the reservation of the attempt to the record of its outcome.
SendPc == {"post", "answer", "confirm", "doubt"}

\* What a Worker's own variables hold at each point of its run.
Local(i) ==
    /\ pc[i] # "idle" => job[i] \in Message
    /\ pc[i] \in StorePc \cup SendPc => loaded[i] \in Payload

Typed == TypeOK /\ \A i \in Worker : Local(i)

USE OwnerAssumption, NoneAssumption, LeaseAssumption, MirrorAssumption,
    BoundAssumption

\* Init has the types.
LEMMA TypedInit == Init => Typed
<1> SUFFICES ASSUME Init PROVE Typed
  OBVIOUS
<1>1. row \in Row
  BY DEF Init, Row, Status, NoRow
<1>2. posts \in Seq(Payload) /\ arrived \subseteq 1..Len(posts)
  BY DEF Init
<1>3. pc \in [Worker -> Pc] /\ \A i \in Worker : Local(i)
  BY DEF Init, Local, Pc, StorePc, MirrorPc, SendPc
<1> QED BY <1>1, <1>2, <1>3 DEF Init, Typed, TypeOK

\* The program points, written out.
LEMMA Points ==
    /\ Pc = {"idle", "load", "post", "answer", "markFailed", "reject", "claim",
             "won", "lost", "reserve", "confirm", "doubt", "plan", "writeLog",
             "writeMark", "markMirrored"}
    /\ StorePc = {"claim", "won", "lost", "reserve", "confirm", "doubt"}
    /\ MirrorPc = {"plan", "writeLog", "writeMark", "markMirrored"}
  BY DEF Pc, StorePc, MirrorPc

\* A Worker that leaves keeps the types, and so does one that goes on.
LEMMA LeaveTyped ==
  ASSUME Typed, NEW i \in Worker, Leave(i)
  PROVE  /\ pc' \in [Worker -> Pc]
         /\ job' \in [Worker -> Message \cup {None}]
         /\ loaded' \in [Worker -> Payload \cup {None}]
         /\ since' \in [Worker -> Nat]
         /\ slot' \in [Worker -> Nat]
         /\ create' \in [Worker -> BOOLEAN]
         /\ \A j \in Worker : Local(j)'
  BY Points DEF Typed, TypeOK, Local, Leave, SendPc

\* Retry and Ack put back or drop one copy of a message.
LEMMA QueueTyped ==
  ASSUME Typed, NEW i \in Worker, pc[i] # "idle", Ack(i) \/ Retry(i)
  PROVE  queued' \in [Message -> Nat] /\ attempts' \in [Message -> Nat]
<1>1. /\ job[i] \in Message
      /\ queued \in [Message -> Nat] /\ attempts \in [Message -> Nat]
  BY DEF Typed, TypeOK, Local
<1>2. queued[job[i]] + 1 \in Nat
  BY <1>1
<1>3. CASE Ack(i)
  BY <1>1, <1>3 DEF Ack, queueVars
<1>4. CASE Retry(i)
  BY <1>1, <1>2, <1>4 DEF Retry
<1> QED BY <1>3, <1>4

\* The mirror writes leave a row of the table.
LEMMA MirrorTyped ==
  ASSUME Typed, NEW v \in {"mirrored", "failed"}
  PROVE  SetMirror(v) \in Row
  BY DEF Typed, TypeOK, Row, SetMirror

\* Every statement of D1 leaves a row of the table.
LEMMA RowTyped ==
  ASSUME Typed, NEW i \in Worker, pc[i] \in StorePc
  PROVE  /\ \A t \in Nat : pc[i] = "claim" => Claimed(i, t) \in Row
         /\ [row EXCEPT !.status = "sending"] \in Row
         /\ [row EXCEPT !.status = "sent"] \in Row
         /\ [row EXCEPT !.status = "blocked_unknown"] \in Row
         /\ Effects(i) \subseteq Row
<1> USE Points DEF Typed, TypeOK, Local, Row, Status
<1>1. /\ [row EXCEPT !.status = "sending"] \in Row
      /\ [row EXCEPT !.status = "sent"] \in Row
      /\ [row EXCEPT !.status = "blocked_unknown"] \in Row
  OBVIOUS
<1>2. ASSUME NEW t \in Nat, pc[i] = "claim" PROVE Claimed(i, t) \in Row
  <2>1. OwnerId(i) \in Owner /\ loaded[i] \in Payload /\ t + LeaseMs \in Nat
    BY <1>2 DEF OwnerId
  <2> QED BY <2>1 DEF Claimed
<1>3. \A t \in since[i]..now : t \in Nat
  OBVIOUS
<1>4. Effects(i) \subseteq Row
  <2>1. CASE At(i, "claim") BY <2>1, <1>2, <1>3 DEF Effects, At
  <2>2. CASE At(i, "reserve") BY <2>2, <1>1 DEF Effects, At
  <2>3. CASE At(i, "confirm") BY <2>3, <1>1 DEF Effects, At
  <2>4. CASE At(i, "doubt") BY <2>4, <1>1 DEF Effects, At
  <2>5. CASE At(i, "won") \/ At(i, "lost") BY <2>5 DEF Effects, At
  <2> QED BY <2>1, <2>2, <2>3, <2>4, <2>5 DEF At
<1> QED BY <1>1, <1>2, <1>4

\* A step from one point to the next keeps the types of the Worker.
LEMMA GotoTyped ==
  ASSUME Typed, NEW i \in Worker, NEW p \in Pc, Goto(i, p)
  PROVE  pc' \in [Worker -> Pc] /\ since' \in [Worker -> Nat]
  BY DEF Typed, TypeOK, Goto

\* Every step keeps the types.
LEMMA TypedStep == Typed /\ [Next]_vars => Typed'
<1> SUFFICES ASSUME Typed, [Next]_vars PROVE Typed'
  OBVIOUS
<1> USE Points DEF At, larkVars, chatVars
<1>stay. ASSUME NEW i \in Worker, NEW p \in Pc, Goto(i, p), pc[i] # "idle",
               UNCHANGED <<job, slot, create, loaded>>,
               p \in StorePc \cup SendPc => pc[i] \in StorePc \cup SendPc
         PROVE  /\ pc' \in [Worker -> Pc]
                /\ since' \in [Worker -> Nat]
                /\ job' \in [Worker -> Message \cup {None}]
                /\ loaded' \in [Worker -> Payload \cup {None}]
                /\ slot' \in [Worker -> Nat]
                /\ create' \in [Worker -> BOOLEAN]
                /\ \A j \in Worker : Local(j)'
  BY <1>stay, GotoTyped DEF Typed, TypeOK, Local, Goto
<1>1. ASSUME NEW i \in Worker, NEW m \in Message, Deliver(i, m) PROVE Typed'
  <2>1. pc' \in [Worker -> Pc] /\ since' \in [Worker -> Nat]
    BY <1>1, GotoTyped DEF Deliver
  <2>2. queued' \in [Message -> Nat] /\ attempts' \in [Message -> Nat]
    <3>1. queued \in [Message -> Nat] /\ attempts \in [Message -> Nat]
      BY DEF Typed, TypeOK
    <3>2. attempts[m] + 1 \in Nat /\ (queued[m] > 0 => queued[m] - 1 \in Nat)
      BY <3>1
    <3> QED BY <1>1, <3>1, <3>2 DEF Deliver
  <2> QED BY <1>1, <2>1, <2>2 DEF Deliver, Goto, Typed, TypeOK, Local, SendPc
<1>2. ASSUME NEW i \in Worker, Load(i) PROVE Typed'
  <2>1. pc' \in [Worker -> Pc] /\ since' \in [Worker -> Nat]
    BY <1>2, GotoTyped DEF Load
  <2>2. CASE marked
    BY <1>2, <2>1, <2>2 DEF Load, Goto, Typed, TypeOK, Local, queueVars, SendPc
  <2>3. CASE ~marked
    <3>1. loaded' = [loaded EXCEPT ![i] = text] /\ text \in Payload
      BY <1>2, <2>3 DEF Load, Typed, TypeOK
    <3>2. loaded' \in [Worker -> Payload \cup {None}]
      BY <3>1 DEF Typed, TypeOK
    <3>3. pc' = [pc EXCEPT ![i] = "claim"] /\ job' = job /\ pc[i] = "load"
      BY <1>2, <2>3 DEF Load, Goto
    <3>4. \A j \in Worker : Local(j)'
      BY <3>1, <3>2, <3>3 DEF Typed, TypeOK, Local
    <3> QED BY <1>2, <2>1, <3>2, <3>4 DEF Load, Typed, TypeOK, queueVars
  <2> QED BY <2>2, <2>3
<1>3. ASSUME NEW i \in Worker, Claim(i) PROVE Typed'
  <2>1. PICK t \in since[i]..now :
          IF row = NoRow \/ Reclaimable(i, t)
            THEN row' = Claimed(i, t) /\ Goto(i, "won")
            ELSE UNCHANGED row /\ Goto(i, "lost")
    BY <1>3 DEF Claim
  <2>2. row' \in Row
    BY <1>3, <2>1, RowTyped DEF Claim, Typed, TypeOK
  <2>3. pc[i] # "idle" /\ pc[i] \in StorePc /\ UNCHANGED <<job, slot, create, loaded>>
    BY <1>3 DEF Claim
  <2>4. \E p \in {"won", "lost"} : Goto(i, p)
    BY <2>1
  <2> QED BY <1>3, <2>2, <2>3, <2>4, <1>stay DEF Claim, Typed, TypeOK, queueVars
<1>4. ASSUME NEW i \in Worker, ReadBack(i) PROVE Typed'
  <2>1. CASE Ack(i)
    BY <1>4, <2>1, LeaveTyped, QueueTyped DEF ReadBack, Ack, Typed, TypeOK
  <2>2. CASE UNCHANGED <<queueVars, job, loaded, slot, create>>
             /\ \E p \in {"reject", "reserve", "plan"} : Goto(i, p)
    BY <1>4, <2>2, <1>stay DEF ReadBack, Typed, TypeOK, queueVars
  <2> QED BY <1>4, <2>1, <2>2 DEF ReadBack
<1>5. ASSUME NEW i \in Worker, Reserve(i) PROVE Typed'
  <2>1. row' \in Row
    BY <1>5, RowTyped DEF Reserve, Typed, TypeOK
  <2>2. \E p \in {"post", "reject"} : Goto(i, p)
    BY <1>5 DEF Reserve
  <2> QED BY <1>5, <2>1, <2>2, <1>stay DEF Reserve, Typed, TypeOK, queueVars
<1>6. ASSUME NEW i \in Worker, Post(i) PROVE Typed'
  <2>1. loaded[i] \in Payload
    BY <1>6 DEF Post, Typed, Local, SendPc
  <2>2. posts' \in Seq(Payload) /\ Len(posts') = Len(posts) + 1
    BY <1>6, <2>1 DEF Post, Typed, TypeOK
  <2>3. arrived' \subseteq 1..Len(posts') /\ slot' \in [Worker -> Nat]
    BY <1>6, <2>2 DEF Post, Typed, TypeOK
  <2>4. pc' \in [Worker -> Pc] /\ since' \in [Worker -> Nat]
    BY <1>6, GotoTyped DEF Post
  <2>5. \A j \in Worker : Local(j)'
    BY <1>6, <2>1 DEF Post, Goto, Typed, TypeOK, Local, SendPc
  <2> QED BY <1>6, <2>2, <2>3, <2>4, <2>5 DEF Post, Typed, TypeOK, queueVars
<1>7. ASSUME NEW i \in Worker, NoToken(i) \/ Answer(i) \/ NoAnswer(i) PROVE Typed'
  <2>1. /\ \E p \in {"doubt", "confirm"} : Goto(i, p)
        /\ pc[i] \in SendPc /\ pc[i] # "idle"
    BY <1>7 DEF NoToken, Answer, NoAnswer, SendPc
  <2> QED BY <1>7, <2>1, <1>stay
       DEF NoToken, Answer, NoAnswer, Typed, TypeOK, queueVars
<1>8. ASSUME NEW i \in Worker, Confirm(i) PROVE Typed'
  <2>1. row' \in Row /\ pc[i] # "idle"
    BY <1>8, RowTyped DEF Confirm, Typed, TypeOK
  <2>2. CASE Ack(i)
    BY <1>8, <2>1, <2>2, LeaveTyped, QueueTyped DEF Confirm, Ack, Typed, TypeOK
  <2>3. CASE UNCHANGED <<queueVars, job, loaded, slot, create>>
             /\ \E p \in {"reject", "plan"} : Goto(i, p)
    BY <1>8, <2>1, <2>3, <1>stay DEF Confirm, Typed, TypeOK, queueVars
  <2> QED BY <1>8, <2>2, <2>3 DEF Confirm
<1>9. ASSUME NEW i \in Worker, Doubt(i) PROVE Typed'
  <2>1. row' \in Row
    BY <1>9, RowTyped DEF Doubt, Typed, TypeOK
  <2> QED BY <1>9, <2>1, <1>stay DEF Doubt, Typed, TypeOK, queueVars
<1>10. ASSUME NEW i \in Worker, Plan(i) PROVE Typed'
  <2>1. \E p \in {"markFailed", "writeLog"} : Goto(i, p)
    BY <1>10 DEF Plan
  <2>2. create' \in [Worker -> BOOLEAN]
    BY <1>10 DEF Plan, Typed, TypeOK
  <2>3. pc' \in [Worker -> Pc] /\ since' \in [Worker -> Nat]
    BY <2>1, GotoTyped
  <2>4. \A j \in Worker : Local(j)'
    BY <1>10, <2>1 DEF Plan, Goto, Typed, TypeOK, Local, SendPc
  <2> QED BY <1>10, <2>2, <2>3, <2>4 DEF Plan, Typed, TypeOK, queueVars
<1>11. ASSUME NEW i \in Worker, WriteLog(i) \/ WriteMark(i) PROVE Typed'
  <2>1. /\ \E p \in {"writeMark", "markMirrored"} : Goto(i, p)
        /\ logRows' \in Nat /\ marked' \in BOOLEAN
        /\ pc[i] # "idle" /\ pc[i] \notin StorePc \cup SendPc
    <3>1. logRows + 1 \in Nat /\ logRows \in Nat /\ marked \in BOOLEAN
      BY DEF Typed, TypeOK
    <3>2. CASE WriteLog(i)
      BY <3>1, <3>2 DEF WriteLog, Logged, SendPc
    <3>3. CASE WriteMark(i)
      BY <3>1, <3>3 DEF WriteMark, SendPc
    <3> QED BY <1>11, <3>2, <3>3
  <2> QED BY <1>11, <2>1, <1>stay
       DEF WriteLog, WriteMark, Typed, TypeOK, queueVars, SendPc
<1>12. ASSUME NEW i \in Worker, MarkMirrored(i) PROVE Typed'
  <2>1. row' \in Row
    BY <1>12 DEF MarkMirrored, SetMirror, Typed, TypeOK, Row
  <2>2. CASE Ack(i)
    BY <1>12, <2>1, <2>2, LeaveTyped, QueueTyped DEF MarkMirrored, Ack, Typed, TypeOK
  <2>3. CASE UNCHANGED <<queueVars, job, loaded, slot, create>> /\ Goto(i, "markFailed")
    BY <1>12, <2>1, <2>3, <1>stay DEF MarkMirrored, Typed, TypeOK, queueVars, SendPc
  <2> QED BY <1>12, <2>2, <2>3 DEF MarkMirrored
<1>13. ASSUME NEW i \in Worker, MirrorFails(i) PROVE Typed'
  <2>1. row' \in Row /\ logRows' \in Nat /\ marked' \in BOOLEAN
    <3>1. logRows + 1 \in Nat /\ logRows \in Nat /\ marked \in BOOLEAN /\ row \in Row
      BY DEF Typed, TypeOK
    <3> QED BY <1>13, <3>1, MirrorTyped DEF MirrorFails
  <2> QED BY <1>13, <2>1, <1>stay DEF MirrorFails, Typed, TypeOK, queueVars, SendPc
<1>14. ASSUME NEW i \in Worker, MarkFailed(i) \/ Reject(i) PROVE Typed'
  <2>1. row' \in Row /\ pc[i] # "idle"
    BY <1>14 DEF MarkFailed, Reject, SetMirror, Typed, TypeOK, Row
  <2> QED BY <1>14, <2>1, LeaveTyped, QueueTyped
       DEF MarkFailed, Reject, Ack, Retry, Typed, TypeOK
<1>15. ASSUME NEW i \in Worker, CallFails(i) \/ Crash(i) PROVE Typed'
  <2>1. row' \in Row /\ pc[i] # "idle"
    BY <1>15, RowTyped DEF CallFails, Crash, Effects, Typed, TypeOK
  <2>2. Retry(i) /\ UNCHANGED <<now, larkVars, chatVars>>
    BY <1>15 DEF CallFails, Crash
  <2> QED BY <2>1, <2>2, LeaveTyped, QueueTyped DEF Retry, Typed, TypeOK
<1>16. CASE Arrive \/ Edit \/ Tick
  <2>1. UNCHANGED <<row, queueVars, pc, localVars, marked, logRows, posts>>
    BY <1>16 DEF Arrive, Edit, Tick
  <2>2. now' \in Nat /\ text' \in Payload /\ arrived' \subseteq 1..Len(posts)
    <3>1. CASE Arrive BY <3>1 DEF Arrive, Typed, TypeOK
    <3>2. CASE Edit BY <3>2 DEF Edit, Typed, TypeOK
    <3>3. CASE Tick BY <3>3 DEF Tick, Typed, TypeOK
    <3> QED BY <1>16, <3>1, <3>2, <3>3
  <2> QED BY <2>1, <2>2 DEF Typed, TypeOK, Local, localVars, queueVars
<1>17. CASE UNCHANGED vars
  BY <1>17 DEF vars, Typed, TypeOK, Local
<1> QED
  BY <1>1, <1>2, <1>3, <1>4, <1>5, <1>6, <1>7, <1>8, <1>9, <1>10, <1>11, <1>12,
     <1>13, <1>14, <1>15, <1>16, <1>17 DEF Next, Step

\* Every variable of the delivery has its type.
THEOREM TypeCorrect == Spec => []TypeOK
<1>1. Typed => TypeOK
  BY DEF Typed
<1> QED BY <1>1, TypedInit, TypedStep, PTL DEF Spec

-----------------------------------------------------------------------------
(***************************************************************************)
(* The inductive invariant.  The reservation claimed -> sending happens    *)
(* once in the life of the row, because nothing leads back to claimed; the *)
(* Worker that made it is the only one between the reservation and the     *)
(* record of the outcome, and the only one that posts.                     *)
(***************************************************************************)

\* The row and the group chat agree.
RowCore ==
    /\ row.status = "none" => row = NoRow
    /\ row.status \in {"none", "claimed"} => posts = <<>>
    /\ Len(posts) <= 1
    /\ posts # <<>> => posts[1] = row.payload
    /\ row.status = "sent" => 1 \in arrived

\* A Worker in its send owns the row, alone, and knows what it posted.
SendCore ==
    /\ \A i \in Worker : pc[i] \in SendPc => Sending(i) /\ row.payload = loaded[i]
    /\ \A i, j \in Worker : pc[i] \in SendPc /\ pc[j] \in SendPc => i = j
    /\ \A i \in Worker : pc[i] = "reserve" =>
         row.payload = loaded[i] /\ row.status # "none"
    /\ \A i \in Worker : pc[i] = "won" => row.status # "none"
    /\ \A i \in Worker : pc[i] = "post" => posts = <<>>
    /\ \A i \in Worker : pc[i] = "answer" => slot[i] = 1 /\ posts # <<>>
    /\ \A i \in Worker : pc[i] = "confirm" => 1 \in arrived

\* A Worker in its mirror works for a sent row.
MirrorCore ==
    /\ \A i \in Worker : pc[i] \in MirrorPc \cup {"markFailed"} => row.status = "sent"
    /\ \A i \in Worker : pc[i] = "writeLog" /\ ~create[i] => logRows > 0
    /\ \A i \in Worker : pc[i] = "writeMark" => logRows > 0
    /\ \A i \in Worker : pc[i] = "markMirrored" => marked
    /\ row.status # "sent" => row.mirror = "pending"
    /\ logRows > 0 => row.status = "sent"
    /\ marked => logRows > 0
    /\ row.mirror = "mirrored" => marked

Core == RowCore /\ SendCore /\ MirrorCore

\* Init is a state of the core.
LEMMA CoreInit == Init => Core
  BY DEF Init, Core, RowCore, SendCore, MirrorCore, NoRow, SendPc, MirrorPc

\* Leaving or moving one Worker does not touch the others.
Only(i) == \A j \in Worker \ {i} :
             /\ pc'[j] = pc[j] /\ job'[j] = job[j] /\ loaded'[j] = loaded[j]
             /\ slot'[j] = slot[j] /\ create'[j] = create[j]

\* The points that ask nothing of the state.
FreePc == {"idle", "load", "claim", "lost", "reject"}

\* Leaving ends one Worker.
LEMMA OnlyLeave ==
  ASSUME Typed, NEW i \in Worker, Leave(i)
  PROVE  Only(i) /\ pc'[i] = "idle"
  BY DEF Typed, TypeOK, Leave, Only

\* Going on moves one Worker.
LEMMA OnlyGoto ==
  ASSUME Typed, NEW i \in Worker, NEW p, Goto(i, p),
         UNCHANGED <<job, loaded, slot, create>>
  PROVE  Only(i) /\ pc'[i] = p
  BY DEF Typed, TypeOK, Goto, Only

\* A Worker that gives up its place changes nothing of the core.
LEMMA Yield ==
  ASSUME Typed, Core, NEW i \in Worker, Only(i), pc'[i] \in FreePc,
         UNCHANGED <<row, marked, logRows, chatVars>>
  PROVE  Core'
<1> USE Points DEF chatVars
<1>1. RowCore'
  BY DEF Core, RowCore
<1>2. SendCore'
  BY DEF Core, SendCore, Only, FreePc, SendPc, Sending, OwnerId
<1>3. MirrorCore'
  BY DEF Core, MirrorCore, Only, FreePc
<1> QED BY <1>1, <1>2, <1>3 DEF Core

\* A statement that fills or refreshes the claim.
LEMMA ClaimEffect ==
  ASSUME Typed, Core, NEW i \in Worker, pc[i] = "claim", NEW t \in Nat,
         row = NoRow \/ Reclaimable(i, t), row' = Claimed(i, t),
         Only(i), pc'[i] \in {"won"} \cup FreePc,
         UNCHANGED <<marked, logRows, chatVars>>
  PROVE  Core'
<1> USE Points DEF chatVars
<1>1. /\ row.status \in {"none", "claimed"} /\ row'.status = "claimed"
      /\ row'.mirror = row.mirror
      /\ row.status = "claimed" => row'.payload = row.payload
      /\ row # NoRow => row'.payload = row.payload
  BY DEF Claimed, Reclaimable, NoRow, Typed, TypeOK, Row
<1>2. RowCore'
  BY <1>1 DEF Core, RowCore
<1>3. \A j \in Worker : pc[j] \notin SendPc /\ pc'[j] \notin SendPc
  BY <1>1 DEF Core, SendCore, Sending, Only, FreePc, SendPc
<1>4. SendCore'
  <2>1. \A j \in Worker : pc'[j] = "reserve" => j # i /\ pc[j] = "reserve"
                            /\ loaded'[j] = loaded[j]
    BY DEF Only, FreePc
  <2>2. \A j \in Worker : pc'[j] = "reserve" =>
          row'.payload = loaded'[j] /\ row'.status # "none"
    BY <2>1, <1>1 DEF Core, SendCore, NoRow
  <2> QED BY <1>1, <1>3, <2>2 DEF SendCore, SendPc
<1>5. MirrorCore'
  BY <1>1 DEF Core, MirrorCore, Only, FreePc
<1> QED BY <1>2, <1>4, <1>5 DEF Core

\* The reservation: from now on this Worker alone is in its send.
LEMMA ReserveEffect ==
  ASSUME Typed, Core, NEW i \in Worker, pc[i] = "reserve", NEW t \in Nat,
         Reservable(i, t), row' = [row EXCEPT !.status = "sending"],
         Only(i), pc'[i] \in {"post"} \cup FreePc,
         pc'[i] = "post" => UNCHANGED <<job, loaded, slot>>,
         UNCHANGED <<marked, logRows, chatVars>>
  PROVE  Core'
<1> USE Points DEF chatVars
<1>1. /\ row.status = "claimed" /\ row'.status = "sending"
      /\ row'.mirror = row.mirror /\ row'.payload = row.payload
      /\ row'.owner = row.owner /\ row.owner = OwnerId(i)
  BY DEF Reservable, Typed, TypeOK, Row
<1>2. RowCore'
  BY <1>1 DEF Core, RowCore
<1>3. \A j \in Worker : pc[j] \notin SendPc /\ (j # i => pc'[j] \notin SendPc)
  BY <1>1 DEF Core, SendCore, Sending, Only
<1>4. pc'[i] \in SendPc => pc'[i] = "post"
  BY DEF FreePc, SendPc
<1>5. SendCore'
  <2>1. \A j \in Worker : pc'[j] \in SendPc => Sending(j)' /\ (row.payload = loaded[j])'
    BY <1>1, <1>3, <1>4 DEF Core, SendCore, Sending, OwnerId
  <2>2. \A j \in Worker : pc'[j] \in {"reserve", "won"} =>
          j # i /\ pc[j] = pc'[j] /\ loaded'[j] = loaded[j]
    BY DEF Only, FreePc
  <2>3. posts' = <<>>
    BY <1>1 DEF Core, RowCore
  <2> QED BY <1>1, <1>3, <1>4, <2>1, <2>2, <2>3 DEF Core, SendCore, SendPc
<1>6. MirrorCore'
  BY <1>1 DEF Core, MirrorCore, Only, FreePc
<1> QED BY <1>2, <1>5, <1>6 DEF Core

\* The record of the outcome: the send is over, for good.
LEMMA OutcomeEffect ==
  ASSUME Typed, Core, NEW i \in Worker, pc[i] \in {"confirm", "doubt"},
         NEW status \in {"sent", "blocked_unknown"},
         status = "sent" => pc[i] = "confirm",
         row' = [row EXCEPT !.status = status],
         Only(i), pc'[i] \in {"plan"} \cup FreePc, pc'[i] = "plan" => status = "sent",
         UNCHANGED <<marked, logRows, chatVars>>
  PROVE  Core'
<1> USE Points DEF chatVars
<1>1. /\ row.status = "sending" /\ row'.status = status
      /\ row'.mirror = row.mirror /\ row'.payload = row.payload
  BY DEF Core, SendCore, SendPc, Sending, Typed, TypeOK, Row
<1>2. RowCore'
  BY <1>1 DEF Core, RowCore, SendCore
<1>3. \A j \in Worker : pc'[j] \notin SendPc
  BY DEF Core, SendCore, SendPc, Only, FreePc
<1>4. SendCore'
  <2>1. \A j \in Worker : pc'[j] \in {"reserve", "won"} =>
          j # i /\ pc[j] = pc'[j] /\ loaded'[j] = loaded[j]
    BY DEF Only, FreePc
  <2> QED BY <1>1, <1>3, <2>1 DEF Core, SendCore, SendPc
<1>5. MirrorCore'
  BY <1>1 DEF Core, MirrorCore, Only, FreePc
<1> QED BY <1>2, <1>4, <1>5 DEF Core

\* A write of the mirror: the log first, then the mark, then the row.
LEMMA MirrorEffect ==
  ASSUME Typed, Core, NEW i \in Worker, row.status = "sent",
         pc[i] \in MirrorPc \cup {"markFailed"},
         Only(i), pc'[i] \in MirrorPc \cup {"markFailed"} \cup FreePc,
         UNCHANGED chatVars,
         NEW v \in {"pending", "mirrored", "failed"}, row' = [row EXCEPT !.mirror = v],
         v = "mirrored" => marked', logRows' \in Nat, logRows > 0 => logRows' > 0,
         marked => marked', marked' => logRows' > 0,
         pc'[i] = "writeLog" => create'[i] \/ logRows' > 0,
         pc'[i] = "writeMark" => logRows' > 0,
         pc'[i] = "markMirrored" => marked'
  PROVE  Core'
<1> USE Points DEF chatVars
<1>1. /\ row'.status = "sent" /\ row'.mirror = v /\ row'.payload = row.payload
      /\ row'.owner = row.owner
  BY DEF Typed, TypeOK, Row
<1>2. RowCore'
  BY <1>1 DEF Core, RowCore
<1>3. SendCore'
  <2>1. \A j \in Worker : pc'[j] \notin SendPc
    BY <1>1 DEF Core, SendCore, Sending, SendPc, Only, FreePc
  <2>2. \A j \in Worker : pc'[j] \in {"reserve", "won"} =>
          j # i /\ pc[j] = pc'[j] /\ loaded'[j] = loaded[j]
    BY DEF Only, FreePc
  <2> QED BY <1>1, <2>1, <2>2 DEF Core, SendCore, SendPc
<1>4. MirrorCore'
  BY <1>1 DEF Core, MirrorCore, Only, FreePc
<1> QED BY <1>2, <1>3, <1>4 DEF Core

\* What the core asks of one Worker.
Fits(i) ==
    /\ pc[i] \in SendPc => Sending(i) /\ row.payload = loaded[i]
    /\ pc[i] = "reserve" => row.payload = loaded[i] /\ row.status # "none"
    /\ pc[i] = "won" => row.status # "none"
    /\ pc[i] = "post" => posts = <<>>
    /\ pc[i] = "answer" => slot[i] = 1 /\ posts # <<>>
    /\ pc[i] = "confirm" => 1 \in arrived
    /\ pc[i] \in MirrorPc \cup {"markFailed"} => row.status = "sent"
    /\ pc[i] = "writeLog" /\ ~create[i] => logRows > 0
    /\ pc[i] = "writeMark" => logRows > 0
    /\ pc[i] = "markMirrored" => marked

\* A Worker that moves to a point it fits, and changes nothing else.
LEMMA Move ==
  ASSUME Typed, Core, NEW i \in Worker, Only(i), Fits(i)',
         pc'[i] \in SendPc => pc[i] \in SendPc,
         UNCHANGED <<row, marked, logRows, chatVars>>
  PROVE  Core'
<1> USE Points DEF chatVars
<1>1. RowCore'
  BY DEF Core, RowCore
<1>2. \A j \in Worker : Fits(j)'
  BY DEF Core, SendCore, MirrorCore, Only, Fits, Sending, OwnerId
<1>3. \A j, k \in Worker : pc'[j] \in SendPc /\ pc'[k] \in SendPc => j = k
  BY DEF Core, SendCore, Only
<1>4. SendCore'
  BY <1>2, <1>3 DEF SendCore, Fits
<1>5. MirrorCore'
  BY <1>2 DEF Core, MirrorCore, Fits
<1> QED BY <1>1, <1>4, <1>5 DEF Core

\* Every step keeps the core.
LEMMA CoreStep == Typed /\ Core /\ [Next]_vars => Core'
<1> SUFFICES ASSUME Typed, Core, [Next]_vars PROVE Core'
  OBVIOUS
<1> USE Points DEF At, larkVars, chatVars
<1>typed. Typed'
  BY TypedStep
<1>fit. \A i \in Worker : Fits(i)
  BY DEF Core, SendCore, MirrorCore, Fits
<1>1. ASSUME NEW i \in Worker, NEW m \in Message, Deliver(i, m) PROVE Core'
  <2>1. Only(i) /\ pc'[i] \in FreePc
    BY <1>1 DEF Deliver, Goto, Only, FreePc, Typed, TypeOK
  <2> QED BY <1>1, <2>1, Yield DEF Deliver
<1>2. ASSUME NEW i \in Worker, Load(i) PROVE Core'
  <2>1. Only(i) /\ pc'[i] \in FreePc
    BY <1>2 DEF Load, Goto, Only, FreePc, Typed, TypeOK
  <2> QED BY <1>2, <2>1, Yield DEF Load
<1>3. ASSUME NEW i \in Worker, Claim(i) PROVE Core'
  <2>1. PICK t \in since[i]..now :
          IF row = NoRow \/ Reclaimable(i, t)
            THEN row' = Claimed(i, t) /\ Goto(i, "won")
            ELSE UNCHANGED row /\ Goto(i, "lost")
    BY <1>3 DEF Claim
  <2>2. t \in Nat
    BY DEF Typed, TypeOK
  <2>3. pc[i] = "claim" /\ UNCHANGED <<job, loaded, slot, create, marked, logRows, chatVars>>
    BY <1>3 DEF Claim
  <2>4. CASE row = NoRow \/ Reclaimable(i, t)
    <3>1. Only(i) /\ pc'[i] = "won"
      BY <2>1, <2>3, <2>4, OnlyGoto
    <3> QED BY <2>1, <2>2, <2>3, <2>4, <3>1, ClaimEffect
  <2>5. CASE ~(row = NoRow \/ Reclaimable(i, t))
    <3>1. Only(i) /\ pc'[i] = "lost"
      BY <2>1, <2>3, <2>5, OnlyGoto
    <3> QED BY <2>1, <2>3, <2>5, <3>1, Yield DEF FreePc
  <2> QED BY <2>4, <2>5
<1>4. ASSUME NEW i \in Worker, ReadBack(i) PROVE Core'
  <2>0. UNCHANGED <<row, marked, logRows, chatVars>> /\ pc[i] \in {"won", "lost"}
    BY <1>4 DEF ReadBack
  <2>1. CASE Ack(i)
    BY <2>0, <2>1, OnlyLeave, Yield DEF Ack, FreePc
  <2>2. CASE Goto(i, "reject") /\ UNCHANGED <<job, loaded, slot, create>>
    BY <2>0, <2>2, OnlyGoto, Yield DEF FreePc
  <2>3. CASE /\ row.payload = loaded[i] /\ Acquired(i) /\ Goto(i, "reserve")
             /\ UNCHANGED <<job, loaded, slot, create>>
    <3>1. Only(i) /\ pc'[i] = "reserve"
      BY <2>3, OnlyGoto
    <3>2. Fits(i)'
      BY <2>0, <2>3, <3>1 DEF Fits, Acquired, SendPc
    <3> QED BY <2>0, <3>1, <3>2, Move DEF SendPc
  <2>4. CASE /\ row.status = "sent" /\ Goto(i, "plan")
             /\ UNCHANGED <<job, loaded, slot, create>>
    <3>1. Only(i) /\ pc'[i] = "plan"
      BY <2>4, OnlyGoto
    <3>2. Fits(i)'
      BY <2>0, <2>4, <3>1 DEF Fits, SendPc
    <3> QED BY <2>0, <3>1, <3>2, Move DEF SendPc
  <2> QED BY <1>4, <2>1, <2>2, <2>3, <2>4 DEF ReadBack
<1>5. ASSUME NEW i \in Worker, Reserve(i) PROVE Core'
  <2>1. PICK t \in since[i]..now :
          IF Reservable(i, t)
            THEN row' = [row EXCEPT !.status = "sending"] /\ Goto(i, "post")
            ELSE UNCHANGED row /\ Goto(i, "reject")
    BY <1>5 DEF Reserve
  <2>2. t \in Nat
    BY DEF Typed, TypeOK
  <2>3. pc[i] = "reserve" /\ UNCHANGED <<job, loaded, slot, create, marked, logRows, chatVars>>
    BY <1>5 DEF Reserve
  <2>4. CASE Reservable(i, t)
    <3>1. Only(i) /\ pc'[i] = "post"
      BY <2>1, <2>3, <2>4, OnlyGoto
    <3> QED BY <2>1, <2>2, <2>3, <2>4, <3>1, ReserveEffect
  <2>5. CASE ~Reservable(i, t)
    <3>1. Only(i) /\ pc'[i] = "reject"
      BY <2>1, <2>3, <2>5, OnlyGoto
    <3> QED BY <2>1, <2>3, <2>5, <3>1, Yield DEF FreePc
  <2> QED BY <2>4, <2>5
<1>6. ASSUME NEW i \in Worker, Post(i) PROVE Core'
  <2>1. /\ pc[i] = "post" /\ posts = <<>> /\ row.status = "sending"
        /\ row.payload = loaded[i] /\ loaded[i] \in Payload
    BY <1>6, <1>fit DEF Post, Fits, SendPc, Sending, Typed, Local
  <2>2. /\ posts' = <<loaded[i]>> /\ slot' = [slot EXCEPT ![i] = 1]
        /\ Goto(i, "answer") /\ UNCHANGED <<row, job, loaded, create, arrived>>
        /\ UNCHANGED <<marked, logRows>>
    BY <1>6, <2>1 DEF Post
  <2>3. /\ pc' = [pc EXCEPT ![i] = "answer"] /\ slot'[i] = 1
        /\ Len(posts') = 1 /\ posts'[1] = loaded[i] /\ posts' # <<>>
    BY <2>2 DEF Goto, Typed, TypeOK
  <2>4. RowCore'
    BY <2>1, <2>2, <2>3 DEF Core, RowCore
  <2>5. \A j \in Worker : pc'[j] \in SendPc => j = i
    BY <2>1, <2>3 DEF Core, SendCore, SendPc, Typed, TypeOK
  <2>6. \A j \in Worker \ {i} : Fits(j)'
    BY <2>1, <2>2, <2>3, <2>5, <1>fit DEF Fits, SendPc, Typed, TypeOK
  <2>7. Fits(i)'
    BY <2>1, <2>2, <2>3, <1>fit DEF Fits, SendPc, Sending, OwnerId, Typed, TypeOK
  <2>8. \A j \in Worker : Fits(j)'
    BY <2>6, <2>7
  <2>9. SendCore'
    BY <2>5, <2>8 DEF SendCore, Fits
  <2>10. MirrorCore'
    BY <2>2, <2>8 DEF Core, MirrorCore, Fits
  <2> QED BY <2>4, <2>9, <2>10 DEF Core
<1>7. ASSUME NEW i \in Worker, NoToken(i) \/ Answer(i) \/ NoAnswer(i) PROVE Core'
  <2>1. PICK p \in {"doubt", "confirm"} :
          Goto(i, p) /\ (p = "confirm" => Confirmed(i) /\ pc[i] = "answer")
    BY <1>7 DEF NoToken, Answer, NoAnswer
  <2>2. /\ pc[i] \in {"post", "answer"}
        /\ UNCHANGED <<row, marked, logRows, chatVars, job, loaded, slot, create>>
    BY <1>7 DEF NoToken, Answer, NoAnswer
  <2>3. Only(i) /\ pc'[i] = p
    BY <2>1, <2>2, OnlyGoto
  <2>4. Fits(i)'
    BY <2>1, <2>2, <2>3, <1>fit DEF Fits, Confirmed, SendPc, Sending, OwnerId
  <2> QED BY <2>2, <2>3, <2>4, Move DEF SendPc
<1>8. ASSUME NEW i \in Worker, Confirm(i) PROVE Core'
  <2>1. pc[i] = "confirm" /\ UNCHANGED <<marked, logRows, chatVars>>
    BY <1>8 DEF Confirm
  <2>2. Sending(i)
    BY <2>1, <1>fit DEF Fits, SendPc
  <2>3. row' = [row EXCEPT !.status = "sent"]
    BY <1>8, <2>2 DEF Confirm
  <2>4. CASE Ack(i)
    BY <2>1, <2>3, <2>4, OnlyLeave, OutcomeEffect DEF Ack, FreePc
  <2>5. CASE Goto(i, "plan") /\ UNCHANGED <<job, loaded, slot, create>>
    BY <2>1, <2>3, <2>5, OnlyGoto, OutcomeEffect
  <2> QED BY <1>8, <2>2, <2>4, <2>5 DEF Confirm
<1>9. ASSUME NEW i \in Worker, Doubt(i) PROVE Core'
  <2>1. pc[i] = "doubt" /\ UNCHANGED <<marked, logRows, chatVars>>
    BY <1>9 DEF Doubt
  <2>2. Sending(i)
    BY <2>1, <1>fit DEF Fits, SendPc
  <2>3. row' = [row EXCEPT !.status = "blocked_unknown"]
    BY <1>9, <2>2 DEF Doubt, Doubtful
  <2>4. Only(i) /\ pc'[i] = "reject"
    BY <1>9, OnlyGoto DEF Doubt
  <2> QED BY <2>1, <2>3, <2>4, OutcomeEffect DEF FreePc
<1>10. ASSUME NEW i \in Worker, Plan(i) PROVE Core'
  <2>1. /\ pc[i] = "plan" /\ UNCHANGED <<row, marked, logRows, chatVars>>
        /\ UNCHANGED <<job, loaded, slot>> /\ logRows \in Nat
    BY <1>10 DEF Plan, Typed, TypeOK
  <2>2. row.status = "sent"
    BY <2>1, <1>fit DEF Fits
  <2>3. Only(i) /\ pc'[i] \in {"markFailed", "writeLog"}
    BY <1>10 DEF Plan, Goto, Only, Typed, TypeOK
  <2>4. pc'[i] = "writeLog" /\ ~create'[i] => logRows' > 0
    <3>1. CASE logRows > 1
      BY <1>10, <2>1, <3>1
    <3>2. CASE ~(logRows > 1)
      <4>1. create' = [create EXCEPT ![i] = logRows = 0]
        BY <1>10, <3>2 DEF Plan
      <4>2. create'[i] = (logRows = 0)
        BY <4>1, Zenon DEF Typed, TypeOK
      <4>3. ~create'[i] => logRows # 0
        BY <4>2, Zenon
      <4>4. logRows # 0 => logRows > 0
        BY <2>1
      <4> QED BY <2>1, <4>3, <4>4
    <3> QED BY <3>1, <3>2
  <2>5. Fits(i)'
    BY <2>1, <2>2, <2>3, <2>4 DEF Fits, SendPc
  <2> QED BY <2>1, <2>3, <2>5, Move DEF SendPc
<1>mirror. ASSUME NEW i \in Worker, pc[i] \in MirrorPc \cup {"markFailed"}
           PROVE  /\ row.status = "sent" /\ logRows \in Nat
                  /\ row.mirror \in {"pending", "mirrored", "failed"}
                  /\ row = [row EXCEPT !.mirror = row.mirror]
                  /\ row.mirror = "mirrored" => marked
                  /\ marked => logRows > 0
                  /\ pc[i] = "writeLog" /\ ~create[i] => logRows > 0
                  /\ pc[i] = "writeMark" => logRows > 0
                  /\ pc[i] = "markMirrored" => marked
  BY <1>mirror, <1>fit DEF Fits, Core, MirrorCore, Typed, TypeOK, Row
<1>11. ASSUME NEW i \in Worker, WriteLog(i) PROVE Core'
  <2>1. /\ pc[i] = "writeLog" /\ UNCHANGED <<row, marked, chatVars, job, loaded, slot, create>>
        /\ logRows' = IF create[i] THEN logRows + 1 ELSE logRows
        /\ Goto(i, "writeMark")
    BY <1>11 DEF WriteLog, Logged
  <2>2. Only(i) /\ pc'[i] = "writeMark"
    BY <2>1, OnlyGoto
  <2>3. logRows' \in Nat /\ logRows' > 0
    BY <2>1, <1>mirror
  <2> QED BY <2>1, <2>2, <2>3, <1>mirror, MirrorEffect
<1>12. ASSUME NEW i \in Worker, WriteMark(i) PROVE Core'
  <2>1. /\ pc[i] = "writeMark" /\ UNCHANGED <<row, logRows, chatVars, job, loaded, slot, create>>
        /\ marked' = TRUE /\ Goto(i, "markMirrored")
    BY <1>12 DEF WriteMark
  <2>2. Only(i) /\ pc'[i] = "markMirrored"
    BY <2>1, OnlyGoto
  <2> QED BY <2>1, <2>2, <1>mirror, MirrorEffect
<1>13. ASSUME NEW i \in Worker, MarkMirrored(i) PROVE Core'
  <2>1. pc[i] = "markMirrored" /\ UNCHANGED <<marked, logRows, chatVars>>
    BY <1>13 DEF MarkMirrored
  <2>2. row' = [row EXCEPT !.mirror = "mirrored"] /\ Ack(i)
    BY <1>13, <2>1, <1>mirror DEF MarkMirrored, SetMirror
  <2>3. Only(i) /\ pc'[i] = "idle"
    BY <2>2, OnlyLeave DEF Ack
  <2> QED BY <2>1, <2>2, <2>3, <1>mirror, MirrorEffect DEF FreePc
<1>14. ASSUME NEW i \in Worker, MirrorFails(i) PROVE Core'
  <2>1. /\ pc[i] \in MirrorPc /\ Goto(i, "markFailed")
        /\ UNCHANGED <<chatVars, job, loaded, slot, create>>
    BY <1>14 DEF MirrorFails
  <2>2. Only(i) /\ pc'[i] = "markFailed"
    BY <2>1, OnlyGoto
  <2>3. CASE UNCHANGED <<row, marked, logRows>>
    BY <2>1, <2>2, <2>3, <1>mirror, MirrorEffect
  <2>4. CASE /\ pc[i] = "writeLog" /\ UNCHANGED <<row, marked>>
             /\ logRows' = IF create[i] THEN logRows + 1 ELSE logRows
    <3>1. logRows' \in Nat /\ logRows' > 0
      BY <2>4, <1>mirror
    <3> QED BY <2>1, <2>2, <2>4, <3>1, <1>mirror, MirrorEffect
  <2>5. CASE pc[i] = "writeMark" /\ marked' = TRUE /\ UNCHANGED <<row, logRows>>
    BY <2>1, <2>2, <2>5, <1>mirror, MirrorEffect
  <2>6. CASE /\ pc[i] = "markMirrored" /\ row' = SetMirror("mirrored")
             /\ UNCHANGED <<marked, logRows>>
    <3>1. row' = [row EXCEPT !.mirror = "mirrored"]
      BY <2>6, <1>mirror DEF SetMirror
    <3> QED BY <2>1, <2>2, <2>6, <3>1, <1>mirror, MirrorEffect
  <2> QED BY <1>14, <2>3, <2>4, <2>5, <2>6 DEF MirrorFails
<1>15. ASSUME NEW i \in Worker, MarkFailed(i) PROVE Core'
  <2>1. /\ pc[i] = "markFailed" /\ Retry(i) /\ UNCHANGED <<marked, logRows, chatVars>>
        /\ row' = row \/ row' = [row EXCEPT !.mirror = "failed"]
    BY <1>15, <1>mirror DEF MarkFailed, SetMirror
  <2>2. Only(i) /\ pc'[i] = "idle"
    BY <2>1, OnlyLeave DEF Retry
  <2> QED BY <2>1, <2>2, <1>mirror, MirrorEffect DEF FreePc
<1>16. ASSUME NEW i \in Worker, Reject(i) \/ Crash(i) PROVE Core'
  <2>1. Leave(i) /\ UNCHANGED <<row, marked, logRows, chatVars>>
    BY <1>16 DEF Reject, Crash, Ack, Retry
  <2> QED BY <2>1, OnlyLeave, Yield DEF FreePc
<1>17. ASSUME NEW i \in Worker, CallFails(i) PROVE Core'
  <2>1. /\ Leave(i) /\ UNCHANGED <<marked, logRows, chatVars>>
        /\ row' \in {row} \cup Effects(i)
    BY <1>17 DEF CallFails, Retry
  <2>2. Only(i) /\ pc'[i] = "idle"
    BY <2>1, OnlyLeave
  <2>3. CASE row' = row
    BY <2>1, <2>2, <2>3, Yield DEF FreePc
  <2>4. CASE row' \in Effects(i) /\ pc[i] = "claim"
    <3>1. PICK t \in since[i]..now :
            (row = NoRow \/ Reclaimable(i, t)) /\ row' = Claimed(i, t)
      BY <2>4 DEF Effects
    <3>2. t \in Nat
      BY DEF Typed, TypeOK
    <3> QED BY <2>1, <2>2, <2>4, <3>1, <3>2, ClaimEffect DEF FreePc
  <2>5. CASE row' \in Effects(i) /\ pc[i] = "reserve"
    <3>1. PICK t \in since[i]..now :
            Reservable(i, t) /\ row' = [row EXCEPT !.status = "sending"]
      BY <2>5 DEF Effects
    <3>2. t \in Nat
      BY DEF Typed, TypeOK
    <3> QED BY <2>1, <2>2, <2>5, <3>1, <3>2, ReserveEffect DEF FreePc
  <2>6. CASE row' \in Effects(i) /\ pc[i] = "confirm"
    <3>1. row' = [row EXCEPT !.status = "sent"]
      BY <2>6 DEF Effects
    <3> QED BY <2>1, <2>2, <2>6, <3>1, OutcomeEffect DEF FreePc
  <2>7. CASE row' \in Effects(i) /\ pc[i] = "doubt"
    <3>1. row' = [row EXCEPT !.status = "blocked_unknown"]
      BY <2>7 DEF Effects
    <3> QED BY <2>1, <2>2, <2>7, <3>1, OutcomeEffect DEF FreePc
  <2>8. CASE row' \in Effects(i) /\ pc[i] \notin {"claim", "reserve", "confirm", "doubt"}
    BY <2>8 DEF Effects
  <2> QED BY <2>1, <2>3, <2>4, <2>5, <2>6, <2>7, <2>8
<1>18. CASE Arrive
  <2>1. PICK k \in 1..Len(posts) : arrived' = arrived \cup {k}
    BY <1>18 DEF Arrive
  <2>2. UNCHANGED <<row, marked, logRows, posts, pc, localVars>>
    BY <1>18 DEF Arrive
  <2>3. RowCore'
    BY <2>1, <2>2 DEF Core, RowCore
  <2>4. SendCore'
    BY <2>1, <2>2 DEF Core, SendCore, localVars, Sending, OwnerId
  <2> QED BY <2>2, <2>3, <2>4 DEF Core, MirrorCore, localVars
<1>19. CASE Edit \/ Tick \/ UNCHANGED vars
  BY <1>19 DEF Edit, Tick, vars, localVars, Core, RowCore, SendCore, MirrorCore,
               Sending, OwnerId
<1> QED
  BY <1>1, <1>2, <1>3, <1>4, <1>5, <1>6, <1>7, <1>8, <1>9, <1>10, <1>11, <1>12,
     <1>13, <1>14, <1>15, <1>16, <1>17, <1>18, <1>19 DEF Next, Step

\* Types and core hold in every reachable state.
LEMMA Invariance == Spec => [](Typed /\ Core)
<1>1. Init => Typed /\ Core
  BY TypedInit, CoreInit
<1>2. Typed /\ Core /\ [Next]_vars => (Typed /\ Core)'
  BY TypedStep, CoreStep
<1> QED BY <1>1, <1>2, PTL DEF Spec

\* However the Queue, D1 and the Workers behave, one message at most is
\* posted to the group.
THEOREM ExactSend == Spec => []AtMostOnePost
<1>1. Core => AtMostOnePost
  BY DEF Core, RowCore, AtMostOnePost
<1> QED BY <1>1, Invariance, PTL

\* A row that says sent is backed by a message in the group, and the row's
\* checksum is that of the message.
THEOREM SentShown == Spec => []SentIsShown
<1>1. Typed /\ Core => SentIsShown
  <2> SUFFICES ASSUME Typed, Core PROVE SentIsShown
    OBVIOUS
  <2>1. row.status = "sent" => arrived # {}
    BY DEF Core, RowCore
  <2>2. ASSUME NEW k \in arrived PROVE posts[k] = row.payload
    <3>1. Len(posts) \in Nat /\ k \in 1..Len(posts) /\ Len(posts) <= 1
      BY DEF Typed, TypeOK, Core, RowCore
    <3>2. k = 1 /\ posts # <<>>
      BY <3>1 DEF Typed, TypeOK
    <3> QED BY <3>2 DEF Core, RowCore
  <2> QED BY <2>1, <2>2 DEF SentIsShown
<1> QED BY <1>1, Invariance, PTL

\* The AI run is marked only after the log row is there, and neither before
\* D1 has recorded the send.
THEOREM MirrorBacked == Spec => []MirrorIsBacked
<1>1. Core => MirrorIsBacked
  BY DEF Core, MirrorCore, MirrorIsBacked
<1> QED BY <1>1, Invariance, PTL

-----------------------------------------------------------------------------
(***************************************************************************)
(* What a step can do to the row and the group, seen from outside.         *)
(***************************************************************************)
Keeps ==
    UNCHANGED chatVars /\ row'.status = row.status /\ row'.payload = row.payload
Claims ==
    UNCHANGED chatVars /\ row.status \in {"none", "claimed"} /\ row'.status = "claimed"
Reserves ==
    UNCHANGED chatVars /\ row.status = "claimed" /\ row'.status = "sending"
Posts ==
    /\ row.status = "sending" /\ posts = <<>>
    /\ \E p \in Payload : posts' = <<p>>
    /\ UNCHANGED <<row, arrived>>
Arrives ==
    posts # <<>> /\ arrived = {} /\ arrived' = {1} /\ UNCHANGED <<row, posts>>
Settles ==
    /\ UNCHANGED chatVars /\ row.status = "sending"
    /\ \/ row'.status = "sent" /\ arrived # {}
       \/ row'.status = "blocked_unknown"

\* Every step is of one of these kinds, seen from the row and the group.
LEMMA StepKinds ==
  Typed /\ Core /\ [Next]_vars =>
    Keeps \/ Claims \/ Reserves \/ Posts \/ Arrives \/ Settles
<1> SUFFICES ASSUME Typed, Core, [Next]_vars
             PROVE  Keeps \/ Claims \/ Reserves \/ Posts \/ Arrives \/ Settles
  OBVIOUS
<1> USE Points DEF At, larkVars, chatVars
<1>fit. \A i \in Worker : Fits(i)
  BY DEF Core, SendCore, MirrorCore, Fits
<1>row. row \in Row
  BY DEF Typed, TypeOK
<1>1. ASSUME NEW i \in Worker, NEW t \in Nat, UNCHANGED chatVars,
             row = NoRow \/ Reclaimable(i, t), row' = Claimed(i, t)
      PROVE  Claims
  BY <1>1, <1>row DEF Claims, Claimed, Reclaimable, NoRow, Row
<1>2. ASSUME NEW i \in Worker, NEW t \in Nat, UNCHANGED chatVars,
             Reservable(i, t), row' = [row EXCEPT !.status = "sending"]
      PROVE  Reserves
  BY <1>2, <1>row DEF Reserves, Reservable, Row
<1>3. ASSUME NEW i \in Worker, NEW s \in {"sent", "blocked_unknown"},
             pc[i] \in {"confirm", "doubt"}, s = "sent" => pc[i] = "confirm",
             UNCHANGED chatVars, row' = [row EXCEPT !.status = s]
      PROVE  Settles
  <2>1. row.status = "sending" /\ (s = "sent" => arrived # {})
    BY <1>3, <1>fit DEF Fits, SendPc, Sending
  <2>2. row'.status = s
    BY <1>3, <1>row DEF Row
  <2> QED BY <1>3, <2>1, <2>2 DEF Settles
<1>4. ASSUME NEW v, UNCHANGED chatVars, row' = SetMirror(v) PROVE Keeps
  BY <1>4, <1>row DEF Keeps, SetMirror, Row
<1>same. ASSUME UNCHANGED <<row, posts, arrived>> PROVE Keeps
  BY <1>same DEF Keeps
<1>time. ASSUME NEW i \in Worker, NEW t \in since[i]..now PROVE t \in Nat
  BY DEF Typed, TypeOK
<1>5. ASSUME NEW i \in Worker, Claim(i) PROVE Keeps \/ Claims
  BY <1>5, <1>1, <1>same, <1>time DEF Claim
<1>6. ASSUME NEW i \in Worker, Reserve(i) PROVE Keeps \/ Reserves
  BY <1>6, <1>2, <1>same, <1>time DEF Reserve
<1>7. ASSUME NEW i \in Worker, Post(i) PROVE Posts
  <2>1. /\ row.status = "sending" /\ posts = <<>> /\ loaded[i] \in Payload
    BY <1>7, <1>fit DEF Post, Fits, SendPc, Sending, Typed, Local
  <2>2. posts' = <<loaded[i]>> /\ UNCHANGED <<row, arrived>>
    BY <1>7, <2>1 DEF Post
  <2> QED BY <2>1, <2>2 DEF Posts
<1>8. ASSUME NEW i \in Worker, Confirm(i) PROVE Settles
  <2>1. pc[i] = "confirm" /\ Sending(i)
    BY <1>8, <1>fit DEF Confirm, Fits, SendPc
  <2>2. row' = [row EXCEPT !.status = "sent"] /\ UNCHANGED chatVars
    BY <1>8, <2>1 DEF Confirm
  <2> QED BY <2>1, <2>2, <1>3
<1>9. ASSUME NEW i \in Worker, Doubt(i) PROVE Settles
  <2>1. pc[i] = "doubt" /\ Sending(i)
    BY <1>9, <1>fit DEF Doubt, Fits, SendPc
  <2>2. row' = [row EXCEPT !.status = "blocked_unknown"] /\ UNCHANGED chatVars
    BY <1>9, <2>1 DEF Doubt, Doubtful
  <2> QED BY <2>1, <2>2, <1>3
<1>10. ASSUME NEW i \in Worker, MarkMirrored(i) \/ MirrorFails(i) \/ MarkFailed(i)
       PROVE  Keeps
  <2>1. UNCHANGED chatVars /\ (row' = row \/ \E v \in {"mirrored", "failed"} : row' = SetMirror(v))
    BY <1>10 DEF MarkMirrored, MirrorFails, MarkFailed
  <2> QED BY <2>1, <1>4, <1>same
<1>11. ASSUME NEW i \in Worker, CallFails(i) PROVE Keeps \/ Claims \/ Reserves \/ Settles
  <2>1. UNCHANGED chatVars /\ (row' = row \/ row' \in Effects(i))
    BY <1>11 DEF CallFails
  <2>2. CASE row' = row
    BY <2>1, <2>2, <1>same
  <2>3. CASE row' \in Effects(i) /\ pc[i] = "claim"
    <3>1. PICK t \in since[i]..now :
            (row = NoRow \/ Reclaimable(i, t)) /\ row' = Claimed(i, t)
      BY <2>3 DEF Effects
    <3> QED BY <2>1, <3>1, <1>1, <1>time
  <2>4. CASE row' \in Effects(i) /\ pc[i] = "reserve"
    <3>1. PICK t \in since[i]..now :
            Reservable(i, t) /\ row' = [row EXCEPT !.status = "sending"]
      BY <2>4 DEF Effects
    <3> QED BY <2>1, <3>1, <1>2, <1>time
  <2>5. CASE row' \in Effects(i) /\ pc[i] = "confirm"
    <3>1. row' = [row EXCEPT !.status = "sent"]
      BY <2>5 DEF Effects
    <3> QED BY <2>1, <2>5, <3>1, <1>3
  <2>6. CASE row' \in Effects(i) /\ pc[i] = "doubt"
    <3>1. row' = [row EXCEPT !.status = "blocked_unknown"]
      BY <2>6 DEF Effects
    <3> QED BY <2>1, <2>6, <3>1, <1>3
  <2>7. CASE row' \in Effects(i) /\ pc[i] \notin {"claim", "reserve", "confirm", "doubt"}
    BY <2>7 DEF Effects
  <2> QED BY <2>1, <2>2, <2>3, <2>4, <2>5, <2>6, <2>7
<1>12. CASE Arrive
  <2>1. PICK k \in 1..Len(posts) : k \notin arrived /\ arrived' = arrived \cup {k}
    BY <1>12 DEF Arrive
  <2>2. Len(posts) \in Nat /\ Len(posts) <= 1 /\ arrived \subseteq 1..Len(posts)
    BY DEF Typed, TypeOK, Core, RowCore
  <2>3. k = 1 /\ arrived = {} /\ posts # <<>>
    BY <2>1, <2>2
  <2> QED BY <1>12, <2>1, <2>3 DEF Arrive, Arrives
<1>13. ASSUME NEW i \in Worker,
              \/ \E m \in Message : Deliver(i, m)
              \/ Load(i) \/ ReadBack(i) \/ NoToken(i) \/ Answer(i) \/ NoAnswer(i)
              \/ Plan(i) \/ WriteLog(i) \/ WriteMark(i) \/ Reject(i) \/ Crash(i)
       PROVE  Keeps
  <2>1. UNCHANGED <<row, posts, arrived>>
    BY <1>13 DEF Deliver, Load, ReadBack, NoToken, Answer, NoAnswer, Plan,
                 WriteLog, WriteMark, Reject, Crash
  <2> QED BY <2>1, <1>same
<1>14. CASE Edit \/ Tick \/ UNCHANGED vars
  BY <1>14, <1>same DEF Edit, Tick, vars
<1> QED
  BY <1>5, <1>6, <1>7, <1>8, <1>9, <1>10, <1>11, <1>12, <1>13, <1>14
     DEF Next, Step

\* A delivery that was sent, or whose outcome is unknown, stays so, for the
\* same text.
THEOREM FinalOutcome == Spec => OutcomeIsFinal
<1>1. ASSUME Typed, Core, [Next]_vars
      PROVE  [row.status \in {"sent", "blocked_unknown"} =>
                row'.status = row.status /\ row'.payload = row.payload]_row
  BY <1>1, StepKinds
     DEF Keeps, Claims, Reserves, Posts, Arrives, Settles
<1> QED BY <1>1, Invariance, PTL DEF Spec, OutcomeIsFinal

\* The delivery implements its promise: reclaims, read-backs, retries and
\* mirror repairs are steps the promise does not see, and every other step
\* is one of its steps.
THEOREM ImplementsPromise == Spec => AtMostOnce
<1>1. Init => Promise!Init
  BY DEF Init, NoRow, Phase, Promise!Init
<1>2. ASSUME Typed, Core, [Next]_vars PROVE [Promise!Next]_(Promise!vars)
  <2> USE DEF Phase, Promise!vars, Promise!Next, chatVars
  <2>1. CASE Keeps \/ Claims
    <3>1. Phase' = Phase /\ UNCHANGED <<posts, arrived>>
      BY <2>1 DEF Keeps, Claims
    <3> QED BY <3>1
  <2>2. CASE Reserves
    BY <2>2 DEF Reserves, Promise!Reserve
  <2>3. CASE Posts
    <3>1. PICK p \in Payload : posts' = <<p>>
      BY <2>3 DEF Posts
    <3>2. Promise!Post(p)
      BY <2>3, <3>1 DEF Posts, Promise!Post
    <3> QED BY <3>2
  <2>4. CASE Arrives
    BY <2>4 DEF Arrives, Promise!Arrive
  <2>5. CASE Settles
    BY <2>5 DEF Settles, Promise!Confirm, Promise!GiveUp
  <2> QED BY <1>2, <2>1, <2>2, <2>3, <2>4, <2>5, StepKinds
<1> QED BY <1>1, <1>2, Invariance, PTL DEF Spec, AtMostOnce, Promise!Spec
=============================================================================
