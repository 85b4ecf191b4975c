-------------------------- MODULE QueueRecoveryProofs --------------------------
(***************************************************************************)
(* What holds of QueueRecovery for every number of consumers, messages,    *)
(* recoveries, tries and faults.                                           *)
(***************************************************************************)
EXTENDS QueueRecovery, FiniteSetTheorems, TLAPS

USE NoneAssumption, BoundAssumption

\* A message that waits has a try left; one not sent yet has used none.
Quota ==
    \A m \in Message :
        /\ where[m] = "main" => tries[m] < MainTries
        /\ where[m] = "dead" => tries[m] < DeadTries
        /\ m > sent => where[m] = "unused" /\ tries[m] = 0

\* The evidence that is in place when the dead letter consumer of m gets to p.
Ready(p, m) ==
    /\ p \in DeadPc \ {"deadRead", "deadWrite", "letter"} => letter[m] # "none"
    /\ p \in DeadPc \ {"deadRead", "deadWrite", "letter", "meta"}
         => meta[m] # "none"
    /\ p \in DeadPc \ {"deadRead", "deadWrite", "letter", "meta", "alert"}
         => alert[m] # "none"

\* What a consumer may rely on at each point of its run.
Local(i) ==
    /\ pc[i] # "idle" => msg[i] \in Message /\ msg[i] <= sent
    /\ pc[i] = "close" => done
    /\ Ready(pc[i], msg[i])
    /\ \A d \in listed[i] : meta[d] \in {"in_progress", "completed"}

\* The three tables agree on every incident.
Agree ==
    \A m \in Message :
        /\ meta[m] # "none" => letter[m] # "none"
        /\ meta[m] \in {"in_progress", "completed"} => alert[m] # "none"
        /\ meta[m] = "completed" =>
             letter[m] = "redriven" /\ alert[m] = "resolved"

\* No row of an incident is lost, closed or opened again.
Tables ==
    /\ letter' \in [Message -> {"none", "open", "redrive_pending", "redriven"}]
    /\ meta' \in [Message -> {"none", "not_started", "in_progress", "completed"}]
    /\ alert' \in [Message -> {"none", "open", "resolved"}]
    /\ \A m \in Message :
         /\ letter[m] # "none" => letter'[m] # "none"
         /\ meta[m] # "none" => meta'[m] # "none"
         /\ alert[m] # "none" => alert'[m] # "none"
         /\ meta[m] = "in_progress" => meta'[m] = "in_progress"
         /\ meta[m] = "completed" <=> meta'[m] = "completed"
         /\ letter[m] = "redriven" <=> letter'[m] = "redriven"
         /\ alert[m] = "resolved" <=> alert'[m] = "resolved"
         /\ meta'[m] # "none" => letter'[m] # "none"
         /\ meta'[m] = "in_progress" => alert'[m] # "none"

Begun == done => life # "absent"

IInv == /\ TypeOK
        /\ Quota
        /\ \A i \in Worker : Local(i)
        /\ Agree
        /\ Begun
        /\ ClosedIsBacked

\* The names of the points, in one place.
LEMMA Points ==
    /\ Pc = {"idle", "ack", "acquire", "begin", "claim", "work", "continue",
             "list", "close", "failRead", "failWrite", "failLetter", "deadRead",
             "deadWrite", "letter", "meta", "alert", "authorize",
             "claimIncident", "revive", "reread", "send", "mark"}
    /\ DeadPc = {"deadRead", "deadWrite", "letter", "meta", "alert",
                 "authorize", "claimIncident", "revive", "reread", "send",
                 "mark"}
  BY DEF Pc, MainPc, RunPc, DeadPc

\* The initial state satisfies the inductive invariant.
LEMMA InvInit == Init => IInv
<1> SUFFICES ASSUME Init PROVE IInv
  OBVIOUS
<1>1. TypeOK
  <2>1. /\ 0 \in 0..(MainTries + DeadTries) /\ 1 \in Message
        /\ 0 \in 0..MaxFaults
    BY DEF Message
  <2>2. /\ where \in [Message -> Where]
        /\ tries \in [Message -> 0..(MainTries + DeadTries)]
        /\ sent \in Message /\ faults \in 0..MaxFaults
    BY <2>1 DEF Init, Where
  <2> QED BY <2>2, Points DEF Init, TypeOK, Life, Reason
<1>2. Quota /\ Agree /\ Begun /\ ClosedIsBacked
  BY DEF Init, Quota, Agree, Begun, ClosedIsBacked, Message
<1>3. \A i \in Worker : Local(i)
  BY DEF Init, Local, Ready, DeadPc
<1> QED BY <1>1, <1>2, <1>3 DEF IInv

\* What Retry leaves of a message: a place, and a try for it.
LEMMA RetryKeeps ==
  ASSUME IInv, NEW i \in Worker, pc[i] # "idle", Retry(i)
  PROVE  /\ where' \in [Message -> Where]
         /\ tries' \in [Message -> 0..(MainTries + DeadTries)]
         /\ \A m \in Message :
              /\ where'[m] = "main" => tries'[m] < MainTries
              /\ where'[m] = "dead" => tries'[m] < DeadTries
              /\ m > sent => where'[m] = "unused" /\ tries'[m] = 0
         /\ sent' = sent
<1>1. msg[i] \in Message /\ msg[i] <= sent
  BY DEF IInv, Local
<1>2. where \in [Message -> Where] /\ sent \in Nat /\ Message \subseteq Nat
      /\ tries \in [Message -> 0..(MainTries + DeadTries)]
  BY DEF IInv, TypeOK, Message
<1>3. Returned(msg[i]) \in Where
  BY DEF Returned, Where
<1>4. /\ where' \in [Message -> Where]
      /\ where'[msg[i]] = Returned(msg[i])
      /\ \A m \in Message : m # msg[i] => where'[m] = where[m]
      /\ sent' = sent
  BY <1>1, <1>2, <1>3 DEF Retry
<1>5. /\ tries' \in [Message -> 0..(MainTries + DeadTries)]
      /\ tries'[msg[i]] =
           IF where[msg[i]] = "mainHeld" /\ tries[msg[i]] >= MainTries
             THEN 0 ELSE tries[msg[i]]
      /\ \A m \in Message : m # msg[i] => tries'[m] = tries[m]
  <2>1. 0 \in 0..(MainTries + DeadTries)
    OBVIOUS
  <2> QED BY <2>1, <1>1, <1>2 DEF Retry
<1>6. /\ where'[msg[i]] = "main" => tries'[msg[i]] < MainTries
      /\ where'[msg[i]] = "dead" => tries'[msg[i]] < DeadTries
  BY <1>1, <1>2, <1>4, <1>5 DEF Returned
<1>7. ASSUME NEW m \in Message
      PROVE  /\ where'[m] = "main" => tries'[m] < MainTries
             /\ where'[m] = "dead" => tries'[m] < DeadTries
             /\ m > sent => where'[m] = "unused" /\ tries'[m] = 0
  <2>1. CASE m = msg[i]
    BY <2>1, <1>1, <1>2, <1>6
  <2>2. CASE m # msg[i]
    BY <2>2, <1>4, <1>5 DEF IInv, Quota
  <2> QED BY <2>1, <2>2
<1> QED BY <1>4, <1>5, <1>7

\* A step that hands its message back, and touches nothing but the lease, the
\* faults and perhaps the status of dead letters, keeps the invariant.
LEMMA RetrySteps ==
  ASSUME IInv, NEW i \in Worker, pc[i] # "idle", Retry(i),
         lease' \in Worker \cup {None}, faults' \in 0..MaxFaults,
         UNCHANGED <<workVars, overtaken, failed, meta, alert>>,
         letter' \in [Message -> {"none", "open", "redrive_pending", "redriven"}],
         \A m \in Message : (letter'[m] = "none") = (letter[m] = "none"),
         \A m \in Message : (letter'[m] = "redriven") = (letter[m] = "redriven")
  PROVE  IInv'
<1> USE DEF workVars
<1>1. /\ pc' = [pc EXCEPT ![i] = "idle"]
      /\ msg' = [msg EXCEPT ![i] = 0]
      /\ listed' = [listed EXCEPT ![i] = {}]
  BY DEF Retry, Leave, Goto
<1>2. TypeOK'
  BY <1>1, RetryKeeps, Points DEF IInv, TypeOK
<1>3. Quota'
  BY RetryKeeps DEF Quota
<1>4. ASSUME NEW j \in Worker PROVE Local(j)'
  <2>1. CASE j = i
    BY <1>1, <2>1 DEF IInv, TypeOK, Local, Ready, DeadPc
  <2>2. CASE j # i
    <3>1. pc'[j] = pc[j] /\ msg'[j] = msg[j] /\ listed'[j] = listed[j]
      BY <1>1, <2>2 DEF IInv, TypeOK
    <3>2. sent' = sent
      BY DEF Retry
    <3>3. Local(j) /\ (pc[j] = "idle" \/ msg[j] \in Message)
      BY DEF IInv, Local
    <3> QED BY <3>1, <3>2, <3>3 DEF Local, Ready, DeadPc
  <2> QED BY <2>1, <2>2
<1>5. Agree' /\ Begun' /\ ClosedIsBacked'
  BY DEF IInv, Agree, Begun, ClosedIsBacked
<1> QED BY <1>2, <1>3, <1>4, <1>5 DEF IInv

\* A step of the main consumer's run, or around it, that keeps its message:
\* the queues, the evidence and the incidents stay as they are.
LEMMA PlainSteps ==
  ASSUME IInv, NEW i \in Worker, pc[i] # "idle",
         NEW p \in Pc \ (DeadPc \cup {"close"}),
         pc' = [pc EXCEPT ![i] = p],
         lease' \in Worker \cup {None}, faults' \in 0..MaxFaults,
         life' \in Life, reason' \in Reason, done' \in BOOLEAN,
         overtaken' \in BOOLEAN, failed' \subseteq Message,
         done => done', done' => life' # "absent",
         UNCHANGED <<queueVars, letter, meta, alert, localVars>>
  PROVE  IInv'
<1> USE DEF queueVars, localVars
<1>1. TypeOK'
  BY DEF IInv, TypeOK
<1>2. Quota' /\ Agree' /\ Begun' /\ ClosedIsBacked'
  BY DEF IInv, Quota, Agree, Begun, ClosedIsBacked
<1>3. ASSUME NEW j \in Worker PROVE Local(j)'
  <2>1. CASE j = i
    BY <2>1, Points DEF IInv, TypeOK, Local, Ready
  <2>2. CASE j # i
    <3>1. pc'[j] = pc[j]
      BY <2>2 DEF IInv, TypeOK
    <3> QED BY <3>1 DEF IInv, Local, Ready, DeadPc
  <2> QED BY <2>1, <2>2
<1> QED BY <1>1, <1>2, <1>3 DEF IInv

\* A step of the dead letter consumer that keeps its message, and what it has
\* to bring about for its next point.
LEMMA DeadSteps ==
  ASSUME IInv, NEW i \in Worker, pc[i] # "idle",
         NEW p \in DeadPc \cup {"ack"},
         pc' = [pc EXCEPT ![i] = p],
         life' \in Life, reason' \in Reason,
         done => life' # "absent",
         Tables, Ready(p, msg[i])',
         UNCHANGED <<lease, done, overtaken, queueVars, failed, localVars, faults>>
  PROVE  IInv'
<1> USE DEF queueVars, localVars
<1>1. TypeOK'
  BY Points DEF IInv, TypeOK, Tables
<1>2. Quota' /\ Agree' /\ Begun' /\ ClosedIsBacked'
  BY DEF Tables, IInv, Quota, Agree, Begun, ClosedIsBacked
<1>3. ASSUME NEW j \in Worker PROVE Local(j)'
  <2>0. \A d \in listed'[j] : meta'[d] \in {"in_progress", "completed"}
    BY DEF IInv, Local, TypeOK, Tables
  <2>1. CASE j = i
    <3>1. pc'[j] = p /\ p # "close" /\ msg'[j] = msg[j] /\ sent' = sent
      BY <2>1, Points DEF IInv, TypeOK
    <3>2. Ready(pc[j], msg[j])'
      BY <2>1, <3>1 DEF Ready
    <3> QED BY <2>0, <2>1, <3>1, <3>2 DEF IInv, Local
  <2>2. CASE j # i
    <3>1. pc'[j] = pc[j] /\ msg'[j] = msg[j] /\ sent' = sent
      BY <2>2 DEF IInv, TypeOK
    <3>2. Local(j)
      BY DEF IInv
    <3>3. pc[j] # "idle" => msg[j] \in Message
      BY <3>2 DEF Local
    <3>4. Ready(pc[j], msg[j])'
      BY <3>1, <3>2, <3>3, Points DEF Local, Ready, Tables
    <3> QED BY <2>0, <3>1, <3>2, <3>4 DEF Local
  <2> QED BY <2>1, <2>2
<1> QED BY <1>1, <1>2, <1>3 DEF IInv

\* Every step keeps the invariant.
LEMMA InvStep == IInv /\ [Next]_vars => IInv'
<1> SUFFICES ASSUME IInv, [Next]_vars PROVE IInv'
  OBVIOUS
<1> USE DEF At, Goto, workVars, evidence, queueVars, localVars
<1>t. TypeOK /\ Begun /\ Agree
  BY DEF IInv
<1>l. \A i \in Worker : Local(i)
  BY DEF IInv
<1>1. ASSUME NEW i \in Worker, Acquire(i) PROVE IInv'
  <2>1. /\ pc[i] # "idle" /\ pc' = [pc EXCEPT ![i] = "begin"]
        /\ lease' \in Worker \cup {None} /\ faults' \in 0..MaxFaults
        /\ life' \in Life /\ reason' \in Reason /\ done' \in BOOLEAN
        /\ done => done'
        /\ done' => life' # "absent"
        /\ overtaken' \in BOOLEAN /\ failed' \subseteq Message
        /\ UNCHANGED <<queueVars, letter, meta, alert, localVars>>
    BY <1>1, <1>t DEF Acquire, TypeOK, Begun
  <2>2. "begin" \in Pc \ (DeadPc \cup {"close"})
    BY Points
  <2> QED BY <2>1, <2>2, PlainSteps
<1>2. ASSUME NEW i \in Worker, Busy(i) PROVE IInv'
  <2>1. /\ pc[i] # "idle" /\ Retry(i)
        /\ lease' \in Worker \cup {None} /\ faults' \in 0..MaxFaults
        /\ UNCHANGED <<workVars, overtaken, evidence>>
    BY <1>2, <1>t DEF Busy, TypeOK
  <2>2. letter' \in [Message -> {"none", "open", "redrive_pending", "redriven"}]
    BY <2>1, <1>t DEF TypeOK
  <2> QED BY <2>1, <2>2, RetrySteps
<1>3. ASSUME NEW i \in Worker, BeginRead(i) PROVE IInv'
  <2>1. /\ pc[i] # "idle"
        /\ lease' \in Worker \cup {None} /\ faults' \in 0..MaxFaults
        /\ life' \in Life /\ reason' \in Reason /\ done' \in BOOLEAN
        /\ done => done'
        /\ done' => life' # "absent"
        /\ overtaken' \in BOOLEAN /\ failed' \subseteq Message
        /\ UNCHANGED <<queueVars, letter, meta, alert, localVars>>
    BY <1>3, <1>t DEF BeginRead, LetGo, TypeOK, Begun
  <2>2. PICK p \in {"claim", "list"} : pc' = [pc EXCEPT ![i] = p]
    BY <1>3 DEF BeginRead
  <2>3. p \in Pc \ (DeadPc \cup {"close"})
    BY Points
  <2> QED BY <2>1, <2>2, <2>3, PlainSteps
<1>4. ASSUME NEW i \in Worker, BeginClaim(i) PROVE IInv'
  <2>1. /\ pc[i] # "idle"
        /\ lease' \in Worker \cup {None} /\ faults' \in 0..MaxFaults
        /\ life' \in Life /\ reason' \in Reason /\ done' \in BOOLEAN
        /\ done => done'
        /\ done' => life' # "absent"
        /\ overtaken' \in BOOLEAN /\ failed' \subseteq Message
        /\ UNCHANGED <<queueVars, letter, meta, alert, localVars>>
    BY <1>4, <1>t DEF BeginClaim, LetGo, Coalesced, TypeOK, Begun, Life, Reason
  <2>2. PICK p \in {"list", "work"} : pc' = [pc EXCEPT ![i] = p]
    BY <1>4 DEF BeginClaim
  <2>3. p \in Pc \ (DeadPc \cup {"close"})
    BY Points
  <2> QED BY <2>1, <2>2, <2>3, PlainSteps
<1>5. ASSUME NEW i \in Worker, WorkCompletes(i) PROVE IInv'
  <2>1. /\ pc[i] # "idle" /\ pc' = [pc EXCEPT ![i] = "list"]
        /\ lease' \in Worker \cup {None} /\ faults' \in 0..MaxFaults
        /\ life' \in Life /\ reason' \in Reason /\ done' \in BOOLEAN
        /\ done => done'
        /\ done' => life' # "absent"
        /\ overtaken' \in BOOLEAN /\ failed' \subseteq Message
        /\ UNCHANGED <<queueVars, letter, meta, alert, localVars>>
    BY <1>5, <1>t DEF WorkCompletes, LetGo, TypeOK, Begun, Life
  <2>2. "list" \in Pc \ (DeadPc \cup {"close"})
    BY Points
  <2> QED BY <2>1, <2>2, PlainSteps
<1>6. ASSUME NEW i \in Worker, WorkIsStale(i) PROVE IInv'
  <2>1. CASE lease # i
    BY <1>6, <2>1, <1>t, RetrySteps DEF WorkIsStale, LetGo, TypeOK
  <2>2. CASE lease = i
    BY <1>6, <2>2, <1>t, PlainSteps, Points DEF WorkIsStale, LetGo, TypeOK, Begun
  <2> QED BY <2>1, <2>2
<1>7. ASSUME NEW i \in Worker, WorkFailsPermanently(i) PROVE IInv'
  <2>1. /\ pc[i] # "idle" /\ pc' = [pc EXCEPT ![i] = "failRead"]
        /\ lease' \in Worker \cup {None} /\ faults' \in 0..MaxFaults
        /\ life' \in Life /\ reason' \in Reason /\ done' \in BOOLEAN
        /\ done => done'
        /\ done' => life' # "absent"
        /\ overtaken' \in BOOLEAN /\ failed' \subseteq Message
        /\ UNCHANGED <<queueVars, letter, meta, alert, localVars>>
    BY <1>7, <1>t DEF WorkFailsPermanently, Disturb, LetGo, TypeOK, Begun
  <2>2. "failRead" \in Pc \ (DeadPc \cup {"close"})
    BY Points
  <2> QED BY <2>1, <2>2, PlainSteps
<1>8. ASSUME NEW i \in Worker, ListIncidents(i) PROVE IInv'
  <2>1. CASE Closable
    <3>1. TypeOK'
      BY <1>8, <2>1, Points DEF ListIncidents, IInv, TypeOK
    <3>2. \A j \in Worker : Local(j)'
      BY <1>8, <2>1, <1>t, <1>l, Points DEF ListIncidents, Local, Ready, TypeOK, Closable
    <3>3. Quota' /\ Agree' /\ Begun' /\ ClosedIsBacked'
      BY <1>8, <2>1 DEF ListIncidents, IInv, Quota, Agree, Begun, ClosedIsBacked
    <3> QED BY <3>1, <3>2, <3>3 DEF IInv
  <2>2. CASE ~Closable
    BY <1>8, <2>2, <1>t, PlainSteps, Points DEF ListIncidents, TypeOK, Begun
  <2> QED BY <2>1, <2>2
<1>9. ASSUME NEW i \in Worker, CloseIncident(i) PROVE IInv'
  <2>1. PICK d \in listed[i] :
           /\ meta' = [meta EXCEPT ![d] =
                          IF @ = "in_progress" THEN "completed" ELSE @]
           /\ letter' = [letter EXCEPT ![d] = IF @ = "none" THEN @ ELSE "redriven"]
           /\ alert' = [alert EXCEPT ![d] = IF @ = "none" THEN @ ELSE "resolved"]
           /\ listed' = [listed EXCEPT ![i] = @ \ {d}]
    BY <1>9 DEF CloseIncident
  <2>2. /\ UNCHANGED <<lease, workVars, overtaken, queueVars, failed, pc, msg,
                       faults>>
        /\ done /\ d \in Message /\ meta[d] \in {"in_progress", "completed"}
    BY <1>9, <1>t, <1>l DEF CloseIncident, Local, TypeOK
  <2>3. letter[d] # "none" /\ alert[d] # "none"
    BY <2>2, <1>t DEF Agree
  <2>4. TypeOK'
    BY <2>1, <2>2, <1>t DEF TypeOK
  <2>5. Agree' /\ ClosedIsBacked'
    BY <2>1, <2>2, <2>3, <1>t DEF Agree, ClosedIsBacked, TypeOK
  <2>6. Quota' /\ Begun'
    BY <2>2 DEF IInv, Quota, Begun
  <2>7. ASSUME NEW j \in Worker PROVE Local(j)'
    <3>1. /\ \A e \in Message : meta[e] # "none" => meta'[e] # "none"
          /\ \A e \in Message : letter[e] # "none" => letter'[e] # "none"
          /\ \A e \in Message : alert[e] # "none" => alert'[e] # "none"
          /\ \A e \in Message : meta[e] \in {"in_progress", "completed"}
               => meta'[e] \in {"in_progress", "completed"}
      BY <2>1, <2>2, <1>t DEF TypeOK
    <3>2. listed'[j] \subseteq listed[j] /\ listed[j] \subseteq Message
      BY <2>1, <1>t DEF TypeOK
    <3>3. Local(j)
      BY <1>l
    <3> QED BY <2>2, <3>1, <3>2, <3>3, Points DEF Local, Ready
  <2> QED BY <2>4, <2>5, <2>6, <2>7 DEF IInv
<1>10. ASSUME NEW i \in Worker, CloseEnds(i) PROVE IInv'
  BY <1>10, <1>t, PlainSteps, Points DEF CloseEnds, TypeOK, Begun
<1>11. ASSUME NEW i \in Worker, FailRead(i) PROVE IInv'
  BY <1>11, <1>t, PlainSteps, Points DEF FailRead, AbandonRead, TypeOK, Begun
<1>12. ASSUME NEW i \in Worker, FailWrite(i) PROVE IInv'
  BY <1>12, <1>t, PlainSteps, Points DEF FailWrite, AbandonWrite, Coalesced, TypeOK, Begun, Life, Reason
<1>13. ASSUME NEW i \in Worker, FailLetter(i) PROVE IInv'
  BY <1>13, <1>t, <1>l, PlainSteps, Points DEF FailLetter, TypeOK, Begun, Local
<1>14. ASSUME NEW i \in Worker, DeadRead(i) PROVE IInv'
  <2>1. PICK p \in {"deadWrite", "letter"} : pc' = [pc EXCEPT ![i] = p]
    BY <1>14 DEF DeadRead, AbandonRead
  <2>2. /\ pc[i] # "idle" /\ life' \in Life /\ reason' \in Reason
        /\ done => life' # "absent"
        /\ UNCHANGED <<lease, done, overtaken, queueVars, failed, localVars, faults>>
    BY <1>14, <1>t DEF DeadRead, AbandonRead, TypeOK, Begun
  <2>3. Tables
    BY <1>14, <1>t, <1>l DEF DeadRead, AbandonRead, Tables, TypeOK, Agree
  <2>4. Ready(p, msg[i])'
    BY <1>14, <2>1, <1>t, <1>l DEF DeadRead, AbandonRead, Ready, Local, TypeOK, DeadPc
  <2> QED BY <2>1, <2>2, <2>3, <2>4, DeadSteps, Points
<1>15. ASSUME NEW i \in Worker, DeadWrite(i) PROVE IInv'
  <2>1. PICK p \in {"letter"} : pc' = [pc EXCEPT ![i] = p]
    BY <1>15 DEF DeadWrite, AbandonWrite, Coalesced
  <2>2. /\ pc[i] # "idle" /\ life' \in Life /\ reason' \in Reason
        /\ done => life' # "absent"
        /\ UNCHANGED <<lease, done, overtaken, queueVars, failed, localVars, faults>>
    BY <1>15, <1>t DEF DeadWrite, AbandonWrite, Coalesced, TypeOK, Begun, Life, Reason
  <2>3. Tables
    BY <1>15, <1>t, <1>l DEF DeadWrite, AbandonWrite, Coalesced, Tables, TypeOK, Agree
  <2>4. Ready(p, msg[i])'
    BY <1>15, <2>1, <1>t, <1>l DEF DeadWrite, AbandonWrite, Coalesced, Ready, Local, TypeOK, DeadPc
  <2> QED BY <2>1, <2>2, <2>3, <2>4, DeadSteps, Points
<1>16. ASSUME NEW i \in Worker, SaveLetter(i) PROVE IInv'
  <2>1. PICK p \in {"meta"} : pc' = [pc EXCEPT ![i] = p]
    BY <1>16 DEF SaveLetter
  <2>2. /\ pc[i] # "idle" /\ life' \in Life /\ reason' \in Reason
        /\ done => life' # "absent"
        /\ UNCHANGED <<lease, done, overtaken, queueVars, failed, localVars, faults>>
    BY <1>16, <1>t DEF SaveLetter, TypeOK, Begun
  <2>3. Tables
    BY <1>16, <1>t, <1>l DEF SaveLetter, Tables, TypeOK, Agree
  <2>4. Ready(p, msg[i])'
    BY <1>16, <2>1, <1>t, <1>l DEF SaveLetter, Ready, Local, TypeOK, DeadPc
  <2> QED BY <2>1, <2>2, <2>3, <2>4, DeadSteps, Points
<1>17. ASSUME NEW i \in Worker, SaveMetadata(i) PROVE IInv'
  <2>1. PICK p \in {"alert"} : pc' = [pc EXCEPT ![i] = p]
    BY <1>17 DEF SaveMetadata
  <2>2. /\ pc[i] # "idle" /\ life' \in Life /\ reason' \in Reason
        /\ done => life' # "absent"
        /\ UNCHANGED <<lease, done, overtaken, queueVars, failed, localVars, faults>>
    BY <1>17, <1>t DEF SaveMetadata, TypeOK, Begun
  <2>3. Tables
    BY <1>17, <1>t, <1>l DEF SaveMetadata, Tables, TypeOK, Agree, Local, Ready, DeadPc
  <2>4. Ready(p, msg[i])'
    BY <1>17, <2>1, <1>t, <1>l DEF SaveMetadata, Ready, Local, TypeOK, DeadPc
  <2> QED BY <2>1, <2>2, <2>3, <2>4, DeadSteps, Points
<1>18. ASSUME NEW i \in Worker, SaveAlert(i) PROVE IInv'
  <2>1. PICK p \in {"authorize"} : pc' = [pc EXCEPT ![i] = p]
    BY <1>18 DEF SaveAlert
  <2>2. /\ pc[i] # "idle" /\ life' \in Life /\ reason' \in Reason
        /\ done => life' # "absent"
        /\ UNCHANGED <<lease, done, overtaken, queueVars, failed, localVars, faults>>
    BY <1>18, <1>t DEF SaveAlert, TypeOK, Begun
  <2>3. Tables
    BY <1>18, <1>t, <1>l DEF SaveAlert, Tables, TypeOK, Agree
  <2>4. Ready(p, msg[i])'
    BY <1>18, <2>1, <1>t, <1>l DEF SaveAlert, Ready, Local, TypeOK, DeadPc
  <2> QED BY <2>1, <2>2, <2>3, <2>4, DeadSteps, Points
<1>19. ASSUME NEW i \in Worker, Authorize(i) PROVE IInv'
  <2>1. CASE Retry(i)
    BY <1>19, <2>1, <1>t, RetrySteps DEF Authorize, TypeOK
  <2>2. CASE ~Retry(i)
    <3>1. PICK p \in {"ack", "revive", "claimIncident"} :
             pc' = [pc EXCEPT ![i] = p]
      BY <1>19, <2>2 DEF Authorize
    <3>2. /\ pc[i] = "authorize"
          /\ UNCHANGED <<lease, workVars, overtaken, queueVars, evidence,
                         localVars, faults>>
      BY <1>19, <2>2 DEF Authorize
    <3>3. Tables
      BY <3>2, <1>t DEF Tables, TypeOK, Agree
    <3>4. Ready(p, msg[i])'
      BY <3>1, <3>2, <1>l DEF Ready, Local, DeadPc
    <3> QED BY <3>1, <3>2, <3>3, <3>4, <1>t, DeadSteps, Points DEF TypeOK, Begun
  <2> QED BY <2>1, <2>2
<1>20. ASSUME NEW i \in Worker, ClaimIncident(i) PROVE IInv'
  <2>1. PICK p \in {"revive", "ack"} : pc' = [pc EXCEPT ![i] = p]
    BY <1>20 DEF ClaimIncident
  <2>2. /\ pc[i] # "idle" /\ life' \in Life /\ reason' \in Reason
        /\ done => life' # "absent"
        /\ UNCHANGED <<lease, done, overtaken, queueVars, failed, localVars, faults>>
    BY <1>20, <1>t DEF ClaimIncident, TypeOK, Begun
  <2>3. Tables
    BY <1>20, <1>t, <1>l DEF ClaimIncident, Tables, TypeOK, Agree, Local, Ready, DeadPc
  <2>4. Ready(p, msg[i])'
    BY <1>20, <2>1, <1>t, <1>l DEF ClaimIncident, Ready, Local, TypeOK, DeadPc
  <2> QED BY <2>1, <2>2, <2>3, <2>4, DeadSteps, Points
<1>21. ASSUME NEW i \in Worker, Revive(i) PROVE IInv'
  <2>1. PICK p \in {"reread"} : pc' = [pc EXCEPT ![i] = p]
    BY <1>21 DEF Revive, Exhausted
  <2>2. /\ pc[i] # "idle" /\ life' \in Life /\ reason' \in Reason
        /\ done => life' # "absent"
        /\ UNCHANGED <<lease, done, overtaken, queueVars, failed, localVars, faults>>
    BY <1>21, <1>t DEF Revive, Exhausted, TypeOK, Begun, Life, Reason
  <2>3. Tables
    BY <1>21, <1>t, <1>l DEF Revive, Exhausted, Tables, TypeOK, Agree
  <2>4. Ready(p, msg[i])'
    BY <1>21, <2>1, <1>t, <1>l DEF Revive, Exhausted, Ready, Local, TypeOK, DeadPc
  <2> QED BY <2>1, <2>2, <2>3, <2>4, DeadSteps, Points
<1>22. ASSUME NEW i \in Worker, Reread(i) PROVE IInv'
  <2>1. CASE Retry(i)
    BY <1>22, <2>1, <1>t, RetrySteps DEF Reread, TypeOK
  <2>2. CASE ~Retry(i)
    <3>1. PICK p \in {"ack", "send"} : pc' = [pc EXCEPT ![i] = p]
      BY <1>22, <2>2 DEF Reread
    <3>2. /\ pc[i] = "reread"
          /\ UNCHANGED <<lease, workVars, overtaken, queueVars, evidence,
                         localVars, faults>>
      BY <1>22, <2>2 DEF Reread
    <3>3. Tables
      BY <3>2, <1>t DEF Tables, TypeOK, Agree
    <3>4. Ready(p, msg[i])'
      BY <3>1, <3>2, <1>l DEF Ready, Local, DeadPc
    <3> QED BY <3>1, <3>2, <3>3, <3>4, <1>t, DeadSteps, Points DEF TypeOK, Begun
  <2> QED BY <2>1, <2>2
<1>23. ASSUME NEW i \in Worker, WorkContinues(i) \/ Resend(i) PROVE IInv'
  <2>1. /\ UNCHANGED <<workVars, overtaken, evidence, localVars, faults>>
        /\ lease' \in Worker \cup {None}
        /\ \/ At(i, "continue") /\ Goto(i, "list")
           \/ At(i, "send") /\ Goto(i, "mark")
        /\ Send
    BY <1>23, <1>t DEF WorkContinues, Resend, TypeOK
  <2>2. /\ sent \in Nat /\ sent + 1 \in Message /\ sent' = sent + 1
        /\ where' \in [Message -> Where] /\ where'[sent + 1] = "main"
        /\ \A m \in Message : m # sent + 1 => where'[m] = where[m]
        /\ tries' = tries
    BY <2>1, <1>t DEF Send, TypeOK, Where, Message
  <2>3. TypeOK'
    BY <2>1, <2>2, <1>t, Points DEF TypeOK
  <2>4. Quota'
    BY <2>2 DEF IInv, Quota, Message
  <2>5. ASSUME NEW j \in Worker PROVE Local(j)'
    <3>1. Local(j)
      BY <1>l
    <3>2. CASE j = i
      BY <2>1, <2>2, <3>1, <3>2, <1>t, Points DEF Local, Ready, TypeOK, Message
    <3>3. CASE j # i
      BY <2>1, <2>2, <3>1, <3>3, <1>t, Points DEF Local, Ready, TypeOK, Message
    <3> QED BY <3>2, <3>3
  <2>6. Agree' /\ Begun' /\ ClosedIsBacked'
    BY <2>1 DEF IInv, Agree, Begun, ClosedIsBacked
  <2> QED BY <2>3, <2>4, <2>5, <2>6 DEF IInv
<1>24. ASSUME NEW i \in Worker, MarkQueued(i) PROVE IInv'
  <2>1. /\ letter' \in [Message -> {"none", "open", "redrive_pending", "redriven"}]
        /\ \A m \in Message : (letter'[m] = "none") = (letter[m] = "none")
        /\ \A m \in Message : (letter'[m] = "redriven") = (letter[m] = "redriven")
    BY <1>24, <1>t DEF MarkQueued, Queued, TypeOK
  <2>2. CASE Retry(i)
    BY <1>24, <2>1, <2>2, <1>t, RetrySteps DEF MarkQueued, TypeOK
  <2>3. CASE ~Retry(i)
    <3>1. pc[i] # "idle" /\ pc' = [pc EXCEPT ![i] = "ack"]
          /\ UNCHANGED <<lease, workVars, overtaken, queueVars, failed, meta,
                         alert, localVars, faults>>
      BY <1>24, <2>3 DEF MarkQueued
    <3>2. Tables
      BY <2>1, <3>1, <1>t DEF Tables, TypeOK, Agree
    <3>3. Ready("ack", msg[i])'
      BY DEF Ready, DeadPc
    <3> QED BY <3>1, <3>2, <3>3, <1>t, DeadSteps, Points DEF TypeOK, Begun
  <2> QED BY <2>2, <2>3
<1>25. ASSUME NEW i \in Worker, Ack(i) PROVE IInv'
  <2>1. /\ msg[i] \in Message /\ msg[i] <= sent
        /\ where' = [where EXCEPT ![msg[i]] = "gone"]
        /\ UNCHANGED <<lease, workVars, overtaken, sent, tries, evidence, faults>>
        /\ pc' = [pc EXCEPT ![i] = "idle"]
        /\ msg' = [msg EXCEPT ![i] = 0]
        /\ listed' = [listed EXCEPT ![i] = {}]
    BY <1>25, <1>l DEF Ack, Leave, Local
  <2>2. TypeOK'
    BY <2>1, <1>t, Points DEF TypeOK, Where
  <2>3. Quota'
    BY <2>1, <1>t DEF IInv, Quota, TypeOK, Message
  <2>4. \A j \in Worker : Local(j)'
    BY <2>1, <1>t, <1>l, Points DEF Local, Ready, TypeOK
  <2>5. Agree' /\ Begun' /\ ClosedIsBacked'
    BY <2>1 DEF IInv, Agree, Begun, ClosedIsBacked
  <2> QED BY <2>2, <2>3, <2>4, <2>5 DEF IInv
<1>26. ASSUME NEW i \in Worker, Fails(i) PROVE IInv'
  <2>1. /\ pc[i] # "idle" /\ Retry(i)
        /\ lease' \in Worker \cup {None} /\ faults' \in 0..MaxFaults
        /\ UNCHANGED <<workVars, overtaken, evidence>>
    BY <1>26, <1>t DEF Fails, Disturb, LetGo, TypeOK
  <2>2. letter' \in [Message -> {"none", "open", "redrive_pending", "redriven"}]
    BY <2>1, <1>t DEF TypeOK
  <2> QED BY <2>1, <2>2, RetrySteps
<1>27. ASSUME NEW i \in Worker, Crash(i) PROVE IInv'
  <2>1. /\ pc[i] # "idle" /\ Retry(i)
        /\ lease' \in Worker \cup {None} /\ faults' \in 0..MaxFaults
        /\ UNCHANGED <<workVars, overtaken, evidence>>
    BY <1>27, <1>t DEF Crash, Disturb, TypeOK
  <2>2. letter' \in [Message -> {"none", "open", "redrive_pending", "redriven"}]
    BY <2>1, <1>t DEF TypeOK
  <2> QED BY <2>1, <2>2, RetrySteps
<1>28. ASSUME Overtake \/ \E i \in Worker : LoseLease(i) \/ LeaseExpires(i)
       PROVE  IInv'
  <2>1. /\ lease' \in Worker \cup {None} /\ overtaken' \in BOOLEAN
        /\ faults' \in 0..MaxFaults
        /\ UNCHANGED <<workVars, queueVars, evidence, pc, localVars>>
    <3>1. CASE Overtake
      BY <3>1, <1>t DEF Overtake, Disturb, TypeOK
    <3>2. CASE \E i \in Worker : LoseLease(i)
      BY <3>2, <1>t DEF LoseLease, Disturb, TypeOK
    <3>3. CASE \E i \in Worker : LeaseExpires(i)
      BY <3>3, <1>t DEF LeaseExpires, TypeOK
    <3> QED BY <1>28, <3>1, <3>2, <3>3
  <2>2. TypeOK' /\ Quota' /\ Agree' /\ Begun' /\ ClosedIsBacked'
    BY <2>1 DEF IInv, TypeOK, Quota, Agree, Begun, ClosedIsBacked
  <2>3. \A j \in Worker : Local(j)'
    BY <2>1, <1>l DEF Local, Ready
  <2> QED BY <2>2, <2>3 DEF IInv
<1>29. ASSUME NEW i \in Worker, NEW m \in Message,
              DeliverMain(i, m) \/ DeliverDead(i, m)
       PROVE  IInv'
  <2>1. /\ pc[i] = "idle" /\ where[m] \in {"main", "dead"}
        /\ where'[m] \in {"mainHeld", "deadHeld"}
        /\ where' \in [Message -> Where]
        /\ \A n \in Message : n # m => where'[n] = where[n]
        /\ tries' = [tries EXCEPT ![m] = @ + 1]
        /\ msg' = [msg EXCEPT ![i] = m]
        /\ \E p \in {"acquire", "deadRead"} : pc' = [pc EXCEPT ![i] = p]
        /\ UNCHANGED <<lease, workVars, overtaken, sent, evidence, listed, faults>>
    BY <1>29, <1>t DEF DeliverMain, DeliverDead, Deliver, TypeOK, Where
  <2>2. tries[m] + 1 \in 0..(MainTries + DeadTries) /\ m <= sent
    BY <2>1, <1>t DEF IInv, Quota, TypeOK, Message
  <2>3. TypeOK'
    BY <2>1, <2>2, <1>t, Points DEF TypeOK
  <2>4. Quota'
    BY <2>1, <2>2, <1>t DEF IInv, Quota, TypeOK, Message
  <2>5. ASSUME NEW j \in Worker PROVE Local(j)'
    <3>1. Local(j)
      BY <1>l
    <3> QED BY <2>1, <2>2, <3>1, <1>t, Points DEF Local, Ready, TypeOK
  <2>6. Agree' /\ Begun' /\ ClosedIsBacked'
    BY <2>1 DEF IInv, Agree, Begun, ClosedIsBacked
  <2> QED BY <2>3, <2>4, <2>5, <2>6 DEF IInv
<1>30. ASSUME NEW i \in Worker, WorkPauses(i) PROVE IInv'
  BY <1>30, <1>t, PlainSteps, Points DEF WorkPauses, LetGo, TypeOK, Begun
<1>31. CASE UNCHANGED vars
  BY <1>31 DEF vars, IInv, TypeOK, Quota, Local, Ready, Agree, Begun, ClosedIsBacked
<1> QED
  BY <1>1, <1>2, <1>3, <1>4, <1>5, <1>6, <1>7, <1>8, <1>9, <1>10, <1>11,
     <1>12, <1>13, <1>14, <1>15, <1>16, <1>17, <1>18, <1>19, <1>20, <1>21,
     <1>22, <1>23, <1>24, <1>25, <1>26, <1>27, <1>28, <1>29, <1>30,
     <1>31
     DEF Next, Step, Fail, Run, Close, Permanent, Evidence, Recover

\* What the consumers rely on holds throughout.
THEOREM Invariance == Spec => []IInv
<1> QED BY InvInit, InvStep, PTL DEF Spec

\* Every variable stays in its range, whatever fails and whoever overlaps.
THEOREM TypeCorrect == Spec => []TypeOK
<1>1. IInv => TypeOK
  BY DEF IInv
<1> QED BY <1>1, Invariance, PTL

\* No table ever says closed of an incident whose Work was not completed.
THEOREM ClosingIsEarned == Spec => []ClosedIsBacked
<1>1. IInv => ClosedIsBacked
  BY DEF IInv
<1> QED BY <1>1, Invariance, PTL

\* Who may change what: the claimed incidents, in one UPDATE that counts them;
\* the metadata of the others; the status of the Work.
LEMMA Changes ==
  ASSUME TypeOK, [Next]_vars
  PROVE  /\ \/ UNCHANGED <<letter, meta, alert>>
            \/ \E i \in Worker : \/ SaveLetter(i) \/ SaveMetadata(i) \/ SaveAlert(i)
                                 \/ ClaimIncident(i) \/ MarkQueued(i)
                                 \/ CloseIncident(i)
         /\ \/ life' = "active" => life = "active"
            \/ \E i \in Worker : BeginClaim(i) \/ Revive(i)
<1> USE DEF At, Goto, workVars, evidence, queueVars, localVars
<1>1. ASSUME NEW i \in Worker, Run(i)
      PROVE  /\ UNCHANGED <<letter, meta, alert>>
             /\ (life' = "active" => life = "active") \/ BeginClaim(i)
  BY <1>1 DEF Run, Acquire, Busy, BeginRead, WorkPauses, WorkContinues,
              WorkCompletes, WorkIsStale, BeginClaim
<1>2. ASSUME NEW i \in Worker, Close(i) \/ Permanent(i) \/ Evidence(i)
      PROVE  /\ UNCHANGED <<letter, meta, alert>> \/ CloseIncident(i)
                  \/ SaveLetter(i) \/ SaveMetadata(i) \/ SaveAlert(i)
             /\ life' = "active" => life = "active"
  BY <1>2 DEF Close, Permanent, Evidence, ListIncidents, CloseIncident, CloseEnds,
              FailRead, FailWrite, FailLetter, DeadRead, DeadWrite, AbandonRead,
              AbandonWrite, SaveLetter, SaveMetadata, SaveAlert
<1>3. ASSUME NEW i \in Worker, Recover(i)
      PROVE  /\ UNCHANGED <<letter, meta, alert>> \/ ClaimIncident(i)
                  \/ MarkQueued(i)
             /\ (life' = "active" => life = "active") \/ Revive(i)
  BY <1>3 DEF Recover, Authorize, ClaimIncident, Revive, Reread, Resend,
              MarkQueued
<1>4. ASSUME NEW i \in Worker, Ack(i) \/ LeaseExpires(i) \/ Fail(i)
      PROVE  UNCHANGED <<letter, meta, alert, life>>
  BY <1>4 DEF Ack, LeaseExpires, Fail, WorkFailsPermanently, Fails, Crash,
              LoseLease
<1>5. ASSUME NEW i \in Worker, NEW m \in Message,
             DeliverMain(i, m) \/ DeliverDead(i, m)
      PROVE  UNCHANGED <<letter, meta, alert, life>>
  BY <1>5 DEF DeliverMain, DeliverDead, Deliver
<1>6. ASSUME Overtake \/ UNCHANGED vars
      PROVE  UNCHANGED <<letter, meta, alert, life>>
  BY <1>6 DEF Overtake, vars
<1> QED BY <1>1, <1>2, <1>3, <1>4, <1>5, <1>6 DEF Next, Step

\* However many consumers race for the last recovery of a Work, one gets it.
THEOREM Budget == Spec => []BudgetKept
<1>1. Init => BudgetKept
  <2> SUFFICES ASSUME Init PROVE BudgetKept
    OBVIOUS
  <2>1. Claimed = {}
    BY DEF Init, Claimed
  <2> QED BY <2>1, FS_EmptySet DEF BudgetKept
<1>2. TypeOK /\ BudgetKept /\ [Next]_vars => BudgetKept'
  <2> SUFFICES ASSUME TypeOK, BudgetKept, [Next]_vars PROVE BudgetKept'
    OBVIOUS
  <2>1. CASE Claimed' = Claimed
    BY <2>1 DEF BudgetKept
  <2>2. ASSUME NEW i \in Worker,
               SaveLetter(i) \/ SaveMetadata(i) \/ SaveAlert(i) \/ MarkQueued(i)
                 \/ CloseIncident(i)
        PROVE  Claimed' = Claimed
    BY <2>2 DEF SaveLetter, SaveMetadata, SaveAlert, MarkQueued, CloseIncident,
                Claimed, TypeOK
  <2>3. ASSUME NEW i \in Worker, ClaimIncident(i)
        PROVE  Claimed' = Claimed \/ BudgetKept'
    <3>1. CASE meta[msg[i]] = "not_started" /\ InBudget(msg[i])
                 /\ msg[i] \in Message
      <4>1. Claimed' = Claimed \cup {msg[i]} /\ Claimed \ {msg[i]} = Claimed
        BY <2>3, <3>1 DEF ClaimIncident, Claimed, TypeOK
      <4>2. Cardinality(Claimed) < MaxRecoveries
        BY <3>1, <4>1 DEF InBudget
      <4>3. IsFiniteSet(Claimed)
        <5>1. IsFiniteSet(Message)
          BY FS_Interval DEF Message
        <5> QED BY <5>1, FS_Subset DEF Claimed
      <4>4. Cardinality(Claimed) \in Nat
        BY <4>3, FS_CardinalityType
      <4>5. Cardinality(Claimed') = IF msg[i] \in Claimed THEN Cardinality(Claimed)
                                    ELSE Cardinality(Claimed) + 1
        BY <4>1, <4>3, FS_AddElement
      <4>6. Cardinality(Claimed') <= MaxRecoveries
        BY <4>2, <4>4, <4>5
      <4> QED BY <4>6 DEF BudgetKept
    <3>2. CASE ~(meta[msg[i]] = "not_started" /\ InBudget(msg[i])
                   /\ msg[i] \in Message)
      BY <2>3, <3>2 DEF ClaimIncident, Claimed, TypeOK
    <3> QED BY <3>1, <3>2
  <2>4. CASE UNCHANGED <<letter, meta, alert>>
    BY <2>1, <2>4 DEF Claimed
  <2> QED BY <2>1, <2>2, <2>3, <2>4, Changes
<1> QED BY <1>1, <1>2, TypeCorrect, PTL DEF Spec

\* An incident that is closed stays closed in all three tables, through
\* redelivered dead letters and a late mark as queued.
THEOREM Closing == Spec => ClosedStaysClosed
<1>1. IInv /\ [Next]_vars =>
        \A m \in Message :
          meta[m] = "completed" =>
            meta'[m] = "completed" /\ letter'[m] = "redriven"
              /\ alert'[m] = "resolved"
  <2> SUFFICES ASSUME IInv, [Next]_vars, NEW m \in Message,
                      meta[m] = "completed"
               PROVE  /\ meta'[m] = "completed" /\ letter'[m] = "redriven"
                      /\ alert'[m] = "resolved"
    OBVIOUS
  <2>1. letter[m] = "redriven" /\ alert[m] = "resolved" /\ TypeOK
    BY DEF IInv, Agree
  <2>2. ASSUME NEW i \in Worker,
               \/ SaveLetter(i) \/ SaveMetadata(i) \/ SaveAlert(i)
               \/ ClaimIncident(i) \/ MarkQueued(i) \/ CloseIncident(i)
        PROVE  /\ meta'[m] = "completed" /\ letter'[m] = "redriven"
               /\ alert'[m] = "resolved"
    BY <2>1, <2>2 DEF SaveLetter, SaveMetadata, SaveAlert, ClaimIncident,
                      MarkQueued, Queued, CloseIncident, TypeOK
  <2>3. CASE UNCHANGED <<letter, meta, alert>>
    BY <2>1, <2>3
  <2> QED BY <2>1, <2>2, <2>3, Changes
<1> QED BY <1>1, Invariance, PTL DEF Spec, ClosedStaysClosed

\* A completed Work never runs again: the revival asks completed_at, which
\* survives whatever the dead letter consumer writes over the status.
THEOREM NoSecondLife == Spec => DoneIsNotRevived
<1>1. IInv /\ [Next]_vars => (done /\ life # "active" => life' # "active")
  <2> SUFFICES ASSUME IInv, [Next]_vars, done, life # "active", life' = "active"
               PROVE  FALSE
    OBVIOUS
  <2>1. PICK i \in Worker : BeginClaim(i) \/ Revive(i)
    BY Changes DEF IInv
  <2>2. life # "absent"
    BY DEF IInv, Begun
  <2> QED BY <2>1, <2>2 DEF BeginClaim, Revive, Exhausted
<1> QED BY <1>1, Invariance, PTL DEF Spec, DoneIsNotRevived

-------------------------------------------------------------------------------
(***************************************************************************)
(* Why nothing is forgotten.  A message once moved to the dead letter      *)
(* queue is cared for: it stays there until its alert is saved, as every   *)
(* delivery that ends before costs a fault and the queue allows more       *)
(* deliveries than there are faults.  An active Work that nobody cares for *)
(* is carried by a message of the main queue: its consumer acknowledges    *)
(* nothing before it has completed the Work, sent on, or seen it ended.    *)
(***************************************************************************)
Cared(m) == where[m] \in {"dead", "deadHeld"} \/ alert[m] # "none"

CarrierPc == RunPc \cup {"failRead", "failWrite"}
Carried(m) == where[m] = "main" \/ \E i \in Worker : msg[i] = m /\ pc[i] \in CarrierPc

Remembered ==
    /\ reason = "exhausted" => \E m \in Message : Cared(m)
    /\ life = "active" /\ ~done => \E m \in Message : Cared(m) \/ Carried(m)

\* The consumer of a message is one, and knows which queue it is from.
Placed ==
    \A i \in Worker :
        /\ pc[i] \in MainPc => where[msg[i]] = "mainHeld"
        /\ pc[i] \in DeadPc => where[msg[i]] = "deadHeld"
        /\ pc[i] = "ack" => \/ where[msg[i]] = "mainHeld"
                            \/ where[msg[i]] = "deadHeld" /\ alert[msg[i]] # "none"
Distinct ==
    \A i, j \in Worker : pc[i] # "idle" /\ pc[j] # "idle" /\ msg[i] = msg[j] => i = j

\* The letter is saved before the alert; a delivery without one is a fault.
Told ==
    \A m \in Message :
        /\ alert[m] # "none" => letter[m] # "none"
        /\ alert[m] = "none" =>
             /\ where[m] = "dead" => tries[m] <= faults
             /\ where[m] = "deadHeld" => tries[m] <= faults + 1

CompletedIsDone == life = "completed" => done

Held == Placed /\ Distinct /\ Told /\ CompletedIsDone

\* A step of a consumer that keeps its message.
LEMMA HeldMoves ==
  ASSUME IInv, Held, NEW i \in Worker, NEW q \in Pc \ {"idle"}, pc[i] # "idle",
         pc' = [pc EXCEPT ![i] = q], UNCHANGED <<where, tries, msg>>,
         q \in MainPc => pc[i] \in MainPc,
         q \in DeadPc => pc[i] \in DeadPc,
         q = "ack" => pc[i] \in MainPc
                        \/ (pc[i] \in DeadPc /\ alert'[msg[i]] # "none"),
         \A m \in Message : alert[m] # "none" => alert'[m] # "none",
         \A m \in Message : alert'[m] # "none" => letter'[m] # "none",
         faults' \in {faults, faults + 1},
         life' = "completed" => done'
  PROVE  Held' /\ \A m \in Message : Cared(m) => Cared(m)'
<1>1. \A j \in Worker : pc'[j] = IF j = i THEN q ELSE pc[j]
  BY DEF IInv, TypeOK
<1>2. \A j \in Worker : pc[j] # "idle" => msg[j] \in Message
  BY DEF IInv, Local
<1>3. Placed'
  <2> SUFFICES ASSUME NEW j \in Worker
               PROVE  /\ pc'[j] \in MainPc => where[msg[j]] = "mainHeld"
                      /\ pc'[j] \in DeadPc => where[msg[j]] = "deadHeld"
                      /\ pc'[j] = "ack" =>
                           \/ where[msg[j]] = "mainHeld"
                           \/ where[msg[j]] = "deadHeld" /\ alert'[msg[j]] # "none"
    BY DEF Placed
  <2>1. CASE j = i
    BY <1>1, <2>1 DEF Held, Placed
  <2>2. CASE j # i
    BY <1>1, <1>2, <2>2 DEF Held, Placed
  <2> QED BY <2>1, <2>2
<1>4. Distinct'
  BY <1>1 DEF Held, Distinct
<1>5. Told'
  <2>1. \A m \in Message : tries[m] \in Nat
    BY DEF IInv, TypeOK
  <2>2. faults \in Nat
    BY DEF IInv, TypeOK
  <2> QED BY <2>1, <2>2 DEF Held, Told
<1> QED BY <1>3, <1>4, <1>5 DEF Held, CompletedIsDone, Cared

\* What such a step has to bring about for the Work to be remembered.
LEMMA RememberedMoves ==
  ASSUME IInv, Remembered, NEW i \in Worker, NEW q \in Pc \ {"idle"}, pc[i] # "idle",
         pc' = [pc EXCEPT ![i] = q], UNCHANGED <<where, msg>>,
         \A m \in Message : Cared(m) => Cared(m)',
         reason' = "exhausted" => reason = "exhausted" \/ \E m \in Message : Cared(m)',
         life' = "active" /\ ~done' =>
           \/ \E m \in Message : Cared(m)'
           \/ q \in CarrierPc
           \/ life = "active" /\ ~done /\ pc[i] \notin CarrierPc
  PROVE  Remembered'
<1>1. \A j \in Worker : pc'[j] = IF j = i THEN q ELSE pc[j]
  BY DEF IInv, TypeOK
<1>2. msg[i] \in Message
  BY DEF IInv, Local
<1>3. reason' = "exhausted" => \E m \in Message : Cared(m)'
  BY DEF Remembered
<1>4. life' = "active" /\ ~done' => \E m \in Message : Cared(m)' \/ Carried(m)'
  <2> SUFFICES ASSUME life' = "active", ~done', \A m \in Message : ~Cared(m)'
               PROVE  \E m \in Message : Carried(m)'
    OBVIOUS
  <2>1. CASE q \in CarrierPc
    BY <1>1, <1>2, <2>1 DEF Carried
  <2>2. CASE life = "active" /\ ~done /\ pc[i] \notin CarrierPc
    <3>1. PICK m \in Message : Carried(m)
      BY <2>2 DEF Remembered
    <3> QED BY <1>1, <2>2, <3>1 DEF Carried
  <2> QED BY <2>1, <2>2
<1> QED BY <1>3, <1>4 DEF Remembered

\* A message that is handed back goes on in its queue, or into the next: not
\* one is dropped before its alert is saved.
LEMMA HeldRetries ==
  ASSUME MaxFaults < DeadTries, IInv, Held, Remembered,
         NEW i \in Worker, pc[i] # "idle", Retry(i),
         \/ faults' = faults + 1 /\ faults < MaxFaults
         \/ faults' = faults /\ (pc[i] \in MainPc \/ alert[msg[i]] # "none"),
         alert' = alert,
         \A m \in Message : (letter'[m] = "none") = (letter[m] = "none"),
         UNCHANGED workVars
  PROVE  Held' /\ Remembered' /\ \A m \in Message : Cared(m) => Cared(m)'
<1> DEFINE n == msg[i]
<1>1. /\ n \in Message /\ where \in [Message -> Where]
      /\ tries \in [Message -> Nat] /\ faults \in Nat
  BY DEF IInv, Local, TypeOK
<1>2. /\ \A j \in Worker : pc'[j] = IF j = i THEN "idle" ELSE pc[j]
      /\ \A j \in Worker : j # i => msg'[j] = msg[j]
      /\ msg'[i] = 0
  BY DEF Retry, Leave, Goto, IInv, TypeOK
<1>3. /\ where'[n] = Returned(n)
      /\ \A m \in Message : m # n => where'[m] = where[m] /\ tries'[m] = tries[m]
      /\ tries'[n] = IF where[n] = "mainHeld" /\ tries[n] >= MainTries THEN 0 ELSE tries[n]
  BY <1>1 DEF Retry
<1>4. where[n] \in {"mainHeld", "deadHeld"}
  BY Points DEF Held, Placed, IInv, TypeOK, Pc
<1>5. pc[i] \in MainPc => where[n] = "mainHeld"
  BY DEF Held, Placed
<1> HIDE DEF n
<1>6. where[n] = "mainHeld" => where'[n] \in {"main", "dead"}
  BY <1>1, <1>3 DEF Returned
<1>7. where[n] = "deadHeld" /\ alert[n] = "none" =>
        where'[n] = "dead" /\ faults' = faults + 1
  <2> SUFFICES ASSUME where[n] = "deadHeld", alert[n] = "none"
               PROVE  where'[n] = "dead" /\ faults' = faults + 1
    OBVIOUS
  <2>1. faults' = faults + 1 /\ faults < MaxFaults
    BY <1>5 DEF n
  <2>2. tries[n] <= faults + 1
    BY <1>1 DEF Held, Told
  <2>3. tries[n] < DeadTries
    BY <1>1, <2>1, <2>2
  <2> QED BY <1>3, <2>1, <2>3 DEF Returned
<1>8. \A m \in Message : Cared(m) => Cared(m)'
  BY <1>1, <1>3, <1>4, <1>7 DEF Cared
<1>9. Placed'
  <2>1. \A j \in Worker : j # i /\ pc[j] # "idle" => msg[j] \in Message /\ msg[j] # n
    BY DEF Held, Distinct, IInv, Local, n
  <2>2. "idle" \notin MainPc \cup DeadPc \cup {"ack"}
    BY DEF MainPc, RunPc, DeadPc
  <2> QED BY <1>2, <1>3, <2>1, <2>2 DEF Held, Placed
<1>10. Distinct'
  <2>1. \A j \in Worker : j # i /\ pc[j] # "idle" => msg[j] # 0
    BY DEF IInv, Local, Message
  <2> QED BY <1>2, <2>1 DEF Held, Distinct
<1>11. Told'
  <2> SUFFICES ASSUME NEW m \in Message
               PROVE  /\ alert'[m] # "none" => letter'[m] # "none"
                      /\ alert'[m] = "none" =>
                           /\ where'[m] = "dead" => tries'[m] <= faults'
                           /\ where'[m] = "deadHeld" => tries'[m] <= faults' + 1
    BY DEF Told
  <2>0. alert[m] # "none" => letter[m] # "none"
    BY DEF Held, Told
  <2>1. CASE m = n
    <3>1. CASE where[n] = "mainHeld"
      <4>1. where'[n] = "main" \/ (where'[n] = "dead" /\ tries'[n] = 0)
        BY <1>1, <1>3, <3>1 DEF Returned
      <4> QED BY <1>1, <2>0, <2>1, <4>1
    <3>2. CASE where[n] = "deadHeld" /\ alert[n] = "none"
      <4>1. tries'[n] = tries[n] /\ tries[n] <= faults + 1
        BY <1>1, <1>3, <3>2 DEF Held, Told
      <4> QED BY <1>7, <2>0, <2>1, <3>2, <4>1
    <3>3. CASE alert[n] # "none"
      BY <2>0, <2>1, <3>3
    <3> QED BY <1>4, <3>1, <3>2, <3>3
  <2>2. CASE m # n
    <3>1. where'[m] = where[m] /\ tries'[m] = tries[m] /\ tries[m] \in Nat
      BY <1>1, <1>3, <2>2
    <3> QED BY <1>1, <2>0, <3>1 DEF Held, Told
  <2> QED BY <2>1, <2>2
<1>12. Remembered'
  <2>1. reason' = reason /\ life' = life /\ done' = done
    BY DEF workVars
  <2>2. reason' = "exhausted" => \E m \in Message : Cared(m)'
    BY <1>8, <2>1 DEF Remembered
  <2>3. ASSUME NEW m \in Message, Carried(m) PROVE Cared(m)' \/ Carried(m)'
    <3>1. CASE m = n
      <4>1. CASE where[n] = "mainHeld"
        BY <1>6, <3>1, <4>1 DEF Cared, Carried
      <4>2. CASE where[n] = "deadHeld"
        BY <1>8, <3>1, <4>2 DEF Cared
      <4> QED BY <1>4, <4>1, <4>2
    <3>2. CASE m # n
      BY <1>2, <1>3, <2>3, <3>2 DEF Carried, n
    <3> QED BY <3>1, <3>2
  <2>4. life' = "active" /\ ~done' => \E m \in Message : Cared(m)' \/ Carried(m)'
    BY <1>8, <2>1, <2>3 DEF Remembered
  <2> QED BY <2>2, <2>4 DEF Remembered
<1> QED BY <1>8, <1>9, <1>10, <1>11, <1>12 DEF Held, CompletedIsDone, workVars

\* What every point of a consumer says of the incident it works on.
LEMMA EvidenceInHand ==
  ASSUME IInv, Held, NEW i \in Worker
  PROVE  /\ pc[i] # "idle" => msg[i] \in Message
         /\ pc[i] \in {"authorize", "claimIncident", "revive", "reread", "send", "mark"}
              => alert[msg[i]] # "none"
         /\ pc[i] = "alert" => letter[msg[i]] # "none"
BY DEF IInv, Local, Ready, DeadPc

\* A step of a run, of the closing or of the marks of the main consumer that
\* keeps its message.
LEMMA RememberedRun ==
  ASSUME IInv, Held, Remembered, NEW i \in Worker,
         \/ Acquire(i) \/ BeginRead(i) \/ BeginClaim(i) \/ WorkPauses(i)
         \/ WorkCompletes(i) \/ WorkFailsPermanently(i)
         \/ WorkIsStale(i) /\ lease = i
         \/ ListIncidents(i) \/ CloseIncident(i) \/ CloseEnds(i)
         \/ FailRead(i) \/ FailWrite(i) \/ FailLetter(i)
  PROVE  Held' /\ Remembered'
<1> USE DEF At, Goto, workVars, evidence, queueVars, localVars, IInv, TypeOK
<1> DEFINE
      From == pc[i] # "idle" /\ pc[i] \in MainPc
      Moved(q) == /\ pc' = [pc EXCEPT ![i] = q]
                  /\ UNCHANGED <<where, tries, msg>>
                  /\ \A m \in Message : alert[m] # "none" => alert'[m] # "none"
                  /\ \A m \in Message : alert'[m] # "none" => letter'[m] # "none"
                  /\ faults' \in {faults, faults + 1}
                  /\ life' = "completed" => done'
                  /\ reason' = "exhausted" => reason = "exhausted"
      Owed(q) == life' = "active" /\ ~done' =>
                   \/ q \in CarrierPc
                   \/ life = "active" /\ ~done /\ pc[i] \notin CarrierPc
<1>1. ASSUME NEW q \in MainPc \cup {"ack"}, From, Moved(q), Owed(q)
      PROVE  Held' /\ Remembered'
  <2>1. q \in Pc \ {"idle"} /\ q \notin DeadPc
    BY Points DEF MainPc, RunPc
  <2>2. Held' /\ \A m \in Message : Cared(m) => Cared(m)'
    BY <1>1, <2>1, HeldMoves
  <2> QED BY <1>1, <2>1, <2>2, RememberedMoves
<1>2. \A m \in Message : alert[m] # "none" => letter[m] # "none"
  BY DEF Held, Told
<1>3. life = "completed" => done
  BY DEF Held, CompletedIsDone
<1> USE DEF MainPc, RunPc, CarrierPc
<1>4. CASE Acquire(i)
  BY <1>1, <1>2, <1>3, <1>4 DEF Acquire
<1>5. CASE BeginRead(i)
  <2>1. PICK q \in {"claim", "list"} :
          pc' = [pc EXCEPT ![i] = q] /\ (q = "list" => life # "active")
    BY <1>5 DEF BeginRead
  <2> QED BY <1>1, <1>2, <1>3, <1>5, <2>1 DEF BeginRead
<1>6. CASE BeginClaim(i)
  <2>1. PICK q \in {"list", "work"} :
          pc' = [pc EXCEPT ![i] = q] /\ (q = "list" => life' = "superseded")
    BY <1>6 DEF BeginClaim
  <2> QED BY <1>1, <1>2, <1>3, <1>6, <2>1 DEF BeginClaim, Coalesced
<1>7. CASE WorkPauses(i)
  BY <1>1, <1>2, <1>3, <1>7 DEF WorkPauses
<1>8. CASE WorkCompletes(i)
  BY <1>1, <1>2, <1>3, <1>8 DEF WorkCompletes
<1>9. CASE WorkFailsPermanently(i)
  BY <1>1, <1>2, <1>3, <1>9 DEF WorkFailsPermanently, Disturb
<1>10. CASE WorkIsStale(i) /\ lease = i
  BY <1>1, <1>2, <1>3, <1>10 DEF WorkIsStale
<1>11. CASE ListIncidents(i)
  <2>1. PICK q \in {"close", "ack"} : pc' = [pc EXCEPT ![i] = q]
    BY <1>11 DEF ListIncidents
  <2> QED BY <1>1, <1>2, <1>3, <1>11, <2>1 DEF ListIncidents
<1>12. CASE CloseIncident(i)
  <2>1. pc' = [pc EXCEPT ![i] = "close"] /\ pc[i] = "close"
    BY <1>12 DEF CloseIncident
  <2>2. /\ \A m \in Message : alert[m] # "none" => alert'[m] # "none"
        /\ \A m \in Message : alert'[m] # "none" => letter'[m] # "none"
    BY <1>2, <1>12 DEF CloseIncident
  <2> QED BY <1>1, <1>3, <1>12, <2>1, <2>2 DEF CloseIncident
<1>13. CASE CloseEnds(i)
  BY <1>1, <1>2, <1>3, <1>13 DEF CloseEnds
<1>14. CASE FailRead(i)
  <2>1. PICK q \in {"failLetter", "failWrite"} :
          pc' = [pc EXCEPT ![i] = q] /\ (q = "failLetter" => life = "completed")
    BY <1>14 DEF FailRead, AbandonRead
  <2> QED BY <1>1, <1>2, <1>3, <1>14, <2>1 DEF FailRead, AbandonRead
<1>15. CASE FailWrite(i)
  BY <1>1, <1>2, <1>3, <1>15 DEF FailWrite, AbandonWrite, Coalesced
<1>16. CASE FailLetter(i)
  BY <1>1, <1>2, <1>3, <1>16 DEF FailLetter
<1> QED BY <1>4, <1>5, <1>6, <1>7, <1>8, <1>9, <1>10, <1>11, <1>12, <1>13, <1>14,
           <1>15, <1>16

\* A step of the dead letter consumer that keeps its message.
LEMMA RememberedDead ==
  ASSUME IInv, Held, Remembered, NEW i \in Worker,
         \/ DeadRead(i) \/ DeadWrite(i) \/ SaveLetter(i) \/ SaveMetadata(i)
         \/ SaveAlert(i) \/ ClaimIncident(i) \/ Revive(i)
         \/ (Authorize(i) \/ Reread(i) \/ MarkQueued(i)) /\ ~Retry(i)
  PROVE  Held' /\ Remembered'
<1> USE DEF At, Goto, workVars, evidence, queueVars, localVars, IInv, TypeOK
<1> DEFINE
      From == pc[i] # "idle" /\ pc[i] \in DeadPc /\ pc[i] \notin CarrierPc
      Moved(q) == /\ pc' = [pc EXCEPT ![i] = q]
                  /\ UNCHANGED <<where, tries, msg>>
                  /\ \A m \in Message : alert[m] # "none" => alert'[m] # "none"
                  /\ \A m \in Message : alert'[m] # "none" => letter'[m] # "none"
                  /\ q = "ack" => alert'[msg[i]] # "none"
                  /\ faults' = faults
                  /\ life' = "completed" => done'
<1>1. ASSUME NEW q \in DeadPc \cup {"ack"}, From, Moved(q),
             life' = "active" /\ ~done' =>
               (life = "active" /\ ~done) \/ alert'[msg[i]] # "none"
      PROVE  Held' /\ Remembered'
  <2>1. q \in Pc \ {"idle"} /\ q \notin MainPc /\ pc[i] \notin CarrierPc
    BY <1>1, Points DEF MainPc, RunPc
  <2>2. Held' /\ \A m \in Message : Cared(m) => Cared(m)'
    BY <1>1, <2>1, HeldMoves
  <2>3. msg[i] \in Message /\ Cared(msg[i])'
    <3>1. msg[i] \in Message /\ where[msg[i]] = "deadHeld"
      BY <1>1, EvidenceInHand DEF Held, Placed
    <3> QED BY <1>1, <3>1 DEF Cared
  <2> QED BY <1>1, <2>1, <2>2, <2>3, RememberedMoves DEF Cared
<1>2. \A m \in Message : alert[m] # "none" => letter[m] # "none"
  BY DEF Held, Told
<1>3. life = "completed" => done
  BY DEF Held, CompletedIsDone
<1> USE DEF DeadPc, CarrierPc, RunPc
<1>4. CASE DeadRead(i)
  <2>1. PICK q \in {"deadWrite", "letter"} : pc' = [pc EXCEPT ![i] = q]
    BY <1>4 DEF DeadRead, AbandonRead
  <2> QED BY <1>1, <1>2, <1>3, <1>4, <2>1 DEF DeadRead, AbandonRead
<1>5. CASE DeadWrite(i)
  BY <1>1, <1>2, <1>3, <1>5 DEF DeadWrite, AbandonWrite
<1>6. CASE SaveLetter(i)
  <2>1. \A m \in Message : alert'[m] # "none" => letter'[m] # "none"
    BY <1>2, <1>6 DEF SaveLetter
  <2> QED BY <1>1, <1>3, <1>6, <2>1 DEF SaveLetter
<1>7. CASE SaveMetadata(i)
  BY <1>1, <1>2, <1>3, <1>7 DEF SaveMetadata
<1>8. CASE SaveAlert(i)
  <2>1. /\ \A m \in Message : alert[m] # "none" => alert'[m] # "none"
        /\ \A m \in Message : alert'[m] # "none" => letter'[m] # "none"
    BY <1>2, <1>8, EvidenceInHand DEF SaveAlert
  <2> QED BY <1>1, <1>3, <1>8, <2>1 DEF SaveAlert
<1>9. CASE ClaimIncident(i)
  <2>1. PICK q \in {"revive", "ack"} : pc' = [pc EXCEPT ![i] = q]
    BY <1>9 DEF ClaimIncident
  <2> QED BY <1>1, <1>2, <1>3, <1>9, <2>1, EvidenceInHand DEF ClaimIncident
<1>10. CASE Revive(i)
  BY <1>1, <1>2, <1>3, <1>10, EvidenceInHand DEF Revive
<1>11. CASE Authorize(i) /\ ~Retry(i)
  <2>1. PICK q \in {"revive", "ack", "claimIncident"} : pc' = [pc EXCEPT ![i] = q]
    BY <1>11 DEF Authorize
  <2> QED BY <1>1, <1>2, <1>3, <1>11, <2>1, EvidenceInHand DEF Authorize
<1>12. CASE Reread(i) /\ ~Retry(i)
  <2>1. PICK q \in {"send", "ack"} : pc' = [pc EXCEPT ![i] = q]
    BY <1>12 DEF Reread
  <2> QED BY <1>1, <1>2, <1>3, <1>12, <2>1, EvidenceInHand DEF Reread
<1>13. CASE MarkQueued(i) /\ ~Retry(i)
  <2>1. \A m \in Message : alert'[m] # "none" => letter'[m] # "none"
    BY <1>2, <1>13 DEF MarkQueued, Queued
  <2> QED BY <1>1, <1>3, <1>13, <2>1, EvidenceInHand DEF MarkQueued
<1> QED BY <1>4, <1>5, <1>6, <1>7, <1>8, <1>9, <1>10, <1>11, <1>12, <1>13

\* What is sent carries the Work on, whoever sends it.
LEMMA RememberedSend ==
  ASSUME IInv, Held, Remembered, NEW i \in Worker, WorkContinues(i) \/ Resend(i)
  PROVE  Held' /\ Remembered'
<1> USE DEF At, Goto, workVars, evidence, queueVars, localVars
<1>1. /\ UNCHANGED <<workVars, evidence, localVars, faults>> /\ Send
      /\ \/ pc[i] = "continue" /\ pc' = [pc EXCEPT ![i] = "list"]
         \/ pc[i] = "send" /\ pc' = [pc EXCEPT ![i] = "mark"]
  BY DEF WorkContinues, Resend
<1>2. PICK n \in Message : n = sent + 1 /\ where[n] = "unused"
  BY <1>1 DEF Send, IInv, TypeOK, Quota, Message
<1>3. where'[n] = "main" /\ tries' = tries
      /\ \A m \in Message : m # n => where'[m] = where[m]
  BY <1>1, <1>2 DEF Send, IInv, TypeOK
<1>4. \A j \in Worker : pc[j] # "idle" => msg[j] \in Message
  BY DEF IInv, Local
<1>5. \A j \in Worker : pc[j] \in MainPc \cup DeadPc \cup {"ack"} =>
         where[msg[j]] # "unused" /\ msg[j] \in Message /\ msg[j] # n
  BY <1>2, <1>4 DEF Held, Placed, MainPc, DeadPc, RunPc
<1>6. \A j \in Worker : j # i => pc'[j] = pc[j]
  BY <1>1 DEF IInv, TypeOK
<1>7. /\ pc'[i] \in MainPc => pc[i] \in MainPc
      /\ pc'[i] \in DeadPc => pc[i] \in DeadPc
      /\ pc'[i] \notin {"ack", "idle"} /\ pc[i] # "idle"
  BY <1>1, Points DEF IInv, TypeOK, MainPc, RunPc
<1>8. Placed'
  <2> SUFFICES ASSUME NEW j \in Worker
               PROVE  /\ pc'[j] \in MainPc => where'[msg[j]] = "mainHeld"
                      /\ pc'[j] \in DeadPc => where'[msg[j]] = "deadHeld"
                      /\ pc'[j] = "ack" =>
                           \/ where'[msg[j]] = "mainHeld"
                           \/ where'[msg[j]] = "deadHeld" /\ alert[msg[j]] # "none"
    BY <1>1 DEF Placed
  <2> QED BY <1>3, <1>5, <1>6, <1>7 DEF Held, Placed
<1>9. Distinct'
  BY <1>1, <1>6, <1>7 DEF Held, Distinct
<1>10. Told'
  BY <1>1, <1>3 DEF Held, Told
<1>11. \A m \in Message : Cared(m) => Cared(m)'
  BY <1>1, <1>2, <1>3 DEF Cared
<1>12. Carried(n)'
  BY <1>3 DEF Carried
<1>13. Remembered'
  BY <1>1, <1>2, <1>11, <1>12 DEF Remembered
<1> QED BY <1>1, <1>8, <1>9, <1>10, <1>13 DEF Held, CompletedIsDone

\* An acknowledged dead letter has its alert, an acknowledged message of the
\* main queue no Work to carry.
LEMMA RememberedAck ==
  ASSUME IInv, Held, Remembered, NEW i \in Worker, Ack(i)
  PROVE  Held' /\ Remembered'
<1> USE DEF At, Goto, workVars, evidence, queueVars, localVars
<1> DEFINE n == msg[i]
<1>1. n \in Message /\ pc[i] = "ack"
  BY DEF Ack, IInv, Local
<1>2. /\ where'[n] = "gone"
      /\ \A m \in Message : m # n => where'[m] = where[m]
      /\ pc'[i] = "idle" /\ msg'[i] = 0
      /\ \A j \in Worker : j # i => pc'[j] = pc[j] /\ msg'[j] = msg[j]
      /\ UNCHANGED <<tries, letter, alert, faults, life, reason, done>>
  BY <1>1 DEF Ack, Leave, IInv, TypeOK
<1>3. where[n] = "mainHeld" \/ (where[n] = "deadHeld" /\ alert[n] # "none")
  BY <1>1 DEF Held, Placed
<1>4. \A j \in Worker : j # i /\ pc[j] # "idle" => msg[j] # n /\ msg[j] \in Message
  BY <1>1 DEF Held, Distinct, IInv, Local
<1> HIDE DEF n
<1>5. Placed'
  <2>1. "idle" \notin MainPc \cup DeadPc \cup {"ack"}
    BY DEF MainPc, RunPc, DeadPc
  <2> QED BY <1>2, <1>4, <2>1 DEF Held, Placed
<1>6. Distinct'
  <2>1. \A j \in Worker : j # i /\ pc[j] # "idle" => msg[j] # 0
    BY <1>4 DEF Message
  <2> QED BY <1>2, <2>1 DEF Held, Distinct
<1>7. Told'
  BY <1>1, <1>2 DEF Held, Told
<1>8. \A m \in Message : Cared(m) => Cared(m)'
  BY <1>1, <1>2, <1>3 DEF Cared
<1>9. ASSUME NEW m \in Message, Carried(m) PROVE Cared(m)' \/ Carried(m)'
  <2>1. "ack" \notin CarrierPc
    BY DEF CarrierPc, RunPc
  <2>2. CASE where[m] = "main"
    BY <1>2, <1>3, <2>2 DEF Carried
  <2>3. CASE where[m] # "main"
    BY <1>1, <1>2, <1>9, <2>1, <2>3 DEF Carried
  <2> QED BY <2>2, <2>3
<1>10. Remembered'
  BY <1>2, <1>8, <1>9 DEF Remembered
<1> QED BY <1>2, <1>5, <1>6, <1>7, <1>10 DEF Held, CompletedIsDone

\* A delivery: the message is in one pair of hands, and carried on by them.
LEMMA RememberedDelivery ==
  ASSUME IInv, Held, Remembered, NEW i \in Worker, NEW n \in Message,
         DeliverMain(i, n) \/ DeliverDead(i, n)
  PROVE  Held' /\ Remembered'
<1> USE DEF At, Goto, workVars, evidence, queueVars, localVars
<1>1. /\ pc[i] = "idle" /\ msg'[i] = n
      /\ \/ where[n] = "main" /\ where'[n] = "mainHeld" /\ pc'[i] = "acquire"
         \/ where[n] = "dead" /\ where'[n] = "deadHeld" /\ pc'[i] = "deadRead"
      /\ tries[n] \in Nat /\ tries'[n] = tries[n] + 1
      /\ \A m \in Message : m # n => where'[m] = where[m] /\ tries'[m] = tries[m]
      /\ \A j \in Worker : j # i => pc'[j] = pc[j] /\ msg'[j] = msg[j]
      /\ UNCHANGED <<letter, alert, faults, life, reason, done>>
  BY DEF DeliverMain, DeliverDead, Deliver, IInv, TypeOK
<1>2. \A j \in Worker : pc[j] # "idle" => msg[j] # n /\ msg[j] \in Message
  <2> SUFFICES ASSUME NEW j \in Worker, pc[j] # "idle"
               PROVE  where[msg[j]] \in {"mainHeld", "deadHeld"} /\ msg[j] \in Message
    BY <1>1
  <2> QED BY Points DEF Held, Placed, IInv, Local, TypeOK, Pc
<1>3. Placed'
  <2>1. /\ "acquire" \in MainPc \ (DeadPc \cup {"ack"})
        /\ "deadRead" \in DeadPc \ (MainPc \cup {"ack"})
        /\ "idle" \notin MainPc \cup DeadPc \cup {"ack"}
    BY DEF MainPc, RunPc, DeadPc
  <2> SUFFICES ASSUME NEW j \in Worker
               PROVE  /\ pc'[j] \in MainPc => where'[msg'[j]] = "mainHeld"
                      /\ pc'[j] \in DeadPc => where'[msg'[j]] = "deadHeld"
                      /\ pc'[j] = "ack" =>
                           \/ where'[msg'[j]] = "mainHeld"
                           \/ where'[msg'[j]] = "deadHeld" /\ alert'[msg'[j]] # "none"
    BY DEF Placed
  <2>2. CASE j = i
    BY <1>1, <2>1, <2>2
  <2>3. CASE j # i
    BY <1>1, <1>2, <2>1, <2>3 DEF Held, Placed
  <2> QED BY <2>2, <2>3
<1>4. Distinct'
  <2> SUFFICES ASSUME NEW j \in Worker, NEW k \in Worker, pc'[j] # "idle",
                      pc'[k] # "idle", msg'[j] = msg'[k], j # k
               PROVE  FALSE
    BY DEF Distinct
  <2>1. j # i /\ k # i
    BY <1>1, <1>2
  <2> QED BY <1>1, <2>1 DEF Held, Distinct
<1>5. Told'
  <2>1. faults \in Nat
    BY DEF IInv, TypeOK
  <2> SUFFICES ASSUME NEW m \in Message
               PROVE  /\ alert'[m] # "none" => letter'[m] # "none"
                      /\ alert'[m] = "none" =>
                           /\ where'[m] = "dead" => tries'[m] <= faults'
                           /\ where'[m] = "deadHeld" => tries'[m] <= faults' + 1
    BY DEF Told
  <2>2. CASE m = n
    BY <1>1, <2>1, <2>2 DEF Held, Told
  <2>3. CASE m # n
    BY <1>1, <2>3 DEF Held, Told
  <2> QED BY <2>2, <2>3
<1>6. \A m \in Message : Cared(m) => Cared(m)'
  BY <1>1 DEF Cared
<1>7. ASSUME NEW m \in Message, Carried(m) PROVE Cared(m)' \/ Carried(m)'
  <2>0. "acquire" \in CarrierPc /\ "idle" \notin CarrierPc
    BY DEF CarrierPc, RunPc
  <2>1. CASE m = n
    BY <1>1, <2>0, <2>1 DEF Cared, Carried
  <2>2. CASE m # n
    BY <1>1, <1>7, <2>0, <2>2 DEF Carried
  <2> QED BY <2>1, <2>2
<1>8. Remembered'
  BY <1>1, <1>6, <1>7 DEF Remembered
<1> QED BY <1>1, <1>3, <1>4, <1>5, <1>8 DEF Held, CompletedIsDone

\* With fewer faults than deliveries, every step remembers what is left undone.
LEMMA RememberedStep ==
  ASSUME MaxFaults < DeadTries, IInv, Held, Remembered, [Next]_vars
  PROVE  Held' /\ Remembered'
<1> USE DEF At, workVars, evidence
<1>1. ASSUME NEW i \in Worker,
             \/ Busy(i)
             \/ WorkIsStale(i) /\ lease # i
             \/ (Authorize(i) \/ Reread(i) \/ MarkQueued(i)) /\ Retry(i)
      PROVE  Held' /\ Remembered'
  <2>1. /\ Retry(i) /\ faults' = faults /\ alert' = alert /\ UNCHANGED workVars
        /\ \A m \in Message : (letter'[m] = "none") = (letter[m] = "none")
        /\ pc[i] \in {"acquire", "work", "authorize", "reread", "mark"}
    BY <1>1 DEF Busy, WorkIsStale, Authorize, Reread, MarkQueued, Queued, IInv, TypeOK
  <2>2. pc[i] \in MainPc \/ alert[msg[i]] # "none"
    BY <2>1, EvidenceInHand DEF MainPc, RunPc
  <2> QED BY <2>1, <2>2, HeldRetries
<1>2. ASSUME NEW i \in Worker, Fails(i) \/ Crash(i)
      PROVE  Held' /\ Remembered'
  <2>1. /\ Retry(i) /\ faults' = faults + 1 /\ faults < MaxFaults /\ pc[i] # "idle"
        /\ UNCHANGED <<alert, letter, workVars>>
    BY <1>2 DEF Fails, Crash, Disturb
  <2> QED BY <2>1, HeldRetries
<1>3. ASSUME UNCHANGED <<life, reason, done, where, tries, letter, alert, pc, msg>>,
             faults' \in {faults, faults + 1}
      PROVE  Held' /\ Remembered'
  <2>1. faults \in Nat /\ \A m \in Message : tries[m] \in Nat
    BY DEF IInv, TypeOK
  <2>2. Told'
    BY <1>3, <2>1 DEF Held, Told
  <2> QED BY <1>3, <2>2 DEF Held, Placed, Distinct, CompletedIsDone, Remembered,
                            Cared, Carried
<1>4. CASE UNCHANGED vars \/ Overtake \/ \E i \in Worker : LoseLease(i) \/ LeaseExpires(i)
  BY <1>3, <1>4 DEF vars, Overtake, LoseLease, LeaseExpires, Disturb, queueVars, localVars
<1>5. ASSUME NEW i \in Worker, Step(i) \/ Fail(i)
      PROVE  Held' /\ Remembered'
  <2>1. CASE Run(i)
    <3>1. CASE WorkIsStale(i)
      BY <1>1, <3>1, RememberedRun
    <3>2. CASE Busy(i) \/ WorkContinues(i)
      BY <1>1, <3>2, RememberedSend
    <3>3. CASE Acquire(i) \/ BeginRead(i) \/ BeginClaim(i) \/ WorkPauses(i)
                 \/ WorkCompletes(i)
      BY <3>3, RememberedRun
    <3> QED BY <2>1, <3>1, <3>2, <3>3 DEF Run
  <2>2. CASE Close(i) \/ Permanent(i)
    BY <2>2, RememberedRun DEF Close, Permanent
  <2>3. CASE Evidence(i)
    BY <2>3, RememberedDead DEF Evidence
  <2>4. CASE Recover(i)
    BY <1>1, <2>4, RememberedDead, RememberedSend DEF Recover
  <2>5. CASE Ack(i) \/ LeaseExpires(i)
    BY <1>4, <2>5, RememberedAck
  <2>6. CASE Fail(i)
    BY <1>2, <1>4, <2>6, RememberedRun DEF Fail
  <2> QED BY <1>5, <2>1, <2>2, <2>3, <2>4, <2>5, <2>6 DEF Step
<1> QED BY <1>4, <1>5, RememberedDelivery DEF Next

\* Once every message is dealt with, a Work that is still active or that ended
\* for its used-up retries has an open dead letter with an open alert, if the
\* dead letter queue delivers more often than calls fail.
THEOREM NothingForgotten ==
  ASSUME MaxFaults < DeadTries PROVE Spec => []NothingIsForgotten
<1>1. Init => Held /\ Remembered
  <2> SUFFICES ASSUME Init PROVE Held /\ Remembered
    OBVIOUS
  <2>1. Placed /\ Distinct
    BY DEF Init, Placed, Distinct, MainPc, RunPc, DeadPc
  <2>2. Told /\ CompletedIsDone /\ Remembered
    BY DEF Init, Told, CompletedIsDone, Remembered
  <2> QED BY <2>1, <2>2 DEF Held
<1>2. IInv /\ Held /\ Remembered /\ [Next]_vars => Held' /\ Remembered'
  BY RememberedStep
<1>3. IInv /\ Held /\ Remembered => NothingIsForgotten
  <2> SUFFICES ASSUME IInv, Held, Remembered, Quiet, ~done,
                      life = "active" \/ reason = "exhausted"
               PROVE  \E m \in Message :
                        letter[m] \in {"open", "redrive_pending"} /\ alert[m] = "open"
    BY DEF NothingIsForgotten
  <2>1. \A m \in Message : ~Carried(m)
    BY DEF Quiet, Carried, CarrierPc, RunPc
  <2>2. PICK m \in Message : Cared(m)
    BY <2>1 DEF Remembered
  <2>3. alert[m] # "none" /\ letter[m] # "none"
    BY <2>2 DEF Quiet, Cared, Held, Told
  <2>4. alert[m] # "resolved" /\ letter[m] # "redriven"
    BY DEF IInv, ClosedIsBacked
  <2> QED BY <2>3, <2>4 DEF IInv, TypeOK
<1> QED BY <1>1, <1>2, <1>3, Invariance, PTL DEF Spec
================================================================================
