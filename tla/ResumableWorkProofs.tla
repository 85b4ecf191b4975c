------------------------- MODULE ResumableWorkProofs -------------------------
(***************************************************************************)
(* What holds of ResumableWork for every number of Workers, Works,         *)
(* generations and chunks.                                                 *)
(***************************************************************************)
EXTENDS ResumableWork, TLAPS

\* What a Worker's own variables hold at each point of its run.
Local(i) ==
    /\ pc[i] \notin {"idle", "drain", "drained"} => job[i] \in Job
    /\ pc[i] \in {"drained", "clean", "deadClean"} => item[i] \in Work
    /\ pc[i] \in {"checkChunk", "write", "checkPhase", "savePhase"}
         => index[i] < Chunks

Typed == TypeOK /\ \A i \in Worker : Local(i)

USE NoneAssumption, GenerationAssumption, WarnedAssumption, BoundAssumption

\* The initial state is well typed.
LEMMA TypedInit == Init => Typed
  BY DEF Init, Typed, TypeOK, Local, Life, Message, Pc, Job, NoJob

\* Every step of a Worker, of the Queue and of an operator keeps the types.
LEMMA TypedStep == Typed /\ [Next]_vars => Typed'
<1> SUFFICES ASSUME Typed, [Next]_vars PROVE Typed'
  OBVIOUS
<1> USE DEF Typed, TypeOK, Local, Goto, At, localVars, rowVars, stageVars,
            outboxVars
<1>pc. /\ Pc = {"idle", "drain", "drained", "acquire", "read", "claim",
               "supersede", "upsert", "load", "confirm", "complete", "raise",
               "mark", "release", "checkSource", "checkChunk", "checkPhase",
               "checkWarning", "checkCursor", "saveSource", "write",
               "savePhase", "saveWarning", "saveCursor", "cleanup", "clean",
               "ack", "abandonRead", "abandonWrite", "deadCleanup",
               "deadClean", "deadAck"}
       /\ NoJob \notin Job
  BY DEF Pc, BeforeLease, UnderLease, AfterLease, AbandonPc, CheckPc, EffectPc,
         NoJob, Job
<1>1. ASSUME NEW i \in Worker, NEW w \in Work, NEW m \in Message,
             Deliver(i, w, m) \/ DeliverTwice(i, w, m) \/ DeadLetter(i, w, m)
      PROVE  Typed'
  BY SMTT(30), <1>1, <1>pc DEF Deliver, DeliverTwice, DeadLetter, Receive, Disturb, Job, Message
<1>2. ASSUME NEW i \in Worker, DeliverOther(i) PROVE Typed'
  BY <1>2, <1>pc DEF DeliverOther
<1>retry. ASSUME NEW i \in Worker, Retry(i)
          PROVE  queued' \in [Work -> SUBSET Message]
  BY <1>retry DEF Retry, Job, NoJob
<1>3. ASSUME NEW i \in Worker, NEW v \in Work, DrainRaise(i, v) PROVE Typed'
  BY <1>3, <1>pc DEF DrainRaise
<1>4. ASSUME NEW i \in Worker, DrainMark(i) PROVE Typed'
  BY <1>4, <1>pc DEF DrainMark, Delivered
<1>5. ASSUME NEW i \in Worker, DrainEnds(i) PROVE Typed'
  BY <1>5, <1>pc DEF DrainEnds, Leave
<1>6. ASSUME NEW i \in Worker, Acquire(i) PROVE Typed'
  BY <1>6, <1>pc DEF Acquire
<1>7. ASSUME NEW i \in Worker, Busy(i) PROVE Typed'
  <2>1. queued' \in [Work -> SUBSET Message]
    BY <1>7, <1>retry DEF Busy, Retry
  <2> QED BY <1>7, <2>1, <1>pc DEF Retry, Busy, Leave
<1>8. ASSUME NEW i \in Worker, ReadWork(i) PROVE Typed'
  BY <1>8, <1>pc DEF ReadWork
<1>9. ASSUME NEW i \in Worker, ClaimFence(i) PROVE Typed'
  BY <1>9, <1>pc DEF ClaimFence, Job
<1>10. ASSUME NEW i \in Worker, RecordSuperseded(i) PROVE Typed'
  BY <1>10, <1>pc DEF RecordSuperseded, Life, Job
<1>11. ASSUME NEW i \in Worker, UpsertWork(i) PROVE Typed'
  BY <1>11, <1>pc DEF UpsertWork, Upserted, Life, Job
<1>12. ASSUME NEW i \in Worker, LoadPhases(i) PROVE Typed'
  <2> USE <1>12, <1>pc DEF LoadPhases
  <2>1. job[i].work \in Work
    BY DEF Job
  <2>2. index' \in [Worker -> 0..Chunks] /\ index'[i] = nextIndex[job[i].work]
    BY <2>1
  <2>3. /\ pc' \in [Worker -> Pc]
        /\ pc'[i] \in {"checkSource", "checkChunk", "checkWarning"}
        /\ pc'[i] = "checkChunk" => nextIndex[job[i].work] < Chunks
    BY <2>1
  <2>4. TypeOK'
    BY <2>2, <2>3
  <2>5. \A j \in Worker : Local(j)'
    BY <2>2, <2>3
  <2> QED BY <2>4, <2>5
<1>13. ASSUME NEW i \in Worker, Check(i) PROVE Typed'
  BY <1>13, <1>pc DEF Check, CheckPc, Behind
<1>14. ASSUME NEW i \in Worker, CheckFails(i) PROVE Typed'
  <2>1. queued' \in [Work -> SUBSET Message]
    BY <1>14, <1>retry DEF CheckFails, Retry, CheckPc
  <2>2. job[i] \in Job
    BY <1>14 DEF CheckFails, CheckPc
  <2>3. lease' \in Worker \cup {None}
    BY <1>14 DEF CheckFails, LetGo
  <2>4. CASE lease # i
    <3>1. Leave(i) /\ item' \in [Worker -> Work \cup {None}]
      BY <1>14, <2>4 DEF CheckFails, Retry, Leave
    <3>2. TypeOK'
      BY <1>14, <2>1, <2>3, <3>1, <1>pc DEF CheckFails, Leave
    <3>3. \A j \in Worker : Local(j)'
      BY <1>14, <3>1, <1>pc DEF CheckFails, Leave
    <3> QED BY <3>2, <3>3
  <2>5. CASE lease = i
    BY <1>14, <2>2, <2>3, <2>5, <1>pc DEF CheckFails
  <2> QED BY <2>4, <2>5
<1>15. ASSUME NEW i \in Worker, SaveSource(i) PROVE Typed'
  BY <1>15, <1>pc DEF SaveSource, Continue, Job, Message
<1>16. ASSUME NEW i \in Worker, WriteChunk(i) PROVE Typed'
  BY <1>16, <1>pc DEF WriteChunk, Job
<1>17. ASSUME NEW i \in Worker, SavePhase(i) PROVE Typed'
  <2>1. /\ job[i] \in Job
        /\ index[i] + 1 \in 0..Chunks
        /\ index[i] + 1 < Chunks => index[i] + 2 \in 0..Chunks
    BY <1>17, <1>pc DEF SavePhase
  <2>2. nextIndex' \in [Work -> 0..Chunks]
    BY <1>17, <2>1 DEF SavePhase, Reached
  <2>3. /\ job' \in [Worker -> Job \cup {NoJob}]
        /\ job'[i] \in Job
        /\ \A j \in Worker : j # i => job'[j] = job[j]
    <3>1. CASE index[i] + 1 < Chunks
      BY SMTT(30), <1>17, <2>1, <3>1 DEF SavePhase, Reached, Continue, Job, Message
    <3>2. CASE ~(index[i] + 1 < Chunks)
      BY <1>17, <2>1, <3>2 DEF SavePhase, Reached
    <3> QED BY <3>1, <3>2
  <2>4. /\ pc' \in [Worker -> Pc]
        /\ pc'[i] \in {"release", "checkWarning"}
        /\ \A j \in Worker : j # i => pc'[j] = pc[j]
    BY <1>17, <1>pc DEF SavePhase, Continue
  <2> QED BY <1>17, <2>2, <2>3, <2>4 DEF SavePhase
<1>18. ASSUME NEW i \in Worker, SaveWarning(i) PROVE Typed'
  BY <1>18, <1>pc DEF SaveWarning, Outboxed, Superseded, LetGo, Job
<1>19. ASSUME NEW i \in Worker, SaveCursor(i) PROVE Typed'
  BY <1>19, <1>pc DEF SaveCursor, Job
<1>20. ASSUME NEW i \in Worker, Confirm(i) PROVE Typed'
  BY <1>20, <1>pc DEF Confirm, Superseded, LetGo
<1>21. ASSUME NEW i \in Worker, CompleteWork(i) PROVE Typed'
  BY <1>21, <1>pc DEF CompleteWork, AfterCompletion, Life, Job
<1>22. ASSUME NEW i \in Worker, RaiseWarning(i) PROVE Typed'
  BY <1>22, <1>pc DEF RaiseWarning, Job
<1>23. ASSUME NEW i \in Worker, MarkWarning(i) PROVE Typed'
  BY <1>23, <1>pc DEF MarkWarning, Delivered, Job
<1>24. ASSUME NEW i \in Worker, Release(i) PROVE Typed'
  BY <1>24, <1>pc DEF Release, LetGo, Sent, Job
<1>25. ASSUME NEW i \in Worker, CleanupSelect(i) PROVE Typed'
  BY SMTT(30), <1>25, <1>pc DEF CleanupSelect
<1>26. ASSUME NEW i \in Worker, CleanupBatch(i) PROVE Typed'
  BY <1>26, <1>pc DEF CleanupBatch, Life
<1>27. ASSUME NEW i \in Worker, Ack(i) PROVE Typed'
  BY <1>27, <1>pc DEF Ack, Leave
<1>28. ASSUME NEW i \in Worker, AbandonRead(i) PROVE Typed'
  BY <1>28, <1>pc DEF AbandonRead
<1>29. ASSUME NEW i \in Worker, AbandonWrite(i) PROVE Typed'
  BY <1>29, <1>pc DEF AbandonWrite, Life, Job
<1>30. ASSUME NEW i \in Worker, FailsRetryably(i) PROVE Typed'
  <2>1. queued' \in [Work -> SUBSET Message]
    BY <1>30, <1>retry DEF FailsRetryably, Retry
  <2> QED BY <1>30, <2>1, <1>pc DEF Retry, FailsRetryably, Disturb, LetGo, Leave
<1>31. ASSUME NEW i \in Worker, FailsPermanently(i) PROVE Typed'
  BY <1>31, <1>pc DEF FailsPermanently, CheckPc, Disturb, Superseded, LetGo
<1>32. ASSUME NEW i \in Worker, Crash(i) PROVE Typed'
  <2>1. queued' \in [Work -> SUBSET Message]
    BY <1>32, <1>retry DEF Crash, Retry
  <2> QED BY <1>32, <2>1, <1>pc DEF Retry, Crash, Disturb, Leave
<1>33. ASSUME NEW i \in Worker, LoseLease(i) PROVE Typed'
  BY <1>33, <1>pc DEF LoseLease, Disturb
<1>34. ASSUME NEW i \in Worker, LeaseExpires(i) PROVE Typed'
  BY <1>34, <1>pc DEF LeaseExpires
<1>35. ASSUME NEW w \in Work, Redrive(w) PROVE Typed'
  BY <1>35, <1>pc DEF Redrive, Disturb, Life, Message
<1>36. ASSUME NEW w \in Work, Expire(w) PROVE Typed'
  BY <1>36, <1>pc DEF Expire
<1>37. ASSUME UNCHANGED vars PROVE Typed'
  BY <1>37 DEF vars
<1> QED
  BY <1>1, <1>2, <1>3, <1>4, <1>5, <1>6, <1>7, <1>8, <1>9, <1>10, <1>11, <1>12, <1>13, <1>14, <1>15, <1>16, <1>17, <1>18, <1>19, <1>20, <1>21, <1>22, <1>23, <1>24, <1>25, <1>26, <1>27, <1>28, <1>29, <1>30, <1>31, <1>32, <1>33, <1>34, <1>35, <1>36, <1>37
  DEF Next, Step, Begin, Piece, Commit, Drain, End, Fail, Queue

\* Every variable stays in its range, in every instance.
THEOREM TypeCorrect == Spec => []TypeOK
<1>1. Typed => TypeOK
  BY DEF Typed
<1> QED
  BY <1>1, TypedInit, TypedStep, PTL DEF Spec

(***************************************************************************)
(* What each Worker may rely on between its checks and its effects.  The   *)
(* fence and the checkpoint only move forward, written chunks and alerts   *)
(* stay: what a Worker knew of its own Work remains true however late it   *)
(* acts.                                                                   *)
(***************************************************************************)
Backed(w) == cursor # None /\ Generation[cursor] >= Generation[w]
Ahead(w) == fence # None /\ (fence = w \/ Generation[fence] > Generation[w])
Wrote(w, n) == \A k \in 1..n : k \in written[w]

AfterClaim == {"upsert", "load", "confirm", "complete", "checkSource",
               "checkChunk", "checkPhase", "checkWarning", "checkCursor",
               "saveSource", "write", "savePhase", "saveWarning", "saveCursor"}
Committing == {"checkWarning", "saveWarning", "checkCursor", "saveCursor",
               "confirm", "complete"}

Knows(i) ==
    LET w == job[i].work IN
    /\ pc[i] \in AfterClaim => Ahead(w)
    /\ pc[i] \in {"checkChunk", "write"} => Wrote(w, index[i])
    /\ pc[i] \in {"checkPhase", "savePhase"} => Wrote(w, index[i] + 1)
    /\ pc[i] \in Committing => Wrote(w, Chunks)
    /\ pc[i] = "confirm" /\ fence = w => Backed(w)
    /\ pc[i] = "complete" => Backed(w)
    /\ pc[i] = "drained" => alert[item[i]]
    /\ pc[i] = "mark" => alert[w]

Stored(w) ==
    /\ Wrote(w, nextIndex[w])
    /\ done[w] => life[w] \in Final /\ Wrote(w, Chunks) /\ Backed(w)

Core ==
    /\ CheckpointBehindFence
    /\ \A i \in Worker : Knows(i)
    /\ \A w \in Work : Stored(w)

\* Who writes the four records that only move forward.
LEMMA Writers ==
  ASSUME [Next]_vars
  PROVE  /\ UNCHANGED fence \/ \E i \in Worker : ClaimFence(i)
         /\ UNCHANGED cursor \/ \E i \in Worker : SaveCursor(i)
         /\ UNCHANGED written \/ \E i \in Worker : WriteChunk(i)
         /\ UNCHANGED alert
              \/ \E i \in Worker : RaiseWarning(i) \/ \E v \in Work : DrainRaise(i, v)
  BY ZenonT(60) DEF Next, Step, Begin, Piece, Commit, Drain, End, Fail, Queue, vars,
     outboxVars, Deliver, DeliverTwice, DeadLetter, DeliverOther, DrainRaise,
     DrainMark, DrainEnds, Acquire, Busy, ReadWork, ClaimFence,
     RecordSuperseded, UpsertWork, LoadPhases, Check, CheckFails, SaveSource,
     WriteChunk, SavePhase, SaveWarning, Outboxed, SaveCursor, Confirm, CompleteWork,
     RaiseWarning, MarkWarning, Release, CleanupSelect, CleanupBatch, Ack,
     AbandonRead, AbandonWrite, FailsRetryably, FailsPermanently, Crash,
     LoseLease, LeaseExpires, Redrive, Expire

\* No step takes back a claim, a checkpoint, a written chunk or an alert.
LEMMA Forward ==
  ASSUME Typed, [Next]_vars, NEW w \in Work
  PROVE  /\ Ahead(w) => Ahead(w)' /\ (fence' = w => fence = w)
         /\ Backed(w) => Backed(w)'
         /\ \A n \in 0..Chunks : Wrote(w, n) => Wrote(w, n)'
         /\ alert[w] => alert'[w]
<1> USE DEF Typed, TypeOK, At
<1>job. \A i \in Worker :
          pc[i] \notin {"idle", "drain", "drained"} => job[i].work \in Work
  BY DEF Local, Job
<1>1. UNCHANGED fence \/ \E v \in Work : Claimable(v) /\ fence' = v
  BY Writers, <1>job DEF ClaimFence
<1>2. UNCHANGED cursor \/ \E v \in Work : Committable(v) /\ cursor' = v
  BY Writers, <1>job DEF SaveCursor
<1>3. \A k : k \in written[w] => k \in written'[w]
  BY Writers DEF WriteChunk
<1>4. alert[w] => alert'[w]
  BY Writers DEF RaiseWarning, DrainRaise
<1>5. Ahead(w) => Ahead(w)' /\ (fence' = w => fence = w)
  BY <1>1 DEF Ahead, Claimable
<1>6. Backed(w) => Backed(w)'
  BY <1>2 DEF Backed, Committable
<1>7. \A n \in 0..Chunks : Wrote(w, n) => Wrote(w, n)'
  BY <1>3 DEF Wrote
<1> QED BY <1>4, <1>5, <1>6, <1>7

\* A Worker that does not move keeps what it knows.
LEMMA Keeps ==
  ASSUME Typed, Core, [Next]_vars, NEW j \in Worker,
         UNCHANGED <<pc[j], job[j], index[j], item[j]>>
  PROVE  Knows(j)'
<1>1. Knows(j) /\ Local(j) /\ index[j] \in 0..Chunks
  BY DEF Core, Typed, TypeOK
<1>2. pc[j] = "drained" => alert'[item[j]]
  BY <1>1, Forward DEF Knows, Local
<1>3. CASE job[j].work \in Work
  <2>1. PICK w \in Work : w = job[j].work
    BY <1>3
  <2>2. /\ Ahead(w) => Ahead(w)' /\ (fence' = w => fence = w)
        /\ Backed(w) => Backed(w)'
        /\ \A n \in 0..Chunks : Wrote(w, n) => Wrote(w, n)'
        /\ alert[w] => alert'[w]
    BY Forward
  <2>3. /\ pc[j] \in AfterClaim => Ahead(w)'
        /\ pc[j] \in Committing => Wrote(w, Chunks)'
        /\ pc[j] = "confirm" /\ fence' = w => Backed(w)'
        /\ pc[j] = "complete" => Backed(w)'
        /\ pc[j] = "mark" => alert'[w]
    BY <1>1, <2>1, <2>2 DEF Knows, AfterClaim
  <2>4. pc[j] \in {"checkChunk", "write"} => Wrote(w, index[j])'
    BY <1>1, <2>1, <2>2 DEF Knows
  <2>5. pc[j] \in {"checkPhase", "savePhase"} => Wrote(w, index[j] + 1)'
    <3>1. index[j] < Chunks => index[j] + 1 \in 0..Chunks
      BY <1>1
    <3> QED BY <1>1, <2>1, <2>2, <3>1 DEF Knows, Local
  <2> QED
    BY <1>2, <2>1, <2>3, <2>4, <2>5 DEF Knows, Ahead, Backed, Wrote
<1>4. CASE job[j].work \notin Work
  <2>1. pc[j] \in {"idle", "drain", "drained"}
    BY <1>1, <1>4 DEF Local, Job
  <2> QED
    BY <1>2, <2>1 DEF Knows, AfterClaim, Committing
<1> QED BY <1>3, <1>4

\* What the initial state knows is nothing.
LEMMA CoreInit == Init => Core
  BY DEF Init, Core, Knows, Stored, CheckpointBehindFence, Wrote, AfterClaim,
     Committing

\* The points of a run at which a Worker relies on nothing.
Careless == Pc \ (AfterClaim \cup {"drained", "mark"})

\* A step moves one Worker, and takes it to a careless point, unless it is one
\* of the steps that earn or use what a Worker knows.
LEMMA Movers ==
  ASSUME Typed, [Next]_vars
  PROVE  \/ UNCHANGED <<pc, job, index, item>>
         \/ \E i \in Worker :
              /\ \A j \in Worker \ {i} :
                   UNCHANGED <<pc[j], job[j], index[j], item[j]>>
              /\ \/ pc'[i] \in Careless
                 \/ \E v \in Work : DrainRaise(i, v)
                 \/ ClaimFence(i) \/ UpsertWork(i) \/ LoadPhases(i) \/ Check(i)
                 \/ WriteChunk(i) \/ SavePhase(i) \/ SaveWarning(i)
                 \/ SaveCursor(i) \/ Confirm(i) \/ RaiseWarning(i)
<1> USE DEF Typed, TypeOK, Goto, At, Leave, Retry, localVars
<1>pc. Careless = {"idle", "drain", "acquire", "read", "claim", "supersede",
                   "raise", "release", "cleanup", "clean", "ack",
                   "abandonRead", "abandonWrite", "deadCleanup", "deadClean",
                   "deadAck"}
  BY DEF Careless, Pc, BeforeLease, UnderLease, AfterLease, AbandonPc, CheckPc,
         EffectPc, AfterClaim
<1> DEFINE Alone(i) == \A j \in Worker \ {i} :
                         UNCHANGED <<pc[j], job[j], index[j], item[j]>>
<1>1. ASSUME NEW i \in Worker, NEW w \in Work, NEW m \in Message,
             Deliver(i, w, m) \/ DeliverTwice(i, w, m) \/ DeadLetter(i, w, m)
      PROVE  Alone(i) /\ pc'[i] \in Careless
  BY <1>1, <1>pc DEF Deliver, DeliverTwice, DeadLetter, Receive
<1>2. ASSUME NEW i \in Worker,
             DeliverOther(i) \/ DrainMark(i) \/ DrainEnds(i) \/ Acquire(i) \/ Busy(i)
      PROVE  Alone(i) /\ pc'[i] \in Careless
  BY <1>2, <1>pc DEF DeliverOther, DrainMark, DrainEnds, Acquire, Busy
<1>3. ASSUME NEW i \in Worker, ReadWork(i) \/ RecordSuperseded(i) \/ CheckFails(i)
      PROVE  Alone(i) /\ pc'[i] \in Careless
  BY <1>3, <1>pc DEF ReadWork, RecordSuperseded, CheckFails
<1>4. ASSUME NEW i \in Worker, SaveSource(i) \/ CompleteWork(i) \/ MarkWarning(i)
      PROVE  Alone(i) /\ pc'[i] \in Careless
  BY <1>4, <1>pc DEF SaveSource, CompleteWork, MarkWarning, Continue, AfterCompletion
<1>5. ASSUME NEW i \in Worker, End(i) PROVE Alone(i) /\ pc'[i] \in Careless
  BY <1>5, <1>pc DEF End, Release, CleanupSelect, CleanupBatch, Ack, AbandonRead,
                     AbandonWrite
<1>6. ASSUME NEW i \in Worker, FailsRetryably(i) \/ FailsPermanently(i) \/ Crash(i)
      PROVE  Alone(i) /\ pc'[i] \in Careless
  BY <1>6, <1>pc DEF FailsRetryably, FailsPermanently, Crash, Superseded
<1>7. ASSUME NEW i \in Worker, NEW v \in Work, DrainRaise(i, v) PROVE Alone(i)
  BY <1>7 DEF DrainRaise
<1>8. ASSUME NEW i \in Worker,
             ClaimFence(i) \/ UpsertWork(i) \/ LoadPhases(i) \/ Check(i)
      PROVE  Alone(i)
  BY <1>8 DEF ClaimFence, UpsertWork, LoadPhases, Check
<1>9. ASSUME NEW i \in Worker,
             WriteChunk(i) \/ SavePhase(i) \/ SaveWarning(i) \/ SaveCursor(i)
      PROVE  Alone(i)
  BY <1>9 DEF WriteChunk, SavePhase, Continue, SaveWarning, Outboxed, Superseded, SaveCursor
<1>10. ASSUME NEW i \in Worker, Confirm(i) \/ RaiseWarning(i) PROVE Alone(i)
  BY <1>10 DEF Confirm, Superseded, RaiseWarning
<1>11. ASSUME \/ \E i \in Worker : LoseLease(i) \/ LeaseExpires(i)
              \/ \E w \in Work : Redrive(w) \/ Expire(w)
              \/ UNCHANGED vars
       PROVE  UNCHANGED <<pc, job, index, item>>
  BY <1>11 DEF LoseLease, LeaseExpires, Redrive, Expire, vars
<1> HIDE DEF Alone
<1> QED
  <2>1. \/ UNCHANGED <<pc, job, index, item>>
        \/ \E i \in Worker :
              /\ Alone(i)
              /\ \/ pc'[i] \in Careless
                 \/ \E v \in Work : DrainRaise(i, v)
                 \/ ClaimFence(i) \/ UpsertWork(i) \/ LoadPhases(i) \/ Check(i)
                 \/ WriteChunk(i) \/ SavePhase(i) \/ SaveWarning(i)
                 \/ SaveCursor(i) \/ Confirm(i) \/ RaiseWarning(i)
    BY <1>1, <1>2, <1>3, <1>4, <1>5, <1>6, <1>7, <1>8, <1>9, <1>10, <1>11
    DEF Next, Step, Begin, Piece, Commit, Drain, Fail, Queue
  <2> QED BY <2>1 DEF Alone

\* The first n chunks of a Work are written once the step is taken.
Still(w, n) == \A k \in 1..n : k \in written'[w]

\* What the Worker that moves relies on next, its step has established.
LEMMA Learns ==
  ASSUME Typed, Core, [Next]_vars, NEW i \in Worker,
         \/ pc'[i] \in Careless
         \/ \E v \in Work : DrainRaise(i, v)
         \/ ClaimFence(i) \/ UpsertWork(i) \/ LoadPhases(i) \/ Check(i)
         \/ WriteChunk(i) \/ SavePhase(i) \/ SaveWarning(i)
         \/ SaveCursor(i) \/ Confirm(i) \/ RaiseWarning(i)
  PROVE  Knows(i)'
<1> USE DEF Typed, TypeOK, Goto, At, localVars
<1>know. Knows(i) /\ Local(i) /\ index[i] \in 0..Chunks
  BY DEF Core
<1>1. CASE pc'[i] \in Careless
  BY <1>1 DEF Careless, Knows, AfterClaim, Committing
<1>2. ASSUME NEW v \in Work, DrainRaise(i, v) PROVE Knows(i)'
  BY <1>2 DEF DrainRaise, Knows, AfterClaim, Committing
<1>3. CASE pc[i] \in {"idle", "drain", "drained"}
  BY <1>1, <1>2, <1>3 DEF ClaimFence, UpsertWork, LoadPhases, Check, CheckPc,
     WriteChunk, SavePhase, SaveWarning, Outboxed, SaveCursor, Confirm, RaiseWarning
<1>4. CASE pc[i] \notin {"idle", "drain", "drained"}
  <2>1. PICK w \in Work : w = job[i].work
    BY <1>4, <1>know DEF Local, Job
  <2>2. Stored(w)
    BY DEF Core
  <2>3. /\ Ahead(w) => Ahead(w)' /\ (fence' = w => fence = w)
        /\ Backed(w) => Backed(w)'
        /\ \A n \in 0..Chunks : Wrote(w, n) => Still(w, n)
        /\ alert[w] => alert'[w]
    BY Forward DEF Still, Wrote
  <2>4. ASSUME ClaimFence(i) PROVE Knows(i)'
    BY <2>4, <2>1, <1>1 DEF ClaimFence, Knows, Ahead, Careless, Committing, Pc,
       UnderLease, AfterClaim
  <2>5. ASSUME UpsertWork(i) PROVE Knows(i)'
    BY <2>5, <2>1, <2>3, <1>know DEF UpsertWork, Knows, Ahead, Committing,
       AfterClaim
  <2>6. ASSUME LoadPhases(i) PROVE Knows(i)'
    <3>1. /\ job' = job
          /\ pc'[i] \in {"checkSource", "checkChunk", "checkWarning"}
          /\ pc'[i] = "checkChunk" => index'[i] = nextIndex[w]
          /\ pc'[i] = "checkWarning" => nextIndex[w] = Chunks
      BY <2>6, <2>1 DEF LoadPhases
    <3>2. Ahead(w)'
      BY <2>6, <2>1, <2>3, <1>know DEF LoadPhases, Knows, AfterClaim
    <3>3. Still(w, nextIndex[w])
      BY <2>2, <2>3 DEF Stored
    <3> QED BY <3>1, <3>2, <3>3, <2>1 DEF Knows, Committing, Ahead, Wrote, Still
  <2>7. ASSUME Check(i) PROVE Knows(i)'
    <3>1. pc[i] = "checkSource" \/ pc[i] = "checkChunk" \/ pc[i] = "checkPhase"
            \/ pc[i] = "checkWarning" \/ pc[i] = "checkCursor"
      BY <2>7 DEF Check, CheckPc
    <3>2. /\ job'[i] = job[i] /\ index'[i] = index[i]
          /\ pc'[i] = Behind(pc[i])
      BY <2>7 DEF Check, CheckPc, Behind
    <3>3. Ahead(w)'
      BY <3>1, <2>1, <2>3, <1>know DEF Knows, AfterClaim
    <3>4. pc[i] = "checkChunk" => Still(w, index[i])
      BY <2>1, <2>3, <1>know DEF Knows
    <3>5. pc[i] = "checkPhase" => Still(w, index[i] + 1)
      <4>1. pc[i] = "checkPhase" => index[i] + 1 \in 0..Chunks
        BY <1>know DEF Local
      <4> QED BY <4>1, <2>1, <2>3, <1>know DEF Knows
    <3>6. pc[i] \in {"checkWarning", "checkCursor"} => Still(w, Chunks)
      BY <2>1, <2>3, <1>know DEF Knows, Committing
    <3> QED
      BY <3>1, <3>2, <3>3, <3>4, <3>5, <3>6, <2>1
      DEF Knows, Behind, Committing, Ahead, Wrote, Still
  <2>8. ASSUME WriteChunk(i) PROVE Knows(i)'
    <3>1. Ahead(w)' /\ Still(w, index[i])
      BY <2>8, <2>1, <2>3, <1>know DEF WriteChunk, Knows, AfterClaim
    <3>2. index[i] + 1 \in written'[w]
      BY <2>8, <2>1 DEF WriteChunk
    <3>3. Still(w, index[i] + 1)
      BY <2>8, <3>1, <3>2, <1>know DEF Still, WriteChunk
    <3> QED
      BY <2>8, <3>1, <3>3, <2>1 DEF WriteChunk, Knows, Committing, Ahead, Wrote, Still
  <2>9. ASSUME SavePhase(i) PROVE Knows(i)'
    <3>1. CASE pc'[i] = "release"
      BY <3>1 DEF Knows, AfterClaim, Committing
    <3>2. CASE pc'[i] # "release"
      <4>1. /\ pc'[i] = "checkWarning" /\ job' = job
            /\ ~(index[i] + 1 < Chunks) /\ pc[i] = "savePhase"
        BY <2>9, <3>2 DEF SavePhase, Continue, Reached
      <4>2. index[i] + 1 = Chunks
        BY <4>1, <1>know DEF Local
      <4>3. Ahead(w)' /\ Still(w, Chunks)
        BY <4>1, <4>2, <2>1, <2>3, <1>know DEF Knows, AfterClaim
      <4> QED BY <4>1, <4>3, <2>1 DEF Knows, Ahead, Wrote, Still
    <3> QED BY <3>1, <3>2
  <2>10. ASSUME SaveWarning(i) PROVE Knows(i)'
    <3>1. /\ pc[i] = "saveWarning" /\ job' = job
          /\ pc'[i] \in {"checkCursor", "abandonRead"}
      BY <2>10 DEF SaveWarning, Outboxed, Superseded
    <3>2. Ahead(w)' /\ Still(w, Chunks)
      BY <3>1, <2>1, <2>3, <1>know DEF Knows, AfterClaim, Committing
    <3> QED BY <3>1, <3>2, <2>1 DEF Knows, Ahead, Wrote, Still, AfterClaim, Committing
  <2>11. ASSUME SaveCursor(i) PROVE Knows(i)'
    <3>1. /\ pc[i] = "saveCursor" /\ job' = job /\ pc'[i] = "confirm"
          /\ fence' = fence
          /\ cursor' = IF Committable(w) THEN w ELSE cursor
      BY <2>11, <2>1 DEF SaveCursor
    <3>2. Ahead(w)' /\ Still(w, Chunks)
      BY <3>1, <2>1, <2>3, <1>know DEF Knows, AfterClaim, Committing
    <3>3. fence' = w => Backed(w)'
      BY <3>1 DEF Committable, Backed
    <3> QED BY <3>1, <3>2, <3>3, <2>1 DEF Knows, Ahead, Wrote, Still, Backed
  <2>12. ASSUME Confirm(i) PROVE Knows(i)'
    <3>1. /\ pc[i] = "confirm" /\ job' = job
          /\ \/ pc'[i] = "complete" /\ fence = w
             \/ pc'[i] = "abandonRead"
      BY <2>12, <2>1 DEF Confirm, Confirmed, Superseded
    <3>2. Ahead(w)' /\ Still(w, Chunks)
      BY <3>1, <2>1, <2>3, <1>know DEF Knows, AfterClaim, Committing
    <3>3. fence = w => Backed(w)'
      BY <3>1, <2>1, <2>3, <1>know DEF Knows
    <3> QED
      BY <3>1, <3>2, <3>3, <2>1 DEF Knows, Ahead, Wrote, Still, Backed, AfterClaim, Committing
  <2>13. ASSUME RaiseWarning(i) PROVE Knows(i)'
    BY <2>13, <2>1 DEF RaiseWarning, Knows, AfterClaim, Committing
  <2> QED
    BY <1>1, <1>2, <2>4, <2>5, <2>6, <2>7, <2>8, <2>9, <2>10, <2>11, <2>12, <2>13
<1> QED BY <1>3, <1>4

\* What is stored of a Work stays backed by what was written and committed.
LEMMA StoredStep ==
  ASSUME Typed, Core, [Next]_vars, NEW w \in Work
  PROVE  Stored(w)'
<1> USE DEF Typed, TypeOK, At, rowVars, stageVars
<1>job. \A i \in Worker :
          pc[i] \notin {"idle", "drain", "drained"} => job[i].work \in Work
  BY DEF Local, Job
<1>st. Stored(w) /\ \A i \in Worker : Knows(i) /\ Local(i)
  BY DEF Core
<1>fw. /\ Backed(w) => Backed(w)'
       /\ \A n \in 0..Chunks : Wrote(w, n) => Still(w, n)
  BY Forward DEF Still, Wrote
<1>idx. Still(w, nextIndex'[w])
  <2>0. Still(w, nextIndex[w]) /\ Still(w, 0)
    BY <1>st, <1>fw DEF Stored, Still
  <2>1. ASSUME NEW i \in Worker, SavePhase(i) PROVE Still(w, nextIndex'[w])
    <3>1. CASE w = job[i].work
      <4>1. index[i] + 1 \in 0..Chunks /\ nextIndex'[w] = index[i] + 1
        BY <2>1, <3>1, <1>st DEF SavePhase, Reached, Local
      <4>2. Wrote(w, index[i] + 1)
        BY <2>1, <3>1, <1>st DEF SavePhase, Knows
      <4> QED BY <4>1, <4>2, <1>fw
    <3>2. CASE w # job[i].work
      BY <2>1, <3>2, <2>0 DEF SavePhase
    <3> QED BY <3>1, <3>2
  <2>2. ASSUME NEW i \in Worker, CompleteWork(i) \/ CleanupBatch(i)
        PROVE  nextIndex'[w] = nextIndex[w] \/ nextIndex'[w] = 0
    BY <2>2 DEF CompleteWork, CleanupBatch
  <2>3. \/ UNCHANGED nextIndex
        \/ \E i \in Worker : SavePhase(i) \/ CompleteWork(i) \/ CleanupBatch(i)
    BY ZenonT(60) DEF Next, Step, Begin, Piece, Commit, Drain, End, Fail, Queue, vars,
       Deliver, DeliverTwice, DeadLetter, DeliverOther, DrainRaise, DrainMark,
       DrainEnds, Acquire, Busy, ReadWork, ClaimFence, RecordSuperseded,
       UpsertWork, LoadPhases, Check, CheckFails, SaveSource, WriteChunk,
       SaveWarning, Outboxed, SaveCursor, Confirm, RaiseWarning, MarkWarning, Release,
       CleanupSelect, Ack, AbandonRead, AbandonWrite, FailsRetryably,
       FailsPermanently, Crash, LoseLease, LeaseExpires, Redrive, Expire
  <2> QED BY <2>0, <2>1, <2>2, <2>3
<1>end. done'[w] => life'[w] \in Final /\ Still(w, Chunks) /\ Backed(w)'
  <2>0. done[w] => life[w] \in Final /\ Still(w, Chunks) /\ Backed(w)'
    BY <1>st, <1>fw DEF Stored
  <2>1. ASSUME NEW i \in Worker, CompleteWork(i)
        PROVE  done'[w] => life'[w] \in Final /\ Still(w, Chunks) /\ Backed(w)'
    <3>1. CASE w = job[i].work
      <4>1. Wrote(w, Chunks) /\ Backed(w)
        BY <2>1, <3>1, <1>st DEF CompleteWork, Knows, Committing
      <4>2. done'[w] => life'[w] \in Final
        BY <2>1, <3>1, <2>0 DEF CompleteWork, Final
      <4> QED BY <4>1, <4>2, <1>fw
    <3>2. CASE w # job[i].work
      BY <2>1, <3>2, <2>0 DEF CompleteWork
    <3> QED BY <3>1, <3>2
  <2>2. ASSUME NEW i \in Worker,
               RecordSuperseded(i) \/ UpsertWork(i) \/ AbandonWrite(i)
        PROVE  done'[w] => done[w] /\ life'[w] \in Final
    <3>1. CASE RecordSuperseded(i)
      BY <3>1, <2>0 DEF RecordSuperseded, Final
    <3>2. CASE UpsertWork(i)
      BY <3>2, <2>0 DEF UpsertWork, Upserted, Final
    <3>3. CASE AbandonWrite(i)
      BY <3>3, <2>0 DEF AbandonWrite, Final
    <3> QED BY <2>2, <3>1, <3>2, <3>3
  <2>5. ASSUME NEW i \in Worker, CleanupBatch(i)
        PROVE  done'[w] => done[w] /\ life'[w] \in Final
    <3>1. CASE w = item[i] /\ Cleanable(w)
      <4>1. done'[w] = FALSE
        BY <2>5, <3>1 DEF CleanupBatch
      <4> QED BY <4>1
    <3>2. CASE ~(w = item[i] /\ Cleanable(w))
      <4>1. done'[w] = done[w] /\ life'[w] = life[w]
        BY <2>5, <3>2 DEF CleanupBatch
      <4> QED BY <4>1, <2>0
    <3> QED BY <3>1, <3>2
  <2>3. ASSUME NEW v \in Work, Redrive(v)
        PROVE  done'[w] => done[w] /\ life'[w] \in Final
    BY <2>3, <2>0 DEF Redrive, Revivable
  <2>4. \/ UNCHANGED <<life, done>>
        \/ \E v \in Work : Redrive(v)
        \/ \E i \in Worker :
             \/ CompleteWork(i) \/ RecordSuperseded(i) \/ UpsertWork(i)
             \/ CleanupBatch(i) \/ AbandonWrite(i)
    <3>1. ASSUME NEW i \in Worker,
                 \/ Drain(i) \/ Acquire(i) \/ Busy(i) \/ ReadWork(i) \/ ClaimFence(i)
                 \/ Piece(i) \/ LeaseExpires(i) \/ Fail(i) \/ Queue(i)
                 \/ DeliverOther(i)
          PROVE  UNCHANGED <<life, done>>
      BY SMTT(30), <3>1 DEF Drain, DrainRaise, DrainMark, DrainEnds, Acquire, Busy,
         ReadWork, ClaimFence, Piece, LoadPhases, Check, CheckFails, SaveSource,
         WriteChunk, SavePhase, LeaseExpires, Fail, FailsRetryably,
         FailsPermanently, Crash, LoseLease, Queue, Deliver, DeliverTwice,
         DeadLetter, DeliverOther
    <3>2. ASSUME NEW i \in Worker,
                 \/ SaveWarning(i) \/ SaveCursor(i) \/ Confirm(i) \/ RaiseWarning(i)
                 \/ MarkWarning(i) \/ Release(i) \/ CleanupSelect(i) \/ Ack(i)
                 \/ AbandonRead(i)
          PROVE  UNCHANGED <<life, done>>
      BY SMTT(30), <3>2 DEF SaveWarning, Outboxed, SaveCursor, Confirm, RaiseWarning,
         MarkWarning, Release, CleanupSelect, Ack, AbandonRead
    <3>3. ASSUME NEW v \in Work, Expire(v)
          PROVE  UNCHANGED <<life, done>>
      BY <3>3 DEF Expire
    <3>4. UNCHANGED vars => UNCHANGED <<life, done>>
      BY DEF vars
    <3> QED BY ZenonT(30), <3>1, <3>2, <3>3, <3>4
            DEF Next, Step, Begin, Commit, End
  <2> QED BY <2>0, <2>1, <2>2, <2>3, <2>4, <2>5
<1> QED BY <1>idx, <1>end DEF Stored, Still, Wrote, Backed

\* The checkpoint and the fence only move as the two statements allow.
LEMMA FenceStep ==
  ASSUME Typed, CheckpointBehindFence, [Next]_vars
  PROVE  CheckpointBehindFence'
<1> USE DEF Typed, TypeOK, At
<1>job. \A i \in Worker :
          pc[i] \notin {"idle", "drain", "drained"} => job[i].work \in Work
  BY DEF Local, Job
<1>1. \/ UNCHANGED fence
      \/ UNCHANGED cursor /\ \E v \in Work : Claimable(v) /\ fence' = v
  BY Writers, <1>job DEF ClaimFence
<1>2. UNCHANGED cursor \/ \E v \in Work : Committable(v) /\ cursor' = v
  BY Writers, <1>job DEF SaveCursor
<1> QED BY <1>1, <1>2 DEF CheckpointBehindFence, Claimable, Committable

\* Core, with the types, is inductive.
LEMMA CoreStep == Typed /\ Core /\ [Next]_vars => Core'
<1> SUFFICES ASSUME Typed, Core, [Next]_vars PROVE Core'
  OBVIOUS
<1>1. CheckpointBehindFence'
  BY FenceStep DEF Core
<1>2. ASSUME NEW j \in Worker PROVE Knows(j)'
  <2>1. CASE UNCHANGED <<pc, job, index, item>>
    BY <2>1, Keeps
  <2>2. ASSUME NEW i \in Worker,
               \A k \in Worker \ {i} :
                 UNCHANGED <<pc[k], job[k], index[k], item[k]>>,
               j # i
        PROVE  Knows(j)'
    <3>1. UNCHANGED <<pc[j], job[j], index[j], item[j]>>
      BY <2>2
    <3> QED BY <3>1, Keeps
  <2> QED BY <2>1, <2>2, Movers, Learns
<1>3. \A w \in Work : Stored(w)'
  BY StoredStep
<1> QED BY <1>1, <1>2, <1>3 DEF Core

\* The types and Core hold in every reachable state.
LEMMA Invariance == Spec => [](Typed /\ Core)
  BY TypedInit, TypedStep, CoreInit, CoreStep, PTL DEF Spec

\* The checkpoint is never of a newer generation than the fence.
THEOREM CheckpointFollowsClaim == Spec => []CheckpointBehindFence
<1>1. Core => CheckpointBehindFence
  BY DEF Core
<1> QED BY <1>1, Invariance, PTL

\* Stored progress never runs ahead of the destination.
THEOREM ProgressBacked == Spec => []ProgressIsWritten
<1>1. Core => ProgressIsWritten
  BY DEF Core, Stored, Wrote, ProgressIsWritten
<1> QED BY <1>1, Invariance, PTL

\* A Work that completed wrote everything and committed its checkpoint.
THEOREM CompletionBacked == Spec => []CompletionIsBacked
<1>1. Typed /\ Core => CompletionIsBacked
  <2> SUFFICES ASSUME Typed, Core, NEW w \in Work, done[w]
               PROVE  written[w] = 1..Chunks /\ Backed(w)
    BY DEF CompletionIsBacked, Backed
  <2>1. Wrote(w, Chunks) /\ Backed(w)
    BY DEF Core, Stored
  <2>2. written[w] \subseteq 1..Chunks
    BY DEF Typed, TypeOK
  <2> QED BY <2>1, <2>2 DEF Wrote
<1> QED BY <1>1, Invariance, PTL

\* A Work that completed never runs again.
THEOREM CompletedForGood == Spec => []DoneStaysDone
<1>1. Core => DoneStaysDone
  BY DEF Core, Stored, Final, DoneStaysDone
<1> QED BY <1>1, Invariance, PTL

\* The checkpoint moves only to the Work that holds the fence, and forward.
THEOREM CheckpointForward == Spec => CheckpointMovesForward
<1>1. Typed /\ [Next]_vars =>
        [cursor' # cursor =>
           /\ cursor' = fence
           /\ cursor # None => Generation[cursor'] >= Generation[cursor]]_vars
  <2> SUFFICES ASSUME Typed, [Next]_vars, cursor' # cursor
               PROVE  /\ cursor' = fence
                      /\ cursor # None =>
                           Generation[cursor'] >= Generation[cursor]
    OBVIOUS
  <2>1. PICK i \in Worker : SaveCursor(i)
    BY Writers
  <2> QED BY <2>1 DEF SaveCursor, Committable
<1> QED BY <1>1, Invariance, PTL DEF Spec, CheckpointMovesForward

\* A pending warning is delivered only with its alert, and keeps its Work.
THEOREM WarningKept == Spec => WarningIsKept
<1>1. Typed /\ Core /\ [Next]_vars =>
        [\A w \in Work : warning[w] = "pending" =>
           /\ warning'[w] = "pending" \/ (warning'[w] = "delivered" /\ alert[w])
           /\ life[w] # "absent" => life'[w] # "absent"]_vars
  <2> SUFFICES ASSUME Typed, Core, [Next]_vars, NEW w \in Work,
                      warning[w] = "pending"
               PROVE  /\ \/ warning'[w] = "pending"
                         \/ warning'[w] = "delivered" /\ alert[w]
                      /\ life[w] # "absent" => life'[w] # "absent"
    OBVIOUS
  <2> USE DEF Typed, TypeOK, At, rowVars, outboxVars
  <2>job. \A i \in Worker : Knows(i)
    BY DEF Core
  <2>1. ASSUME NEW i \in Worker, DrainMark(i) \/ MarkWarning(i)
        PROVE  warning'[w] = "pending" \/ (warning'[w] = "delivered" /\ alert[w])
    BY <2>1, <2>job DEF DrainMark, MarkWarning, Delivered, Knows
  <2>2. ASSUME NEW i \in Worker, SaveWarning(i) \/ CleanupBatch(i)
        PROVE  warning'[w] = "pending"
    BY <2>2 DEF SaveWarning, Outboxed, CleanupBatch
  <2>3. \/ UNCHANGED warning
        \/ \E i \in Worker :
             DrainMark(i) \/ MarkWarning(i) \/ SaveWarning(i) \/ CleanupBatch(i)
    BY ZenonT(60) DEF Next, Step, Begin, Piece, Commit, Drain, End, Fail, Queue, vars,
       Deliver, DeliverTwice, DeadLetter, DeliverOther, DrainRaise, DrainEnds,
       Acquire, Busy, ReadWork, ClaimFence, RecordSuperseded, UpsertWork,
       LoadPhases, Check, CheckFails, SaveSource, WriteChunk, SavePhase,
       SaveCursor, Confirm, CompleteWork, RaiseWarning, Release, CleanupSelect,
       Ack, AbandonRead, AbandonWrite, FailsRetryably, FailsPermanently, Crash,
       LoseLease, LeaseExpires, Redrive, Expire
  <2>4. ASSUME life[w] # "absent" PROVE life'[w] # "absent"
    <3>1. ASSUME NEW i \in Worker,
                 CompleteWork(i) \/ RecordSuperseded(i) \/ UpsertWork(i)
                   \/ AbandonWrite(i)
          PROVE  life'[w] # "absent"
      BY <3>1, <2>4 DEF CompleteWork, RecordSuperseded, UpsertWork, Upserted,
         AbandonWrite
    <3>2. ASSUME NEW i \in Worker, CleanupBatch(i) PROVE life'[w] # "absent"
      BY <3>2, <2>4 DEF CleanupBatch, Cleanable
    <3>3. ASSUME NEW v \in Work, Redrive(v) PROVE life'[w] # "absent"
      BY <3>3, <2>4 DEF Redrive
    <3>4. \/ UNCHANGED life
          \/ \E v \in Work : Redrive(v)
          \/ \E i \in Worker :
               \/ CompleteWork(i) \/ RecordSuperseded(i) \/ UpsertWork(i)
               \/ CleanupBatch(i) \/ AbandonWrite(i)
      BY ZenonT(60) DEF Next, Step, Begin, Piece, Commit, Drain, End, Fail, Queue, vars,
         Deliver, DeliverTwice, DeadLetter, DeliverOther, DrainRaise,
         DrainMark, DrainEnds, Acquire, Busy, ReadWork, ClaimFence, LoadPhases,
         Check, CheckFails, SaveSource, WriteChunk, SavePhase, SaveWarning, Outboxed,
         SaveCursor, Confirm, RaiseWarning, MarkWarning, Release,
         CleanupSelect, Ack, AbandonRead, FailsRetryably, FailsPermanently,
         Crash, LoseLease, LeaseExpires, Expire
    <3> QED BY <3>1, <3>2, <3>3, <3>4, <2>4
  <2> QED BY <2>1, <2>2, <2>3, <2>4
<1> QED BY <1>1, Invariance, PTL DEF Spec, WarningIsKept
=============================================================================
