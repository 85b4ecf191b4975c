------------------------- MODULE GoogleDeliveryProofs -------------------------
(***************************************************************************)
(* What holds of GoogleDelivery for every number of requests, consumers,   *)
(* chunks, units, redrives and faults.                                     *)
(***************************************************************************)
EXTENDS GoogleDelivery, FiniteSetTheorems, TLAPS

USE ProcessAssumption, UnitsAssumption

\* The count of a run is that of its chunks, it was never closed as invalid,
\* and it has an admission only when all of it is there.
Counts ==
    /\ received = Cardinality(chunks)
    /\ run # "invalid"
    /\ status # "none" => chunks = Chunk

\* Before the admission there is no message, no dead letter, and no request
\* that sends one.
EarlyPost == {"idle", "stage", "validate", "reserve", "reserved"}
Begun ==
    status = "none" =>
        /\ queue = 0 /\ dead = 0
        /\ \A w \in Worker : pc[w] = "idle"
        /\ \A p \in Poster : pc[p] \in EarlyPost

\* The first n units of a phase are written.
Backed(f, n) == \A j \in 1..n : <<f, j>> \in written

Progress ==
    /\ \A f \in Phase : Backed(f, saved[f])
    /\ \A k \in 1..LarkUnits : <<"lark", k>> \in written => Backed("d1", D1Units)
    /\ status = "completed" \/ life = "completed" => written = Unit

\* What a consumer knows of the units at each point of its run.
UnitPc == {"checkWrite", "write", "save"}
EndPc == {"checkComplete", "complete", "markCompleted", "isCompleted"}
Local(w) ==
    /\ my[w].phase = "lark" => Backed("d1", D1Units)
    /\ pc[w] \in UnitPc =>
         /\ my[w].next \in 1..Units[my[w].phase]
         /\ Backed(my[w].phase, my[w].next - 1)
    /\ pc[w] = "save" => <<my[w].phase, my[w].next>> \in written
    /\ pc[w] \in EndPc => written = Unit

IInv == TypeOK /\ Counts /\ Begun /\ Progress /\ \A w \in Worker : Local(w)

\* The names of the points, in one place.
LEMMA Points ==
    /\ PostPc = {"idle", "stage", "validate", "reserve", "reserved", "pending",
                 "isPending", "send", "sendFailed", "mark", "resend", "remark"}
    /\ CheckPc = {"checkClaim", "checkWrite", "checkComplete"}
    /\ WorkPc = {"idle", "receipt", "confirm", "confirmed", "acquire", "read",
                 "leave", "retry", "failRetryable", "failPermanent", "abandon",
                 "claim", "claimed", "load", "begin", "phase", "write", "save",
                 "continue", "complete", "markCompleted", "isCompleted",
                 "checkClaim", "checkWrite", "checkComplete"}
  BY DEF PostPc, WorkPc, ProcessPc, CheckPc

\* The phases and their units.
LEMMA PhaseUnits ==
    /\ Phase = {"d1", "lark"}
    /\ Units["d1"] = D1Units /\ Units["lark"] = LarkUnits
    /\ \A f \in Phase : Units[f] \in Nat \ {0}
  BY DEF Phase, Units

\* What the set of units has in it.
LEMMA UnitMember ==
    /\ \A f \in Phase, k \in Nat : k \in 1..Units[f] => <<f, k>> \in Unit
    /\ \A u \in Unit : \E f \in Phase : \E k \in 1..Units[f] : u = <<f, k>>
<1>1. ASSUME NEW f \in Phase, NEW k \in Nat, k \in 1..Units[f]
      PROVE  <<f, k>> \in Unit
  <2>1. <<f, k>> \in {f} \X (1..Units[f])
    BY <1>1
  <2> QED BY <2>1 DEF Unit
<1>2. ASSUME NEW u \in Unit
      PROVE  \E f \in Phase : \E k \in 1..Units[f] : u = <<f, k>>
  <2>1. PICK f \in Phase : u \in {f} \X (1..Units[f])
    BY <1>2 DEF Unit
  <2>2. PICK k \in 1..Units[f] : u = <<f, k>>
    BY <2>1
  <2> QED BY <2>2
<1> QED BY <1>1, <1>2

\* Both phases to their end are all units.
LEMMA AllWritten ==
  ASSUME written \subseteq Unit, Backed("d1", D1Units), Backed("lark", LarkUnits)
  PROVE  written = Unit
<1>1. ASSUME NEW u \in Unit PROVE u \in written
  <2>1. PICK f \in Phase : \E k \in 1..Units[f] : u = <<f, k>>
    BY UnitMember
  <2>2. PICK k \in 1..Units[f] : u = <<f, k>>
    BY <2>1
  <2>3. CASE f = "d1"
    BY <2>2, <2>3, PhaseUnits DEF Backed
  <2>4. CASE f = "lark"
    BY <2>2, <2>4, PhaseUnits DEF Backed
  <2> QED BY <2>3, <2>4, PhaseUnits
<1> QED BY <1>1

\* Init is a state of the invariant.
LEMMA InvInit == Init => IInv
<1> SUFFICES ASSUME Init PROVE IInv
  OBVIOUS
<1>1. TypeOK
  <2>1. saved \in [Phase -> Nat] /\ \A f \in Phase : saved[f] <= Units[f]
    BY PhaseUnits DEF Init, NoUnits
  <2>2. my \in [Worker -> My]
    BY PhaseUnits DEF Init, My, Fresh, Status
  <2>3. pc \in [Poster \cup Worker -> PostPc \cup WorkPc]
    BY Points DEF Init
  <2> QED BY <2>1, <2>2, <2>3 DEF Init, TypeOK, Run, Status, Life
<1>2. Counts
  BY FS_EmptySet DEF Init, Counts
<1>3. Begun
  BY DEF Init, Begun, EarlyPost
<1>4. Progress
  BY PhaseUnits DEF Init, Progress, Backed, NoUnits
<1>5. \A w \in Worker : Local(w)
  BY DEF Init, Local, Fresh, UnitPc, EndPc
<1> QED BY <1>1, <1>2, <1>3, <1>4, <1>5 DEF IInv

(***************************************************************************)
(* Types.                                                                  *)
(***************************************************************************)

\* A step of a request or a consumer to another point of the program.
LEMMA PcType ==
  ASSUME TypeOK, NEW i \in Poster \cup Worker, NEW q \in PostPc \cup WorkPc, Goto(i, q)
  PROVE  pc' \in [Poster \cup Worker -> PostPc \cup WorkPc]
  BY DEF TypeOK, Goto

\* Types are kept by requests and operators.
LEMMA PostTypes ==
  ASSUME IInv, NEW p \in Poster, Post(p) \/ Redrive(p) \/ SendFails(p) \/ PostFails(p)
  PROVE  TypeOK'
<1> USE PcType, Points DEF Run, Status, Life, Phase
<1>0. TypeOK
  BY DEF IInv
<1>1. ASSUME NEW c \in Chunk, Receive(p, c) PROVE TypeOK'
  BY <1>0, <1>1 DEF Receive, CleanedUp, Expires, TypeOK, workVars
<1>2. ASSUME NEW c \in Chunk, StageChunk(p, c) PROVE TypeOK'
  BY <1>0, <1>2 DEF StageChunk, Open, Counted, TypeOK, workVars, envVars
<1>3. CASE Validate(p)
  BY <1>0, <1>3 DEF Validate, TypeOK, workVars, envVars
<1>4. CASE Reserve(p)
  BY <1>0, <1>4 DEF Reserve, TypeOK, runVars, workVars, envVars
<1>5. CASE Reserved(p)
  BY <1>0, <1>5 DEF Reserved, TypeOK, runVars, workVars, envVars
<1>6. CASE MarkSendPending(p)
  BY <1>0, <1>6 DEF MarkSendPending, TypeOK, runVars, workVars, envVars
<1>7. CASE IsPending(p)
  BY <1>0, <1>7 DEF IsPending, TypeOK, runVars, workVars, envVars
<1>8. CASE Send(p)
  BY <1>0, <1>8 DEF Send, TypeOK, runVars, workVars, envVars
<1>9. CASE MarkSendFailed(p)
  BY <1>0, <1>9 DEF MarkSendFailed, Failed, TypeOK, runVars, workVars, envVars
<1>10. CASE MarkQueued(p)
  BY <1>0, <1>10 DEF MarkQueued, Queued, TypeOK, runVars, workVars, envVars
<1>11. CASE Prepare(p)
  BY <1>0, <1>11 DEF Prepare, TypeOK, runVars
<1>12. CASE Redriven(p)
  BY <1>0, <1>12 DEF Redriven, Queued, TypeOK, runVars, workVars, envVars
<1>13. CASE SendFails(p)
  BY <1>0, <1>13 DEF SendFails, Disturb, TypeOK, runVars, workVars
<1>14. CASE PostFails(p)
  BY <1>0, <1>14 DEF PostFails, Disturb, TypeOK, runVars, workVars
<1> QED BY <1>1, <1>2, <1>3, <1>4, <1>5, <1>6, <1>7, <1>8, <1>9, <1>10, <1>11,
           <1>12, <1>13, <1>14 DEF Post, Redrive

\* What a consumer has read, when nothing of it changes but one field.
LEMMA MyTypes ==
  ASSUME TypeOK, NEW w \in Worker
  PROVE  /\ [my EXCEPT ![w].admission = status] \in [Worker -> My]
         /\ [my EXCEPT ![w].phase = "lark"] \in [Worker -> My]
         /\ [my EXCEPT ![w].next = saved[my[w].phase] + 1] \in [Worker -> My]
         /\ [my EXCEPT ![w] = Fresh] \in [Worker -> My]
         /\ my[w].phase \in Phase
<1>1. my[w] \in My /\ status \in Status /\ "lark" \in Phase /\ Fresh \in My
  BY DEF TypeOK, Phase, Fresh, My, Status
<1>2. my[w].phase \in Phase
  BY <1>1 DEF My
<1>3. saved[my[w].phase] + 1 \in Nat
  BY <1>2 DEF TypeOK
<1>4. /\ [my[w] EXCEPT !.admission = status] \in My
      /\ [my[w] EXCEPT !.phase = "lark"] \in My
      /\ [my[w] EXCEPT !.next = saved[my[w].phase] + 1] \in My
  BY <1>1, <1>3 DEF My
<1>5. my \in [Worker -> My]
  BY DEF TypeOK
<1> QED BY <1>1, <1>2, <1>4, <1>5

\* Types are kept by consumers.
LEMMA WorkTypes ==
  ASSUME IInv, NEW w \in Worker,
         Deliver(w) \/ Step(w) \/ WorkFails(w) \/ Crash(w) \/ LoseLease(w)
  PROVE  TypeOK'
<1> USE PcType, Points DEF Run, Status, Life
<1>0. TypeOK
  BY DEF IInv
<1>1. CASE Deliver(w)
  BY <1>0, <1>1 DEF Deliver, TypeOK, runVars, workVars, envVars
<1>2. CASE Receipt(w)
  BY <1>0, <1>2 DEF Receipt, TypeOK, runVars, workVars, envVars
<1>3. CASE ConfirmReceipt(w)
  BY <1>0, <1>3 DEF ConfirmReceipt, Queued, TypeOK, runVars, workVars, envVars
<1>4. CASE Confirmed(w)
  BY <1>0, <1>4 DEF Confirmed, TypeOK, runVars, workVars, envVars
<1>5. CASE Acquire(w)
  BY <1>0, <1>5 DEF Acquire, TypeOK, runVars, workVars, envVars
<1>6. CASE Busy(w)
  BY <1>0, <1>6 DEF Busy, TypeOK, runVars, workVars, envVars
<1>7. CASE ReadAdmission(w)
  <2>1. my' \in [Worker -> My]
    BY <1>0, <1>7, MyTypes DEF ReadAdmission
  <2>2. pc' \in [Poster \cup Worker -> PostPc \cup WorkPc]
    BY <1>0, <1>7 DEF ReadAdmission
  <2> QED BY <1>0, <1>7, <2>1, <2>2 DEF ReadAdmission, TypeOK, runVars, workVars, envVars
<1>8. CASE Check(w)
  BY <1>0, <1>8 DEF Check, Behind, TypeOK, runVars, workVars, envVars
<1>9. CASE CheckFails(w)
  BY <1>0, <1>9 DEF CheckFails, TypeOK, runVars, workVars, envVars
<1>10. CASE Claim(w)
  BY <1>0, <1>10 DEF Claim, TypeOK, runVars, workVars, envVars
<1>11. CASE Claimed(w)
  <2>1. my' \in [Worker -> My]
    BY <1>0, <1>11, MyTypes DEF Claimed, TypeOK
  <2>2. pc' \in [Poster \cup Worker -> PostPc \cup WorkPc]
    BY <1>0, <1>11 DEF Claimed, TypeOK
  <2> QED BY <1>0, <1>11, <2>1, <2>2 DEF Claimed, TypeOK, runVars, workVars, envVars
<1>12. CASE LoadRun(w)
  BY <1>0, <1>12 DEF LoadRun, TypeOK, runVars, workVars, envVars
<1>13. CASE Begin(w)
  BY <1>0, <1>13 DEF Begin, TypeOK, runVars, envVars
<1>14. CASE LoadPhase(w)
  <2>1. my' \in [Worker -> My]
    BY <1>0, <1>14, MyTypes DEF LoadPhase, AfterPhase, TypeOK
  <2>2. pc' \in [Poster \cup Worker -> PostPc \cup WorkPc]
    BY <1>0, <1>14 DEF LoadPhase, AfterPhase, TypeOK
  <2> QED BY <1>0, <1>14, <2>1, <2>2 DEF LoadPhase, TypeOK, runVars, workVars, envVars
<1>15. CASE WriteUnit(w)
  <2>1. my[w].next \in 1..Units[my[w].phase] /\ my[w].phase \in Phase
    BY <1>0, <1>15, MyTypes DEF WriteUnit, IInv, Local, UnitPc, At
  <2>2. my[w].next \in Nat
    BY <1>0, <2>1, PhaseUnits
  <2>3. <<my[w].phase, my[w].next>> \in Unit
    BY <2>1, <2>2, UnitMember
  <2> QED BY <1>0, <1>15, <2>3 DEF WriteUnit, TypeOK, runVars, envVars
<1>16. CASE SaveUnit(w)
  <2>1. my[w].next \in 1..Units[my[w].phase] /\ my[w].phase \in Phase
    BY <1>0, <1>16, MyTypes DEF SaveUnit, IInv, Local, UnitPc, At
  <2>2. /\ saved' \in [Phase -> Nat]
        /\ \A f \in Phase : saved'[f] <= Units[f]
    BY <1>0, <1>16, <2>1, PhaseUnits DEF SaveUnit, LastUnit, TypeOK
  <2>3. my' \in [Worker -> My]
    BY <1>0, <1>16, MyTypes DEF SaveUnit, AfterPhase, TypeOK
  <2>4. pc' \in [Poster \cup Worker -> PostPc \cup WorkPc]
    BY <1>0, <1>16 DEF SaveUnit, AfterPhase
  <2> QED BY <1>0, <1>16, <2>2, <2>3, <2>4 DEF SaveUnit, TypeOK, runVars, envVars
<1>17. CASE Continue(w)
  BY <1>0, <1>17 DEF Continue, Continued, TypeOK, runVars, workVars, envVars
<1>18. CASE CompleteWork(w)
  BY <1>0, <1>18, PhaseUnits DEF CompleteWork, NoUnits, TypeOK, runVars, envVars
<1>19. CASE MarkCompleted(w)
  BY <1>0, <1>19 DEF MarkCompleted, TypeOK, workVars, envVars
<1>20. CASE IsCompleted(w)
  BY <1>0, <1>20 DEF IsCompleted, TypeOK, runVars, workVars, envVars
<1>21. CASE Leave(w)
  BY <1>0, <1>21, MyTypes DEF Leave, LetGo, TypeOK, runVars, workVars, envVars
<1>22. CASE Retry(w)
  <2>1. my' \in [Worker -> My]
    BY <1>0, <1>22, MyTypes DEF Retry, LetGo
  <2>2. pc' \in [Poster \cup Worker -> PostPc \cup WorkPc]
    BY <1>0, <1>22 DEF Retry, LetGo
  <2> QED BY <1>0, <1>22, <2>1, <2>2 DEF Retry, LetGo, TypeOK, runVars, workVars, envVars
<1>23. CASE KeepError(w)
  BY <1>0, <1>23 DEF KeepError, Failed, TypeOK, runVars, workVars, envVars
<1>24. CASE Abandon(w)
  <2>1. my' \in [Worker -> My]
    BY <1>0, <1>24, MyTypes DEF Abandon, LetGo
  <2>2. pc' \in [Poster \cup Worker -> PostPc \cup WorkPc]
    BY <1>0, <1>24 DEF Abandon, LetGo
  <2> QED BY <1>0, <1>24, <2>1, <2>2 DEF Abandon, Ended, LetGo, TypeOK, runVars, envVars
<1>25. CASE LeaseExpires(w)
  BY <1>0, <1>25 DEF LeaseExpires, TypeOK, runVars, workVars, envVars
<1>26. CASE WorkFails(w)
  BY <1>0, <1>26 DEF WorkFails, Disturb, TypeOK, runVars, workVars
<1>27. CASE Crash(w)
  <2>1. my' \in [Worker -> My]
    BY <1>0, <1>27, MyTypes DEF Crash
  <2>2. pc' \in [Poster \cup Worker -> PostPc \cup WorkPc]
    BY <1>0, <1>27 DEF Crash
  <2> QED BY <1>0, <1>27, <2>1, <2>2 DEF Crash, Disturb, TypeOK, runVars, workVars
<1>28. CASE LoseLease(w)
  BY <1>0, <1>28 DEF LoseLease, Disturb, TypeOK, runVars, workVars
<1> QED BY <1>1, <1>2, <1>3, <1>4, <1>5, <1>6, <1>7, <1>8, <1>9, <1>10, <1>11,
           <1>12, <1>13, <1>14, <1>15, <1>16, <1>17, <1>18, <1>19, <1>20, <1>21,
           <1>22, <1>23, <1>24, <1>25, <1>26, <1>27, <1>28
        DEF Step, Admit, Process, Finish

\* Types are kept by the rest of the world.
LEMMA WorldTypes ==
  ASSUME IInv, Cleanup \/ Exhausted \/ DeliverTwice \/ Overtake \/ Close
  PROVE  TypeOK'
<1> USE DEF IInv, TypeOK, runVars, workVars, envVars
<1>1. CASE Cleanup
  BY <1>1 DEF Cleanup, CleanedUp, Expires, Run
<1>2. CASE Exhausted
  BY <1>2 DEF Exhausted, Ended, Disturb, Life
<1>3. CASE DeliverTwice
  BY <1>3 DEF DeliverTwice, Disturb
<1>4. CASE Overtake
  BY <1>4 DEF Overtake
<1>5. CASE Close
  BY <1>5 DEF Close
<1> QED BY <1>1, <1>2, <1>3, <1>4, <1>5

(***************************************************************************)
(* The chunks, their count and the admission.                              *)
(***************************************************************************)

\* A run that is admissible has every chunk, since it counts each once.
LEMMA WholeChunks ==
  ASSUME IInv
  PROVE  received >= Whole => chunks = Chunk
<1>1. IsFiniteSet(chunks) /\ Cardinality(chunks) <= Cardinality(Chunk)
      /\ (Cardinality(Chunk) = Cardinality(chunks) => Chunk = chunks)
  BY FS_Subset, ChunkAssumption DEF IInv, TypeOK
<1>2. Cardinality(chunks) \in Nat /\ Cardinality(Chunk) \in Nat
  BY <1>1, FS_CardinalityType, ChunkAssumption
<1> QED BY <1>1, <1>2 DEF IInv, Counts, Whole

\* What a request that is past the admission leaves alone.
LEMMA Admitted ==
  ASSUME IInv, NEW i \in Poster \cup Worker,
         i \in Worker => pc[i] # "idle", i \in Poster => pc[i] \notin EarlyPost
  PROVE  status # "none"
  BY DEF IInv, Begun

\* A step after the admission that leaves the run alone.
LEMMA SameCounts ==
  ASSUME IInv, run' = run, chunks' = chunks, received' = received,
         status # "none", status' # "none"
  PROVE  Counts' /\ Begun'
  BY DEF IInv, Counts, Begun

\* A request's step before the admission.
LEMMA EarlyCounts ==
  ASSUME IInv, NEW p \in Poster, NEW q \in EarlyPost, Goto(p, q),
         Counts', status' = status, queue' = queue, dead' = dead
  PROVE  Begun'
  BY DEF IInv, TypeOK, Begun, Goto

\* Chunks, count and admission, by requests and operators.
LEMMA PostCounts ==
  ASSUME IInv, NEW p \in Poster, Post(p) \/ Redrive(p) \/ SendFails(p) \/ PostFails(p)
  PROVE  Counts' /\ Begun'
<1> USE DEF EarlyPost, At
<1>1. ASSUME NEW c \in Chunk, Receive(p, c) PROVE Counts' /\ Begun'
  <2>1. Counts'
    BY <1>1 DEF Receive, CleanedUp, IInv, Counts
  <2> QED BY <1>1, <2>1, EarlyCounts DEF Receive
<1>2. ASSUME NEW c \in Chunk, StageChunk(p, c) PROVE Counts' /\ Begun'
  <2>1. IsFiniteSet(chunks)
    BY FS_Subset, ChunkAssumption DEF IInv, TypeOK
  <2>2. Cardinality(chunks \cup {c})
          = IF c \in chunks THEN Cardinality(chunks) ELSE Cardinality(chunks) + 1
    BY <2>1, FS_AddElement
  <2>3. received' = Cardinality(chunks')
    <3>1. CASE Open /\ c \notin chunks
      BY <1>2, <2>2, <3>1 DEF StageChunk, Counted, IInv, Counts
    <3>2. CASE Open /\ c \in chunks
      <4>1. chunks \cup {c} = chunks
        BY <3>2
      <4> QED BY <1>2, <3>2, <4>1 DEF StageChunk, Counted, IInv, Counts
    <3>3. CASE ~Open
      BY <1>2, <3>3 DEF StageChunk, Counted, IInv, Counts
    <3> QED BY <3>1, <3>2, <3>3
  <2>4. status # "none" => chunks' = Chunk
    <3>1. c \in Chunk /\ (status # "none" => chunks = Chunk)
      BY <1>2 DEF IInv, Counts
    <3>2. chunks' = chunks \cup {c} \/ chunks' = chunks
      BY <1>2 DEF StageChunk
    <3> QED BY <3>1, <3>2
  <2>5. Counts'
    BY <1>2, <2>3, <2>4 DEF StageChunk, IInv, Counts
  <2> QED BY <1>2, <2>5, EarlyCounts DEF StageChunk
<1>3. CASE Validate(p)
  <2>1. run' = run
    BY <1>3, WholeChunks DEF Validate
  <2>2. Counts'
    BY <1>3, <2>1 DEF Validate, IInv, Counts
  <2> QED BY <1>3, <2>2, EarlyCounts DEF Validate
<1>4. CASE Reserve(p)
  <2>1. Counts'
    <3>1. status = "none" /\ Admissible => chunks = Chunk
      BY WholeChunks DEF Admissible, IInv, TypeOK, Whole
    <3> QED BY <1>4, <3>1 DEF Reserve, runVars, IInv, Counts
  <2>2. CASE status' = status
    BY <1>4, <2>1, <2>2, EarlyCounts DEF Reserve
  <2>3. CASE status' = "live_validated"
    BY <2>1, <2>3 DEF Begun
  <2> QED BY <1>4, <2>1, <2>2, <2>3 DEF Reserve
<1>5. CASE Reserved(p)
  <2>1. Counts'
    BY <1>5 DEF Reserved, runVars, IInv, Counts
  <2>2. CASE status = "none"
    BY <1>5, <2>1, <2>2, EarlyCounts DEF Reserved
  <2>3. CASE status # "none"
    BY <1>5, <2>1, <2>3 DEF Reserved, Begun
  <2> QED BY <2>1, <2>2, <2>3
<1>6. CASE MarkSendPending(p)
  BY <1>6, Admitted, SameCounts DEF MarkSendPending, runVars
<1>7. CASE IsPending(p)
  BY <1>7, Admitted, SameCounts DEF IsPending, runVars
<1>8. CASE Send(p)
  BY <1>8, Admitted, SameCounts DEF Send, runVars
<1>9. CASE MarkSendFailed(p)
  BY <1>9, Admitted, SameCounts DEF MarkSendFailed, Failed, runVars
<1>10. CASE MarkQueued(p)
  BY <1>10, Admitted, SameCounts DEF MarkQueued, Queued, runVars
<1>11. CASE Prepare(p)
  <2>1. status # "none" /\ status' # "none"
    BY <1>11 DEF Prepare, IInv, Begun, TypeOK
  <2> QED BY <1>11, <2>1, SameCounts DEF Prepare, runVars
<1>12. CASE Redriven(p)
  BY <1>12, Admitted, SameCounts DEF Redriven, Queued, runVars
<1>13. CASE SendFails(p)
  BY <1>13, Admitted, SameCounts DEF SendFails, runVars
<1>14. CASE PostFails(p)
  <2>1. Counts'
    BY <1>14 DEF PostFails, runVars, IInv, Counts
  <2> QED BY <1>14, <2>1, EarlyCounts DEF PostFails
<1> QED BY <1>1, <1>2, <1>3, <1>4, <1>5, <1>6, <1>7, <1>8, <1>9, <1>10, <1>11,
           <1>12, <1>13, <1>14 DEF Post, Redrive

\* A consumer that has a message finds an admission, and never unmakes it.
LEMMA WorkCounts ==
  ASSUME IInv, NEW w \in Worker,
         Deliver(w) \/ Step(w) \/ WorkFails(w) \/ Crash(w) \/ LoseLease(w)
  PROVE  Counts' /\ Begun'
<1> USE DEF At
<1>1. CASE LeaseExpires(w)
  BY <1>1 DEF LeaseExpires, runVars, IInv, Counts, Begun
<1>2. CASE Deliver(w)
  <2>1. status # "none"
    BY <1>2 DEF Deliver, IInv, Begun
  <2> QED BY <1>2, <2>1, SameCounts DEF Deliver, runVars
<1>3. CASE ~Deliver(w) /\ ~LeaseExpires(w)
  <2>1. pc[w] # "idle"
    BY <1>3 DEF Step, Admit, Process, Finish, Receipt, ConfirmReceipt, Confirmed,
       Acquire, Busy, ReadAdmission, Check, CheckFails, Claim, Claimed, LoadRun,
       Begin, LoadPhase, WriteUnit, SaveUnit, Continue, CompleteWork, MarkCompleted,
       IsCompleted, Leave, Retry, KeepError, Abandon, WorkFails, Crash, LoseLease,
       CheckPc, ProcessPc
  <2>2. status # "none"
    BY <2>1, Admitted
  <2>3. run' = run /\ chunks' = chunks /\ received' = received
    BY <1>3 DEF Step, Admit, Process, Finish, Receipt, ConfirmReceipt, Confirmed,
       Acquire, Busy, ReadAdmission, Check, CheckFails, Claim, Claimed, LoadRun,
       Begin, LoadPhase, WriteUnit, SaveUnit, Continue, CompleteWork, MarkCompleted,
       IsCompleted, Leave, Retry, KeepError, Abandon, WorkFails, Crash, LoseLease,
       runVars
  <2>4. status' # "none"
    BY <1>3, <2>2 DEF Step, Admit, Process, Finish, Receipt, ConfirmReceipt,
       Confirmed, Acquire, Busy, ReadAdmission, Check, CheckFails, Claim, Claimed,
       LoadRun, Begin, LoadPhase, WriteUnit, SaveUnit, Continue, CompleteWork,
       MarkCompleted, IsCompleted, Leave, Retry, KeepError, Abandon, WorkFails,
       Crash, LoseLease, Failed, Queued
  <2> QED BY <2>2, <2>3, <2>4, SameCounts
<1> QED BY <1>1, <1>2, <1>3

\* Chunks, count and admission, by the rest of the world.
LEMMA WorldCounts ==
  ASSUME IInv, Cleanup \/ Exhausted \/ DeliverTwice \/ Overtake \/ Close
  PROVE  Counts' /\ Begun'
<1> USE DEF IInv, Counts, Begun, runVars
<1>1. CASE Cleanup
  BY <1>1 DEF Cleanup, CleanedUp
<1>2. CASE Exhausted
  BY <1>2 DEF Exhausted
<1>3. CASE DeliverTwice
  BY <1>3 DEF DeliverTwice
<1>4. CASE Overtake
  BY <1>4 DEF Overtake
<1>5. CASE Close
  BY <1>5 DEF Close
<1> QED BY <1>1, <1>2, <1>3, <1>4, <1>5

(***************************************************************************)
(* The units that are written, and what says that they are.                *)
(***************************************************************************)

Known == Progress /\ \A w \in Worker : Local(w)

\* Steps that neither write, nor save, nor complete anything.
Quiet ==
    /\ written' = written /\ saved' = saved
    /\ status' = "completed" => status = "completed"
    /\ life' = "completed" => life = "completed"
    /\ \A v \in Worker :
         \/ pc'[v] = pc[v] /\ my'[v] = my[v]
         \/ /\ pc'[v] \notin UnitPc \cup EndPc
            /\ my'[v].phase \in {my[v].phase, "d1"}

\* A step that touches nothing a consumer knows of.
LEMMA QuietKnown == IInv /\ Quiet => Known'
<1> SUFFICES ASSUME IInv, Quiet PROVE Known'
  OBVIOUS
<1>1. \A g, n : Backed(g, n)' <=> Backed(g, n)
  BY DEF Quiet, Backed
<1>2. Progress'
  BY <1>1 DEF IInv, Progress, Quiet
<1>3. ASSUME NEW v \in Worker PROVE Local(v)'
  <2>1. Local(v)
    BY DEF IInv
  <2>2. CASE pc'[v] = pc[v] /\ my'[v] = my[v]
    BY <1>1, <2>1, <2>2 DEF Local, Quiet
  <2>3. CASE /\ pc'[v] \notin UnitPc \cup EndPc
             /\ my'[v].phase \in {my[v].phase, "d1"}
    BY <1>1, <2>1, <2>3 DEF Local, UnitPc
  <2> QED BY <2>2, <2>3 DEF Quiet
<1> QED BY <1>2, <1>3 DEF Known

\* A request moves no consumer.
LEMMA PostKnown ==
  ASSUME IInv, NEW p \in Poster, Post(p) \/ Redrive(p) \/ SendFails(p) \/ PostFails(p)
  PROVE  Known'
<1>1. my' = my /\ saved' = saved /\ written' = written
  BY DEF Post, Redrive, Receive, StageChunk, Validate, Reserve, Reserved,
     MarkSendPending, IsPending, Send, SendFails, MarkSendFailed, MarkQueued, Prepare,
     Redriven, PostFails, workVars
<1>2. (status' = "completed" => status = "completed")
      /\ (life' = "completed" => life = "completed")
  BY DEF Post, Redrive, Receive, StageChunk, Validate, Reserve, Reserved,
     MarkSendPending, IsPending, Send, SendFails, MarkSendFailed, Failed, MarkQueued,
     Queued, Prepare, Redriven, PostFails, workVars
<1>3. pc' = pc \/ \E q : Goto(p, q)
  BY DEF Post, Redrive, Receive, StageChunk, Validate, Reserve, Reserved,
     MarkSendPending, IsPending, Send, SendFails, MarkSendFailed, MarkQueued, Prepare,
     Redriven, PostFails
<1>4. \A v \in Worker : pc'[v] = pc[v]
  BY <1>3 DEF IInv, TypeOK, Goto
<1> QED BY <1>1, <1>2, <1>4, QuietKnown DEF Quiet

\* What is known survives the rest of the world.
LEMMA WorldKnown ==
  ASSUME IInv, Cleanup \/ Exhausted \/ DeliverTwice \/ Overtake \/ Close
  PROVE  Known'
<1>1. Quiet
  BY DEF Quiet, Cleanup, Exhausted, Ended, DeliverTwice, Overtake, Close, workVars
<1> QED BY <1>1, QuietKnown

\* A consumer goes to a point where nothing is claimed of the units.
LEMMA MovesQuietly ==
  ASSUME IInv, NEW w \in Worker, NEW q, q \notin UnitPc \cup EndPc, Goto(w, q),
         written' = written, saved' = saved, status' = "completed" => status = "completed",
         life' = "completed" => life = "completed",
         \/ my' = my
         \/ my' = [my EXCEPT ![w] = Fresh]
         \/ my' = [my EXCEPT ![w].admission = status]
  PROVE  Known'
<1>1. /\ pc'[w] = q
      /\ \A v \in Worker : v # w => pc'[v] = pc[v]
  BY DEF IInv, TypeOK, Goto
<1>2. /\ my'[w].phase \in {my[w].phase, "d1"}
      /\ \A v \in Worker : v # w => my'[v] = my[v]
  <2>1. my \in [Worker -> My]
    BY DEF IInv, TypeOK
  <2>2. CASE my' = my
    BY <2>2
  <2>3. CASE my' = [my EXCEPT ![w] = Fresh]
    BY <2>1, <2>3 DEF Fresh
  <2>4. CASE my' = [my EXCEPT ![w].admission = status]
    BY <2>1, <2>4 DEF My
  <2> QED BY <2>2, <2>3, <2>4
<1> QED BY <1>1, <1>2, QuietKnown DEF Quiet

\* What is written stays written.
LEMMA Grows ==
  ASSUME IInv, written \subseteq written', written' \subseteq Unit
  PROVE  /\ \A g, n : Backed(g, n) => Backed(g, n)'
         /\ written = Unit => written' = Unit
         /\ \A v \in Worker : pc'[v] = pc[v] /\ my'[v] = my[v] => Local(v)'
<1>1. \A g, n : Backed(g, n) => Backed(g, n)'
  BY DEF Backed
<1>2. written = Unit => written' = Unit
  OBVIOUS
<1>3. ASSUME NEW v \in Worker, pc'[v] = pc[v], my'[v] = my[v] PROVE Local(v)'
  <2>1. Local(v)
    BY DEF IInv
  <2> QED BY <1>1, <1>2, <1>3, <2>1 DEF Local
<1> QED BY <1>1, <1>2, <1>3

\* The consumer that moves, and the others.
LEMMA Moves ==
  ASSUME IInv, NEW w \in Worker, NEW q, Goto(w, q)
  PROVE  pc'[w] = q /\ \A v \in Worker : v # w => pc'[v] = pc[v]
  BY DEF IInv, TypeOK, Goto

\* The step behind a lease check stands where the check stood.
LEMMA CheckKnown == ASSUME IInv, NEW w \in Worker, Check(w) PROVE Known'
<1>1. /\ pc'[w] = Behind(pc[w]) /\ pc[w] \in CheckPc
      /\ \A v \in Worker : v # w => pc'[v] = pc[v]
  BY Moves DEF Check
<1>2. my' = my /\ saved' = saved /\ written' = written /\ status' = status /\ life' = life
  BY DEF Check, workVars
<1>3. written \subseteq Unit
  BY DEF IInv, TypeOK
<1>4. \A g, n : Backed(g, n)' <=> Backed(g, n)
  BY <1>2 DEF Backed
<1>5. Progress'
  BY <1>2, <1>4 DEF IInv, Progress
<1>6. Local(w)'
  <2>1. Local(w)
    BY DEF IInv
  <2> QED BY <1>1, <1>2, <1>4, <2>1, Points DEF Behind, Local, UnitPc, EndPc
<1>7. ASSUME NEW v \in Worker, v # w PROVE Local(v)'
  BY <1>1, <1>2, <1>3, <1>7, Grows
<1> QED BY <1>5, <1>6, <1>7 DEF Known

\* beginWork finds a completed Work only when all was written.
LEMMA BeginKnown == ASSUME IInv, NEW w \in Worker, Begin(w) PROVE Known'
<1>1. my' = my /\ saved' = saved /\ written' = written /\ status' = status
  BY DEF Begin
<1>2. CASE life = "completed" /\ Goto(w, "markCompleted") /\ life' = life
  <2>1. written = Unit
    BY <1>2 DEF IInv, Progress
  <2>2. \A g, n : Backed(g, n)' <=> Backed(g, n)
    BY <1>1 DEF Backed
  <2>3. Progress'
    BY <1>1, <1>2, <2>2 DEF IInv, Progress
  <2>4. /\ pc'[w] = "markCompleted"
        /\ \A v \in Worker : v # w => pc'[v] = pc[v]
    BY <1>2, Moves
  <2>5. Local(w)'
    <3>1. Local(w)
      BY DEF IInv
    <3> QED BY <1>1, <2>1, <2>2, <2>4, <3>1 DEF Local, UnitPc
  <2>6. ASSUME NEW v \in Worker, v # w PROVE Local(v)'
    BY <1>1, <2>1, <2>4, <2>6, Grows
  <2> QED BY <2>3, <2>5, <2>6 DEF Known
<1>3. CASE (Goto(w, "leave") \/ Goto(w, "phase")) /\ life' # "completed"
  BY <1>1, <1>3, MovesQuietly DEF UnitPc, EndPc
<1>4. CASE Goto(w, "leave") /\ life' = life
  BY <1>1, <1>4, MovesQuietly DEF UnitPc, EndPc
<1> QED BY <1>2, <1>3, <1>4 DEF Begin

\* The end of a phase: D1 is whole before Lark begins, all is written at the end.
LEMMA AfterKnown ==
  ASSUME IInv, NEW w \in Worker, AfterPhase(w), written' = written,
         Backed(my[w].phase, Units[my[w].phase])
  PROVE  \A v \in Worker : Local(v)'
<1>1. my \in [Worker -> My] /\ my[w].phase \in Phase /\ written \subseteq Unit
  BY MyTypes DEF IInv, TypeOK
<1>2. \A g, n : Backed(g, n)' <=> Backed(g, n)
  BY DEF Backed
<1>3. CASE my[w].phase = "d1"
  <2>1. /\ pc'[w] = "phase"
        /\ \A v \in Worker : v # w => pc'[v] = pc[v] /\ my'[v] = my[v]
    BY <1>1, <1>3, Moves DEF AfterPhase
  <2>2. Backed("d1", D1Units)'
    BY <1>2, <1>3, PhaseUnits
  <2>3. Local(w)'
    BY <2>1, <2>2 DEF Local, UnitPc, EndPc
  <2> QED BY <1>1, <2>1, <2>3, Grows
<1>4. CASE my[w].phase = "lark"
  <2>1. /\ pc'[w] = "checkComplete" /\ my' = my
        /\ \A v \in Worker : v # w => pc'[v] = pc[v]
    BY <1>4, Moves DEF AfterPhase
  <2>2. Backed("d1", D1Units)
    BY <1>4 DEF IInv, Local
  <2>3. written = Unit
    BY <1>1, <1>4, <2>2, AllWritten, PhaseUnits
  <2>4. Local(w)'
    BY <1>2, <2>1, <2>2, <2>3 DEF Local, UnitPc, EndPc
  <2> QED BY <1>1, <2>1, <2>4, Grows
<1> QED BY <1>1, <1>3, <1>4, PhaseUnits

\* A phase goes on behind what its row says is written.
LEMMA LoadKnown == ASSUME IInv, NEW w \in Worker, LoadPhase(w) PROVE Known'
<1> DEFINE f == my[w].phase
<1>1. saved' = saved /\ written' = written /\ status' = status /\ life' = life
  BY DEF LoadPhase, workVars
<1>2. \A g, n : Backed(g, n)' <=> Backed(g, n)
  BY <1>1 DEF Backed
<1>3. Progress'
  BY <1>1, <1>2 DEF IInv, Progress
<1>4. /\ my \in [Worker -> My] /\ f \in Phase /\ written \subseteq Unit
      /\ saved[f] \in Nat /\ saved[f] <= Units[f] /\ Units[f] \in Nat
      /\ Backed(f, saved[f])
  BY MyTypes, PhaseUnits DEF IInv, TypeOK, Progress
<1>5. CASE PhaseDone(f)
  <2>1. Backed(f, Units[f]) /\ AfterPhase(w)
    BY <1>4, <1>5 DEF PhaseDone, LoadPhase
  <2>2. \A v \in Worker : Local(v)'
    BY <1>1, <2>1, AfterKnown
  <2> QED BY <1>3, <2>2 DEF Known
<1>6. CASE ~PhaseDone(f)
  <2>1. /\ my' = [my EXCEPT ![w].next = saved[f] + 1] /\ Goto(w, "checkWrite")
    BY <1>6 DEF LoadPhase
  <2>2. /\ pc'[w] = "checkWrite"
        /\ \A v \in Worker : v # w => pc'[v] = pc[v] /\ my'[v] = my[v]
        /\ my'[w].next = saved[f] + 1 /\ my'[w].phase = f
    BY <1>4, <2>1, Moves DEF My
  <2>3. saved[f] + 1 \in 1..Units[f] /\ (saved[f] + 1) - 1 = saved[f]
    BY <1>4, <1>6 DEF PhaseDone
  <2>4. Local(w)'
    <3>1. Local(w)
      BY DEF IInv
    <3> QED BY <1>2, <1>4, <2>2, <2>3, <3>1 DEF Local, EndPc
  <2>5. ASSUME NEW v \in Worker, v # w PROVE Local(v)'
    BY <1>1, <1>4, <2>2, <2>5, Grows
  <2> QED BY <1>3, <2>4, <2>5 DEF Known
<1> QED BY <1>5, <1>6

\* What a consumer knows of the unit it is at.
LEMMA AtUnit ==
  ASSUME IInv, NEW w \in Worker, pc[w] \in UnitPc
  PROVE  /\ my[w].phase \in Phase /\ my[w].next \in Nat
         /\ my[w].next \in 1..Units[my[w].phase]
         /\ Backed(my[w].phase, my[w].next - 1)
<1>1. my[w].phase \in Phase
  BY MyTypes DEF IInv
<1>2. my[w].next \in 1..Units[my[w].phase] /\ Backed(my[w].phase, my[w].next - 1)
  BY DEF IInv, Local
<1> QED BY <1>1, <1>2, PhaseUnits

\* A written unit stays written.
LEMMA WriteKnown == ASSUME IInv, NEW w \in Worker, WriteUnit(w) PROVE Known'
<1> DEFINE f == my[w].phase
           n == my[w].next
<1>1. /\ saved' = saved /\ status' = status /\ life' = life /\ my' = my
      /\ written' = written \cup {<<f, n>>} /\ pc[w] \in UnitPc
  BY DEF WriteUnit, UnitPc, At
<1>2. f \in Phase /\ n \in Nat /\ n \in 1..Units[f]
  BY <1>1, AtUnit
<1>3. written \subseteq written' /\ written' \subseteq Unit
  BY <1>1, <1>2, UnitMember DEF IInv, TypeOK
<1>4. /\ pc'[w] = "save"
      /\ \A v \in Worker : v # w => pc'[v] = pc[v]
  BY Moves DEF WriteUnit
<1>5. Progress'
  <2>1. \A k \in 1..LarkUnits : <<"lark", k>> \in written' => Backed("d1", D1Units)'
    <3> SUFFICES ASSUME NEW k \in 1..LarkUnits, <<"lark", k>> \in written'
                 PROVE  Backed("d1", D1Units)'
      OBVIOUS
    <3>1. CASE <<"lark", k>> \in written
      BY <1>3, <3>1, Grows DEF IInv, Progress
    <3>2. CASE f = "lark"
      BY <1>3, <3>2, Grows DEF IInv, Local
    <3> QED BY <1>1, <3>1, <3>2
  <2> QED BY <1>1, <1>3, <2>1, Grows DEF IInv, Progress
<1>6. Local(w)'
  <2>1. Local(w) /\ <<f, n>> \in written'
    BY <1>1 DEF IInv
  <2> QED BY <1>1, <1>3, <1>4, <2>1, Grows DEF Local, EndPc
<1>7. ASSUME NEW v \in Worker, v # w PROVE Local(v)'
  BY <1>1, <1>3, <1>4, <1>7, Grows
<1> QED BY <1>5, <1>6, <1>7 DEF Known

\* savePhase keeps no more than was written, however late it comes.
LEMMA SaveKnown == ASSUME IInv, NEW w \in Worker, SaveUnit(w) PROVE Known'
<1> DEFINE f == my[w].phase
           n == my[w].next
<1>1. /\ status' = status /\ life' = life /\ written' = written
      /\ pc[w] \in UnitPc /\ pc[w] = "save"
  BY DEF SaveUnit, UnitPc, At
<1>2. f \in Phase /\ n \in Nat /\ n \in 1..Units[f] /\ Backed(f, n - 1)
  BY <1>1, AtUnit
<1>3. Backed(f, n)
  <2>1. <<f, n>> \in written
    BY <1>1 DEF IInv, Local
  <2>2. \A j \in 1..n : j = n \/ j \in 1..(n - 1)
    BY <1>2
  <2> QED BY <1>2, <2>1, <2>2 DEF Backed
<1>4. saved' = [saved EXCEPT ![f] = n]
  BY DEF SaveUnit, LastUnit
<1>5. \A g, k : Backed(g, k)' <=> Backed(g, k)
  BY <1>1 DEF Backed
<1>6. Progress'
  <2>1. ASSUME NEW g \in Phase PROVE Backed(g, saved[g])'
    <3>1. saved \in [Phase -> Nat] /\ Backed(g, saved[g])
      BY DEF IInv, TypeOK, Progress
    <3>2. Backed(g, saved'[g])
      BY <1>2, <1>3, <1>4, <3>1
    <3> QED BY <1>1, <3>2 DEF Backed
  <2> QED BY <1>1, <1>5, <2>1 DEF IInv, Progress
<1>7. CASE LastUnit(f, n)
  <2>1. AfterPhase(w) /\ Backed(f, Units[f])
    BY <1>3, <1>7 DEF SaveUnit, LastUnit
  <2> QED BY <1>1, <1>6, <2>1, AfterKnown DEF Known
<1>8. CASE ~LastUnit(f, n)
  <2>1. /\ pc'[w] = "continue" /\ my' = my
        /\ \A v \in Worker : v # w => pc'[v] = pc[v]
    BY <1>8, Moves DEF SaveUnit
  <2>2. Local(w)'
    <3>1. Local(w)
      BY DEF IInv
    <3> QED BY <1>5, <2>1, <3>1 DEF Local, UnitPc, EndPc
  <2>3. ASSUME NEW v \in Worker, v # w PROVE Local(v)'
    BY <1>1, <2>1, <2>3, Grows DEF IInv, TypeOK
  <2> QED BY <1>6, <2>2, <2>3 DEF Known
<1> QED BY <1>7, <1>8

\* Completion, of the Work and of the admission.
LEMMA EndKnown ==
  ASSUME IInv, NEW w \in Worker, CompleteWork(w) \/ MarkCompleted(w) PROVE Known'
<1>1. written' = written /\ my' = my /\ pc[w] \in EndPc
  BY DEF CompleteWork, MarkCompleted, workVars, EndPc, At
<1>2. written = Unit
  BY <1>1 DEF IInv, Local
<1>3. \A g, n : Backed(g, n)' <=> Backed(g, n)
  BY <1>1 DEF Backed
<1>4. \A g \in Phase : Backed(g, saved[g])'
  <2>1. saved' = saved \/ saved' = NoUnits
    BY DEF CompleteWork, MarkCompleted, workVars
  <2>2. \A g \in Phase : Backed(g, NoUnits[g])
    BY PhaseUnits DEF Backed, NoUnits
  <2>3. ASSUME NEW g \in Phase PROVE Backed(g, saved'[g])
    BY <2>1, <2>2 DEF IInv, Progress
  <2> QED BY <1>1, <2>3 DEF Backed
<1>5. Progress'
  BY <1>1, <1>2, <1>3, <1>4 DEF IInv, Progress
<1>6. /\ pc'[w] \in EndPc
      /\ \A v \in Worker : v # w => pc'[v] = pc[v]
  BY Moves DEF CompleteWork, MarkCompleted, EndPc
<1>7. Local(w)'
  <2>1. Local(w)
    BY DEF IInv
  <2> QED BY <1>1, <1>2, <1>3, <1>6, <2>1 DEF Local, UnitPc, EndPc
<1>8. ASSUME NEW v \in Worker, v # w PROVE Local(v)'
  BY <1>1, <1>2, <1>6, <1>8, Grows
<1> QED BY <1>5, <1>7, <1>8 DEF Known

\* What is known survives every step of a consumer.
LEMMA WorkKnown ==
  ASSUME IInv, NEW w \in Worker,
         Deliver(w) \/ Step(w) \/ WorkFails(w) \/ Crash(w) \/ LoseLease(w)
  PROVE  Known'
<1> USE DEF UnitPc, EndPc
<1>1. CASE Deliver(w)
  BY <1>1, MovesQuietly DEF Deliver, workVars
<1>2. CASE Receipt(w)
  BY <1>2, MovesQuietly DEF Receipt, workVars
<1>3. CASE ConfirmReceipt(w)
  BY <1>3, MovesQuietly DEF ConfirmReceipt, Queued, workVars
<1>4. CASE Confirmed(w)
  BY <1>4, MovesQuietly DEF Confirmed, workVars
<1>5. CASE Acquire(w)
  BY <1>5, MovesQuietly DEF Acquire, workVars
<1>6. CASE Busy(w)
  BY <1>6, MovesQuietly DEF Busy, workVars
<1>7. CASE ReadAdmission(w)
  BY <1>7, MovesQuietly DEF ReadAdmission, workVars
<1>8. CASE CheckFails(w)
  BY <1>8, MovesQuietly DEF CheckFails, workVars
<1>9. CASE Claim(w)
  BY <1>9, MovesQuietly DEF Claim, workVars
<1>10. CASE Claimed(w)
  BY <1>10, MovesQuietly DEF Claimed, workVars
<1>11. CASE LoadRun(w)
  BY <1>11, MovesQuietly DEF LoadRun, workVars
<1>12. CASE Continue(w)
  BY <1>12, MovesQuietly DEF Continue, workVars
<1>13. CASE IsCompleted(w)
  BY <1>13, MovesQuietly DEF IsCompleted, workVars
<1>14. CASE Leave(w)
  BY <1>14, MovesQuietly DEF Leave, LetGo, workVars
<1>15. CASE Retry(w)
  BY <1>15, MovesQuietly DEF Retry, LetGo, workVars
<1>16. CASE KeepError(w)
  BY <1>16, MovesQuietly DEF KeepError, Failed, workVars
<1>17. CASE Abandon(w)
  BY <1>17, MovesQuietly DEF Abandon, Ended, LetGo, workVars
<1>18. CASE WorkFails(w)
  BY <1>18, MovesQuietly DEF WorkFails, workVars
<1>19. CASE Crash(w)
  BY <1>19, MovesQuietly DEF Crash, workVars
<1>20. CASE LeaseExpires(w) \/ LoseLease(w)
  BY <1>20, QuietKnown DEF LeaseExpires, LoseLease, workVars, Quiet
<1>21. CASE Check(w)
  BY <1>21, CheckKnown
<1>22. CASE Begin(w)
  BY <1>22, BeginKnown
<1>23. CASE LoadPhase(w)
  BY <1>23, LoadKnown
<1>24. CASE WriteUnit(w)
  BY <1>24, WriteKnown
<1>25. CASE SaveUnit(w)
  BY <1>25, SaveKnown
<1>26. CASE CompleteWork(w)
  BY <1>26, EndKnown
<1>27. CASE MarkCompleted(w)
  BY <1>27, EndKnown
<1> QED BY <1>1, <1>2, <1>3, <1>4, <1>5, <1>6, <1>7, <1>8, <1>9, <1>10,
           <1>11, <1>12, <1>13, <1>14, <1>15, <1>16, <1>17, <1>18, <1>19,
           <1>20, <1>21, <1>22, <1>23, <1>24, <1>25, <1>26, <1>27
        DEF Step, Admit, Process, Finish

(***************************************************************************)
(* What an active Work has to carry it on.                                 *)
(***************************************************************************)

\* A consumer whose message comes back, goes on as a continuation or ends the
\* Work.  One that leaves, or that has completed a Work, owes it nothing.
Bearing(w) == pc[w] \notin {"idle", "leave", "markCompleted", "isCompleted"}

\* An active Work has a message or a consumer that bears one.  A dead letter
\* will do for one that has been redriven, until the redrive has sent.  Before
\* the redrive it must not, as the redrive may close it.
Carried ==
    redrives < 2 /\ life = "active" /\ status # "completed" =>
        \/ queue > 0
        \/ \E w \in Worker : Bearing(w)
        \/ redrives = 1 /\ dead > 0 /\ \A p \in Poster : ~At(p, "remark")

\* Nobody resends before the first redrive.
NoResend == redrives = 0 => \A p \in Poster : pc[p] \notin {"resend", "remark"}

CarryInv == NoResend /\ Carried

\* What is completed stays completed, whatever a request or a consumer does.
LEMMA CompletedStays ==
  ASSUME [Next]_vars, status = "completed"
  PROVE  status' = "completed"
<1>1. ASSUME NEW p \in Poster, Post(p) PROVE status' = "completed"
  BY <1>1 DEF Post, Receive, StageChunk, Validate, Reserve, Reserved,
       MarkSendPending, IsPending, Send, MarkSendFailed, MarkQueued, Failed, Queued
<1>2. ASSUME NEW p \in Poster, Redrive(p) \/ SendFails(p) \/ PostFails(p)
      PROVE  status' = "completed"
  BY <1>2 DEF Redrive, Prepare, Redriven, SendFails, PostFails, Queued
<1>3. ASSUME NEW w \in Worker, Admit(w) \/ Finish(w) PROVE status' = "completed"
  BY <1>3 DEF Admit, Receipt, ConfirmReceipt, Confirmed, Acquire, Busy, ReadAdmission,
       Claim, Claimed, Finish, Leave, Retry, KeepError, Abandon, LeaseExpires,
       Failed, Queued
<1>4. ASSUME NEW w \in Worker, Process(w) PROVE status' = "completed"
  BY <1>4 DEF Process, Check, CheckFails, LoadRun, Begin, LoadPhase, WriteUnit,
       SaveUnit, Continue, CompleteWork, MarkCompleted, IsCompleted
<1>5. ASSUME NEW w \in Worker, Deliver(w) \/ WorkFails(w) \/ Crash(w) \/ LoseLease(w)
      PROVE  status' = "completed"
  BY <1>5 DEF Deliver, WorkFails, Crash, LoseLease
<1>6. CASE Cleanup \/ Exhausted \/ DeliverTwice \/ Overtake \/ Close
  BY <1>6 DEF Cleanup, Exhausted, DeliverTwice, Overtake, Close
<1>7. CASE UNCHANGED vars
  BY <1>7 DEF vars
<1> QED BY <1>1, <1>2, <1>3, <1>4, <1>5, <1>6, <1>7 DEF Next, Step

\* A request moves, and takes nothing from the Work.
LEMMA PostCarries ==
  ASSUME TypeOK, CarryInv, NEW p \in Poster, NEW q, Goto(p, q),
         q \notin {"resend", "remark"}, status = "completed" => status' = "completed",
         life' = life, queue' \in {queue, queue + 1}, dead' = dead, redrives' = redrives
  PROVE  CarryInv'
<1>1. \A w \in Worker : pc'[w] = pc[w]
  BY DEF TypeOK, Goto
<1>2. \A r \in Poster : pc'[r] = pc[r] \/ pc'[r] = q
  BY DEF TypeOK, Goto
<1>3. NoResend'
  BY <1>2 DEF CarryInv, NoResend
<1>4. queue > 0 => queue' > 0
  BY DEF TypeOK
<1>5. Carried'
  BY <1>1, <1>2, <1>4 DEF CarryInv, Carried, Bearing, At
<1> QED BY <1>3, <1>5 DEF CarryInv

\* A consumer moves to where it bears the Work, or leaves it a message, or the
\* Work is not one that is carried.
LEMMA WorkCarries ==
  ASSUME TypeOK, CarryInv, NEW w \in Worker, NEW q, Goto(w, q),
         redrives' = redrives,
         \/ q \notin {"idle", "leave", "markCompleted", "isCompleted"}
         \/ queue' > 0
         \/ life' # "active"
         \/ status' = "completed"
  PROVE  CarryInv'
<1>1. pc'[w] = q /\ \A p \in Poster : pc'[p] = pc[p]
  BY DEF TypeOK, Goto
<1>2. NoResend'
  BY <1>1 DEF CarryInv, NoResend
<1>3. Carried'
  BY <1>1 DEF Carried, Bearing
<1> QED BY <1>2, <1>3 DEF CarryInv

\* A consumer that bears nothing moves, and takes nothing from the Work.
LEMMA IdleCarries ==
  ASSUME TypeOK, CarryInv, NEW w \in Worker, NEW q, Goto(w, q), ~Bearing(w),
         redrives' = redrives, queue' = queue, dead' = dead, life' = life,
         status = "completed" => status' = "completed"
  PROVE  CarryInv'
<1>1. /\ \A p \in Poster : pc'[p] = pc[p]
      /\ \A v \in Worker : v # w => pc'[v] = pc[v]
  BY DEF TypeOK, Goto
<1>2. NoResend'
  BY <1>1 DEF CarryInv, NoResend
<1>3. \A v \in Worker : Bearing(v) => Bearing(v)'
  BY <1>1 DEF Bearing
<1>4. Carried'
  BY <1>1, <1>3 DEF CarryInv, Carried, At
<1> QED BY <1>2, <1>4 DEF CarryInv

\* Nobody moves, and there are as many messages and dead letters as before, or
\* the Work is not one that is carried.
LEMMA StillCarries ==
  ASSUME TypeOK, CarryInv, pc' = pc, redrives' = redrives,
         \/ /\ queue' \in {queue, queue + 1} /\ dead' = dead /\ life' = life
            /\ status' = status
         \/ life' # "active"
  PROVE  CarryInv'
<1>1. NoResend'
  BY DEF CarryInv, NoResend
<1>2. Carried'
  BY DEF CarryInv, Carried, Bearing, At, TypeOK
<1> QED BY <1>1, <1>2 DEF CarryInv

\* prepare and markDeadLetterRedriven: the first closes a dead letter only
\* where a message is under way, the second only after one was sent.
LEMMA RedriveCarries ==
  ASSUME TypeOK, CarryInv, NEW p \in Poster, Redrive(p)
  PROVE  CarryInv'
<1>1. CASE Prepare(p)
  <2>1. redrives' = redrives + 1 /\ redrives \in Nat /\ dead > 0
    BY <1>1 DEF Prepare, TypeOK
  <2>2. NoResend'
    BY <2>1 DEF NoResend
  <2>3. CASE redrives = 0
    <3>1. CASE dead' = dead - 1 /\ UNCHANGED <<status, life, pc, queue>>
      <4>1. Carried'
        BY <2>1, <2>3, <3>1 DEF CarryInv, Carried, Bearing
      <4> QED BY <2>2, <4>1 DEF CarryInv
    <3>2. CASE Goto(p, "resend") /\ dead' = dead
      <4>1. \A r \in Poster : pc'[r] = pc[r] \/ pc'[r] = "resend"
        BY <3>2 DEF TypeOK, Goto
      <4>2. \A r \in Poster : ~At(r, "remark")'
        BY <2>3, <4>1 DEF CarryInv, NoResend, At
      <4>3. redrives' = 1 /\ dead' > 0
        BY <2>1, <2>3, <3>2
      <4>4. Carried'
        BY <4>2, <4>3 DEF Carried
      <4> QED BY <2>2, <4>4 DEF CarryInv
    <3> QED BY <1>1, <3>1, <3>2 DEF Prepare
  <2>4. CASE redrives # 0
    <3>1. ~(redrives' < 2)
      BY <2>1, <2>4
    <3>2. Carried'
      BY <3>1 DEF Carried
    <3> QED BY <2>2, <3>2 DEF CarryInv
  <2> QED BY <2>3, <2>4
<1>2. CASE Redriven(p)
  <2>1. /\ At(p, "remark") /\ Goto(p, "idle") /\ redrives' = redrives
        /\ life' = life /\ queue' = queue
        /\ status = "completed" => status' = "completed"
    BY <1>2 DEF Redriven, Queued, workVars, envVars
  <2>2. /\ \A w \in Worker : pc'[w] = pc[w]
        /\ \A r \in Poster : pc'[r] = pc[r] \/ pc'[r] = "idle"
    BY <2>1 DEF TypeOK, Goto
  <2>3. NoResend'
    BY <2>1, <2>2 DEF CarryInv, NoResend
  <2>4. Carried'
    BY <2>1, <2>2 DEF CarryInv, Carried, Bearing
  <2> QED BY <2>3, <2>4 DEF CarryInv
<1> QED BY <1>1, <1>2 DEF Redrive

\* A request to the API Worker, or an operator.
LEMMA PostKeepsCarried ==
  ASSUME TypeOK, CarryInv, [Next]_vars, NEW p \in Poster,
         Post(p) \/ Redrive(p) \/ SendFails(p) \/ PostFails(p)
  PROVE  CarryInv'
<1>0. status = "completed" => status' = "completed"
  BY CompletedStays
<1>1. ASSUME NEW c \in Chunk, Receive(p, c) PROVE CarryInv'
  BY <1>0, <1>1, PostCarries DEF Receive, workVars
<1>2. ASSUME NEW c \in Chunk, StageChunk(p, c) PROVE CarryInv'
  BY <1>0, <1>2, PostCarries DEF StageChunk, workVars, envVars
<1>3. CASE Validate(p)
  BY <1>0, <1>3, PostCarries DEF Validate, workVars, envVars
<1>4. CASE Reserve(p) \/ Reserved(p)
  BY <1>0, <1>4, PostCarries DEF Reserve, Reserved, workVars, envVars
<1>5. CASE MarkSendPending(p) \/ IsPending(p)
  BY <1>0, <1>5, PostCarries DEF MarkSendPending, IsPending, workVars, envVars
<1>6. CASE MarkSendFailed(p) \/ MarkQueued(p)
  BY <1>0, <1>6, PostCarries DEF MarkSendFailed, MarkQueued, workVars, envVars
<1>7. CASE Send(p)
  <2>1. CASE At(p, "send") /\ Goto(p, "mark")
    BY <1>0, <1>7, <2>1, PostCarries DEF Send, workVars, envVars
  <2>2. CASE At(p, "resend") /\ Goto(p, "remark")
    <3>1. redrives' = redrives /\ redrives # 0
      BY <1>7, <2>2 DEF Send, envVars, CarryInv, NoResend, At
    <3>2. queue' > 0
      BY <1>7 DEF Send, TypeOK
    <3> QED BY <3>1, <3>2 DEF CarryInv, NoResend, Carried
  <2> QED BY <1>7, <2>1, <2>2 DEF Send
<1>8. CASE SendFails(p)
  BY <1>0, <1>8, PostCarries DEF SendFails, workVars
<1>9. CASE PostFails(p)
  BY <1>0, <1>9, PostCarries DEF PostFails, workVars
<1> QED BY <1>1, <1>2, <1>3, <1>4, <1>5, <1>6, <1>7, <1>8, <1>9, RedriveCarries
        DEF Post

\* A consumer, whatever it does and however it ends.
LEMMA WorkKeepsCarried ==
  ASSUME TypeOK, CarryInv, [Next]_vars, NEW w \in Worker,
         Deliver(w) \/ Step(w) \/ WorkFails(w) \/ Crash(w) \/ LoseLease(w)
  PROVE  CarryInv'
<1>0. status = "completed" => status' = "completed"
  BY CompletedStays
<1>1. CASE Deliver(w)
  BY <1>1, WorkCarries DEF Deliver, envVars
<1>2. CASE Receipt(w) \/ ConfirmReceipt(w) \/ Confirmed(w)
  BY <1>2, WorkCarries DEF Receipt, ConfirmReceipt, Confirmed, envVars
<1>3. CASE Acquire(w) \/ Busy(w)
  BY <1>3, WorkCarries DEF Acquire, Busy, envVars
<1>4. CASE ReadAdmission(w)
  <2>1. CASE status = "completed"
    BY <1>4, <2>1, WorkCarries DEF ReadAdmission, envVars
  <2>2. CASE status # "completed"
    BY <1>4, <2>2, WorkCarries DEF ReadAdmission, envVars
  <2> QED BY <2>1, <2>2
<1>5. CASE Claim(w) \/ Claimed(w)
  BY <1>5, WorkCarries DEF Claim, Claimed, envVars
<1>6. CASE Check(w)
  BY <1>6, WorkCarries DEF Check, CheckPc, Behind, envVars
<1>7. CASE CheckFails(w) \/ LoadRun(w)
  BY <1>7, WorkCarries DEF CheckFails, LoadRun, envVars
<1>8. CASE Begin(w)
  <2>1. CASE life = "completed" /\ Goto(w, "markCompleted") /\ UNCHANGED life
    BY <1>8, <2>1, WorkCarries DEF Begin, envVars
  <2>2. CASE life \in {"terminal", "superseded"} /\ Goto(w, "leave") /\ UNCHANGED life
    BY <1>8, <2>2, WorkCarries DEF Begin, envVars
  <2>3. CASE life' = "superseded" /\ Goto(w, "leave")
    BY <1>8, <2>3, WorkCarries DEF Begin, envVars
  <2>4. CASE Goto(w, "phase")
    BY <1>8, <2>4, WorkCarries DEF Begin, envVars
  <2> QED BY <1>8, <2>1, <2>2, <2>3, <2>4 DEF Begin
<1>9. CASE LoadPhase(w)
  BY <1>9, WorkCarries DEF LoadPhase, AfterPhase, envVars
<1>10. CASE WriteUnit(w)
  BY <1>10, WorkCarries DEF WriteUnit, envVars
<1>11. CASE SaveUnit(w)
  BY <1>11, WorkCarries DEF SaveUnit, AfterPhase, envVars
<1>12. CASE Continue(w)
  BY <1>12, WorkCarries DEF Continue, Continued, TypeOK, envVars
<1>13. CASE CompleteWork(w)
  BY <1>13, WorkCarries DEF CompleteWork, envVars
<1>14. CASE MarkCompleted(w)
  BY <1>0, <1>14, IdleCarries DEF MarkCompleted, Bearing, At, workVars, envVars
<1>15. CASE IsCompleted(w)
  BY <1>0, <1>15, IdleCarries DEF IsCompleted, Bearing, At, workVars, envVars
<1>16. CASE Leave(w)
  BY <1>0, <1>16, IdleCarries DEF Leave, Bearing, At, workVars, envVars
<1>17. CASE Retry(w) \/ Crash(w)
  BY <1>17, WorkCarries DEF Retry, Crash, TypeOK, envVars
<1>18. CASE KeepError(w)
  BY <1>18, WorkCarries DEF KeepError, envVars
<1>19. CASE Abandon(w)
  <2>1. life' # "active"
    BY <1>19 DEF Abandon, Ended
  <2> QED BY <1>19, <2>1, WorkCarries DEF Abandon, envVars
<1>20. CASE WorkFails(w)
  BY <1>20, WorkCarries DEF WorkFails
<1>21. CASE LeaseExpires(w) \/ LoseLease(w)
  BY <1>21, StillCarries DEF LeaseExpires, LoseLease, workVars, envVars
<1> QED BY <1>1, <1>2, <1>3, <1>4, <1>5, <1>6, <1>7, <1>8, <1>9, <1>10,
           <1>11, <1>12, <1>13, <1>14, <1>15, <1>16, <1>17, <1>18, <1>19,
           <1>20, <1>21
        DEF Step, Admit, Process, Finish

\* Every step leaves an active Work something to carry it on.
LEMMA CarryStep ==
  ASSUME TypeOK, CarryInv, [Next]_vars
  PROVE  CarryInv'
<1>1. CASE Cleanup
  BY <1>1, StillCarries DEF Cleanup, workVars, envVars
<1>2. CASE Exhausted
  <2>1. life' # "active"
    BY <1>2 DEF Exhausted, Ended
  <2> QED BY <1>2, <2>1, StillCarries DEF Exhausted
<1>3. CASE DeliverTwice
  BY <1>3, StillCarries DEF DeliverTwice, workVars
<1>4. CASE Overtake \/ Close
  BY <1>4, StillCarries DEF Overtake, Close, workVars
<1>5. CASE UNCHANGED vars
  BY <1>5, StillCarries DEF vars, workVars, envVars
<1> QED BY <1>1, <1>2, <1>3, <1>4, <1>5, PostKeepsCarried, WorkKeepsCarried DEF Next

(***************************************************************************)
(* The theorems.                                                           *)
(***************************************************************************)

\* Every step keeps the invariant.
LEMMA InvNext == IInv /\ [Next]_vars => IInv'
<1> SUFFICES ASSUME IInv, [Next]_vars PROVE IInv'
  OBVIOUS
<1>1. ASSUME NEW p \in Poster, Post(p) \/ Redrive(p) \/ SendFails(p) \/ PostFails(p)
      PROVE  IInv'
  BY <1>1, PostTypes, PostCounts, PostKnown DEF IInv, Known
<1>2. ASSUME NEW w \in Worker,
             Deliver(w) \/ Step(w) \/ WorkFails(w) \/ Crash(w) \/ LoseLease(w)
      PROVE  IInv'
  BY <1>2, WorkTypes, WorkCounts, WorkKnown DEF IInv, Known
<1>3. CASE Cleanup \/ Exhausted \/ DeliverTwice \/ Overtake \/ Close
  BY <1>3, WorldTypes, WorldCounts, WorldKnown DEF IInv, Known
<1>4. CASE UNCHANGED vars
  <2>1. \A g, n : Backed(g, n)' <=> Backed(g, n)
    BY <1>4 DEF vars, workVars, Backed
  <2>2. TypeOK' /\ Counts' /\ Begun'
    BY <1>4 DEF vars, runVars, workVars, envVars, IInv, TypeOK, Counts, Begun
  <2>3. Quiet
    BY <1>4 DEF vars, workVars, Quiet
  <2> QED BY <2>2, <2>3, QuietKnown DEF IInv, Known
<1> QED BY <1>1, <1>2, <1>3, <1>4 DEF Next

\* The invariant holds in every reachable state.
LEMMA Invariance == Spec => []IInv
<1> QED BY InvInit, InvNext, PTL DEF Spec

\* Every variable of the delivery has its type in every state.
THEOREM TypeCorrect == Spec => []TypeOK
<1>1. IInv => TypeOK
  BY DEF IInv
<1> QED BY <1>1, Invariance, PTL

\* The count by which stageChunk admits a run is that of its chunks: a run is
\* admitted with all of them, and never closed as invalid.
THEOREM WholeRuns == Spec => []AdmittedIsWhole
<1>1. IInv => AdmittedIsWhole
  BY DEF IInv, Counts, AdmittedIsWhole
<1> QED BY <1>1, Invariance, PTL

\* Whoever completes a run, savePhase and markCompleted by a consumer that has
\* lost its lease included, everything was written, and D1 before Lark.
THEOREM CompletedWritten == Spec => []CompletedIsWritten
<1>1. IInv => CompletedIsWritten
  BY DEF IInv, Progress, Backed, CompletedIsWritten
<1> QED BY <1>1, Invariance, PTL

\* Whichever end the deliveries of a run come to, a Work that is active keeps a
\* message, a consumer or a dead letter, over one redrive by an operator: a
\* queueContinuation is sent before its message is acknowledged, and prepare
\* closes no dead letter of a Work that needs it.
THEOREM CarriedOn == Spec => []NothingIsStranded
<1>1. Init => CarryInv
  BY DEF Init, CarryInv, NoResend, Carried
<1>2. TypeOK /\ CarryInv => NothingIsStranded
  <2>1. ASSUME NEW w \in Worker, Bearing(w) PROVE InHand(w)
    BY <2>1 DEF Bearing, InHand, At
  <2> QED BY <2>1 DEF CarryInv, Carried, NothingIsStranded
<1> QED BY <1>1, <1>2, CarryStep, TypeCorrect, PTL DEF Spec
================================================================================
