------------------------ MODULE TikTokCheckpointProofs ------------------------
(***************************************************************************)
(* What a recorded fingerprint means, what a finished checkpoint holds and *)
(* that Lark moves forward, for every number of Workers, Works, records,   *)
(* changes of the source and disturbances.                                 *)
(***************************************************************************)
EXTENDS TikTokSyncProofs

(***************************************************************************)
(* Who has taken the fence, and what the rows and the runs of a write      *)
(* phase say by themselves.                                                *)
(***************************************************************************)
\* The fence has come to this Work, or past it.
Reached(w) ==
    fence \in Work /\ (fence = w \/ Generation[fence] > Generation[w])
\* A Work whose phases are not empty has had the fence, and so has the Work of
\* a Worker that has begun it: the fence does not come back to it.
Taken ==
    /\ \A w \in Work : phase[w] # EmptyPhases => Reached(w)
    /\ \A i \in Worker : pc[i] \notin {"idle", "acquire", "begin"} =>
          Reached(my[i].work)

\* A write phase is complete when every selected record of its plan is
\* written, and only then is its checkpoint tried.
RowFits(row) ==
    /\ row.of = NoPlan => row.rows = {}
    /\ row.complete => row.of # NoPlan /\ row.rows = Selected(row.of)
    /\ ~row.complete => row.attempt = 0 /\ ~row.saved

\* The points of a Worker with its unit, before the end of the write phase,
\* and while it records the checkpoint.
UnitPc == {"checkUnit", "write"}
FinalPc == {"checkFinal", "saveFinal"}
RunPc == {"checkCheckpoint", "assert", "batch", "final"}
RowInHand(i) ==
    LET row == my[i].row IN
    /\ RowFits(row)
    /\ pc[i] \in UnitPc \cup FinalPc => row.of # NoPlan
    /\ pc[i] \in UnitPc \cup FinalPc \cup {"checkProgress", "saveProgress"} =>
         ~row.complete
    /\ pc[i] \in FinalPc \cup RunPc \cup {"checkAttempt", "saveAttempt"} =>
         row.of = my[i].plan
    /\ pc[i] \in RunPc \cup {"checkAttempt", "saveAttempt"} =>
         row.complete /\ ~row.saved
    /\ pc[i] \in {"confirm", "checkSaved", "saveSaved"} => row.complete
    /\ pc[i] = "final" => Left(i) = {}

\* Every attempt at a checkpoint has a run of its own, and what carries its
\* run was selected by its plan.
RunInHand(i) ==
    pc[i] \in RunPc =>
        /\ my[i].row.attempt \in 1..runs
        /\ \A j \in Worker : j # i /\ pc[j] \in RunPc =>
              my[j].row.attempt # my[i].row.attempt
        /\ \A r \in Record : recorded[r].run = my[i].row.attempt =>
              r \in Selected(my[i].plan)

Rows ==
    /\ \A w \in Work : RowFits(phase[w].write)
    /\ \A i \in Worker : RowInHand(i) /\ RunInHand(i)
    /\ \A r \in Record : recorded[r].run <= runs
    /\ cursor.run <= runs

(***************************************************************************)
(* What is read, planned and written follows the source forward.           *)
(***************************************************************************)
Under(plan, r, c) == plan # NoPlan => plan.content[r] <= c
Reading(i, r) == pc[i] = "savePage" /\ r = my[i].page + 1
Writing(i, r) == pc[i] \in UnitPc /\ r = my[i].row.next + 1

\* Nothing is ahead of a source that did not go back.
Bounded(r) ==
    /\ lark[r] <= source[r]
    /\ \A w \in Work : /\ phase[w].staged[r] <= source[r]
                       /\ Under(phase[w].plan, r, source[r])
    /\ \A i \in Worker :
          /\ Under(my[i].plan, r, source[r])
          /\ Reading(i, r) \/ Writing(i, r) => my[i].held <= source[r]

\* What the current Work staged is what Lark has or newer, and no older than
\* what any of its plans holds.
StagedIsNew(r) ==
    \A w \in Work : phase[w].staged[r] # 0 =>
        /\ fence = w => lark[r] <= phase[w].staged[r]
        /\ Under(phase[w].plan, r, phase[w].staged[r])
        /\ \A i \in Worker : my[i].work = w =>
              Under(my[i].plan, r, phase[w].staged[r])

\* So is the page that a current Worker holds.
PageIsNew(i, r) ==
    Current(i) /\ Reading(i, r) =>
        /\ lark[r] <= my[i].held
        /\ Under(phase[my[i].work].plan, r, my[i].held)
        /\ \A j \in Worker : my[j].work = my[i].work =>
              Under(my[j].plan, r, my[i].held)

\* And the unit that a Worker holds.
UnitIsNew(i, r) ==
    Writing(i, r) /\ my[i].held # 0 =>
        /\ Under(my[i].row.of, r, my[i].held)
        /\ ~my[i].differs => my[i].held <= lark[r]
        /\ Current(i) => lark[r] <= my[i].held
        /\ Current(i) /\ phase[my[i].work].staged[r] # 0 =>
             my[i].held <= phase[my[i].work].staged[r]

\* What a row counts as written, and what is recorded, is in Lark.
RowIsShown(row, r) == r \in row.rows => Under(row.of, r, lark[r])
Shown(r) ==
    /\ \A w \in Work : RowIsShown(phase[w].write, r)
    /\ \A i \in Worker : RowIsShown(my[i].row, r)
    /\ recorded[r].content <= lark[r]

Forward ==
    /\ \A r \in Record \ reverted : Bounded(r)
    /\ \A r \in Record \ (late \cup reverted) :
          /\ StagedIsNew(r) /\ Shown(r)
          /\ \A i \in Worker : PageIsNew(i, r) /\ UnitIsNew(i, r)

(***************************************************************************)
(* What a Work whose phases only current Workers wrote has in them.        *)
(***************************************************************************)
\* What the plan leaves out is recorded already, or is not there.
TruePlan(w, plan) ==
    \A r \in Record \ late :
        /\ plan.content[r] \in {0, phase[w].staged[r]}
        /\ plan.content[r] = 0 =>
             IF plan.full THEN phase[w].staged[r] = 0
                          ELSE recorded[r].content = phase[w].staged[r]
Recorded(w) ==
    \A r \in Record \ late : recorded[r].content = phase[w].staged[r]

PhasesFit(w) ==
    /\ phase[w].plan # NoPlan => phase[w].pages = Records
    /\ phase[w].result \/ phase[w].write.complete => phase[w].plan # NoPlan
    /\ fence = w /\ phase[w].plan # NoPlan => TruePlan(w, phase[w].plan)
    /\ fence = w /\ (phase[w].result
                       \/ (phase[w].write.complete /\ AlreadySaved(phase[w].write)))
         => Recorded(w)

PlannedPc == {"checkPreflight", "savePreflight", "checkProgress", "saveProgress",
              "checkAttempt", "saveAttempt"} \cup UnitPc \cup FinalPc \cup RunPc
ConfirmedPc == {"confirm", "checkSaved", "saveSaved", "checkResult", "saveResult"}
\* What a current Worker has read is what its Work's phases hold.
UpToDate(i) ==
    LET w == my[i].work IN
    w \notin torn /\ Current(i) =>
        /\ pc[i] \in {"readPage", "savePage"} => my[i].page = phase[w].pages
        /\ pc[i] \in {"load", "checkPlan", "savePlan"} => phase[w].pages = Records
        /\ pc[i] \in {"checkPlan", "savePlan"} =>
             phase[w].plan = NoPlan /\ TruePlan(w, my[i].plan)
        /\ pc[i] \in PlannedPc => phase[w].plan = my[i].plan /\ my[i].plan # NoPlan
        /\ pc[i] \in ConfirmedPc => phase[w].plan # NoPlan /\ Recorded(w)
        /\ pc[i] \in RunPc => \A r \in Selected(my[i].plan) \ late :
              r <= my[i].record => recorded[r].run = my[i].row.attempt

\* A Worker that records a checkpoint, current or not, records the plan of its
\* Work, unless the Work is completed: then nobody begins it again.
Recording(i) ==
    LET w == my[i].work IN
    w \notin torn /\ pc[i] \in RunPc =>
        /\ phase[w].plan \in {NoPlan, my[i].plan}
        /\ fence = w => \A r \in Selected(my[i].plan) \ late :
              r <= my[i].record => recorded[r].content = my[i].plan.content[r]
        /\ phase[w].plan = NoPlan =>
             /\ life[w] \notin {"absent", "active"}
             /\ \A j \in Worker : lease = j /\ my[j].work = w =>
                   pc[j] \in {"acquire", "begin", "release", "send", "abandon"}

Whole ==
    /\ \A w \in Work \ torn : PhasesFit(w)
    /\ \A i \in Worker : UpToDate(i) /\ Recording(i)

USE NoneAssumption, GenerationAssumption, RecordsAssumption, BoundAssumption

(***************************************************************************)
(* The steps, sorted by what they change.                                  *)
(***************************************************************************)
kept == <<source, reverted, lark, fence, phase, recorded, cursor, runs, late,
          torn>>

\* Where a Worker goes that changes nothing but its place.
QuietMove(i, q) ==
    \/ pc[i] = "acquire" /\ q = "begin"
    \/ pc[i] \notin {"idle", "acquire", "begin"} /\ q = "abandon"
    \/ pc[i] = "load" /\ q = "checkComplete"
    \/ pc[i] = "release" /\ q = "send"
    \/ pc[i] \in CheckPc /\ q = Behind(pc[i])
    \/ pc[i] = "assert" /\ q = "batch"
    \/ pc[i] = "assert" /\ q = "final" /\ Left(i) = {}
    \/ pc[i] = "confirm" /\ q = "checkSaved"
Quiet(i) ==
    /\ UNCHANGED <<kept, life, my>>
    /\ lease' \in {lease, None} \/ (lease' = i /\ pc[i] = "acquire")
    /\ \E q \in Pc : pc' = [pc EXCEPT ![i] = q] /\ QuietMove(i, q)
\* A Worker is done, whatever comes of its Work and its lease.
Ends ==
    \A w \in Work : life'[w] \in {"absent", "active"} =>
        life[w] \in {"absent", "active"}
Gone(i) ==
    /\ UNCHANGED kept
    /\ lease' \in {lease, None}
    /\ pc[i] # "idle" /\ Leave(i)
    /\ Ends
LeaseLost == UNCHANGED <<kept, life, my, pc>> /\ lease' = None

Claims(i) ==
    LET w == my[i].work IN
    /\ pc[i] = "begin" /\ pc' = [pc EXCEPT ![i] = "admit"]
    /\ life[w] \in {"absent", "active"} /\ Claimable(w)
    /\ fence' = w /\ life' = [life EXCEPT ![w] = "active"]
    /\ UNCHANGED <<source, reverted, lark, lease, phase, recorded, cursor, runs,
                   late, torn, my>>
AdmitsPage(i) ==
    LET pages == phase[my[i].work].pages IN
    /\ pc[i] = "admit" /\ Current(i)
    /\ my' = [my EXCEPT ![i] = [my[i] EXCEPT !.page = pages]]
    /\ pc' = [pc EXCEPT ![i] = IF pages < Records THEN "readPage" ELSE "load"]
    /\ UNCHANGED <<kept, life, lease>>
AdmitsReplay(i) ==
    /\ pc[i] = "admit" /\ pc' = [pc EXCEPT ![i] = "release"]
    /\ \E n \in Nat : my' = [my EXCEPT ![i] = [my[i] EXCEPT !.next = n]]
    /\ UNCHANGED <<kept, life, lease>>

\* What is loaded, and where it leads.
Loads(i, plan, row, q) ==
    /\ pc[i] = "load" /\ Current(i) /\ pc' = [pc EXCEPT ![i] = q]
    /\ my' = [my EXCEPT ![i] = [my[i] EXCEPT !.plan = plan, !.row = row]]
    /\ UNCHANGED <<kept, life, lease>>
LoadsDone(i) ==
    LET p == phase[my[i].work] IN
    /\ Loads(i, p.plan, p.write, "checkResult")
    /\ p.write.complete /\ AlreadySaved(p.write)
LoadsNew(i) ==
    LET w == my[i].work IN
    /\ phase[w].plan = NoPlan
    /\ \E full \in BOOLEAN : /\ RecordGone(w) => full
                             /\ Loads(i, PlanOf(w, full), EmptyRow, "checkPlan")
LoadsPreflight(i) ==
    LET p == phase[my[i].work] IN
    p.plan # NoPlan /\ Loads(i, p.plan, EmptyRow, "checkPreflight")
LoadsEnd(i) ==
    LET p == phase[my[i].work] IN
    /\ p.plan # NoPlan /\ Compatible(p.write.of, p.plan)
    /\ ~(p.write.complete /\ AlreadySaved(p.write))
    /\ Loads(i, p.plan, [p.write EXCEPT !.of = p.plan],
             IF p.write.complete THEN "checkAttempt" ELSE "checkFinal")
LoadsUnit(i) ==
    LET p == phase[my[i].work]
        r == p.write.next + 1
    IN
    /\ p.plan # NoPlan /\ Compatible(p.write.of, p.plan)
    /\ ~p.write.complete /\ p.write.next < Records
    /\ pc[i] = "load" /\ Current(i) /\ pc' = [pc EXCEPT ![i] = "checkUnit"]
    /\ my' = [my EXCEPT ![i] = [my[i] EXCEPT !.plan = p.plan,
                                             !.row = [p.write EXCEPT !.of = p.plan],
                                             !.held = p.staged[r],
                                             !.differs = Differs(r, p.staged[r])]]
    /\ UNCHANGED <<kept, life, lease>>
EndsWrite(i) ==
    /\ SaveFinal(i)
    /\ my[i].row.rows = Selected(my[i].plan)
    /\ my' = [my EXCEPT ![i].row.complete = TRUE]
    /\ Save(i, [phase[my[i].work] EXCEPT !.write = my'[i].row])
    /\ Goto(i, "checkAttempt")
    /\ UNCHANGED lease

\* What a step of a Worker is.
Stages(i) == AdmitsPage(i) \/ AdmitsReplay(i) \/ ReadPage(i) \/ SavePage(i)
               \/ LoadsDone(i) \/ LoadsNew(i) \/ LoadsPreflight(i) \/ LoadsEnd(i)
               \/ LoadsUnit(i)
Works(i) == SavePlan(i) \/ SavePreflight(i) \/ WriteUnit(i) \/ SaveProgress(i)
              \/ EndsWrite(i) \/ SaveAttempt(i) \/ Batch(i) \/ FinalBatch(i)
              \/ SaveSaved(i) \/ SaveResult(i) \/ Complete(i) \/ SaveContinue(i)

\* What Load reads of a Work's phases decides between the five.
LEMMA LoadSorted ==
  ASSUME Typed, NEW i \in Worker, Load(i)
  PROVE  Quiet(i) \/ LoadsDone(i) \/ LoadsNew(i) \/ LoadsPreflight(i)
           \/ LoadsEnd(i) \/ LoadsUnit(i)
<1> USE DEF kept, sourceVars, checkpointVars, ghostVars, At, Goto
<1> DEFINE p == phase[my[i].work]
<1>1. pc[i] = "load" /\ Current(i)
  BY DEF Load
<1>2. UNCHANGED <<kept, life>>
  BY DEF Load
<1>3. CASE pc' = [pc EXCEPT ![i] = "checkComplete"] /\ UNCHANGED <<my, lease>>
  BY <1>1, <1>2, <1>3, Points DEF Quiet, QuietMove, CheckPc
<1>4. CASE Fatal(i) /\ UNCHANGED my
  BY <1>1, <1>2, <1>4, Points DEF Quiet, QuietMove, Fatal, LetGo
<1>5. CASE /\ p.write.complete /\ AlreadySaved(p.write)
           /\ my' = [my EXCEPT ![i].plan = p.plan, ![i].row = p.write]
           /\ pc' = [pc EXCEPT ![i] = "checkResult"] /\ UNCHANGED lease
  <2>1. my' = [my EXCEPT ![i] = [my[i] EXCEPT !.plan = p.plan, !.row = p.write]]
    BY <1>5
  <2> QED BY <1>1, <1>2, <1>5, <2>1 DEF LoadsDone, Loads
<1>6. CASE /\ p.plan = NoPlan
           /\ \E full \in BOOLEAN :
                /\ RecordGone(my[i].work) => full
                /\ my' = [my EXCEPT ![i].plan = PlanOf(my[i].work, full),
                                    ![i].row = EmptyRow]
           /\ pc' = [pc EXCEPT ![i] = "checkPlan"] /\ UNCHANGED lease
  <2>1. PICK full \in BOOLEAN :
          /\ RecordGone(my[i].work) => full
          /\ my' = [my EXCEPT ![i].plan = PlanOf(my[i].work, full),
                              ![i].row = EmptyRow]
    BY <1>6
  <2>2. my' = [my EXCEPT ![i] = [my[i] EXCEPT !.plan = PlanOf(my[i].work, full),
                                              !.row = EmptyRow]]
    BY <2>1
  <2> QED BY <1>1, <1>2, <1>6, <2>1, <2>2 DEF LoadsNew, Loads
<1>7. CASE /\ p.plan # NoPlan
           /\ my' = [my EXCEPT ![i].plan = p.plan, ![i].row = EmptyRow]
           /\ pc' = [pc EXCEPT ![i] = "checkPreflight"] /\ UNCHANGED lease
  <2>1. my' = [my EXCEPT ![i] = [my[i] EXCEPT !.plan = p.plan, !.row = EmptyRow]]
    BY <1>7
  <2> QED BY <1>1, <1>2, <1>7, <2>1 DEF LoadsPreflight, Loads
<1>8. CASE /\ p.plan # NoPlan /\ Compatible(p.write.of, p.plan)
           /\ ~(p.write.complete /\ AlreadySaved(p.write))
           /\ my' = [my EXCEPT ![i].plan = p.plan,
                               ![i].row = [p.write EXCEPT !.of = p.plan]]
           /\ pc' = [pc EXCEPT ![i] = IF p.write.complete THEN "checkAttempt"
                                                          ELSE "checkFinal"]
           /\ UNCHANGED lease
  <2>1. my' = [my EXCEPT ![i] = [my[i] EXCEPT !.plan = p.plan,
                                              !.row = [p.write EXCEPT !.of = p.plan]]]
    BY <1>8
  <2> QED BY <1>1, <1>2, <1>8, <2>1 DEF LoadsEnd, Loads
<1>9. CASE /\ p.plan # NoPlan /\ Compatible(p.write.of, p.plan)
           /\ ~p.write.complete /\ p.write.next < Records
           /\ my' = [my EXCEPT ![i].plan = p.plan,
                               ![i].row = [p.write EXCEPT !.of = p.plan],
                               ![i].held = p.staged[p.write.next + 1],
                               ![i].differs = Differs(p.write.next + 1,
                                                      p.staged[p.write.next + 1])]
           /\ pc' = [pc EXCEPT ![i] = "checkUnit"] /\ UNCHANGED lease
  <2>1. my' = [my EXCEPT ![i] = [my[i] EXCEPT !.plan = p.plan,
                                   !.row = [p.write EXCEPT !.of = p.plan],
                                   !.held = p.staged[p.write.next + 1],
                                   !.differs = Differs(p.write.next + 1,
                                                 p.staged[p.write.next + 1])]]
    BY <1>9
  <2> QED BY <1>1, <1>2, <1>9, <2>1 DEF LoadsUnit
<1>10. \/ pc' = [pc EXCEPT ![i] = "checkComplete"] /\ UNCHANGED <<my, lease>>
       \/ /\ ~p.result /\ p.write.complete /\ AlreadySaved(p.write)
          /\ my' = [my EXCEPT ![i].plan = p.plan, ![i].row = p.write]
          /\ pc' = [pc EXCEPT ![i] = "checkResult"] /\ UNCHANGED lease
       \/ /\ p.plan = NoPlan
          /\ \E full \in BOOLEAN :
               /\ RecordGone(my[i].work) => full
               /\ my' = [my EXCEPT ![i].plan = PlanOf(my[i].work, full),
                                   ![i].row = EmptyRow]
          /\ pc' = [pc EXCEPT ![i] = "checkPlan"] /\ UNCHANGED lease
       \/ Fatal(i) /\ UNCHANGED my
       \/ /\ p.plan # NoPlan
          /\ my' = [my EXCEPT ![i].plan = p.plan, ![i].row = EmptyRow]
          /\ pc' = [pc EXCEPT ![i] = "checkPreflight"] /\ UNCHANGED lease
       \/ /\ p.plan # NoPlan /\ Compatible(p.write.of, p.plan)
          /\ ~(p.write.complete /\ AlreadySaved(p.write))
          /\ my' = [my EXCEPT ![i].plan = p.plan,
                              ![i].row = [p.write EXCEPT !.of = p.plan]]
          /\ pc' = [pc EXCEPT ![i] = IF p.write.complete THEN "checkAttempt"
                                                         ELSE "checkFinal"]
          /\ UNCHANGED lease
       \/ /\ p.plan # NoPlan /\ Compatible(p.write.of, p.plan)
          /\ ~p.write.complete /\ p.write.next < Records
          /\ my' = [my EXCEPT ![i].plan = p.plan,
                              ![i].row = [p.write EXCEPT !.of = p.plan],
                              ![i].held = p.staged[p.write.next + 1],
                              ![i].differs = Differs(p.write.next + 1,
                                                     p.staged[p.write.next + 1])]
          /\ pc' = [pc EXCEPT ![i] = "checkUnit"] /\ UNCHANGED lease
  BY DEF Load
<1> QED BY <1>3, <1>4, <1>5, <1>6, <1>7, <1>8, <1>9, <1>10

\* Every step of a Worker is quiet, is its last, or is one of the others.
LEMMA Sorted ==
  ASSUME Typed, NEW i \in Worker, Step(i) \/ Fault(i)
  PROVE  Quiet(i) \/ Gone(i) \/ LeaseLost \/ Claims(i) \/ Stages(i) \/ Works(i)
<1> USE DEF kept, sourceVars, checkpointVars, ghostVars, At, Goto
<1>work. pc[i] # "idle" => my[i].work \in Work /\ my[i] \in My /\ phase[my[i].work] \in Phases
  BY DEF Typed, TypeOK
<1>1. CASE Acquire(i)
  BY <1>1, Points DEF Acquire, Quiet, QuietMove
<1>2. CASE Busy(i)
  BY <1>2 DEF Busy, Retry, Gone, Ends
<1>3. CASE Begin(i)
  BY <1>3, <1>work DEF Begin, LetGo, Gone, Ends, Claims, Typed, TypeOK
<1>4. CASE Check(i)
  BY <1>4, Effects DEF Check, Quiet, QuietMove
<1>5. CASE CheckFails(i)
  <2>1. pc[i] \notin {"idle", "acquire", "begin"}
    BY <1>5 DEF CheckFails, CheckPc
  <2>2. CASE lease = i /\ Fatal(i) /\ UNCHANGED <<my, queued>>
    BY <1>5, <2>1, <2>2, Points DEF CheckFails, Fatal, LetGo, Quiet, QuietMove
  <2>3. CASE lease # i /\ Retry(i) /\ UNCHANGED lease
    BY <1>5, <2>1, <2>3 DEF CheckFails, Retry, Gone, Ends
  <2> QED BY <1>5, <2>2, <2>3 DEF CheckFails
<1>6. CASE Admit(i)
  <2> DEFINE w == my[i].work
             m == my[i].message
  <2>1. /\ pc[i] = "admit" /\ Current(i) /\ UNCHANGED <<kept, life>>
        /\ Replay(m, phase[w].sequence) \in Nat
    BY <1>6, <1>work DEF Admit, Replay, Phases
  <2>2. CASE /\ my' = [my EXCEPT ![i].page = phase[w].pages]
             /\ Goto(i, IF phase[w].pages < Records THEN "readPage" ELSE "load")
             /\ UNCHANGED lease
    <3>1. my' = [my EXCEPT ![i] = [my[i] EXCEPT !.page = phase[w].pages]]
      BY <2>2
    <3> QED BY <2>1, <2>2, <3>1 DEF Stages, AdmitsPage
  <2>3. CASE /\ my' = [my EXCEPT ![i].next = Replay(m, phase[w].sequence)]
             /\ Goto(i, "release") /\ UNCHANGED lease
    <3>1. my' = [my EXCEPT ![i] = [my[i] EXCEPT !.next = Replay(m, phase[w].sequence)]]
      BY <2>3
    <3>2. AdmitsReplay(i)
      BY <2>1, <2>3, <3>1 DEF AdmitsReplay
    <3> QED BY <3>2 DEF Stages
  <2>4. CASE Fatal(i) /\ UNCHANGED my
    BY <2>1, <2>4, Points DEF Fatal, LetGo, Quiet, QuietMove
  <2> QED BY <1>6, <2>2, <2>3, <2>4 DEF Admit
<1>7. CASE ReadPage(i) \/ SavePage(i)
  BY <1>7 DEF Stages
<1>8. CASE Load(i)
  BY <1>8, LoadSorted DEF Stages
<1>9. CASE SavePlan(i) \/ SavePreflight(i) \/ WriteUnit(i) \/ SaveProgress(i)
  BY <1>9 DEF Works
<1>10. CASE SaveFinal(i)
  <2>1. CASE Fatal(i) /\ UNCHANGED <<my, phase, torn>>
    BY <1>10, <2>1, Points DEF SaveFinal, Fatal, LetGo, Quiet, QuietMove
  <2>2. CASE EndsWrite(i)
    BY <2>2 DEF Works
  <2> QED BY <1>10, <2>1, <2>2 DEF SaveFinal, EndsWrite
<1>11. CASE SaveAttempt(i) \/ Batch(i) \/ FinalBatch(i) \/ SaveSaved(i)
              \/ SaveResult(i) \/ Complete(i) \/ SaveContinue(i)
  BY <1>11 DEF Works
<1>12. CASE AssertGeneration(i)
  BY <1>12, Points DEF AssertGeneration, Fatal, LetGo, Quiet, QuietMove
<1>13. CASE Confirm(i)
  <2>1. /\ pc[i] = "confirm" /\ "checkSaved" \in Pc /\ "abandon" \in Pc
        /\ UNCHANGED <<kept, life, my>>
    BY <1>13, Points DEF Confirm, CheckPc
  <2> QED BY <1>13, <2>1 DEF Confirm, Fatal, LetGo, Quiet, QuietMove
<1>14. CASE Release(i)
  BY <1>14, Points DEF Release, LetGo, Quiet, QuietMove
<1>15. CASE Send(i)
  BY <1>15 DEF Send, Gone, Ends
<1>16. CASE Abandon(i)
  BY <1>16, <1>work DEF Abandon, Gone, Ends, Typed, TypeOK
<1>17. CASE Fails(i)
  BY <1>17 DEF Fails, Retry, LetGo, Gone, Ends
<1>18. CASE FailsPermanently(i)
  BY <1>18, Points DEF FailsPermanently, Fatal, LetGo, Quiet, QuietMove, CheckPc
<1>19. CASE LoseLease(i) \/ LeaseExpires(i)
  BY <1>19 DEF LoseLease, LeaseExpires, LeaseLost
<1> QED
  BY <1>1, <1>2, <1>3, <1>4, <1>5, <1>6, <1>7, <1>8, <1>9, <1>10, <1>11, <1>12,
     <1>13, <1>14, <1>15, <1>16, <1>17, <1>18, <1>19
     DEF Step, Fault, Stage, Write, Checkpoint, Leaving

\* Only a Worker that takes a step changes its own variables, and the phases
\* of its own Work.
LEMMA Alone ==
  ASSUME Typed, NEW i \in Worker, Step(i) \/ Fault(i)
  PROVE  /\ \A j \in Worker \ {i} : pc'[j] = pc[j] /\ my'[j] = my[j]
         /\ \A w \in Work \ {my[i].work} : phase'[w] = phase[w]
         /\ UNCHANGED <<source, reverted>>
<1>t. /\ pc \in [Worker -> Pc] /\ my \in [Worker -> My]
      /\ phase \in [Work -> Phases]
  BY DEF Typed, TypeOK
<1>1. CASE Quiet(i) \/ LeaseLost \/ Claims(i)
  BY <1>t, <1>1 DEF Quiet, LeaseLost, Claims, kept
<1>2. CASE Gone(i)
  BY <1>t, <1>2 DEF Gone, Leave, Goto, kept
<1>3. CASE Stages(i)
  <2>1. CASE AdmitsPage(i) \/ AdmitsReplay(i) \/ LoadsUnit(i)
    BY <1>t, <2>1 DEF AdmitsPage, AdmitsReplay, LoadsUnit, kept
  <2>2. CASE LoadsDone(i) \/ LoadsNew(i) \/ LoadsPreflight(i) \/ LoadsEnd(i)
    BY <1>t, <2>2 DEF LoadsDone, LoadsNew, LoadsPreflight, LoadsEnd, Loads, kept
  <2>3. CASE ReadPage(i) \/ SavePage(i)
    BY <1>t, <2>3 DEF ReadPage, SavePage, Goto, sourceVars
  <2> QED BY <1>3, <2>1, <2>2, <2>3 DEF Stages
<1>4. CASE Works(i)
  <2> USE DEF Goto, sourceVars
  <2>1. CASE SavePlan(i) \/ SavePreflight(i) \/ SaveProgress(i) \/ SaveResult(i)
    BY <1>t, <2>1 DEF SavePlan, SavePreflight, SaveProgress, SaveResult, Save
  <2>2. CASE WriteUnit(i)
    BY <1>t, <2>2 DEF WriteUnit
  <2>3. CASE Batch(i) \/ FinalBatch(i)
    BY <1>t, <2>3 DEF Batch, FinalBatch
  <2>4. CASE EndsWrite(i)
    BY <1>t, <2>4 DEF EndsWrite, SaveFinal, Save
  <2>5. CASE SaveAttempt(i) \/ SaveSaved(i)
    BY <1>t, <2>5 DEF SaveAttempt, SaveSaved, Save
  <2>6. CASE Complete(i) \/ SaveContinue(i)
    BY <1>t, <2>6 DEF Complete, SaveContinue, Save
  <2> QED BY <1>4, <2>1, <2>2, <2>3, <2>4, <2>5, <2>6 DEF Works
<1> QED BY <1>1, <1>2, <1>3, <1>4, Sorted

\* Only a Worker that has begun its Work stages and writes, and it stays with
\* that Work and leaves the fence alone.
LEMMA InWork ==
  ASSUME Typed, NEW i \in Worker, Stages(i) \/ Works(i)
  PROVE  /\ pc[i] \notin {"idle", "acquire", "begin"}
         /\ my'[i].work = my[i].work /\ UNCHANGED fence
<1>t. my \in [Worker -> My] /\ my[i] \in My
  BY DEF Typed, TypeOK
<1> USE DEF At, My
<1>1. CASE AdmitsPage(i) \/ AdmitsReplay(i) \/ LoadsUnit(i)
  <2>1. CASE AdmitsPage(i)
    BY <1>t, <2>1 DEF AdmitsPage, kept
  <2>2. CASE AdmitsReplay(i)
    BY <1>t, <2>2 DEF AdmitsReplay, kept
  <2>3. CASE LoadsUnit(i)
    BY <1>t, <2>3 DEF LoadsUnit, kept
  <2> QED BY <1>1, <2>1, <2>2, <2>3
<1>2. CASE LoadsDone(i) \/ LoadsNew(i) \/ LoadsPreflight(i) \/ LoadsEnd(i)
  <2>1. ASSUME NEW plan, NEW row, NEW q, Loads(i, plan, row, q)
        PROVE  /\ pc[i] = "load" /\ my'[i].work = my[i].work
               /\ UNCHANGED fence
    BY <1>t, <2>1 DEF Loads, kept
  <2>2. \E plan, row, q : Loads(i, plan, row, q)
    BY <1>2 DEF LoadsDone, LoadsNew, LoadsPreflight, LoadsEnd
  <2> QED BY <2>1, <2>2
<1>3. CASE ReadPage(i) \/ SavePage(i)
  BY <1>t, <1>3 DEF ReadPage, SavePage
<1>4. CASE SavePlan(i) \/ SavePreflight(i) \/ SaveProgress(i) \/ SaveResult(i)
  BY <1>t, <1>4 DEF SavePlan, SavePreflight, SaveProgress, SaveResult
<1>5. CASE WriteUnit(i)
  <2>1. my'[i].work = my[i].work
    BY <1>t, <1>5 DEF WriteUnit
  <2> QED BY <1>5, <2>1 DEF WriteUnit
<1>6. CASE Batch(i) \/ FinalBatch(i)
  <2>1. CASE Batch(i)
    <3>1. \E r \in Left(i) : my' = [my EXCEPT ![i].record = r]
      BY <2>1 DEF Batch
    <3>2. my'[i].work = my[i].work
      BY <1>t, <3>1
    <3> QED BY <2>1, <3>2 DEF Batch
  <2>2. CASE FinalBatch(i)
    BY <1>t, <2>2 DEF FinalBatch
  <2> QED BY <1>6, <2>1, <2>2
<1>7. CASE EndsWrite(i)
  BY <1>t, <1>7 DEF EndsWrite, SaveFinal
<1>8. CASE SaveAttempt(i) \/ SaveSaved(i)
  BY <1>t, <1>8 DEF SaveAttempt, SaveSaved
<1>9. CASE Complete(i) \/ SaveContinue(i)
  BY <1>t, <1>9 DEF Complete, SaveContinue
<1> QED
  BY <1>1, <1>2, <1>3, <1>4, <1>5, <1>6, <1>7, <1>8, <1>9 DEF Stages, Works

(***************************************************************************)
(* The fence does not come back.                                           *)
(***************************************************************************)
\* A Work that has had the fence claims it again only while it has it.
LEMMA NoReturn ==
  ASSUME Typed, NEW w \in Work, NEW v \in Work, Claimable(w), fence' = w
  PROVE  /\ Reached(v) => Reached(v)'
         /\ Reached(w) => fence = w
<1>1. /\ \A u \in Work : Generation[u] \in Nat
      /\ fence \in Work \cup {None}
  BY DEF Typed, TypeOK
<1> QED BY <1>1 DEF Claimable, Reached

\* Every step keeps Taken.
LEMMA TakenStep == Typed /\ Taken /\ [Next]_vars => Taken'
<1> SUFFICES ASSUME Typed, Taken, [Next]_vars PROVE Taken'
  OBVIOUS
<1> DEFINE Early == {"idle", "acquire", "begin"}
<1>work. \A i \in Worker : pc[i] # "idle" => my[i].work \in Work
  BY DEF Typed, TypeOK
<1>my. \A i \in Worker : my[i] \in My
  BY DEF Typed, TypeOK
\* Unless the fence is claimed, only phases of a Work in hand are saved.
<1>frame. ASSUME UNCHANGED fence,
                 \A w \in Work : phase'[w] = phase[w] \/ Reached(w),
                 \A j \in Worker : pc'[j] \notin Early =>
                   \E v \in Work : my'[j].work = v /\ Reached(v)
          PROVE  Taken'
  BY <1>frame DEF Taken, Reached
<1>held. \A j \in Worker : pc[j] \notin Early =>
           \E v \in Work : my[j].work = v /\ Reached(v)
  BY <1>work DEF Taken
<1>1. ASSUME NEW r \in Record, NEW c \in Content, Edit(r, c) PROVE Taken'
  BY <1>1 DEF Edit, Taken, Reached
<1>2. ASSUME NEW i \in Worker, NEW w \in Work, NEW m \in queued[w],
             Deliver(i, w, m) \/ DeliverTwice(i, w, m)
      PROVE  Taken'
  <2>1. UNCHANGED <<fence, phase>> /\ pc'[i] = "acquire"
        /\ \A j \in Worker \ {i} : pc'[j] = pc[j] /\ my'[j] = my[j]
    BY <1>2 DEF Deliver, DeliverTwice, Receive, Goto, Typed, TypeOK
  <2> QED BY <1>frame, <1>held, <2>1
<1>3. ASSUME NEW i \in Worker, Step(i) \/ Fault(i) PROVE Taken'
  <2> DEFINE w == my[i].work
  <2>alone. /\ \A j \in Worker \ {i} : pc'[j] = pc[j] /\ my'[j] = my[j]
            /\ \A v \in Work \ {w} : phase'[v] = phase[v]
    BY <1>3, Alone
  <2>own. ASSUME UNCHANGED fence, pc[i] \notin Early,
                 pc'[i] \notin Early => my'[i].work = w
          PROVE  Taken'
    <3>1. \A j \in Worker : pc'[j] \notin Early =>
            \E v \in Work : my'[j].work = v /\ Reached(v)
      BY <1>held, <2>alone, <2>own
    <3>2. \A v \in Work : phase'[v] = phase[v] \/ Reached(v)
      BY <1>held, <2>alone, <2>own
    <3> QED BY <1>frame, <2>own, <3>1, <3>2
  <2>1. CASE Quiet(i)
    <3>1. PICK q \in Pc : pc' = [pc EXCEPT ![i] = q] /\ QuietMove(i, q)
      BY <2>1 DEF Quiet
    <3>2. q \notin Early => pc[i] \notin Early
      BY <3>1 DEF QuietMove, CheckPc
    <3>3. \A j \in Worker : pc'[j] \notin Early => pc[j] \notin Early
      BY <3>1, <3>2 DEF Typed, TypeOK
    <3> QED BY <1>frame, <1>held, <2>1, <3>3 DEF Quiet, kept
  <2>2. CASE Gone(i)
    <3>1. pc'[i] = "idle" /\ UNCHANGED <<fence, phase>>
      BY <2>2 DEF Gone, Leave, Goto, kept, Typed, TypeOK
    <3> QED BY <1>frame, <1>held, <2>alone, <3>1
  <2>3. CASE LeaseLost
    BY <1>frame, <1>held, <2>3 DEF LeaseLost, kept
  <2>4. CASE Claims(i)
    <3>1. w \in Work /\ Claimable(w) /\ fence' = w /\ UNCHANGED <<phase, my>>
          /\ pc' = [pc EXCEPT ![i] = "admit"]
      BY <1>work, <2>4 DEF Claims
    <3>2. Reached(w)'
      BY <3>1 DEF Reached
    <3>3. \A v \in Work : Reached(v) => Reached(v)'
      BY <3>1, NoReturn
    <3>5. \A v \in Work : phase[v] # EmptyPhases => Reached(v)
      BY DEF Taken
    <3>6. \A v \in Work : phase'[v] # EmptyPhases => Reached(v)'
      BY <3>1, <3>3, <3>5
    <3>7. ASSUME NEW j \in Worker, pc'[j] \notin Early
          PROVE  Reached(my[j].work)'
      <4>1. CASE j = i
        BY <3>1, <3>2, <4>1 DEF Reached
      <4>2. CASE j # i
        <5>1. PICK v \in Work : v = my[j].work /\ Reached(v)
          BY <1>held, <2>alone, <3>7, <4>2
        <5>2. Reached(v)'
          BY <3>3, <5>1
        <5> QED BY <3>1, <5>1, <5>2 DEF Reached
      <4> QED BY <4>1, <4>2
    <3> QED BY <3>1, <3>6, <3>7 DEF Taken
  <2>5. CASE Stages(i) \/ Works(i)
    BY <2>own, <2>5, InWork
  <2> QED BY <1>3, <2>1, <2>2, <2>3, <2>4, <2>5, Sorted
<1>4. ASSUME NEW w \in Work, NEW m \in queued[w], DeadLetter(w, m) PROVE Taken'
  BY <1>4 DEF DeadLetter, Taken, Reached
<1>5. CASE UNCHANGED vars
  BY <1>5 DEF vars, Taken, Reached
<1> QED BY <1>1, <1>2, <1>3, <1>4, <1>5 DEF Next

(***************************************************************************)
(* The rows and the runs.                                                  *)
(***************************************************************************)
\* A check and its effect stand at the same part of the work.
LEMMA Behinds ==
  ASSUME NEW p \in CheckPc
  PROVE  /\ Behind(p) \in UnitPc => p \in UnitPc
         /\ Behind(p) \in FinalPc => p \in FinalPc
         /\ Behind(p) \in RunPc => p \in RunPc
         /\ Behind(p) = "saveProgress" => p = "checkProgress"
         /\ Behind(p) = "saveAttempt" => p = "checkAttempt"
         /\ Behind(p) = "saveSaved" => p = "checkSaved"
         /\ Behind(p) \notin {"confirm", "final", "savePage", "readPage"} \cup CheckPc
  BY DEF CheckPc, Behind, UnitPc, FinalPc, RunPc

\* One Worker moves, and no run is begun or recorded.
LEMMA RowsFrame ==
  ASSUME Typed, Rows, NEW i \in Worker,
         \A j \in Worker \ {i} : pc'[j] = pc[j] /\ my'[j] = my[j],
         \A w \in Work : RowFits(phase[w].write)',
         RowInHand(i)',
         UNCHANGED runs,
         \A r \in Record : recorded'[r].run \in {recorded[r].run, 0},
         cursor'.run <= runs,
         pc'[i] \in RunPc => /\ pc[i] \in RunPc
                             /\ my'[i].row.attempt = my[i].row.attempt
                             /\ my'[i].plan = my[i].plan
  PROVE  Rows'
<1>1. ASSUME NEW j \in Worker PROVE RowInHand(j)'
  BY <1>1 DEF Rows, RowInHand, Left
<1>2. \A j \in Worker : pc'[j] \in RunPc =>
        /\ pc[j] \in RunPc
        /\ my'[j].row.attempt = my[j].row.attempt
        /\ my'[j].plan = my[j].plan
  OBVIOUS
<1>3. ASSUME NEW j \in Worker, pc'[j] \in RunPc
      PROVE  /\ my'[j].row.attempt \in 1..runs'
             /\ \A k \in Worker : k # j /\ pc'[k] \in RunPc =>
                   my'[k].row.attempt # my'[j].row.attempt
             /\ \A r \in Record : recorded'[r].run = my'[j].row.attempt =>
                   r \in Selected(my'[j].plan)
  <2>1. RunInHand(j)
    BY DEF Rows
  <2>2. my[j].row.attempt \in 1..runs /\ 0 \notin 1..runs
    BY <1>2, <1>3, <2>1 DEF RunInHand
  <2> QED BY <1>2, <1>3, <2>1, <2>2 DEF RunInHand
<1>4. \A j \in Worker : RunInHand(j)'
  BY <1>3 DEF RunInHand, Selected
<1>5. \A r \in Record : recorded'[r].run <= runs'
  BY DEF Rows, Typed, TypeOK
<1> QED BY <1>1, <1>4, <1>5 DEF Rows

\* A quiet step leaves a Worker where its row fits.
LEMMA RowsQuiet ==
  ASSUME Typed, Rows, NEW i \in Worker, Quiet(i)
  PROVE  Rows'
<1>1. PICK q \in Pc : pc' = [pc EXCEPT ![i] = q] /\ QuietMove(i, q)
  BY DEF Quiet
<1>2. /\ UNCHANGED <<phase, recorded, cursor, runs, my>> /\ pc'[i] = q
      /\ \A j \in Worker \ {i} : pc'[j] = pc[j] /\ my'[j] = my[j]
  BY <1>1 DEF Quiet, kept, Typed, TypeOK
<1>3. /\ q \in UnitPc => pc[i] \in UnitPc
      /\ q \in FinalPc => pc[i] \in FinalPc
      /\ q \in RunPc => pc[i] \in RunPc
      /\ q \in {"checkProgress", "saveProgress"} =>
           pc[i] \in {"checkProgress", "saveProgress"}
      /\ q \in {"checkAttempt", "saveAttempt"} =>
           pc[i] \in {"checkAttempt", "saveAttempt"}
      /\ q \in {"confirm", "checkSaved", "saveSaved"} =>
           pc[i] \in {"confirm", "checkSaved", "saveSaved"}
      /\ q = "final" => Left(i) = {}
  <2>1. CASE pc[i] \in CheckPc /\ q = Behind(pc[i])
    <3>1. q \notin CheckPc /\ "checkProgress" \in CheckPc
          /\ "checkAttempt" \in CheckPc /\ "checkSaved" \in CheckPc
      BY <2>1, Behinds DEF CheckPc
    <3> QED BY <2>1, <3>1, Behinds
  <2>2. CASE ~(pc[i] \in CheckPc /\ q = Behind(pc[i]))
    BY <1>1, <2>2 DEF QuietMove, UnitPc, FinalPc, RunPc
  <2> QED BY <2>1, <2>2
<1>4. RowInHand(i) /\ Left(i)' = Left(i)
  BY <1>2 DEF Rows, Left, Selected
<1>5. RowInHand(i)'
  BY <1>2, <1>3, <1>4 DEF RowInHand, RowFits, Selected
<1>6. \A w \in Work : RowFits(phase[w].write)'
  BY <1>2 DEF Rows, RowFits
<1> QED BY <1>2, <1>3, <1>5, <1>6, RowsFrame DEF Rows

\* What a Worker stages or loads fits.
LEMMA RowsStages ==
  ASSUME Typed, Rows, NEW i \in Worker, Step(i) \/ Fault(i), Stages(i)
  PROVE  Rows'
<1> DEFINE p == phase[my[i].work]
<1>alone. /\ \A j \in Worker \ {i} : pc'[j] = pc[j] /\ my'[j] = my[j]
          /\ \A w \in Work \ {my[i].work} : phase'[w] = phase[w]
  BY Alone
<1>t. /\ my[i] \in My /\ my \in [Worker -> My] /\ pc \in [Worker -> Pc]
      /\ my[i].work \in Work /\ p \in Phases /\ my[i].row \in Row
      /\ p.write \in Row
  BY InWork DEF Typed, TypeOK, My, Phases
<1>row. RowInHand(i) /\ RowFits(p.write) /\ RowFits(my[i].row) /\ RowFits(EmptyRow)
  BY <1>t DEF Rows, RowInHand, RowFits, EmptyRow
<1>frame. ASSUME UNCHANGED <<recorded, cursor, runs>>,
                 pc'[i] \notin RunPc, RowInHand(i)',
                 \A w \in Work : phase'[w].write = phase[w].write
          PROVE  Rows'
  <2>1. \A w \in Work : RowFits(phase[w].write)'
    BY <1>frame DEF Rows, RowFits, Selected
  <2> QED BY <1>alone, <1>frame, <2>1, RowsFrame DEF Rows
\* The points where the row says nothing but that it fits.
<1>free. ASSUME RowFits(my'[i].row),
                pc'[i] \in {"readPage", "load", "release", "savePage", "checkContinue",
                            "checkResult", "checkPlan", "checkPreflight"}
         PROVE  RowInHand(i)' /\ pc'[i] \notin RunPc
  BY <1>free DEF RowInHand, RowFits, Selected, UnitPc, FinalPc, RunPc
<1>1. CASE AdmitsPage(i) \/ AdmitsReplay(i)
  <2>1. my'[i].row = my[i].row /\ pc'[i] \in {"readPage", "load", "release"}
        /\ UNCHANGED <<phase, recorded, cursor, runs>>
    <3>1. CASE AdmitsPage(i)
      BY <1>t, <3>1 DEF AdmitsPage, kept, My
    <3>2. CASE AdmitsReplay(i)
      BY <1>t, <3>2 DEF AdmitsReplay, kept, My
    <3> QED BY <1>1, <3>1, <3>2
  <2> QED BY <1>frame, <1>free, <1>row, <2>1
<1>2. CASE ReadPage(i)
  <2>1. my'[i].row = my[i].row /\ pc'[i] = "savePage"
        /\ UNCHANGED <<phase, recorded, cursor, runs>>
    BY <1>t, <1>2 DEF ReadPage, Goto, My, checkpointVars
  <2> QED BY <1>frame, <1>free, <1>row, <2>1
<1>3. CASE SavePage(i)
  <2>1. my'[i].row = my[i].row /\ pc'[i] = "checkContinue"
        /\ UNCHANGED <<recorded, cursor, runs>>
    BY <1>t, <1>3 DEF SavePage, Goto, checkpointVars
  <2>2. \A w \in Work : phase'[w].write = phase[w].write
    BY <1>t, <1>3 DEF SavePage, Phases, Typed, TypeOK
  <2> QED BY <1>frame, <1>free, <1>row, <2>1, <2>2
<1>load. ASSUME NEW plan, NEW row, NEW q, Loads(i, plan, row, q)
         PROVE  /\ my'[i].row = row /\ my'[i].plan = plan /\ pc'[i] = q
                /\ UNCHANGED <<phase, recorded, cursor, runs>>
  BY <1>t, <1>load DEF Loads, kept, My
<1>4. CASE LoadsDone(i) \/ LoadsNew(i) \/ LoadsPreflight(i)
  <2>1. /\ RowFits(my'[i].row) /\ UNCHANGED <<phase, recorded, cursor, runs>>
        /\ pc'[i] \in {"checkResult", "checkPlan", "checkPreflight"}
    BY <1>4, <1>load, <1>row DEF LoadsDone, LoadsNew, LoadsPreflight
  <2> QED BY <1>frame, <1>free, <2>1
<1>of. ASSUME p.plan # NoPlan, Compatible(p.write.of, p.plan)
       PROVE  /\ RowFits([p.write EXCEPT !.of = p.plan])
              /\ [p.write EXCEPT !.of = p.plan].complete = p.write.complete
              /\ [p.write EXCEPT !.of = p.plan].attempt = p.write.attempt
              /\ [p.write EXCEPT !.of = p.plan].saved = p.write.saved
              /\ [p.write EXCEPT !.of = p.plan].of = p.plan
              /\ p.write.complete \in BOOLEAN /\ p.write.saved \in BOOLEAN
  BY <1>t, <1>row, <1>of DEF RowFits, Row, Compatible
<1>5. CASE LoadsEnd(i)
  <2>1. /\ my'[i].row = [p.write EXCEPT !.of = p.plan] /\ my'[i].plan = p.plan
        /\ pc'[i] = IF p.write.complete THEN "checkAttempt" ELSE "checkFinal"
        /\ UNCHANGED <<phase, recorded, cursor, runs>>
    BY <1>5, <1>load DEF LoadsEnd
  <2>2. /\ p.plan # NoPlan /\ Compatible(p.write.of, p.plan)
        /\ ~(p.write.complete /\ p.write.saved)
    BY <1>5 DEF LoadsEnd, AlreadySaved
  <2>3. RowInHand(i)' /\ pc'[i] \notin RunPc
    BY <1>of, <2>1, <2>2 DEF RowInHand, RowFits, Selected, UnitPc, FinalPc, RunPc
  <2> QED BY <1>frame, <2>1, <2>3
<1>6. CASE LoadsUnit(i)
  <2>1. /\ my'[i].row = [p.write EXCEPT !.of = p.plan] /\ pc'[i] = "checkUnit"
        /\ UNCHANGED <<phase, recorded, cursor, runs>>
    BY <1>t, <1>6 DEF LoadsUnit, kept, My
  <2>2. p.plan # NoPlan /\ Compatible(p.write.of, p.plan) /\ ~p.write.complete
    BY <1>6 DEF LoadsUnit
  <2>3. RowInHand(i)' /\ pc'[i] \notin RunPc
    BY <1>of, <2>1, <2>2 DEF RowInHand, RowFits, Selected, UnitPc, FinalPc, RunPc
  <2> QED BY <1>frame, <2>1, <2>3
<1> QED BY <1>1, <1>2, <1>3, <1>4, <1>5, <1>6 DEF Stages

\* What a Worker writes, saves and records fits.
LEMMA RowsWorks ==
  ASSUME Typed, Rows, NEW i \in Worker, Step(i) \/ Fault(i), Works(i)
  PROVE  Rows'
<1> DEFINE p == phase[my[i].work]
<1>alone. /\ \A j \in Worker \ {i} : pc'[j] = pc[j] /\ my'[j] = my[j]
          /\ \A w \in Work \ {my[i].work} : phase'[w] = phase[w]
  BY Alone
<1>t. /\ my[i] \in My /\ my \in [Worker -> My] /\ pc \in [Worker -> Pc]
      /\ phase \in [Work -> Phases] /\ my[i].work \in Work /\ p \in Phases
      /\ my[i].row \in Row /\ p.write \in Row
  BY InWork DEF Typed, TypeOK, My, Phases
<1>row. RowInHand(i) /\ RowFits(my[i].row) /\ \A w \in Work : RowFits(phase[w].write)
  BY <1>t DEF Rows, RowInHand
<1>frame. ASSUME UNCHANGED runs, cursor'.run <= runs,
                 \A r \in Record : recorded'[r].run \in {recorded[r].run, 0},
                 pc'[i] \notin RunPc, RowInHand(i)',
                 \A w \in Work : \/ phase'[w].write = phase[w].write
                                 \/ phase'[w].write = my'[i].row
                                 \/ phase'[w].write = EmptyRow
          PROVE  Rows'
  <2>1. RowFits(my'[i].row) /\ RowFits(EmptyRow)
    BY <1>frame DEF RowInHand, RowFits, EmptyRow, Selected
  <2>2. \A w \in Work : RowFits(phase[w].write)'
    BY <1>frame, <1>row, <2>1 DEF RowFits, Selected
  <2> QED BY <1>alone, <1>frame, <2>2, RowsFrame DEF Rows
<1>free. ASSUME RowFits(my'[i].row),
                pc'[i] \in {"checkContinue", "checkComplete", "checkResult", "release"}
         PROVE  RowInHand(i)' /\ pc'[i] \notin RunPc
  BY <1>free DEF RowInHand, RowFits, Selected, UnitPc, FinalPc, RunPc
<1>cursor. cursor.run <= runs
  BY DEF Rows
<1>1. CASE SavePlan(i) \/ SavePreflight(i) \/ SaveResult(i) \/ SaveContinue(i)
  <2>1. /\ my'[i].row = my[i].row /\ UNCHANGED <<recorded, cursor, runs>>
        /\ pc'[i] \in {"checkContinue", "checkComplete", "release"}
    BY <1>t, <1>1 DEF SavePlan, SavePreflight, SaveResult, SaveContinue, Goto,
                     checkpointVars, My
  <2>2. \A w \in Work : phase'[w].write = phase[w].write
    <3>1. CASE SavePlan(i)
      BY <1>t, <3>1 DEF SavePlan, Save, Phases
    <3>2. CASE SavePreflight(i)
      BY <1>t, <3>2 DEF SavePreflight, Save, Phases
    <3>3. CASE SaveResult(i)
      BY <1>t, <3>3 DEF SaveResult, Save, Phases
    <3>4. CASE SaveContinue(i)
      BY <1>t, <3>4 DEF SaveContinue, Save, Phases
    <3> QED BY <1>1, <3>1, <3>2, <3>3, <3>4
  <2> QED BY <1>frame, <1>free, <1>row, <1>cursor, <2>1, <2>2
<1>2. CASE WriteUnit(i)
  <2>1. /\ my'[i].row.of = my[i].row.of /\ my'[i].row.complete = my[i].row.complete
        /\ my'[i].row.attempt = my[i].row.attempt
        /\ my'[i].row.saved = my[i].row.saved
    BY <1>t, <1>2 DEF WriteUnit, My, Row
  <2>2. /\ UNCHANGED <<phase, recorded, cursor, runs>> /\ pc'[i] = "checkProgress"
    BY <1>t, <1>2 DEF WriteUnit, Goto, checkpointVars
  <2>3. my[i].row.of # NoPlan /\ ~my[i].row.complete
    BY <1>2, <1>row DEF WriteUnit, At, RowInHand, UnitPc
  <2>4. RowInHand(i)' /\ pc'[i] \notin RunPc
    BY <1>row, <2>1, <2>2, <2>3
       DEF RowInHand, RowFits, Selected, UnitPc, FinalPc, RunPc
  <2> QED BY <1>frame, <1>cursor, <2>2, <2>4
<1>3. CASE SaveProgress(i)
  <2>1. UNCHANGED <<my, recorded, cursor, runs>> /\ pc'[i] = "checkContinue"
    BY <1>t, <1>3 DEF SaveProgress, Goto, checkpointVars
  <2>2. \A w \in Work : phase'[w].write = phase[w].write \/ phase'[w].write = my'[i].row
    BY <1>t, <1>3, <2>1 DEF SaveProgress, Save, Phases
  <2> QED BY <1>frame, <1>free, <1>row, <1>cursor, <2>1, <2>2
<1>4. CASE EndsWrite(i)
  <2>1. /\ my' = [my EXCEPT ![i].row.complete = TRUE]
        /\ UNCHANGED <<recorded, cursor, runs>> /\ pc'[i] = "checkAttempt"
        /\ pc[i] = "saveFinal" /\ my[i].row.rows = Selected(my[i].plan)
    BY <1>t, <1>4 DEF EndsWrite, SaveFinal, Goto, At, checkpointVars
  <2>2. /\ my'[i].row = [my[i].row EXCEPT !.complete = TRUE]
        /\ my'[i].plan = my[i].plan
    BY <1>t, <2>1 DEF My
  <2>3. /\ my[i].row.of = my[i].plan /\ my[i].row.of # NoPlan /\ ~my[i].row.saved
    BY <1>row, <2>1 DEF RowInHand, FinalPc, RowFits
  <2>4. RowInHand(i)' /\ pc'[i] \notin RunPc
    BY <1>t, <2>1, <2>2, <2>3
       DEF RowInHand, RowFits, Selected, UnitPc, FinalPc, RunPc, Row
  <2>5. \A w \in Work : phase'[w].write = phase[w].write \/ phase'[w].write = my'[i].row
    BY <1>t, <1>4 DEF EndsWrite, Save, Phases
  <2> QED BY <1>frame, <1>cursor, <2>1, <2>4, <2>5
<1>5. CASE SaveAttempt(i)
  <2>1. /\ runs' = runs + 1 /\ my' = [my EXCEPT ![i].row.attempt = runs', ![i].record = 0]
        /\ UNCHANGED <<recorded, cursor>> /\ pc' = [pc EXCEPT ![i] = "checkCheckpoint"]
        /\ pc[i] = "saveAttempt"
    BY <1>t, <1>5 DEF SaveAttempt, Goto, At, checkpointVars
  <2>2. /\ my'[i].row = [my[i].row EXCEPT !.attempt = runs']
        /\ my'[i].plan = my[i].plan
    BY <1>t, <2>1 DEF My
  <2>3. /\ my[i].row.of = my[i].plan /\ my[i].row.complete /\ ~my[i].row.saved
    BY <1>row, <2>1 DEF RowInHand, RunPc
  <2>4. RowInHand(i)' /\ my'[i].row.attempt = runs + 1
    BY <1>t, <1>row, <2>1, <2>2, <2>3
       DEF RowInHand, RowFits, Selected, UnitPc, FinalPc, RunPc, Row
  <2>5. \A w \in Work : phase'[w].write = phase[w].write \/ phase'[w].write = my'[i].row
    BY <1>t, <1>5 DEF SaveAttempt, Save, Phases
  <2>6. \A w \in Work : RowFits(phase[w].write)'
    BY <1>row, <2>4, <2>5 DEF RowInHand, RowFits, Selected
  <2>7. \A j \in Worker : RowInHand(j)'
    BY <1>alone, <2>4 DEF Rows, RowInHand, Left, RowFits, Selected
  <2>r. /\ runs \in Nat /\ \A r \in Record : recorded[r].run \in Nat /\ recorded[r].run <= runs
        /\ cursor.run \in Nat
    BY DEF Rows, Typed, TypeOK
  <2>8. ASSUME NEW j \in Worker PROVE RunInHand(j)'
    <3>1. CASE j = i
      <4>1. \A k \in Worker \ {i} : pc[k] \in RunPc => my[k].row.attempt \in 1..runs
        BY DEF Rows, RunInHand
      <4>2. \A k \in Worker \ {i} : pc[k] \in RunPc => my[k].row.attempt # runs + 1
        BY <2>r, <4>1
      <4>3. my'[i].row.attempt = runs + 1 /\ runs' = runs + 1 /\ runs + 1 \in 1..(runs + 1)
        BY <2>1, <2>r, <2>4
      <4>4. \A k \in Worker : k # i => pc'[k] = pc[k] /\ my'[k] = my[k]
        BY <1>alone
      <4>5. \A r \in Record : recorded'[r].run # runs + 1
        BY <2>1, <2>r
      <4> QED BY <3>1, <4>2, <4>3, <4>4, <4>5 DEF RunInHand
    <3>2. CASE j # i
      <4>1. RunInHand(j) /\ pc'[j] = pc[j] /\ my'[j] = my[j]
        BY <1>alone, <3>2 DEF Rows
      <4>2. pc[j] \in RunPc =>
              my[j].row.attempt \in 1..runs' /\ my[j].row.attempt # runs + 1
        BY <2>1, <2>r, <4>1 DEF RunInHand
      <4>3. \A k \in Worker : k # i => pc'[k] = pc[k] /\ my'[k] = my[k]
        BY <1>alone
      <4> QED BY <2>1, <2>4, <4>1, <4>2, <4>3 DEF RunInHand, Selected
    <3> QED BY <3>1, <3>2
  <2>9. /\ \A r \in Record : recorded'[r].run <= runs'
        /\ cursor'.run <= runs'
    BY <1>cursor, <2>1, <2>r
  <2> QED BY <2>6, <2>7, <2>8, <2>9 DEF Rows
<1>6. CASE Batch(i)
  <2>1. PICK r \in Left(i) :
          /\ my' = [my EXCEPT ![i].record = r]
          /\ IF Fenced(i)
               THEN recorded' = [recorded EXCEPT
                                   ![r] = [content |-> my[i].plan.content[r],
                                           run |-> my[i].row.attempt]]
               ELSE UNCHANGED recorded
    BY <1>6 DEF Batch
  <2>2. /\ my'[i].row = my[i].row /\ my'[i].plan = my[i].plan /\ r \in Selected(my[i].plan)
        /\ r \in Record
    BY <1>t, <2>1 DEF My, Left, Selected
  <2>3. UNCHANGED <<phase, cursor, runs>> /\ pc' = [pc EXCEPT ![i] = "assert"] /\ pc[i] = "batch"
    BY <1>6 DEF Batch, Goto, At, checkpointVars
  <2>4. RowInHand(i)'
    BY <1>t, <1>row, <2>2, <2>3
       DEF RowInHand, RowFits, Selected, UnitPc, FinalPc, RunPc
  <2>5. \A j \in Worker : RowInHand(j)'
    BY <1>alone, <2>4 DEF Rows, RowInHand, Left, RowFits, Selected
  <2>6. \A w \in Work : RowFits(phase[w].write)'
    BY <1>row, <2>3 DEF RowFits, Selected
  <2>7. /\ recorded \in [Record -> [content: Content, run: Nat]]
        /\ \A s \in Record \ {r} : recorded'[s] = recorded[s]
        /\ recorded'[r].run \in {recorded[r].run, my[i].row.attempt}
    BY <2>1, <2>2 DEF Typed, TypeOK
  <2>8. RunInHand(i) /\ my[i].row.attempt \in 1..runs
    BY <2>3 DEF Rows, RunInHand, RunPc
  <2>9. ASSUME NEW j \in Worker PROVE RunInHand(j)'
    <3>1. /\ RunInHand(j) /\ my'[j].row = my[j].row /\ my'[j].plan = my[j].plan
          /\ pc'[j] \in RunPc => pc[j] \in RunPc
      BY <1>alone, <2>2, <2>3 DEF Rows, RunPc
    <3>2. \A k \in Worker : /\ my'[k].row = my[k].row
                            /\ pc'[k] \in RunPc => pc[k] \in RunPc
      BY <1>alone, <2>2, <2>3 DEF RunPc
    <3>3. \A s \in Record : pc[j] \in RunPc /\ recorded'[s].run = my[j].row.attempt =>
            s \in Selected(my[j].plan)
      <4>1. pc[j] \in RunPc /\ my[i].row.attempt = my[j].row.attempt => j = i
        BY <2>3, <3>1 DEF RunInHand, RunPc
      <4> QED BY <2>2, <2>7, <3>1, <4>1 DEF RunInHand
    <3> QED BY <2>3, <3>1, <3>2, <3>3 DEF RunInHand, Selected
  <2>10. \A s \in Record : recorded'[s].run <= runs'
    BY <2>3, <2>7, <2>8 DEF Rows
  <2> QED BY <1>cursor, <2>3, <2>5, <2>6, <2>9, <2>10 DEF Rows
<1>7. CASE FinalBatch(i)
  <2>1. UNCHANGED <<phase, runs, my>> /\ pc'[i] = "confirm" /\ pc[i] = "final"
    BY <1>t, <1>7 DEF FinalBatch, Goto, At
  <2>2. RowInHand(i)' /\ pc'[i] \notin RunPc
    BY <1>t, <1>row, <2>1
       DEF RowInHand, RowFits, Selected, UnitPc, FinalPc, RunPc
  <2>3. my[i].row.attempt \in 1..runs
    BY <2>1 DEF Rows, RunInHand, RunPc
  <2>4. /\ cursor'.run \in {cursor.run, my[i].row.attempt}
        /\ \A r \in Record : recorded'[r].run \in {recorded[r].run, 0}
    BY <1>7 DEF FinalBatch, NoState, checkpointVars
  <2>5. cursor'.run <= runs
    BY <1>cursor, <2>3, <2>4
  <2> QED BY <1>frame, <2>1, <2>2, <2>4, <2>5
<1>8. CASE SaveSaved(i)
  <2>1. /\ my' = [my EXCEPT ![i].row.saved = TRUE] /\ pc[i] = "saveSaved"
        /\ UNCHANGED <<recorded, cursor, runs>> /\ pc'[i] = "checkResult"
    BY <1>t, <1>8 DEF SaveSaved, Goto, At, checkpointVars
  <2>2. my'[i].row = [my[i].row EXCEPT !.saved = TRUE] /\ my[i].row.complete
    BY <1>t, <1>row, <2>1 DEF My, RowInHand
  <2>3. RowFits(my'[i].row)
    BY <1>t, <1>row, <2>2 DEF RowFits, Row
  <2>4. \A w \in Work : phase'[w].write = phase[w].write \/ phase'[w].write = my'[i].row
    BY <1>t, <1>8 DEF SaveSaved, Save, Phases
  <2> QED BY <1>frame, <1>free, <1>cursor, <2>1, <2>3, <2>4
<1>9. CASE Complete(i)
  <2>1. UNCHANGED <<my, recorded, cursor, runs>> /\ pc'[i] = "release"
    BY <1>t, <1>9 DEF Complete, Goto, checkpointVars
  <2>2. \A w \in Work : phase'[w].write = phase[w].write \/ phase'[w].write = EmptyRow
    BY <1>t, <1>9 DEF Complete, EmptyPhases
  <2> QED BY <1>frame, <1>free, <1>row, <1>cursor, <2>1, <2>2
<1> QED BY <1>1, <1>2, <1>3, <1>4, <1>5, <1>6, <1>7, <1>8, <1>9 DEF Works

\* A Worker whose variables are cleared, or that only begins, has no row.
LEMMA RowsStep == Typed /\ Rows /\ [Next]_vars => Rows'
<1> SUFFICES ASSUME Typed, Rows, [Next]_vars PROVE Rows'
  OBVIOUS
<1>same. ASSUME UNCHANGED <<phase, recorded, cursor, runs, my, pc>> PROVE Rows'
  BY <1>same DEF Rows, RowInHand, RunInHand, RowFits, Left, Selected
\* One Worker comes to a point without a row to speak of.
<1>clear. ASSUME NEW i \in Worker, NEW q \in {"idle", "acquire", "admit"},
                 \A j \in Worker \ {i} : pc'[j] = pc[j] /\ my'[j] = my[j],
                 UNCHANGED <<phase, recorded, cursor, runs>>, pc'[i] = q,
                 my'[i].row \in {my[i].row, EmptyRow}
          PROVE  Rows'
  <2>1. RowFits(my'[i].row)
    BY <1>clear DEF Rows, RowInHand, RowFits, EmptyRow
  <2>2. RowInHand(i)' /\ pc'[i] \notin RunPc
    BY <1>clear, <2>1 DEF RowInHand, RowFits, Selected, UnitPc, FinalPc, RunPc
  <2>3. \A w \in Work : RowFits(phase[w].write)'
    BY <1>clear DEF Rows, RowFits, Selected
  <2> QED BY <1>clear, <2>2, <2>3, RowsFrame DEF Rows
<1>1. ASSUME NEW r \in Record, NEW c \in Content, Edit(r, c) PROVE Rows'
  BY <1>1, <1>same DEF Edit, checkpointVars
<1>2. ASSUME NEW i \in Worker, NEW w \in Work, NEW m \in queued[w],
             Deliver(i, w, m) \/ DeliverTwice(i, w, m)
      PROVE  Rows'
  <2>1. UNCHANGED <<phase, recorded, cursor, runs>> /\ pc'[i] = "acquire"
        /\ \A j \in Worker \ {i} : pc'[j] = pc[j] /\ my'[j] = my[j]
    BY <1>2 DEF Deliver, DeliverTwice, Receive, Goto, Typed, TypeOK, checkpointVars
  <2>2. my'[i].row = EmptyRow
    <3>1. my' = [my EXCEPT ![i] = [Fresh EXCEPT !.work = w, !.message = m]]
      BY <1>2 DEF Deliver, DeliverTwice, Receive
    <3> QED BY <3>1 DEF Fresh, Typed, TypeOK
  <2> QED BY <1>clear, <2>1, <2>2
<1>3. ASSUME NEW i \in Worker, Step(i) \/ Fault(i) PROVE Rows'
  <2>alone. \A j \in Worker \ {i} : pc'[j] = pc[j] /\ my'[j] = my[j]
    BY <1>3, Alone
  <2>1. CASE Quiet(i)
    BY <2>1, RowsQuiet
  <2>2. CASE Gone(i)
    <3>1. /\ UNCHANGED <<phase, recorded, cursor, runs>> /\ pc'[i] = "idle"
          /\ my'[i].row = EmptyRow
      BY <2>2 DEF Gone, Leave, Goto, kept, Fresh, Typed, TypeOK
    <3> QED BY <1>clear, <2>alone, <3>1
  <2>3. CASE LeaseLost
    BY <1>same, <2>3 DEF LeaseLost, kept
  <2>4. CASE Claims(i)
    <3>1. /\ UNCHANGED <<phase, recorded, cursor, runs, my>> /\ pc'[i] = "admit"
      BY <2>4 DEF Claims, Typed, TypeOK
    <3> QED BY <1>clear, <2>alone, <3>1
  <2> QED BY <1>3, <2>1, <2>2, <2>3, <2>4, Sorted, RowsStages, RowsWorks
<1>4. ASSUME NEW w \in Work, NEW m \in queued[w], DeadLetter(w, m) PROVE Rows'
  BY <1>4, <1>same DEF DeadLetter, checkpointVars
<1>5. CASE UNCHANGED vars
  BY <1>5, <1>same DEF vars
<1> QED BY <1>1, <1>2, <1>3, <1>4, <1>5 DEF Next

(***************************************************************************)
(* Lark, the plans and the recorded fingerprints follow the source.        *)
(***************************************************************************)
\* What is compared are numbers.
LEMMA Numbers ==
  ASSUME Typed, NEW r \in Record
  PROVE  /\ source[r] \in Nat /\ lark[r] \in Nat /\ recorded[r].content \in Nat
         /\ \A w \in Work : /\ phase[w].staged[r] \in Nat
                            /\ phase[w].plan # NoPlan => phase[w].plan.content[r] \in Nat
         /\ \A i \in Worker : /\ my[i].held \in Nat
                              /\ my[i].plan # NoPlan => my[i].plan.content[r] \in Nat
                              /\ my[i].row.of # NoPlan => my[i].row.of.content[r] \in Nat
<1>1. /\ \A w \in Work : phase[w] \in Phases
      /\ \A i \in Worker : my[i] \in My
  BY DEF Typed, TypeOK
<1>2. \A w \in Work : /\ phase[w].staged \in [Record -> Content]
                      /\ phase[w].plan \in Plan \cup {NoPlan}
  BY <1>1 DEF Phases
<1>3. \A i \in Worker : /\ my[i].held \in Content
                        /\ my[i].plan \in Plan \cup {NoPlan}
                        /\ my[i].row \in Row
  BY <1>1 DEF My
<1>4. \A i \in Worker : my[i].row.of \in Plan \cup {NoPlan}
  BY <1>3 DEF Row
<1>5. \A plan \in Plan : plan.content[r] \in Content
  BY DEF Plan
<1>6. Content \subseteq Nat
  BY DEF Content
<1>7. /\ source[r] \in Content /\ lark[r] \in Content /\ recorded[r].content \in Content
  BY DEF Typed, TypeOK
<1> QED BY <1>2, <1>3, <1>4, <1>5, <1>6, <1>7

\* A Worker's hands after a step that gives it nothing new.
HandKept(i) ==
    /\ my'[i].work = my[i].work /\ my'[i].plan = my[i].plan
    /\ my'[i].held = my[i].held /\ my'[i].differs = my[i].differs
    /\ my'[i].row.of = my[i].row.of /\ my'[i].row.rows = my[i].row.rows
    /\ \A r \in Record : /\ Reading(i, r)' => Reading(i, r)
                         /\ Writing(i, r)' => Writing(i, r)
    /\ pc'[i] \in UnitPc \cup {"savePage"} /\ lease' = i => lease = i
HandEmpty(i) ==
    /\ my'[i].plan = NoPlan /\ my'[i].row.rows = {}
    /\ pc'[i] \notin UnitPc \cup {"savePage"}
\* A Work's phases after a step that plans and stages nothing.
PhasesKept(w) ==
    \/ phase'[w] = EmptyPhases
    \/ /\ phase'[w].staged = phase[w].staged /\ phase'[w].plan = phase[w].plan
       /\ \/ /\ phase'[w].write.of = phase[w].write.of
             /\ phase'[w].write.rows = phase[w].write.rows
          \/ \E i \in Worker : /\ phase'[w].write.of = my[i].row.of
                               /\ phase'[w].write.rows = my[i].row.rows

\* A step that leaves source, Lark and fence alone, and gives no Worker and no
\* Work anything newer, keeps Forward.
LEMMA ForwardFrame ==
  ASSUME Typed, Forward, UNCHANGED <<source, reverted, lark, fence>>,
         late \subseteq late',
         \A r \in Record \ (late' \cup reverted) : recorded'[r].content <= lark[r],
         \A w \in Work : PhasesKept(w),
         \A i \in Worker : HandKept(i) \/ HandEmpty(i)
  PROVE  Forward'
<1> USE DEF Under
<1>nothing. /\ EmptyPhases.plan = NoPlan /\ EmptyPhases.write.rows = {}
            /\ \A r \in Record : EmptyPhases.staged[r] = 0
  BY DEF EmptyPhases, EmptyRow, Nothing
<1>1. ASSUME NEW r \in Record \ reverted PROVE Bounded(r)'
  <2>1. Bounded(r) /\ source[r] \in Nat
    BY Numbers DEF Forward
  <2>2. ASSUME NEW w \in Work
        PROVE  phase'[w].staged[r] <= source[r] /\ Under(phase'[w].plan, r, source[r])
    BY <1>nothing, <2>1 DEF PhasesKept, Bounded
  <2>3. ASSUME NEW i \in Worker
        PROVE  /\ Under(my'[i].plan, r, source[r])
               /\ Reading(i, r)' \/ Writing(i, r)' => my'[i].held <= source[r]
    <3>1. CASE HandKept(i)
      BY <2>1, <3>1 DEF HandKept, Bounded
    <3>2. CASE HandEmpty(i)
      BY <3>2 DEF HandEmpty, Reading, Writing
    <3> QED BY <3>1, <3>2
  <2> QED BY <2>1, <2>2, <2>3 DEF Bounded
<1>2. ASSUME NEW r \in Record \ (late' \cup reverted)
      PROVE  /\ StagedIsNew(r)' /\ Shown(r)'
             /\ \A i \in Worker : PageIsNew(i, r)' /\ UnitIsNew(i, r)'
  <2>1. /\ StagedIsNew(r) /\ Shown(r)
        /\ \A i \in Worker : PageIsNew(i, r) /\ UnitIsNew(i, r)
    BY DEF Forward
  <2>2. StagedIsNew(r)'
    <3>1. ASSUME NEW w \in Work, phase'[w].staged[r] # 0
          PROVE  /\ fence = w => lark[r] <= phase'[w].staged[r]
                 /\ Under(phase'[w].plan, r, phase'[w].staged[r])
                 /\ \A i \in Worker : my'[i].work = w =>
                       Under(my'[i].plan, r, phase'[w].staged[r])
      <4>1. phase'[w].staged = phase[w].staged /\ phase'[w].plan = phase[w].plan
        BY <1>nothing, <3>1 DEF PhasesKept
      <4>2. \A i \in Worker : my'[i].work = w /\ my'[i].plan # NoPlan =>
              my[i].work = w /\ my'[i].plan = my[i].plan
        BY DEF HandKept, HandEmpty
      <4> QED BY <2>1, <3>1, <4>1, <4>2 DEF StagedIsNew
    <3> QED BY <3>1 DEF StagedIsNew
  <2>3. Shown(r)'
    <3>1. ASSUME NEW i \in Worker PROVE RowIsShown(my[i].row, r)'
      BY <2>1 DEF Shown, RowIsShown, HandKept, HandEmpty
    <3>2. ASSUME NEW w \in Work PROVE RowIsShown(phase[w].write, r)'
      BY <1>nothing, <2>1 DEF Shown, RowIsShown, PhasesKept
    <3> QED BY <3>1, <3>2 DEF Shown
  <2>4. ASSUME NEW i \in Worker PROVE PageIsNew(i, r)' /\ UnitIsNew(i, r)'
    <3>1. CASE HandEmpty(i)
      BY <3>1 DEF HandEmpty, PageIsNew, UnitIsNew, Reading, Writing
    <3>2. CASE HandKept(i)
      <4>1. ASSUME Current(i)', Reading(i, r)' PROVE PageIsNew(i, r)'
        <5>1. Current(i) /\ Reading(i, r)
          BY <3>2, <4>1 DEF HandKept, Current, Reading
        <5>2. /\ lark[r] <= my[i].held
              /\ Under(phase[my[i].work].plan, r, my[i].held)
              /\ \A j \in Worker : my[j].work = my[i].work =>
                    Under(my[j].plan, r, my[i].held)
          BY <2>1, <5>1 DEF PageIsNew
        <5>3. pc[i] # "idle" /\ my[i].work \in Work
          BY <5>1 DEF Reading, Typed, TypeOK
        <5>4. Under(phase'[my[i].work].plan, r, my[i].held)
          BY <1>nothing, <5>2, <5>3 DEF PhasesKept
        <5>5. \A j \in Worker : my'[j].work = my[i].work =>
                Under(my'[j].plan, r, my[i].held)
          BY <5>2 DEF HandKept, HandEmpty
        <5> QED BY <3>2, <5>2, <5>4, <5>5 DEF PageIsNew, HandKept
      <4>2. ASSUME Writing(i, r)', my'[i].held # 0 PROVE UnitIsNew(i, r)'
        <5>1. Writing(i, r) /\ (Current(i)' => Current(i)) /\ my[i].held # 0
          BY <3>2, <4>2 DEF HandKept, Current, Writing
        <5>2. pc[i] # "idle" /\ my[i].work \in Work
          BY <5>1 DEF Writing, UnitPc, Typed, TypeOK
        <5>3. phase'[my[i].work].staged[r] \in {0, phase[my[i].work].staged[r]}
          BY <1>nothing, <5>2 DEF PhasesKept
        <5> QED BY <2>1, <3>2, <5>1, <5>3 DEF UnitIsNew, HandKept
      <4> QED BY <4>1, <4>2 DEF PageIsNew, UnitIsNew
    <3> QED BY <3>1, <3>2
  <2> QED BY <2>2, <2>3, <2>4
<1> QED BY <1>1, <1>2 DEF Forward

\* A current Worker takes something in hand.
LEMMA ForwardHand ==
  ASSUME Typed, Forward, NEW i \in Worker, Current(i),
         UNCHANGED <<kept, lease>>, my'[i].work = my[i].work,
         \A j \in Worker \ {i} : pc'[j] = pc[j] /\ my'[j] = my[j],
         \A r \in Record \ reverted :
            /\ Under(my'[i].plan, r, source[r])
            /\ Reading(i, r)' \/ Writing(i, r)' => my'[i].held <= source[r],
         \A r \in Record \ (late \cup reverted) :
            /\ phase[my[i].work].staged[r] # 0 =>
                 Under(my'[i].plan, r, phase[my[i].work].staged[r])
            /\ RowIsShown(my'[i].row, r)
            /\ PageIsNew(i, r)' /\ UnitIsNew(i, r)'
  PROVE  Forward'
<1> USE DEF kept
<1>1. ASSUME NEW r \in Record \ reverted PROVE Bounded(r)'
  <2>1. Bounded(r)
    BY DEF Forward
  <2>2. ASSUME NEW j \in Worker
        PROVE  /\ Under(my[j].plan, r, source[r])'
               /\ Reading(j, r)' \/ Writing(j, r)' => my'[j].held <= source[r]
    BY <2>1 DEF Bounded, Reading, Writing, Under
  <2> QED BY <2>1, <2>2 DEF Bounded, Under
<1>2. ASSUME NEW r \in Record \ (late \cup reverted)
      PROVE  /\ StagedIsNew(r)' /\ Shown(r)'
             /\ \A j \in Worker : PageIsNew(j, r)' /\ UnitIsNew(j, r)'
  <2>1. /\ StagedIsNew(r) /\ Shown(r)
        /\ \A j \in Worker : PageIsNew(j, r) /\ UnitIsNew(j, r)
    BY DEF Forward
  <2>2. StagedIsNew(r)'
    BY <2>1 DEF StagedIsNew, Under
  <2>3. Shown(r)'
    BY <2>1 DEF Shown, RowIsShown, Under
  <2>4. ASSUME NEW j \in Worker \ {i} PROVE PageIsNew(j, r)' /\ UnitIsNew(j, r)'
    <3>1. ~Current(j) /\ ~Current(j)'
      BY DEF Current
    <3> QED BY <2>1, <3>1 DEF PageIsNew, UnitIsNew, Writing, Under
  <2> QED BY <2>2, <2>3, <2>4
<1> QED BY <1>1, <1>2 DEF Forward

\* What a current Worker reads and loads is new.
LEMMA ForwardStages ==
  ASSUME Typed, Rows, Forward, NEW i \in Worker, Step(i) \/ Fault(i), Stages(i)
  PROVE  Forward'
<1> USE DEF Under
<1> DEFINE w == my[i].work
           p == phase[w]
<1>alone. \A j \in Worker \ {i} : pc'[j] = pc[j] /\ my'[j] = my[j]
  BY Alone
<1>t. /\ my[i] \in My /\ my \in [Worker -> My] /\ pc \in [Worker -> Pc]
      /\ w \in Work /\ p \in Phases /\ my[i].row \in Row
      /\ p.write \in Row /\ p.staged \in [Record -> Content]
  BY InWork DEF Typed, TypeOK, My, Phases
<1>same. \A j \in Worker \ {i} : HandKept(j) \/ lease' # lease
  BY <1>alone DEF HandKept, Reading, Writing
<1>numbers. ASSUME NEW r \in Record
            PROVE  /\ lark[r] \in Nat /\ source[r] \in Nat /\ p.staged[r] \in Nat
                   /\ recorded[r].content <= recorded[r].content
  BY <1>t, Numbers
<1>shown. \A r \in Record \ (late \cup reverted) : recorded[r].content <= lark[r]
  BY DEF Forward, Shown
\* The plan that is stored, and the row.
<1>plan. /\ \A r \in Record \ reverted : Under(p.plan, r, source[r])
         /\ \A r \in Record \ (late \cup reverted) :
               /\ p.staged[r] # 0 => Under(p.plan, r, p.staged[r])
               /\ RowIsShown(p.write, r)
  BY <1>t DEF Forward, Bounded, StagedIsNew, Shown
<1>1. CASE AdmitsPage(i) \/ AdmitsReplay(i)
  <2>1. HandKept(i) /\ UNCHANGED <<kept, lease>>
    <3>1. CASE AdmitsPage(i)
      BY <1>t, <3>1 DEF AdmitsPage, HandKept, Reading, Writing, UnitPc, My
    <3>2. CASE AdmitsReplay(i)
      BY <1>t, <3>2 DEF AdmitsReplay, HandKept, Reading, Writing, UnitPc, My
    <3> QED BY <1>1, <3>1, <3>2
  <2>2. \A v \in Work : PhasesKept(v)
    BY <2>1 DEF PhasesKept, kept
  <2> QED BY <1>same, <1>shown, <2>1, <2>2, ForwardFrame DEF kept
<1>2. CASE ReadPage(i)
  <2> DEFINE r == my[i].page + 1
  <2>1. /\ my' = [my EXCEPT ![i].held = source[my[i].page + 1]]
        /\ pc' = [pc EXCEPT ![i] = "savePage"] /\ Current(i)
        /\ UNCHANGED <<kept, lease>>
    BY <1>2 DEF ReadPage, Goto, kept, sourceVars, checkpointVars, ghostVars
  <2>2. /\ my'[i].work = w /\ my'[i].plan = my[i].plan /\ my'[i].row = my[i].row
        /\ my'[i].page = my[i].page /\ my'[i].held = source[my[i].page + 1]
        /\ pc'[i] = "savePage"
    BY <1>t, <2>1 DEF My
  <2>3. ASSUME NEW s \in Record \ reverted
        PROVE  /\ Under(my'[i].plan, s, source[s])
               /\ Reading(i, s)' \/ Writing(i, s)' => my'[i].held <= source[s]
    BY <1>numbers, <2>2 DEF Forward, Bounded, Reading, Writing, UnitPc
  <2>4. ASSUME NEW s \in Record \ (late \cup reverted)
        PROVE  /\ p.staged[s] # 0 => Under(my'[i].plan, s, p.staged[s])
               /\ RowIsShown(my'[i].row, s)
               /\ PageIsNew(i, s)' /\ UnitIsNew(i, s)'
    <3>1. /\ p.staged[s] # 0 => Under(my'[i].plan, s, p.staged[s])
          /\ RowIsShown(my'[i].row, s)
      BY <1>t, <2>2 DEF Forward, StagedIsNew, Shown
    <3>2. UnitIsNew(i, s)'
      BY <2>2 DEF UnitIsNew, Writing, UnitPc
    <3>3. ASSUME Reading(i, s)'
          PROVE  /\ lark[s] <= source[s] /\ Under(p.plan, s, source[s])
                 /\ my'[i].held = source[s]
                 /\ \A j \in Worker : Under(my[j].plan, s, source[s])
      BY <1>t, <2>2, <3>3 DEF Forward, Bounded, Reading
    <3>4. \A j \in Worker : my'[j].plan = my[j].plan
      BY <1>alone, <2>2
    <3>5. PageIsNew(i, s)'
      BY <2>1, <2>2, <3>3, <3>4 DEF PageIsNew, kept
    <3> QED BY <3>1, <3>2, <3>5
  <2> QED BY <1>alone, <2>1, <2>2, <2>3, <2>4, ForwardHand
<1>3. CASE SavePage(i)
  <2> DEFINE r == my[i].page + 1
             held == my[i].held
  <2>1. /\ UNCHANGED <<source, reverted, lark, fence, lease, recorded, my>>
        /\ pc' = [pc EXCEPT ![i] = "checkContinue"] /\ pc[i] = "savePage"
        /\ late' = IF Current(i) THEN late ELSE late \cup {r}
        /\ phase' = [phase EXCEPT ![w].pages = r, ![w].staged[r] = held]
    BY <1>3 DEF SavePage, Touch, Goto, At, sourceVars, checkpointVars
  <2>keep. UNCHANGED <<source, reverted, lark, fence, lease, recorded, my>>
    BY <2>1
  <2>2. r \in Record /\ held \in Nat
    BY <1>t, <2>1 DEF Typed, Local, Record, My, Content
  <2>3. /\ \A v \in Work : /\ phase'[v].plan = phase[v].plan
                           /\ phase'[v].write = phase[v].write
        /\ \A v \in Work, s \in Record :
              phase'[v].staged[s] = IF v = w /\ s = r THEN held ELSE phase[v].staged[s]
    <3>1. \A v \in Work : phase[v] \in Phases /\ phase[v].staged \in [Record -> Content]
      BY DEF Typed, TypeOK, Phases
    <3>2. phase'[w] = [phase[w] EXCEPT !.pages = r, !.staged[r] = held]
          /\ \A v \in Work \ {w} : phase'[v] = phase[v]
      BY <1>t, <2>1 DEF Typed, TypeOK
    <3>3. /\ phase'[w].plan = phase[w].plan /\ phase'[w].write = phase[w].write
          /\ phase'[w].staged = [phase[w].staged EXCEPT ![r] = held]
      BY <1>t, <3>2 DEF Phases
    <3> QED BY <1>t, <2>2, <3>1, <3>2, <3>3
  <2>4. Reading(i, r) /\ ~Reading(i, r)' /\ pc'[i] = "checkContinue"
    BY <1>t, <2>1 DEF Reading
  <2>5. ASSUME NEW s \in Record \ reverted PROVE Bounded(s)'
    <3>1. Bounded(s)
      BY DEF Forward
    <3>2. \A v \in Work : phase'[v].staged[s] <= source[s]
      BY <2>3, <2>4, <3>1 DEF Bounded
    <3>3. \A j \in Worker : (Reading(j, s)' => Reading(j, s))
                              /\ (Writing(j, s)' => Writing(j, s))
      BY <1>alone, <2>1, <2>4 DEF Reading, Writing, UnitPc
    <3> QED BY <2>1, <2>3, <3>1, <3>2, <3>3 DEF Bounded
  <2>6. ASSUME NEW s \in Record \ (late' \cup reverted')
        PROVE  /\ StagedIsNew(s)' /\ Shown(s)'
               /\ \A j \in Worker : PageIsNew(j, s)' /\ UnitIsNew(j, s)'
    <3>1. s \in Record \ (late \cup reverted) /\ (s = r => Current(i))
      BY <2>1
    <3>2. /\ StagedIsNew(s) /\ Shown(s)
          /\ \A j \in Worker : PageIsNew(j, s) /\ UnitIsNew(j, s)
      BY <3>1 DEF Forward
    <3>3. Shown(s)'
      BY <2>1, <2>3, <3>2 DEF Shown, RowIsShown
    <3>4. StagedIsNew(s)'
      <4>1. s = r => /\ lark[s] <= held /\ Under(phase[w].plan, s, held)
                     /\ \A j \in Worker : my[j].work = w => Under(my[j].plan, s, held)
        BY <2>4, <3>1, <3>2 DEF PageIsNew
      <4>2. ASSUME NEW v \in Work, phase'[v].staged[s] # 0
            PROVE  /\ fence = v => lark[s] <= phase'[v].staged[s]
                   /\ Under(phase'[v].plan, s, phase'[v].staged[s])
                   /\ \A j \in Worker : my[j].work = v =>
                         Under(my[j].plan, s, phase'[v].staged[s])
        <5>1. phase'[v].plan = phase[v].plan
          BY <2>3
        <5>2. CASE v = w /\ s = r
          <6>1. phase'[v].staged[s] = held
            BY <2>3, <5>2
          <6> QED BY <4>1, <5>1, <5>2, <6>1
        <5>3. CASE ~(v = w /\ s = r)
          <6>1. phase'[v].staged[s] = phase[v].staged[s]
            BY <2>3, <5>3
          <6> QED BY <3>2, <4>2, <5>1, <6>1 DEF StagedIsNew
        <5> QED BY <5>2, <5>3
      <4> QED BY <2>keep, <4>2 DEF StagedIsNew
    <3>5. ASSUME NEW j \in Worker PROVE PageIsNew(j, s)' /\ UnitIsNew(j, s)'
      <4>1. CASE j = i
        BY <2>4, <4>1 DEF PageIsNew, UnitIsNew, Reading, Writing, UnitPc
      <4>2. CASE j # i
        <5>1. pc'[j] = pc[j] /\ my'[j] = my[j] /\ (Current(j)' => Current(j))
          BY <1>alone, <2>1, <4>2 DEF Current
        <5>2. Current(j) => s # r
          BY <3>1, <4>2 DEF Current
        <5>3. Writing(j, s) => my[j].work \in Work
          BY DEF Writing, UnitPc, Typed, TypeOK
        <5>4. Reading(j, s) => my[j].work \in Work
          BY DEF Reading, Typed, TypeOK
        <5>5. PageIsNew(j, s)'
          <6>1. ASSUME Reading(j, s)', Current(j)'
                PROVE  /\ lark[s] <= my[j].held
                       /\ Under(phase'[my[j].work].plan, s, my[j].held)
                       /\ \A k \in Worker : my[k].work = my[j].work =>
                             Under(my[k].plan, s, my[j].held)
            <7>1. Reading(j, s) /\ Current(j)
              BY <2>keep, <5>1, <6>1 DEF Reading
            <7>2. phase'[my[j].work].plan = phase[my[j].work].plan
              BY <2>3, <5>4, <7>1
            <7> QED BY <3>2, <7>1, <7>2 DEF PageIsNew
          <6> QED BY <2>keep, <6>1 DEF PageIsNew
        <5>6. UnitIsNew(j, s)'
          <6>1. ASSUME Writing(j, s)', my[j].held # 0
                PROVE  /\ Under(my[j].row.of, s, my[j].held)
                       /\ ~my[j].differs => my[j].held <= lark[s]
                       /\ Current(j)' => lark[s] <= my[j].held
                       /\ Current(j)' /\ phase'[my[j].work].staged[s] # 0 =>
                            my[j].held <= phase'[my[j].work].staged[s]
            <7>1. Writing(j, s)
              BY <2>keep, <5>1, <6>1 DEF Writing
            <7>2. Current(j) => phase'[my[j].work].staged[s] = phase[my[j].work].staged[s]
              BY <2>3, <5>2, <5>3, <7>1
            <7> QED BY <3>2, <5>1, <6>1, <7>1, <7>2 DEF UnitIsNew
          <6> QED BY <2>keep, <6>1 DEF UnitIsNew
        <5> QED BY <5>5, <5>6
      <4> QED BY <4>1, <4>2
    <3> QED BY <3>2, <3>3, <3>4, <3>5
  <2> QED BY <2>1, <2>5, <2>6 DEF Forward
\* A plan that is loaded, and a row that counts what is written.
<1>load. ASSUME NEW plan, NEW row, NEW q, Loads(i, plan, row, q),
                q \notin UnitPc \cup {"savePage"},
                \A r \in Record \ reverted : Under(plan, r, source[r]),
                \A r \in Record \ (late \cup reverted) :
                   /\ p.staged[r] # 0 => Under(plan, r, p.staged[r])
                   /\ RowIsShown(row, r)
         PROVE  Forward'
  <2>1. /\ my'[i].work = w /\ my'[i].plan = plan /\ my'[i].row = row /\ pc'[i] = q
        /\ Current(i) /\ UNCHANGED <<kept, lease>>
    BY <1>t, <1>load DEF Loads, My
  <2>2. \A r : ~Reading(i, r)' /\ ~Writing(i, r)'
    BY <1>load, <2>1 DEF Reading, Writing
  <2>3. \A r : PageIsNew(i, r)' /\ UnitIsNew(i, r)'
    BY <2>2 DEF PageIsNew, UnitIsNew
  <2> QED BY <1>alone, <1>load, <2>1, <2>2, <2>3, ForwardHand
<1>4. CASE LoadsDone(i)
  BY <1>4, <1>load, <1>plan DEF LoadsDone, UnitPc
<1>empty. \A r \in Record : RowIsShown(EmptyRow, r)
  BY DEF RowIsShown, EmptyRow
<1>5. CASE LoadsNew(i)
  <2>1. PICK full \in BOOLEAN : Loads(i, PlanOf(w, full), EmptyRow, "checkPlan")
    BY <1>5 DEF LoadsNew
  <2>2. \A r \in Record : PlanOf(w, full).content[r] \in {0, p.staged[r]}
    BY DEF PlanOf
  <2>3. \A r \in Record \ reverted : p.staged[r] <= source[r]
    BY <1>t DEF Forward, Bounded
  <2>4. /\ \A r \in Record \ reverted : Under(PlanOf(w, full), r, source[r])
        /\ \A r \in Record : Under(PlanOf(w, full), r, p.staged[r])
    BY <1>numbers, <2>2, <2>3
  <2> QED BY <1>load, <1>empty, <2>1, <2>4 DEF UnitPc
<1>6. CASE LoadsPreflight(i)
  BY <1>6, <1>load, <1>plan, <1>empty DEF LoadsPreflight, UnitPc
<1>of. ASSUME p.plan # NoPlan, Compatible(p.write.of, p.plan)
       PROVE  \A r \in Record \ (late \cup reverted) :
                 RowIsShown([p.write EXCEPT !.of = p.plan], r)
  <2>1. p.write.of = p.plan \/ p.write.rows = {}
    BY <1>t, <1>of DEF Rows, RowFits, Compatible
  <2>2. /\ [p.write EXCEPT !.of = p.plan].of = p.plan
        /\ [p.write EXCEPT !.of = p.plan].rows = p.write.rows
    BY <1>t DEF Row
  <2> QED BY <1>plan, <2>1, <2>2 DEF RowIsShown
<1>7. CASE LoadsEnd(i)
  <2>1. /\ p.plan # NoPlan /\ Compatible(p.write.of, p.plan)
        /\ Loads(i, p.plan, [p.write EXCEPT !.of = p.plan],
                 IF p.write.complete THEN "checkAttempt" ELSE "checkFinal")
    BY <1>7 DEF LoadsEnd
  <2>2. (IF p.write.complete THEN "checkAttempt" ELSE "checkFinal")
          \notin UnitPc \cup {"savePage"}
    BY DEF UnitPc
  <2> QED BY <1>load, <1>of, <1>plan, <2>1, <2>2
<1>8. CASE LoadsUnit(i)
  <2> DEFINE r == p.write.next + 1
             row == [p.write EXCEPT !.of = p.plan]
  <2>1. /\ p.plan # NoPlan /\ Compatible(p.write.of, p.plan) /\ p.write.next < Records
        /\ Current(i) /\ UNCHANGED <<kept, lease>> /\ pc'[i] = "checkUnit"
        /\ my'[i].work = w /\ my'[i].plan = p.plan /\ my'[i].row = row
        /\ my'[i].held = p.staged[r] /\ my'[i].differs = Differs(r, p.staged[r])
    BY <1>t, <1>8 DEF LoadsUnit, My
  <2>2. row.of = p.plan /\ row.next = p.write.next
    BY <1>t DEF Row
  <2>3. ASSUME NEW s \in Record \ reverted
        PROVE  /\ Under(my'[i].plan, s, source[s])
               /\ Reading(i, s)' \/ Writing(i, s)' => my'[i].held <= source[s]
    <3>1. p.staged[s] <= source[s]
      BY <1>t DEF Forward, Bounded
    <3> QED BY <1>plan, <2>1, <2>2, <3>1 DEF Reading, Writing
  <2>4. ASSUME NEW s \in Record \ (late \cup reverted)
        PROVE  /\ p.staged[s] # 0 => Under(my'[i].plan, s, p.staged[s])
               /\ RowIsShown(my'[i].row, s)
               /\ PageIsNew(i, s)' /\ UnitIsNew(i, s)'
    <3>1. PageIsNew(i, s)'
      BY <2>1 DEF PageIsNew, Reading
    <3>2. ASSUME Writing(i, s)', p.staged[s] # 0 PROVE UnitIsNew(i, s)'
      <4>1. s = r
        BY <2>1, <2>2, <3>2 DEF Writing
      <4>2. Under(p.plan, s, p.staged[s]) /\ (fence = w => lark[s] <= p.staged[s])
        BY <1>t, <3>2 DEF Forward, StagedIsNew
      <4>3. ~Differs(r, p.staged[r]) => p.staged[s] <= lark[s]
        BY <1>numbers, <4>1 DEF Differs
      <4>4. UNCHANGED <<lark, fence, phase>> /\ fence = w
        BY <2>1 DEF kept, Current
      <4>5. /\ my'[i].held = p.staged[s] /\ my'[i].row.of = p.plan
            /\ my'[i].differs = Differs(r, p.staged[r]) /\ my'[i].work = w
            /\ p.staged[s] <= p.staged[s]
        BY <1>numbers, <2>1, <2>2, <4>1
      <4> HIDE DEF p, w
      <4>6. /\ Under(my'[i].row.of, s, my'[i].held)
            /\ ~my'[i].differs => my'[i].held <= lark[s]
            /\ lark[s] <= my'[i].held
            /\ my'[i].held <= p.staged[s]
        BY <4>2, <4>3, <4>4, <4>5
      <4> USE DEF p, w
      <4> QED BY <2>1, <4>4, <4>6 DEF UnitIsNew
    <3>3. Writing(i, s)' /\ my'[i].held # 0 => p.staged[s] # 0
      BY <2>1, <2>2 DEF Writing
    <3>4. UnitIsNew(i, s)'
      BY <3>2, <3>3 DEF UnitIsNew
    <3> QED BY <1>of, <1>plan, <2>1, <3>1, <3>4
  <2> QED BY <1>alone, <2>1, <2>3, <2>4, ForwardHand
<1> QED BY <1>1, <1>2, <1>3, <1>4, <1>5, <1>6, <1>7, <1>8 DEF Stages

\* A unit writes to Lark what is no older than what Lark has.
LEMMA ForwardUnit ==
  ASSUME Typed, Rows, Forward, NEW i \in Worker, Step(i) \/ Fault(i), WriteUnit(i)
  PROVE  /\ Forward'
         /\ \A r \in Record \ (late' \cup reverted) : lark[r] <= lark'[r]
<1> USE DEF Under
<1> DEFINE w == my[i].work
           r == my[i].row.next + 1
           held == my[i].held
           of == my[i].row.of
<1>alone. \A j \in Worker \ {i} : pc'[j] = pc[j] /\ my'[j] = my[j]
  BY Alone
<1>1. /\ pc[i] = "write" /\ pc' = [pc EXCEPT ![i] = "checkProgress"]
      /\ UNCHANGED <<source, reverted, lease, fence, phase, recorded>>
  BY DEF WriteUnit, At, Goto, sourceVars, checkpointVars
<1>t. /\ my[i] \in My /\ my \in [Worker -> My] /\ pc \in [Worker -> Pc]
      /\ w \in Work /\ my[i].row \in Row /\ my[i].row.next < Records
  BY <1>1 DEF Typed, TypeOK, Local, My
<1>2. r \in Record /\ held \in Nat
  BY <1>t DEF Record, Row, My, Content
<1>3. Writing(i, r) /\ of # NoPlan
  BY <1>1 DEF Writing, UnitPc, Rows, RowInHand
<1>4. /\ my'[i].work = w /\ my'[i].plan = my[i].plan /\ my'[i].row.of = of
      /\ my'[i].row.rows \in {my[i].row.rows, my[i].row.rows \cup {r}}
      /\ my'[i].row.rows # my[i].row.rows => held # 0
      /\ pc'[i] = "checkProgress"
  BY <1>t, <1>1 DEF WriteUnit, My, Row
<1>5. /\ lark' \in {lark, [lark EXCEPT ![r] = held]}
      /\ late \subseteq late'
      /\ lark' # lark => held # 0 /\ (~Current(i) => r \in late')
      /\ my'[i].row.rows # my[i].row.rows =>
           ~my[i].differs \/ lark' = [lark EXCEPT ![r] = held]
  BY <1>t DEF WriteUnit, Touch, My, Row
<1>6. /\ lark \in [Record -> Content] /\ \A s \in Record : lark[s] \in Nat /\ source[s] \in Nat
  BY Numbers DEF Typed, TypeOK
<1>7. \A s \in Record : lark'[s] = IF s = r /\ lark' # lark THEN held ELSE lark[s]
  BY <1>2, <1>5, <1>6
<1>8. r \notin late \cup reverted /\ held # 0 =>
        /\ Under(of, r, held)
        /\ ~my[i].differs => held <= lark[r]
        /\ Current(i) => lark[r] <= held
        /\ Current(i) /\ phase[w].staged[r] # 0 => held <= phase[w].staged[r]
  BY <1>2, <1>3 DEF Forward, UnitIsNew
\* Where Lark is written by a current Worker, and where it is not.
<1>9. ASSUME NEW s \in Record \ (late' \cup reverted)
      PROVE  /\ s \in Record \ (late \cup reverted)
             /\ lark'[s] # lark[s] => s = r /\ Current(i) /\ held # 0 /\ lark'[s] = held
             /\ lark[s] <= lark'[s]
  BY <1>5, <1>6, <1>7, <1>8
<1>10. ASSUME NEW s \in Record \ reverted PROVE Bounded(s)'
  <2>1. Bounded(s)
    BY DEF Forward
  <2>2. lark'[s] <= source[s]
    BY <1>3, <1>7, <2>1 DEF Bounded
  <2>3. ASSUME NEW j \in Worker
        PROVE  /\ my'[j].plan = my[j].plan
               /\ Reading(j, s)' \/ Writing(j, s)' => my'[j].held <= source[s]
    <3>1. CASE j = i
      BY <1>4, <3>1 DEF Reading, Writing, UnitPc
    <3>2. CASE j # i
      BY <1>alone, <2>1, <3>2 DEF Bounded, Reading, Writing
    <3> QED BY <3>1, <3>2
  <2> QED BY <1>1, <2>1, <2>2, <2>3 DEF Bounded
<1>11. ASSUME NEW s \in Record \ (late' \cup reverted)
       PROVE  /\ StagedIsNew(s)' /\ Shown(s)'
              /\ \A j \in Worker : PageIsNew(j, s)' /\ UnitIsNew(j, s)'
  <2>1. /\ StagedIsNew(s) /\ Shown(s) /\ lark[s] <= lark'[s]
        /\ \A j \in Worker : PageIsNew(j, s) /\ UnitIsNew(j, s)
    BY <1>9 DEF Forward
  <2>n. /\ lark[s] \in Nat /\ lark'[s] \in Nat /\ recorded[s].content \in Nat
        /\ \A v \in Work : phase[v].staged[s] \in Nat
    BY <1>2, <1>7, Numbers
  <2>2. StagedIsNew(s)'
    <3>1. ASSUME NEW v \in Work, phase[v].staged[s] # 0, fence = v
          PROVE  lark'[s] <= phase[v].staged[s]
      <4>1. CASE lark'[s] = lark[s]
        BY <2>1, <3>1, <4>1 DEF StagedIsNew
      <4>2. CASE lark'[s] # lark[s]
        BY <1>8, <1>9, <3>1, <4>2 DEF Current
      <4> QED BY <4>1, <4>2
    <3>2. \A j \in Worker : my'[j].plan = my[j].plan /\ my'[j].work = my[j].work
      BY <1>alone, <1>4
    <3> QED BY <1>1, <2>1, <3>1, <3>2 DEF StagedIsNew
  <2>3. Shown(s)'
    <3>1. ASSUME NEW row, RowIsShown(row, s), row.of # NoPlan => row.of.content[s] \in Nat
          PROVE  s \in row.rows => Under(row.of, s, lark'[s])
      BY <2>1, <2>n, <3>1 DEF RowIsShown
    <3>2. ASSUME NEW v \in Work PROVE RowIsShown(phase[v].write, s)'
      <4>1. phase[v].write.of # NoPlan => phase[v].write.of.content[s] \in Nat
        <5>1. phase[v].write.of \in Plan \cup {NoPlan}
          BY DEF Typed, TypeOK, Phases, Row
        <5> QED BY <5>1 DEF Plan, Content
      <4>2. RowIsShown(phase[v].write, s)
        BY <2>1 DEF Shown
      <4> QED BY <1>1, <3>1, <4>1, <4>2 DEF RowIsShown
    <3>3. ASSUME NEW j \in Worker PROVE RowIsShown(my[j].row, s)'
      <4>1. RowIsShown(my[j].row, s)
        BY <2>1 DEF Shown
      <4>2. my[j].row.of # NoPlan => my[j].row.of.content[s] \in Nat
        BY Numbers
      <4>3. CASE j # i \/ my'[i].row.rows = my[i].row.rows
        <5>1. my'[j].row.of = my[j].row.of /\ my'[j].row.rows = my[j].row.rows
          BY <1>alone, <1>4, <4>3
        <5> QED BY <3>1, <4>1, <4>2, <5>1 DEF RowIsShown
      <4>4. CASE j = i /\ my'[i].row.rows # my[i].row.rows
        <5>1. CASE s # r
          BY <1>4, <3>1, <4>1, <4>2, <4>4, <5>1 DEF RowIsShown
        <5>2. CASE s = r
          <6>1. held # 0 /\ Under(of, s, held) /\ (~my[i].differs => held <= lark[s])
            BY <1>4, <1>8, <1>9, <4>4, <5>2
          <6>2. held <= lark'[s]
            BY <1>2, <1>5, <1>6, <2>1, <2>n, <4>4, <5>2, <6>1
          <6>3. Under(of, s, lark'[s])
            BY <1>2, <2>n, <4>2, <4>4, <6>1, <6>2
          <6> QED BY <1>4, <4>4, <6>3 DEF RowIsShown
        <5> QED BY <5>1, <5>2
      <4> QED BY <4>3, <4>4
    <3>4. recorded'[s].content <= lark'[s]
      BY <1>1, <2>1, <2>n DEF Shown
    <3> QED BY <3>2, <3>3, <3>4 DEF Shown
  <2>4. ASSUME NEW j \in Worker PROVE PageIsNew(j, s)' /\ UnitIsNew(j, s)'
    <3>1. CASE j = i
      BY <1>4, <3>1 DEF PageIsNew, UnitIsNew, Reading, Writing, UnitPc
    <3>2. CASE j # i
      <4>1. pc'[j] = pc[j] /\ my'[j] = my[j] /\ (Current(j)' => Current(j))
        BY <1>alone, <1>1, <3>2 DEF Current
      <4>2. Current(j) => lark'[s] = lark[s]
        BY <1>9, <3>2 DEF Current
      <4>3. \A k \in Worker : my'[k].plan = my[k].plan /\ my'[k].work = my[k].work
        BY <1>alone, <1>4
      <4>4. PageIsNew(j, s)'
        BY <1>1, <2>1, <4>1, <4>2, <4>3 DEF PageIsNew, Reading
      <4>5. ASSUME Writing(j, s)', my'[j].held # 0
            PROVE  ~my'[j].differs => my'[j].held <= lark'[s]
        <5>1. Writing(j, s) /\ my[j].held \in Nat
          BY <4>1, <4>5, Numbers DEF Writing
        <5> QED BY <2>1, <2>n, <4>1, <4>5, <5>1 DEF UnitIsNew
      <4>6. UnitIsNew(j, s)'
        BY <1>1, <2>1, <4>1, <4>2, <4>5 DEF UnitIsNew, Writing
      <4> QED BY <4>4, <4>6
    <3> QED BY <3>1, <3>2
  <2> QED BY <2>2, <2>3, <2>4
<1> QED BY <1>1, <1>9, <1>10, <1>11 DEF Forward

\* A stored plan is one that a Worker had in hand.
LEMMA ForwardPlan ==
  ASSUME Typed, Forward, NEW i \in Worker, Step(i) \/ Fault(i), SavePlan(i)
  PROVE  Forward'
<1> USE DEF Under
<1> DEFINE w == my[i].work
<1>1. /\ UNCHANGED <<source, reverted, lark, fence, lease, recorded, late, my>>
      /\ pc[i] = "savePlan" /\ pc' = [pc EXCEPT ![i] = "checkContinue"]
      /\ phase' = [phase EXCEPT ![w] = [phase[w] EXCEPT !.plan = my[i].plan]]
  BY DEF SavePlan, Save, At, Goto, sourceVars, checkpointVars
<1>2. /\ w \in Work /\ phase \in [Work -> Phases] /\ pc \in [Worker -> Pc]
  BY <1>1 DEF Typed, TypeOK
<1>3. \A v \in Work : /\ phase'[v].staged = phase[v].staged
                      /\ phase'[v].write = phase[v].write
                      /\ phase'[v].plan = IF v = w THEN my[i].plan ELSE phase[v].plan
  BY <1>1, <1>2 DEF Phases
<1>4. \A j \in Worker, r \in Record : /\ Reading(j, r)' => Reading(j, r)
                                      /\ Writing(j, r)' => Writing(j, r)
  BY <1>1, <1>2 DEF Reading, Writing, UnitPc
<1>5. \A j \in Worker : Current(j)' = Current(j)
  BY <1>1 DEF Current
<1>6. ASSUME NEW r \in Record \ reverted PROVE Bounded(r)'
  <2>1. Bounded(r)
    BY DEF Forward
  <2> QED BY <1>1, <1>3, <1>4, <2>1 DEF Bounded
<1>7. ASSUME NEW r \in Record \ (late \cup reverted)
      PROVE  /\ StagedIsNew(r)' /\ Shown(r)'
             /\ \A j \in Worker : PageIsNew(j, r)' /\ UnitIsNew(j, r)'
  <2>1. /\ StagedIsNew(r) /\ Shown(r)
        /\ \A j \in Worker : PageIsNew(j, r) /\ UnitIsNew(j, r)
    BY DEF Forward
  <2>2. StagedIsNew(r)'
    BY <1>1, <1>3, <2>1 DEF StagedIsNew
  <2>3. Shown(r)'
    BY <1>1, <1>3, <2>1 DEF Shown, RowIsShown
  <2>4. ASSUME NEW j \in Worker PROVE PageIsNew(j, r)' /\ UnitIsNew(j, r)'
    <3>1. PageIsNew(j, r)'
      <4>1. ASSUME Current(j), Reading(j, r)
            PROVE  Under(phase'[my[j].work].plan, r, my[j].held)
        <5>1. my[j].work \in Work
          BY <4>1 DEF Reading, Typed, TypeOK
        <5> QED BY <1>3, <2>1, <4>1, <5>1 DEF PageIsNew
      <4> QED BY <1>1, <1>4, <1>5, <2>1, <4>1 DEF PageIsNew
    <3>2. UnitIsNew(j, r)'
      <4>1. ASSUME Writing(j, r)
            PROVE  phase'[my[j].work].staged[r] = phase[my[j].work].staged[r]
        <5>1. my[j].work \in Work
          BY <4>1 DEF Writing, UnitPc, Typed, TypeOK
        <5> QED BY <1>3, <5>1
      <4> QED BY <1>1, <1>4, <1>5, <2>1, <4>1 DEF UnitIsNew
    <3> QED BY <3>1, <3>2
  <2> QED BY <2>2, <2>3, <2>4
<1> QED BY <1>1, <1>6, <1>7 DEF Forward

\* What is recorded is a selected content that was written.
LEMMA ForwardWorks ==
  ASSUME Typed, Rows, Forward, NEW i \in Worker, Step(i) \/ Fault(i), Works(i)
  PROVE  Forward'
<1> DEFINE w == my[i].work
           p == phase[w]
<1>alone. \A j \in Worker \ {i} : pc'[j] = pc[j] /\ my'[j] = my[j]
  BY Alone
<1>t. /\ my[i] \in My /\ my \in [Worker -> My] /\ pc \in [Worker -> Pc]
      /\ phase \in [Work -> Phases] /\ w \in Work /\ p \in Phases
      /\ my[i].row \in Row /\ p.write \in Row
  BY InWork DEF Typed, TypeOK, My, Phases
<1>shown. \A r \in Record \ (late \cup reverted) :
            recorded[r].content <= lark[r] /\ lark[r] \in Nat
  BY Numbers DEF Forward, Shown
<1>frame. ASSUME UNCHANGED <<source, reverted, lark, lease, fence>>,
                 late \subseteq late',
                 \A r \in Record \ (late' \cup reverted) : recorded'[r].content <= lark[r],
                 PhasesKept(w) \/ phase' = phase,
                 /\ my'[i].plan = my[i].plan
                 /\ my'[i].held = my[i].held /\ my'[i].differs = my[i].differs
                 /\ my'[i].row.of = my[i].row.of /\ my'[i].row.rows = my[i].row.rows,
                 pc'[i] \notin UnitPc \cup {"savePage"}
          PROVE  Forward'
  <2>1. HandKept(i)
    BY <1>frame, InWork DEF HandKept, Reading, Writing
  <2>2. \A j \in Worker : HandKept(j)
    BY <1>alone, <1>frame, <2>1 DEF HandKept, Reading, Writing
  <2>3. \A v \in Work : v # w \/ phase' = phase => phase'[v] = phase[v]
    BY Alone
  <2>4. \A v \in Work : PhasesKept(v)
    BY <1>frame, <2>3 DEF PhasesKept
  <2> QED BY <1>frame, <2>2, <2>4, ForwardFrame
<1>1. CASE SavePlan(i)
  BY <1>1, ForwardPlan
<1>2. CASE SavePreflight(i) \/ SaveResult(i) \/ SaveContinue(i)
  <2>1. /\ UNCHANGED <<source, reverted, lark, lease, fence, recorded, late>>
        /\ pc'[i] \in {"checkContinue", "checkComplete", "release"}
    BY <1>t, <1>2 DEF SavePreflight, SaveResult, SaveContinue, Goto,
                      sourceVars, checkpointVars
  <2>2. my' = my \/ my' = [my EXCEPT ![i].next = Continued(i)]
    BY <1>2 DEF SavePreflight, SaveResult, SaveContinue
  <2>3. /\ my'[i].plan = my[i].plan
        /\ my'[i].held = my[i].held /\ my'[i].differs = my[i].differs
        /\ my'[i].row = my[i].row
    BY <1>t, <2>2 DEF My
  <2>4. PhasesKept(w)
    <3>1. CASE SavePreflight(i)
      BY <1>t, <3>1 DEF SavePreflight, Save, Phases, PhasesKept
    <3>2. CASE SaveResult(i)
      BY <1>t, <3>2 DEF SaveResult, Save, Phases, PhasesKept
    <3>3. CASE SaveContinue(i)
      BY <1>t, <3>3 DEF SaveContinue, Save, Phases, PhasesKept
    <3> QED BY <1>2, <3>1, <3>2, <3>3
  <2> QED BY <1>frame, <1>shown, <2>1, <2>3, <2>4 DEF UnitPc
<1>3. CASE WriteUnit(i)
  BY <1>3, ForwardUnit
\* The row is stored as it is in hand, but for how far it is.
<1>save. ASSUME NEW row \in Row, NEW q, Save(i, [p EXCEPT !.write = row]),
                row.of = my[i].row.of, row.rows = my[i].row.rows
         PROVE  PhasesKept(w)
  BY <1>t, <1>save DEF Save, Phases, PhasesKept
<1>4. CASE SaveProgress(i)
  <2>1. /\ UNCHANGED <<source, reverted, lark, lease, fence, recorded, late, my>>
        /\ pc'[i] = "checkContinue" /\ Save(i, [p EXCEPT !.write = my[i].row])
    BY <1>t, <1>4 DEF SaveProgress, Goto, sourceVars, checkpointVars
  <2>2. PhasesKept(w)
    BY <1>t, <1>save, <2>1
  <2> QED BY <1>frame, <1>shown, <2>1, <2>2 DEF UnitPc
<1>5. CASE EndsWrite(i) \/ SaveAttempt(i) \/ SaveSaved(i)
  <2>1. /\ UNCHANGED <<source, reverted, lark, lease, fence, recorded, late>>
        /\ pc'[i] \in {"checkAttempt", "checkCheckpoint", "checkResult"}
    <3>1. CASE EndsWrite(i)
      BY <1>t, <3>1 DEF EndsWrite, SaveFinal, Goto, sourceVars, checkpointVars
    <3>2. CASE SaveAttempt(i) \/ SaveSaved(i)
      BY <1>t, <3>2 DEF SaveAttempt, SaveSaved, Goto, sourceVars, checkpointVars
    <3> QED BY <1>5, <3>1, <3>2
  <2>2. /\ \/ my' = [my EXCEPT ![i].row.complete = TRUE]
           \/ my' = [my EXCEPT ![i].row.attempt = runs', ![i].record = 0]
           \/ my' = [my EXCEPT ![i].row.saved = TRUE]
        /\ Save(i, [p EXCEPT !.write = my'[i].row])
    BY <1>5 DEF EndsWrite, SaveAttempt, SaveSaved
  <2>3. /\ my'[i].plan = my[i].plan
        /\ my'[i].held = my[i].held /\ my'[i].differs = my[i].differs
        /\ my'[i].row.of = my[i].row.of /\ my'[i].row.rows = my[i].row.rows
    <3>1. CASE my' = [my EXCEPT ![i].row.complete = TRUE]
      BY <1>t, <3>1 DEF My, Row
    <3>2. CASE my' = [my EXCEPT ![i].row.attempt = runs', ![i].record = 0]
      BY <1>t, <3>2 DEF My, Row
    <3>3. CASE my' = [my EXCEPT ![i].row.saved = TRUE]
      BY <1>t, <3>3 DEF My, Row
    <3> QED BY <2>2, <3>1, <3>2, <3>3
  <2>4. phase'[w].staged = p.staged /\ phase'[w].plan = p.plan
        /\ phase'[w].write = my'[i].row
    BY <1>t, <2>2 DEF Save, Phases
  <2>5. PhasesKept(w)
    BY <2>3, <2>4 DEF PhasesKept
  <2> QED BY <1>frame, <1>shown, <2>1, <2>3, <2>5 DEF UnitPc
<1>6. CASE Batch(i)
  <2>1. PICK r \in Left(i) :
          /\ my' = [my EXCEPT ![i].record = r]
          /\ IF Fenced(i)
               THEN /\ recorded' = [recorded EXCEPT
                                      ![r] = [content |-> my[i].plan.content[r],
                                              run |-> my[i].row.attempt]]
                    /\ Touch(i, {r})
               ELSE UNCHANGED <<recorded, late>>
    BY <1>6 DEF Batch
  <2>2. /\ UNCHANGED <<source, reverted, lark, lease, fence, phase>>
        /\ pc'[i] = "assert" /\ pc[i] = "batch"
    BY <1>t, <1>6 DEF Batch, Goto, At, sourceVars
  <2>3. r \in Record /\ r \in Selected(my[i].plan)
    BY <2>1 DEF Left, Selected
  <2>4. /\ my'[i].plan = my[i].plan
        /\ my'[i].held = my[i].held /\ my'[i].differs = my[i].differs
        /\ my'[i].row = my[i].row
    BY <1>t, <2>1 DEF My
  <2>5. /\ my[i].row.of = my[i].plan /\ my[i].row.of # NoPlan /\ r \in my[i].row.rows
    BY <2>2, <2>3 DEF Rows, RowInHand, RowFits, RunPc
  <2>6. late \subseteq late' /\ recorded \in [Record -> [content: Content, run: Nat]]
    BY <2>1 DEF Touch, Typed, TypeOK
  <2>7. ASSUME NEW s \in Record \ (late' \cup reverted)
        PROVE  recorded'[s].content <= lark[s]
    <3>1. CASE recorded'[s] = recorded[s]
      BY <1>shown, <2>6, <3>1
    <3>2. CASE s = r /\ recorded'[s] = [content |-> my[i].plan.content[r],
                                        run |-> my[i].row.attempt]
      <4>1. RowIsShown(my[i].row, r)
        BY <2>6, <3>2 DEF Forward, Shown
      <4> QED BY <2>5, <3>2, <4>1 DEF RowIsShown, Under
    <3> QED BY <2>1, <2>3, <2>6, <3>1, <3>2
  <2> QED BY <1>frame, <2>2, <2>4, <2>6, <2>7 DEF UnitPc
<1>7. CASE FinalBatch(i)
  <2>1. /\ UNCHANGED <<source, reverted, lark, lease, fence, phase, my>>
        /\ pc'[i] = "confirm"
    BY <1>t, <1>7 DEF FinalBatch, Goto, sourceVars
  <2>2. late \subseteq late'
        /\ \A r \in Record : recorded'[r] \in {recorded[r], NoState}
    BY <1>7 DEF FinalBatch, Touch, checkpointVars
  <2>3. \A r \in Record \ (late' \cup reverted) : recorded'[r].content <= lark[r]
    BY <1>shown, <2>2 DEF NoState
  <2> QED BY <1>frame, <2>1, <2>2, <2>3 DEF UnitPc
<1>8. CASE Complete(i)
  <2>1. /\ UNCHANGED <<source, reverted, lark, lease, fence, recorded, late, my>>
        /\ pc'[i] = "release" /\ phase'[w] = EmptyPhases
    BY <1>t, <1>8 DEF Complete, Goto, sourceVars, checkpointVars
  <2> QED BY <1>frame, <1>shown, <2>1 DEF PhasesKept, UnitPc
<1> QED BY <1>1, <1>2, <1>3, <1>4, <1>5, <1>6, <1>7, <1>8 DEF Works

\* The fence comes to a Work with nothing staged, and no Worker is current
\* that was not before.
LEMMA ForwardClaims ==
  ASSUME Typed, Taken, Forward, NEW i \in Worker, Claims(i)
  PROVE  Forward'
<1> USE DEF Under
<1> DEFINE w == my[i].work
<1>1. /\ pc[i] = "begin" /\ pc' = [pc EXCEPT ![i] = "admit"] /\ w \in Work
      /\ Claimable(w) /\ fence' = w
      /\ UNCHANGED <<source, reverted, lark, lease, phase, recorded, late, my>>
  BY DEF Claims, Typed, TypeOK
<1>2. \A j \in Worker, r \in Record : /\ Reading(j, r)' => Reading(j, r) /\ pc'[j] = pc[j]
                                      /\ Writing(j, r)' => Writing(j, r) /\ pc'[j] = pc[j]
  BY <1>1 DEF Reading, Writing, UnitPc, Typed, TypeOK
<1>3. ASSUME NEW j \in Worker, Current(j)', pc[j] \notin {"idle", "acquire", "begin"}
      PROVE  Current(j)
  <2>1. Reached(my[j].work) /\ my[j].work = w /\ lease = j
    BY <1>1, <1>3 DEF Taken, Current
  <2> QED BY <1>1, <2>1, NoReturn DEF Current
<1>4. ASSUME NEW r \in Record \ reverted PROVE Bounded(r)'
  <2>1. Bounded(r)
    BY DEF Forward
  <2> QED BY <1>1, <1>2, <2>1 DEF Bounded
<1>5. ASSUME NEW r \in Record \ (late \cup reverted)
      PROVE  /\ StagedIsNew(r)' /\ Shown(r)'
             /\ \A j \in Worker : PageIsNew(j, r)' /\ UnitIsNew(j, r)'
  <2>1. /\ StagedIsNew(r) /\ Shown(r)
        /\ \A j \in Worker : PageIsNew(j, r) /\ UnitIsNew(j, r)
    BY DEF Forward
  <2>2. phase[w].staged[r] # 0 => fence = w
    <3>1. EmptyPhases.staged[r] = 0
      BY DEF EmptyPhases, Nothing
    <3> QED BY <1>1, <3>1, NoReturn DEF Taken
  <2>3. StagedIsNew(r)'
    BY <1>1, <2>1, <2>2 DEF StagedIsNew
  <2>4. Shown(r)'
    BY <1>1, <2>1 DEF Shown, RowIsShown
  <2>5. ASSUME NEW j \in Worker PROVE PageIsNew(j, r)' /\ UnitIsNew(j, r)'
    <3>1. Reading(j, r) \/ Writing(j, r) => (Current(j)' => Current(j))
      BY <1>3 DEF Reading, Writing, UnitPc
    <3>2. PageIsNew(j, r)'
      BY <1>1, <1>2, <2>1, <3>1 DEF PageIsNew
    <3>3. UnitIsNew(j, r)'
      BY <1>1, <1>2, <2>1, <3>1 DEF UnitIsNew
    <3> QED BY <3>2, <3>3
  <2> QED BY <2>3, <2>4, <2>5
<1> QED BY <1>1, <1>4, <1>5 DEF Forward

\* The rest only moves on, lets go of what is in hand, or moves the source.
LEMMA ForwardStep ==
  Typed /\ Taken /\ Rows /\ Forward /\ [Next]_vars => Forward'
<1> SUFFICES ASSUME Typed, Taken, Rows, Forward, [Next]_vars PROVE Forward'
  OBVIOUS
<1>t. /\ my \in [Worker -> My] /\ pc \in [Worker -> Pc]
      /\ \A r \in Record : source[r] \in Nat
  BY Numbers DEF Typed, TypeOK
<1>shown. \A r \in Record \ (late \cup reverted) : recorded[r].content <= lark[r]
  BY DEF Forward, Shown
\* No more than the place of the Workers, the lease, and what is in the hands
\* of one that begins or ends.
<1>frame. ASSUME UNCHANGED <<source, reverted, lark, fence, phase, recorded, late>>,
                 \A i \in Worker : HandKept(i) \/ HandEmpty(i)
          PROVE  Forward'
  <2>1. \A w \in Work : PhasesKept(w)
    BY <1>frame DEF PhasesKept
  <2> QED BY <1>frame, <1>shown, <2>1, ForwardFrame
<1>1. ASSUME NEW r \in Record, NEW c \in Content, Edit(r, c) PROVE Forward'
  <2>1. /\ UNCHANGED <<lark, lease, fence, phase, recorded, late, pc, my>>
        /\ source' = [source EXCEPT ![r] = c]
        /\ reverted' = IF c < source[r] THEN reverted \cup {r} ELSE reverted
    BY <1>1 DEF Edit, checkpointVars, ghostVars
  <2>2. source \in [Record -> Content] /\ c \in Nat
    BY DEF Typed, TypeOK, Content
  <2>3. \A s \in Record \ reverted' :
          s \in Record \ reverted /\ source[s] <= source'[s] /\ source'[s] \in Nat
    BY <1>t, <2>1, <2>2
  <2>4. ASSUME NEW s \in Record \ reverted' PROVE Bounded(s)'
    <3> DEFINE old == source[s]
               new == source'[s]
    <3>1. Bounded(s) /\ old \in Nat /\ new \in Nat /\ old <= new
      BY <1>t, <2>3 DEF Forward
    <3>2. lark[s] <= new
      BY <3>1, Numbers DEF Bounded
    <3>3. ASSUME NEW w \in Work
          PROVE  phase[w].staged[s] <= new /\ Under(phase[w].plan, s, new)
      <4>1. /\ phase[w].staged[s] <= old /\ Under(phase[w].plan, s, old)
            /\ phase[w].staged[s] \in Nat
            /\ phase[w].plan # NoPlan => phase[w].plan.content[s] \in Nat
        BY <3>1, Numbers DEF Bounded
      <4> QED BY <3>1, <4>1 DEF Under
    <3>4. ASSUME NEW i \in Worker
          PROVE  /\ Under(my[i].plan, s, new)
                 /\ Reading(i, s) \/ Writing(i, s) => my[i].held <= new
      <4>1. /\ Under(my[i].plan, s, old)
            /\ Reading(i, s) \/ Writing(i, s) => my[i].held <= old
            /\ my[i].held \in Nat
            /\ my[i].plan # NoPlan => my[i].plan.content[s] \in Nat
        BY <3>1, Numbers DEF Bounded
      <4> QED BY <3>1, <4>1 DEF Under
    <3> QED BY <2>1, <3>2, <3>3, <3>4 DEF Bounded, Reading, Writing, Under
  <2>5. ASSUME NEW s \in Record \ (late' \cup reverted')
        PROVE  /\ StagedIsNew(s)' /\ Shown(s)'
               /\ \A i \in Worker : PageIsNew(i, s)' /\ UnitIsNew(i, s)'
    <3>1. /\ StagedIsNew(s) /\ Shown(s)
          /\ \A i \in Worker : PageIsNew(i, s) /\ UnitIsNew(i, s)
      BY <2>1, <2>3 DEF Forward
    <3> QED BY <2>1, <3>1 DEF StagedIsNew, Shown, RowIsShown, PageIsNew, UnitIsNew,
                              Reading, Writing, Current, Under
  <2> QED BY <2>4, <2>5 DEF Forward
<1>2. ASSUME NEW i \in Worker, NEW w \in Work, NEW m \in queued[w],
             Deliver(i, w, m) \/ DeliverTwice(i, w, m)
      PROVE  Forward'
  <2>1. /\ UNCHANGED <<source, reverted, lark, lease, fence, phase, recorded, late>>
        /\ pc' = [pc EXCEPT ![i] = "acquire"]
        /\ my' = [my EXCEPT ![i] = [Fresh EXCEPT !.work = w, !.message = m]]
    BY <1>2 DEF Deliver, DeliverTwice, Receive, Goto, sourceVars, checkpointVars,
                ghostVars
  <2>2. HandEmpty(i)
    BY <1>t, <2>1 DEF HandEmpty, Fresh, EmptyRow, UnitPc
  <2>3. \A j \in Worker \ {i} : HandKept(j)
    BY <1>t, <2>1 DEF HandKept, Reading, Writing
  <2> QED BY <1>frame, <2>1, <2>2, <2>3
<1>3. ASSUME NEW i \in Worker, Step(i) \/ Fault(i) PROVE Forward'
  <2>alone. \A j \in Worker \ {i} : pc'[j] = pc[j] /\ my'[j] = my[j]
    BY <1>3, Alone
  <2>1. CASE Quiet(i)
    <3>1. PICK q \in Pc : pc' = [pc EXCEPT ![i] = q] /\ QuietMove(i, q)
      BY <2>1 DEF Quiet
    <3>2. /\ UNCHANGED <<source, reverted, lark, fence, phase, recorded, late, my>>
          /\ lease' \in {lease, None} \/ (lease' = i /\ pc[i] = "acquire")
          /\ pc'[i] = q
      BY <1>t, <2>1, <3>1 DEF Quiet, kept
    <3>3. /\ q # "savePage" /\ (q \in UnitPc => pc[i] \in UnitPc)
          /\ pc[i] = "acquire" => q = "begin"
      BY <3>1, Behinds DEF QuietMove, UnitPc, CheckPc
    <3>4. ASSUME NEW j \in Worker PROVE HandKept(j)
      <4>1. pc'[j] = "savePage" => pc[j] = "savePage"
        BY <2>alone, <3>2, <3>3
      <4>2. pc'[j] \in UnitPc => pc[j] \in UnitPc
        BY <2>alone, <3>2, <3>3
      <4>3. pc'[j] \in UnitPc \cup {"savePage"} /\ lease' = j => lease = j
        BY <2>alone, <3>2, <3>3 DEF UnitPc
      <4> QED BY <3>2, <4>1, <4>2, <4>3 DEF HandKept, Reading, Writing
    <3> QED BY <1>frame, <3>2, <3>4
  <2>2. CASE Gone(i)
    <3>1. /\ UNCHANGED <<source, reverted, lark, fence, phase, recorded, late>>
          /\ lease' \in {lease, None} /\ pc'[i] = "idle" /\ my'[i] = Fresh
      BY <1>t, <2>2 DEF Gone, Leave, Goto, kept
    <3>2. HandEmpty(i)
      BY <3>1 DEF HandEmpty, Fresh, EmptyRow, UnitPc
    <3>3. \A j \in Worker \ {i} : HandKept(j)
      BY <2>alone, <3>1 DEF HandKept, Reading, Writing
    <3> QED BY <1>frame, <3>1, <3>2, <3>3
  <2>3. CASE LeaseLost
    <3>1. /\ UNCHANGED <<source, reverted, lark, fence, phase, recorded, late, my, pc>>
          /\ lease' = None
      BY <2>3 DEF LeaseLost, kept
    <3>2. \A j \in Worker : HandKept(j)
      BY <3>1 DEF HandKept, Reading, Writing
    <3> QED BY <1>frame, <3>1, <3>2
  <2> QED
    BY <1>3, <2>1, <2>2, <2>3, Sorted, ForwardClaims, ForwardStages, ForwardWorks
<1>4. ASSUME NEW w \in Work, NEW m \in queued[w], DeadLetter(w, m) PROVE Forward'
  <2>1. UNCHANGED <<source, reverted, lark, lease, fence, phase, recorded, late, pc, my>>
    BY <1>4 DEF DeadLetter, sourceVars, checkpointVars, ghostVars
  <2>2. \A j \in Worker : HandKept(j)
    BY <2>1 DEF HandKept, Reading, Writing
  <2> QED BY <1>frame, <2>1, <2>2
<1>5. CASE UNCHANGED vars
  <2>1. \A j \in Worker : HandKept(j)
    BY <1>5 DEF HandKept, Reading, Writing, vars
  <2> QED BY <1>5, <1>frame, <2>1 DEF vars
<1> QED BY <1>1, <1>2, <1>3, <1>4, <1>5 DEF Next

\* At first nothing is staged, planned, in hand or recorded.
LEMMA TracedInit == Init => Taken /\ Rows /\ Forward
<1> SUFFICES ASSUME Init PROVE Taken /\ Rows /\ Forward
  OBVIOUS
<1>1. /\ \A w \in Work : phase[w] = EmptyPhases
      /\ \A i \in Worker : pc[i] = "idle" /\ my[i] = Fresh
      /\ \A r \in Record : recorded[r] = NoState /\ lark[r] = 0
      /\ cursor.run = 0 /\ runs = 0
  BY DEF Init, Nothing
<1>2. /\ EmptyPhases.plan = NoPlan /\ EmptyPhases.write = EmptyRow
      /\ \A r \in Record : EmptyPhases.staged[r] = 0
      /\ Fresh.plan = NoPlan /\ Fresh.row = EmptyRow
      /\ EmptyRow.of = NoPlan /\ EmptyRow.rows = {} /\ EmptyRow.complete = FALSE
      /\ EmptyRow.attempt = 0 /\ EmptyRow.saved = FALSE
      /\ NoState.run = 0 /\ NoState.content = 0
  BY DEF EmptyPhases, Nothing, Fresh, EmptyRow, NoState
<1>3. Taken
  BY <1>1 DEF Taken
<1>4. RowFits(EmptyRow)
  BY <1>2 DEF RowFits
<1>5. Rows
  BY <1>1, <1>2, <1>4 DEF Rows, RowInHand, RunInHand, UnitPc, FinalPc, RunPc
<1>6. \A r \in Record : source[r] \in Nat
  BY TypedInit, Numbers
<1>7. \A i \in Worker, r \in Record : ~Reading(i, r) /\ ~Writing(i, r)
  BY <1>1 DEF Reading, Writing, UnitPc
<1>8. \A r \in Record : Bounded(r)
  BY <1>1, <1>2, <1>6, <1>7 DEF Bounded, Under
<1>9. \A r \in Record : StagedIsNew(r) /\ Shown(r)
  BY <1>1, <1>2 DEF StagedIsNew, Shown, RowIsShown, Under
<1>10. \A i \in Worker, r \in Record : PageIsNew(i, r) /\ UnitIsNew(i, r)
  BY <1>7 DEF PageIsNew, UnitIsNew
<1> QED BY <1>3, <1>5, <1>8, <1>9, <1>10 DEF Forward

\* What is known of every state, and used below.
Traced == Typed /\ Taken /\ Rows /\ Forward

\* Every step keeps all of them.
LEMMA TracedStep == Traced /\ [Next]_vars => Traced'
  BY TypedStep, TakenStep, RowsStep, ForwardStep DEF Traced

\* A record whose fingerprint is the one of its source is in Lark: what is
\* recorded is not ahead of Lark, and Lark is not ahead of the source.
THEOREM FingerprintTrue == Spec => []FingerprintIsTrue
<1>1. Init => Traced
  BY TypedInit, TracedInit DEF Traced
<1>2. Traced => FingerprintIsTrue
  <2> SUFFICES ASSUME Traced, NEW r \in Record \ (late \cup reverted),
                      recorded[r].content = source[r]
               PROVE  lark[r] = source[r]
    BY DEF FingerprintIsTrue
  <2>1. recorded[r].content <= lark[r] /\ lark[r] <= source[r]
    BY DEF Traced, Forward, Shown, Bounded
  <2> QED BY <2>1, Numbers DEF Traced
<1> QED BY <1>1, <1>2, TracedStep, PTL DEF Spec

\* A unit that a current Worker writes is not older than what Lark has,
\* whoever wrote that.
THEOREM LarkForward == Spec => LarkMovesForward
<1>1. Init => Traced
  BY TypedInit, TracedInit DEF Traced
<1>2. Traced /\ [Next]_vars =>
        [\A r \in Record \ (late' \cup reverted) : lark'[r] >= lark[r]]_vars
  <2> SUFFICES ASSUME Traced, [Next]_vars
               PROVE  \A r \in Record \ (late' \cup reverted) : lark'[r] >= lark[r]
    OBVIOUS
  <2>next. Traced'
    BY TracedStep
  <2>numbers. \A r \in Record : lark[r] \in Nat /\ lark'[r] \in Nat
    BY <2>next DEF Traced, Typed, TypeOK, Content
  <2> SUFFICES ASSUME NEW r \in Record \ (late' \cup reverted)
               PROVE  lark[r] <= lark'[r]
    BY <2>numbers
  <2>same. CASE lark' = lark
    BY <2>same, <2>numbers
  <2>1. ASSUME NEW i \in Worker, Step(i) \/ Fault(i) PROVE lark[r] <= lark'[r]
    <3>1. CASE WriteUnit(i)
      BY <2>1, <3>1, ForwardUnit DEF Traced
    <3>2. CASE ~WriteUnit(i)
      <4>1. CASE Quiet(i) \/ Gone(i) \/ LeaseLost \/ Claims(i)
        BY <2>same, <4>1 DEF Quiet, Gone, LeaseLost, Claims, kept
      <4>2. CASE Stages(i)
        <5>1. CASE ReadPage(i) \/ SavePage(i)
          BY <2>same, <5>1 DEF ReadPage, SavePage
        <5>2. CASE AdmitsPage(i) \/ AdmitsReplay(i) \/ LoadsUnit(i)
          BY <2>same, <5>2 DEF AdmitsPage, AdmitsReplay, LoadsUnit, kept
        <5>3. CASE LoadsDone(i) \/ LoadsNew(i) \/ LoadsPreflight(i) \/ LoadsEnd(i)
          BY <2>same, <5>3 DEF LoadsDone, LoadsNew, LoadsPreflight, LoadsEnd, Loads, kept
        <5> QED BY <4>2, <5>1, <5>2, <5>3 DEF Stages
      <4>3. CASE Works(i)
        BY <2>same, <3>2, <4>3
           DEF Works, SavePlan, SavePreflight, SaveProgress, EndsWrite, SaveFinal,
               SaveAttempt, Batch, FinalBatch, SaveSaved, SaveResult, Complete,
               SaveContinue
      <4> QED BY <2>1, <4>1, <4>2, <4>3, Sorted DEF Traced
    <3> QED BY <3>1, <3>2
  <2>2. ASSUME ~\E i \in Worker : Step(i) \/ Fault(i) PROVE lark' = lark
    BY <2>2 DEF Next, Deliver, DeliverTwice, DeadLetter, Edit, vars
  <2> QED BY <2>same, <2>1, <2>2
<1> QED BY <1>1, <1>2, TracedStep, PTL DEF Spec, LarkMovesForward

(***************************************************************************)
(* The phases of a Work that only current Workers wrote.                   *)
(***************************************************************************)
\* Where a Worker is at work, and where it is not when its Work may be over.
AtWork == {"readPage", "savePage", "load", "checkPlan", "savePlan"}
            \cup PlannedPc \cup ConfirmedPc
Apart == {"acquire", "begin", "release", "send", "abandon"}

\* A Worker that is at work stays in the same part of it.
SamePart(p, q) ==
    /\ q \in {"readPage", "savePage"} => p \in {"readPage", "savePage"}
    /\ q \in {"load", "checkPlan", "savePlan"} => p \in {"load", "checkPlan", "savePlan"}
    /\ q \in {"checkPlan", "savePlan"} => p \in {"checkPlan", "savePlan"}
    /\ q \in PlannedPc => p \in PlannedPc
    /\ q \in ConfirmedPc => p \in ConfirmedPc
    /\ q \in RunPc => p \in RunPc
PartKept(i) ==
    my'[i].work \notin torn' /\ pc'[i] \in AtWork =>
        /\ my'[i].work = my[i].work /\ my'[i].page = my[i].page
        /\ my'[i].plan = my[i].plan /\ my'[i].record = my[i].record
        /\ my'[i].row.attempt = my[i].row.attempt
        /\ Current(i)' => Current(i)
        /\ SamePart(pc[i], pc'[i])
\* And no Worker takes the lease in the middle of its work.
HoldsKept(i) ==
    lease' = i /\ my'[i].work \in Work /\ pc'[i] \notin Apart =>
        lease = i /\ my'[i].work = my[i].work /\ pc[i] \notin Apart

\* What is at work is at one of the points that Whole speaks of.
LEMMA AtWorkPoints ==
  /\ RunPc \subseteq PlannedPc
  /\ PlannedPc \subseteq AtWork /\ ConfirmedPc \subseteq AtWork
  /\ {"readPage", "savePage", "load", "checkPlan", "savePlan"} \subseteq AtWork
  /\ AtWork \cap {"idle", "acquire", "begin", "admit", "release", "send", "abandon",
                "checkContinue", "saveContinue", "checkComplete", "complete"} = {}
  BY DEF AtWork, PlannedPc, ConfirmedPc, RunPc, UnitPc, FinalPc

\* Steps that leave alone the phases of the Works only current Workers wrote.
LEMMA WholeFrame ==
  ASSUME Typed, Whole, UNCHANGED <<fence, cursor>>,
         late \subseteq late', torn \subseteq torn',
         \A w \in Work \ torn' :
            /\ phase'[w].pages = phase[w].pages /\ phase'[w].staged = phase[w].staged
            /\ phase'[w].plan = phase[w].plan /\ phase'[w].write = phase[w].write
            /\ phase'[w].result = phase[w].result,
         \A r \in Record \ late' : recorded'[r] = recorded[r],
         Ends, \A i \in Worker : PartKept(i) /\ HoldsKept(i)
  PROVE  Whole'
<1>plan. ASSUME NEW w \in Work \ torn', NEW plan, TruePlan(w, plan)
         PROVE  \A r \in Record \ late' :
                   /\ plan.content[r] \in {0, phase'[w].staged[r]}
                   /\ plan.content[r] = 0 =>
                        IF plan.full THEN phase'[w].staged[r] = 0
                        ELSE recorded'[r].content = phase'[w].staged[r]
  BY <1>plan DEF TruePlan
<1>recorded. ASSUME NEW w \in Work \ torn', Recorded(w) PROVE Recorded(w)'
  BY <1>recorded DEF Recorded
<1>1. ASSUME NEW w \in Work \ torn' PROVE PhasesFit(w)'
  <2>1. PhasesFit(w)
    BY DEF Whole
  <2>2. fence = w /\ phase[w].plan # NoPlan => TruePlan(w, phase[w].plan)'
    BY <1>plan, <2>1 DEF PhasesFit, TruePlan
  <2>3. fence = w /\ (phase[w].result
                       \/ (phase[w].write.complete /\ AlreadySaved(phase[w].write)))
          => Recorded(w)'
    BY <1>recorded, <2>1 DEF PhasesFit
  <2> QED BY <2>1, <2>2, <2>3 DEF PhasesFit, AlreadySaved
<1>2. ASSUME NEW i \in Worker, my'[i].work \notin torn', pc'[i] \in AtWork
      PROVE  /\ my'[i].work = my[i].work /\ my[i].work \in Work \ torn'
             /\ pc[i] # "idle" /\ UpToDate(i) /\ Recording(i)
             /\ my[i].work \notin torn
  <2>1. PartKept(i) /\ pc'[i] \in AtWork
    BY <1>2
  <2>2. pc[i] \in AtWork
    BY <1>2, <2>1 DEF PartKept, SamePart, AtWork
  <2>3. pc[i] # "idle"
    BY <2>2, AtWorkPoints
  <2> QED BY <1>2, <2>1, <2>3 DEF PartKept, Whole, Typed, TypeOK
<1>3. ASSUME NEW i \in Worker PROVE UpToDate(i)'
  <2> DEFINE w == my[i].work
  <2>1. CASE my'[i].work \notin torn' /\ Current(i)' /\ pc'[i] \in AtWork
    <3>1. /\ my'[i].work = w /\ w \in Work \ torn' /\ w \notin torn /\ UpToDate(i)
          /\ my'[i].page = my[i].page /\ my'[i].plan = my[i].plan
          /\ my'[i].record = my[i].record
          /\ my'[i].row.attempt = my[i].row.attempt
          /\ Current(i) /\ SamePart(pc[i], pc'[i])
      BY <1>2, <2>1 DEF PartKept
    <3>2. pc'[i] \in {"checkPlan", "savePlan"} => TruePlan(w, my[i].plan)'
      BY <1>plan, <3>1 DEF UpToDate, TruePlan, SamePart
    <3>3. pc'[i] \in ConfirmedPc => Recorded(w)'
      BY <1>recorded, <3>1 DEF UpToDate, SamePart
    <3>4. pc'[i] \in RunPc => \A r \in Selected(my[i].plan) \ late' :
             r <= my[i].record => recorded'[r].run = my[i].row.attempt
      BY <3>1 DEF UpToDate, SamePart, Selected
    <3>5. /\ phase'[w].pages = phase[w].pages /\ phase'[w].plan = phase[w].plan
      BY <3>1
    <3> QED BY <3>1, <3>2, <3>3, <3>4, <3>5 DEF UpToDate, SamePart, Selected, TruePlan
  <2>2. CASE ~(my'[i].work \notin torn' /\ Current(i)' /\ pc'[i] \in AtWork)
    BY <2>2, AtWorkPoints DEF UpToDate
  <2> QED BY <2>1, <2>2
<1>4. ASSUME NEW i \in Worker, my'[i].work \notin torn', pc'[i] \in RunPc
      PROVE  Recording(i)'
  <2> DEFINE w == my[i].work
  <2>1. /\ my'[i].work = w /\ w \in Work \ torn' /\ w \notin torn /\ Recording(i)
        /\ my'[i].plan = my[i].plan /\ my'[i].record = my[i].record
        /\ pc[i] \in RunPc
    BY <1>2, <1>4, AtWorkPoints DEF PartKept, SamePart
  <2>2. phase'[w].plan \in {NoPlan, my[i].plan} /\ phase'[w].plan = phase[w].plan
    BY <2>1 DEF Recording
  <2>3. fence = w => \A r \in Selected(my[i].plan) \ late' :
          r <= my[i].record => recorded'[r].content = my[i].plan.content[r]
    BY <2>1 DEF Recording, Selected
  <2>4. phase'[w].plan = NoPlan =>
          /\ life'[w] \notin {"absent", "active"}
          /\ \A j \in Worker : lease' = j /\ my'[j].work = w => pc'[j] \in Apart
    BY <2>1, <2>2 DEF Recording, Ends, HoldsKept, Apart
  <2> QED BY <2>1, <2>2, <2>3, <2>4 DEF Recording, Apart, Selected
<1>5. \A i \in Worker : Recording(i)'
  BY <1>4 DEF Recording
<1> QED BY <1>1, <1>3, <1>5 DEF Whole

\* A current Worker reads its Work's phases and saves them.
LEMMA WholeHand ==
  ASSUME Typed, Whole, NEW i \in Worker, Current(i),
         pc[i] \notin Apart, pc[i] # "idle",
         UNCHANGED <<fence, lease, recorded, cursor, late, torn, life>>,
         my'[i].work = my[i].work,
         \A j \in Worker \ {i} : pc'[j] = pc[j] /\ my'[j] = my[j],
         \A v \in Work \ {my[i].work} : phase'[v] = phase[v],
         phase[my[i].work].plan \in {NoPlan, phase'[my[i].work].plan},
         my[i].work \notin torn =>
            PhasesFit(my[i].work)' /\ UpToDate(i)' /\ Recording(i)'
  PROVE  Whole'
<1> DEFINE w == my[i].work
<1>work. w \in Work
  BY DEF Typed, TypeOK
<1>1. ASSUME NEW v \in Work \ torn' PROVE PhasesFit(v)'
  <2>1. CASE v = w
    BY <2>1
  <2>2. CASE v # w
    <3>1. PhasesFit(v) /\ phase'[v] = phase[v]
      BY <2>2 DEF Whole
    <3> QED BY <3>1 DEF PhasesFit, TruePlan, Recorded, AlreadySaved
  <2> QED BY <2>1, <2>2
<1>2. ASSUME NEW j \in Worker PROVE UpToDate(j)'
  <2>1. CASE j = i
    BY <2>1 DEF UpToDate
  <2>2. CASE j # i
    BY <2>2 DEF UpToDate, Current
  <2> QED BY <2>1, <2>2
<1>3. ASSUME NEW j \in Worker \ {i}, my[j].work \notin torn, pc[j] \in RunPc
      PROVE  Recording(j)'
  <2> DEFINE v == my[j].work
  <2>1. Recording(j) /\ v \in Work /\ pc'[j] = pc[j] /\ my'[j] = my[j]
    BY <1>3 DEF Whole, RunPc, Typed, TypeOK
  <2>2. CASE v = w
    <3>1. phase[w].plan # NoPlan
      BY <1>3, <2>1, <2>2 DEF Recording, Current, Apart
    <3> QED BY <1>3, <2>1, <2>2, <3>1 DEF Recording, Selected
  <2>3. CASE v # w
    <3>1. phase'[v] = phase[v]
      BY <2>1, <2>3
    <3>2. \A k \in Worker : lease' = k /\ my'[k].work = v =>
            lease = k /\ my[k].work = v /\ k # i
      BY <2>3
    <3> QED BY <1>3, <2>1, <3>1, <3>2 DEF Recording, Selected
  <2> QED BY <2>2, <2>3
<1>4. ASSUME NEW j \in Worker PROVE Recording(j)'
  <2>1. CASE j = i
    BY <2>1 DEF Recording
  <2>2. CASE j # i
    BY <1>3, <2>2 DEF Recording
  <2> QED BY <2>1, <2>2
<1> QED BY <1>1, <1>2, <1>4 DEF Whole

\* A check and its effect are in the same part of the work.
LEMMA SameParts ==
  ASSUME NEW p \in CheckPc
  PROVE  SamePart(p, Behind(p)) /\ p \notin Apart
  BY DEF SamePart, Behind, CheckPc, PlannedPc, ConfirmedPc, RunPc, UnitPc, FinalPc,
         Apart

\* A quiet step leaves a Worker in its part of the work.
LEMMA WholeQuiet ==
  ASSUME Typed, Whole, NEW i \in Worker, Quiet(i)
  PROVE  Whole'
<1>1. PICK q \in Pc : pc' = [pc EXCEPT ![i] = q] /\ QuietMove(i, q)
  BY DEF Quiet
<1>2. /\ UNCHANGED <<fence, phase, recorded, cursor, late, torn, life, my>>
      /\ lease' \in {lease, None} \/ (lease' = i /\ pc[i] = "acquire")
      /\ pc'[i] = q /\ \A j \in Worker \ {i} : pc'[j] = pc[j]
  BY <1>1 DEF Quiet, kept, Typed, TypeOK
<1>3. /\ SamePart(pc[i], q) /\ (q \notin Apart => pc[i] \notin Apart)
      /\ pc[i] = "acquire" => q = "begin"
  <2>1. CASE pc[i] \in CheckPc /\ q = Behind(pc[i])
    BY <2>1, SameParts DEF CheckPc
  <2>2. CASE ~(pc[i] \in CheckPc /\ q = Behind(pc[i]))
    BY <1>1, <2>2 DEF QuietMove, SamePart, Apart, PlannedPc, ConfirmedPc, RunPc,
                      UnitPc, FinalPc
  <2> QED BY <2>1, <2>2
<1>4. q = "begin" => q \notin AtWork /\ q \in Apart
  BY AtWorkPoints DEF Apart
<1>5. ASSUME NEW j \in Worker PROVE PartKept(j) /\ HoldsKept(j)
  <2>1. CASE j = i
    <3>1. pc'[i] \in AtWork \/ pc'[i] \notin Apart => (lease' = i => lease = i)
      BY <1>2, <1>3, <1>4
    <3> QED BY <1>2, <1>3, <2>1, <3>1 DEF PartKept, HoldsKept, Current
  <2>2. CASE j # i
    BY <1>2, <2>2 DEF PartKept, HoldsKept, SamePart, Current
  <2> QED BY <2>1, <2>2
<1> QED BY <1>2, <1>5, WholeFrame DEF Ends

\* What a current Worker reads and stages agrees with its Work's phases.
LEMMA WholeStages ==
  ASSUME Typed, Whole, NEW i \in Worker, Step(i) \/ Fault(i), Stages(i)
  PROVE  Whole'
<1> DEFINE w == my[i].work
           p == phase[w]
<1>alone. /\ \A j \in Worker \ {i} : pc'[j] = pc[j] /\ my'[j] = my[j]
          /\ \A v \in Work \ {w} : phase'[v] = phase[v]
  BY Alone
<1>t. /\ my[i] \in My /\ my \in [Worker -> My] /\ pc \in [Worker -> Pc]
      /\ phase \in [Work -> Phases] /\ w \in Work /\ p \in Phases
      /\ p.pages \in 0..Records /\ p.plan \in Plan \cup {NoPlan}
      /\ my'[i].work = w
  BY InWork DEF Typed, TypeOK, My, Phases
<1>others. ASSUME UNCHANGED <<fence, lease>>
           PROVE  \A j \in Worker \ {i} : PartKept(j) /\ HoldsKept(j)
  BY <1>alone, <1>others DEF PartKept, HoldsKept, SamePart, Current
\* A current Worker only reads.
<1>hand. ASSUME Current(i), pc[i] \in {"admit", "load"},
                UNCHANGED <<kept, life, lease>>, pc'[i] \notin RunPc,
                w \notin torn => UpToDate(i)'
         PROVE  Whole'
  <2>1. w \notin torn => PhasesFit(w)'
    <3>1. w \notin torn => PhasesFit(w)
      BY <1>t DEF Whole
    <3> QED BY <1>hand, <1>t, <3>1 DEF PhasesFit, TruePlan, Recorded, AlreadySaved, kept
  <2>2. Recording(i)'
    BY <1>hand DEF Recording
  <2> QED BY <1>alone, <1>t, <1>hand, <2>1, <2>2, WholeHand DEF Apart, kept
<1>fit. w \notin torn => PhasesFit(w)
  BY <1>t DEF Whole
<1>1. CASE AdmitsPage(i)
  <2>1. /\ UNCHANGED <<kept, life, lease>> /\ pc[i] = "admit" /\ Current(i)
        /\ my'[i].page = p.pages
        /\ pc'[i] = IF p.pages < Records THEN "readPage" ELSE "load"
    BY <1>t, <1>1 DEF AdmitsPage, My
  <2>2. p.pages < Records \/ p.pages = Records
    BY <1>t
  <2>3. UpToDate(i)' /\ pc'[i] \notin RunPc
    BY <1>t, <2>1, <2>2 DEF UpToDate, kept, PlannedPc, ConfirmedPc, RunPc, UnitPc,
                            FinalPc
  <2> QED BY <1>hand, <2>1, <2>3
<1>2. CASE AdmitsReplay(i)
  <2>1. UNCHANGED <<kept, life, lease>> /\ pc'[i] = "release"
    BY <1>t, <1>2 DEF AdmitsReplay
  <2>2. PartKept(i) /\ HoldsKept(i)
    BY <2>1, AtWorkPoints DEF PartKept, HoldsKept, Apart
  <2> QED BY <1>others, <2>1, <2>2, WholeFrame DEF kept, Ends
<1>3. CASE ReadPage(i)
  <2>1. /\ UNCHANGED <<fence, lease, phase, recorded, cursor, late, torn, life>>
        /\ pc[i] = "readPage" /\ pc'[i] = "savePage"
        /\ my' = [my EXCEPT ![i].held = source[my[i].page + 1]]
    BY <1>t, <1>3 DEF ReadPage, At, Goto, checkpointVars, ghostVars
  <2>2. /\ my'[i].page = my[i].page /\ my'[i].plan = my[i].plan
        /\ my'[i].record = my[i].record /\ my'[i].row = my[i].row
    BY <1>t, <2>1 DEF My
  <2>3. PartKept(i) /\ HoldsKept(i)
    BY <1>t, <2>1, <2>2
       DEF PartKept, HoldsKept, SamePart, Current, Apart, PlannedPc, ConfirmedPc,
           RunPc, UnitPc, FinalPc
  <2> QED BY <1>others, <2>1, <2>3, WholeFrame DEF Ends
<1>4. CASE SavePage(i)
  <2> DEFINE r == my[i].page + 1
  <2>1. /\ UNCHANGED <<fence, lease, recorded, cursor, life, my>>
        /\ phase' = [phase EXCEPT ![w].pages = r, ![w].staged[r] = my[i].held]
        /\ pc[i] = "savePage" /\ pc'[i] = "checkContinue"
        /\ torn' = IF Current(i) THEN torn ELSE torn \cup {w}
        /\ late' = IF Current(i) THEN late ELSE late \cup {r}
    BY <1>t, <1>4 DEF SavePage, At, Goto, Touch, Tear, checkpointVars
  <2>2. CASE Current(i)
    <3>1. w \notin torn => p.plan = NoPlan /\ ~p.result /\ ~p.write.complete
      <4>1. my[i].page < Records
        BY <2>1 DEF Typed, Local
      <4>2. w \notin torn => my[i].page = p.pages /\ p.pages # Records
        BY <1>t, <2>1, <2>2, <4>1 DEF Whole, UpToDate
      <4>3. p.write \in Row /\ p.write.complete \in BOOLEAN /\ p.result \in BOOLEAN
        BY <1>t DEF Phases, Row
      <4> QED BY <1>fit, <4>2, <4>3 DEF PhasesFit
    <3>2. /\ phase'[w].plan = p.plan /\ phase'[w].result = p.result
          /\ phase'[w].write = p.write
      BY <1>t, <2>1 DEF Phases
    <3>3. w \notin torn => PhasesFit(w)'
      BY <1>t, <3>1, <3>2 DEF PhasesFit
    <3>4. UpToDate(i)' /\ Recording(i)'
      BY <2>1, AtWorkPoints DEF UpToDate, Recording
    <3> QED
      BY <1>alone, <1>t, <2>1, <2>2, <3>2, <3>3, <3>4, WholeHand DEF Apart
  <2>3. CASE ~Current(i)
    <3>1. PartKept(i) /\ HoldsKept(i)
      BY <1>t, <2>1, <2>3 DEF PartKept, HoldsKept, Apart
    <3>2. late \subseteq late' /\ torn \subseteq torn' /\ w \in torn'
      BY <2>1, <2>3
    <3> QED BY <1>alone, <1>others, <2>1, <3>1, <3>2, WholeFrame DEF Ends
  <2> QED BY <2>2, <2>3
<1>load. ASSUME NEW plan, NEW row, NEW q, Loads(i, plan, row, q)
         PROVE  /\ my'[i].plan = plan /\ pc'[i] = q /\ pc[i] = "load" /\ Current(i)
                /\ UNCHANGED <<kept, life, lease>>
  BY <1>t, <1>load DEF Loads, My
<1>ready. w \notin torn /\ pc[i] = "load" /\ Current(i) => p.pages = Records
  BY DEF Whole, UpToDate
<1>5. CASE LoadsDone(i)
  <2>1. /\ Loads(i, p.plan, p.write, "checkResult")
        /\ p.write.complete /\ AlreadySaved(p.write)
    BY <1>5 DEF LoadsDone
  <2>2. /\ pc'[i] = "checkResult" /\ pc[i] = "load" /\ Current(i)
        /\ UNCHANGED <<kept, life, lease>>
    BY <1>load, <2>1
  <2>3. w \notin torn => p.plan # NoPlan /\ Recorded(w)
    BY <1>fit, <2>1, <2>2 DEF PhasesFit, Current
  <2>4. w \notin torn => UpToDate(i)'
    <3>1. w \notin torn => phase'[w].plan # NoPlan /\ Recorded(w)'
      BY <1>t, <2>2, <2>3 DEF Recorded, kept
    <3> QED BY <1>t, <2>2, <3>1
            DEF UpToDate, PlannedPc, RunPc, UnitPc, FinalPc, ConfirmedPc
  <2> QED BY <1>hand, <2>2, <2>4 DEF RunPc
<1>6. CASE LoadsNew(i)
  <2>2. PICK f \in BOOLEAN : /\ RecordGone(w) => f
                             /\ Loads(i, PlanOf(w, f), EmptyRow, "checkPlan")
    BY <1>6 DEF LoadsNew
  <2>3. /\ my'[i].plan = PlanOf(w, f) /\ pc'[i] = "checkPlan" /\ pc[i] = "load"
        /\ Current(i) /\ UNCHANGED <<kept, life, lease>>
    BY <1>load, <2>2
  <2>4. p.plan = NoPlan
    BY <1>6 DEF LoadsNew
  <2>5. TruePlan(w, PlanOf(w, f))
    BY <2>2 DEF TruePlan, PlanOf, Changed, RecordGone
  <2>6. w \notin torn => UpToDate(i)'
    <3>1. TruePlan(w, PlanOf(w, f))' /\ PlanOf(w, f)' = PlanOf(w, f)
      BY <1>t, <2>3, <2>5 DEF TruePlan, PlanOf, Changed, kept
    <3>2. TruePlan(w, my[i].plan)'
      BY <2>3, <3>1 DEF TruePlan
    <3> QED BY <1>t, <1>ready, <2>3, <2>4, <3>2
            DEF UpToDate, PlannedPc, RunPc, UnitPc, FinalPc, ConfirmedPc, kept
  <2> QED BY <1>hand, <2>3, <2>6 DEF RunPc
\* The stored plan is taken.
<1>planned. ASSUME my'[i].plan = p.plan, p.plan # NoPlan, pc[i] = "load", Current(i),
                   pc'[i] \in {"checkPreflight", "checkAttempt", "checkFinal",
                               "checkUnit"},
                   UNCHANGED <<kept, life, lease>>
            PROVE  Whole'
  <2>1. UpToDate(i)'
    BY <1>t, <1>planned
       DEF UpToDate, PlannedPc, RunPc, UnitPc, FinalPc, ConfirmedPc, kept
  <2> QED BY <1>hand, <1>planned, <2>1 DEF RunPc
<1>7. CASE LoadsPreflight(i)
  BY <1>load, <1>planned, <1>7 DEF LoadsPreflight
<1>8. CASE LoadsEnd(i)
  <2>1. \E q \in {"checkAttempt", "checkFinal"} :
          Loads(i, p.plan, [p.write EXCEPT !.of = p.plan], q) /\ p.plan # NoPlan
    BY <1>8 DEF LoadsEnd
  <2> QED BY <1>load, <1>planned, <2>1
<1>9. CASE LoadsUnit(i)
  <2>1. my'[i].plan = p.plan /\ pc'[i] = "checkUnit"
    BY <1>t, <1>9 DEF LoadsUnit, My
  <2> QED BY <1>planned, <1>9, <2>1 DEF LoadsUnit
<1> QED BY <1>1, <1>2, <1>3, <1>4, <1>5, <1>6, <1>7, <1>8, <1>9 DEF Stages

\* A batch records one selected record of the Work's plan.
LEMMA WholeBatch ==
  ASSUME Typed, Rows, Whole, NEW i \in Worker, Step(i) \/ Fault(i), Batch(i)
  PROVE  Whole'
<1> DEFINE w == my[i].work
           plan == my[i].plan
<1>alone. \A j \in Worker \ {i} : pc'[j] = pc[j] /\ my'[j] = my[j]
  BY Alone
<1>1. PICK r \in Left(i) :
        /\ \A l \in Left(i) : r <= l
        /\ my' = [my EXCEPT ![i].record = r]
        /\ IF Fenced(i)
             THEN /\ recorded' = [recorded EXCEPT ![r] = [content |-> plan.content[r],
                                                     run |-> my[i].row.attempt]]
                  /\ Touch(i, {r})
             ELSE UNCHANGED <<recorded, late>>
  BY DEF Batch
<1>2. /\ UNCHANGED <<fence, lease, phase, cursor, torn, life>>
      /\ pc[i] = "batch" /\ pc' = [pc EXCEPT ![i] = "assert"]
  BY DEF Batch, At, Goto
<1>t. /\ my \in [Worker -> My] /\ my[i] \in My /\ pc \in [Worker -> Pc]
      /\ w \in Work /\ recorded \in [Record -> [content: Content, run: Nat]]
      /\ my[i].record \in Nat
  BY <1>2 DEF Typed, TypeOK, My
<1>3. /\ my'[i].work = w /\ my'[i].plan = plan /\ my'[i].row = my[i].row
      /\ my'[i].record = r /\ pc'[i] = "assert"
  BY <1>1, <1>2, <1>t DEF My
<1>4. r \in Record /\ r \in Selected(plan)
  BY <1>1 DEF Left, Selected
<1>5. \A s \in Selected(plan) : s <= r => s = r \/ s <= my[i].record
  <2>1. ASSUME NEW s \in Selected(plan), s <= r, ~(s <= my[i].record) PROVE s = r
    <3>1. s \in Left(i)
      BY <1>t, <2>1 DEF Left, Selected, Record
    <3> QED BY <1>1, <1>4, <2>1, <3>1 DEF Record, Selected
  <2> QED BY <2>1
<1>6. /\ late \subseteq late'
      /\ \A s \in Record \ {r} : recorded'[s] = recorded[s]
      /\ recorded'[r] # recorded[r] /\ r \notin late' => Current(i)
      /\ fence = w => recorded'[r] = [content |-> plan.content[r],
                                      run |-> my[i].row.attempt]
  BY <1>1, <1>4, <1>t DEF Touch, Fenced
<1>7. w \notin torn => UpToDate(i) /\ Recording(i)
  BY DEF Whole
<1>8. w \notin torn /\ Current(i) => phase[w].plan = plan /\ plan # NoPlan /\ fence = w
  BY <1>2, <1>7 DEF UpToDate, PlannedPc, RunPc, Current
\* What changes a record that is not touched late is the plan of the Work.
<1>mine. ASSUME NEW v \in Work \ torn, fence = v,
                recorded'[r] # recorded[r], r \notin late'
         PROVE  /\ v = w /\ phase[v].plan = plan /\ plan # NoPlan
                /\ recorded'[r].content = plan.content[r] /\ plan.content[r] # 0
  BY <1>4, <1>6, <1>8, <1>mine DEF Current, Selected
<1>9. ASSUME NEW v \in Work \ torn' PROVE PhasesFit(v)'
  <2>1. PhasesFit(v) /\ v \notin torn
    BY <1>2 DEF Whole
  <2>2. fence = v /\ phase[v].plan # NoPlan => TruePlan(v, phase[v].plan)'
    BY <1>2, <1>6, <1>mine, <2>1 DEF PhasesFit, TruePlan
  <2>3. ASSUME fence = v, phase[v].plan # NoPlan, Recorded(v) PROVE Recorded(v)'
    <3>1. TruePlan(v, phase[v].plan)
      BY <2>1, <2>3 DEF PhasesFit
    <3> QED BY <1>2, <1>6, <1>mine, <2>1, <2>3, <3>1 DEF Recorded, TruePlan
  <2> QED BY <1>2, <2>1, <2>2, <2>3 DEF PhasesFit, AlreadySaved
<1>10. ASSUME NEW j \in Worker PROVE UpToDate(j)'
  <2>1. CASE j = i
    <3>1. ASSUME w \notin torn, Current(i)
          PROVE  \A s \in Selected(plan) \ late' :
                    s <= r => recorded'[s].run = my[i].row.attempt
      <4>1. \A s \in Selected(plan) \ late :
              s <= my[i].record => recorded[s].run = my[i].row.attempt
        BY <1>2, <1>7, <3>1 DEF UpToDate, RunPc
      <4> QED BY <1>5, <1>6, <3>1, <4>1 DEF Current, Selected
    <3>2. Current(i)' = Current(i)
      BY <1>2, <1>3 DEF Current
    <3> QED BY <1>2, <1>3, <1>8, <2>1, <3>1, <3>2
            DEF UpToDate, PlannedPc, ConfirmedPc, RunPc, UnitPc, FinalPc, Selected
  <2>2. CASE j # i
    <3>1. UpToDate(j) /\ pc'[j] = pc[j] /\ my'[j] = my[j] /\ Current(j)' = Current(j)
      BY <1>2, <1>alone, <2>2 DEF Whole, Current
    <3>2. Current(j) => \A s \in Record \ late' : recorded'[s] = recorded[s]
      BY <1>6, <2>2 DEF Current
    <3> QED BY <1>2, <1>6, <3>1, <3>2 DEF UpToDate, TruePlan, Recorded, Selected
  <2> QED BY <2>1, <2>2
<1>11. ASSUME NEW j \in Worker PROVE Recording(j)'
  <2>apart. \A k \in Worker : pc'[k] \in Apart <=> pc[k] \in Apart
    BY <1>2, <1>t DEF Apart
  <2>works. \A k \in Worker : my'[k].work = my[k].work
    BY <1>3, <1>alone
  <2>1. CASE j = i
    <3>1. ASSUME w \notin torn, fence = w
          PROVE  \A s \in Selected(plan) \ late' :
                    s <= r => recorded'[s].content = plan.content[s]
      <4>1. \A s \in Selected(plan) \ late :
              s <= my[i].record => recorded[s].content = plan.content[s]
        BY <1>2, <1>7, <3>1 DEF Recording, RunPc
      <4> QED BY <1>5, <1>6, <3>1, <4>1 DEF Selected
    <3>2. w \notin torn =>
            /\ phase[w].plan \in {NoPlan, plan}
            /\ phase[w].plan = NoPlan =>
                 /\ life[w] \notin {"absent", "active"}
                 /\ \A k \in Worker : lease = k /\ my[k].work = w => pc[k] \in Apart
      BY <1>2, <1>7 DEF Recording, RunPc, Apart
    <3> QED BY <1>2, <1>3, <2>1, <2>apart, <2>works, <3>1, <3>2
            DEF Recording, Selected, Apart
  <2>2. CASE j # i /\ my[j].work \notin torn /\ pc[j] \in RunPc
    <3> DEFINE v == my[j].work
    <3>1. /\ Recording(j) /\ pc'[j] = pc[j] /\ my'[j] = my[j] /\ v \in Work \ torn
      BY <1>alone, <2>2 DEF Whole, RunPc, Typed, TypeOK
    <3>2. ASSUME fence = v, NEW s \in Selected(my[j].plan) \ late', s <= my[j].record
          PROVE  recorded'[s].content = my[j].plan.content[s]
      <4>1. recorded[s].content = my[j].plan.content[s]
        BY <1>6, <2>2, <3>1, <3>2 DEF Recording
      <4>2. phase[v].plan # NoPlan => phase[v].plan = my[j].plan
        BY <2>2, <3>1 DEF Recording
      <4> QED BY <1>6, <1>mine, <3>1, <3>2, <4>1, <4>2 DEF Selected
    <3>3. /\ phase[v].plan \in {NoPlan, my[j].plan}
          /\ phase[v].plan = NoPlan =>
               /\ life[v] \notin {"absent", "active"}
               /\ \A k \in Worker : lease = k /\ my[k].work = v => pc[k] \in Apart
      BY <2>2, <3>1 DEF Recording, Apart
    <3> QED BY <1>2, <3>1, <2>apart, <2>works, <3>2, <3>3
            DEF Recording, Selected, Apart
  <2>3. CASE j # i /\ ~(my[j].work \notin torn /\ pc[j] \in RunPc)
    BY <1>2, <1>alone, <2>3 DEF Recording
  <2> QED BY <2>1, <2>2, <2>3
<1> QED BY <1>9, <1>10, <1>11 DEF Whole

\* The last batch leaves in the checkpoint what the Work staged.
LEMMA WholeFinalBatch ==
  ASSUME Typed, Rows, Whole, NEW i \in Worker, Step(i) \/ Fault(i), FinalBatch(i)
  PROVE  Whole'
<1> DEFINE w == my[i].work
           plan == my[i].plan
<1>1. /\ UNCHANGED <<fence, lease, phase, torn, life, my>>
      /\ pc[i] = "final" /\ pc' = [pc EXCEPT ![i] = "confirm"]
      /\ IF Fenced(i)
           THEN /\ recorded' = [r \in Record |-> IF r \in Swept(i) THEN NoState
                                                  ELSE recorded[r]]
                /\ Touch(i, Swept(i))
           ELSE UNCHANGED <<recorded, cursor, late>>
  BY DEF FinalBatch, At, Goto, checkpointVars
<1>t. /\ pc \in [Worker -> Pc] /\ w \in Work /\ pc'[i] = "confirm"
      /\ \A j \in Worker \ {i} : pc'[j] = pc[j]
      /\ recorded \in [Record -> [content: Content, run: Nat]]
      /\ \A s \in Selected(plan) : s \in Record /\ s \in Nat
      /\ my[i].record \in Nat
  BY <1>1 DEF Typed, TypeOK, My, Selected, Record
<1>2. \A s \in Selected(plan) : s <= my[i].record
  <2>1. Left(i) = {}
    BY <1>1 DEF Rows, RowInHand
  <2> QED BY <1>t, <2>1 DEF Left
<1>3. /\ late \subseteq late'
      /\ \A s \in Record : recorded'[s] = recorded[s] \/
            (fence = w /\ s \in Swept(i) /\ recorded'[s] = NoState)
      /\ fence = w => \A s \in Swept(i) : recorded'[s] = NoState
      /\ ~Current(i) /\ fence = w => Swept(i) \subseteq late'
  BY <1>1, <1>t DEF Touch, Fenced, Swept
<1>4. w \notin torn => UpToDate(i) /\ Recording(i)
  BY DEF Whole
<1>5. w \notin torn /\ Current(i) =>
        /\ phase[w].plan = plan /\ plan # NoPlan /\ fence = w
        /\ \A s \in Selected(plan) \ late : s \notin Swept(i)
  BY <1>1, <1>2, <1>4 DEF UpToDate, PlannedPc, RunPc, Current, Swept
\* What is selected and not touched late stays.
<1>stays. ASSUME w \notin torn, fence = w, NEW s \in Selected(plan) \ late'
          PROVE  recorded'[s] = recorded[s] /\ recorded[s].content = plan.content[s]
  <2>1. recorded[s].content = plan.content[s]
    BY <1>1, <1>2, <1>3, <1>4, <1>stays DEF Recording, RunPc
  <2> QED BY <1>3, <1>5, <1>stays, <1>t, <2>1
\* What is not selected is swept by a full run, and was recorded otherwise.
<1>rest. \A s \in Record \ Selected(plan) :
           IF plan.full THEN s \in Swept(i) ELSE s \notin Swept(i)
  BY <1>1 DEF Rows, RunInHand, RunPc, Swept
<1>6. ASSUME w \notin torn, fence = w, phase[w].plan # NoPlan
      PROVE  Recorded(w)' /\ TruePlan(w, phase[w].plan)'
  <2>1. phase[w].plan = plan /\ TruePlan(w, plan)
    <3>1. phase[w].plan = plan
      BY <1>1, <1>4, <1>6 DEF Recording, RunPc
    <3>2. PhasesFit(w)
      BY <1>6, <1>t DEF Whole
    <3> QED BY <1>6, <3>1, <3>2 DEF PhasesFit
  <2>2. ASSUME NEW s \in Record \ late'
        PROVE  /\ recorded'[s].content = phase[w].staged[s]
               /\ plan.content[s] \in {0, phase[w].staged[s]}
               /\ plan.content[s] = 0 /\ plan.full => phase[w].staged[s] = 0
    <3>1. /\ plan.content[s] \in {0, phase[w].staged[s]}
          /\ plan.content[s] = 0 =>
               IF plan.full THEN phase[w].staged[s] = 0
               ELSE recorded[s].content = phase[w].staged[s]
      BY <1>3, <2>1 DEF TruePlan
    <3>2. CASE s \in Selected(plan)
      BY <1>6, <1>stays, <3>1, <3>2 DEF Selected
    <3>3. CASE s \notin Selected(plan)
      <4>1. plan.content[s] = 0
        BY <3>3 DEF Selected
      <4>2. plan.full => recorded'[s] = NoState
        BY <1>3, <1>6, <1>rest, <3>3
      <4>3. ~plan.full => recorded'[s] = recorded[s]
        BY <1>3, <1>rest, <3>3
      <4> QED BY <3>1, <4>1, <4>2, <4>3 DEF NoState
    <3> QED BY <3>2, <3>3, <3>1
  <2> QED BY <1>1, <2>1, <2>2 DEF Recorded, TruePlan
<1>7. ASSUME NEW v \in Work \ torn' PROVE PhasesFit(v)'
  <2>1. PhasesFit(v) /\ v \notin torn
    BY <1>1 DEF Whole
  <2>2. CASE fence = v /\ v = w
    <3>1. phase[v].plan # NoPlan => Recorded(v)' /\ TruePlan(v, phase[v].plan)'
      BY <1>1, <1>6, <2>1, <2>2
    <3> QED BY <1>1, <2>1, <3>1 DEF PhasesFit
  <2>3. CASE fence # v
    BY <1>1, <2>1, <2>3 DEF PhasesFit
  <2>4. CASE fence = v /\ v # w
    <3>1. UNCHANGED <<recorded, cursor, late>>
      BY <1>1, <2>4 DEF Fenced
    <3> QED BY <1>1, <2>1, <3>1 DEF PhasesFit, TruePlan, Recorded, AlreadySaved
  <2> QED BY <2>2, <2>3, <2>4
<1>8. ASSUME NEW j \in Worker PROVE UpToDate(j)'
  <2>1. CASE j = i
    <3>1. w \notin torn /\ Current(i) => phase[w].plan # NoPlan /\ Recorded(w)'
      BY <1>5, <1>6
    <3> QED BY <1>1, <1>t, <2>1, <3>1
            DEF UpToDate, Current, PlannedPc, ConfirmedPc, RunPc, UnitPc, FinalPc
  <2>2. CASE j # i
    <3>1. UpToDate(j) /\ pc'[j] = pc[j] /\ Current(j)' = Current(j)
      BY <1>1, <1>t, <2>2 DEF Whole, Current
    <3>2. Current(j) => \A s \in Record \ late' : recorded'[s] = recorded[s]
      BY <1>3, <2>2 DEF Current
    <3> QED BY <1>1, <1>3, <3>1, <3>2 DEF UpToDate, TruePlan, Recorded, Selected
  <2> QED BY <2>1, <2>2
<1>9. ASSUME NEW j \in Worker, my[j].work \notin torn, pc'[j] \in RunPc
      PROVE  Recording(j)'
  <2> DEFINE v == my[j].work
  <2>1. j # i /\ pc'[j] = pc[j] /\ Recording(j) /\ v \in Work \ torn
    BY <1>t, <1>9 DEF Whole, RunPc, Typed, TypeOK
  <2>2. /\ phase[v].plan \in {NoPlan, my[j].plan}
        /\ phase[v].plan = NoPlan =>
             /\ life[v] \notin {"absent", "active"}
             /\ \A k \in Worker : lease = k /\ my[k].work = v => pc[k] \in Apart
    BY <1>9, <2>1 DEF Recording, Apart
  <2>3. ASSUME fence = v, NEW s \in Selected(my[j].plan) \ late', s <= my[j].record
        PROVE  recorded'[s].content = my[j].plan.content[s]
    <3>1. recorded[s].content = my[j].plan.content[s] /\ s \in Record
      BY <1>3, <1>9, <2>1, <2>3 DEF Recording, Selected
    <3>2. recorded'[s] = recorded[s]
      <4>1. CASE Current(i) /\ fence = w
        BY <1>3, <1>5, <2>1, <2>2, <2>3, <3>1, <4>1
      <4>2. CASE ~(Current(i) /\ fence = w)
        BY <1>3, <2>3, <3>1, <4>2
      <4> QED BY <4>1, <4>2
    <3> QED BY <3>1, <3>2
  <2>4. \A k \in Worker : pc'[k] \in Apart <=> pc[k] \in Apart
    BY <1>1, <1>t DEF Apart
  <2> QED BY <1>1, <2>2, <2>3, <2>4 DEF Recording, Selected, Apart
<1>10. \A j \in Worker : Recording(j)'
  BY <1>1, <1>9 DEF Recording
<1> QED BY <1>7, <1>8, <1>10 DEF Whole

\* What a current Worker saves agrees with what it staged; what another saves
\* is remembered.
LEMMA WholeWorks ==
  ASSUME Typed, Chain, Rows, Whole, NEW i \in Worker, Step(i) \/ Fault(i), Works(i)
  PROVE  Whole'
<1> DEFINE w == my[i].work
           p == phase[w]
           row == my[i].row
<1>alone. /\ \A j \in Worker \ {i} : pc'[j] = pc[j] /\ my'[j] = my[j]
          /\ \A v \in Work \ {w} : phase'[v] = phase[v]
  BY Alone
<1>t. /\ my[i] \in My /\ my \in [Worker -> My] /\ pc \in [Worker -> Pc]
      /\ phase \in [Work -> Phases] /\ w \in Work /\ p \in Phases
      /\ p.write \in Row /\ p.result \in BOOLEAN /\ p.write.complete \in BOOLEAN
      /\ row \in Row /\ row.complete \in BOOLEAN
      /\ my'[i].work = w
  BY InWork DEF Typed, TypeOK, My, Phases, Row
<1>others. ASSUME UNCHANGED <<fence, lease>>
           PROVE  \A j \in Worker \ {i} : PartKept(j) /\ HoldsKept(j)
  BY <1>alone, <1>others DEF PartKept, HoldsKept, SamePart, Current
<1>fit. w \notin torn => PhasesFit(w)
  BY <1>t DEF Whole
<1>ready. w \notin torn => UpToDate(i)
  BY DEF Whole
<1>row. RowInHand(i)
  BY DEF Rows
\* A Worker that is not current saves.
<1>stale. ASSUME ~Current(i), torn' = torn \cup {w}, Ends, pc[i] \notin Apart,
                 UNCHANGED <<fence, lease, recorded, cursor, late>>
          PROVE  Whole'
  <2>1. PartKept(i) /\ HoldsKept(i)
    BY <1>t, <1>stale DEF PartKept, HoldsKept
  <2>2. torn \subseteq torn' /\ w \in torn'
    BY <1>stale
  <2> QED BY <1>alone, <1>others, <1>stale, <2>1, <2>2, WholeFrame
\* A current Worker saves.
<1>hand. ASSUME Current(i), torn' = torn, pc[i] \notin Apart,
                UNCHANGED <<fence, lease, recorded, cursor, late, life>>,
                p.plan \in {NoPlan, phase'[w].plan},
                w \notin torn => PhasesFit(w)' /\ UpToDate(i)' /\ Recording(i)'
         PROVE  Whole'
  BY <1>alone, <1>t, <1>hand, InWork, WholeHand
\* What else is saved is not what Whole speaks of.
<1>frame. ASSUME UNCHANGED <<fence, lease, recorded, cursor, life>>,
                 late \subseteq late', torn \subseteq torn',
                 /\ phase'[w].pages = p.pages /\ phase'[w].staged = p.staged
                 /\ phase'[w].plan = p.plan /\ phase'[w].write = p.write
                 /\ phase'[w].result = p.result,
                 PartKept(i), HoldsKept(i)
          PROVE  Whole'
  BY <1>alone, <1>others, <1>frame, WholeFrame DEF Ends
<1>1. CASE SavePreflight(i) \/ SaveContinue(i)
  <2>1. /\ UNCHANGED <<fence, lease, recorded, cursor, late, life>>
        /\ torn \subseteq torn' /\ pc'[i] \in {"checkContinue", "release"}
        /\ pc[i] \in {"savePreflight", "saveContinue"}
    BY <1>t, <1>1 DEF SavePreflight, SaveContinue, Save, Tear, At, Goto, checkpointVars
  <2>2. /\ phase'[w].pages = p.pages /\ phase'[w].staged = p.staged
        /\ phase'[w].plan = p.plan /\ phase'[w].write = p.write
        /\ phase'[w].result = p.result
    <3>1. CASE SavePreflight(i)
      BY <1>t, <3>1 DEF SavePreflight, Save, Phases
    <3>2. CASE SaveContinue(i)
      BY <1>t, <3>2 DEF SaveContinue, Save, Phases
    <3> QED BY <1>1, <3>1, <3>2
  <2>3. PartKept(i) /\ HoldsKept(i)
    BY <1>t, <2>1, AtWorkPoints DEF PartKept, HoldsKept, Apart
  <2> QED BY <1>frame, <2>1, <2>2, <2>3
<1>2. CASE WriteUnit(i)
  <2>1. /\ UNCHANGED <<fence, lease, phase, recorded, cursor, torn, life>>
        /\ late \subseteq late' /\ pc[i] = "write" /\ pc'[i] = "checkProgress"
    BY <1>t, <1>2 DEF WriteUnit, Touch, At, Goto, checkpointVars
  <2>2. /\ my'[i].page = my[i].page /\ my'[i].plan = my[i].plan
        /\ my'[i].record = my[i].record /\ my'[i].row.attempt = row.attempt
    BY <1>t, <1>2 DEF WriteUnit, My, Row
  <2>3. PartKept(i) /\ HoldsKept(i)
    BY <1>t, <2>1, <2>2
       DEF PartKept, HoldsKept, SamePart, Current, Apart, PlannedPc, ConfirmedPc,
           RunPc, UnitPc, FinalPc
  <2> QED BY <1>frame, <2>1, <2>3
<1>3. CASE SavePlan(i)
  <2>1. /\ UNCHANGED <<fence, lease, recorded, cursor, late, life, my>>
        /\ torn' = IF Current(i) THEN torn ELSE torn \cup {w}
        /\ pc[i] = "savePlan" /\ pc'[i] = "checkContinue"
    BY <1>t, <1>3 DEF SavePlan, Save, Tear, At, Goto, checkpointVars
  <2>2. /\ phase'[w].pages = p.pages /\ phase'[w].staged = p.staged
        /\ phase'[w].plan = my[i].plan /\ phase'[w].write = p.write
        /\ phase'[w].result = p.result
    BY <1>t, <1>3 DEF SavePlan, Save, Phases
  <2>3. CASE Current(i)
    <3>0. w \notin torn => /\ p.pages = Records /\ p.plan = NoPlan
                           /\ TruePlan(w, my[i].plan)
                           /\ ~p.result /\ ~p.write.complete
      BY <1>fit, <1>ready, <1>t, <2>1, <2>3 DEF UpToDate, PhasesFit
    <3>1. w \notin torn => TruePlan(w, my[i].plan)'
      BY <1>t, <2>1, <2>2, <3>0 DEF TruePlan
    <3>2. w \notin torn => PhasesFit(w)'
      BY <1>t, <2>1, <2>2, <3>0, <3>1 DEF PhasesFit, TruePlan
    <3>3. UpToDate(i)' /\ Recording(i)'
      BY <2>1, AtWorkPoints DEF UpToDate, Recording
    <3>4. CASE w \notin torn
      BY <1>hand, <2>1, <2>3, <3>0, <3>2, <3>3, <3>4 DEF Apart
    <3>5. CASE w \in torn
      <4>1. PartKept(i) /\ HoldsKept(i)
        BY <1>t, <2>1, AtWorkPoints DEF PartKept, HoldsKept, Apart
      <4> QED BY <1>alone, <1>others, <2>1, <2>3, <3>5, <4>1, WholeFrame DEF Ends
    <3> QED BY <3>4, <3>5
  <2>4. CASE ~Current(i)
    BY <1>stale, <2>1, <2>4 DEF Ends, Apart
  <2> QED BY <2>3, <2>4
\* The row of the write phase is saved.
<1>save. ASSUME NEW new \in Row, Save(i, [p EXCEPT !.write = new]),
                UNCHANGED <<fence, lease, recorded, cursor, late, life>>,
                pc[i] \in PlannedPc \cup ConfirmedPc,
                w \notin torn /\ Current(i) =>
                   /\ new.complete => p.plan # NoPlan
                   /\ new.complete /\ AlreadySaved(new) => Recorded(w)
                   /\ UpToDate(i)' /\ Recording(i)'
         PROVE  Whole'
  <2>1. /\ phase'[w].pages = p.pages /\ phase'[w].staged = p.staged
        /\ phase'[w].plan = p.plan /\ phase'[w].write = new
        /\ phase'[w].result = p.result
    BY <1>t, <1>save DEF Save, Phases
  <2>2. torn' = IF Current(i) THEN torn ELSE torn \cup {w}
    BY <1>save DEF Save, Tear
  <2>3. pc[i] \notin Apart
    BY <1>save DEF PlannedPc, ConfirmedPc, RunPc, UnitPc, FinalPc, Apart
  <2>4. CASE Current(i)
    <3>1. ASSUME w \notin torn PROVE PhasesFit(w)'
      <4>1. /\ PhasesFit(w) /\ my'[i].work = w /\ torn' = torn
            /\ new.complete => p.plan # NoPlan
            /\ new.complete /\ AlreadySaved(new) => Recorded(w)
        BY <1>fit, <1>save, <1>t, <2>2, <2>4, <3>1
      <4>2. fence = w /\ p.plan # NoPlan => TruePlan(w, phase[w].plan)'
        BY <1>save, <1>t, <2>1, <4>1 DEF PhasesFit, TruePlan
      <4>3. Recorded(w) => Recorded(w)'
        BY <1>save, <1>t, <2>1 DEF Recorded
      <4>4. AlreadySaved(phase[w].write)' = AlreadySaved(new)
        BY <1>save, <1>t, <2>1 DEF AlreadySaved
      <4> QED BY <1>save, <1>t, <2>1, <4>1, <4>2, <4>3, <4>4 DEF PhasesFit
    <3> QED BY <1>hand, <1>save, <2>1, <2>2, <2>3, <2>4, <3>1
  <2>5. CASE ~Current(i)
    BY <1>save, <1>stale, <2>2, <2>3, <2>5 DEF Ends
  <2> QED BY <2>4, <2>5
<1>4. CASE SaveProgress(i)
  <2>1. /\ UNCHANGED <<fence, lease, recorded, cursor, late, life, my>>
        /\ pc[i] = "saveProgress" /\ pc'[i] = "checkContinue"
        /\ Save(i, [p EXCEPT !.write = row])
    BY <1>t, <1>4 DEF SaveProgress, At, Goto, checkpointVars
  <2>2. ~row.complete
    BY <1>row, <2>1 DEF RowInHand
  <2>3. UpToDate(i)' /\ Recording(i)'
    BY <2>1, AtWorkPoints DEF UpToDate, Recording
  <2> QED BY <1>save, <1>t, <2>1, <2>2, <2>3 DEF PlannedPc
<1>5. CASE EndsWrite(i)
  <2>1. /\ UNCHANGED <<fence, lease, recorded, cursor, late, life>>
        /\ pc[i] = "saveFinal" /\ pc'[i] = "checkAttempt"
        /\ my' = [my EXCEPT ![i].row.complete = TRUE]
        /\ Save(i, [p EXCEPT !.write = my'[i].row])
    BY <1>t, <1>5 DEF EndsWrite, SaveFinal, At, Goto, checkpointVars
  <2>2. my'[i].plan = my[i].plan /\ my'[i].row = [row EXCEPT !.complete = TRUE]
    BY <1>t, <2>1 DEF My
  <2>3. my'[i].row \in Row /\ ~AlreadySaved([row EXCEPT !.complete = TRUE])
    <3>1. row.attempt = 0 /\ ~row.saved
      BY <1>row, <2>1 DEF RowInHand, RowFits, FinalPc
    <3>2. /\ [row EXCEPT !.complete = TRUE].attempt = row.attempt
          /\ [row EXCEPT !.complete = TRUE].saved = row.saved
      BY <1>t DEF Row
    <3>3. [row EXCEPT !.complete = TRUE] \in Row
      BY <1>t DEF Row
    <3> QED BY <2>2, <3>1, <3>2, <3>3 DEF AlreadySaved
  <2>4. phase'[w].plan = p.plan
    BY <1>t, <2>1 DEF Save, Phases
  <2>5. w \notin torn /\ Current(i) => p.plan = my[i].plan /\ p.plan # NoPlan
    BY <1>ready, <2>1 DEF UpToDate, PlannedPc, FinalPc
  <2>6. w \notin torn /\ Current(i) => UpToDate(i)'
    BY <1>t, <2>1, <2>2, <2>4, <2>5
       DEF UpToDate, PlannedPc, ConfirmedPc, RunPc, UnitPc, FinalPc
  <2>7. Recording(i)'
    BY <2>1 DEF Recording, RunPc
  <2> QED BY <1>save, <2>1, <2>2, <2>3, <2>5, <2>6, <2>7 DEF PlannedPc, FinalPc
<1>6. CASE SaveAttempt(i)
  <2>1. /\ UNCHANGED <<fence, lease, recorded, cursor, late, life>>
        /\ pc[i] = "saveAttempt" /\ pc'[i] = "checkCheckpoint" /\ runs' = runs + 1
        /\ my' = [my EXCEPT ![i].row.attempt = runs', ![i].record = 0]
        /\ Save(i, [p EXCEPT !.write = my'[i].row])
    BY <1>t, <1>6 DEF SaveAttempt, At, Goto, checkpointVars
  <2>2. /\ my'[i].plan = my[i].plan /\ my'[i].row = [row EXCEPT !.attempt = runs']
        /\ my'[i].record = 0
    BY <1>t, <2>1 DEF My
  <2>r. runs \in Nat /\ cursor.run \in Nat /\ cursor.run <= runs
    BY DEF Rows, Typed, TypeOK
  <2>3. my'[i].row \in Row /\ ~AlreadySaved([row EXCEPT !.attempt = runs'])
    <3>1. ~row.saved /\ row.complete
      BY <1>row, <2>1 DEF RowInHand
    <3> QED BY <1>t, <2>1, <2>2, <2>r, <3>1 DEF AlreadySaved, Row
  <2>4. phase'[w].plan = p.plan
    BY <1>t, <2>1 DEF Save, Phases
  <2>5. w \notin torn /\ Current(i) => p.plan = my[i].plan /\ p.plan # NoPlan
    BY <1>ready, <2>1 DEF UpToDate, PlannedPc
  <2>6. \A r \in Selected(my[i].plan) : ~(r <= 0)
    BY DEF Selected, Record
  <2>7. w \notin torn /\ Current(i) => UpToDate(i)'
    BY <1>t, <2>1, <2>2, <2>4, <2>5, <2>6
       DEF UpToDate, PlannedPc, ConfirmedPc, RunPc, UnitPc, FinalPc, Selected
  <2>8. w \notin torn /\ Current(i) => Recording(i)'
    BY <1>t, <2>1, <2>2, <2>4, <2>5, <2>6 DEF Recording, Selected
  <2> QED BY <1>save, <2>1, <2>2, <2>3, <2>5, <2>7, <2>8 DEF PlannedPc
<1>7. CASE SaveSaved(i)
  <2>1. /\ UNCHANGED <<fence, lease, recorded, cursor, late, life>>
        /\ pc[i] = "saveSaved" /\ pc'[i] = "checkResult"
        /\ my' = [my EXCEPT ![i].row.saved = TRUE]
        /\ Save(i, [p EXCEPT !.write = my'[i].row])
    BY <1>t, <1>7 DEF SaveSaved, At, Goto, checkpointVars
  <2>2. my'[i].row = [row EXCEPT !.saved = TRUE] /\ my'[i].row \in Row
    BY <1>t, <2>1 DEF My, Row
  <2>3. phase'[w].plan = p.plan /\ phase'[w].staged = p.staged
    BY <1>t, <2>1 DEF Save, Phases
  <2>4. w \notin torn /\ Current(i) => p.plan # NoPlan /\ Recorded(w)
    BY <1>ready, <2>1 DEF UpToDate, ConfirmedPc
  <2>5. w \notin torn /\ Current(i) => Recorded(w)'
    BY <1>t, <2>1, <2>3, <2>4 DEF Recorded
  <2>6. w \notin torn /\ Current(i) => UpToDate(i)'
    BY <1>t, <2>1, <2>3, <2>4, <2>5
       DEF UpToDate, PlannedPc, ConfirmedPc, RunPc, UnitPc, FinalPc
  <2>7. Recording(i)'
    BY <2>1 DEF Recording, RunPc
  <2> QED BY <1>save, <2>1, <2>2, <2>4, <2>6, <2>7 DEF ConfirmedPc
<1>8. CASE SaveResult(i)
  <2>1. /\ UNCHANGED <<fence, lease, recorded, cursor, late, life, my>>
        /\ torn' = IF Current(i) THEN torn ELSE torn \cup {w}
        /\ pc[i] = "saveResult" /\ pc'[i] = "checkComplete"
    BY <1>t, <1>8 DEF SaveResult, Save, Tear, At, Goto, checkpointVars
  <2>2. /\ phase'[w].pages = p.pages /\ phase'[w].staged = p.staged
        /\ phase'[w].plan = p.plan /\ phase'[w].write = p.write
    BY <1>t, <1>8 DEF SaveResult, Save, Phases
  <2>3. CASE Current(i)
    <3>1. w \notin torn => p.plan # NoPlan /\ Recorded(w)
      BY <1>ready, <2>1, <2>3 DEF UpToDate, ConfirmedPc
    <3>2. w \notin torn => Recorded(w)'
      BY <1>t, <2>1, <2>2, <3>1 DEF Recorded
    <3>3. w \notin torn => PhasesFit(w)'
      BY <1>fit, <1>t, <2>1, <2>2, <3>1, <3>2 DEF PhasesFit, TruePlan
    <3>4. UpToDate(i)' /\ Recording(i)'
      BY <2>1, AtWorkPoints DEF UpToDate, Recording
    <3> QED BY <1>hand, <2>1, <2>2, <2>3, <3>3, <3>4 DEF Apart
  <2>4. CASE ~Current(i)
    BY <1>stale, <2>1, <2>4 DEF Ends, Apart
  <2> QED BY <2>3, <2>4
<1>9. CASE Batch(i) \/ FinalBatch(i)
  BY <1>9, WholeBatch, WholeFinalBatch
<1>10. CASE Complete(i)
  <2>1. /\ UNCHANGED <<fence, lease, recorded, cursor, late, my>>
        /\ torn' = IF Current(i) THEN torn ELSE torn \cup {w}
        /\ pc[i] = "complete" /\ pc' = [pc EXCEPT ![i] = "release"]
        /\ phase' = [phase EXCEPT ![w] = EmptyPhases]
        /\ life' = [life EXCEPT ![w] = IF @ = "active" THEN "completed" ELSE @]
    BY <1>t, <1>10 DEF Complete, Tear, At, Goto, checkpointVars
  <2>2. life \in [Work -> Life] /\ life[w] # "absent"
    BY <2>1 DEF Typed, TypeOK, Chain, Numbered
  <2>3. Ends /\ life'[w] \notin {"absent", "active"}
        /\ \A v \in Work \ {w} : life'[v] = life[v]
    BY <1>t, <2>1, <2>2 DEF Ends
  <2>4. CASE Current(i)
    <3>1. /\ phase'[w] = EmptyPhases /\ EmptyPhases.plan = NoPlan
          /\ ~EmptyPhases.result /\ ~EmptyPhases.write.complete /\ torn' = torn
          /\ pc'[i] = "release"
      BY <1>t, <2>1, <2>4 DEF EmptyPhases, EmptyRow
    <3>2. ASSUME NEW v \in Work \ torn' PROVE PhasesFit(v)'
      <4>1. CASE v = w
        BY <3>1, <4>1 DEF PhasesFit
      <4>2. CASE v # w
        <5>1. PhasesFit(v) /\ phase'[v] = phase[v]
          BY <1>alone, <3>1, <4>2 DEF Whole
        <5> QED BY <2>1, <5>1 DEF PhasesFit, TruePlan, Recorded, AlreadySaved
      <4> QED BY <4>1, <4>2
    <3>3. ASSUME NEW j \in Worker PROVE UpToDate(j)'
      <4>1. CASE j = i
        BY <3>1, <4>1, AtWorkPoints DEF UpToDate
      <4>2. CASE j # i
        BY <2>1, <2>4, <4>2 DEF UpToDate, Current
      <4> QED BY <4>1, <4>2
    <3>4. ASSUME NEW j \in Worker, my[j].work \notin torn, pc'[j] \in RunPc
          PROVE  Recording(j)'
      <4> DEFINE v == my[j].work
      <4>1. j # i /\ pc'[j] = pc[j] /\ Recording(j) /\ v \in Work
        BY <1>alone, <3>1, <3>4 DEF Whole, RunPc, Typed, TypeOK
      <4>2. CASE v = w
        <5>1. \A k \in Worker : lease' = k => k = i
          BY <2>1, <2>4 DEF Current
        <5> QED BY <2>1, <2>3, <3>1, <3>4, <4>1, <4>2, <5>1 DEF Recording, Selected
      <4>3. CASE v # w
        <5>1. phase'[v] = phase[v] /\ life'[v] = life[v]
          BY <1>alone, <2>3, <4>1, <4>3
        <5>2. \A k \in Worker : lease' = k /\ my'[k].work = v =>
                pc'[k] = pc[k] \/ k = i
          BY <1>alone
        <5> QED BY <2>1, <3>1, <3>4, <4>1, <4>3, <5>1, <5>2 DEF Recording, Selected
      <4> QED BY <4>2, <4>3
    <3>5. \A j \in Worker : Recording(j)'
      BY <2>1, <3>1, <3>4 DEF Recording
    <3> QED BY <3>2, <3>3, <3>5 DEF Whole
  <2>5. CASE ~Current(i)
    BY <1>stale, <2>1, <2>3, <2>5 DEF Apart
  <2> QED BY <2>4, <2>5
<1> QED
  BY <1>1, <1>2, <1>3, <1>4, <1>5, <1>6, <1>7, <1>8, <1>9, <1>10 DEF Works

\* The fence comes to a Work with nothing in its phases, and that no Worker
\* is recording.
LEMMA WholeClaims ==
  ASSUME Typed, Taken, Whole, NEW i \in Worker, Claims(i)
  PROVE  Whole'
<1> DEFINE w == my[i].work
<1>1. /\ pc[i] = "begin" /\ pc' = [pc EXCEPT ![i] = "admit"] /\ w \in Work
      /\ Claimable(w) /\ fence' = w /\ life[w] \in {"absent", "active"}
      /\ life' = [life EXCEPT ![w] = "active"]
      /\ UNCHANGED <<lease, phase, recorded, cursor, late, torn, my>>
  BY DEF Claims, Typed, TypeOK
<1>2. /\ pc'[i] = "admit" /\ \A j \in Worker \ {i} : pc'[j] = pc[j]
      /\ \A v \in Work \ {w} : life'[v] = life[v]
  BY <1>1 DEF Typed, TypeOK
<1>3. ASSUME NEW j \in Worker, pc'[j] \in AtWork, my[j].work = w
      PROVE  fence = w
  <2>1. pc[j] \notin {"idle", "acquire", "begin"}
    BY <1>2, <1>3, AtWorkPoints
  <2>2. Reached(w)
    BY <1>3, <2>1 DEF Taken
  <2> QED BY <1>1, <2>2, NoReturn
<1>4. ASSUME NEW v \in Work \ torn' PROVE PhasesFit(v)'
  <2>1. PhasesFit(v)
    BY <1>1 DEF Whole
  <2>2. CASE v # w \/ fence = w
    BY <1>1, <2>1, <2>2 DEF PhasesFit, TruePlan, Recorded, AlreadySaved
  <2>3. CASE v = w /\ fence # w
    <3>1. phase[w] = EmptyPhases
      BY <1>1, <2>3, NoReturn DEF Taken
    <3>2. phase'[w] = EmptyPhases /\ EmptyPhases.plan = NoPlan
          /\ ~EmptyPhases.result /\ ~EmptyPhases.write.complete
      BY <1>1, <3>1 DEF EmptyPhases, EmptyRow
    <3> QED BY <2>3, <3>2 DEF PhasesFit
  <2> QED BY <2>2, <2>3
<1>5. ASSUME NEW j \in Worker PROVE UpToDate(j)'
  <2>1. CASE pc'[j] \in AtWork /\ Current(j)'
    <3>1. my[j].work = w /\ lease = j /\ fence = w
      BY <1>1, <1>3, <2>1 DEF Current
    <3>2. j # i /\ pc'[j] = pc[j] /\ UpToDate(j)
      BY <1>2, <2>1, AtWorkPoints DEF Whole
    <3> QED BY <1>1, <3>1, <3>2 DEF UpToDate, Current, TruePlan, Recorded, Selected
  <2>2. CASE ~(pc'[j] \in AtWork /\ Current(j)')
    BY <2>2, AtWorkPoints DEF UpToDate
  <2> QED BY <2>1, <2>2
<1>6. ASSUME NEW j \in Worker, my[j].work \notin torn, pc'[j] \in RunPc
      PROVE  Recording(j)'
  <2> DEFINE v == my[j].work
  <2>1. j # i /\ pc'[j] = pc[j] /\ Recording(j) /\ v \in Work
    BY <1>2, <1>6 DEF Whole, RunPc, Typed, TypeOK
  <2>2. v = w => fence = w /\ phase[w].plan # NoPlan
    BY <1>1, <1>3, <1>6, <2>1, AtWorkPoints DEF Recording
  <2>3. fence' = v => fence = v
    BY <1>1, <2>2
  <2>4. phase[v].plan = NoPlan => v # w
    BY <2>2
  <2>5. \A k \in Worker : my[k].work = v /\ v # w => pc'[k] = pc[k]
    BY <1>2
  <2> QED BY <1>1, <1>2, <1>6, <2>1, <2>3, <2>4, <2>5 DEF Recording, Selected
<1>7. \A j \in Worker : Recording(j)'
  BY <1>1, <1>6 DEF Recording
<1> QED BY <1>4, <1>5, <1>7 DEF Whole

\* Every other step leaves the phases and the Workers at work alone.
LEMMA WholeStep ==
  Typed /\ Chain /\ Taken /\ Rows /\ Whole /\ [Next]_vars => Whole'
<1> SUFFICES ASSUME Typed, Chain, Taken, Rows, Whole, [Next]_vars PROVE Whole'
  OBVIOUS
<1>t. my \in [Worker -> My] /\ pc \in [Worker -> Pc] /\ life \in [Work -> Life]
  BY DEF Typed, TypeOK
<1>frame. ASSUME UNCHANGED <<fence, phase, recorded, cursor, late, torn>>, Ends,
                 \A i \in Worker : PartKept(i) /\ HoldsKept(i)
          PROVE  Whole'
  BY <1>frame, WholeFrame
<1>same. ASSUME UNCHANGED <<fence, phase, recorded, cursor, late, torn, pc, my>>, Ends,
                lease' \in {lease, None}
         PROVE  Whole'
  <2>1. \A i \in Worker : PartKept(i) /\ HoldsKept(i)
    BY <1>same DEF PartKept, HoldsKept, SamePart, Current
  <2> QED BY <1>frame, <1>same, <2>1
\* A Worker that comes or goes is not at work.
<1>one. ASSUME NEW i \in Worker,
               UNCHANGED <<fence, phase, recorded, cursor, late, torn>>, Ends,
               lease' \in {lease, None},
               \A j \in Worker \ {i} : pc'[j] = pc[j] /\ my'[j] = my[j],
               \/ pc'[i] = "acquire"
               \/ pc'[i] = "idle" /\ my'[i].work \notin Work
        PROVE  Whole'
  <2>1. PartKept(i) /\ HoldsKept(i)
    BY <1>one, AtWorkPoints DEF PartKept, HoldsKept, Apart
  <2>2. \A j \in Worker \ {i} : PartKept(j) /\ HoldsKept(j)
    BY <1>one DEF PartKept, HoldsKept, SamePart, Current
  <2> QED BY <1>frame, <1>one, <2>1, <2>2
<1>1. ASSUME NEW r \in Record, NEW c \in Content, Edit(r, c) PROVE Whole'
  BY <1>1, <1>same DEF Edit, checkpointVars, ghostVars, Ends
<1>2. ASSUME NEW i \in Worker, NEW w \in Work, NEW m \in queued[w],
             Deliver(i, w, m) \/ DeliverTwice(i, w, m)
      PROVE  Whole'
  <2>1. /\ UNCHANGED <<lease, fence, life, phase, recorded, cursor, late, torn>>
        /\ pc'[i] = "acquire"
        /\ \A j \in Worker \ {i} : pc'[j] = pc[j] /\ my'[j] = my[j]
    BY <1>2, <1>t DEF Deliver, DeliverTwice, Receive, Goto, checkpointVars, ghostVars
  <2> QED BY <1>one, <2>1 DEF Ends
<1>3. ASSUME NEW i \in Worker, Step(i) \/ Fault(i) PROVE Whole'
  <2>1. CASE Gone(i)
    <3>1. /\ UNCHANGED <<fence, phase, recorded, cursor, late, torn>> /\ Ends
          /\ lease' \in {lease, None} /\ pc'[i] = "idle" /\ my'[i] = Fresh
          /\ \A j \in Worker \ {i} : pc'[j] = pc[j] /\ my'[j] = my[j]
      BY <1>t, <2>1 DEF Gone, Leave, Goto, kept
    <3>2. Fresh.work \notin Work
      BY DEF Fresh
    <3> QED BY <1>one, <3>1, <3>2
  <2>2. CASE LeaseLost
    BY <1>same, <2>2 DEF LeaseLost, kept, Ends
  <2> QED
    BY <1>3, <2>1, <2>2, Sorted, WholeQuiet, WholeClaims, WholeStages, WholeWorks
<1>4. ASSUME NEW w \in Work, NEW m \in queued[w], DeadLetter(w, m) PROVE Whole'
  <2>1. Ends
    BY <1>4, <1>t DEF DeadLetter, Ends
  <2> QED BY <1>4, <1>same, <2>1 DEF DeadLetter, checkpointVars, ghostVars
<1>5. CASE UNCHANGED vars
  BY <1>5, <1>same DEF vars, Ends
<1> QED BY <1>1, <1>2, <1>3, <1>4, <1>5 DEF Next

\* At first every Work's phases are empty, and no Worker is at work.
LEMMA WholeInit == Init => Whole
<1> SUFFICES ASSUME Init PROVE Whole
  OBVIOUS
<1>1. /\ \A w \in Work : phase[w] = EmptyPhases
      /\ \A i \in Worker : pc[i] = "idle"
  BY DEF Init
<1>2. EmptyPhases.plan = NoPlan /\ ~EmptyPhases.result /\ ~EmptyPhases.write.complete
  BY DEF EmptyPhases, EmptyRow
<1>3. \A w \in Work : PhasesFit(w)
  BY <1>1, <1>2 DEF PhasesFit
<1>4. \A i \in Worker : UpToDate(i) /\ Recording(i)
  BY <1>1, AtWorkPoints DEF UpToDate, Recording
<1> QED BY <1>3, <1>4 DEF Whole

\* When the result of a Work is kept, the checkpoint has what the Work
\* staged, and so has Lark: what is recorded is not ahead of Lark, and Lark is
\* not ahead of what the current Work staged.
THEOREM CheckpointComplete == Spec => []CheckpointIsComplete
<1> DEFINE Inv == Traced /\ Chain /\ Whole
<1>1. Init => Inv
  BY TypedInit, TracedInit, ChainInit, WholeInit DEF Traced
<1>2. Inv /\ [Next]_vars => Inv'
  BY TracedStep, ChainStep, WholeStep DEF Traced
<1>3. Inv => CheckpointIsComplete
  <2> SUFFICES ASSUME Traced, Whole, NEW w \in Work \ torn,
                      phase[w].result, fence = w, NEW r \in Record \ late
               PROVE  /\ recorded[r].content = phase[w].staged[r]
                      /\ phase[w].staged[r] # 0 /\ r \notin reverted =>
                           lark[r] = phase[w].staged[r]
    BY DEF CheckpointIsComplete
  <2>1. recorded[r].content = phase[w].staged[r]
    BY DEF Whole, PhasesFit, Recorded
  <2>2. ASSUME phase[w].staged[r] # 0, r \notin reverted
        PROVE  lark[r] = phase[w].staged[r]
    <3>1. recorded[r].content <= lark[r] /\ lark[r] <= phase[w].staged[r]
      BY <2>2 DEF Traced, Forward, Shown, StagedIsNew
    <3> QED BY <2>1, <3>1, Numbers DEF Traced
  <2> QED BY <2>1, <2>2
<1> QED BY <1>1, <1>2, <1>3, PTL DEF Spec

===============================================================================
