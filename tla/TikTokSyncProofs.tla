--------------------------- MODULE TikTokSyncProofs ---------------------------
(***************************************************************************)
(* What holds of TikTokSync for every number of Workers, Works, records    *)
(* and disturbances.                                                       *)
(***************************************************************************)
EXTENDS TikTokSync, TLAPS

\* Where a Worker's own variables say more than their types.
Planning == {"checkPlan", "savePlan", "checkPreflight", "savePreflight",
             "checkFinal", "saveFinal", "checkAttempt", "saveAttempt",
             "checkCheckpoint", "assert", "batch", "final"}
Local(i) ==
    /\ pc[i] \in {"readPage", "savePage"} => my[i].page < Records
    /\ pc[i] \in {"checkUnit", "write"} => my[i].row.next < Records
    /\ pc[i] \in Planning => my[i].plan \in Plan

Typed == TypeOK /\ \A i \in Worker : Local(i)

USE NoneAssumption, GenerationAssumption, RecordsAssumption, BoundAssumption

\* Every point where a Worker can stand.
LEMMA Points ==
    /\ Pc = {"idle", "acquire", "begin", "admit", "readPage", "savePage",
             "load", "batch", "final", "confirm", "release", "send", "abandon",
             "savePlan", "savePreflight", "write", "saveProgress", "saveFinal",
             "saveAttempt", "assert", "saveSaved", "saveResult", "complete",
             "saveContinue"} \cup CheckPc
    /\ Fresh \in My /\ EmptyRow \in Row
  BY DEF Pc, CheckPc, Behind, Fresh, My, EmptyRow, Row, Content

\* A check stands before its effect.
LEMMA Effects ==
  ASSUME NEW p \in CheckPc
  PROVE  /\ Behind(p) \in Pc \ (CheckPc \cup {"idle", "readPage", "savePage"})
         /\ Behind(p) = "write" => p = "checkUnit"
         /\ Behind(p) \in Planning => p \in Planning
  BY DEF Pc, CheckPc, Behind, Planning

\* The initial state is well typed.
LEMMA TypedInit == Init => Typed
<1> SUFFICES ASSUME Init PROVE Typed
  OBVIOUS
<1>1. EmptyRow \in Row /\ Nothing \in [Record -> Content]
  BY DEF EmptyRow, Row, Nothing, Record, Content
<1>2. EmptyPhases \in Phases
  BY <1>1 DEF EmptyPhases, Phases
<1>4. source \in [Record -> Content] /\ lark \in [Record -> Content]
  BY <1>1, InitialAssumption DEF Init, Record, Content
<1>5. TypeOK
  BY <1>2, <1>4, Points DEF Init, TypeOK, Life, NoState, Content
<1> QED BY <1>5 DEF Typed, Local, Planning, Init

\* What TypeOK and Local say of the Workers.
Places ==
    /\ pc \in [Worker -> Pc]
    /\ my \in [Worker -> My]
    /\ \A i \in Worker : IF pc[i] = "idle" THEN my[i] = Fresh
                                          ELSE my[i].work \in Work
    /\ \A i \in Worker : Local(i)

\* A Worker moves on and keeps what it has read.
LEMMA Stays ==
  ASSUME Places, NEW i \in Worker, NEW p \in Pc \ {"idle"},
         pc[i] # "idle", Goto(i, p), UNCHANGED my,
         p \in {"readPage", "savePage"} => my[i].page < Records,
         p \in {"checkUnit", "write"} => my[i].row.next < Records,
         p \in Planning => my[i].plan \in Plan
  PROVE  Places'
  BY DEF Places, Goto, Local

\* A Worker moves on with what it has read by now.
LEMMA Moves ==
  ASSUME Places, NEW i \in Worker, NEW p \in Pc \ {"idle"}, NEW a \in My,
         Goto(i, p), my' = [my EXCEPT ![i] = a], a.work \in Work,
         p \in {"readPage", "savePage"} => a.page < Records,
         p \in {"checkUnit", "write"} => a.row.next < Records,
         p \in Planning => a.plan \in Plan
  PROVE  Places'
  BY DEF Places, Goto, Local

\* A Worker is done.
LEMMA Leaves ==
  ASSUME Places, NEW i \in Worker, Leave(i)
  PROVE  Places'
  BY Points DEF Places, Leave, Goto, Local, Planning

\* A message is delivered again.
LEMMA Retries ==
  ASSUME Typed, NEW i \in Worker, Retry(i)
  PROVE  Places' /\ queued' \in [Work -> SUBSET Nat]
<1>1. my[i].message \in Nat
  BY DEF Typed, TypeOK, My
<1> QED BY <1>1, Leaves DEF Retry, Typed, TypeOK, Places

\* A phase is saved.
LEMMA Saves ==
  ASSUME Typed, NEW i \in Worker, pc[i] # "idle", NEW phases \in Phases,
         Save(i, phases)
  PROVE  phase' \in [Work -> Phases] /\ torn' \subseteq Work
  BY DEF Typed, TypeOK, Save, Tear

\* Every step of a Worker, of the Queue and of the source keeps the types.
LEMMA TypedStep == Typed /\ [Next]_vars => Typed'
<1> SUFFICES ASSUME Typed, [Next]_vars PROVE Typed'
  OBVIOUS
<1> USE Points DEF sourceVars, checkpointVars, ghostVars
<1>places. Places /\ (Places' /\ TypeOK' => Typed')
  BY DEF Typed, TypeOK, Places
<1>work. \A i \in Worker : pc[i] # "idle" =>
           /\ my[i].work \in Work /\ my[i] \in My
           /\ phase[my[i].work] \in Phases
  BY DEF Typed, TypeOK
<1>my. \A i \in Worker : my[i] \in My
  BY DEF Typed, TypeOK
<1>at. \A i \in Worker, p \in Pc : At(i, p) => pc[i] = p
  BY DEF At
<1>1. ASSUME NEW r \in Record, NEW c \in Content, Edit(r, c) PROVE Typed'
  BY <1>1 DEF Edit, Typed, TypeOK, Local
<1>2. ASSUME NEW i \in Worker, NEW w \in Work, NEW m \in queued[w],
             Deliver(i, w, m) \/ DeliverTwice(i, w, m)
      PROVE  Typed'
  <2>1. [Fresh EXCEPT !.work = w, !.message = m] \in My
    BY DEF Typed, TypeOK, My
  <2>2. Places'
    BY <1>2, <1>places, <2>1, Moves DEF Deliver, DeliverTwice, Receive, Planning, Fresh
  <2>3. queued' \in [Work -> SUBSET Nat] /\ faults' \in Nat
    BY <1>2 DEF Deliver, DeliverTwice, Disturb, Typed, TypeOK
  <2> QED
    BY <1>2, <1>places, <2>2, <2>3 DEF Deliver, DeliverTwice, Typed, TypeOK, Places
<1>3. ASSUME NEW i \in Worker, Acquire(i) PROVE Typed'
  <2>1. Places'
    BY <1>3, <1>places, <1>at, Stays DEF Acquire, Planning
  <2> QED BY <1>3, <1>places, <2>1 DEF Acquire, Typed, TypeOK, Places
<1>4. ASSUME NEW i \in Worker, Busy(i) PROVE Typed'
  <2>1. Places' /\ queued' \in [Work -> SUBSET Nat]
    BY <1>4, Retries DEF Busy
  <2> QED BY <1>4, <1>places, <2>1 DEF Busy, Typed, TypeOK, Places
<1>5. ASSUME NEW i \in Worker, Begin(i) PROVE Typed'
  <2>1. my[i].work \in Work /\ pc[i] = "begin"
    BY <1>5, <1>work, <1>at DEF Begin
  <2>2. Places'
    <3>1. CASE Leave(i)
      BY <1>places, <3>1, Leaves
    <3>2. CASE Goto(i, "admit") /\ UNCHANGED my
      BY <1>places, <2>1, <3>2, Stays DEF Planning
    <3> QED BY <1>5, <3>1, <3>2 DEF Begin
  <2>3. /\ lease' \in Worker \cup {None} /\ fence' \in Work \cup {None}
        /\ life' \in [Work -> Life]
    BY <1>5, <2>1 DEF Begin, LetGo, Typed, TypeOK, Life
  <2> QED BY <1>5, <1>places, <2>2, <2>3 DEF Begin, Typed, TypeOK, Places
<1>6. ASSUME NEW i \in Worker, Admit(i) PROVE Typed'
  <2> DEFINE w == my[i].work
  <2>1. w \in Work /\ my[i] \in My /\ phase[w] \in Phases /\ pc[i] = "admit"
    BY <1>6, <1>work, <1>at DEF Admit
  <2>2. phase[w].pages \in 0..Records /\ phase[w].sequence \in Nat
    BY <2>1 DEF Phases
  <2>3. Places' /\ lease' \in Worker \cup {None}
    <3>1. CASE /\ my' = [my EXCEPT ![i].page = phase[w].pages]
               /\ Goto(i, IF phase[w].pages < Records THEN "readPage" ELSE "load")
               /\ UNCHANGED lease
      <4>1. [my[i] EXCEPT !.page = phase[w].pages] \in My
        BY <2>1, <2>2 DEF My
      <4>2. my' = [my EXCEPT ![i] = [my[i] EXCEPT !.page = phase[w].pages]]
        BY <3>1
      <4>3. Places'
        BY <1>places, <2>1, <2>2, <3>1, <4>1, <4>2, Moves DEF Planning, My
      <4> QED BY <3>1, <4>3 DEF Typed, TypeOK
    <3>2. CASE /\ my' = [my EXCEPT ![i].next = Replay(my[i].message, phase[w].sequence)]
               /\ Goto(i, "release")
               /\ UNCHANGED lease
      <4>1. [my[i] EXCEPT !.next = Replay(my[i].message, phase[w].sequence)] \in My
        BY <2>1, <2>2 DEF My, Replay
      <4>2. my' = [my EXCEPT ![i] = [my[i] EXCEPT !.next = Replay(my[i].message, phase[w].sequence)]]
        BY <3>2
      <4>3. Places'
        BY <1>places, <2>1, <3>2, <4>1, <4>2, Moves DEF Planning, My
      <4> QED BY <3>2, <4>3 DEF Typed, TypeOK
    <3>3. CASE Fatal(i) /\ UNCHANGED my
      <4>1. Places'
        BY <1>places, <2>1, <3>3, Stays DEF Planning, Fatal
      <4> QED BY <3>3, <4>1 DEF Fatal, LetGo, Typed, TypeOK
    <3> QED BY <1>6, <3>1, <3>2, <3>3 DEF Admit
  <2> QED BY <1>6, <1>places, <2>3 DEF Admit, Typed, TypeOK, Places
<1>7. ASSUME NEW i \in Worker, Check(i) PROVE Typed'
  <2>1. /\ Behind(pc[i]) \in Pc \ (CheckPc \cup {"idle", "readPage", "savePage"})
        /\ Behind(pc[i]) = "write" => pc[i] = "checkUnit"
        /\ Behind(pc[i]) \in Planning => pc[i] \in Planning
        /\ Behind(pc[i]) # "checkUnit"
    BY <1>7, Effects DEF Check, CheckPc
  <2>2. Local(i) /\ pc[i] # "idle"
    BY <1>7, <1>places DEF Places, Check, CheckPc
  <2>3. Places'
    BY <1>7, <1>places, <2>1, <2>2, Stays DEF Check, Local
  <2> QED BY <1>7, <1>places, <2>3 DEF Check, Typed, TypeOK, Places
<1>8. ASSUME NEW i \in Worker, CheckFails(i) PROVE Typed'
  <2>1. CASE lease = i /\ Fatal(i) /\ UNCHANGED <<my, queued>>
    <3>1. Places'
      BY <1>8, <1>places, <2>1, Stays DEF CheckFails, Fatal, Planning, CheckPc
    <3> QED
      BY <1>8, <1>places, <2>1, <3>1 DEF CheckFails, Fatal, LetGo, Typed, TypeOK, Places
  <2>2. CASE lease # i /\ Retry(i) /\ UNCHANGED lease
    <3>1. Places' /\ queued' \in [Work -> SUBSET Nat]
      BY <2>2, Retries
    <3> QED BY <1>8, <1>places, <2>2, <3>1 DEF CheckFails, Typed, TypeOK, Places
  <2> QED BY <1>8, <2>1, <2>2 DEF CheckFails
<1>9. ASSUME NEW i \in Worker, ReadPage(i) PROVE Typed'
  <2>1. my[i].work \in Work /\ my[i] \in My /\ pc[i] = "readPage" /\ my[i].page < Records
    BY <1>9, <1>work, <1>at, <1>places DEF ReadPage, Places, Local
  <2>2. my[i].page + 1 \in Record
    BY <2>1 DEF My, Record
  <2>3. [my[i] EXCEPT !.held = source[my[i].page + 1]] \in My
    BY <2>1, <2>2 DEF Typed, TypeOK, My
  <2>4. my' = [my EXCEPT ![i] = [my[i] EXCEPT !.held = source[my[i].page + 1]]]
    BY <1>9 DEF ReadPage
  <2>5. Places'
    BY <1>9, <1>places, <2>1, <2>3, <2>4, Moves DEF ReadPage, Planning, My
  <2> QED BY <1>9, <1>places, <2>5 DEF ReadPage, Typed, TypeOK, Places
<1>10. ASSUME NEW i \in Worker, SavePage(i) PROVE Typed'
  <2> DEFINE w == my[i].work
             r == my[i].page + 1
  <2>1. /\ w \in Work /\ my[i] \in My /\ phase[w] \in Phases
        /\ pc[i] = "savePage" /\ my[i].page < Records
    BY <1>10, <1>work, <1>at, <1>places DEF SavePage, Places, Local
  <2>2. r \in Record /\ r \in 0..Records /\ my[i].held \in Content
    BY <2>1 DEF My, Record
  <2>3. [phase[w] EXCEPT !.pages = r, !.staged[r] = my[i].held] \in Phases
    BY <2>1, <2>2 DEF Phases
  <2>4. phase' = [phase EXCEPT ![w] = [phase[w] EXCEPT !.pages = r, !.staged[r] = my[i].held]]
    BY <1>10 DEF SavePage
  <2>5. phase' \in [Work -> Phases]
    BY <2>3, <2>4 DEF Typed, TypeOK
  <2>6. late' \subseteq Record /\ torn' \subseteq Work
    BY <1>10, <2>1, <2>2 DEF SavePage, Touch, Tear, Typed, TypeOK
  <2>7. Places'
    BY <1>10, <1>places, <2>1, Stays DEF SavePage, Planning, CheckPc
  <2> QED BY <1>10, <1>places, <2>5, <2>6, <2>7 DEF SavePage, Typed, TypeOK, Places
<1>11. ASSUME NEW i \in Worker, Load(i) PROVE Typed'
  <2> DEFINE w == my[i].work
             p == phase[w]
  <2>1. w \in Work /\ my[i] \in My /\ p \in Phases /\ pc[i] = "load"
    BY <1>11, <1>work, <1>at DEF Load
  <2>2. /\ p.plan \in Plan \cup {NoPlan} /\ p.write \in Row
        /\ p.staged \in [Record -> Content]
    BY <2>1 DEF Phases
  <2>take. ASSUME NEW plan \in Plan \cup {NoPlan}, NEW row \in Row,
                  NEW q \in {"checkResult", "checkPlan", "checkPreflight",
                             "checkAttempt", "checkFinal"},
                  my' = [my EXCEPT ![i].plan = plan, ![i].row = row],
                  Goto(i, q), q \in Planning => plan \in Plan
           PROVE  Places'
    <3>1. [my[i] EXCEPT !.plan = plan, !.row = row] \in My
      BY <2>1 DEF My
    <3>2. my' = [my EXCEPT ![i] = [my[i] EXCEPT !.plan = plan, !.row = row]]
      BY <2>take
    <3>3. q \in Pc \ {"idle", "readPage", "savePage", "checkUnit", "write"}
      BY DEF CheckPc
    <3> QED BY <1>places, <2>1, <2>take, <3>1, <3>2, <3>3, Moves DEF My
  <2>3. CASE Goto(i, "checkComplete") /\ UNCHANGED <<my, lease>>
    <3>1. Places'
      BY <1>places, <2>1, <2>3, Stays DEF Planning, CheckPc
    <3> QED BY <1>11, <1>places, <2>3, <3>1 DEF Load, Typed, TypeOK, Places
  <2>4. CASE /\ my' = [my EXCEPT ![i].plan = p.plan, ![i].row = p.write]
             /\ Goto(i, "checkResult") /\ UNCHANGED lease
    <3>1. Places'
      BY <2>2, <2>4, <2>take DEF Planning
    <3> QED BY <1>11, <1>places, <2>4, <3>1 DEF Load, Typed, TypeOK, Places
  <2>5. CASE /\ \E full \in BOOLEAN :
                  my' = [my EXCEPT ![i].plan = PlanOf(w, full), ![i].row = EmptyRow]
             /\ Goto(i, "checkPlan") /\ UNCHANGED lease
    <3>1. PICK full \in BOOLEAN :
            my' = [my EXCEPT ![i].plan = PlanOf(w, full), ![i].row = EmptyRow]
      BY <2>5
    <3>2. PlanOf(w, full) \in Plan
      BY <2>2 DEF PlanOf, Plan, Content
    <3>3. Places'
      BY <2>5, <2>take, <3>1, <3>2
    <3> QED BY <1>11, <1>places, <2>5, <3>3 DEF Load, Typed, TypeOK, Places
  <2>6. CASE Fatal(i) /\ UNCHANGED my
    <3>1. Places'
      BY <1>places, <2>1, <2>6, Stays DEF Planning, CheckPc, Fatal
    <3> QED
      BY <1>11, <1>places, <2>6, <3>1 DEF Load, Fatal, LetGo, Typed, TypeOK, Places
  <2>7. CASE /\ p.plan # NoPlan
             /\ my' = [my EXCEPT ![i].plan = p.plan, ![i].row = EmptyRow]
             /\ Goto(i, "checkPreflight") /\ UNCHANGED lease
    <3>1. Places'
      BY <2>2, <2>7, <2>take
    <3> QED BY <1>11, <1>places, <2>7, <3>1 DEF Load, Typed, TypeOK, Places
  <2>8. CASE /\ p.plan # NoPlan
             /\ my' = [my EXCEPT ![i].plan = p.plan,
                                 ![i].row = [p.write EXCEPT !.of = p.plan]]
             /\ Goto(i, IF p.write.complete THEN "checkAttempt" ELSE "checkFinal")
             /\ UNCHANGED lease
    <3>1. [p.write EXCEPT !.of = p.plan] \in Row
      BY <2>2 DEF Row
    <3>2. Places'
      BY <2>2, <2>8, <2>take, <3>1
    <3> QED BY <1>11, <1>places, <2>8, <3>2 DEF Load, Typed, TypeOK, Places
  <2>9. CASE /\ p.write.next < Records
             /\ LET r == p.write.next + 1 IN
                  my' = [my EXCEPT ![i].plan = p.plan,
                                   ![i].row = [p.write EXCEPT !.of = p.plan],
                                   ![i].held = p.staged[r],
                                   ![i].differs = Differs(r, p.staged[r])]
             /\ Goto(i, "checkUnit") /\ UNCHANGED lease
    <3> DEFINE r == p.write.next + 1
               a == [my[i] EXCEPT !.plan = p.plan,
                                  !.row = [p.write EXCEPT !.of = p.plan],
                                  !.held = p.staged[r],
                                  !.differs = Differs(r, p.staged[r])]
    <3>1. r \in Record
      <4>1. p.write.next \in 0..Records
        BY <2>2 DEF Row
      <4>2. p.write.next < Records
        BY <2>9
      <4> QED BY <4>1, <4>2 DEF Record
    <3>2. [p.write EXCEPT !.of = p.plan] \in Row
      BY <2>2 DEF Row
    <3>3. a \in My
      BY <2>1, <2>2, <3>1, <3>2 DEF My, Differs
    <3>4. my' = [my EXCEPT ![i] = a]
      BY <2>9
    <3>5. a.work \in Work /\ a.row.next < Records
      BY <2>1, <2>2, <2>9 DEF My, Row
    <3>6. Places'
      BY <1>places, <2>1, <2>9, <3>3, <3>4, <3>5, Moves DEF Planning, CheckPc
    <3> QED BY <1>11, <1>places, <2>9, <3>6 DEF Load, Typed, TypeOK, Places
  <2> QED
    BY ZenonT(60), <1>11, <2>3, <2>4, <2>5, <2>6, <2>7, <2>8, <2>9 DEF Load
<1>12. ASSUME NEW i \in Worker, SavePlan(i) PROVE Typed'
  <2>1. /\ my[i].work \in Work /\ my[i] \in My /\ phase[my[i].work] \in Phases
        /\ pc[i] = "savePlan"
    BY <1>12, <1>work, <1>at DEF SavePlan
  <2>2. my[i].plan \in Plan \cup {NoPlan}
    BY <2>1 DEF My
  <2>3. [phase[my[i].work] EXCEPT !.plan = my[i].plan] \in Phases
    BY <2>1, <2>2 DEF Phases
  <2>4. phase' \in [Work -> Phases] /\ torn' \subseteq Work
    BY <1>12, <2>1, <2>3, Saves DEF SavePlan
  <2>5. Places'
    BY <1>12, <1>places, <2>1, Stays DEF SavePlan, Planning, CheckPc
  <2> QED BY <1>12, <1>places, <2>4, <2>5 DEF SavePlan, Typed, TypeOK, Places
<1>13. ASSUME NEW i \in Worker, SavePreflight(i) PROVE Typed'
  <2>1. /\ my[i].work \in Work /\ my[i] \in My /\ phase[my[i].work] \in Phases
        /\ pc[i] = "savePreflight"
    BY <1>13, <1>work, <1>at DEF SavePreflight
  <2>2. my[i].plan \in Plan \cup {NoPlan}
    BY <2>1 DEF My
  <2>3. [phase[my[i].work] EXCEPT !.preflight = my[i].plan] \in Phases
    BY <2>1, <2>2 DEF Phases
  <2>4. phase' \in [Work -> Phases] /\ torn' \subseteq Work
    BY <1>13, <2>1, <2>3, Saves DEF SavePreflight
  <2>5. Places'
    BY <1>13, <1>places, <2>1, Stays DEF SavePreflight, Planning, CheckPc
  <2> QED BY <1>13, <1>places, <2>4, <2>5 DEF SavePreflight, Typed, TypeOK, Places
<1>14. ASSUME NEW i \in Worker, SaveProgress(i) PROVE Typed'
  <2>1. /\ my[i].work \in Work /\ my[i] \in My /\ phase[my[i].work] \in Phases
        /\ pc[i] = "saveProgress"
    BY <1>14, <1>work, <1>at DEF SaveProgress
  <2>2. my[i].row \in Row
    BY <2>1 DEF My
  <2>3. [phase[my[i].work] EXCEPT !.write = my[i].row] \in Phases
    BY <2>1, <2>2 DEF Phases
  <2>4. phase' \in [Work -> Phases] /\ torn' \subseteq Work
    BY <1>14, <2>1, <2>3, Saves DEF SaveProgress
  <2>5. Places'
    BY <1>14, <1>places, <2>1, Stays DEF SaveProgress, Planning, CheckPc
  <2> QED BY <1>14, <1>places, <2>4, <2>5 DEF SaveProgress, Typed, TypeOK, Places
<1>15. ASSUME NEW i \in Worker, SaveResult(i) PROVE Typed'
  <2>1. /\ my[i].work \in Work /\ my[i] \in My /\ phase[my[i].work] \in Phases
        /\ pc[i] = "saveResult"
    BY <1>15, <1>work, <1>at DEF SaveResult
  <2>3. [phase[my[i].work] EXCEPT !.result = TRUE] \in Phases
    BY <2>1 DEF Phases
  <2>4. phase' \in [Work -> Phases] /\ torn' \subseteq Work
    BY <1>15, <2>1, <2>3, Saves DEF SaveResult
  <2>5. Places'
    BY <1>15, <1>places, <2>1, Stays DEF SaveResult, Planning, CheckPc
  <2> QED BY <1>15, <1>places, <2>4, <2>5 DEF SaveResult, Typed, TypeOK, Places
<1>16. ASSUME NEW i \in Worker, WriteUnit(i) PROVE Typed'
  <2> DEFINE r == my[i].row.next + 1
             written == r \in Selected(my[i].row.of) /\ my[i].held # 0
             row == [my[i].row EXCEPT !.next = r,
                        !.rows = IF written THEN @ \cup {r} ELSE @]
  <2>1. /\ my[i].work \in Work /\ my[i] \in My /\ pc[i] = "write"
        /\ my[i].row.next < Records
    BY <1>16, <1>work, <1>at, <1>places DEF WriteUnit, Places, Local
  <2>2. my[i].row \in Row /\ my[i].held \in Content
    BY <2>1 DEF My
  <2>3. r \in Record /\ r \in 0..Records
    BY <2>1, <2>2 DEF Row, Record
  <2>4. row \in Row
    BY <2>2, <2>3 DEF Row
  <2>5. [my[i] EXCEPT !.row = row] \in My
    BY <2>1, <2>4 DEF My
  <2>6. my' = [my EXCEPT ![i] = [my[i] EXCEPT !.row = row]]
    BY <1>16 DEF WriteUnit
  <2>7. Places'
    BY <1>16, <1>places, <2>1, <2>5, <2>6, Moves DEF WriteUnit, Planning, CheckPc, My
  <2>8. lark' \in [Record -> Content] /\ late' \subseteq Record
    BY <1>16, <2>2, <2>3 DEF WriteUnit, Touch, Typed, TypeOK
  <2> QED BY <1>16, <1>places, <2>7, <2>8 DEF WriteUnit, Typed, TypeOK, Places
<1>17. ASSUME NEW i \in Worker, SaveSaved(i) PROVE Typed'
  <2> DEFINE row == [my[i].row EXCEPT !.saved = TRUE]
             saved == [phase[my[i].work] EXCEPT !.write = row]
  <2>1. /\ my[i].work \in Work /\ my[i] \in My /\ phase[my[i].work] \in Phases
        /\ pc[i] = "saveSaved" /\ (pc[i] \in Planning => my[i].plan \in Plan)
    BY <1>17, <1>work, <1>at, <1>places DEF SaveSaved, Places, Local
  <2>2. row \in Row
    BY <2>1 DEF My, Row, Typed, TypeOK
  <2>3. [my[i] EXCEPT !.row = row] \in My /\ saved \in Phases
    BY <2>1, <2>2 DEF My, Phases
  <2>4. /\ my' = [my EXCEPT ![i] = [my[i] EXCEPT !.row = row]]
        /\ Save(i, saved)
    BY <1>17, <1>my DEF SaveSaved, Save, Typed, TypeOK
  <2>5. phase' \in [Work -> Phases] /\ torn' \subseteq Work
    BY <2>1, <2>3, <2>4, Saves
  <2>6. Places'
    BY <1>17, <1>places, <2>1, <2>3, <2>4, Moves DEF SaveSaved, Planning, CheckPc, My
  <2> QED BY <1>17, <1>places, <2>5, <2>6 DEF SaveSaved, Typed, TypeOK, Places
<1>18. ASSUME NEW i \in Worker, SaveAttempt(i) PROVE Typed'
  <2> DEFINE row == [my[i].row EXCEPT !.attempt = runs + 1]
             saved == [phase[my[i].work] EXCEPT !.write = row]
  <2>1. /\ my[i].work \in Work /\ my[i] \in My /\ phase[my[i].work] \in Phases
        /\ pc[i] = "saveAttempt" /\ (pc[i] \in Planning => my[i].plan \in Plan)
    BY <1>18, <1>work, <1>at, <1>places DEF SaveAttempt, Places, Local
  <2>runs. runs + 1 \in Nat
    BY DEF Typed, TypeOK
  <2>2. row \in Row
    <3>1. my[i].row \in Row
      BY <2>1 DEF My
    <3> QED BY <2>runs, <3>1 DEF Row
  <2>3. [my[i] EXCEPT !.row = row, !.record = 0] \in My /\ saved \in Phases
    <3>1. 0 \in 0..Records
      OBVIOUS
    <3> HIDE DEF row
    <3> QED BY <2>1, <2>2, <3>1 DEF My, Phases
  <2>4. /\ my' = [my EXCEPT ![i] = [my[i] EXCEPT !.row = row, !.record = 0]]
        /\ Save(i, saved) /\ runs' \in Nat
    <3>1. my' = [my EXCEPT ![i] = [my[i] EXCEPT !.row = row, !.record = 0]]
      BY <1>18 DEF SaveAttempt
    <3>2. my'[i].row = row
      BY <2>1, <3>1 DEF My, Typed, TypeOK
    <3> QED BY <1>18, <2>runs, <3>1, <3>2 DEF SaveAttempt
  <2>5. phase' \in [Work -> Phases] /\ torn' \subseteq Work
    BY <2>1, <2>3, <2>4, Saves
  <2>6. Places'
    BY <1>18, <1>places, <2>1, <2>3, <2>4, Moves DEF SaveAttempt, Planning, CheckPc, My
  <2> QED BY <1>18, <1>places, <2>4, <2>5, <2>6 DEF SaveAttempt, Typed, TypeOK, Places
<1>19. ASSUME NEW i \in Worker, SaveFinal(i) PROVE Typed'
  <2> DEFINE row == [my[i].row EXCEPT !.complete = TRUE]
             saved == [phase[my[i].work] EXCEPT !.write = row]
  <2>1. /\ my[i].work \in Work /\ my[i] \in My /\ phase[my[i].work] \in Phases
        /\ pc[i] = "saveFinal" /\ (pc[i] \in Planning => my[i].plan \in Plan)
    BY <1>19, <1>work, <1>at, <1>places DEF SaveFinal, Places, Local
  <2>2. row \in Row
    BY <2>1 DEF My, Row, Typed, TypeOK
  <2>3. [my[i] EXCEPT !.row = row] \in My /\ saved \in Phases
    BY <2>1, <2>2 DEF My, Phases
  <2>4. CASE Goto(i, "checkAttempt")
    <3>4. pc'[i] = "checkAttempt"
      BY <2>4 DEF Goto, Typed, TypeOK
    <3>5. ~Goto(i, "abandon")
      BY <3>4 DEF Goto, Typed, TypeOK
    <3>6. my' = [my EXCEPT ![i] = [my[i] EXCEPT !.row = row]]
      BY <1>19, <3>5 DEF SaveFinal, Fatal
    <3>7. my'[i].row = row
      BY <2>1, <3>6 DEF My, Typed, TypeOK
    <3>1. /\ my' = [my EXCEPT ![i] = [my[i] EXCEPT !.row = row]]
          /\ Save(i, saved) /\ UNCHANGED lease
      BY <1>19, <3>5, <3>6, <3>7 DEF SaveFinal, Fatal
    <3>2. phase' \in [Work -> Phases] /\ torn' \subseteq Work
      BY <2>1, <2>3, <3>1, Saves
    <3>3. Places'
      BY <1>places, <2>1, <2>3, <2>4, <3>1, Moves DEF Planning, CheckPc, My
    <3> QED BY <1>19, <1>places, <3>1, <3>2, <3>3 DEF SaveFinal, Typed, TypeOK, Places
  <2>5. CASE Fatal(i) /\ UNCHANGED <<my, phase, torn>>
    <3>1. Places'
      BY <1>places, <2>1, <2>5, Stays DEF Planning, CheckPc, Fatal
    <3> QED
      BY <1>19, <1>places, <2>5, <3>1 DEF SaveFinal, Fatal, LetGo, Typed, TypeOK, Places
  <2> QED BY <1>19, <2>4, <2>5 DEF SaveFinal
<1>20. ASSUME NEW i \in Worker, AssertGeneration(i) PROVE Typed'
  <2>1. pc[i] = "assert" /\ (pc[i] \in Planning => my[i].plan \in Plan)
    BY <1>20, <1>at, <1>places DEF AssertGeneration, Places, Local
  <2>2. PICK p \in {"final", "batch", "abandon"} : Goto(i, p)
    BY <1>20 DEF AssertGeneration, Fatal
  <2>3. Places'
    BY <1>20, <1>places, <2>1, <2>2, Stays DEF AssertGeneration, Planning, CheckPc
  <2> QED
    BY <1>20, <1>places, <2>3 DEF AssertGeneration, Fatal, LetGo, Typed, TypeOK, Places
<1>21. ASSUME NEW i \in Worker, Confirm(i) PROVE Typed'
  <2>1. pc[i] = "confirm" /\ (pc[i] \in Planning => my[i].plan \in Plan)
    BY <1>21, <1>at, <1>places DEF Confirm, Places, Local
  <2>2. PICK p \in {"checkSaved", "abandon"} : Goto(i, p)
    BY <1>21 DEF Confirm, Fatal
  <2>3. Places'
    BY <1>21, <1>places, <2>1, <2>2, Stays DEF Confirm, Planning, CheckPc
  <2> QED
    BY <1>21, <1>places, <2>3 DEF Confirm, Fatal, LetGo, Typed, TypeOK, Places
<1>22. ASSUME NEW i \in Worker, Batch(i) PROVE Typed'
  <2>1. my[i].work \in Work /\ my[i] \in My /\ pc[i] = "batch" /\ my[i].plan \in Plan
    BY <1>22, <1>work, <1>at, <1>places DEF Batch, Places, Local, Planning
  <2>2. PICK r \in Left(i) :
          /\ IF Fenced(i)
               THEN /\ recorded' = [recorded EXCEPT
                                      ![r] = [content |-> my[i].plan.content[r],
                                              run |-> my[i].row.attempt]]
                    /\ Touch(i, {r})
               ELSE UNCHANGED <<recorded, late>>
          /\ my' = [my EXCEPT ![i].record = r]
    BY <1>22 DEF Batch
  <2>3. r \in Record /\ r \in 0..Records
    BY <2>2 DEF Left, Selected, Record
  <2>4. my[i].plan.content[r] \in Content /\ my[i].row.attempt \in Nat
    BY <2>1, <2>3 DEF Plan, My, Row
  <2>5. recorded' \in [Record -> [content: Content, run: Nat]] /\ late' \subseteq Record
    BY <2>2, <2>3, <2>4 DEF Touch, Typed, TypeOK
  <2>6. /\ [my[i] EXCEPT !.record = r] \in My
        /\ my' = [my EXCEPT ![i] = [my[i] EXCEPT !.record = r]]
    BY <2>1, <2>2, <2>3 DEF My
  <2>7. Places'
    BY <1>22, <1>places, <2>1, <2>6, Moves DEF Batch, Planning, My
  <2> QED BY <1>22, <1>places, <2>5, <2>7 DEF Batch, Typed, TypeOK, Places
<1>23. ASSUME NEW i \in Worker, FinalBatch(i) PROVE Typed'
  <2>1. my[i].work \in Work /\ my[i] \in My /\ pc[i] = "final"
    BY <1>23, <1>work, <1>at DEF FinalBatch
  <2>2. Swept(i) \subseteq Record /\ my[i].row.attempt \in Nat
    BY <2>1 DEF Swept, My, Row
  <2>3. recorded' \in [Record -> [content: Content, run: Nat]]
    BY <1>23 DEF FinalBatch, NoState, Content, Typed, TypeOK
  <2>4. cursor' \in [work: Work \cup {None}, run: Nat] /\ late' \subseteq Record
    BY <1>23, <2>1, <2>2 DEF FinalBatch, Touch, Typed, TypeOK
  <2>5. Places'
    BY <1>23, <1>places, <2>1, Stays DEF FinalBatch, Planning
  <2> QED BY <1>23, <1>places, <2>3, <2>4, <2>5 DEF FinalBatch, Typed, TypeOK, Places
<1>24. ASSUME NEW i \in Worker, Complete(i) PROVE Typed'
  <2>1. my[i].work \in Work /\ pc[i] = "complete"
    BY <1>24, <1>work, <1>at DEF Complete
  <2>2. EmptyPhases \in Phases
    BY DEF EmptyPhases, Phases, Nothing, Content
  <2>3. phase' \in [Work -> Phases] /\ life' \in [Work -> Life] /\ torn' \subseteq Work
    BY <1>24, <2>1, <2>2 DEF Complete, Tear, Life, Typed, TypeOK
  <2>4. Places'
    BY <1>24, <1>places, <2>1, Stays DEF Complete, Planning
  <2> QED BY <1>24, <1>places, <2>3, <2>4 DEF Complete, Typed, TypeOK, Places
<1>25. ASSUME NEW i \in Worker, SaveContinue(i) PROVE Typed'
  <2> DEFINE saved == [phase[my[i].work] EXCEPT !.sequence = Continued(i)]
  <2>1. /\ my[i].work \in Work /\ my[i] \in My /\ phase[my[i].work] \in Phases
        /\ pc[i] = "saveContinue"
    BY <1>25, <1>work, <1>at DEF SaveContinue
  <2>2. Continued(i) \in Nat
    BY <2>1 DEF Continued, My
  <2>3. [my[i] EXCEPT !.next = Continued(i)] \in My /\ saved \in Phases
    BY <2>1, <2>2 DEF My, Phases
  <2>4. my' = [my EXCEPT ![i] = [my[i] EXCEPT !.next = Continued(i)]]
    BY <1>25 DEF SaveContinue
  <2>5. phase' \in [Work -> Phases] /\ torn' \subseteq Work
    BY <1>25, <2>1, <2>3, Saves DEF SaveContinue
  <2>6. Places'
    BY <1>25, <1>places, <2>1, <2>3, <2>4, Moves DEF SaveContinue, Planning, My
  <2> QED BY <1>25, <1>places, <2>5, <2>6 DEF SaveContinue, Typed, TypeOK, Places
<1>26. ASSUME NEW i \in Worker, Release(i) PROVE Typed'
  <2>1. Places'
    BY <1>26, <1>places, <1>at, Stays DEF Release, Planning
  <2> QED BY <1>26, <1>places, <2>1 DEF Release, LetGo, Typed, TypeOK, Places
<1>27. ASSUME NEW i \in Worker, Send(i) PROVE Typed'
  <2>1. my[i].work \in Work /\ my[i].next \in Nat
    BY <1>27, <1>work, <1>at DEF Send, My
  <2>2. queued' \in [Work -> SUBSET Nat]
    BY <1>27, <2>1 DEF Send, Typed, TypeOK
  <2>3. Places'
    BY <1>27, <1>places, Leaves DEF Send
  <2> QED BY <1>27, <1>places, <2>2, <2>3 DEF Send, Typed, TypeOK, Places
<1>28. ASSUME NEW i \in Worker, Abandon(i) PROVE Typed'
  <2>1. Places'
    BY <1>28, <1>places, Leaves DEF Abandon
  <2>2. life' \in [Work -> Life]
    BY <1>28, <1>work, <1>at DEF Abandon, Life, Typed, TypeOK
  <2> QED BY <1>28, <1>places, <2>1, <2>2 DEF Abandon, Typed, TypeOK, Places
<1>29. ASSUME NEW i \in Worker, Fails(i) PROVE Typed'
  <2>1. Places' /\ queued' \in [Work -> SUBSET Nat]
    BY <1>29, Retries DEF Fails
  <2> QED
    BY <1>29, <1>places, <2>1 DEF Fails, LetGo, Disturb, Typed, TypeOK, Places
<1>30. ASSUME NEW i \in Worker, FailsPermanently(i) PROVE Typed'
  <2>1. Places'
    BY <1>30, <1>places, Stays DEF FailsPermanently, Fatal, Planning
  <2> QED
    BY <1>30, <1>places, <2>1
       DEF FailsPermanently, Fatal, LetGo, Disturb, Typed, TypeOK, Places
<1>31. ASSUME NEW w \in Work, NEW m \in queued[w], DeadLetter(w, m) PROVE Typed'
  <2>1. queued' \in [Work -> SUBSET Nat] /\ life' \in [Work -> Life] /\ faults' \in Nat
    BY <1>31 DEF DeadLetter, Disturb, Life, Typed, TypeOK
  <2> QED BY <1>31, <2>1 DEF DeadLetter, Typed, TypeOK, Local
<1>32. ASSUME NEW i \in Worker, LoseLease(i) \/ LeaseExpires(i) PROVE Typed'
  BY <1>32 DEF LoseLease, LeaseExpires, Disturb, Typed, TypeOK, Local
<1>33. CASE UNCHANGED vars
  BY <1>33 DEF vars, Typed, TypeOK, Local, sourceVars, checkpointVars, ghostVars
<1> QED
  BY <1>1, <1>2, <1>3, <1>4, <1>5, <1>6, <1>7, <1>8, <1>9, <1>10, <1>11, <1>12,
     <1>13, <1>14, <1>15, <1>16, <1>17, <1>18, <1>19, <1>20, <1>21, <1>22, <1>23,
     <1>24, <1>25, <1>26, <1>27, <1>28, <1>29, <1>30, <1>31, <1>32, <1>33
     DEF Next, Step, Fault, Stage, Write, Checkpoint, Leaving

\* Every variable has its type in every reachable state.
THEOREM TypeCorrect == Spec => []TypeOK
<1>1. Typed => TypeOK
  BY DEF Typed
<1> QED BY <1>1, TypedInit, TypedStep, PTL DEF Spec

(***************************************************************************)
(* An active Work is never stranded.  The message that has to carry it on  *)
(* is the one whose number is the stored sequence or the one before it:    *)
(* it is in the Queue, or with a Worker that will do its piece, send its   *)
(* continuation, or give it back.                                          *)
(***************************************************************************)
Leads(w, m) == m + 1 >= phase[w].sequence
Carries(i, w) ==
    my[i].work = w /\ ~(pc[i] \in {"release", "send"} /\ my[i].next = 0)
Pending(w) ==
    life[w] = "active" =>
        \/ \E m \in queued[w] : Leads(w, m)
        \/ \E i \in Worker : Carries(i, w) /\ Leads(w, my[i].message)
\* A Work that has not begun has no phases; a Worker past beginWork has begun.
Unbegun(w) == life[w] = "absent" => phase[w].sequence = 0
Numbered(i) ==
    /\ my[i].next # 0 => my[i].next = my[i].message + 1
    /\ pc[i] \notin {"idle", "acquire", "begin"} => life[my[i].work] # "absent"
Chain == /\ \A w \in Work : Pending(w) /\ Unbegun(w)
         /\ \A i \in Worker : Numbered(i)

\* Every first message waits in the Queue.
LEMMA ChainInit == Init => Chain
  BY DEF Init, Chain, Pending, Unbegun, Numbered, Leads, Fresh, EmptyPhases

\* A Worker goes on with its message, and the sequence stays.
LEMMA Onward ==
  ASSUME Typed, Chain, NEW i \in Worker, NEW p,
         pc[i] # "idle", Goto(i, p), p # "idle",
         p \in {"release", "send"} => pc[i] \in {"release", "send"},
         p \notin {"acquire", "begin"} => pc[i] \notin {"acquire", "begin"},
         \A j \in Worker : /\ my'[j].work = my[j].work
                           /\ my'[j].message = my[j].message
                           /\ my'[j].next = my[j].next,
         UNCHANGED <<life, queued>>,
         \A w \in Work : phase'[w].sequence = phase[w].sequence
  PROVE  Chain'
<1>1. \A j \in Worker : Numbered(j)'
  BY DEF Chain, Numbered, Goto, Typed, TypeOK
<1>2. \A j \in Worker, w \in Work : Carries(j, w) => Carries(j, w)'
  BY DEF Carries, Goto, Typed, TypeOK
<1>3. ASSUME NEW w \in Work PROVE Pending(w)' /\ Unbegun(w)'
  BY <1>2 DEF Chain, Pending, Unbegun, Leads
<1> QED BY <1>1, <1>3 DEF Chain

\* A Worker gives its message back.
LEMMA BackInQueue ==
  ASSUME Typed, Chain, NEW i \in Worker, pc[i] # "idle", Retry(i),
         UNCHANGED <<life, phase>>
  PROVE  Chain'
<1>1. my[i].work \in Work /\ my'[i] = Fresh /\ pc'[i] = "idle"
  BY DEF Typed, TypeOK, Retry, Leave, Goto
<1>2. \A j \in Worker : j # i => my'[j] = my[j] /\ pc'[j] = pc[j]
  BY DEF Typed, TypeOK, Retry, Leave, Goto
<1>3. /\ my[i].message \in queued'[my[i].work]
      /\ \A w \in Work : queued[w] \subseteq queued'[w]
  BY <1>1 DEF Typed, TypeOK, Retry
<1>4. \A j \in Worker : Numbered(j)'
  BY <1>1, <1>2 DEF Chain, Numbered, Fresh
<1>5. ASSUME NEW w \in Work PROVE Pending(w)' /\ Unbegun(w)'
  BY <1>1, <1>2, <1>3 DEF Chain, Pending, Unbegun, Leads, Carries
<1> QED BY <1>4, <1>5 DEF Chain

\* The Worker is done with a Work that is over, or has not begun.
LEMMA Over ==
  ASSUME Typed, Chain, NEW i \in Worker, pc[i] # "idle", Leave(i),
         life'[my[i].work] # "active", life'[my[i].work] = "absent" =>
            life[my[i].work] = "absent",
         \A w \in Work \ {my[i].work} : life'[w] = life[w],
         life[my[i].work] # "absent" => life'[my[i].work] # "absent",
         UNCHANGED <<phase, queued>>
  PROVE  Chain'
<1>1. my[i].work \in Work /\ my'[i] = Fresh /\ pc'[i] = "idle"
  BY DEF Typed, TypeOK, Leave, Goto
<1>2. \A j \in Worker : j # i => my'[j] = my[j] /\ pc'[j] = pc[j]
  BY DEF Typed, TypeOK, Leave, Goto
<1>3. \A j \in Worker : Numbered(j)'
  <2>1. \A j \in Worker : pc[j] # "idle" => my[j].work \in Work
    BY DEF Typed, TypeOK
  <2> QED BY <1>1, <1>2, <2>1 DEF Chain, Numbered, Fresh
<1>4. ASSUME NEW w \in Work PROVE Pending(w)' /\ Unbegun(w)'
  BY <1>1, <1>2 DEF Chain, Pending, Unbegun, Leads, Carries
<1> QED BY <1>3, <1>4 DEF Chain

\* No step of a Worker, of the Queue or of the source strands a Work.
LEMMA ChainStep == Typed /\ Chain /\ [Next]_vars => Chain'
<1> SUFFICES ASSUME Typed, Chain, [Next]_vars PROVE Chain'
  OBVIOUS
<1> USE DEF At
<1>work. \A i \in Worker : pc[i] # "idle" =>
           my[i].work \in Work /\ phase[my[i].work] \in Phases
  BY DEF Typed, TypeOK
<1>my. my \in [Worker -> My] /\ phase \in [Work -> Phases]
  BY DEF Typed, TypeOK
<1>same. UNCHANGED <<life, queued, pc, my, phase>> => Chain'
  BY DEF Chain, Pending, Unbegun, Leads, Carries, Numbered
<1>1. ASSUME NEW r \in Record, NEW c \in Content, Edit(r, c) PROVE Chain'
  BY <1>1, <1>same DEF Edit
<1>2. ASSUME NEW i \in Worker, NEW v \in Work, NEW m \in queued[v],
             Deliver(i, v, m) \/ DeliverTwice(i, v, m)
      PROVE  Chain'
  <2>1. /\ pc[i] = "idle" /\ my[i] = Fresh /\ pc'[i] = "acquire"
        /\ my'[i].work = v /\ my'[i].message = m /\ my'[i].next = 0
        /\ \A j \in Worker : j # i => my'[j] = my[j] /\ pc'[j] = pc[j]
    <3>1. /\ my' = [my EXCEPT ![i] = [Fresh EXCEPT !.work = v, !.message = m]]
          /\ Goto(i, "acquire") /\ pc[i] = "idle"
      BY <1>2 DEF Deliver, DeliverTwice, Receive
    <3> QED BY <1>my, <3>1 DEF Goto, Typed, TypeOK, Fresh
  <2>2. /\ \A w \in Work : \A k \in queued[w] : k \in queued'[w] \/ (w = v /\ k = m)
        /\ UNCHANGED <<life, phase>>
    BY <1>2 DEF Deliver, DeliverTwice, Typed, TypeOK
  <2>3. \A j \in Worker : Numbered(j)'
    BY <2>1, <2>2 DEF Chain, Numbered
  <2>4. ASSUME NEW w \in Work PROVE Pending(w)' /\ Unbegun(w)'
    BY <2>1, <2>2 DEF Chain, Pending, Unbegun, Leads, Carries, Fresh
  <2> QED BY <2>3, <2>4 DEF Chain
<1>3. ASSUME NEW i \in Worker, Busy(i) \/ Fails(i) PROVE Chain'
  BY <1>3, BackInQueue DEF Busy, Fails
<1>4. ASSUME NEW i \in Worker, Begin(i) PROVE Chain'
  <2> DEFINE w == my[i].work
  <2>1. w \in Work /\ pc[i] = "begin"
    BY <1>4, <1>work DEF Begin
  <2>2. CASE Leave(i)
    <3>1. /\ life'[w] # "active" /\ life'[w] # "absent"
          /\ \A v \in Work \ {w} : life'[v] = life[v]
      <4>1. ~Goto(i, "admit")
        BY <2>2 DEF Leave, Goto, Typed, TypeOK
      <4> QED BY <1>4, <2>1, <4>1 DEF Begin, Typed, TypeOK, Life
    <3> QED BY <1>4, <2>1, <2>2, <3>1, Over DEF Begin
  <2>3. CASE /\ life[w] \in {"absent", "active"}
             /\ life' = [life EXCEPT ![w] = "active"]
             /\ Goto(i, "admit") /\ UNCHANGED my
    <3>1. UNCHANGED <<my, phase, queued>>
      BY <1>4, <2>3 DEF Begin
    <3>2. \A j \in Worker : Numbered(j)'
      BY <2>1, <2>3, <3>1 DEF Chain, Numbered, Goto, Typed, TypeOK
    <3>3. Carries(i, w)'
      BY <2>1, <2>3, <3>1 DEF Carries, Goto, Typed, TypeOK
    <3>4. ASSUME NEW v \in Work, v = w PROVE Pending(v)'
      <4>1. CASE life[w] = "absent"
        <5>1. phase[w].sequence = 0 /\ my[i].message \in Nat
          BY <1>my, <2>1, <4>1 DEF Chain, Unbegun, My
        <5> QED BY <3>1, <3>3, <3>4, <5>1 DEF Pending, Leads
      <4>2. CASE life[w] = "active"
        <5>1. \/ \E m \in queued[w] : Leads(w, m)
              \/ \E j \in Worker : Carries(j, w) /\ Leads(w, my[j].message)
          BY <2>1, <4>2 DEF Chain, Pending
        <5>2. \A j \in Worker : Carries(j, w) => Carries(j, v)'
          BY <2>1, <2>3, <3>1, <3>4 DEF Carries, Goto, Typed, TypeOK
        <5>3. \A m : Leads(w, m) => Leads(v, m)'
          BY <3>1, <3>4 DEF Leads
        <5> QED BY <3>1, <3>4, <5>1, <5>2, <5>3 DEF Pending, Leads
      <4> QED BY <2>3, <4>1, <4>2
    <3>5. ASSUME NEW v \in Work, v # w PROVE Pending(v)'
      BY <2>1, <2>3, <3>1, <3>5 DEF Chain, Pending, Leads, Carries, Goto, Typed, TypeOK
    <3>6. \A v \in Work : Unbegun(v)'
      BY <2>1, <2>3, <3>1 DEF Chain, Unbegun, Typed, TypeOK
    <3>7. \A v \in Work : Pending(v)'
      BY <3>4, <3>5
    <3> QED BY <3>2, <3>6, <3>7 DEF Chain
  <2> QED BY <1>4, <2>2, <2>3 DEF Begin
<1>5. ASSUME NEW i \in Worker, Admit(i) PROVE Chain'
  <2> DEFINE w == my[i].work
             m == my[i].message
  <2>1. w \in Work /\ pc[i] = "admit" /\ my[i] \in My /\ m \in Nat /\ phase[w].sequence \in Nat
    BY <1>5, <1>work, <1>my DEF Admit, My, Phases
  <2>2. UNCHANGED <<life, phase, queued>>
    BY <1>5 DEF Admit
  <2>3. CASE /\ my' = [my EXCEPT ![i].page = phase[w].pages]
             /\ Goto(i, IF phase[w].pages < Records THEN "readPage" ELSE "load")
    <3>1. PICK p \in {"readPage", "load"} : Goto(i, p)
      BY <2>3
    <3>2. \A j \in Worker : /\ my'[j].work = my[j].work
                            /\ my'[j].message = my[j].message
                            /\ my'[j].next = my[j].next
      BY <1>my, <2>3 DEF My
    <3> QED BY <2>1, <2>2, <3>1, <3>2, Onward
  <2>4. CASE Fatal(i) /\ UNCHANGED my
    BY <2>1, <2>2, <2>4, Onward DEF Fatal
  <2>5. CASE /\ m < phase[w].sequence
             /\ my' = [my EXCEPT ![i].next = Replay(m, phase[w].sequence)]
             /\ Goto(i, "release")
    <3>1. /\ my'[i].next = Replay(m, phase[w].sequence) /\ pc'[i] = "release"
          /\ my'[i].work = w /\ my'[i].message = m
          /\ \A j \in Worker : j # i => my'[j] = my[j] /\ pc'[j] = pc[j]
      BY <1>my, <2>1, <2>5 DEF My, Goto, Typed, TypeOK
    <3>2. my'[i].next # 0 => my'[i].next = m + 1
      BY <2>1, <3>1 DEF Replay
    <3>3. \A j \in Worker : Numbered(j)'
      BY <2>1, <2>2, <3>1, <3>2 DEF Chain, Numbered
    <3>4. ASSUME NEW v \in Work, NEW j \in Worker, Carries(j, v), Leads(v, my[j].message)
          PROVE  Carries(j, v)' /\ Leads(v, my[j].message)'
      <4>1. CASE j = i
        <5>1. v = w /\ m + 1 = phase[w].sequence
          BY <2>1, <2>5, <3>4, <4>1 DEF Carries, Leads
        <5>2. my'[i].next = phase[w].sequence /\ my'[i].next # 0
          BY <2>1, <3>1, <5>1 DEF Replay
        <5> QED BY <2>1, <2>2, <3>1, <3>4, <4>1, <5>1, <5>2 DEF Carries, Leads
      <4>2. CASE j # i
        BY <2>2, <3>1, <3>4, <4>2 DEF Carries, Leads
      <4> QED BY <4>1, <4>2
    <3>5. ASSUME NEW v \in Work PROVE Pending(v)' /\ Unbegun(v)'
      BY <2>2, <3>4 DEF Chain, Pending, Unbegun, Leads
    <3> QED BY <3>3, <3>5 DEF Chain
  <2> QED BY <1>5, <2>3, <2>4, <2>5 DEF Admit
<1>6. ASSUME NEW i \in Worker, ReadPage(i) PROVE Chain'
  <2>1. /\ pc[i] \notin {"idle", "acquire", "begin", "release", "send"}
        /\ \E p \in {"savePage"} : Goto(i, p)
    BY <1>6 DEF ReadPage
  <2>2. \A j \in Worker : /\ my'[j].work = my[j].work
                          /\ my'[j].message = my[j].message
                          /\ my'[j].next = my[j].next
    BY <1>6, <1>my DEF ReadPage, My
  <2> QED BY <1>6, <2>1, <2>2, Onward DEF ReadPage
<1>7. ASSUME NEW i \in Worker, SavePage(i) PROVE Chain'
  <2>1. /\ pc[i] \notin {"idle", "acquire", "begin", "release", "send"}
        /\ \E p \in {"checkContinue"} : Goto(i, p)
    BY <1>7 DEF SavePage
  <2>3. \A w \in Work : phase'[w].sequence = phase[w].sequence
    BY <1>7, <1>my, <1>work DEF SavePage, Phases
  <2> QED BY <1>7, <2>1, <2>3, Onward DEF SavePage
<1>8. ASSUME NEW i \in Worker, Load(i) PROVE Chain'
  <2>1. /\ pc[i] \notin {"idle", "acquire", "begin", "release", "send"}
        /\ \E p \in CheckPc \cup {"abandon"} : Goto(i, p)
    BY <1>8 DEF Load, Fatal, CheckPc
  <2>2. \A j \in Worker : /\ my'[j].work = my[j].work
                          /\ my'[j].message = my[j].message
                          /\ my'[j].next = my[j].next
    <3> DEFINE w == my[i].work
               p == phase[w]
    <3>1. ASSUME NEW x, NEW y, my' = [my EXCEPT ![i].plan = x, ![i].row = y]
          PROVE  \A j \in Worker : /\ my'[j].work = my[j].work
                                   /\ my'[j].message = my[j].message
                                   /\ my'[j].next = my[j].next
      BY <1>my, <3>1 DEF My
    <3>2. ASSUME NEW x, NEW y, NEW h, NEW d,
                 my' = [my EXCEPT ![i].plan = x, ![i].row = y,
                                  ![i].held = h, ![i].differs = d]
          PROVE  \A j \in Worker : /\ my'[j].work = my[j].work
                                   /\ my'[j].message = my[j].message
                                   /\ my'[j].next = my[j].next
      BY <1>my, <3>2 DEF My
    <3>3. \/ UNCHANGED my
          \/ my' = [my EXCEPT ![i].plan = p.plan, ![i].row = p.write]
          \/ \E full \in BOOLEAN :
                my' = [my EXCEPT ![i].plan = PlanOf(w, full), ![i].row = EmptyRow]
          \/ my' = [my EXCEPT ![i].plan = p.plan, ![i].row = EmptyRow]
          \/ my' = [my EXCEPT ![i].plan = p.plan,
                              ![i].row = [p.write EXCEPT !.of = p.plan]]
          \/ my' = [my EXCEPT ![i].plan = p.plan,
                              ![i].row = [p.write EXCEPT !.of = p.plan],
                              ![i].held = p.staged[p.write.next + 1],
                              ![i].differs = Differs(p.write.next + 1,
                                                p.staged[p.write.next + 1])]
      BY <1>8 DEF Load
    <3>4. CASE \E full \in BOOLEAN :
                 my' = [my EXCEPT ![i].plan = PlanOf(w, full), ![i].row = EmptyRow]
      <4>1. PICK full \in BOOLEAN :
              my' = [my EXCEPT ![i].plan = PlanOf(w, full), ![i].row = EmptyRow]
        BY <3>4
      <4> QED BY <4>1, <3>1
    <3>5. CASE my' = [my EXCEPT ![i].plan = p.plan, ![i].row = p.write]
      BY <3>1, <3>5
    <3>6. CASE my' = [my EXCEPT ![i].plan = p.plan, ![i].row = EmptyRow]
      BY <3>1, <3>6
    <3>7. CASE my' = [my EXCEPT ![i].plan = p.plan,
                                ![i].row = [p.write EXCEPT !.of = p.plan]]
      BY <3>1, <3>7
    <3>8. CASE my' = [my EXCEPT ![i].plan = p.plan,
                                ![i].row = [p.write EXCEPT !.of = p.plan],
                                ![i].held = p.staged[p.write.next + 1],
                                ![i].differs = Differs(p.write.next + 1,
                                                  p.staged[p.write.next + 1])]
      BY <3>2, <3>8
    <3>9. CASE UNCHANGED my
      BY <3>9
    <3> QED BY <3>3, <3>4, <3>5, <3>6, <3>7, <3>8, <3>9
  <2>3. UNCHANGED <<life, phase, queued>>
    BY <1>8 DEF Load
  <2>4. PICK p \in CheckPc \cup {"abandon"} : Goto(i, p)
    BY <2>1
  <2>5. p \notin {"idle", "acquire", "begin", "release", "send"}
    BY <2>4 DEF CheckPc
  <2> QED BY <2>1, <2>2, <2>3, <2>4, <2>5, Onward
<1>9. ASSUME NEW i \in Worker, SavePlan(i) PROVE Chain'
  <2>1. /\ pc[i] \notin {"idle", "acquire", "begin", "release", "send"}
        /\ \E p \in {"checkContinue"} : Goto(i, p)
    BY <1>9 DEF SavePlan
  <2>3. \A w \in Work : phase'[w].sequence = phase[w].sequence
    BY <1>9, <1>my, <1>work DEF SavePlan, Save, Phases
  <2> QED BY <1>9, <2>1, <2>3, Onward DEF SavePlan
<1>10. ASSUME NEW i \in Worker, SavePreflight(i) PROVE Chain'
  <2>1. /\ pc[i] \notin {"idle", "acquire", "begin", "release", "send"}
        /\ \E p \in {"checkContinue"} : Goto(i, p)
    BY <1>10 DEF SavePreflight
  <2>3. \A w \in Work : phase'[w].sequence = phase[w].sequence
    BY <1>10, <1>my, <1>work DEF SavePreflight, Save, Phases
  <2> QED BY <1>10, <2>1, <2>3, Onward DEF SavePreflight
<1>11. ASSUME NEW i \in Worker, WriteUnit(i) PROVE Chain'
  <2>1. /\ pc[i] \notin {"idle", "acquire", "begin", "release", "send"}
        /\ \E p \in {"checkProgress"} : Goto(i, p)
    BY <1>11 DEF WriteUnit
  <2>2. \A j \in Worker : /\ my'[j].work = my[j].work
                          /\ my'[j].message = my[j].message
                          /\ my'[j].next = my[j].next
    BY <1>11, <1>my DEF WriteUnit, My
  <2> QED BY <1>11, <2>1, <2>2, Onward DEF WriteUnit
<1>12. ASSUME NEW i \in Worker, SaveProgress(i) PROVE Chain'
  <2>1. /\ pc[i] \notin {"idle", "acquire", "begin", "release", "send"}
        /\ \E p \in {"checkContinue"} : Goto(i, p)
    BY <1>12 DEF SaveProgress
  <2>3. \A w \in Work : phase'[w].sequence = phase[w].sequence
    BY <1>12, <1>my, <1>work DEF SaveProgress, Save, Phases
  <2> QED BY <1>12, <2>1, <2>3, Onward DEF SaveProgress
<1>13. ASSUME NEW i \in Worker, SaveFinal(i) PROVE Chain'
  <2>1. /\ pc[i] \notin {"idle", "acquire", "begin", "release", "send"}
        /\ \E p \in {"checkAttempt", "abandon"} : Goto(i, p)
    BY <1>13 DEF SaveFinal, Fatal
  <2>2. \A j \in Worker : /\ my'[j].work = my[j].work
                          /\ my'[j].message = my[j].message
                          /\ my'[j].next = my[j].next
    BY <1>13, <1>my DEF SaveFinal, My
  <2>3. \A w \in Work : phase'[w].sequence = phase[w].sequence
    BY <1>13, <1>my, <1>work DEF SaveFinal, Save, Phases
  <2> QED BY <1>13, <2>1, <2>2, <2>3, Onward DEF SaveFinal
<1>14. ASSUME NEW i \in Worker, SaveAttempt(i) PROVE Chain'
  <2>1. /\ pc[i] \notin {"idle", "acquire", "begin", "release", "send"}
        /\ \E p \in {"checkCheckpoint"} : Goto(i, p)
    BY <1>14 DEF SaveAttempt
  <2>2. \A j \in Worker : /\ my'[j].work = my[j].work
                          /\ my'[j].message = my[j].message
                          /\ my'[j].next = my[j].next
    BY <1>14, <1>my DEF SaveAttempt, My
  <2>3. \A w \in Work : phase'[w].sequence = phase[w].sequence
    BY <1>14, <1>my, <1>work DEF SaveAttempt, Save, Phases
  <2> QED BY <1>14, <2>1, <2>2, <2>3, Onward DEF SaveAttempt
<1>15. ASSUME NEW i \in Worker, AssertGeneration(i) PROVE Chain'
  <2>1. /\ pc[i] \notin {"idle", "acquire", "begin", "release", "send"}
        /\ \E p \in {"batch", "final", "abandon"} : Goto(i, p)
    BY <1>15 DEF AssertGeneration, Fatal
  <2> QED BY <1>15, <2>1, Onward DEF AssertGeneration
<1>16. ASSUME NEW i \in Worker, Batch(i) PROVE Chain'
  <2>1. /\ pc[i] \notin {"idle", "acquire", "begin", "release", "send"}
        /\ \E p \in {"assert"} : Goto(i, p)
    BY <1>16 DEF Batch
  <2>2. \A j \in Worker : /\ my'[j].work = my[j].work
                          /\ my'[j].message = my[j].message
                          /\ my'[j].next = my[j].next
    BY <1>16, <1>my DEF Batch, My
  <2> QED BY <1>16, <2>1, <2>2, Onward DEF Batch
<1>17. ASSUME NEW i \in Worker, FinalBatch(i) PROVE Chain'
  <2>1. /\ pc[i] \notin {"idle", "acquire", "begin", "release", "send"}
        /\ \E p \in {"confirm"} : Goto(i, p)
    BY <1>17 DEF FinalBatch
  <2> QED BY <1>17, <2>1, Onward DEF FinalBatch
<1>18. ASSUME NEW i \in Worker, Confirm(i) PROVE Chain'
  <2>1. /\ pc[i] \notin {"idle", "acquire", "begin", "release", "send"}
        /\ \E p \in {"checkSaved", "abandon"} : Goto(i, p)
    BY <1>18 DEF Confirm, Fatal
  <2> QED BY <1>18, <2>1, Onward DEF Confirm
<1>19. ASSUME NEW i \in Worker, SaveSaved(i) PROVE Chain'
  <2>1. /\ pc[i] \notin {"idle", "acquire", "begin", "release", "send"}
        /\ \E p \in {"checkResult"} : Goto(i, p)
    BY <1>19 DEF SaveSaved
  <2>2. \A j \in Worker : /\ my'[j].work = my[j].work
                          /\ my'[j].message = my[j].message
                          /\ my'[j].next = my[j].next
    BY <1>19, <1>my DEF SaveSaved, My
  <2>3. \A w \in Work : phase'[w].sequence = phase[w].sequence
    BY <1>19, <1>my, <1>work DEF SaveSaved, Save, Phases
  <2> QED BY <1>19, <2>1, <2>2, <2>3, Onward DEF SaveSaved
<1>20. ASSUME NEW i \in Worker, SaveResult(i) PROVE Chain'
  <2>1. /\ pc[i] \notin {"idle", "acquire", "begin", "release", "send"}
        /\ \E p \in {"checkComplete"} : Goto(i, p)
    BY <1>20 DEF SaveResult
  <2>3. \A w \in Work : phase'[w].sequence = phase[w].sequence
    BY <1>20, <1>my, <1>work DEF SaveResult, Save, Phases
  <2> QED BY <1>20, <2>1, <2>3, Onward DEF SaveResult
<1>21. ASSUME NEW i \in Worker, FailsPermanently(i) PROVE Chain'
  <2>1. /\ pc[i] \notin {"idle", "acquire", "begin", "release", "send"}
        /\ \E p \in {"abandon"} : Goto(i, p)
    BY <1>21 DEF FailsPermanently, Fatal
  <2> QED BY <1>21, <2>1, Onward DEF FailsPermanently
<1>22. ASSUME NEW i \in Worker, Acquire(i) PROVE Chain'
  BY <1>22, Onward DEF Acquire
<1>23. ASSUME NEW i \in Worker, Check(i) PROVE Chain'
  <2>1. Behind(pc[i]) \in Pc \ {"idle", "release", "send", "acquire", "begin"}
    BY <1>23 DEF Check, CheckPc, Behind, Pc
  <2> QED BY <1>23, <2>1, Onward DEF Check, CheckPc
<1>24. ASSUME NEW i \in Worker, CheckFails(i) PROVE Chain'
  <2>1. CASE Fatal(i) /\ UNCHANGED my /\ UNCHANGED queued
    <3>1. pc[i] \notin {"idle", "acquire", "begin", "release", "send"}
      BY <1>24 DEF CheckFails, CheckPc
    <3> QED BY <1>24, <2>1, <3>1, Onward DEF CheckFails, Fatal
  <2>2. CASE Retry(i)
    <3>1. pc[i] # "idle"
      BY <1>24 DEF CheckFails, CheckPc
    <3> QED BY <1>24, <2>2, <3>1, BackInQueue DEF CheckFails
  <2> QED BY <1>24, <2>1, <2>2 DEF CheckFails
<1>25. ASSUME NEW i \in Worker, Release(i) PROVE Chain'
  BY <1>25, Onward DEF Release
<1>26. ASSUME NEW i \in Worker, Complete(i) PROVE Chain'
  <2> DEFINE w == my[i].work
  <2>1. w \in Work /\ pc[i] = "complete" /\ life[w] # "absent"
    BY <1>26, <1>work DEF Complete, Chain, Numbered
  <2>2. /\ life'[w] \notin {"active", "absent"}
        /\ \A v \in Work \ {w} : life'[v] = life[v] /\ phase'[v] = phase[v]
        /\ UNCHANGED <<my, queued>> /\ Goto(i, "release")
    BY <1>26, <1>my, <2>1 DEF Complete, Typed, TypeOK, Life
  <2>3. \A j \in Worker : Numbered(j)'
    BY <2>1, <2>2 DEF Chain, Numbered, Goto, Typed, TypeOK
  <2>4. ASSUME NEW v \in Work PROVE Pending(v)' /\ Unbegun(v)'
    BY <2>1, <2>2 DEF Chain, Pending, Unbegun, Leads, Carries, Goto, Typed, TypeOK
  <2> QED BY <2>3, <2>4 DEF Chain
<1>27. ASSUME NEW i \in Worker, SaveContinue(i) PROVE Chain'
  <2> DEFINE w == my[i].work
             m == my[i].message
  <2>1. /\ w \in Work /\ pc[i] = "saveContinue" /\ m \in Nat /\ life[w] # "absent"
        /\ my[i] \in My /\ phase[w] \in Phases
    BY <1>27, <1>work, <1>my DEF SaveContinue, Chain, Numbered, My
  <2>2. /\ my'[i].next = m + 1 /\ my'[i].work = w /\ my'[i].message = m
        /\ \A j \in Worker : j # i => my'[j] = my[j]
    BY <1>27, <1>my, <2>1 DEF SaveContinue, Continued, My
  <2>3. /\ phase'[w].sequence = m + 1
        /\ \A v \in Work \ {w} : phase'[v] = phase[v]
    BY <1>27, <1>my, <2>1 DEF SaveContinue, Save, Continued, Phases
  <2>4. UNCHANGED <<life, queued>> /\ Goto(i, "release")
    BY <1>27 DEF SaveContinue
  <2>5. \A j \in Worker : Numbered(j)'
    BY <2>1, <2>2, <2>4 DEF Chain, Numbered, Goto, Typed, TypeOK
  <2>6. ASSUME NEW v \in Work, v = w PROVE Pending(v)' /\ Unbegun(v)'
    BY <2>1, <2>2, <2>3, <2>4, <2>6
       DEF Pending, Unbegun, Leads, Carries, Goto, Typed, TypeOK
  <2>7. ASSUME NEW v \in Work, v # w PROVE Pending(v)' /\ Unbegun(v)'
    BY <2>1, <2>2, <2>3, <2>4, <2>7
       DEF Chain, Pending, Unbegun, Leads, Carries, Goto, Typed, TypeOK
  <2> QED BY <2>5, <2>6, <2>7 DEF Chain
<1>28. ASSUME NEW i \in Worker, Send(i) PROVE Chain'
  <2> DEFINE w == my[i].work
  <2>1. w \in Work /\ pc[i] = "send" /\ my[i] \in My /\ my[i].next \in Nat
    BY <1>28, <1>work, <1>my DEF Send, My
  <2>2. /\ my'[i] = Fresh /\ pc'[i] = "idle" /\ UNCHANGED <<life, phase>>
        /\ \A j \in Worker : j # i => my'[j] = my[j] /\ pc'[j] = pc[j]
    BY <1>28 DEF Send, Leave, Goto, Typed, TypeOK
  <2>3. /\ \A v \in Work : queued[v] \subseteq queued'[v]
        /\ my[i].next # 0 => my[i].next \in queued'[w]
    BY <1>28, <2>1 DEF Send, Typed, TypeOK
  <2>4. \A j \in Worker : Numbered(j)'
    BY <2>2 DEF Chain, Numbered, Fresh
  <2>5. ASSUME NEW v \in Work PROVE Pending(v)' /\ Unbegun(v)'
    <3>1. ASSUME NEW j \in Worker, Carries(j, v), Leads(v, my[j].message), j = i
          PROVE  \E k \in queued'[v] : Leads(v, k)'
      <4>1. v = w /\ my[i].next # 0 /\ my[i].next = my[i].message + 1
        BY <2>1, <3>1 DEF Carries, Chain, Numbered
      <4>2. my[i].message \in Nat /\ phase[v].sequence \in Nat
        BY <1>my, <2>1 DEF My, Phases
      <4>3. my[i].next + 1 >= phase[v].sequence
        BY <3>1, <4>1, <4>2 DEF Leads
      <4> QED BY <2>2, <2>3, <4>1, <4>3 DEF Leads
    <3>2. ASSUME NEW j \in Worker, Carries(j, v), Leads(v, my[j].message), j # i
          PROVE  Carries(j, v)' /\ Leads(v, my[j].message)'
      BY <2>2, <3>2 DEF Carries, Leads
    <3> QED BY <2>2, <2>3, <3>1, <3>2 DEF Chain, Pending, Unbegun, Leads
  <2> QED BY <2>4, <2>5 DEF Chain
<1>29. ASSUME NEW i \in Worker, Abandon(i) PROVE Chain'
  <2> DEFINE w == my[i].work
  <2>1. w \in Work /\ pc[i] = "abandon" /\ life[w] # "absent"
    BY <1>29, <1>work DEF Abandon, Chain, Numbered
  <2>2. /\ life'[w] \notin {"active", "absent"}
        /\ \A v \in Work \ {w} : life'[v] = life[v]
    BY <1>29, <2>1 DEF Abandon, Typed, TypeOK, Life
  <2> QED BY <1>29, <2>1, <2>2, Over DEF Abandon
<1>30. ASSUME NEW v \in Work, NEW m \in queued[v], DeadLetter(v, m) PROVE Chain'
  <2>1. /\ UNCHANGED <<pc, my, phase>> /\ life'[v] # "active"
        /\ life'[v] = "absent" <=> life[v] = "absent"
        /\ \A w \in Work \ {v} : life'[w] = life[w] /\ queued'[w] = queued[w]
    BY <1>30 DEF DeadLetter, Typed, TypeOK, Life
  <2>2. \A j \in Worker : Numbered(j)'
    BY <2>1 DEF Chain, Numbered, Typed, TypeOK
  <2>3. ASSUME NEW w \in Work PROVE Pending(w)' /\ Unbegun(w)'
    BY <2>1 DEF Chain, Pending, Unbegun, Leads, Carries
  <2> QED BY <2>2, <2>3 DEF Chain
<1>31. ASSUME NEW i \in Worker, LoseLease(i) \/ LeaseExpires(i) PROVE Chain'
  BY <1>31, <1>same DEF LoseLease, LeaseExpires
<1>32. CASE UNCHANGED vars
  BY <1>32, <1>same DEF vars
<1> QED
  BY <1>1, <1>2, <1>3, <1>4, <1>5, <1>6, <1>7, <1>8, <1>9, <1>10, <1>11, <1>12,
     <1>13, <1>14, <1>15, <1>16, <1>17, <1>18, <1>19, <1>20, <1>21, <1>22, <1>23,
     <1>24, <1>25, <1>26, <1>27, <1>28, <1>29, <1>30, <1>31, <1>32
     DEF Next, Step, Fault, Stage, Write, Checkpoint, Leaving

\* A Work that is active has a message in the Queue or in a Worker's hands.
THEOREM NoWorkStranded == Spec => []NothingIsStranded
<1>1. Typed /\ Chain => NothingIsStranded
  BY DEF Chain, Pending, Carries, NothingIsStranded
<1> QED
  BY <1>1, TypedInit, TypedStep, ChainInit, ChainStep, PTL DEF Spec

=============================================================================
