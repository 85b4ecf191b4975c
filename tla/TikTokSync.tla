------------------------------- MODULE TikTokSync -------------------------------
(***************************************************************************)
(* The staged TikTok sync with its incremental checkpoint.                 *)
(*                                                                         *)
(* A Work stages the pages of the source, makes one plan from what it      *)
(* staged and from the fingerprints of the last checkpoint, writes the     *)
(* selected records to Lark unit by unit, and then records their           *)
(* fingerprints in batches, the cursor last.  A record whose fingerprint   *)
(* has not changed is skipped: that it is shown in Lark already is what a  *)
(* recorded fingerprint must mean.  Each invocation does one piece and     *)
(* leaves the next to a numbered continuation.  The source changes at any  *)
(* time; a newer Work may take over; invocations fail, die, or lose their  *)
(* lease while a call is under way.                                        *)
(*                                                                         *)
(* beginWork is one step here: ResumableWork has its interleavings.  A     *)
(* page, a unit and a checkpoint batch hold one record.  A fingerprint     *)
(* stands for the content it was made of.                                  *)
(***************************************************************************)
EXTENDS Naturals

CONSTANTS
    Worker,      \* invocations that run at the same time
    Work,        \* the requested syncs of one account
    Generation,  \* requested_at of each Work
    None,        \* no Worker, no Work
    NoPlan,      \* no plan is stored
    Records,     \* records of the source, and pages of it
    MaxContent,  \* bound: contents a record may take, in the order of editing
    Initial,     \* the sources there may be at first
    MaxEdits,    \* bound: changes of the source
    MaxFaults    \* bound: failures, copies of messages and lost leases

ASSUME NoneAssumption == None \notin Worker \cup Work
ASSUME GenerationAssumption == Generation \in [Work -> Nat]
ASSUME RecordsAssumption == Records \in Nat /\ MaxContent \in Nat \ {0}
ASSUME InitialAssumption == Initial \subseteq [1..Records -> 0..MaxContent]
ASSUME BoundAssumption == MaxEdits \in Nat /\ MaxFaults \in Nat

VARIABLES
    source,    \* the RAW record in Lark, 0 while there is none
    reverted,  \* the records whose source went back, or away
    lark,      \* the content the destination row was last written with
    lease,     \* the Worker whose lease has not run out
    fence,     \* sync_generation_fences.work_key
    life,      \* sync_work_runs.lifecycle_status
    phase,     \* sync_work_phases and sync_work_units of each Work
    recorded,  \* source_record_states: source_hash, last_seen_sync_run_id
    cursor,    \* sync_cursors: generation_work_key, last_sync_run_id
    runs,      \* sync runs that have come to a checkpoint
    late,      \* the records that a Worker wrote which was no longer current
    torn,      \* the Works whose phases were written by such a Worker
    queued,    \* the messages of each Work that wait in the Queue
    pc,        \* where each Worker stands
    my,        \* its message and what it has read
    edits,     \* changes of the source so far
    faults     \* disturbances so far

sourceVars == <<source, reverted, edits>>
checkpointVars == <<recorded, cursor>>
ghostVars == <<late, torn>>
vars == <<source, reverted, lark, lease, fence, life, phase, recorded, cursor,
          runs, late, torn, queued, pc, my, edits, faults>>

Record == 1..Records
Content == 0..MaxContent
Nothing == [r \in Record |-> 0]
\* content: the fingerprints the Work selects, to be recorded after its writes.
Plan == [full: BOOLEAN, content: [Record -> Content]]
Selected(plan) == {r \in Record : plan.content[r] # 0}
\* The state of the write phase: the plan it is of, the next unit, the
\* selected records written, the run that tried the checkpoint last.
Row == [of: Plan \cup {NoPlan}, next: 0..Records, rows: SUBSET Record,
        complete: BOOLEAN, attempt: Nat, saved: BOOLEAN]
EmptyRow == [of |-> NoPlan, next |-> 0, rows |-> {}, complete |-> FALSE,
             attempt |-> 0, saved |-> FALSE]
Phases == [pages: 0..Records, staged: [Record -> Content],
           plan: Plan \cup {NoPlan}, preflight: Plan \cup {NoPlan},
           write: Row, result: BOOLEAN, sequence: Nat]
EmptyPhases == [pages |-> 0, staged |-> Nothing, plan |-> NoPlan,
                preflight |-> NoPlan, write |-> EmptyRow, result |-> FALSE,
                sequence |-> 0]
My == [work: Work \cup {None}, message: Nat, next: Nat, page: 0..Records,
       held: Content, differs: BOOLEAN, plan: Plan \cup {NoPlan}, row: Row, record: 0..Records]
Fresh == [work |-> None, message |-> 0, next |-> 0, page |-> 0, held |-> 0,
          differs |-> FALSE,
          plan |-> NoPlan, row |-> EmptyRow, record |-> 0]
Life == {"absent", "active", "completed", "terminal", "superseded"}
NoState == [content |-> 0, run |-> 0]

\* context.assertCurrent() before an effect, and the effect it lets through.
Behind(p) == CASE p = "checkPlan" -> "savePlan"
               [] p = "checkPreflight" -> "savePreflight"
               [] p = "checkUnit" -> "write"
               [] p = "checkProgress" -> "saveProgress"
               [] p = "checkFinal" -> "saveFinal"
               [] p = "checkAttempt" -> "saveAttempt"
               [] p = "checkCheckpoint" -> "assert"
               [] p = "checkSaved" -> "saveSaved"
               [] p = "checkResult" -> "saveResult"
               [] p = "checkComplete" -> "complete"
               [] p = "checkContinue" -> "saveContinue"
CheckPc == {"checkPlan", "checkPreflight", "checkUnit", "checkProgress",
            "checkFinal", "checkAttempt", "checkCheckpoint", "checkSaved",
            "checkResult", "checkComplete", "checkContinue"}
Pc == {"idle", "acquire", "begin", "admit", "readPage", "savePage", "load", "batch",
       "final", "confirm", "release", "send", "abandon"}
        \cup CheckPc \cup {Behind(p) : p \in CheckPc}

Init ==
    /\ source \in Initial
    /\ reverted = {}
    /\ lark = Nothing
    /\ lease = None
    /\ fence = None
    /\ life = [w \in Work |-> "absent"]
    /\ phase = [w \in Work |-> EmptyPhases]
    /\ recorded = [r \in Record |-> NoState]
    /\ cursor = [work |-> None, run |-> 0]
    /\ runs = 0
    /\ late = {}
    /\ torn = {}
    /\ queued = [w \in Work |-> {0}]
    /\ pc = [i \in Worker |-> "idle"]
    /\ my = [i \in Worker |-> Fresh]
    /\ edits = 0
    /\ faults = 0

At(i, p) == pc[i] = p
Goto(i, p) == pc' = [pc EXCEPT ![i] = p]
\* Mutant: what the last invocation read is kept for the next.
MutLeave(i) == Goto(i, "idle") /\ UNCHANGED my
Leave(i) == Goto(i, "idle") /\ my' = [my EXCEPT ![i] = Fresh]
\* The delivery is not acknowledged: the Queue delivers its message again.
Retry(i) ==
    /\ Leave(i)
    /\ queued' = [w \in Work |-> IF w = my[i].work
                                   THEN queued[w] \cup {my[i].message}
                                   ELSE queued[w]]
LetGo(i) == lease' = IF lease = i THEN None ELSE lease
Fatal(i) == LetGo(i) /\ Goto(i, "abandon")
Disturb == faults < MaxFaults /\ faults' = faults + 1

\* context.assertCurrent: the lease is held and the fence is this Work's.
Current(i) == lease = i /\ fence = my[i].work
\* What a Worker that is no longer current writes is remembered.
Touch(i, r) == late' = IF Current(i) THEN late ELSE late \cup r
Tear(i) == torn' = IF Current(i) THEN torn ELSE torn \cup {my[i].work}

\* The RAW table is edited: a record is created, changed, removed or restored.
Edit(r, c) ==
    /\ c # source[r]
    /\ edits < MaxEdits /\ edits' = edits + 1
    /\ source' = [source EXCEPT ![r] = c]
    /\ reverted' = IF c < source[r] THEN reverted \cup {r} ELSE reverted
    /\ UNCHANGED <<lark, lease, fence, life, phase, checkpointVars, runs,
                   ghostVars, queued, pc, my, faults>>

(***************************************************************************)
(* Delivery, beginWork and the admission of the invocation.                *)
(***************************************************************************)
Receive(i, w, m) ==
    /\ At(i, "idle") /\ lease # i
    /\ m \in queued[w]
    /\ my' = [my EXCEPT ![i] = [Fresh EXCEPT !.work = w, !.message = m]]
    /\ Goto(i, "acquire")

Deliver(i, w, m) ==
    /\ Receive(i, w, m)
    /\ queued' = [queued EXCEPT ![w] = @ \ {m}]
    /\ UNCHANGED <<sourceVars, lark, lease, fence, life, phase,
                   checkpointVars, runs, ghostVars, faults>>

\* At-least-once: a copy of the delivered message is still to come.
DeliverTwice(i, w, m) ==
    /\ Receive(i, w, m)
    /\ Disturb
    /\ UNCHANGED <<sourceVars, lark, lease, fence, life, phase,
                   checkpointVars, runs, ghostVars, queued>>

Acquire(i) ==
    /\ At(i, "acquire") /\ lease = None
    /\ lease' = i
    /\ Goto(i, "begin")
    /\ UNCHANGED <<sourceVars, lark, fence, life, phase, checkpointVars, runs,
                   ghostVars, queued, my, faults>>

Busy(i) ==
    /\ At(i, "acquire") /\ lease # None
    /\ Retry(i)
    /\ UNCHANGED <<sourceVars, lark, lease, fence, life, phase,
                   checkpointVars, runs, ghostVars, faults>>

\* Mutant: any request may claim the fence.
MutClaimable(w) == w \in Work
Claimable(w) ==
    fence \notin {None, w} => Generation[w] > Generation[fence]

\* beginWork does not ask whether the lease is still held.  A Work that is
\* over, or comes after a newer one, is answered and acknowledged.
Begin(i) ==
    LET w == my[i].work IN
    /\ At(i, "begin")
    /\ \/ /\ life[w] \in {"completed", "terminal", "superseded"}
          /\ LetGo(i) /\ Leave(i)
          /\ UNCHANGED <<fence, life>>
       \/ /\ life[w] \in {"absent", "active"} /\ ~Claimable(w)
          /\ life' = [life EXCEPT ![w] = "superseded"]
          /\ LetGo(i) /\ Leave(i)
          /\ UNCHANGED fence
       \/ /\ life[w] \in {"absent", "active"} /\ Claimable(w)
          /\ fence' = w
          /\ life' = [life EXCEPT ![w] = "active"]
          /\ Goto(i, "admit")
          /\ UNCHANGED <<lease, my>>
    /\ UNCHANGED <<sourceVars, lark, phase, checkpointVars, runs, ghostVars,
                   queued, faults>>

\* Mutant: a message that comes again sends nothing.
MutReplay(m, sequence) == IF m > sequence THEN m ELSE 0
\* The continuation that a message whose piece is done already sends again.
Replay(m, sequence) == IF m + 1 = sequence THEN sequence ELSE 0

\* admitInvocation, and how much of the source is staged.
Admit(i) ==
    LET w == my[i].work
        m == my[i].message
        sequence == phase[w].sequence
    IN
    /\ At(i, "admit")
    /\ Current(i)
    /\ \/ /\ m = sequence
          /\ my' = [my EXCEPT ![i].page = phase[w].pages]
          /\ Goto(i, IF phase[w].pages < Records THEN "readPage" ELSE "load")
          /\ UNCHANGED lease
       \/ /\ m < sequence
          /\ my' = [my EXCEPT ![i].next = Replay(m, sequence)]
          /\ Goto(i, "release")
          /\ UNCHANGED lease
       \/ /\ m > sequence
          /\ Fatal(i)
          /\ UNCHANGED my
    /\ UNCHANGED <<sourceVars, lark, fence, life, phase, checkpointVars, runs,
                   ghostVars, queued, faults>>

Check(i) ==
    /\ pc[i] \in CheckPc
    /\ Current(i)
    /\ Goto(i, Behind(pc[i]))
    /\ UNCHANGED <<sourceVars, lark, lease, fence, life, phase,
                   checkpointVars, runs, ghostVars, queued, my, faults>>

\* A lost lease is retryable, a superseded generation is not.
CheckFails(i) ==
    /\ pc[i] \in CheckPc \cup {"admit", "readPage", "load"}
    /\ ~Current(i)
    /\ \/ lease = i /\ Fatal(i) /\ UNCHANGED <<my, queued>>
       \/ lease # i /\ Retry(i) /\ UNCHANGED lease
    /\ UNCHANGED <<sourceVars, lark, fence, life, phase, checkpointVars, runs,
                   ghostVars, faults>>

(***************************************************************************)
(* The source phase.                                                       *)
(***************************************************************************)
ReadPage(i) ==
    /\ At(i, "readPage")
    /\ Current(i)
    /\ my' = [my EXCEPT ![i].held = source[my[i].page + 1]]
    /\ Goto(i, "savePage")
    /\ UNCHANGED <<sourceVars, lark, lease, fence, life, phase,
                   checkpointVars, runs, ghostVars, queued, faults>>

\* savePhase asks for neither the lease nor the fence.
SavePage(i) ==
    LET w == my[i].work
        r == my[i].page + 1
    IN
    /\ At(i, "savePage")
    /\ phase' = [phase EXCEPT ![w].pages = r, ![w].staged[r] = my[i].held]
    /\ Touch(i, {r}) /\ Tear(i)
    /\ Goto(i, "checkContinue")
    /\ UNCHANGED <<sourceVars, lark, lease, fence, life, checkpointVars, runs,
                   queued, my, faults>>

(***************************************************************************)
(* What to do next, from the phases and the checkpoint as they are loaded. *)
(***************************************************************************)
Changed(w, r) ==
    phase[w].staged[r] # 0 /\ recorded[r].content # phase[w].staged[r]
RecordGone(w) ==
    \E r \in Record : recorded[r].content # 0 /\ phase[w].staged[r] = 0
\* decideMode: a new day or dictionary, the interval or the request may ask
\* for a full run; no checkpoint, and a record that is gone, always do.
PlanOf(w, full) ==
    [full |-> full,
     content |-> [r \in Record |-> IF full \/ Changed(w, r)
                                     THEN phase[w].staged[r] ELSE 0]]
\* Mutant: the attempt need not be that of the stored cursor.
MutAlreadySaved(row) == row.saved \/ row.attempt # 0
AlreadySaved(row) ==
    row.saved \/ (row.attempt # 0 /\ row.attempt = cursor.run)
\* Mutant: a row that exists already is not updated.
MutDiffers(r, content) == lark[r] = 0
\* planByKey: the row is to be created or updated, not skipped.
Differs(r, content) == lark[r] # content
\* assertPhasePlanCompatible
Compatible(stored, plan) == stored \in {NoPlan, plan}

Load(i) ==
    LET w == my[i].work
        p == phase[w]
        Take(plan, row) == my' = [my EXCEPT ![i].plan = plan, ![i].row = row]
        Ready == /\ ~p.result
                 /\ ~(p.write.complete /\ AlreadySaved(p.write))
        Planned == Ready /\ p.plan # NoPlan
        Fits == /\ Compatible(p.write.of, p.plan)
                /\ Compatible(p.preflight, p.plan)
                /\ p.preflight = NoPlan =>
                     \A r \in Selected(p.plan) : p.staged[r] # 0
    IN
    /\ At(i, "load")
    /\ Current(i)
    /\ \/ p.result /\ Goto(i, "checkComplete") /\ UNCHANGED <<my, lease>>
       \/ /\ ~p.result /\ ~Ready
          /\ Take(p.plan, p.write) /\ Goto(i, "checkResult")
          /\ UNCHANGED lease
       \/ /\ Ready /\ p.plan = NoPlan
          /\ \E full \in BOOLEAN :
                /\ cursor.work = None \/ RecordGone(w) => full
                /\ Take(PlanOf(w, full), EmptyRow)
          /\ Goto(i, "checkPlan")
          /\ UNCHANGED lease
       \/ Planned /\ ~Fits /\ Fatal(i) /\ UNCHANGED my
       \/ /\ Planned /\ Fits /\ p.preflight = NoPlan
          /\ Take(p.plan, EmptyRow) /\ Goto(i, "checkPreflight")
          /\ UNCHANGED lease
       \/ /\ Planned /\ Fits /\ p.preflight # NoPlan
          /\ p.write.complete \/ p.write.next = Records
          /\ Take(p.plan, [p.write EXCEPT !.of = p.plan])
          /\ Goto(i, IF p.write.complete THEN "checkAttempt" ELSE "checkFinal")
          /\ UNCHANGED lease
       \/ /\ Planned /\ Fits /\ p.preflight # NoPlan
          /\ ~p.write.complete /\ p.write.next < Records
          /\ LET r == p.write.next + 1 IN
               my' = [my EXCEPT ![i].plan = p.plan,
                                ![i].row = [p.write EXCEPT !.of = p.plan],
                                ![i].held = p.staged[r],
                                ![i].differs = Differs(r, p.staged[r])]
          /\ Goto(i, "checkUnit")
          /\ UNCHANGED lease
    /\ UNCHANGED <<sourceVars, lark, fence, life, phase, checkpointVars, runs,
                   ghostVars, queued, faults>>

\* A phase is saved from what the invocation has read.
Save(i, phases) ==
    /\ phase' = [phase EXCEPT ![my[i].work] = phases]
    /\ Tear(i)

SavePlan(i) ==
    /\ At(i, "savePlan")
    /\ Save(i, [phase[my[i].work] EXCEPT !.plan = my[i].plan])
    /\ Goto(i, "checkContinue")
    /\ UNCHANGED <<sourceVars, lark, lease, fence, life, checkpointVars, runs,
                   late, queued, my, faults>>

SavePreflight(i) ==
    /\ At(i, "savePreflight")
    /\ Save(i, [phase[my[i].work] EXCEPT !.preflight = my[i].plan])
    /\ Goto(i, "checkContinue")
    /\ UNCHANGED <<sourceVars, lark, lease, fence, life, checkpointVars, runs,
                   late, queued, my, faults>>

(***************************************************************************)
(* The write phase: one unit, the state of the phase, and the end.         *)
(***************************************************************************)
\* A unit holds what was staged, and its plan compares with the row that
\* Lark showed, when the invocation read them.
WriteUnit(i) ==
    LET r == my[i].row.next + 1
        written == r \in Selected(my[i].row.of) /\ my[i].held # 0
    IN
    /\ At(i, "write")
    /\ IF written /\ my[i].differs
         THEN lark' = [lark EXCEPT ![r] = my[i].held] /\ Touch(i, {r})
         ELSE UNCHANGED <<lark, late>>
    /\ my' = [my EXCEPT ![i].row.next = r,
                        ![i].row.rows = IF written THEN @ \cup {r} ELSE @]
    /\ Goto(i, "checkProgress")
    /\ UNCHANGED <<sourceVars, lease, fence, life, phase, checkpointVars, runs,
                   torn, queued, faults>>

\* The invocation yields after its unit, the last one too.
SaveProgress(i) ==
    /\ At(i, "saveProgress")
    /\ Save(i, [phase[my[i].work] EXCEPT !.write = my[i].row])
    /\ Goto(i, "checkContinue")
    /\ UNCHANGED <<sourceVars, lark, lease, fence, life, checkpointVars, runs,
                   late, queued, my, faults>>

\* The completeness check, then the write phase with its result draft.
SaveFinal(i) ==
    /\ At(i, "saveFinal")
    /\ \/ /\ my[i].row.rows = Selected(my[i].plan)
          /\ my' = [my EXCEPT ![i].row.complete = TRUE]
          /\ Save(i, [phase[my[i].work] EXCEPT !.write = my'[i].row])
          /\ Goto(i, "checkAttempt")
          /\ UNCHANGED lease
       \/ /\ my[i].row.rows # Selected(my[i].plan)
          /\ Fatal(i)
          /\ UNCHANGED <<my, phase, torn>>
    /\ UNCHANGED <<sourceVars, lark, fence, life, checkpointVars, late, runs,
                   queued, faults>>

(***************************************************************************)
(* The checkpoint.  saveCheckpoint looks at the fence before every batch,  *)
(* and every statement of a batch looks at it again; none asks for the     *)
(* lease.                                                                  *)
(***************************************************************************)
SaveAttempt(i) ==
    /\ At(i, "saveAttempt")
    /\ runs' = runs + 1
    /\ my' = [my EXCEPT ![i].row.attempt = runs', ![i].record = 0]
    /\ Save(i, [phase[my[i].work] EXCEPT !.write = my'[i].row])
    /\ Goto(i, "checkCheckpoint")
    /\ UNCHANGED <<sourceVars, lark, lease, fence, life, checkpointVars, late,
                   queued, faults>>

Left(i) == {r \in Selected(my[i].plan) : r > my[i].record}
Fenced(i) == fence = my[i].work

AssertGeneration(i) ==
    /\ At(i, "assert")
    /\ \/ /\ Fenced(i)
          /\ Goto(i, IF Left(i) = {} THEN "final" ELSE "batch")
          /\ UNCHANGED lease
       \/ ~Fenced(i) /\ Fatal(i)
    /\ UNCHANGED <<sourceVars, lark, fence, life, phase, checkpointVars, runs,
                   ghostVars, queued, my, faults>>

Batch(i) ==
    /\ At(i, "batch")
    /\ \E r \in Left(i) :
          /\ \A l \in Left(i) : r <= l
          /\ IF Fenced(i)
               THEN /\ recorded' = [recorded EXCEPT
                                      ![r] = [content |-> my[i].plan.content[r],
                                              run |-> my[i].row.attempt]]
                    /\ Touch(i, {r})
               ELSE UNCHANGED <<recorded, late>>
          /\ my' = [my EXCEPT ![i].record = r]
    /\ Goto(i, "assert")
    /\ UNCHANGED <<sourceVars, lark, lease, fence, life, phase, cursor, runs,
                   torn, queued, faults>>

\* A full snapshot deletes the records that its run has not seen.
Swept(i) == IF my[i].plan.full
              THEN {r \in Record : recorded[r].run # my[i].row.attempt}
              ELSE {}

FinalBatch(i) ==
    /\ At(i, "final")
    /\ IF Fenced(i)
         THEN /\ cursor' =
                   IF cursor.work = None
                        \/ Generation[my[i].work] >= Generation[cursor.work]
                     THEN [work |-> my[i].work, run |-> my[i].row.attempt]
                     ELSE cursor
              /\ recorded' = [r \in Record |-> IF r \in Swept(i) THEN NoState
                                                ELSE recorded[r]]
              /\ Touch(i, Swept(i))
         ELSE UNCHANGED <<checkpointVars, late>>
    /\ Goto(i, "confirm")
    /\ UNCHANGED <<sourceVars, lark, lease, fence, life, phase, runs, torn,
                   queued, my, faults>>

Confirm(i) ==
    /\ At(i, "confirm")
    /\ \/ Fenced(i) /\ Goto(i, "checkSaved") /\ UNCHANGED lease
       \/ ~Fenced(i) /\ Fatal(i)
    /\ UNCHANGED <<sourceVars, lark, fence, life, phase, checkpointVars, runs,
                   ghostVars, queued, my, faults>>

SaveSaved(i) ==
    /\ At(i, "saveSaved")
    /\ my' = [my EXCEPT ![i].row.saved = TRUE]
    /\ Save(i, [phase[my[i].work] EXCEPT !.write = my'[i].row])
    /\ Goto(i, "checkResult")
    /\ UNCHANGED <<sourceVars, lark, lease, fence, life, checkpointVars, runs,
                   late, queued, faults>>

SaveResult(i) ==
    /\ At(i, "saveResult")
    /\ Save(i, [phase[my[i].work] EXCEPT !.result = TRUE])
    /\ Goto(i, "checkComplete")
    /\ UNCHANGED <<sourceVars, lark, lease, fence, life, checkpointVars, runs,
                   late, queued, my, faults>>

\* completeWork asks for neither the lease nor the fence.
Complete(i) ==
    LET w == my[i].work IN
    /\ At(i, "complete")
    /\ life' = [life EXCEPT ![w] = IF @ = "active" THEN "completed" ELSE @]
    /\ phase' = [phase EXCEPT ![w] = EmptyPhases]
    /\ Tear(i)
    /\ Goto(i, "release")
    /\ UNCHANGED <<sourceVars, lark, lease, fence, checkpointVars, runs, late,
                   queued, my, faults>>

(***************************************************************************)
(* The continuation is persisted, the lease let go, the message sent.      *)
(***************************************************************************)
Continued(i) == my[i].message + 1

SaveContinue(i) ==
    /\ At(i, "saveContinue")
    /\ Save(i, [phase[my[i].work] EXCEPT !.sequence = Continued(i)])
    /\ my' = [my EXCEPT ![i].next = Continued(i)]
    /\ Goto(i, "release")
    /\ UNCHANGED <<sourceVars, lark, lease, fence, life, checkpointVars, runs,
                   late, queued, faults>>

Release(i) ==
    /\ At(i, "release")
    /\ LetGo(i)
    /\ Goto(i, "send")
    /\ UNCHANGED <<sourceVars, lark, fence, life, phase, checkpointVars, runs,
                   ghostVars, queued, my, faults>>

Send(i) ==
    /\ At(i, "send")
    /\ queued' = [queued EXCEPT ![my[i].work] =
                    IF my[i].next # 0 THEN @ \cup {my[i].next} ELSE @]
    /\ Leave(i)
    /\ UNCHANGED <<sourceVars, lark, lease, fence, life, phase,
                   checkpointVars, runs, ghostVars, faults>>

(***************************************************************************)
(* Failures.                                                               *)
(***************************************************************************)
\* recordPermanentQueueFailure; QueueRecovery has its dead letter.
Abandon(i) ==
    LET w == my[i].work IN
    /\ At(i, "abandon")
    /\ life' = [life EXCEPT ![w] = IF @ \in {"active", "superseded"}
                                     THEN "terminal" ELSE @]
    /\ Leave(i)
    /\ UNCHANGED <<sourceVars, lark, lease, fence, phase, checkpointVars, runs,
                   ghostVars, queued, faults>>

\* A call fails and the lease is let go, or the invocation is killed.
Fails(i) ==
    /\ ~At(i, "idle")
    /\ Disturb
    /\ Retry(i)
    /\ LetGo(i) \/ UNCHANGED lease
    /\ UNCHANGED <<sourceVars, lark, fence, life, phase, checkpointVars, runs,
                   ghostVars>>

\* A source row or the dictionary that cannot be used.
FailsPermanently(i) ==
    /\ pc[i] \in {"readPage", "load", "checkUnit"}
    /\ Disturb
    /\ Fatal(i)
    /\ UNCHANGED <<sourceVars, lark, fence, life, phase, checkpointVars, runs,
                   ghostVars, queued, my>>

\* The retries of a message are used up.
DeadLetter(w, m) ==
    /\ m \in queued[w]
    /\ Disturb
    /\ queued' = [queued EXCEPT ![w] = @ \ {m}]
    /\ life' = [life EXCEPT ![w] = IF @ \in {"active", "superseded"}
                                     THEN "terminal" ELSE @]
    /\ UNCHANGED <<sourceVars, lark, lease, fence, phase, checkpointVars, runs,
                   ghostVars, pc, my>>

\* The lease runs out while its holder waits for a call.
LoseLease(i) ==
    /\ lease = i /\ ~At(i, "idle")
    /\ Disturb
    /\ lease' = None
    /\ UNCHANGED <<sourceVars, lark, fence, life, phase, checkpointVars, runs,
                   ghostVars, queued, pc, my>>

\* The lease of an invocation that was killed runs out.
LeaseExpires(i) ==
    /\ lease = i /\ At(i, "idle")
    /\ lease' = None
    /\ UNCHANGED <<sourceVars, lark, fence, life, phase, checkpointVars, runs,
                   ghostVars, queued, pc, my, faults>>

Stage(i) == Admit(i) \/ ReadPage(i) \/ SavePage(i) \/ Load(i) \/ SavePlan(i)
              \/ SavePreflight(i)
Write(i) == WriteUnit(i) \/ SaveProgress(i) \/ SaveFinal(i) \/ SaveAttempt(i)
Checkpoint(i) == AssertGeneration(i) \/ Batch(i) \/ FinalBatch(i) \/ Confirm(i)
                   \/ SaveSaved(i) \/ SaveResult(i) \/ Complete(i)
Leaving(i) == SaveContinue(i) \/ Release(i) \/ Send(i) \/ Abandon(i)
Step(i) == Acquire(i) \/ Busy(i) \/ Begin(i) \/ Check(i) \/ CheckFails(i)
             \/ Stage(i) \/ Write(i) \/ Checkpoint(i) \/ Leaving(i)
             \/ LeaseExpires(i)
Fault(i) == Fails(i) \/ FailsPermanently(i) \/ LoseLease(i)

Next ==
    \/ \E i \in Worker : Step(i) \/ Fault(i)
    \/ \E i \in Worker, w \in Work : \E m \in queued[w] :
          Deliver(i, w, m) \/ DeliverTwice(i, w, m)
    \/ \E w \in Work : \E m \in queued[w] : DeadLetter(w, m)
    \/ \E r \in Record, c \in Content : Edit(r, c)

Spec == Init /\ [][Next]_vars

\* Type: every variable has its type in every state.
TypeOK ==
    /\ source \in [Record -> Content] /\ reverted \subseteq Record
    /\ lark \in [Record -> Content]
    /\ lease \in Worker \cup {None} /\ fence \in Work \cup {None}
    /\ life \in [Work -> Life]
    /\ phase \in [Work -> Phases]
    /\ recorded \in [Record -> [content: Content, run: Nat]]
    /\ cursor \in [work: Work \cup {None}, run: Nat]
    /\ runs \in Nat
    /\ late \subseteq Record /\ torn \subseteq Work
    /\ queued \in [Work -> SUBSET Nat]
    /\ pc \in [Worker -> Pc]
    /\ my \in [Worker -> My]
    /\ \A i \in Worker : IF pc[i] = "idle" THEN my[i] = Fresh
                                          ELSE my[i].work \in Work
    /\ edits \in Nat /\ faults \in Nat

\* What a recorded fingerprint must mean: a record whose source has the
\* content of the last checkpoint is skipped, so Lark must show it - unless a
\* Worker that was no longer current had its hand in it, or the source went
\* back.
FingerprintIsTrue ==
    \A r \in Record \ (late \cup reverted) :
        recorded[r].content = source[r] /\ source[r] # 0 => lark[r] = source[r]

\* When the result of a Work is kept, and no other Work has taken over, what
\* it staged is what the checkpoint has, and what Lark has unless the source
\* went back: nothing was left out by the plan, by a unit or by a batch.
CheckpointIsComplete ==
    \A w \in Work \ torn : phase[w].result /\ fence = w =>
        \A r \in Record \ late :
            /\ recorded[r].content = phase[w].staged[r]
            /\ phase[w].staged[r] # 0 /\ r \notin reverted =>
                 lark[r] = phase[w].staged[r]

\* Lark never goes back to older content, whichever Works and deliveries
\* write to it, but for a write of a Worker that was no longer current.
LarkMovesForward ==
    [][\A r \in Record \ (late' \cup reverted) : lark'[r] >= lark[r]]_vars

\* A Work that is active has a message in the Queue or in a Worker's hands:
\* an invocation that dies between keeping a continuation and sending it, or
\* one that is delivered twice, strands none.
NothingIsStranded ==
    \A w \in Work : life[w] = "active" =>
        queued[w] # {} \/ \E i \in Worker : my[i].work = w

\* What saveCheckpoint's comment says: a fingerprint is recorded only after
\* the business write of its content.
CommittedAfterWrite ==
    [][\A r \in Record :
          recorded'[r] # recorded[r] /\ recorded'[r].content # 0
            => lark[r] = recorded'[r].content]_vars
================================================================================
