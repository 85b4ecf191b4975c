----------------------------- MODULE MirrorOutbox -----------------------------
(***************************************************************************)
(* The mirror of sync runs and system alerts from D1 to Lark.              *)
(*                                                                         *)
(* A save writes the D1 row, then upserts the entry's outbox row with what *)
(* Lark shall show, then sends a wake-up to the Queue.  A wake-up, or the  *)
(* one every cron sends, drains a bounded number of pending outbox rows,   *)
(* the longest waiting first: each is written to Lark and marked           *)
(* delivered, if its revision is still the one that was read.  A failed    *)
(* row goes to the end of the line and its failure ends the drain.         *)
(*                                                                         *)
(* A save is named by its number: what is in it does not matter, only      *)
(* which save Lark shows, and for an alert whether it is resolved.         *)
(***************************************************************************)
EXTENDS Naturals, FiniteSets

CONSTANTS
    Run, Alert,     \* the entries: sync runs and system alerts
    Writer,         \* invocations that save at the same time
    Deliverer,      \* invocations that drain at the same time
    Rejected,       \* entries Lark refuses whatever is tried
    Limit,          \* MKT_RELIABILITY_MIRROR_BATCH_SIZE
    None,
    MaxVersion,     \* bound: changes of one D1 row
    MaxFaults       \* bound: failed calls, evictions, missing config

Entry == Run \cup Alert

ASSUME EntryAssumption == IsFiniteSet(Entry) /\ None \notin Entry
ASSUME RejectedAssumption == Rejected \subseteq Entry
ASSUME LimitAssumption == Limit \in Nat \ {0}
ASSUME BoundAssumption == MaxVersion \in Nat /\ MaxFaults \in Nat

VARIABLES
    primary,    \* rows of sync_runs and system_alerts
    box,        \* rows of reliability_mirror_outbox
    rank,       \* their order by updated_at
    lark,       \* rows of MKT_Sync_Log and MKT_System_Alerts
    woken,      \* a wake-up waits in the Queue
    wpc,        \* where each Writer stands
    saving,     \* the entry it saves
    payload,    \* what its outbox row will hold
    dpc,        \* where each Deliverer stands
    batch,      \* the rows it has read and not dealt with
    todo,       \* what it planned for the first of them
    written,    \* revisions of each entry that Lark took (history)
    faults

writerVars == <<wpc, saving, payload>>
delivererVars == <<dpc, batch, todo>>
vars == <<primary, box, rank, lark, woken, wpc, saving, payload, dpc, batch,
          todo, written, faults>>

Value == [version: Nat, resolved: BOOLEAN]
NoValue == [version |-> 0, resolved |-> FALSE]
BoxRow == [status: {"none", "pending", "delivered"}, revision: Nat, payload: Value]
LarkRow == [rows: Nat, value: Value]
Item == [entry: Entry, revision: Nat, payload: Value, rank: Nat]
WriterPc == {"idle", "save", "read", "schedule", "signal"}
DelivererPc == {"idle", "plan", "write", "mark", "fail"}
Todo == {"create", "update", "skip"}

\* A rank of its own for each entry.
Ranking(r) ==
    /\ r \in [Entry -> 1..Cardinality(Entry)]
    /\ \A e, f \in Entry : r[e] = r[f] => e = f

Init ==
    /\ primary = [e \in Entry |-> NoValue]
    /\ box = [e \in Entry |-> [status |-> "none", revision |-> 0, payload |-> NoValue]]
    /\ rank \in {r \in [Entry -> 1..Cardinality(Entry)] : Ranking(r)}
    /\ lark = [e \in Entry |-> [rows |-> 0, value |-> NoValue]]
    /\ woken = FALSE
    /\ wpc = [w \in Writer |-> "idle"]
    /\ saving = [w \in Writer |-> None]
    /\ payload = [w \in Writer |-> NoValue]
    /\ dpc = [d \in Deliverer |-> "idle"]
    /\ batch = [d \in Deliverer |-> {}]
    /\ todo = [d \in Deliverer |-> "skip"]
    /\ written = [e \in Entry |-> {}]
    /\ faults = 0

Fault == faults < MaxFaults /\ faults' = faults + 1

(***************************************************************************)
(* Saving a sync run or an alert.                                          *)
(***************************************************************************)
Write(w, p) == wpc' = [wpc EXCEPT ![w] = p]
Finish(w) ==
    /\ Write(w, "idle")
    /\ saving' = [saving EXCEPT ![w] = None]
    /\ payload' = [payload EXCEPT ![w] = NoValue]

Start(w, e) ==
    /\ wpc[w] = "idle"
    /\ primary[e].version < MaxVersion
    /\ saving' = [saving EXCEPT ![w] = e]
    /\ Write(w, "save")
    /\ UNCHANGED <<primary, box, rank, lark, woken, payload, delivererVars,
                   written, faults>>

\* Mutant: an alert saved again is open again.
MutSaved(e) == [version |-> primary[e].version + 1, resolved |-> FALSE]
\* The upsert, and the trigger that keeps a resolved alert resolved.
Saved(e) == [primary[e] EXCEPT !.version = @ + 1]

SavePrimary(w) ==
    /\ wpc[w] = "save"
    /\ primary' = [primary EXCEPT ![saving[w]] = Saved(saving[w])]
    /\ payload' = [payload EXCEPT ![w] =
                     [version |-> primary[saving[w]].version + 1, resolved |-> FALSE]]
    /\ Write(w, IF saving[w] \in Alert THEN "read" ELSE "schedule")
    /\ UNCHANGED <<box, rank, lark, woken, saving, delivererVars, written, faults>>

\* readSystemAlertForMirror: an alert is mirrored as D1 has it.
Persisted(w) == primary[saving[w]]

ReadAlert(w) ==
    /\ wpc[w] = "read"
    /\ payload' = [payload EXCEPT ![w] = Persisted(w)]
    /\ Write(w, "schedule")
    /\ UNCHANGED <<primary, box, rank, lark, woken, saving, delivererVars,
                   written, faults>>

\* Mutant: the row goes to the end without leaving its place.
MutToTheEnd(e) == [rank EXCEPT ![e] = Cardinality(Entry)]
\* updated_at = now: the row goes to the end of the line.
ToTheEnd(e) ==
    [f \in Entry |-> IF f = e THEN Cardinality(Entry)
                     ELSE IF rank[f] > rank[e] THEN rank[f] - 1 ELSE rank[f]]

\* Mutant: a delivered row is not opened again.
MutScheduled(w) ==
    [status |-> IF box[saving[w]].status = "delivered" THEN "delivered" ELSE "pending",
     revision |-> box[saving[w]].revision + 1, payload |-> payload[w]]
Scheduled(w) ==
    [status |-> "pending", revision |-> box[saving[w]].revision + 1,
     payload |-> payload[w]]

Schedule(w) ==
    /\ wpc[w] = "schedule"
    /\ box' = [box EXCEPT ![saving[w]] = Scheduled(w)]
    /\ rank' = ToTheEnd(saving[w])
    /\ Write(w, "signal")
    /\ UNCHANGED <<primary, lark, woken, saving, payload, delivererVars,
                   written, faults>>

\* A wake-up that cannot be sent is only logged.
Signal(w) ==
    /\ wpc[w] = "signal"
    /\ woken' \in {TRUE, woken}
    /\ Finish(w)
    /\ UNCHANGED <<primary, box, rank, lark, delivererVars, written, faults>>

\* A D1 call fails, with or without its effect, or the Worker is evicted.
SaveFails(w) ==
    /\ wpc[w] # "idle"
    /\ Fault
    /\ \/ UNCHANGED <<primary, box, rank>>
       \/ /\ wpc[w] = "save"
          /\ primary' = [primary EXCEPT ![saving[w]] = Saved(saving[w])]
          /\ UNCHANGED <<box, rank>>
       \/ /\ wpc[w] = "schedule"
          /\ box' = [box EXCEPT ![saving[w]] = Scheduled(w)]
          /\ rank' = ToTheEnd(saving[w])
          /\ UNCHANGED primary
    /\ Finish(w)
    /\ UNCHANGED <<lark, woken, delivererVars, written>>

\* The recovery of a dead letter closes its alert in D1 alone.
Resolve(e) ==
    /\ e \in Alert
    /\ primary[e].version \in 1..(MaxVersion - 1)
    /\ ~primary[e].resolved
    /\ primary' = [primary EXCEPT ![e] = [version |-> @.version + 1, resolved |-> TRUE]]
    /\ UNCHANGED <<box, rank, lark, woken, writerVars, delivererVars, written,
                   faults>>

(***************************************************************************)
(* The drain.                                                              *)
(***************************************************************************)
Go(d, p) == dpc' = [dpc EXCEPT ![d] = p]
Stop(d) ==
    /\ Go(d, "idle")
    /\ batch' = [batch EXCEPT ![d] = {}]
    /\ todo' = [todo EXCEPT ![d] = "skip"]

Pending == {e \in Entry : box[e].status = "pending"}
\* The rows listPending returns: the longest waiting.
Listed == {e \in Pending : Cardinality({f \in Pending : rank[f] < rank[e]}) < Limit}
ItemOf(e) == [entry |-> e, revision |-> box[e].revision, payload |-> box[e].payload,
              rank |-> rank[e]]

\* The wake-up is consumed, or delivered again later.
Drain(d) ==
    /\ dpc[d] = "idle"
    /\ woken
    /\ woken' \in BOOLEAN
    /\ IF Pending = {}
         THEN UNCHANGED delivererVars
         ELSE /\ batch' = [batch EXCEPT ![d] = {ItemOf(e) : e \in Listed}]
              /\ Go(d, "plan")
              /\ UNCHANGED todo
    /\ UNCHANGED <<primary, box, rank, lark, writerVars, written, faults>>

\* Lark or its configuration is not there: the rows stay pending.
Defer(d) ==
    /\ dpc[d] = "idle"
    /\ woken
    /\ Pending # {}
    /\ Fault
    /\ woken' \in BOOLEAN
    /\ UNCHANGED <<primary, box, rank, lark, writerVars, delivererVars, written>>

IsFirst(d, item) ==
    item \in batch[d] /\ \A other \in batch[d] : item.rank <= other.rank

\* planByKey: a key that is there twice, or a value Lark does not take,
\* stops the plan.
Plan(d) ==
    /\ dpc[d] = "plan"
    /\ \E item \in batch[d] :
         /\ IsFirst(d, item)
         /\ LET row == lark[item.entry] IN
              IF row.rows > 1 \/ item.entry \in Rejected
                THEN Go(d, "fail") /\ UNCHANGED todo
                ELSE /\ Go(d, "write")
                     /\ todo' = [todo EXCEPT ![d] =
                                   CASE row.rows = 0 -> "create"
                                     [] row.rows = 1 /\ row.value = item.payload -> "skip"
                                     [] OTHER -> "update"]
    /\ UNCHANGED <<primary, box, rank, lark, woken, writerVars, batch, written,
                   faults>>

\* executePlan.
Executed(d, item) ==
    CASE todo[d] = "create" ->
           [rows |-> lark[item.entry].rows + 1, value |-> item.payload]
      [] todo[d] = "update" -> [lark[item.entry] EXCEPT !.value = item.payload]
      [] todo[d] = "skip" -> lark[item.entry]

Execute(d) ==
    /\ dpc[d] = "write"
    /\ \E item \in batch[d] :
         /\ IsFirst(d, item)
         /\ lark' = [lark EXCEPT ![item.entry] = Executed(d, item)]
         /\ written' = [written EXCEPT ![item.entry] = @ \cup {item.revision}]
    /\ Go(d, "mark")
    /\ UNCHANGED <<primary, box, rank, woken, writerVars, batch, todo, faults>>

\* Lark fails, with or without its effect.
ExecuteFails(d) ==
    /\ dpc[d] \in {"plan", "write"}
    /\ Fault
    /\ \/ UNCHANGED lark
       \/ /\ dpc[d] = "write"
          /\ \E item \in batch[d] :
               IsFirst(d, item) /\ lark' = [lark EXCEPT ![item.entry] = Executed(d, item)]
    /\ Go(d, "fail")
    /\ UNCHANGED <<primary, box, rank, woken, writerVars, batch, todo, written>>

\* The first item is dealt with: on to the next, or message.ack().
NextItem(d, item) ==
    IF batch[d] = {item}
      THEN Stop(d)
      ELSE /\ batch' = [batch EXCEPT ![d] = @ \ {item}]
           /\ Go(d, "plan")
           /\ UNCHANGED todo

\* Mutant: whatever revision is pending counts as delivered.
MutIsCurrent(item) == box[item.entry].status = "pending"
\* WHERE of the marks: a row that was scheduled again is left alone.
IsCurrent(item) ==
    /\ box[item.entry].status = "pending"
    /\ box[item.entry].revision = item.revision

MarkedDelivered(item) ==
    /\ box' = [box EXCEPT ![item.entry].status = "delivered"]
    /\ rank' = ToTheEnd(item.entry)

MarkDelivered(d) ==
    /\ dpc[d] = "mark"
    /\ \E item \in batch[d] :
         /\ IsFirst(d, item)
         /\ IF IsCurrent(item) THEN MarkedDelivered(item) ELSE UNCHANGED <<box, rank>>
         /\ NextItem(d, item)
    /\ UNCHANGED <<primary, lark, woken, writerVars, written, faults>>

\* markDelivered fails, with or without its effect: handled like a failure
\* of Lark.
MarkFails(d) ==
    /\ dpc[d] = "mark"
    /\ Fault
    /\ \/ UNCHANGED <<box, rank>>
       \/ \E item \in batch[d] :
            IsFirst(d, item) /\ IsCurrent(item) /\ MarkedDelivered(item)
    /\ Go(d, "fail")
    /\ UNCHANGED <<primary, lark, woken, writerVars, batch, todo, written>>

\* The message goes back to the Queue, or its retries are exhausted.
Throw(d) == woken' \in {TRUE, woken} /\ Stop(d)

\* Mutant: a failed row keeps its place.
MutFailedRank(item) == rank
FailedRank(item) == ToTheEnd(item.entry)

\* markDeliveryFailed: the row stays pending and the drain ends, unless the
\* row was scheduled again or delivered.
MarkDeliveryFailed(d) ==
    /\ dpc[d] = "fail"
    /\ \E item \in batch[d] :
         /\ IsFirst(d, item)
         /\ IF IsCurrent(item)
              THEN rank' = FailedRank(item) /\ Throw(d)
              ELSE NextItem(d, item) /\ UNCHANGED <<rank, woken>>
    /\ UNCHANGED <<primary, box, lark, writerVars, written, faults>>

\* The drain is evicted, or a D1 call outside the catch fails.
DrainFails(d) ==
    /\ dpc[d] # "idle"
    /\ Fault
    /\ Throw(d)
    /\ UNCHANGED <<primary, box, rank, lark, writerVars, written>>

\* Every primary cron sends a wake-up of its own.
Cron ==
    /\ woken' = TRUE
    /\ UNCHANGED <<primary, box, rank, lark, writerVars, delivererVars, written,
                   faults>>

Save(w) ==
    \/ SavePrimary(w) \/ ReadAlert(w) \/ Schedule(w) \/ Signal(w)
Deliver(d) ==
    \/ Drain(d) \/ Plan(d) \/ Execute(d) \/ MarkDelivered(d) \/ MarkDeliveryFailed(d)

Next ==
    \/ \E w \in Writer : (\E e \in Entry : Start(w, e)) \/ Save(w) \/ SaveFails(w)
    \/ \E e \in Entry : Resolve(e)
    \/ \E d \in Deliverer :
         Deliver(d) \/ Defer(d) \/ ExecuteFails(d) \/ MarkFails(d) \/ DrainFails(d)
    \/ Cron

Spec == Init /\ [][Next]_vars

\* A Writer that is not evicted goes on, the cron goes off, the Queue
\* delivers its wake-up and an awaited call answers.
FairSpec ==
    /\ Spec
    /\ \A w \in Writer : WF_vars(Save(w))
    /\ \A d \in Deliverer : WF_vars(Deliver(d))
    /\ WF_vars(Cron)

(***************************************************************************)
(* Properties.                                                             *)
(***************************************************************************)
\* Every variable has its type.
TypeOK ==
    /\ primary \in [Entry -> Value]
    /\ box \in [Entry -> BoxRow]
    /\ Ranking(rank)
    /\ lark \in [Entry -> LarkRow]
    /\ woken \in BOOLEAN
    /\ wpc \in [Writer -> WriterPc]
    /\ saving \in [Writer -> Entry \cup {None}]
    /\ payload \in [Writer -> Value]
    /\ dpc \in [Deliverer -> DelivererPc]
    /\ batch \in [Deliverer -> SUBSET Item]
    /\ todo \in [Deliverer -> Todo]
    /\ written \in [Entry -> SUBSET Nat]
    /\ faults \in Nat

\* A save scheduled while its older revision was on the way is not lost:
\* what the outbox calls delivered is a revision that Lark took, however
\* many drains run at once.
DeliveredWasWritten ==
    \A e \in Entry : box[e].status = "delivered" => box[e].revision \in written[e]

\* With one drain at a time, what the outbox calls delivered is what Lark
\* shows, in one row.
DeliveredIsShown ==
    \A e \in Entry : box[e].status = "delivered" =>
        lark[e] = [rows |-> 1, value |-> box[e].payload]

\* With one Writer at a time an alert that was mirrored as resolved is not
\* mirrored as open again, although it is saved open again.
ResolvedStaysResolved ==
    [][\A e \in Entry : box[e].payload.resolved => box'[e].payload.resolved]_box

\* A scheduled row that Lark takes is delivered, though an entry that Lark
\* refuses waits in the same line, and though every wake-up of a save is lost.
PendingIsDelivered ==
    \A e \in Entry \ Rejected :
        box[e].status = "pending" ~> box[e].status = "delivered"
=============================================================================
