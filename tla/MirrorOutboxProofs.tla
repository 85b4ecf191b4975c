-------------------------- MODULE MirrorOutboxProofs --------------------------
(***************************************************************************)
(* Proofs about MirrorOutbox, for any number of entries, Writers and       *)
(* drains: the types, and that no save is lost behind a delivered row.     *)
(***************************************************************************)
EXTENDS MirrorOutbox, FiniteSetTheorems, TLAPS

\* The number of rows is a number.
LEMMA EntryCount == Cardinality(Entry) \in Nat
BY EntryAssumption, FS_CardinalityType

\* Moving an entry to the end leaves every entry a rank of its own.
LEMMA ToTheEndRanking ==
    ASSUME Ranking(rank), NEW e \in Entry
    PROVE  Ranking(ToTheEnd(e))
<1> DEFINE N == Cardinality(Entry)
<1>1. N \in Nat
  BY EntryCount
<1>2. \A f \in Entry : rank[f] \in 1..N
  BY DEF Ranking
<1>3. \A f \in Entry : ToTheEnd(e)[f] = IF f = e THEN N
                       ELSE IF rank[f] > rank[e] THEN rank[f] - 1 ELSE rank[f]
  BY DEF ToTheEnd
<1> HIDE DEF N
<1>4. \A f \in Entry : ToTheEnd(e)[f] \in 1..N
  BY <1>1, <1>2, <1>3
<1>5. \A f \in Entry : f # e => rank[f] # rank[e]
  BY DEF Ranking
<1>6. \A f \in Entry : f # e => ToTheEnd(e)[f] # N
  BY <1>1, <1>2, <1>3, <1>5
<1>7. \A f, g \in Entry : ToTheEnd(e)[f] = ToTheEnd(e)[g] => f = g
  <2>1. SUFFICES ASSUME NEW f \in Entry, NEW g \in Entry, f # g
                 PROVE  ToTheEnd(e)[f] # ToTheEnd(e)[g]
    OBVIOUS
  <2>2. CASE f = e \/ g = e
    BY <1>3, <1>6, <2>1, <2>2
  <2>3. CASE f # e /\ g # e
    <3>1. rank[f] # rank[g] /\ rank[f] # rank[e] /\ rank[g] # rank[e]
      BY <2>1, <2>3 DEF Ranking
    <3> QED
      BY <1>1, <1>2, <1>3, <2>3, <3>1
  <2> QED
    BY <2>2, <2>3
<1>8. ToTheEnd(e) \in [Entry -> 1..N]
  BY <1>4 DEF ToTheEnd
<1> QED
  BY <1>7, <1>8 DEF Ranking, N

-----------------------------------------------------------------------------
(***************************************************************************)
(* The inductive invariant: the types, a rank of its own for every row in  *)
(* a batch, so that the first one is determined, and the row a drain is    *)
(* about to mark has been written.                                         *)
(***************************************************************************)
BatchRanked ==
    \A d \in Deliverer : \A i, j \in batch[d] : i.rank = j.rank => i = j

\* A Writer that saves knows what.
SavingKnown == \A w \in Writer : wpc[w] # "idle" => saving[w] \in Entry

MarkedIsWritten ==
    \A d \in Deliverer : dpc[d] = "mark" =>
        \A i \in batch[d] : IsFirst(d, i) => i.revision \in written[i.entry]

IInv == TypeOK /\ SavingKnown /\ BatchRanked /\ MarkedIsWritten /\ DeliveredWasWritten

\* Init is a state of the invariant.
LEMMA InitIInv == Init => IInv
<1> SUFFICES ASSUME Init PROVE IInv
  OBVIOUS
<1>1. NoValue \in Value
  BY DEF NoValue, Value
<1>2. TypeOK
  BY <1>1 DEF Init, TypeOK, BoxRow, LarkRow, WriterPc, DelivererPc, Todo
<1>3. SavingKnown /\ BatchRanked /\ MarkedIsWritten /\ DeliveredWasWritten
  BY DEF Init, SavingKnown, BatchRanked, MarkedIsWritten, DeliveredWasWritten
<1> QED
  BY <1>2, <1>3 DEF IInv

\* What the type of a batch says of its rows.
LEMMA ItemTypes ==
    ASSUME TypeOK, NEW d \in Deliverer, NEW i \in batch[d]
    PROVE  /\ i \in Item /\ i.entry \in Entry /\ i.revision \in Nat
           /\ i.payload \in Value /\ i.rank \in Nat
BY DEF TypeOK, Item

\* No two rows of a batch are both its first.
LEMMA OneFirst ==
    ASSUME TypeOK, BatchRanked, NEW d \in Deliverer, NEW i, NEW j,
           IsFirst(d, i), IsFirst(d, j)
    PROVE  i = j
<1>1. i \in batch[d] /\ j \in batch[d] /\ i.rank <= j.rank /\ j.rank <= i.rank
  BY DEF IsFirst
<1>2. i.rank \in Nat /\ j.rank \in Nat
  BY <1>1, ItemTypes
<1> QED
  BY <1>1, <1>2 DEF BatchRanked

\* A row that is listed makes an item of the batch.
LEMMA ItemOfType ==
    ASSUME TypeOK, NEW e \in Entry
    PROVE  ItemOf(e) \in Item
<1>1. box[e].revision \in Nat /\ box[e].payload \in Value
  BY DEF TypeOK, BoxRow
<1>2. rank[e] \in Nat
  BY EntryCount DEF TypeOK, Ranking
<1> QED
  BY <1>1, <1>2 DEF ItemOf, Item

\* A row that is scheduled keeps the types, and is not delivered.
LEMMA ScheduledType ==
    ASSUME TypeOK, SavingKnown, NEW w \in Writer, wpc[w] # "idle"
    PROVE  /\ [box EXCEPT ![saving[w]] = Scheduled(w)] \in [Entry -> BoxRow]
           /\ Ranking(ToTheEnd(saving[w]))
           /\ \A e \in Entry :
                [box EXCEPT ![saving[w]] = Scheduled(w)][e].status = "delivered"
                  => [box EXCEPT ![saving[w]] = Scheduled(w)][e] = box[e]
<1>1. saving[w] \in Entry
  BY DEF SavingKnown
<1>2. box[saving[w]].revision + 1 \in Nat /\ payload[w] \in Value
  BY <1>1 DEF TypeOK, BoxRow
<1>3. Scheduled(w) \in BoxRow /\ Scheduled(w).status = "pending"
  BY <1>2 DEF Scheduled, BoxRow
<1>4. Ranking(ToTheEnd(saving[w]))
  BY <1>1, ToTheEndRanking DEF TypeOK
<1> QED
  BY <1>1, <1>3, <1>4 DEF TypeOK

\* A primary row that is saved keeps the types.
LEMMA SavedType ==
    ASSUME TypeOK, NEW e \in Entry
    PROVE  /\ [primary EXCEPT ![e] = Saved(e)] \in [Entry -> Value]
           /\ primary[e] \in Value
           /\ primary[e].version + 1 \in Nat
<1>1. primary[e] \in Value /\ primary[e].version \in Nat
  BY DEF TypeOK, Value
<1>2. primary[e].version + 1 \in Nat
  BY <1>1
<1>3. Saved(e) \in Value
  BY <1>1, <1>2 DEF Saved, Value
<1> QED
  BY <1>1, <1>2, <1>3 DEF TypeOK

\* A Writer ends its save.
LEMMA FinishType ==
    ASSUME TypeOK, SavingKnown, NEW w \in Writer, Finish(w)
    PROVE  /\ wpc' \in [Writer -> WriterPc]
           /\ saving' \in [Writer -> Entry \cup {None}]
           /\ payload' \in [Writer -> Value]
           /\ SavingKnown'
<1>1. NoValue \in Value
  BY DEF NoValue, Value
<1> QED
  BY <1>1 DEF TypeOK, SavingKnown, Finish, Write, WriterPc

\* A fault keeps the type of the counter.
LEMMA FaultType == ASSUME TypeOK, Fault PROVE faults' \in Nat
BY DEF TypeOK, Fault

\* The steps of the Writers disturb neither a batch nor what was written.
LEMMA WriterStep ==
    ASSUME IInv, NEW w \in Writer,
           (\E e \in Entry : Start(w, e)) \/ Save(w) \/ SaveFails(w)
    PROVE  IInv'
<1> USE DEF IInv
<1>0. UNCHANGED <<lark, delivererVars, written>>
  BY DEF Start, Save, SavePrimary, ReadAlert, Schedule, Signal, SaveFails
<1>1. BatchRanked' /\ MarkedIsWritten'
  <2>1. UNCHANGED <<dpc, batch, written>>
    BY <1>0 DEF delivererVars
  <2> QED
    BY <2>1 DEF BatchRanked, MarkedIsWritten, IsFirst
<1>2. CASE \E e \in Entry : Start(w, e)
  <2>1. PICK e \in Entry : Start(w, e)
    BY <1>2
  <2>2. TypeOK'
    BY <2>1, <1>0 DEF Start, TypeOK, Write, WriterPc, delivererVars
  <2>3. SavingKnown' /\ DeliveredWasWritten'
    BY <2>1 DEF Start, TypeOK, Write, SavingKnown, DeliveredWasWritten
  <2> QED
    BY <1>1, <2>2, <2>3
<1>3. CASE SavePrimary(w)
  <2>1. saving[w] \in Entry
    BY <1>3 DEF SavePrimary, SavingKnown
  <2>2. [version |-> primary[saving[w]].version + 1, resolved |-> FALSE] \in Value
    BY <2>1, SavedType DEF Value
  <2>3. primary' \in [Entry -> Value]
    BY <1>3, <2>1, SavedType DEF SavePrimary
  <2>4. payload' \in [Writer -> Value]
    BY <1>3, <2>2 DEF SavePrimary, TypeOK
  <2>5. wpc' \in [Writer -> WriterPc]
    BY <1>3 DEF SavePrimary, TypeOK, Write, WriterPc
  <2>6. TypeOK'
    BY <1>3, <2>3, <2>4, <2>5 DEF SavePrimary, TypeOK, delivererVars
  <2>7. SavingKnown' /\ DeliveredWasWritten'
    BY <1>3, <2>1 DEF SavePrimary, TypeOK, Write, SavingKnown, DeliveredWasWritten
  <2> QED
    BY <1>1, <2>6, <2>7
<1>4. CASE ReadAlert(w)
  <2>1. saving[w] \in Entry
    BY <1>4 DEF ReadAlert, SavingKnown
  <2>2. Persisted(w) \in Value
    BY <2>1 DEF Persisted, TypeOK
  <2>3. TypeOK'
    BY <1>4, <2>2 DEF ReadAlert, TypeOK, Write, WriterPc, delivererVars
  <2>4. SavingKnown' /\ DeliveredWasWritten'
    BY <1>4, <2>1 DEF ReadAlert, TypeOK, Write, SavingKnown, DeliveredWasWritten
  <2> QED
    BY <1>1, <2>3, <2>4
<1>5. CASE Schedule(w)
  <2>1. box' \in [Entry -> BoxRow] /\ Ranking(rank)'
    BY <1>5, ScheduledType DEF Schedule, Ranking
  <2>2. TypeOK'
    BY <1>5, <2>1 DEF Schedule, TypeOK, Write, WriterPc, delivererVars
  <2>3. SavingKnown'
    BY <1>5 DEF Schedule, TypeOK, Write, SavingKnown
  <2>4. DeliveredWasWritten'
    BY <1>5, ScheduledType DEF Schedule, DeliveredWasWritten
  <2> QED
    BY <1>1, <2>2, <2>3, <2>4
<1>6. CASE Signal(w)
  <2>1. woken' \in BOOLEAN
    BY <1>6 DEF Signal, TypeOK
  <2>2. TypeOK' /\ SavingKnown'
    BY <1>6, <2>1, FinishType DEF Signal, TypeOK, delivererVars
  <2>3. DeliveredWasWritten'
    BY <1>6 DEF Signal, DeliveredWasWritten
  <2> QED
    BY <1>1, <2>2, <2>3
<1>7. CASE SaveFails(w)
  <2>1. saving[w] \in Entry
    BY <1>7 DEF SaveFails, SavingKnown
  <2>2. primary' \in [Entry -> Value]
    BY <1>7, <2>1, SavedType DEF SaveFails, TypeOK
  <2>3. box' \in [Entry -> BoxRow] /\ Ranking(rank)'
    <3>1. CASE UNCHANGED <<box, rank>>
      BY <3>1 DEF Ranking, TypeOK
    <3>2. CASE /\ box' = [box EXCEPT ![saving[w]] = Scheduled(w)]
               /\ rank' = ToTheEnd(saving[w])
      <4>1. wpc[w] # "idle"
        BY <1>7 DEF SaveFails
      <4> QED
        BY <3>2, <4>1, ScheduledType DEF Ranking
    <3> QED
      BY <1>7, <3>1, <3>2 DEF SaveFails
  <2>4. TypeOK' /\ SavingKnown'
    BY <1>7, <2>2, <2>3, FinishType, FaultType DEF SaveFails, TypeOK, delivererVars
  <2>5. DeliveredWasWritten'
    BY <1>7, ScheduledType DEF SaveFails, DeliveredWasWritten
  <2> QED
    BY <1>1, <2>4, <2>5
<1> QED
  BY <1>2, <1>3, <1>4, <1>5, <1>6, <1>7 DEF Save

\* The recovery that resolves an alert keeps the invariant.
LEMMA ResolveStep ==
    ASSUME IInv, NEW e \in Entry, Resolve(e)
    PROVE  IInv'
<1> USE DEF IInv
<1>1. [version |-> primary[e].version + 1, resolved |-> TRUE] \in Value
  BY SavedType DEF Value
<1>2. TypeOK'
  BY <1>1 DEF Resolve, TypeOK, writerVars, delivererVars
<1>3. SavingKnown' /\ BatchRanked' /\ MarkedIsWritten' /\ DeliveredWasWritten'
  BY DEF Resolve, SavingKnown, BatchRanked, MarkedIsWritten, IsFirst,
         DeliveredWasWritten, writerVars, delivererVars
<1> QED
  BY <1>2, <1>3

-----------------------------------------------------------------------------
(***************************************************************************)
(* The drain.                                                              *)
(***************************************************************************)
\* A drain that stops leaves the others alone.
LEMMA StopStep ==
    ASSUME IInv, NEW d \in Deliverer, Stop(d), written' = written
    PROVE  /\ dpc' \in [Deliverer -> DelivererPc]
           /\ batch' \in [Deliverer -> SUBSET Item]
           /\ todo' \in [Deliverer -> Todo]
           /\ BatchRanked' /\ MarkedIsWritten'
<1>1. /\ dpc' \in [Deliverer -> DelivererPc]
      /\ batch' \in [Deliverer -> SUBSET Item]
      /\ todo' \in [Deliverer -> Todo]
  BY DEF IInv, TypeOK, Stop, Go, DelivererPc, Todo
<1>2. BatchRanked'
  BY DEF IInv, TypeOK, Stop, BatchRanked
<1>3. MarkedIsWritten'
  BY DEF IInv, TypeOK, Stop, Go, MarkedIsWritten, IsFirst
<1> QED
  BY <1>1, <1>2, <1>3

\* So does one that goes on to the next row.
LEMMA NextItemStep ==
    ASSUME IInv, NEW d \in Deliverer, NEW item, NextItem(d, item), written' = written
    PROVE  /\ dpc' \in [Deliverer -> DelivererPc]
           /\ batch' \in [Deliverer -> SUBSET Item]
           /\ todo' \in [Deliverer -> Todo]
           /\ BatchRanked' /\ MarkedIsWritten'
<1>1. CASE Stop(d)
  BY <1>1, StopStep
<1>2. CASE /\ batch' = [batch EXCEPT ![d] = @ \ {item}]
           /\ Go(d, "plan")
           /\ UNCHANGED todo
  <2>1. /\ dpc' \in [Deliverer -> DelivererPc]
        /\ batch' \in [Deliverer -> SUBSET Item]
        /\ todo' \in [Deliverer -> Todo]
    BY <1>2 DEF IInv, TypeOK, Go, DelivererPc
  <2>2. BatchRanked'
    BY <1>2 DEF IInv, TypeOK, BatchRanked
  <2>3. MarkedIsWritten'
    BY <1>2 DEF IInv, TypeOK, Go, MarkedIsWritten, IsFirst
  <2> QED
    BY <2>1, <2>2, <2>3
<1> QED
  BY <1>1, <1>2 DEF NextItem

\* A drain that moves on within its first row, not yet to the mark.
LEMMA GoStep ==
    ASSUME IInv, NEW d \in Deliverer, NEW p \in DelivererPc \ {"mark"}, Go(d, p),
           batch' = batch, written' = written
    PROVE  dpc' \in [Deliverer -> DelivererPc] /\ BatchRanked' /\ MarkedIsWritten'
<1>1. dpc' \in [Deliverer -> DelivererPc]
  BY DEF IInv, TypeOK, Go
<1>2. BatchRanked'
  BY DEF IInv, BatchRanked
<1>3. MarkedIsWritten'
  BY DEF IInv, TypeOK, Go, MarkedIsWritten, IsFirst
<1> QED
  BY <1>1, <1>2, <1>3

\* What Lark holds after a write has its type.
LEMMA ExecutedType ==
    ASSUME TypeOK, NEW d \in Deliverer, NEW i \in batch[d]
    PROVE  [lark EXCEPT ![i.entry] = Executed(d, i)] \in [Entry -> LarkRow]
<1>1. i.entry \in Entry /\ i.payload \in Value
  BY ItemTypes
<1>2. lark[i.entry] \in LarkRow /\ lark[i.entry].rows \in Nat
  BY <1>1 DEF TypeOK, LarkRow
<1>3. lark[i.entry].rows + 1 \in Nat
  BY <1>2
<1>4. todo[d] \in Todo
  BY DEF TypeOK
<1>5. CASE todo[d] = "create"
  BY <1>1, <1>3, <1>5 DEF Executed, LarkRow, TypeOK
<1>6. CASE todo[d] = "update"
  <2>1. Executed(d, i) = [lark[i.entry] EXCEPT !.value = i.payload]
    BY <1>6 DEF Executed
  <2>2. Executed(d, i) \in LarkRow
    BY <2>1, <1>1, <1>2 DEF LarkRow
  <2> QED
    BY <2>2, <1>1 DEF TypeOK
<1>7. CASE todo[d] = "skip"
  BY <1>1, <1>2, <1>7 DEF Executed, TypeOK
<1> QED
  BY <1>4, <1>5, <1>6, <1>7 DEF Todo

\* Marking the first row delivers a revision that was written.
LEMMA MarkedStep ==
    ASSUME IInv, NEW d \in Deliverer, dpc[d] = "mark", NEW i, IsFirst(d, i),
           IsCurrent(i), MarkedDelivered(i), written' = written
    PROVE  box' \in [Entry -> BoxRow] /\ Ranking(rank)' /\ DeliveredWasWritten'
<1>1. i \in batch[d] /\ i.entry \in Entry /\ i.revision \in written[i.entry]
  BY ItemTypes DEF IInv, IsFirst, MarkedIsWritten
<1>2. box' \in [Entry -> BoxRow]
  BY <1>1 DEF IInv, TypeOK, MarkedDelivered, BoxRow
<1>3. Ranking(rank)'
  BY <1>1, ToTheEndRanking DEF IInv, TypeOK, MarkedDelivered, Ranking
<1>4. DeliveredWasWritten'
  BY <1>1 DEF IInv, TypeOK, BoxRow, MarkedDelivered, IsCurrent, DeliveredWasWritten
<1> QED
  BY <1>2, <1>3, <1>4

\* Listing a batch gives each of its items a rank of its own.
LEMMA DrainStep ==
    ASSUME IInv, NEW d \in Deliverer, Drain(d)
    PROVE  IInv'
<1> USE DEF IInv
<1>0. UNCHANGED <<primary, box, rank, lark, wpc, saving, payload, written, faults>>
      /\ woken' \in BOOLEAN
  BY DEF Drain, writerVars
<1>1. SavingKnown' /\ DeliveredWasWritten'
  BY <1>0 DEF SavingKnown, DeliveredWasWritten
<1>2. CASE Pending = {}
  <2>1. UNCHANGED <<dpc, batch, todo>>
    BY <1>2 DEF Drain, delivererVars
  <2>2. TypeOK'
    BY <1>0, <2>1 DEF TypeOK, Ranking
  <2>3. BatchRanked' /\ MarkedIsWritten'
    BY <1>0, <2>1 DEF BatchRanked, MarkedIsWritten, IsFirst
  <2> QED
    BY <1>1, <2>2, <2>3
<1>3. CASE Pending # {}
  <2>1. /\ batch' = [batch EXCEPT ![d] = {ItemOf(e) : e \in Listed}]
        /\ Go(d, "plan")
        /\ UNCHANGED todo
    BY <1>3 DEF Drain
  <2>2. Listed \subseteq Entry
    BY DEF Listed, Pending
  <2>3. {ItemOf(e) : e \in Listed} \subseteq Item
    BY <2>2, ItemOfType
  <2>4. batch' \in [Deliverer -> SUBSET Item] /\ dpc' \in [Deliverer -> DelivererPc]
    BY <2>1, <2>3 DEF TypeOK, Go, DelivererPc
  <2>5. TypeOK'
    BY <1>0, <2>1, <2>4 DEF TypeOK, Ranking
  <2>6. \A i, j \in {ItemOf(e) : e \in Listed} : i.rank = j.rank => i = j
    BY <2>2 DEF ItemOf, TypeOK, Ranking
  <2>7. BatchRanked'
    BY <2>1, <2>6 DEF BatchRanked, TypeOK
  <2>8. MarkedIsWritten'
    BY <1>0, <2>1 DEF TypeOK, Go, MarkedIsWritten, IsFirst
  <2> QED
    BY <1>1, <2>5, <2>7, <2>8
<1> QED
  BY <1>2, <1>3

\* A drain that is deferred keeps the invariant.
LEMMA DeferStep ==
    ASSUME IInv, NEW d \in Deliverer, Defer(d)
    PROVE  IInv'
<1> USE DEF IInv
<1>1. TypeOK'
  BY FaultType DEF Defer, TypeOK, Ranking, writerVars, delivererVars
<1>2. SavingKnown' /\ BatchRanked' /\ MarkedIsWritten' /\ DeliveredWasWritten'
  BY DEF Defer, SavingKnown, BatchRanked, MarkedIsWritten, IsFirst,
         DeliveredWasWritten, writerVars, delivererVars
<1> QED
  BY <1>1, <1>2

\* Planning an item keeps the invariant.
LEMMA PlanStep ==
    ASSUME IInv, NEW d \in Deliverer, Plan(d)
    PROVE  IInv'
<1> USE DEF IInv
<1>1. \E p \in {"fail", "write"} : Go(d, p)
  BY DEF Plan
<1>2. UNCHANGED <<primary, box, rank, lark, woken, wpc, saving, payload, batch,
                  written, faults>>
  BY DEF Plan, writerVars
<1>3. dpc' \in [Deliverer -> DelivererPc] /\ BatchRanked' /\ MarkedIsWritten'
  BY <1>1, <1>2, GoStep DEF DelivererPc
<1>4. todo' \in [Deliverer -> Todo]
  BY DEF Plan, TypeOK, Todo
<1>5. TypeOK'
  BY <1>2, <1>3, <1>4 DEF TypeOK, Ranking
<1>6. SavingKnown' /\ DeliveredWasWritten'
  BY <1>2 DEF SavingKnown, DeliveredWasWritten
<1> QED
  BY <1>3, <1>5, <1>6

\* The item that is written to Lark is the one about to be marked.
LEMMA ExecuteStep ==
    ASSUME IInv, NEW d \in Deliverer, Execute(d)
    PROVE  IInv'
<1> USE DEF IInv
<1>1. PICK i \in batch[d] :
        /\ IsFirst(d, i)
        /\ lark' = [lark EXCEPT ![i.entry] = Executed(d, i)]
        /\ written' = [written EXCEPT ![i.entry] = @ \cup {i.revision}]
  BY DEF Execute
<1>2. UNCHANGED <<primary, box, rank, woken, wpc, saving, payload, batch, todo, faults>>
      /\ Go(d, "mark")
  BY DEF Execute, writerVars
<1>3. i.entry \in Entry /\ i.revision \in Nat
  BY ItemTypes
<1>4. written' \in [Entry -> SUBSET Nat] /\ \A e \in Entry : written[e] \subseteq written'[e]
  BY <1>1, <1>3 DEF TypeOK
<1>5. lark' \in [Entry -> LarkRow]
  BY <1>1, ExecutedType
<1>6. dpc' \in [Deliverer -> DelivererPc]
  BY <1>2 DEF TypeOK, Go, DelivererPc
<1>7. TypeOK'
  BY <1>2, <1>4, <1>5, <1>6 DEF TypeOK, Ranking
<1>8. SavingKnown' /\ BatchRanked'
  BY <1>2 DEF SavingKnown, BatchRanked
<1>9. DeliveredWasWritten'
  BY <1>2, <1>4 DEF DeliveredWasWritten
<1>10. MarkedIsWritten'
  <2> SUFFICES ASSUME NEW c \in Deliverer, dpc'[c] = "mark", NEW j \in batch[c],
                      IsFirst(c, j)
               PROVE  j.revision \in written'[j.entry]
    BY <1>2 DEF MarkedIsWritten, IsFirst
  <2>1. CASE c = d
    <3>1. j = i
      BY <1>1, <2>1, OneFirst
    <3> QED
      BY <1>1, <1>3, <3>1 DEF TypeOK
  <2>2. CASE c # d
    <3>1. dpc[c] = "mark"
      BY <1>2, <2>2 DEF Go, TypeOK
    <3>2. j.revision \in written[j.entry] /\ j.entry \in Entry
      BY <3>1, ItemTypes DEF MarkedIsWritten
    <3> QED
      BY <1>4, <3>2
  <2> QED
    BY <2>1, <2>2
<1> QED
  BY <1>7, <1>8, <1>9, <1>10

\* A write to Lark that fails, with or without effect, keeps the invariant.
LEMMA ExecuteFailsStep ==
    ASSUME IInv, NEW d \in Deliverer, ExecuteFails(d)
    PROVE  IInv'
<1> USE DEF IInv
<1>1. UNCHANGED <<primary, box, rank, woken, wpc, saving, payload, batch, todo, written>>
      /\ Go(d, "fail") /\ Fault
  BY DEF ExecuteFails, writerVars
<1>2. lark' \in [Entry -> LarkRow]
  BY ExecutedType DEF ExecuteFails, TypeOK
<1>3. dpc' \in [Deliverer -> DelivererPc] /\ BatchRanked' /\ MarkedIsWritten'
  BY <1>1, GoStep DEF DelivererPc
<1>4. TypeOK'
  BY <1>1, <1>2, <1>3, FaultType DEF TypeOK, Ranking
<1>5. SavingKnown' /\ DeliveredWasWritten'
  BY <1>1 DEF SavingKnown, DeliveredWasWritten
<1> QED
  BY <1>3, <1>4, <1>5

\* Only a revision that was written is marked delivered.
LEMMA MarkDeliveredStep ==
    ASSUME IInv, NEW d \in Deliverer, MarkDelivered(d)
    PROVE  IInv'
<1> USE DEF IInv
<1>1. PICK i \in batch[d] :
        /\ IsFirst(d, i)
        /\ IF IsCurrent(i) THEN MarkedDelivered(i) ELSE UNCHANGED <<box, rank>>
        /\ NextItem(d, i)
  BY DEF MarkDelivered
<1>2. UNCHANGED <<primary, lark, woken, wpc, saving, payload, written, faults>>
      /\ dpc[d] = "mark"
  BY DEF MarkDelivered, writerVars
<1>3. /\ dpc' \in [Deliverer -> DelivererPc]
      /\ batch' \in [Deliverer -> SUBSET Item]
      /\ todo' \in [Deliverer -> Todo]
      /\ BatchRanked' /\ MarkedIsWritten'
  BY <1>1, <1>2, NextItemStep
<1>4. box' \in [Entry -> BoxRow] /\ Ranking(rank)' /\ DeliveredWasWritten'
  <2>1. CASE IsCurrent(i)
    BY <1>1, <1>2, <2>1, MarkedStep
  <2>2. CASE ~IsCurrent(i)
    BY <1>1, <1>2, <2>2 DEF TypeOK, Ranking, DeliveredWasWritten
  <2> QED
    BY <2>1, <2>2
<1>5. TypeOK'
  BY <1>2, <1>3, <1>4 DEF TypeOK
<1>6. SavingKnown'
  BY <1>2 DEF SavingKnown
<1> QED
  BY <1>3, <1>4, <1>5, <1>6

\* A mark whose answer is lost marks no more than one that is answered.
LEMMA MarkFailsStep ==
    ASSUME IInv, NEW d \in Deliverer, MarkFails(d)
    PROVE  IInv'
<1> USE DEF IInv
<1>1. UNCHANGED <<primary, lark, woken, wpc, saving, payload, batch, todo, written>>
      /\ Go(d, "fail") /\ Fault /\ dpc[d] = "mark"
  BY DEF MarkFails, writerVars
<1>2. dpc' \in [Deliverer -> DelivererPc] /\ BatchRanked' /\ MarkedIsWritten'
  BY <1>1, GoStep DEF DelivererPc
<1>3. box' \in [Entry -> BoxRow] /\ Ranking(rank)' /\ DeliveredWasWritten'
  <2>1. CASE UNCHANGED <<box, rank>>
    BY <1>1, <2>1 DEF TypeOK, Ranking, DeliveredWasWritten
  <2>2. CASE \E i \in batch[d] : IsFirst(d, i) /\ IsCurrent(i) /\ MarkedDelivered(i)
    BY <1>1, <2>2, MarkedStep
  <2> QED
    BY <2>1, <2>2 DEF MarkFails
<1>4. TypeOK'
  BY <1>1, <1>2, <1>3, FaultType DEF TypeOK
<1>5. SavingKnown'
  BY <1>1 DEF SavingKnown
<1> QED
  BY <1>2, <1>3, <1>4, <1>5

\* A failed row goes to the end of the line, with a rank of its own.
LEMMA MarkDeliveryFailedStep ==
    ASSUME IInv, NEW d \in Deliverer, MarkDeliveryFailed(d)
    PROVE  IInv'
<1> USE DEF IInv
<1>1. PICK i \in batch[d] :
        /\ IsFirst(d, i)
        /\ IF IsCurrent(i)
             THEN rank' = FailedRank(i) /\ Throw(d)
             ELSE NextItem(d, i) /\ UNCHANGED <<rank, woken>>
  BY DEF MarkDeliveryFailed
<1>2. UNCHANGED <<primary, box, lark, wpc, saving, payload, written, faults>>
  BY DEF MarkDeliveryFailed, writerVars
<1>3. /\ dpc' \in [Deliverer -> DelivererPc]
      /\ batch' \in [Deliverer -> SUBSET Item]
      /\ todo' \in [Deliverer -> Todo]
      /\ BatchRanked' /\ MarkedIsWritten'
  BY <1>1, <1>2, NextItemStep, StopStep DEF Throw
<1>4. Ranking(rank)' /\ woken' \in BOOLEAN
  <2>1. CASE IsCurrent(i)
    <3>1. i.entry \in Entry
      BY ItemTypes
    <3>2. Ranking(rank)'
      BY <1>1, <2>1, <3>1, ToTheEndRanking DEF FailedRank, TypeOK, Ranking
    <3> QED
      BY <1>1, <2>1, <3>2 DEF Throw, TypeOK
  <2>2. CASE ~IsCurrent(i)
    BY <1>1, <2>2 DEF TypeOK, Ranking
  <2> QED
    BY <2>1, <2>2
<1>5. TypeOK'
  BY <1>2, <1>3, <1>4 DEF TypeOK
<1>6. SavingKnown' /\ DeliveredWasWritten'
  BY <1>2 DEF SavingKnown, DeliveredWasWritten
<1> QED
  BY <1>3, <1>5, <1>6

\* A drain that fails drops its batch.
LEMMA DrainFailsStep ==
    ASSUME IInv, NEW d \in Deliverer, DrainFails(d)
    PROVE  IInv'
<1> USE DEF IInv
<1>1. UNCHANGED <<primary, box, rank, lark, wpc, saving, payload, written>>
      /\ Stop(d) /\ Fault /\ woken' \in BOOLEAN
  BY DEF DrainFails, Throw, writerVars, TypeOK
<1>2. /\ dpc' \in [Deliverer -> DelivererPc]
      /\ batch' \in [Deliverer -> SUBSET Item]
      /\ todo' \in [Deliverer -> Todo]
      /\ BatchRanked' /\ MarkedIsWritten'
  BY <1>1, StopStep
<1>3. TypeOK'
  BY <1>1, <1>2, FaultType DEF TypeOK, Ranking
<1>4. SavingKnown' /\ DeliveredWasWritten'
  BY <1>1 DEF SavingKnown, DeliveredWasWritten
<1> QED
  BY <1>2, <1>3, <1>4

\* Every step keeps the invariant.
LEMMA NextIInv == ASSUME IInv, [Next]_vars PROVE IInv'
<1>1. CASE UNCHANGED vars
  BY <1>1 DEF vars, IInv, TypeOK, Ranking, SavingKnown, BatchRanked, MarkedIsWritten,
              IsFirst, DeliveredWasWritten
<1>2. CASE Cron
  BY <1>2 DEF Cron, writerVars, delivererVars, IInv, TypeOK, Ranking, SavingKnown,
              BatchRanked, MarkedIsWritten, IsFirst, DeliveredWasWritten
<1>3. CASE \E e \in Entry : Resolve(e)
  BY <1>3, ResolveStep
<1>4. CASE \E w \in Writer : (\E e \in Entry : Start(w, e)) \/ Save(w) \/ SaveFails(w)
  BY <1>4, WriterStep
<1>5. CASE \E d \in Deliverer :
             Deliver(d) \/ Defer(d) \/ ExecuteFails(d) \/ MarkFails(d) \/ DrainFails(d)
  BY <1>5, DrainStep, PlanStep, ExecuteStep, MarkDeliveredStep, MarkDeliveryFailedStep,
     DeferStep, ExecuteFailsStep, MarkFailsStep, DrainFailsStep DEF Deliver
<1> QED
  BY <1>1, <1>2, <1>3, <1>4, <1>5 DEF Next

\* The rows, ranks and batches of the outbox agree in every reachable state.
THEOREM Invariance == Spec => []IInv
<1>1. IInv /\ [Next]_vars => IInv'
  BY NextIInv
<1> QED
  BY InitIInv, <1>1, PTL DEF Spec

\* Every variable has its type, however many invocations save and drain.
THEOREM TypeCorrect == Spec => []TypeOK
<1>1. IInv => TypeOK
  BY DEF IInv
<1> QED
  BY <1>1, Invariance, PTL

\* A save scheduled while an older revision is on its way to Lark is never
\* closed with it: what markDelivered closes is a revision Lark took.
THEOREM NoLostSave == Spec => []DeliveredWasWritten
<1>1. IInv => DeliveredWasWritten
  BY DEF IInv
<1> QED
  BY <1>1, Invariance, PTL

-----------------------------------------------------------------------------
(***************************************************************************)
(* What one drain at a time adds.  Its plan for the first row still fits   *)
(* what Lark holds, as nobody else writes there; and a row it is about to  *)
(* write is not one the outbox calls delivered, so that no write disturbs  *)
(* what a delivered row promises.                                          *)
(***************************************************************************)
OneDrain == \A c, d \in Deliverer : c = d

Shows(e, p) == lark[e] = [rows |-> 1, value |-> p]

\* One row of a batch for an entry, with the payload of its revision.
BatchOfBox ==
    \A d \in Deliverer :
        /\ \A i, j \in batch[d] : i.entry = j.entry => i = j
        /\ \A i \in batch[d] :
             /\ i.revision <= box[i.entry].revision
             /\ i.revision = box[i.entry].revision => i.payload = box[i.entry].payload

\* A row of a batch is pending, but for the one whose mark took effect and
\* failed.
BatchIsPending ==
    \A d \in Deliverer : \A i \in batch[d] :
        box[i.entry].status = "delivered" => dpc[d] = "fail" /\ IsFirst(d, i)

PlanFits ==
    \A d \in Deliverer : dpc[d] = "write" =>
        \A i \in batch[d] : IsFirst(d, i) =>
            /\ todo[d] = "create" => lark[i.entry].rows = 0
            /\ todo[d] = "update" => lark[i.entry].rows = 1
            /\ todo[d] = "skip" => Shows(i.entry, i.payload)

MarkedIsShown ==
    \A d \in Deliverer : dpc[d] = "mark" =>
        \A i \in batch[d] : IsFirst(d, i) => Shows(i.entry, i.payload)

ShownInv ==
    BatchOfBox /\ BatchIsPending /\ PlanFits /\ MarkedIsShown /\ DeliveredIsShown

\* A step that leaves the drains, the outbox and Lark alone.
LEMMA ShownKept ==
    ASSUME IInv, ShownInv, UNCHANGED <<box, lark, dpc, batch, todo>>
    PROVE  ShownInv'
BY DEF ShownInv, BatchOfBox, BatchIsPending, PlanFits, MarkedIsShown, DeliveredIsShown,
       Shows, IsFirst

\* A row that is scheduled again is pending, under a revision of its own.
LEMMA ShownScheduled ==
    ASSUME IInv, ShownInv, NEW w \in Writer, wpc[w] # "idle",
           box' = [box EXCEPT ![saving[w]] = Scheduled(w)],
           UNCHANGED <<lark, dpc, batch, todo>>
    PROVE  ShownInv'
<1> DEFINE s == saving[w]
<1>1. s \in Entry /\ box[s].revision \in Nat
  BY DEF IInv, SavingKnown, TypeOK, BoxRow
<1>2. /\ box'[s].status = "pending" /\ box'[s].revision = box[s].revision + 1
      /\ \A e \in Entry \ {s} : box'[e] = box[e]
  BY <1>1 DEF Scheduled, IInv, TypeOK
<1> HIDE DEF s
<1>3. \A d \in Deliverer : \A i \in batch[d] : i.entry \in Entry /\ i.revision \in Nat
  BY ItemTypes DEF IInv
<1>4. BatchOfBox'
  BY <1>1, <1>2, <1>3 DEF ShownInv, BatchOfBox
<1>5. BatchIsPending'
  BY <1>2, <1>3 DEF ShownInv, BatchIsPending, IsFirst
<1>6. PlanFits' /\ MarkedIsShown'
  BY DEF ShownInv, PlanFits, MarkedIsShown, Shows, IsFirst
<1>7. DeliveredIsShown'
  BY <1>2 DEF ShownInv, DeliveredIsShown
<1> QED
  BY <1>4, <1>5, <1>6, <1>7 DEF ShownInv

\* The one drain, with no row in its hands.
LEMMA ShownStopped ==
    ASSUME OneDrain, IInv, ShownInv, NEW d \in Deliverer, Stop(d),
           lark' = lark, DeliveredIsShown'
    PROVE  ShownInv'
<1>1. \A c \in Deliverer : dpc'[c] = "idle" /\ batch'[c] = {}
  BY DEF OneDrain, Stop, Go, IInv, TypeOK
<1> QED
  BY <1>1 DEF ShownInv, BatchOfBox, BatchIsPending, PlanFits, MarkedIsShown

\* The one drain, on its way to a place where its plan is nothing to rely on.
LEMMA ShownGone ==
    ASSUME OneDrain, IInv, ShownInv, NEW d \in Deliverer,
           NEW p \in {"plan", "fail"}, Go(d, p),
           batch'[d] \subseteq batch[d],
           DeliveredIsShown', BatchIsPending',
           \A e \in Entry : /\ box'[e].revision = box[e].revision
                            /\ box'[e].payload = box[e].payload
    PROVE  ShownInv'
<1>1. \A c \in Deliverer : c = d /\ dpc'[c] = p
  BY DEF OneDrain, Go, IInv, TypeOK
<1>2. PlanFits' /\ MarkedIsShown'
  BY <1>1 DEF PlanFits, MarkedIsShown
<1>3. \A i \in batch[d] : i.entry \in Entry
  BY ItemTypes DEF IInv
<1>4. BatchOfBox'
  BY <1>1, <1>3 DEF ShownInv, BatchOfBox
<1> QED
  BY <1>2, <1>4 DEF ShownInv

\* Listing takes pending rows only.
LEMMA ShownDrain ==
    ASSUME OneDrain, IInv, ShownInv, NEW d \in Deliverer, Drain(d)
    PROVE  ShownInv'
<1>0. UNCHANGED <<box, lark, rank>>
  BY DEF Drain
<1>1. CASE Pending = {}
  <2>1. UNCHANGED <<dpc, batch, todo>>
    BY <1>1 DEF Drain, delivererVars
  <2> QED
    BY <1>0, <2>1, ShownKept
<1>2. CASE Pending # {}
  <2>1. batch' = [batch EXCEPT ![d] = {ItemOf(e) : e \in Listed}] /\ Go(d, "plan")
    BY <1>2 DEF Drain
  <2>2. \A c \in Deliverer : c = d /\ dpc'[c] = "plan" /\ batch'[c] = {ItemOf(e) : e \in Listed}
    BY <2>1 DEF OneDrain, Go, IInv, TypeOK
  <2>3. Listed \subseteq {e \in Entry : box[e].status = "pending"}
    BY DEF Listed, Pending
  <2>4. \A e \in Listed : /\ ItemOf(e).entry = e /\ ItemOf(e).revision = box[e].revision
                          /\ ItemOf(e).payload = box[e].payload
                          /\ box[e].revision \in Nat /\ box[e].status = "pending"
    BY <2>3 DEF ItemOf, IInv, TypeOK, BoxRow
  <2>5. BatchOfBox'
    BY <1>0, <2>2, <2>4 DEF BatchOfBox
  <2>6. BatchIsPending'
    BY <1>0, <2>2, <2>4 DEF BatchIsPending
  <2>7. PlanFits' /\ MarkedIsShown' /\ DeliveredIsShown'
    BY <1>0, <2>2 DEF PlanFits, MarkedIsShown, DeliveredIsShown, ShownInv
  <2> QED
    BY <2>5, <2>6, <2>7 DEF ShownInv
<1> QED
  BY <1>1, <1>2

\* The plan looks at Lark, and nobody but this drain writes there.
LEMMA ShownPlan ==
    ASSUME OneDrain, IInv, ShownInv, NEW d \in Deliverer, Plan(d)
    PROVE  ShownInv'
<1>0. UNCHANGED <<box, lark, batch>> /\ dpc[d] = "plan"
  BY DEF Plan
<1>1. DeliveredIsShown'
  BY <1>0 DEF ShownInv, DeliveredIsShown
<1>2. BatchIsPending'
  <2>1. \A c \in Deliverer : \A i \in batch[c] : box[i.entry].status # "delivered"
    BY <1>0 DEF OneDrain, ShownInv, BatchIsPending
  <2> QED
    BY <1>0, <2>1 DEF BatchIsPending
<1>3. CASE Go(d, "fail")
  BY <1>0, <1>1, <1>2, <1>3, ShownGone
<1>4. CASE ~Go(d, "fail")
  <2>1. PICK i \in batch[d] :
          /\ IsFirst(d, i) /\ ~(lark[i.entry].rows > 1) /\ Go(d, "write")
          /\ todo' = [todo EXCEPT ![d] =
                        CASE lark[i.entry].rows = 0 -> "create"
                          [] lark[i.entry].rows = 1 /\ lark[i.entry].value = i.payload -> "skip"
                          [] OTHER -> "update"]
    BY <1>4 DEF Plan
  <2>2. \A c \in Deliverer : c = d /\ dpc'[c] = "write"
    BY <2>1 DEF OneDrain, Go, IInv, TypeOK
  <2>3. lark[i.entry] \in LarkRow /\ lark[i.entry].rows \in {0, 1}
    <3>1. i.entry \in Entry
      BY ItemTypes DEF IInv
    <3>2. lark[i.entry] \in LarkRow /\ lark[i.entry].rows \in Nat
      BY <3>1 DEF IInv, TypeOK, LarkRow
    <3>3. ~(lark[i.entry].rows > 1)
      BY <2>1
    <3> QED
      BY <3>2, <3>3
  <2>4. todo'[d] = CASE lark[i.entry].rows = 0 -> "create"
                     [] lark[i.entry].rows = 1 /\ lark[i.entry].value = i.payload -> "skip"
                     [] OTHER -> "update"
    BY <2>1 DEF IInv, TypeOK
  <2>5. /\ todo'[d] = "create" => lark[i.entry].rows = 0
        /\ todo'[d] = "update" => lark[i.entry].rows = 1
        /\ todo'[d] = "skip" => lark[i.entry].rows = 1 /\ lark[i.entry].value = i.payload
    BY <2>3, <2>4
  <2>6. todo'[d] = "skip" => Shows(i.entry, i.payload)
    BY <2>3, <2>5 DEF Shows, LarkRow
  <2>7. \A j \in batch[d] : IsFirst(d, j) => j = i
    BY <2>1, OneFirst DEF IInv
  <2>8. PlanFits'
    BY <1>0, <2>2, <2>5, <2>6, <2>7 DEF PlanFits, Shows, IsFirst
  <2>9. MarkedIsShown' /\ BatchOfBox'
    BY <1>0, <2>2 DEF MarkedIsShown, BatchOfBox, ShownInv
  <2> QED
    BY <1>1, <1>2, <2>8, <2>9 DEF ShownInv
<1> QED
  BY <1>3, <1>4

\* A write that fits its plan leaves the one row with the payload in it.
LEMMA ExecutedShows ==
    ASSUME IInv, ShownInv, NEW d \in Deliverer, dpc[d] = "write", NEW i \in batch[d],
           IsFirst(d, i), lark' = [lark EXCEPT ![i.entry] = Executed(d, i)]
    PROVE  /\ Shows(i.entry, i.payload)'
           /\ \A e \in Entry : e # i.entry => lark'[e] = lark[e]
<1>1. i.entry \in Entry /\ lark[i.entry] \in LarkRow /\ todo[d] \in Todo
  BY ItemTypes DEF IInv, TypeOK
<1>2. Executed(d, i) = [rows |-> 1, value |-> i.payload]
  BY <1>1 DEF Executed, ShownInv, PlanFits, Shows, LarkRow, Todo
<1> QED
  BY <1>1, <1>2 DEF Shows, IInv, TypeOK

\* What is executed shows the payload of its item.
LEMMA ShownExecute ==
    ASSUME OneDrain, IInv, ShownInv, NEW d \in Deliverer, Execute(d)
    PROVE  ShownInv'
<1>0. UNCHANGED <<box, batch>> /\ dpc[d] = "write" /\ Go(d, "mark")
  BY DEF Execute
<1>1. PICK i \in batch[d] :
        IsFirst(d, i) /\ lark' = [lark EXCEPT ![i.entry] = Executed(d, i)]
  BY DEF Execute
<1>2. /\ Shows(i.entry, i.payload)'
      /\ \A e \in Entry : e # i.entry => lark'[e] = lark[e]
  BY <1>0, <1>1, ExecutedShows
<1>3. \A c \in Deliverer : c = d /\ dpc'[c] = "mark"
  BY <1>0 DEF OneDrain, Go, IInv, TypeOK
<1>4. \A j \in batch[d] : box[j.entry].status # "delivered"
  BY <1>0 DEF ShownInv, BatchIsPending
<1>5. DeliveredIsShown'
  BY <1>0, <1>1, <1>2, <1>4 DEF ShownInv, DeliveredIsShown
<1>6. BatchIsPending' /\ BatchOfBox'
  BY <1>0, <1>3, <1>4 DEF BatchIsPending, BatchOfBox, ShownInv
<1>7. \A j \in batch[d] : IsFirst(d, j) => j = i
  BY <1>1, OneFirst DEF IInv
<1>8. PlanFits' /\ MarkedIsShown'
  BY <1>0, <1>2, <1>3, <1>7 DEF PlanFits, MarkedIsShown, Shows, IsFirst
<1> QED
  BY <1>5, <1>6, <1>8 DEF ShownInv

\* A write that fails is to a row that is not marked delivered.
LEMMA ShownExecuteFails ==
    ASSUME OneDrain, IInv, ShownInv, NEW d \in Deliverer, ExecuteFails(d)
    PROVE  ShownInv'
<1>0. UNCHANGED <<box, batch>> /\ dpc[d] \in {"plan", "write"} /\ Go(d, "fail")
  BY DEF ExecuteFails
<1>1. \A j \in batch[d] : box[j.entry].status # "delivered"
  BY <1>0 DEF ShownInv, BatchIsPending
<1>2. BatchIsPending'
  BY <1>0, <1>1 DEF BatchIsPending, OneDrain
<1>3. DeliveredIsShown'
  <2>1. CASE UNCHANGED lark
    BY <1>0, <2>1 DEF ShownInv, DeliveredIsShown
  <2>2. CASE ~UNCHANGED lark
    <3>1. PICK i \in batch[d] :
            IsFirst(d, i) /\ lark' = [lark EXCEPT ![i.entry] = Executed(d, i)]
      BY <2>2 DEF ExecuteFails
    <3>2. \A e \in Entry : e # i.entry => lark'[e] = lark[e]
      BY <3>1, ItemTypes DEF IInv, TypeOK
    <3> QED
      BY <1>0, <1>1, <3>1, <3>2 DEF ShownInv, DeliveredIsShown
  <2> QED
    BY <2>1, <2>2
<1> QED
  BY <1>0, <1>2, <1>3, ShownGone

\* What the mark closes is what Lark shows.
LEMMA MarkedShows ==
    ASSUME OneDrain, IInv, ShownInv, NEW d \in Deliverer, dpc[d] = "mark",
           NEW i \in batch[d], IsFirst(d, i), IsCurrent(i), MarkedDelivered(i),
           lark' = lark
    PROVE  /\ DeliveredIsShown'
           /\ \A e \in Entry : /\ box'[e].revision = box[e].revision
                               /\ box'[e].payload = box[e].payload
                               /\ e # i.entry => box'[e] = box[e]
<1>1. i.entry \in Entry /\ box[i.entry] \in BoxRow
  BY ItemTypes DEF IInv, TypeOK
<1>2. Shows(i.entry, box[i.entry].payload)
  BY DEF ShownInv, MarkedIsShown, BatchOfBox, IsCurrent
<1>3. box' = [box EXCEPT ![i.entry].status = "delivered"]
  BY DEF MarkedDelivered
<1>4. \A e \in Entry : /\ box'[e].revision = box[e].revision
                       /\ box'[e].payload = box[e].payload
                       /\ e # i.entry => box'[e] = box[e]
  BY <1>1, <1>3 DEF IInv, TypeOK, BoxRow
<1>5. DeliveredIsShown'
  BY <1>2, <1>4 DEF ShownInv, DeliveredIsShown, Shows
<1> QED
  BY <1>4, <1>5

\* What is marked delivered was just written by the one drain.
LEMMA ShownMarkDelivered ==
    ASSUME OneDrain, IInv, ShownInv, NEW d \in Deliverer, MarkDelivered(d)
    PROVE  ShownInv'
<1>0. UNCHANGED lark /\ dpc[d] = "mark"
  BY DEF MarkDelivered
<1>1. PICK i \in batch[d] :
        /\ IsFirst(d, i)
        /\ IF IsCurrent(i) THEN MarkedDelivered(i) ELSE UNCHANGED <<box, rank>>
        /\ NextItem(d, i)
  BY DEF MarkDelivered
<1>2. /\ DeliveredIsShown'
      /\ \A e \in Entry : /\ box'[e].revision = box[e].revision
                          /\ box'[e].payload = box[e].payload
                          /\ e # i.entry => box'[e] = box[e]
  <2>1. CASE IsCurrent(i)
    BY <1>0, <1>1, <2>1, MarkedShows
  <2>2. CASE ~IsCurrent(i)
    BY <1>0, <1>1, <2>2 DEF ShownInv, DeliveredIsShown
  <2> QED
    BY <2>1, <2>2
<1>3. CASE Stop(d)
  BY <1>0, <1>2, <1>3, ShownStopped
<1>4. CASE batch' = [batch EXCEPT ![d] = @ \ {i}] /\ Go(d, "plan")
  <2>1. batch'[d] = batch[d] \ {i}
    BY <1>4 DEF IInv, TypeOK
  <2>2. \A j \in batch'[d] : j \in batch[d] /\ j.entry # i.entry /\ j.entry \in Entry
    BY <2>1, ItemTypes DEF IInv, ShownInv, BatchOfBox
  <2>3. \A j \in batch'[d] : box'[j.entry].status # "delivered"
    BY <1>0, <1>2, <2>2 DEF ShownInv, BatchIsPending
  <2>4. BatchIsPending'
    BY <2>3 DEF BatchIsPending, OneDrain
  <2> QED
    BY <1>2, <1>4, <2>1, <2>4, ShownGone
<1> QED
  BY <1>1, <1>3, <1>4 DEF NextItem

\* The same, when the answer is lost.
LEMMA ShownMarkFails ==
    ASSUME OneDrain, IInv, ShownInv, NEW d \in Deliverer, MarkFails(d)
    PROVE  ShownInv'
<1>0. UNCHANGED <<lark, batch>> /\ dpc[d] = "mark" /\ Go(d, "fail")
  BY DEF MarkFails
<1>1. \A j \in batch[d] : box[j.entry].status # "delivered" /\ j.entry \in Entry
  BY <1>0, ItemTypes DEF IInv, ShownInv, BatchIsPending
<1>2. \A c \in Deliverer : c = d /\ dpc'[c] = "fail"
  BY <1>0 DEF OneDrain, Go, IInv, TypeOK
<1>3. CASE UNCHANGED <<box, rank>>
  <2>1. BatchIsPending' /\ DeliveredIsShown'
    BY <1>0, <1>1, <1>2, <1>3 DEF BatchIsPending, ShownInv, DeliveredIsShown
  <2> QED
    BY <1>0, <1>3, <2>1, ShownGone
<1>4. CASE ~UNCHANGED <<box, rank>>
  <2>1. PICK i \in batch[d] : IsFirst(d, i) /\ IsCurrent(i) /\ MarkedDelivered(i)
    BY <1>4 DEF MarkFails
  <2>2. /\ DeliveredIsShown'
        /\ \A e \in Entry : /\ box'[e].revision = box[e].revision
                            /\ box'[e].payload = box[e].payload
                            /\ e # i.entry => box'[e] = box[e]
    BY <1>0, <2>1, MarkedShows
  <2>3. \A j \in batch[d] : j # i => j.entry # i.entry
    BY DEF ShownInv, BatchOfBox
  <2>4. BatchIsPending'
    BY <1>0, <1>1, <1>2, <2>1, <2>2, <2>3 DEF BatchIsPending, IsFirst
  <2> QED
    BY <1>0, <2>2, <2>4, ShownGone
<1> QED
  BY <1>3, <1>4

\* A failure is marked on rows that are pending.
LEMMA ShownMarkDeliveryFailed ==
    ASSUME OneDrain, IInv, ShownInv, NEW d \in Deliverer, MarkDeliveryFailed(d)
    PROVE  ShownInv'
<1>0. UNCHANGED <<box, lark>> /\ dpc[d] = "fail"
  BY DEF MarkDeliveryFailed
<1>1. PICK i \in batch[d] :
        IsFirst(d, i) /\ IF IsCurrent(i) THEN Stop(d) ELSE NextItem(d, i)
  BY DEF MarkDeliveryFailed, Throw
<1>2. DeliveredIsShown'
  BY <1>0 DEF ShownInv, DeliveredIsShown
<1>3. CASE Stop(d)
  BY <1>0, <1>2, <1>3, ShownStopped
<1>4. CASE batch' = [batch EXCEPT ![d] = @ \ {i}] /\ Go(d, "plan")
  <2>1. batch'[d] = batch[d] \ {i}
    BY <1>4 DEF IInv, TypeOK
  <2>2. \A j \in batch'[d] : j \in batch[d] /\ ~IsFirst(d, j)
    BY <1>1, <2>1, OneFirst DEF IInv
  <2>3. \A j \in batch'[d] : box'[j.entry].status # "delivered"
    BY <1>0, <2>2 DEF ShownInv, BatchIsPending
  <2>4. BatchIsPending'
    BY <2>3 DEF BatchIsPending, OneDrain
  <2> QED
    BY <1>0, <1>2, <1>4, <2>1, <2>4, ShownGone
<1> QED
  BY <1>1, <1>3, <1>4 DEF NextItem

\* Every step of a single drain keeps what delivered rows show.
LEMMA ShownStep == ASSUME OneDrain, IInv, ShownInv, [Next]_vars PROVE ShownInv'
<1>1. CASE UNCHANGED vars \/ Cron \/ \E e \in Entry : Resolve(e)
  BY <1>1, ShownKept DEF vars, Cron, Resolve, delivererVars
<1>2. ASSUME NEW w \in Writer, (\E e \in Entry : Start(w, e)) \/ Save(w) \/ SaveFails(w)
      PROVE  ShownInv'
  <2>1. UNCHANGED <<lark, dpc, batch, todo>>
    BY <1>2 DEF Start, Save, SavePrimary, ReadAlert, Schedule, Signal, SaveFails,
                delivererVars
  <2>2. \/ UNCHANGED box
        \/ wpc[w] # "idle" /\ box' = [box EXCEPT ![saving[w]] = Scheduled(w)]
    BY <1>2 DEF Start, Save, SavePrimary, ReadAlert, Schedule, Signal, SaveFails
  <2> QED
    BY <2>1, <2>2, ShownKept, ShownScheduled
<1>3. ASSUME NEW d \in Deliverer, Defer(d)
      PROVE  ShownInv'
  BY <1>3, ShownKept DEF Defer, delivererVars
<1>4. ASSUME NEW d \in Deliverer, DrainFails(d)
      PROVE  ShownInv'
  <2>1. Stop(d) /\ UNCHANGED <<box, lark>>
    BY <1>4 DEF DrainFails, Throw
  <2> QED
    BY <2>1, ShownStopped DEF ShownInv, DeliveredIsShown
<1> QED
  BY <1>1, <1>2, <1>3, <1>4, ShownDrain, ShownPlan, ShownExecute, ShownMarkDelivered,
     ShownMarkDeliveryFailed, ShownExecuteFails, ShownMarkFails DEF Next, Deliver

\* With one drain at a time, what the outbox calls delivered is what Lark
\* shows, in one row, whatever calls fail with or without their effect.
THEOREM DeliveredShown == ASSUME OneDrain PROVE Spec => []DeliveredIsShown
<1>1. Init => ShownInv
  BY DEF Init, ShownInv, BatchOfBox, BatchIsPending, PlanFits, MarkedIsShown,
         DeliveredIsShown
<1>2. IInv /\ ShownInv /\ [Next]_vars => ShownInv'
  BY ShownStep
<1>3. ShownInv => DeliveredIsShown
  BY DEF ShownInv
<1> QED
  BY <1>1, <1>2, <1>3, Invariance, PTL DEF Spec

-----------------------------------------------------------------------------
(***************************************************************************)
(* What one Writer at a time adds.  D1 never opens a resolved alert again, *)
(* and the alert is read between its own save and its own scheduling: what *)
(* is about to be scheduled is no older than what the outbox row holds.    *)
(***************************************************************************)
OneWriter == \A v, w \in Writer : v = w

ResolvedInv ==
    /\ \A e \in Entry : box[e].payload.resolved => primary[e].resolved
    /\ \A e \in Entry : primary[e].resolved => e \in Alert
    /\ \A w \in Writer : wpc[w] = "schedule" =>
         /\ payload[w].resolved => primary[saving[w]].resolved
         /\ box[saving[w]].payload.resolved => payload[w].resolved

\* A resolved alert stays resolved in D1: every save keeps the flag, and
\* resolving sets it.
LEMMA PrimaryKeeps ==
    ASSUME IInv, [Next]_vars, NEW e \in Entry
    PROVE  /\ primary[e].resolved => primary'[e].resolved
           /\ (primary[e].resolved => e \in Alert) => (primary'[e].resolved => e \in Alert)
<1>1. ASSUME NEW f \in Entry, primary' = [primary EXCEPT ![f] = Saved(f)]
      PROVE  primary'[e].resolved = primary[e].resolved
  <2>1. primary[f] \in Value
    BY DEF IInv, TypeOK
  <2>2. Saved(f).resolved = primary[f].resolved
    BY <2>1 DEF Saved, Value
  <2> QED
    BY <1>1, <2>2 DEF IInv, TypeOK
<1>2. ASSUME NEW w \in Writer, SavePrimary(w) \/ SaveFails(w)
      PROVE  primary' = primary \/ \E f \in Entry : primary' = [primary EXCEPT ![f] = Saved(f)]
  BY <1>2 DEF SavePrimary, SaveFails, IInv, SavingKnown
<1>3. ASSUME NEW f \in Entry, Resolve(f)
      PROVE  f \in Alert /\ primary'[f].resolved /\ (e # f => primary'[e] = primary[e])
  BY <1>3 DEF Resolve, IInv, TypeOK
<1>4. \/ UNCHANGED primary
      \/ \E w \in Writer : SavePrimary(w) \/ SaveFails(w)
      \/ \E f \in Entry : Resolve(f)
  BY DEF Next, vars, Start, Save, ReadAlert, Schedule, Signal, Deliver, Drain, Plan,
         Execute, MarkDelivered, MarkDeliveryFailed, Defer, ExecuteFails, MarkFails,
         DrainFails, Cron
<1> QED
  BY <1>1, <1>2, <1>3, <1>4

\* Only scheduling changes the payload of an outbox row.
LEMMA PayloadKept ==
    ASSUME IInv, [Next]_vars, NEW e \in Entry, box'[e].payload # box[e].payload
    PROVE  \E w \in Writer :
             /\ wpc[w] = "schedule" /\ saving[w] = e
             /\ box'[e].payload = payload[w]
             /\ wpc'[w] # "schedule"
<1>1. ASSUME NEW d \in Deliverer, MarkDelivered(d) \/ MarkFails(d)
      PROVE  box'[e].payload = box[e].payload
  <2>1. UNCHANGED box \/ \E i \in batch[d] : box' = [box EXCEPT ![i.entry].status = "delivered"]
    BY <1>1 DEF MarkDelivered, MarkFails, MarkedDelivered
  <2>2. ASSUME NEW i \in batch[d], box' = [box EXCEPT ![i.entry].status = "delivered"]
        PROVE  box'[e].payload = box[e].payload
    <3>1. i.entry \in Entry /\ box[i.entry] \in BoxRow
      BY ItemTypes DEF IInv, TypeOK
    <3> QED
      BY <2>2, <3>1 DEF IInv, TypeOK, BoxRow
  <2> QED
    BY <2>1, <2>2
<1>2. ASSUME NEW w \in Writer, box' = [box EXCEPT ![saving[w]] = Scheduled(w)],
             saving[w] \in Entry
      PROVE  saving[w] = e /\ box'[e].payload = payload[w]
  BY <1>2 DEF Scheduled, IInv, TypeOK
<1>3. ASSUME NEW w \in Writer, Schedule(w) \/ SaveFails(w)
      PROVE  /\ wpc[w] = "schedule" /\ saving[w] = e
             /\ box'[e].payload = payload[w]
             /\ wpc'[w] # "schedule"
  <2>1. /\ wpc[w] = "schedule" /\ box' = [box EXCEPT ![saving[w]] = Scheduled(w)]
        /\ wpc'[w] # "schedule"
    BY <1>3 DEF Schedule, SaveFails, Finish, Write, IInv, TypeOK
  <2>2. saving[w] \in Entry
    BY <2>1 DEF IInv, SavingKnown
  <2> QED
    BY <1>2, <2>1, <2>2
<1>4. \/ UNCHANGED box
      \/ \E w \in Writer : Schedule(w) \/ SaveFails(w)
      \/ \E d \in Deliverer : MarkDelivered(d) \/ MarkFails(d)
  BY DEF Next, vars, Start, Save, SavePrimary, ReadAlert, Signal, Deliver, Drain, Plan,
         Execute, MarkDeliveryFailed, Defer, ExecuteFails, DrainFails, Cron, Resolve
<1> QED
  BY <1>1, <1>3, <1>4

\* A Writer comes to its scheduling from the save, for a run, or from the
\* read, for an alert.
LEMMA ScheduleFrom ==
    ASSUME IInv, [Next]_vars, NEW w \in Writer, wpc'[w] = "schedule"
    PROVE  /\ saving[w] \in Entry /\ saving'[w] = saving[w]
           /\ \/ wpc[w] = "schedule" /\ payload'[w] = payload[w]
              \/ /\ ReadAlert(w) /\ payload'[w] = primary[saving[w]]
                 /\ UNCHANGED <<primary, box>>
              \/ SavePrimary(w) /\ saving[w] \notin Alert /\ ~payload'[w].resolved
<1> USE DEF IInv, TypeOK, SavingKnown, Write
<1>1. ASSUME NEW v \in Writer, v # w, (\E e \in Entry : Start(v, e)) \/ Save(v) \/ SaveFails(v)
      PROVE  wpc'[w] = wpc[w] /\ saving'[w] = saving[w] /\ payload'[w] = payload[w]
  BY <1>1 DEF Start, Save, SavePrimary, ReadAlert, Schedule, Signal, SaveFails, Finish
<1>2. CASE (\E e \in Entry : Start(w, e)) \/ Schedule(w) \/ Signal(w) \/ SaveFails(w)
  BY <1>2 DEF Start, Schedule, Signal, SaveFails, Finish
<1>3. CASE ReadAlert(w)
  BY <1>3 DEF ReadAlert, Persisted
<1>4. CASE SavePrimary(w)
  BY <1>4 DEF SavePrimary
<1>5. CASE UNCHANGED <<wpc, saving, payload>>
  BY <1>5
<1>6. \/ UNCHANGED <<wpc, saving, payload>>
      \/ \E v \in Writer : (\E e \in Entry : Start(v, e)) \/ Save(v) \/ SaveFails(v)
  BY DEF Next, vars, Deliver, Drain, Plan, Execute, MarkDelivered, MarkDeliveryFailed,
         Defer, ExecuteFails, MarkFails, DrainFails, Cron, Resolve, writerVars
<1> QED
  BY <1>1, <1>2, <1>3, <1>4, <1>5, <1>6 DEF Save

\* With one writer, no step schedules a resolved alert as open.
LEMMA ResolvedStep ==
    ASSUME OneWriter, IInv, ResolvedInv, [Next]_vars
    PROVE  /\ ResolvedInv'
           /\ \A e \in Entry : box[e].payload.resolved => box'[e].payload.resolved
<1>1. \A e \in Entry : primary'[e].resolved => e \in Alert
  BY PrimaryKeeps DEF ResolvedInv
<1>2. \A e \in Entry : box'[e].payload.resolved => primary'[e].resolved
  <2> SUFFICES ASSUME NEW e \in Entry, box'[e].payload.resolved PROVE primary'[e].resolved
    OBVIOUS
  <2>1. primary[e].resolved
    BY PayloadKept DEF ResolvedInv
  <2> QED
    BY <2>1, PrimaryKeeps
<1>3. \A e \in Entry : box[e].payload.resolved => box'[e].payload.resolved
  BY PayloadKept DEF ResolvedInv
<1>4. ASSUME NEW w \in Writer, wpc'[w] = "schedule"
      PROVE  /\ payload'[w].resolved => primary'[saving'[w]].resolved
             /\ box'[saving'[w]].payload.resolved => payload'[w].resolved
  <2>1. saving[w] \in Entry /\ saving'[w] = saving[w]
    BY <1>4, ScheduleFrom
  <2>2. box'[saving[w]].payload = box[saving[w]].payload
    BY <1>4, <2>1, PayloadKept DEF OneWriter
  <2>3. CASE wpc[w] = "schedule" /\ payload'[w] = payload[w]
    BY <2>1, <2>2, <2>3, PrimaryKeeps DEF ResolvedInv
  <2>4. CASE payload'[w] = primary[saving[w]] /\ UNCHANGED <<primary, box>>
    BY <2>1, <2>4 DEF ResolvedInv
  <2>5. CASE saving[w] \notin Alert /\ ~payload'[w].resolved
    BY <2>1, <2>2, <2>5 DEF ResolvedInv
  <2> QED
    BY <1>4, <2>3, <2>4, <2>5, ScheduleFrom
<1> QED
  BY <1>1, <1>2, <1>3, <1>4 DEF ResolvedInv

\* With one Writer at a time an alert that was mirrored as resolved is never
\* mirrored as open again, although it is saved open again.
THEOREM ResolvedForGood == ASSUME OneWriter PROVE Spec => ResolvedStaysResolved
<1>1. Init => ResolvedInv
  BY DEF Init, ResolvedInv, NoValue
<1>2. IInv /\ ResolvedInv /\ [Next]_vars => ResolvedInv'
  BY ResolvedStep
<1>3. IInv /\ ResolvedInv /\ [Next]_vars =>
        [\A e \in Entry : box[e].payload.resolved => box'[e].payload.resolved]_box
  BY ResolvedStep
<1> QED
  BY <1>1, <1>2, <1>3, Invariance, PTL DEF Spec, ResolvedStaysResolved
=============================================================================
