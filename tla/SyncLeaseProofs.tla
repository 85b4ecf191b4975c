--------------------------- MODULE SyncLeaseProofs ---------------------------
(***************************************************************************)
(* Proofs about SyncLease, for every set of invocations, every lease       *)
(* length and every number of renewal attempts.                            *)
(***************************************************************************)
EXTENDS SyncLease, TLAPS

\* Every reachable state has its type: no step of a run, of its heartbeat or
\* of the environment leaves the domains of the D1 rows and local variables.
THEOREM TypeCorrect == Spec => []TypeOK
<1> USE OwnerOfAssumption, LeaseAssumption, BoundAssumption
<1>1. Init => TypeOK
  BY DEF Init, TypeOK, Pc, Status
<1>2. TypeOK /\ [Next]_vars => TypeOK'
  <2> SUFFICES ASSUME TypeOK, [Next]_vars PROVE TypeOK'
    OBVIOUS
  <2> USE DEF TypeOK, Goto, FailWith, Fault, Leave, leaseVars, runVars
  <2>1. ASSUME NEW i \in Invocation, Start(i) PROVE TypeOK'
    BY <2>1 DEF Start, Pc
  <2>2. ASSUME NEW i \in Invocation, Grant(i) PROVE TypeOK'
    BY <2>2 DEF Grant, Lease, LockRow, Pc, HoldingPc
  <2>3. ASSUME NEW i \in Invocation, Busy(i) PROVE TypeOK'
    BY <2>3 DEF Busy, Pc
  <2>4. ASSUME NEW i \in Invocation, AcquireFails(i) PROVE TypeOK'
    BY <2>4 DEF AcquireFails, Lease, LockRow, Pc, EndedPc
  <2>5. ASSUME NEW i \in Invocation, SkipBusy(i) PROVE TypeOK'
    BY <2>5 DEF SkipBusy, Pc, EndedPc, Status
  <2>6. ASSUME NEW i \in Invocation, Begin(i) PROVE TypeOK'
    BY <2>6 DEF Begin, AssertActive, Pc, HoldingPc, Status, Failure
  <2>7. ASSUME NEW i \in Invocation, CheckChunk(i) PROVE TypeOK'
    BY <2>7 DEF CheckChunk, AssertActive, Pc, HoldingPc, Failure
  <2>8. ASSUME NEW i \in Invocation, WriteChunk(i) PROVE TypeOK'
    BY <2>8 DEF WriteChunk, Pc, HoldingPc
  <2>9. ASSUME NEW i \in Invocation, ExecuteThrows(i) PROVE TypeOK'
    BY <2>9 DEF ExecuteThrows, Pc, HoldingPc
  <2>10. ASSUME NEW i \in Invocation, ExecuteReturns(i) PROVE TypeOK'
    BY <2>10 DEF ExecuteReturns, Pc, HoldingPc, Failure
  <2>11. ASSUME NEW i \in Invocation, SaveOutcome(i) PROVE TypeOK'
    BY <2>11 DEF SaveOutcome, CompletionStatus, Pc, HoldingPc, Status
  <2>12. ASSUME NEW i \in Invocation, RaiseWarning(i) PROVE TypeOK'
    BY <2>12 DEF RaiseWarning, WarningNotPersisted, Pc, HoldingPc, AlertType, Failure
  <2>13. ASSUME NEW i \in Invocation, SaveFails(i) PROVE TypeOK'
    BY <2>13 DEF SaveFails, CompletionStatus, Pc, HoldingPc, Status, Failure
  <2>14. ASSUME NEW i \in Invocation, SaveFailure(i) PROVE TypeOK'
    BY <2>14 DEF SaveFailure, Pc, HoldingPc, Status
  <2>15. ASSUME NEW i \in Invocation, RaiseFailure(i) PROVE TypeOK'
    BY <2>15 DEF RaiseFailure, Pc, HoldingPc, AlertType
  <2>16. ASSUME NEW i \in Invocation, Stop(i) PROVE TypeOK'
    BY <2>16 DEF Stop, Pc, HoldingPc
  <2>17. ASSUME NEW i \in Invocation, Release(i) PROVE TypeOK'
    BY <2>17 DEF Release, End, Pc, EndedPc, AlertType
  <2>18. ASSUME NEW i \in Invocation, ReleaseFails(i) PROVE TypeOK'
    BY <2>18 DEF ReleaseFails, End, Pc, EndedPc, AlertType
  <2>19. ASSUME NEW i \in Invocation, RenewStart(i) PROVE TypeOK'
    BY <2>19 DEF RenewStart
  <2>20. ASSUME NEW i \in Invocation, Renew(i) PROVE TypeOK'
    BY <2>20 DEF Renew, Lease, LockRow
  <2>21. ASSUME NEW i \in Invocation, RenewLost(i) PROVE TypeOK'
    BY <2>21 DEF RenewLost
  <2>22. ASSUME NEW i \in Invocation, RenewFails(i) PROVE TypeOK'
    <3>1. lock' \in LockRow \cup {NoLock}
      BY <2>22 DEF RenewFails, AttemptsLeft, Lease, LockRow
    <3>2. CASE attempt[i] < RenewAttempts
      <4>1. attempt[i] + 1 \in 0..RenewAttempts
        BY <3>2
      <4>2. /\ attempt' = [attempt EXCEPT ![i] = @ + 1]
            /\ issued' = [issued EXCEPT ![i] = now]
            /\ UNCHANGED <<now, pc, expiresAt, terminal, runVars>>
        BY <2>22, <3>2 DEF RenewFails, AttemptsLeft
      <4>3. attempt' \in [Invocation -> 0..RenewAttempts]
        BY <4>1, <4>2
      <4>4. issued' \in [Invocation -> Nat]
        BY <4>2
      <4>5. QED
        BY <3>1, <4>2, <4>3, <4>4
    <3>3. CASE ~(attempt[i] < RenewAttempts)
      <4>1. 0 \in 0..RenewAttempts
        OBVIOUS
      <4>2. /\ attempt' = [attempt EXCEPT ![i] = 0]
            /\ issued' = [issued EXCEPT ![i] = 0]
            /\ terminal' = [terminal EXCEPT ![i] = TRUE]
            /\ UNCHANGED <<now, pc, expiresAt, runVars>>
        BY <2>22, <3>3 DEF RenewFails, AttemptsLeft
      <4>3. attempt' \in [Invocation -> 0..RenewAttempts]
        BY <4>1, <4>2
      <4>4. QED
        BY <3>1, <4>2, <4>3
    <3>4. QED
      BY <3>2, <3>3
  <2>23. ASSUME NEW i \in Invocation, Crash(i) PROVE TypeOK'
    BY <2>23 DEF Crash, Pc, EndedPc
  <2>24. CASE Tick
    BY <2>24 DEF Tick
  <2>25. CASE UNCHANGED vars
    BY <2>25 DEF vars
  <2>26. QED
    BY <2>1, <2>2, <2>3, <2>4, <2>5, <2>6, <2>7, <2>8, <2>9, <2>10, <2>11,
       <2>12, <2>13, <2>14, <2>15, <2>16, <2>17, <2>18, <2>19, <2>20, <2>21,
       <2>22, <2>23, <2>24, <2>25 DEF Next, Step, Heartbeat
<1>3. QED
  BY <1>1, <1>2, PTL DEF Spec

(***************************************************************************)
(* Why the local check of the lease can be trusted.  The lease end a run   *)
(* knows never runs ahead of the row (LeaseInv, third conjunct), and a row *)
(* is taken over only at a time it has expired.  A lock statement carries  *)
(* a clock value of the past (first conjunct), which makes it only less    *)
(* likely to find the row expired; and a renewal issued later never asks   *)
(* for less than an earlier one gave (second conjunct).                    *)
(***************************************************************************)
LeaseInv ==
    /\ \A i \in Invocation : issued[i] <= now
    /\ \A i \in Invocation :
         /\ attempt[i] > 0 => Holding(i)
         /\ Holding(i) =>
               /\ expiresAt[i] <= now + LeaseMs
               /\ attempt[i] > 0 => expiresAt[i] <= issued[i] + LeaseMs
    /\ ActiveLeaseIsOwned

\* Each action preserves LeaseInv, given unique sync run ids.
LEMMA LeaseInvStep ==
  ASSUME OwnersAreUnique, TypeOK, LeaseInv, [Next]_vars
  PROVE  LeaseInv'
<1> USE OwnerOfAssumption, LeaseAssumption
<1> USE DEF TypeOK, LeaseInv, ActiveLeaseIsOwned, Holding, Active, Owns, Goto,
            FailWith, Fault, Leave, leaseVars, runVars
<1> DEFINE Quiet(i) ==
             \* A step of run i that leaves the row and the clock alone and
             \* does not lengthen what the run believes.
             /\ UNCHANGED <<now, lock, issued, expiresAt, attempt>>
             /\ \A j \in Invocation : terminal[j] => terminal'[j]
             /\ \A j \in Invocation : pc'[j] \in HoldingPc <=> pc[j] \in HoldingPc
<1>1. ASSUME NEW i \in Invocation, Quiet(i) PROVE LeaseInv'
  BY <1>1
<1>2. ASSUME NEW i \in Invocation, Start(i) PROVE LeaseInv'
  BY <1>2 DEF Start, HoldingPc
<1>3. ASSUME NEW i \in Invocation, Grant(i) PROVE LeaseInv'
  <2>1. attempt[i] = 0
    BY <1>3 DEF Grant, HoldingPc
  <2>2. \A j \in Invocation \ {i} : ~(Holding(j) /\ Active(j))
    BY <1>3 DEF Grant, Grantable, LockRow, NoLock, OwnersAreUnique
  <2>3. \A j \in Invocation \ {i} :
          /\ pc'[j] = pc[j] /\ issued'[j] = issued[j] /\ expiresAt'[j] = expiresAt[j]
          /\ attempt'[j] = attempt[j] /\ terminal'[j] = terminal[j]
    BY <1>3 DEF Grant
  <2>4. /\ lock' = Lease(i) /\ issued'[i] = 0 /\ now' = now
        /\ expiresAt'[i] = issued[i] + LeaseMs /\ attempt'[i] = attempt[i]
        /\ pc'[i] = "begin"
    BY <1>3 DEF Grant
  <2>5. \A j \in Invocation : issued'[j] <= now'
    BY <2>3, <2>4
  <2>6. \A j \in Invocation :
          /\ attempt'[j] > 0 => Holding(j)'
          /\ Holding(j)' =>
                /\ expiresAt'[j] <= now' + LeaseMs
                /\ attempt'[j] > 0 => expiresAt'[j] <= issued'[j] + LeaseMs
    BY <2>1, <2>3, <2>4
  <2>7. ActiveLeaseIsOwned'
    BY <2>2, <2>3, <2>4 DEF Lease, NoLock
  <2>8. QED
    BY <2>5, <2>6, <2>7
<1>4. ASSUME NEW i \in Invocation, Busy(i) PROVE LeaseInv'
  BY <1>4 DEF Busy, HoldingPc
<1>5. ASSUME NEW i \in Invocation, AcquireFails(i) PROVE LeaseInv'
  BY <1>5 DEF AcquireFails, Grantable, Lease, LockRow, NoLock, HoldingPc, EndedPc,
              OwnersAreUnique
<1>6. ASSUME NEW i \in Invocation, SkipBusy(i) PROVE LeaseInv'
  BY <1>6 DEF SkipBusy, HoldingPc
<1>7. ASSUME NEW i \in Invocation, Begin(i) PROVE LeaseInv'
  <2>1. Quiet(i)
    BY <1>7 DEF Begin, AssertActive, HoldingPc
  <2>2. QED
    BY <1>1, <2>1
<1>8. ASSUME NEW i \in Invocation, CheckChunk(i) PROVE LeaseInv'
  <2>1. Quiet(i)
    BY <1>8 DEF CheckChunk, AssertActive, HoldingPc
  <2>2. QED
    BY <1>1, <2>1
<1>9. ASSUME NEW i \in Invocation,
             WriteChunk(i) \/ ExecuteThrows(i) \/ ExecuteReturns(i) \/ SaveOutcome(i)
                \/ RaiseWarning(i) \/ SaveFails(i) \/ SaveFailure(i)
                \/ RaiseFailure(i) \/ Stop(i)
      PROVE LeaseInv'
  <2>1. Quiet(i)
    BY <1>9 DEF WriteChunk, ExecuteThrows, ExecuteReturns, SaveOutcome, RaiseWarning,
                WarningNotPersisted, SaveFails, SaveFailure, RaiseFailure, Stop, HoldingPc
  <2>2. QED
    BY <1>1, <2>1
<1>10. ASSUME NEW i \in Invocation, Release(i) \/ ReleaseFails(i) PROVE LeaseInv'
  BY <1>10 DEF Release, ReleaseFails, Deletable, End, HoldingPc, EndedPc, OwnersAreUnique
<1>11. ASSUME NEW i \in Invocation, RenewStart(i) PROVE LeaseInv'
  BY <1>11 DEF RenewStart, BeatingPc
<1>12. ASSUME NEW i \in Invocation, Renew(i) PROVE LeaseInv'
  BY <1>12 DEF Renew, Renewable, Lease, LockRow, NoLock, OwnersAreUnique
<1>13. ASSUME NEW i \in Invocation, RenewLost(i) PROVE LeaseInv'
  BY <1>13 DEF RenewLost
<1>14. ASSUME NEW i \in Invocation, RenewFails(i) PROVE LeaseInv'
  BY <1>14 DEF RenewFails, AttemptsLeft, Renewable, Lease, LockRow, NoLock, OwnersAreUnique
<1>15. ASSUME NEW i \in Invocation, Crash(i) PROVE LeaseInv'
  BY <1>15 DEF Crash, HoldingPc, EndedPc
<1>16. CASE Tick
  BY <1>16 DEF Tick
<1>17. CASE UNCHANGED vars
  BY <1>17 DEF vars
<1>18. QED
  BY <1>2, <1>3, <1>4, <1>5, <1>6, <1>7, <1>8, <1>9, <1>10, <1>11, <1>12, <1>13,
     <1>14, <1>15, <1>16, <1>17 DEF Next, Step, Heartbeat

\* assertActive never lies: with unique sync run ids, a run whose local check
\* passes owns the row of sync_locks for at least as long as it believes.
THEOREM ActiveLease == ASSUME OwnersAreUnique PROVE Spec => []ActiveLeaseIsOwned
<1>1. Init => LeaseInv
  BY DEF Init, LeaseInv, ActiveLeaseIsOwned, Holding, HoldingPc
<1>2. TypeOK /\ LeaseInv /\ [Next]_vars => LeaseInv'
  BY LeaseInvStep
<1>3. LeaseInv => ActiveLeaseIsOwned
  BY DEF LeaseInv
<1>4. QED
  BY <1>1, <1>2, <1>3, TypeCorrect, PTL DEF Spec

\* Mutual exclusion: the lease checks of two runs never both pass.
THEOREM MutualExclusion == ASSUME OwnersAreUnique PROVE Spec => []AtMostOneActive
<1>1. ActiveLeaseIsOwned => AtMostOneActive
  BY DEF ActiveLeaseIsOwned, AtMostOneActive, Owns, OwnersAreUnique
<1>2. QED
  BY <1>1, ActiveLease, PTL

\* A lease once lost never comes back to the run that lost it: only the owner
\* of the row renews it, and a run that holds does not acquire again.
LEMMA LostStaysLostStep ==
  ASSUME OwnersAreUnique, TypeOK, [Next]_vars
  PROVE  \A i \in Invocation :
           Holding(i) /\ ~Owns(i) /\ Holding(i)' => ~Owns(i)'
<1> USE OwnerOfAssumption, LeaseAssumption DEF TypeOK
<1> SUFFICES ASSUME NEW i \in Invocation, Holding(i), ~Owns(i), Holding(i)'
             PROVE  ~Owns(i)'
  OBVIOUS
<1>1. ASSUME NEW j \in Invocation, Grant(j) \/ AcquireFails(j) PROVE ~Owns(i)'
  <2>1. j # i
    BY <1>1 DEF Grant, AcquireFails, Holding, HoldingPc
  <2>2. lock' = lock \/ lock' = Lease(j)
    BY <1>1 DEF Grant, AcquireFails
  <2>3. QED
    BY <2>1, <2>2 DEF Owns, Lease, OwnersAreUnique
<1>2. ASSUME NEW j \in Invocation, Renew(j) \/ RenewFails(j) PROVE ~Owns(i)'
  <2>1. lock' = lock \/ (Owns(j) /\ lock' = Lease(j))
    BY <1>2 DEF Renew, RenewFails, Renewable
  <2>2. Owns(j) => j # i
    OBVIOUS
  <2>3. QED
    BY <2>1, <2>2 DEF Owns, Lease, OwnersAreUnique
<1>3. ASSUME NEW j \in Invocation, Release(j) \/ ReleaseFails(j) PROVE ~Owns(i)'
  <2>1. lock' = lock \/ lock' = NoLock
    BY <1>3 DEF Release, ReleaseFails
  <2>2. QED
    BY <2>1 DEF Owns
<1>4. CASE UNCHANGED lock
  BY <1>4 DEF Owns
<1>5. ASSUME NEW j \in Invocation, Step(j), ~Grant(j), ~AcquireFails(j),
             ~Release(j), ~ReleaseFails(j)
      PROVE  UNCHANGED lock
  BY <1>5 DEF Step, Start, Busy, SkipBusy, Begin, CheckChunk, WriteChunk, ExecuteThrows,
              ExecuteReturns, SaveOutcome, RaiseWarning, WarningNotPersisted, SaveFails, SaveFailure,
              RaiseFailure, Stop, leaseVars
<1>6. QED
  BY <1>1, <1>2, <1>3, <1>4, <1>5
     DEF Next, Heartbeat, RenewStart, RenewLost, Crash, Tick, vars

\* A run whose row was taken over never owns it again, whatever it renews.
THEOREM LostLease == ASSUME OwnersAreUnique PROVE Spec => LostLeaseStaysLost
<1>1. TypeOK /\ [Next]_vars =>
        [\A i \in Invocation :
           Holding(i) /\ ~Owns(i) /\ pc'[i] \in HoldingPc => ~Owns(i)']_vars
  BY LostStaysLostStep DEF Holding
<1>2. QED
  BY <1>1, TypeCorrect, PTL DEF Spec, LostLeaseStaysLost

(***************************************************************************)
(* Why at most one chunk lands late.  A run that has written one without   *)
(* owning the row no longer owns it (LostStaysLostStep), so by             *)
(* ActiveLeaseIsOwned its next check fails and it never writes again.      *)
(***************************************************************************)
LateInv ==
    \A i \in Invocation :
        /\ late[i] \in {0, 1}
        /\ late[i] = 1 =>
             /\ pc[i] \notin {"idle", "acquire", "busy", "begin", "write"}
             /\ Holding(i) => ~Owns(i)

\* Every step keeps LateInv.
LEMMA LateInvStep ==
  ASSUME OwnersAreUnique, TypeOK, ActiveLeaseIsOwned, LateInv, [Next]_vars
  PROVE  LateInv'
<1> SUFFICES ASSUME NEW i \in Invocation
             PROVE  /\ late'[i] \in {0, 1}
                    /\ late'[i] = 1 =>
                         /\ pc'[i] \notin {"idle", "acquire", "busy", "begin", "write"}
                         /\ Holding(i)' => ~Owns(i)'
  BY DEF LateInv
<1> USE DEF TypeOK, LateInv, Goto, FailWith, Leave, leaseVars, runVars
<1>1. CASE WriteChunk(i)
  <2>1. late[i] = 0
    BY <1>1 DEF WriteChunk
  <2>2. /\ late'[i] = IF Owns(i) THEN 0 ELSE 1
        /\ pc'[i] = "work" /\ lock' = lock
    BY <1>1, <2>1 DEF WriteChunk
  <2>3. QED
    BY <2>2 DEF Owns
<1>2. ASSUME late'[i] = late[i],
             late[i] = 1 => /\ pc'[i] \in HoldingPc => pc[i] \in HoldingPc
                            /\ pc'[i] \notin {"idle", "acquire", "busy", "begin", "write"}
      PROVE  /\ late'[i] \in {0, 1}
             /\ late'[i] = 1 =>
                  /\ pc'[i] \notin {"idle", "acquire", "busy", "begin", "write"}
                  /\ Holding(i)' => ~Owns(i)'
  BY <1>2, LostStaysLostStep DEF Holding
<1>3. CASE CheckChunk(i)
  BY <1>2, <1>3 DEF CheckChunk, AssertActive, Holding, HoldingPc, ActiveLeaseIsOwned
<1>4. CASE Start(i) \/ Grant(i) \/ Busy(i) \/ AcquireFails(i) \/ SkipBusy(i)
  BY <1>2, <1>4 DEF Start, Grant, Busy, AcquireFails, SkipBusy
<1>5. CASE Begin(i) \/ ExecuteThrows(i) \/ ExecuteReturns(i) \/ SaveOutcome(i)
             \/ RaiseWarning(i) \/ SaveFails(i) \/ SaveFailure(i) \/ RaiseFailure(i)
             \/ Stop(i)
  BY <1>2, <1>5 DEF Begin, AssertActive, ExecuteThrows, ExecuteReturns, SaveOutcome,
                    RaiseWarning, WarningNotPersisted, SaveFails, SaveFailure, RaiseFailure, Stop, HoldingPc
<1>6. CASE Release(i) \/ ReleaseFails(i) \/ Crash(i)
  BY <1>2, <1>6 DEF Release, ReleaseFails, Crash, End, HoldingPc, EndedPc
<1>7. CASE Heartbeat(i)
  BY <1>2, <1>7 DEF Heartbeat, RenewStart, Renew, RenewLost, RenewFails
<1>8. ASSUME NEW j \in Invocation \ {i}, Step(j) \/ Heartbeat(j) \/ Crash(j)
      PROVE  late'[i] = late[i] /\ pc'[i] = pc[i]
  BY <1>8 DEF Step, Heartbeat, Crash, Start, Grant, Busy, AcquireFails, SkipBusy, Begin,
              AssertActive, CheckChunk, WriteChunk, ExecuteThrows, ExecuteReturns,
              SaveOutcome, RaiseWarning, WarningNotPersisted, SaveFails, SaveFailure, RaiseFailure, Stop,
              Release, ReleaseFails, End, RenewStart, Renew, RenewLost, RenewFails
<1>9. CASE Tick \/ UNCHANGED vars
  BY <1>2, <1>9 DEF Tick, vars
<1>10. CASE \E j \in Invocation \ {i} : Step(j) \/ Heartbeat(j) \/ Crash(j)
  BY <1>2, <1>8, <1>10
<1>11. QED
  BY <1>1, <1>3, <1>4, <1>5, <1>6, <1>7, <1>9, <1>10 DEF Next, Step

\* The check before every chunk bounds the damage of a lost lease to the one
\* chunk the run had already checked.
THEOREM AtMostOneLateChunk == ASSUME OwnersAreUnique PROVE Spec => []OneLateChunk
<1>1. Init => LateInv
  <2> SUFFICES ASSUME Init, NEW i \in Invocation 
               PROVE  late[i] \in {0, 1} /\ late[i] # 1
    BY DEF LateInv
  <2>1. late[i] = 0
    BY DEF Init
  <2>2. QED
    BY <2>1
<1>2. TypeOK /\ ActiveLeaseIsOwned /\ LateInv /\ [Next]_vars => LateInv'
  BY LateInvStep
<1>3. LateInv => OneLateChunk
  <2> SUFFICES ASSUME LateInv, NEW i \in Invocation PROVE late[i] <= 1
    BY DEF OneLateChunk
  <2>1. late[i] \in {0, 1}
    BY DEF LateInv
  <2>2. QED
    BY <2>1
<1>4. QED
  BY <1>1, <1>2, <1>3, TypeCorrect, ActiveLease, PTL DEF Spec

(***************************************************************************)
(* Why no row is left behind.  Only the run itself takes or renews a row   *)
(* of its owner, and only while it holds; the renewal in flight is over    *)
(* before the row is deleted, so that none comes after the DELETE.         *)
(***************************************************************************)
LeftInv ==
    \A i \in Invocation :
        /\ attempt[i] > 0 => Holding(i) /\ pc[i] # "release"
        /\ Owns(i) => Holding(i) \/ pc[i] = "crashed" \/ i \in faulted

\* Every step keeps LeftInv.
LEMMA LeftInvStep ==
  ASSUME OwnersAreUnique, TypeOK, LeftInv, [Next]_vars
  PROVE  LeftInv'
<1> SUFFICES ASSUME NEW i \in Invocation
             PROVE  /\ attempt'[i] > 0 => pc'[i] \in HoldingPc /\ pc'[i] # "release"
                    /\ Owns(i)' => pc'[i] \in HoldingPc \/ pc'[i] = "crashed"
                                     \/ i \in faulted'
  BY DEF LeftInv, Holding
<1> USE OwnerOfAssumption, LeaseAssumption
    DEF TypeOK, LeftInv, Holding, Owns, Goto, FailWith, Fault, Leave, leaseVars, runVars
<1> DEFINE
      \* A step of run i that ends nothing and leaves the row alone.
      Inside == /\ pc[i] \in HoldingPc /\ pc'[i] \in HoldingPc
                /\ pc'[i] = "release" => attempt'[i] = 0
                /\ attempt'[i] = attempt[i]
                /\ pc[i] # "release"
      \* A step of another run: it can only take the row away from i.
      Aside == /\ pc'[i] = pc[i] /\ attempt'[i] = attempt[i]
               /\ i \in faulted => i \in faulted'
               /\ Owns(i)' => Owns(i)
<1>1. CASE Start(i) \/ Busy(i) \/ SkipBusy(i)
  BY <1>1 DEF Start, Busy, SkipBusy, HoldingPc
<1>2. CASE Grant(i)
  BY <1>2 DEF Grant, HoldingPc
<1>3. CASE AcquireFails(i)
  BY <1>3 DEF AcquireFails, HoldingPc
<1>4. CASE Inside
  BY <1>4
<1>5. CASE Begin(i) \/ CheckChunk(i) \/ WriteChunk(i) \/ ExecuteThrows(i)
             \/ ExecuteReturns(i) \/ SaveOutcome(i) \/ RaiseWarning(i) \/ SaveFails(i)
             \/ SaveFailure(i) \/ RaiseFailure(i) \/ Stop(i)
  <2>1. Inside
    BY <1>5 DEF Begin, AssertActive, CheckChunk, WriteChunk, ExecuteThrows,
                ExecuteReturns, SaveOutcome, RaiseWarning, WarningNotPersisted,
                SaveFails, SaveFailure, RaiseFailure, Stop, HoldingPc
  <2>2. QED
    BY <1>4, <2>1
<1>6. CASE Release(i) \/ ReleaseFails(i)
  BY <1>6 DEF Release, ReleaseFails, Deletable, End
<1>7. CASE Crash(i)
  BY <1>7 DEF Crash
<1>8. CASE RenewStart(i)
  BY <1>8 DEF RenewStart, BeatingPc, HoldingPc
<1>9. CASE Renew(i) \/ RenewLost(i) \/ RenewFails(i)
  BY <1>9 DEF Renew, RenewLost, RenewFails
<1>10. ASSUME NEW j \in Invocation \ {i}, Step(j) \/ Heartbeat(j) \/ Crash(j)
       PROVE  Aside
  <2>1. OwnerOf[j] # OwnerOf[i]
    BY DEF OwnersAreUnique
  <2>2. lock' \in {lock, NoLock, Lease(j)}
    BY <1>10 DEF Step, Heartbeat, Crash, Start, Grant, Busy, AcquireFails, SkipBusy, Begin,
              CheckChunk, WriteChunk, ExecuteThrows, ExecuteReturns, SaveOutcome,
              RaiseWarning, SaveFails, SaveFailure, RaiseFailure, Stop,
              Release, ReleaseFails, RenewStart, Renew, RenewLost, RenewFails
  <2>3. Owns(i)' => Owns(i)
    BY <2>1, <2>2 DEF Lease
  <2>4. pc'[i] = pc[i] /\ attempt'[i] = attempt[i] /\ (i \in faulted => i \in faulted')
    BY <1>10 DEF Step, Heartbeat, Crash, Start, Grant, Busy, AcquireFails, SkipBusy, Begin,
              AssertActive, CheckChunk, WriteChunk, ExecuteThrows, ExecuteReturns,
              SaveOutcome, RaiseWarning, WarningNotPersisted, SaveFails, SaveFailure,
              RaiseFailure, Stop, Release, ReleaseFails, End, RenewStart, Renew,
              RenewLost, RenewFails
  <2>5. QED
    BY <2>3, <2>4
<1>11. CASE Aside
  BY <1>11
<1>12. CASE Tick \/ UNCHANGED vars
  BY <1>12 DEF Tick, vars
<1>13. QED
  BY <1>1, <1>2, <1>3, <1>5, <1>6, <1>7, <1>8, <1>9, <1>10, <1>11, <1>12
     DEF Next, Step, Heartbeat

\* After the finally block a row of the run's owner is left behind only if one
\* of its store calls failed, or the Worker died.
THEOREM LeaseCleanedUp == ASSUME OwnersAreUnique PROVE Spec => []NoLeaseLeftBehind
<1>1. Init => LeftInv
  <2> SUFFICES ASSUME Init, NEW i \in Invocation PROVE ~(attempt[i] > 0) /\ ~Owns(i)
    BY DEF LeftInv
  <2>1. attempt[i] = 0 /\ lock = NoLock
    BY DEF Init
  <2>2. QED
    BY <2>1 DEF Owns
<1>2. TypeOK /\ LeftInv /\ [Next]_vars => LeftInv'
  BY LeftInvStep
<1>3. LeftInv => NoLeaseLeftBehind
  BY DEF LeftInv, NoLeaseLeftBehind, Holding, HoldingPc
<1>4. QED
  BY <1>1, <1>2, <1>3, TypeCorrect, PTL DEF Spec

(***************************************************************************)
(* The log and the alerts.  Course ties the outcome a run carries to the   *)
(* point it stands at, whatever fails; Logged says what the row of a run   *)
(* holds from the statement that saves its outcome to its end.             *)
(***************************************************************************)
Course(i) ==
    /\ pc[i] \in {"idle", "acquire", "busy", "begin", "work", "write"}
          => outcome[i] = "none"
    /\ pc[i] = "save" => outcome[i] \in Result
    /\ pc[i] = "warn" => outcome[i] = "warnings"
    /\ pc[i] \in {"fail", "alert"} => outcome[i] \in Failure
    /\ pc[i] \in {"stop", "release"} => outcome[i] \in Result \cup Failure
    /\ pc[i] = "returned" => outcome[i] \in Result
    /\ pc[i] = "threw" => outcome[i] \in Failure \cup {"none"}

\* sync_runs.status of a run that came to outcome o, none being a busy lock.
StatusOf(o) == CASE o \in {"success", "warnings"} -> "success"
                 [] o = "partial" -> "partial_success"
                 [] o \in {"retryable", "permanent"} -> "failed"
                 [] OTHER -> "skipped"
Logged(i) ==
    pc[i] \in {"warn", "alert", "stop", "release", "returned", "threw"}
        /\ i \notin faulted
      => log[OwnerOf[i]] = StatusOf(outcome[i])

Alerted(i) ==
    pc[i] \in {"stop", "release", "returned"} /\ outcome[i] = "warnings"
      => <<OwnerOf[i], "sync_completed_with_warnings">> \in alerts

\* What another run leaves alone of run i, if their ids differ; without that,
\* the log of their common id is all it can change.
LEMMA OthersKeep ==
  ASSUME NEW i \in Invocation, NEW j \in Invocation \ {i}, TypeOK,
         Step(j) \/ Heartbeat(j) \/ Crash(j)
  PROVE  /\ pc'[i] = pc[i] /\ outcome'[i] = outcome[i]
         /\ i \in faulted <=> i \in faulted'
         /\ alerts \subseteq alerts'
         /\ OwnerOf[i] # OwnerOf[j] => log'[OwnerOf[i]] = log[OwnerOf[i]]
  BY OwnerOfAssumption
     DEF TypeOK, Goto, FailWith, Fault, Leave, leaseVars, runVars,
         Step, Heartbeat, Crash, Start, Grant, Busy, AcquireFails, SkipBusy, Begin,
         AssertActive, CheckChunk, WriteChunk, ExecuteThrows, ExecuteReturns,
         SaveOutcome, RaiseWarning, WarningNotPersisted, SaveFails, SaveFailure,
         RaiseFailure, Stop, Release, ReleaseFails, End, RenewStart, Renew,
         RenewLost, RenewFails

\* Every step keeps the outcome of a run in line with its point, and its alert.
LEMMA CourseStep ==
  ASSUME TypeOK, NEW i \in Invocation, Course(i), Alerted(i), [Next]_vars
  PROVE  Course(i)' /\ Alerted(i)'
<1> USE DEF TypeOK, Course, Alerted, Goto, FailWith, Fault, Leave, leaseVars, runVars,
            Result, Failure
<1>1. CASE Start(i) \/ Grant(i) \/ Busy(i) \/ AcquireFails(i) \/ SkipBusy(i)
  BY <1>1 DEF Start, Grant, Busy, AcquireFails, SkipBusy
<1>2. CASE Begin(i) \/ CheckChunk(i) \/ WriteChunk(i)
  BY <1>2 DEF Begin, AssertActive, CheckChunk, WriteChunk
<1>3. CASE ExecuteThrows(i) \/ ExecuteReturns(i)
  BY <1>3 DEF ExecuteThrows, ExecuteReturns
<1>4. CASE SaveOutcome(i) \/ SaveFails(i)
  BY <1>4 DEF SaveOutcome, SaveFails
<1>5. CASE RaiseWarning(i)
  BY <1>5 DEF RaiseWarning, WarningNotPersisted
<1>6. CASE SaveFailure(i) \/ RaiseFailure(i) \/ Stop(i)
  BY <1>6 DEF SaveFailure, RaiseFailure, Stop
<1>7. CASE Release(i) \/ ReleaseFails(i)
  BY <1>7 DEF Release, ReleaseFails, End
<1>8. CASE Crash(i)
  BY <1>8 DEF Crash
<1>9. CASE Heartbeat(i)
  BY <1>9 DEF Heartbeat, RenewStart, Renew, RenewLost, RenewFails
<1>10. CASE \E j \in Invocation \ {i} : Step(j) \/ Heartbeat(j) \/ Crash(j)
  BY <1>10, OthersKeep
<1>11. CASE Tick \/ UNCHANGED vars
  BY <1>11 DEF Tick, vars
<1>12. QED
  BY <1>1, <1>2, <1>3, <1>4, <1>5, <1>6, <1>7, <1>8, <1>9, <1>10, <1>11 DEF Next, Step

\* With unique ids, every step keeps the log of a run in line with its outcome.
LEMMA LoggedStep ==
  ASSUME OwnersAreUnique, TypeOK, NEW i \in Invocation, Course(i), Logged(i), [Next]_vars
  PROVE  Logged(i)'
<1> USE OwnerOfAssumption
    DEF TypeOK, Course, Logged, StatusOf, Goto, FailWith, Fault, Leave, leaseVars,
        runVars, Result, Failure
<1>1. CASE Start(i) \/ Grant(i) \/ Busy(i) \/ AcquireFails(i)
  BY <1>1 DEF Start, Grant, Busy, AcquireFails
<1>2. CASE SkipBusy(i)
  BY <1>2 DEF SkipBusy
<1>3. CASE Begin(i) \/ CheckChunk(i) \/ WriteChunk(i) \/ ExecuteThrows(i)
             \/ ExecuteReturns(i)
  BY <1>3 DEF Begin, AssertActive, CheckChunk, WriteChunk, ExecuteThrows, ExecuteReturns
<1>4. CASE SaveOutcome(i)
  BY <1>4 DEF SaveOutcome, CompletionStatus
<1>5. CASE RaiseWarning(i) \/ SaveFails(i)
  BY <1>5 DEF RaiseWarning, WarningNotPersisted, SaveFails
<1>6. CASE SaveFailure(i) \/ RaiseFailure(i) \/ Stop(i)
  BY <1>6 DEF SaveFailure, RaiseFailure, Stop
<1>7. CASE Release(i) \/ ReleaseFails(i) \/ Crash(i)
  BY <1>7 DEF Release, ReleaseFails, End, Crash
<1>8. CASE Heartbeat(i)
  BY <1>8 DEF Heartbeat, RenewStart, Renew, RenewLost, RenewFails
<1>9. ASSUME NEW j \in Invocation \ {i}, Step(j) \/ Heartbeat(j) \/ Crash(j)
      PROVE  Logged(i)'
  <2>1. OwnerOf[i] # OwnerOf[j]
    BY DEF OwnersAreUnique
  <2>2. QED
    BY <1>9, <2>1, OthersKeep
<1>10. CASE Tick \/ UNCHANGED vars
  BY <1>10 DEF Tick, vars
<1>11. QED
  BY <1>1, <1>2, <1>3, <1>4, <1>5, <1>6, <1>7, <1>8, <1>9, <1>10 DEF Next, Step

\* A run with warnings that returned, and is acknowledged, has its alert in
\* system_alerts, also when two deliveries share one sync run id.
THEOREM WarningAlerted == Spec => []WarningsAreAlerted
<1> DEFINE Inv == \A i \in Invocation : Course(i) /\ Alerted(i)
<1>1. Init => Inv
  BY DEF Init, Course, Alerted
<1>2. TypeOK /\ Inv /\ [Next]_vars => Inv'
  BY CourseStep
<1>3. Inv => WarningsAreAlerted
  BY DEF Alerted, WarningsAreAlerted
<1>4. QED
  BY <1>1, <1>2, <1>3, TypeCorrect, PTL DEF Spec

\* With unique sync run ids, the row of a run that ended and whose store calls
\* all succeeded tells how it ended.
THEOREM OutcomeLogged == ASSUME OwnersAreUnique PROVE Spec => []LogTellsTheOutcome
<1> DEFINE Inv == \A i \in Invocation : Course(i) /\ Alerted(i) /\ Logged(i)
<1>1. Init => Inv
  BY DEF Init, Course, Alerted, Logged
<1>2. TypeOK /\ Inv /\ [Next]_vars => Inv'
  BY CourseStep, LoggedStep
<1>3. TypeOK /\ Inv => LogTellsTheOutcome
  <2> SUFFICES ASSUME TypeOK, Inv, NEW i \in Invocation,
                      pc[i] \in {"returned", "threw"}, i \notin faulted
               PROVE  LET status == log[OwnerOf[i]] IN
                      /\ status \notin {"none", "running"}
                      /\ outcome[i] \in {"success", "warnings"} <=> status = "success"
                      /\ outcome[i] = "partial" <=> status = "partial_success"
    BY DEF LogTellsTheOutcome
  <2>1. log[OwnerOf[i]] = StatusOf(outcome[i])
    BY DEF Logged
  <2>2. outcome[i] \in Result \cup Failure \cup {"none"}
    BY DEF TypeOK
  <2>3. QED
    BY <2>1, <2>2 DEF StatusOf, Result, Failure
<1>4. QED
  BY <1>1, <1>2, <1>3, TypeCorrect, PTL DEF Spec

(***************************************************************************)
(* The refinement: the row, the heartbeat and the checks are an            *)
(* ExclusiveLease.  ActiveLeaseIsOwned puts the sure among the holders,    *)
(* unique ids leave one holder, and a row is taken over only when nobody   *)
(* is sure (RowTaken).                                                     *)
(***************************************************************************)

\* Where the step of one run takes its stage, and that of no other.
LEMMA StageMoves ==
  ASSUME TypeOK, NEW i \in Invocation, NEW p, Goto(i, p)
  PROVE  Stage' = [Stage EXCEPT ![i] = StageOf(p)]
  BY DEF TypeOK, Goto, Stage, StageOf

\* A step within a stage is none of the lease.
LEMMA StageStays ==
  ASSUME TypeOK, NEW i \in Invocation, NEW p, Goto(i, p), StageOf(p) = StageOf(pc[i])
  PROVE  Stage' = Stage
<1>1. \A j \in Invocation : StageOf(pc'[j]) = StageOf(pc[j])
  BY DEF TypeOK, Goto
<1> QED BY <1>1 DEF Stage

\* A row that was granted is one, and is that of its run.
LEMMA LeaseOwned ==
  ASSUME TypeOK, NEW i \in Invocation
  PROVE  Lease(i) # NoLock /\ Lease(i).owner = OwnerOf[i]
<1>1. issued[i] + LeaseMs # 0
  BY LeaseAssumption DEF TypeOK
<1> QED BY <1>1 DEF Lease, NoLock

\* Unique ids: the owner of the row is the only holder.
LEMMA OneHolder ==
  ASSUME OwnersAreUnique, NEW i \in Invocation, Owns(i)
  PROVE  Holders \subseteq {i}
  BY DEF Holders, Owns, OwnersAreUnique

\* A run that is sure holds.
LEMMA SureHolds ==
  ASSUME ActiveLeaseIsOwned
  PROVE  Sure \subseteq Holders
  BY DEF ActiveLeaseIsOwned, Sure, Holders

\* A row that can be granted to another is one that nobody is sure of.
LEMMA RowTaken ==
  ASSUME OwnersAreUnique, TypeOK, LeaseInv, NEW i \in Invocation,
         ~Holding(i), Grantable(i)
  PROVE  Sure = {}
<1> SUFFICES ASSUME NEW j \in Invocation, Holding(j), Active(j) PROVE FALSE
  BY DEF Sure
<1>1. Owns(j) /\ expiresAt[j] <= lock.expires /\ now < expiresAt[j] /\ issued[i] <= now
  BY DEF LeaseInv, ActiveLeaseIsOwned, Active
<1>2. OwnerOf[i] # OwnerOf[j]
  BY DEF OwnersAreUnique
<1>3. lock.expires <= issued[i]
  BY <1>1, <1>2 DEF Grantable, Owns
<1>4. lock.expires \in Nat /\ now \in Nat /\ issued[i] \in Nat /\ expiresAt[j] \in Nat
  BY DEF TypeOK, LockRow, NoLock
<1> QED BY <1>1, <1>3, <1>4

\* A step that leaves the row and what every run believes of it.
LEMMA SameLease ==
  ASSUME NEW i \in Invocation, NEW p, Goto(i, p), TypeOK, UNCHANGED leaseVars,
         Holding(i), p \in HoldingPc
  PROVE  Holders' = Holders /\ Sure' = Sure
<1>1. \A j \in Invocation : Holding(j)' <=> Holding(j)
  BY DEF TypeOK, Goto, Holding
<1>2. \A j \in Invocation : (Owns(j)' <=> Owns(j)) /\ (Active(j)' <=> Active(j))
  BY DEF leaseVars, Owns, Active
<1> QED BY <1>1, <1>2 DEF Holders, Sure

\* A step of a run that holds, by which no run grows surer.
LEMMA LessSure ==
  ASSUME TypeOK, NEW i \in Invocation, NEW p \in HoldingPc, Goto(i, p), Holding(i),
         UNCHANGED <<now, lock, expiresAt>>,
         \A j \in Invocation : terminal[j] => terminal'[j]
  PROVE  Holders' = Holders /\ Sure' \subseteq Sure
<1>1. \A j \in Invocation : Holding(j)' <=> Holding(j)
  BY DEF TypeOK, Goto, Holding
<1>2. \A j \in Invocation : (Owns(j)' <=> Owns(j)) /\ (Active(j)' => Active(j))
  BY DEF Owns, Active
<1> QED BY <1>1, <1>2 DEF Holders, Sure

\* A run that ends while it does not hold, or that is gone: what the others
\* have is what they had.
LEMMA LeavesOthers ==
  ASSUME TypeOK, NEW i \in Invocation, NEW p \in Pc \ HoldingPc, Leave(i, p),
         UNCHANGED <<now, lock>>
  PROVE  Holders' = Holders \ {i} /\ Sure' = Sure \ {i}
<1>1. \A j \in Invocation \ {i} :
        /\ Holding(j)' <=> Holding(j)
        /\ Owns(j)' <=> Owns(j)
        /\ Active(j)' <=> Active(j)
  BY DEF TypeOK, Leave, Goto, Holding, Owns, Active
<1>2. ~Holding(i)'
  BY DEF TypeOK, Leave, Goto, Holding
<1> QED BY <1>1, <1>2 DEF Holders, Sure

\* A run comes to its end, or nearer to it.
LEMMA Ends ==
  ASSUME OwnersAreUnique, TypeOK, ActiveLeaseIsOwned, ActiveLeaseIsOwned',
         NEW i \in Invocation, NEW p \in Pc, Goto(i, p), StageOf(p) = "over",
         StageOf(pc[i]) # "over",
         \/ Holders' = Holders /\ Sure' \subseteq Sure
         \/ Holders' = Holders \ {i} /\ Sure' = Sure \ {i}
         \/ Holders' = {} /\ Sure \subseteq {i}
  PROVE  Lock!Finish(i)
<1>1. Lock!To(i, "over")
  BY StageMoves DEF Lock!To
<1>2. Stage[i] # "over"
  BY DEF Stage
<1>3. Sure \subseteq Holders /\ Sure' \subseteq Holders'
  BY SureHolds DEF ActiveLeaseIsOwned, Sure, Holders
<1>4. Holders \in {{}, {i}} \/ i \notin Holders
  <2>1. CASE i \in Holders
    <3>1. Owns(i)
      BY <2>1 DEF Holders
    <3> QED BY <2>1, <3>1, OneHolder
  <2> QED BY <2>1
<1>5. Holders' \in {Holders, {}} /\ (Holders' = {} => Sure \subseteq {i})
  BY <1>3, <1>4
<1>6. Sure' \subseteq Sure \cap Holders'
  BY <1>3
<1> QED BY <1>1, <1>2, <1>5, <1>6 DEF Lock!Finish

\* Every step of SyncLease is a step of ExclusiveLease or a stutter.
LEMMA LockStep ==
  ASSUME OwnersAreUnique, TypeOK, LeaseInv, LeaseInv', [Next]_vars
  PROVE  [Lock!Next]_(Lock!vars)
<1> DEFINE Same == Holders' = Holders /\ Sure' = Sure /\ Stage' = Stage
           Kept == Holders' = Holders /\ Stage' = Stage
<1>inv. ActiveLeaseIsOwned /\ ActiveLeaseIsOwned'
  BY DEF LeaseInv
<1>same. ASSUME Same PROVE [Lock!Next]_(Lock!vars)
  BY <1>same DEF Lock!vars
<1>kept. ASSUME Kept PROVE [Lock!Next]_(Lock!vars)
  <2>1. Sure' \subseteq Holders'
    BY <1>inv DEF ActiveLeaseIsOwned, Sure, Holders
  <2>2. Lock!Turn
    BY <1>kept, <2>1 DEF Lock!Turn
  <2> QED BY <2>2 DEF Lock!Next
<1>ends. ASSUME NEW i \in Invocation, Lock!Finish(i) PROVE [Lock!Next]_(Lock!vars)
  BY <1>ends DEF Lock!Next
<1>1. ASSUME NEW i \in Invocation, Start(i) \/ Busy(i) PROVE [Lock!Next]_(Lock!vars)
  <2>1. PICK p \in {"acquire", "busy"} : Goto(i, p)
    BY <1>1 DEF Start, Busy
  <2>2. UNCHANGED <<now, lock, expiresAt, terminal>> /\ StageOf(pc[i]) = "out"
    BY <1>1 DEF Start, Busy, StageOf
  <2>3. \A j \in Invocation : Holding(j)' <=> Holding(j)
    BY <1>1 DEF Start, Busy, TypeOK, Goto, Holding, HoldingPc
  <2>4. Holders' = Holders /\ Sure' = Sure
    BY <2>2, <2>3 DEF Holders, Sure, Owns, Active
  <2>5. Stage' = Stage
    BY <2>1, <2>2, StageStays DEF StageOf
  <2> QED BY <2>4, <2>5, <1>same
<1>2. ASSUME NEW i \in Invocation, Grant(i) PROVE [Lock!Next]_(Lock!vars)
  <2>1. ~Holding(i) /\ Grantable(i) /\ Goto(i, "begin") /\ lock' = Lease(i)
    BY <1>2 DEF Grant, Holding, HoldingPc
  <2>2. Sure = {}
    BY <2>1, RowTaken
  <2>3. Holding(i)' /\ Owns(i)'
    BY <2>1, LeaseOwned DEF TypeOK, Goto, Holding, HoldingPc, Owns
  <2>4. Holders' = {i}
    BY <2>3, OwnersAreUnique DEF Holders, Owns, OwnersAreUnique
  <2>5. Sure' \subseteq {i}
    BY <2>4, <1>inv DEF ActiveLeaseIsOwned, Sure, Holders
  <2>6. Stage[i] = "out" /\ Lock!To(i, "in")
    BY <1>2, <2>1, StageMoves DEF Grant, Stage, StageOf, Lock!To
  <2>7. Lock!Take(i)
    BY <2>2, <2>4, <2>5, <2>6 DEF Lock!Take
  <2> QED BY <2>7 DEF Lock!Next
<1>3. ASSUME NEW i \in Invocation, AcquireFails(i) PROVE [Lock!Next]_(Lock!vars)
  <2>1. ~Holding(i) /\ Leave(i, "threw") /\ now' = now /\ StageOf(pc[i]) = "out"
    BY <1>3 DEF AcquireFails, Holding, HoldingPc, StageOf
  <2>2. "threw" \in Pc \ HoldingPc /\ StageOf("threw") = "over" /\ Goto(i, "threw")
    BY <2>1 DEF Pc, EndedPc, HoldingPc, StageOf, Leave
  <2>3. CASE lock' = lock
    <3>1. Holders' = Holders \ {i} /\ Sure' = Sure \ {i}
      BY <2>1, <2>2, <2>3, LeavesOthers
    <3> QED BY <2>1, <2>2, <3>1, <1>inv, <1>ends, Ends
  <2>4. CASE Grantable(i) /\ lock' = Lease(i)
    <3>1. Sure = {}
      BY <2>1, <2>4, RowTaken
    <3>2. ~Holding(i)' /\ \A j \in Invocation \ {i} : ~Owns(j)'
      BY <2>2, <2>4 DEF TypeOK, Goto, Holding, Owns, Lease, OwnersAreUnique
    <3>3. Holders' = {}
      BY <3>2 DEF Holders
    <3> QED BY <2>1, <2>2, <3>1, <3>3, <1>inv, <1>ends, Ends
  <2> QED BY <1>3, <2>3, <2>4 DEF AcquireFails
<1>4. ASSUME NEW i \in Invocation, SkipBusy(i) \/ Crash(i) PROVE [Lock!Next]_(Lock!vars)
  <2>1. PICK p \in {"threw", "crashed"} : Leave(i, p) /\ UNCHANGED <<now, lock>>
    BY <1>4 DEF SkipBusy, Crash
  <2>2. p \in Pc \ HoldingPc /\ StageOf(p) = "over" /\ Goto(i, p)
    BY <2>1 DEF Pc, EndedPc, HoldingPc, StageOf, Leave
  <2>3. Holders' = Holders \ {i} /\ Sure' = Sure \ {i}
    BY <2>1, <2>2, LeavesOthers
  <2>4. CASE StageOf(pc[i]) # "over"
    BY <2>2, <2>3, <2>4, <1>inv, <1>ends, Ends
  <2>5. CASE StageOf(pc[i]) = "over"
    <3>1. Stage' = Stage
      BY <2>2, <2>5, StageStays
    <3>2. CASE i \in Holders
      <4>1. Holders = {i}
        BY <3>2, OneHolder DEF Holders
      <4>2. Sure \subseteq {i}
        BY <4>1, SureHolds, <1>inv
      <4>3. Lock!Release(i)
        BY <2>3, <2>5, <3>1, <4>1, <4>2 DEF Lock!Release, Stage
      <4> QED BY <4>3 DEF Lock!Next
    <3>3. CASE i \notin Holders
      <4>1. i \notin Sure
        BY <3>3, SureHolds, <1>inv
      <4> QED BY <2>3, <3>1, <3>3, <4>1, <1>same
    <3> QED BY <3>2, <3>3
  <2> QED BY <2>4, <2>5
<1>5. ASSUME NEW i \in Invocation, Begin(i) \/ CheckChunk(i) \/ ExecuteReturns(i)
      PROVE  [Lock!Next]_(Lock!vars)
  <2>0. /\ pc[i] \in {"begin", "work"} /\ Holding(i) /\ Stage[i] = "in"
        /\ StageOf(pc[i]) = "in"
    BY <1>5 DEF Begin, CheckChunk, ExecuteReturns, Holding, HoldingPc, Stage, StageOf
  <2>1. CASE Active(i) /\ UNCHANGED terminal
    <3>1. PICK p \in {"work", "write", "save"} : Goto(i, p)
      BY <1>5, <2>1 DEF Begin, CheckChunk, ExecuteReturns, AssertActive
    <3>2. (p = "work" => Begin(i)) /\ UNCHANGED leaseVars
      BY <1>5, <2>1, <3>1, StageMoves
         DEF Begin, CheckChunk, ExecuteReturns, AssertActive, leaseVars, TypeOK, Goto
    <3>3. Holders' = Holders /\ Sure' = Sure
      BY <2>0, <3>1, <3>2, SameLease DEF HoldingPc
    <3>4. CASE p = "work"
      <4>1. Stage' = Stage
        BY <2>0, <3>1, <3>4, StageStays DEF StageOf
      <4> QED BY <3>3, <4>1, <1>same
    <3>5. CASE p # "work"
      <4>1. Lock!To(i, "cleared")
        BY <3>1, <3>5, StageMoves DEF StageOf, Lock!To
      <4>2. i \in Sure
        BY <2>0, <2>1 DEF Sure
      <4>3. Lock!Check(i)
        BY <2>0, <3>3, <4>1, <4>2 DEF Lock!Check
      <4> QED BY <4>3 DEF Lock!Next
    <3> QED BY <3>4, <3>5
  <2>2. CASE ~Active(i)
    <3>1. /\ Goto(i, "fail") /\ terminal' = [terminal EXCEPT ![i] = TRUE]
          /\ UNCHANGED <<now, lock, expiresAt>>
      BY <1>5, <2>2 DEF Begin, CheckChunk, ExecuteReturns, AssertActive, FailWith
    <3>2. "fail" \in HoldingPc /\ "fail" \in Pc /\ StageOf("fail") = "over"
      BY DEF HoldingPc, Pc, StageOf
    <3>3. \A j \in Invocation : terminal[j] => terminal'[j]
      BY <3>1 DEF TypeOK
    <3>4. Holders' = Holders /\ Sure' \subseteq Sure
      BY <2>0, <3>1, <3>2, <3>3, LessSure
    <3> QED BY <2>0, <3>1, <3>2, <3>4, <1>inv, <1>ends, Ends
  <2> QED BY <1>5, <2>1, <2>2 DEF Begin, CheckChunk, ExecuteReturns, AssertActive
<1>6. ASSUME NEW i \in Invocation, WriteChunk(i) PROVE [Lock!Next]_(Lock!vars)
  <2>1. Holders' = Holders /\ Sure' = Sure
    BY <1>6, SameLease DEF WriteChunk, Holding, HoldingPc
  <2>2. Stage[i] = "cleared" /\ Lock!To(i, "in")
    BY <1>6, StageMoves DEF WriteChunk, Stage, StageOf, Lock!To
  <2>3. Lock!Effect(i)
    BY <2>1, <2>2 DEF Lock!Effect
  <2> QED BY <2>3 DEF Lock!Next
<1>7. ASSUME NEW i \in Invocation,
             ExecuteThrows(i) \/ SaveOutcome(i) \/ RaiseWarning(i) \/ SaveFails(i)
                \/ SaveFailure(i) \/ RaiseFailure(i) \/ Stop(i)
      PROVE  [Lock!Next]_(Lock!vars)
  <2>1. PICK p \in {"fail", "warn", "alert", "stop", "release"} : Goto(i, p)
    BY <1>7 DEF ExecuteThrows, SaveOutcome, RaiseWarning, WarningNotPersisted,
                SaveFails, SaveFailure, RaiseFailure, Stop, FailWith
  <2>2. Holding(i) /\ UNCHANGED leaseVars
    BY <1>7 DEF ExecuteThrows, SaveOutcome, RaiseWarning, SaveFails, SaveFailure,
                RaiseFailure, Stop, Holding, HoldingPc
  <2>3. p \in HoldingPc /\ p \in Pc /\ StageOf(p) = "over"
    BY DEF HoldingPc, Pc, StageOf
  <2>4. Holders' = Holders /\ Sure' = Sure
    BY <2>1, <2>2, <2>3, SameLease
  <2>5. CASE StageOf(pc[i]) # "over"
    BY <2>1, <2>3, <2>4, <2>5, <1>inv, <1>ends, Ends
  <2>6. CASE StageOf(pc[i]) = "over"
    <3>1. Stage' = Stage
      BY <2>1, <2>3, <2>6, StageStays
    <3> QED BY <2>4, <3>1, <1>same
  <2> QED BY <2>5, <2>6
<1>8. ASSUME NEW i \in Invocation, Release(i) \/ ReleaseFails(i)
      PROVE  [Lock!Next]_(Lock!vars)
  <2>1. PICK p \in {"returned", "threw"} : Leave(i, p)
    BY <1>8 DEF Release, ReleaseFails, End
  <2>2. /\ p \in Pc \ HoldingPc /\ StageOf(p) = "over" /\ Goto(i, p)
        /\ StageOf(pc[i]) = "over" /\ now' = now
    BY <1>8, <2>1 DEF Release, ReleaseFails, Pc, EndedPc, HoldingPc, StageOf, Leave
  <2>3. Stage' = Stage
    BY <2>2, StageMoves DEF Stage
  <2>4. Holders' = Holders \ {i} /\ Sure' = Sure \ {i}
    <3>1. CASE lock' = lock
      BY <2>1, <2>2, <3>1, LeavesOthers
    <3>2. CASE Owns(i) /\ lock' = NoLock
      <4>1. Holders' = {} /\ Sure' = {}
        BY <3>2, <1>inv DEF Holders, Owns, Sure, ActiveLeaseIsOwned
      <4>2. Holders \subseteq {i} /\ Sure \subseteq {i}
        BY <3>2, OneHolder, SureHolds, <1>inv
      <4> QED BY <4>1, <4>2
    <3> QED BY <1>8, <3>1, <3>2 DEF Release, ReleaseFails, Deletable
  <2>5. CASE i \in Holders
    <3>1. Holders = {i}
      BY <2>5, OneHolder DEF Holders
    <3>2. Sure \subseteq {i}
      BY <3>1, SureHolds, <1>inv
    <3>3. Lock!Release(i)
      BY <2>2, <2>3, <2>4, <3>1, <3>2 DEF Lock!Release, Stage
    <3> QED BY <3>3 DEF Lock!Next
  <2>6. CASE i \notin Holders
    <3>1. i \notin Sure
      BY <2>6, SureHolds, <1>inv
    <3> QED BY <2>3, <2>4, <2>6, <3>1, <1>same
  <2> QED BY <2>5, <2>6
<1>9. ASSUME NEW i \in Invocation, Heartbeat(i) PROVE [Lock!Next]_(Lock!vars)
  <2>1. pc' = pc /\ (lock' = lock \/ (Owns(i) /\ lock' = Lease(i)))
    BY <1>9 DEF Heartbeat, RenewStart, Renew, RenewLost, RenewFails, Renewable
  <2>2. \A j \in Invocation : Owns(j)' <=> Owns(j)
    BY <2>1, LeaseOwned DEF Owns, OwnersAreUnique
  <2>3. Kept
    BY <2>1, <2>2 DEF Holders, Holding, Stage
  <2> QED BY <2>3, <1>kept
<1>10. CASE Tick \/ UNCHANGED vars
  <2>1. Kept
    BY <1>10 DEF Tick, vars, Holders, Holding, Owns, Stage
  <2> QED BY <2>1, <1>kept
<1> QED BY <1>1, <1>2, <1>3, <1>4, <1>5, <1>6, <1>7, <1>8, <1>9, <1>10 DEF Next, Step

\* With unique sync run ids the lock row, the heartbeat and the check are the
\* lease that the Works, the TikTok driver and the Google Ads processor run
\* under: one holder, never taken from a run whose check would pass, never
\* regained, and one effect at most after it was lost.
THEOREM LeaseImplemented == ASSUME OwnersAreUnique PROVE Spec => ImplementsLease
<1>1. Init => LeaseInv
  BY DEF Init, LeaseInv, ActiveLeaseIsOwned, Holding, HoldingPc
<1>2. TypeOK /\ LeaseInv /\ [Next]_vars => LeaseInv'
  BY LeaseInvStep
<1>3. Init => Lock!Init
  <2> SUFFICES ASSUME Init PROVE Lock!Init
    OBVIOUS
  <2>1. \A i \in Invocation : pc[i] = "idle" /\ ~Holding(i)
    BY DEF Init, Holding, HoldingPc
  <2>2. Holders = {} /\ Sure = {}
    BY <2>1 DEF Holders, Sure
  <2>3. Stage = [i \in Invocation |-> "out"]
    BY <2>1 DEF Stage, StageOf
  <2> QED BY <2>2, <2>3 DEF Lock!Init
<1>4. TypeOK /\ LeaseInv /\ LeaseInv' /\ [Next]_vars => [Lock!Next]_(Lock!vars)
  BY LockStep
<1> QED BY <1>1, <1>2, <1>3, <1>4, TypeCorrect, PTL DEF Spec, ImplementsLease, Lock!Spec
=============================================================================
