------------------------------ MODULE SyncLease ------------------------------
(***************************************************************************)
(* The lease lock that serialises sync runs of one account, and the life   *)
(* of the run that holds it.                                               *)
(*                                                                         *)
(* One row of the D1 table sync_locks (one lock_key) is contended by a set *)
(* of invocations of runReliableSync.  An invocation takes the lease,      *)
(* writes its destination in chunks, each after a check of the lease on    *)
(* its own clock, renews the lease from a timer, records the outcome in    *)
(* sync_runs and releases the lease.  Anything it awaits may fail, with or *)
(* without the effect in D1, and the Worker may die between any two steps. *)
(*                                                                         *)
(* A D1 lock statement carries the time read when it was issued and takes  *)
(* effect later: issuing and executing are separate steps.                 *)
(***************************************************************************)
EXTENDS Naturals

CONSTANTS
    Invocation,     \* the deliveries that call runReliableSync
    Owner,          \* the sync_run_id values: owner_id of the lock row
    OwnerOf,        \* the sync_run_id of each invocation
    LeaseMs,        \* the length of a lease, in ticks
    RenewAttempts,  \* attempts of one renewal before it is given up
    AlertOnRetryableFailure,  \* option of the caller: alert on any failure
    MaxChunk,       \* bound: chunks one run writes
    MaxTime         \* bound: where the clock stops

ASSUME OwnerOfAssumption == OwnerOf \in [Invocation -> Owner]
ASSUME LeaseAssumption == LeaseMs \in Nat \ {0} /\ RenewAttempts \in Nat \ {0}
ASSUME BoundAssumption == MaxChunk \in Nat /\ MaxTime \in Nat
ASSUME AlertAssumption == AlertOnRetryableFailure \in BOOLEAN

VARIABLES
    now,       \* the clock every Worker reads
    lock,      \* the row of sync_locks, or NoLock
    pc,        \* where each invocation stands
    issued,    \* the time carried by its lock statement in flight, else 0
    expiresAt, \* the lease end as the heartbeat knows it
    attempt,   \* attempt number of the renewal in flight; 0: none is
    terminal,  \* TRUE once the heartbeat has a terminal error
    outcome,   \* what the execution of the run came to
    chunks,    \* chunks written so far
    late,      \* chunks that landed when the row was not this run's (history)
    faulted,   \* invocations one of whose store calls failed (history)
    log,       \* sync_runs.status by sync_run_id
    alerts     \* system_alerts: <<sync_run_id, alert_type>>

leaseVars == <<now, lock, issued, expiresAt, attempt, terminal>>
runVars == <<outcome, chunks, late, faulted, log, alerts>>
vars == <<now, lock, pc, issued, expiresAt, attempt, terminal,
          outcome, chunks, late, faulted, log, alerts>>

NoLock == [owner |-> "none", expires |-> 0]
LockRow == [owner: Owner, expires: Nat]

\* Between the grant of the lease and the end of the finally block.
HoldingPc == {"begin", "work", "write", "save", "warn", "fail", "alert",
              "stop", "release"}
\* The heartbeat timer is armed until the finally block calls stop().
BeatingPc == HoldingPc \ {"stop", "release"}
EndedPc == {"returned", "threw", "crashed"}
Pc == {"idle", "acquire", "busy"} \cup HoldingPc \cup EndedPc

Result == {"success", "superseded", "warnings"}
Failure == {"retryable", "permanent", "partial"}
Status == {"none", "running", "success", "skipped", "partial_success", "failed"}
AlertType == {"sync_completed_with_warnings", "sync_failed",
              "sync_partial_write", "sync_lock_release_failed"}

Holding(i) == pc[i] \in HoldingPc
Owns(i) == lock # NoLock /\ lock.owner = OwnerOf[i]
\* Mutant: the check trusts the heartbeat and forgets its own clock.
MutActiveByHeartbeat(i) == ~terminal[i]
\* assertActive(): no terminal error, and the local lease end is ahead.
Active(i) == ~terminal[i] /\ now < expiresAt[i]

Init ==
    /\ now = 0
    /\ lock = NoLock
    /\ pc = [i \in Invocation |-> "idle"]
    /\ issued = [i \in Invocation |-> 0]
    /\ expiresAt = [i \in Invocation |-> 0]
    /\ attempt = [i \in Invocation |-> 0]
    /\ terminal = [i \in Invocation |-> FALSE]
    /\ outcome = [i \in Invocation |-> "none"]
    /\ chunks = [i \in Invocation |-> 0]
    /\ late = [i \in Invocation |-> 0]
    /\ faulted = {}
    /\ log = [o \in Owner |-> "none"]
    /\ alerts = {}

Goto(i, p) == pc' = [pc EXCEPT ![i] = p]
\* The call is over, or the Worker gone: its local variables with it.
Leave(i, p) ==
    /\ Goto(i, p)
    /\ issued' = [issued EXCEPT ![i] = 0]
    /\ expiresAt' = [expiresAt EXCEPT ![i] = 0]
    /\ attempt' = [attempt EXCEPT ![i] = 0]
    /\ terminal' = [terminal EXCEPT ![i] = FALSE]
    /\ chunks' = [chunks EXCEPT ![i] = 0]
FailWith(i, f) == Goto(i, "fail") /\ outcome' = [outcome EXCEPT ![i] = f]
Fault(i) == faulted' = faulted \cup {i}

(***************************************************************************)
(* Acquire.                                                                *)
(***************************************************************************)
\* The call reads the clock and sends the INSERT ... ON CONFLICT.
Start(i) ==
    /\ pc[i] = "idle"
    /\ Goto(i, "acquire")
    /\ issued' = [issued EXCEPT ![i] = now]
    /\ UNCHANGED <<now, lock, expiresAt, attempt, terminal, runVars>>

\* Mutant: the WHERE compares acquired_at, which is always in the past.
MutGrantableByAcquiredAt(i) ==
    lock = NoLock \/ lock.expires <= issued[i] + LeaseMs
\* The WHERE of the upsert: no row, a row expired at the time the statement
\* carries, or a row of the same owner.
Grantable(i) ==
    \/ lock = NoLock
    \/ lock.expires <= issued[i]
    \/ lock.owner = OwnerOf[i]

Lease(i) == [owner |-> OwnerOf[i], expires |-> issued[i] + LeaseMs]

Grant(i) ==
    /\ pc[i] = "acquire"
    /\ Grantable(i)
    /\ lock' = Lease(i)
    /\ expiresAt' = [expiresAt EXCEPT ![i] = issued[i] + LeaseMs]
    /\ issued' = [issued EXCEPT ![i] = 0]
    /\ Goto(i, "begin")
    /\ UNCHANGED <<now, attempt, terminal, runVars>>

Busy(i) ==
    /\ pc[i] = "acquire"
    /\ ~Grantable(i)
    /\ issued' = [issued EXCEPT ![i] = 0]
    /\ Goto(i, "busy")
    /\ UNCHANGED <<now, lock, expiresAt, attempt, terminal, runVars>>

\* D1 fails the call; the statement may have taken effect all the same.
AcquireFails(i) ==
    /\ pc[i] = "acquire"
    /\ \/ UNCHANGED lock
       \/ Grantable(i) /\ lock' = Lease(i)
    /\ Leave(i, "threw")
    /\ Fault(i)
    /\ UNCHANGED <<now, outcome, late, log, alerts>>

\* A busy lock records the run as skipped and throws SYNC_LOCK_BUSY.
SkipBusy(i) ==
    /\ pc[i] = "busy"
    /\ \/ /\ log' = [log EXCEPT ![OwnerOf[i]] = "skipped"]
          /\ UNCHANGED faulted
       \/ UNCHANGED log /\ Fault(i)
    /\ Leave(i, "threw")
    /\ UNCHANGED <<now, lock, outcome, late, alerts>>

(***************************************************************************)
(* The guarded body of the run.                                            *)
(***************************************************************************)
\* assertActive passes or leaves a terminal error and throws.
AssertActive(i, next) ==
    IF Active(i)
    THEN Goto(i, next) /\ UNCHANGED <<terminal, outcome>>
    ELSE FailWith(i, "retryable") /\ terminal' = [terminal EXCEPT ![i] = TRUE]

\* sync_runs becomes 'running', then the first assertActive.
Begin(i) ==
    /\ pc[i] = "begin"
    /\ log' = [log EXCEPT ![OwnerOf[i]] = "running"]
    /\ AssertActive(i, "work")
    /\ UNCHANGED <<now, lock, issued, expiresAt, attempt, chunks, late, faulted, alerts>>

\* Mutant: the lease is checked before the first chunk only.
MutCheckFirstChunkOnly(i) ==
    /\ pc[i] = "work"
    /\ chunks[i] < MaxChunk
    /\ IF chunks[i] = 0 THEN AssertActive(i, "write")
       ELSE Goto(i, "write") /\ UNCHANGED <<terminal, outcome>>
    /\ UNCHANGED <<now, lock, issued, expiresAt, attempt, chunks, late, faulted, log, alerts>>
\* execute() checks the lease before every chunk ...
CheckChunk(i) ==
    /\ pc[i] = "work"
    /\ chunks[i] < MaxChunk
    /\ AssertActive(i, "write")
    /\ UNCHANGED <<now, lock, issued, expiresAt, attempt, chunks, late, faulted, log, alerts>>

\* ... and the chunk lands some time after the check.
WriteChunk(i) ==
    /\ pc[i] = "write"
    /\ chunks' = [chunks EXCEPT ![i] = @ + 1]
    /\ late' = [late EXCEPT ![i] = IF Owns(i) THEN @ ELSE @ + 1]
    /\ Goto(i, "work")
    /\ UNCHANGED <<leaseVars, outcome, faulted, log, alerts>>

\* execute() throws, from a check, a source read or a write.
ExecuteThrows(i) ==
    /\ pc[i] \in {"work", "write"}
    /\ \E f \in Failure : FailWith(i, f)
    /\ UNCHANGED <<leaseVars, chunks, late, faulted, log, alerts>>

\* execute() returns and assertActive is called once more.
ExecuteReturns(i) ==
    /\ pc[i] = "work"
    /\ \E r \in Result :
         IF Active(i)
         THEN /\ Goto(i, "save")
              /\ outcome' = [outcome EXCEPT ![i] = r]
              /\ UNCHANGED terminal
         ELSE /\ FailWith(i, "retryable")
              /\ terminal' = [terminal EXCEPT ![i] = TRUE]
    /\ UNCHANGED <<now, lock, issued, expiresAt, attempt, chunks, late, faulted, log, alerts>>

\* Mutant: a superseded run is recorded like any completed one.
MutCompletionIsSuccess(i) == "success"
CompletionStatus(i) == IF outcome[i] = "superseded" THEN "skipped" ELSE "success"

\* The outcome of a completed run: 'success', or 'skipped' if superseded.
SaveOutcome(i) ==
    /\ pc[i] = "save"
    /\ log' = [log EXCEPT ![OwnerOf[i]] = CompletionStatus(i)]
    /\ Goto(i, IF outcome[i] = "warnings" THEN "warn" ELSE "stop")
    /\ UNCHANGED <<leaseVars, outcome, chunks, late, faulted, alerts>>

\* Mutant: the failure to persist the alert is swallowed.
MutWarningSwallowed(i) == Goto(i, "stop") /\ UNCHANGED outcome
\* The error goes to the queue, which delivers the message again.
WarningNotPersisted(i) == FailWith(i, "retryable")

\* alertOnResultWarnings: the warnings become an alert.  If that, or marking
\* the warning outbox delivered, fails, the run fails after all.
RaiseWarning(i) ==
    /\ pc[i] = "warn"
    /\ \/ /\ alerts' = alerts \cup {<<OwnerOf[i], "sync_completed_with_warnings">>}
          /\ Goto(i, "stop")
          /\ UNCHANGED <<outcome, faulted>>
       \/ /\ \/ UNCHANGED alerts
             \/ alerts' = alerts \cup {<<OwnerOf[i], "sync_completed_with_warnings">>}
          /\ WarningNotPersisted(i)
          /\ Fault(i)
    /\ UNCHANGED <<leaseVars, chunks, late, log>>

\* A store write inside the try block fails, with or without its effect.
SaveFails(i) ==
    /\ pc[i] \in {"begin", "save"}
    /\ \/ UNCHANGED log
       \/ log' = [log EXCEPT ![OwnerOf[i]] =
                    IF pc[i] = "begin" THEN "running" ELSE CompletionStatus(i)]
    /\ FailWith(i, "retryable")
    /\ Fault(i)
    /\ UNCHANGED <<leaseVars, chunks, late, alerts>>

ShouldAlert(i) == outcome[i] # "retryable" \/ AlertOnRetryableFailure

\* The catch block records the failure; if that write throws, the alert is
\* skipped and only the finally block runs.
SaveFailure(i) ==
    /\ pc[i] = "fail"
    /\ \/ /\ log' = [log EXCEPT ![OwnerOf[i]] =
                       IF outcome[i] = "partial" THEN "partial_success" ELSE "failed"]
          /\ Goto(i, IF ShouldAlert(i) THEN "alert" ELSE "stop")
          /\ UNCHANGED faulted
       \/ UNCHANGED log /\ Goto(i, "stop") /\ Fault(i)
    /\ UNCHANGED <<leaseVars, outcome, chunks, late, alerts>>

RaiseFailure(i) ==
    /\ pc[i] = "alert"
    /\ \/ /\ alerts' = alerts \cup
               {<<OwnerOf[i], IF outcome[i] = "partial" THEN "sync_partial_write"
                              ELSE "sync_failed">>}
          /\ UNCHANGED faulted
       \/ UNCHANGED alerts /\ Fault(i)
    /\ Goto(i, "stop")
    /\ UNCHANGED <<leaseVars, outcome, chunks, late, log>>

(***************************************************************************)
(* The heartbeat.                                                          *)
(***************************************************************************)
\* The timer fires: renewNow() reads the clock and sends the UPDATE.
RenewStart(i) ==
    /\ pc[i] \in BeatingPc
    /\ attempt[i] = 0
    /\ ~terminal[i]
    /\ attempt' = [attempt EXCEPT ![i] = 1]
    /\ issued' = [issued EXCEPT ![i] = now]
    /\ UNCHANGED <<now, lock, pc, expiresAt, terminal, runVars>>

\* The WHERE of the UPDATE: this owner, and not expired when it was issued.
Renewable(i) == Owns(i) /\ lock.expires > issued[i]

\* Renewed, unless the new lease is already over when the answer arrives.
Renew(i) ==
    /\ attempt[i] > 0
    /\ Renewable(i)
    /\ lock' = Lease(i)
    /\ expiresAt' = [expiresAt EXCEPT ![i] = issued[i] + LeaseMs]
    /\ terminal' = [terminal EXCEPT ![i] = @ \/ now >= issued[i] + LeaseMs]
    /\ attempt' = [attempt EXCEPT ![i] = 0]
    /\ issued' = [issued EXCEPT ![i] = 0]
    /\ UNCHANGED <<now, pc, runVars>>

\* SYNC_LOCK_LOST: the UPDATE changed no row.
RenewLost(i) ==
    /\ attempt[i] > 0
    /\ ~Renewable(i)
    /\ terminal' = [terminal EXCEPT ![i] = TRUE]
    /\ attempt' = [attempt EXCEPT ![i] = 0]
    /\ issued' = [issued EXCEPT ![i] = 0]
    /\ UNCHANGED <<now, lock, pc, expiresAt, runVars>>

\* Mutant: one attempt too many.
MutOneAttemptMore(i) == attempt[i] <= RenewAttempts
AttemptsLeft(i) == attempt[i] < RenewAttempts

\* D1 fails the UPDATE, with or without its effect.  The next attempt reads
\* the clock again; after the last one the failure is terminal.
RenewFails(i) ==
    /\ attempt[i] > 0
    /\ \/ UNCHANGED lock
       \/ Renewable(i) /\ lock' = Lease(i)
    /\ IF AttemptsLeft(i)
       THEN /\ attempt' = [attempt EXCEPT ![i] = @ + 1]
            /\ issued' = [issued EXCEPT ![i] = now]
            /\ UNCHANGED terminal
       ELSE /\ attempt' = [attempt EXCEPT ![i] = 0]
            /\ issued' = [issued EXCEPT ![i] = 0]
            /\ terminal' = [terminal EXCEPT ![i] = TRUE]
    /\ UNCHANGED <<now, pc, expiresAt, runVars>>

(***************************************************************************)
(* The finally block.                                                      *)
(***************************************************************************)
\* Mutant: stop() waits for a heartbeat that a terminal error has ended.
MutStopAwaitsNextBeat(i) ==
    /\ pc[i] = "stop"
    /\ attempt[i] = 0 /\ ~terminal[i]
    /\ Goto(i, "release")
    /\ UNCHANGED <<leaseVars, runVars>>
\* stop() disarms the timer and awaits the renewal in flight.
Stop(i) ==
    /\ pc[i] = "stop"
    /\ attempt[i] = 0
    /\ Goto(i, "release")
    /\ UNCHANGED <<leaseVars, runVars>>

End(i) == Leave(i, IF outcome[i] \in Result THEN "returned" ELSE "threw")

\* Mutant: a run that lost confidence in its lease does not release it.
MutDeletableWhileActive(i) == Owns(i) /\ Active(i)
\* The WHERE of the DELETE: this owner.
Deletable(i) == Owns(i)

\* The DELETE by owner.  Deleting nothing, or failing, is an alert.
Release(i) ==
    /\ pc[i] = "release"
    /\ IF Deletable(i)
       THEN lock' = NoLock /\ UNCHANGED alerts
       ELSE /\ alerts' = alerts \cup {<<OwnerOf[i], "sync_lock_release_failed">>}
            /\ UNCHANGED lock
    /\ End(i)
    /\ UNCHANGED <<now, outcome, late, faulted, log>>

ReleaseFails(i) ==
    /\ pc[i] = "release"
    /\ \/ UNCHANGED lock
       \/ Deletable(i) /\ lock' = NoLock
    /\ \/ alerts' = alerts \cup {<<OwnerOf[i], "sync_lock_release_failed">>}
       \/ UNCHANGED alerts
    /\ Fault(i)
    /\ End(i)
    /\ UNCHANGED <<now, outcome, late, log>>

(***************************************************************************)
(* The environment.                                                        *)
(***************************************************************************)
\* The Worker is evicted: nothing of the invocation runs again.
Crash(i) ==
    /\ pc[i] \notin EndedPc \cup {"idle"}
    /\ Leave(i, "crashed")
    /\ UNCHANGED <<now, lock, outcome, late, faulted, log, alerts>>

Tick ==
    /\ now < MaxTime
    /\ now' = now + 1
    /\ UNCHANGED <<lock, pc, issued, expiresAt, attempt, terminal, runVars>>

Step(i) ==
    \/ Start(i) \/ Grant(i) \/ Busy(i) \/ AcquireFails(i) \/ SkipBusy(i)
    \/ Begin(i) \/ CheckChunk(i) \/ WriteChunk(i) \/ ExecuteThrows(i)
    \/ ExecuteReturns(i) \/ SaveOutcome(i) \/ RaiseWarning(i) \/ SaveFails(i)
    \/ SaveFailure(i) \/ RaiseFailure(i) \/ Stop(i) \/ Release(i) \/ ReleaseFails(i)

Heartbeat(i) == RenewStart(i) \/ Renew(i) \/ RenewLost(i) \/ RenewFails(i)

Next == Tick \/ \E i \in Invocation : Step(i) \/ Heartbeat(i) \/ Crash(i)

Spec == Init /\ [][Next]_vars

\* An awaited D1 call answers or fails, and a Worker that is not evicted runs
\* its continuation: each invocation's steps, and the answer to a renewal in
\* flight, are weakly fair.  Nothing makes the timer fire or the clock move.
Fairness ==
    \A i \in Invocation :
        /\ WF_vars(Step(i))
        /\ WF_vars(Renew(i) \/ RenewLost(i) \/ RenewFails(i))

FairSpec == Spec /\ Fairness

(***************************************************************************)
(* Properties.                                                             *)
(***************************************************************************)
\* Every variable has its type.
TypeOK ==
    /\ now \in Nat
    /\ lock \in LockRow \cup {NoLock}
    /\ pc \in [Invocation -> Pc]
    /\ issued \in [Invocation -> Nat]
    /\ expiresAt \in [Invocation -> Nat]
    /\ attempt \in [Invocation -> 0..RenewAttempts]
    /\ terminal \in [Invocation -> BOOLEAN]
    /\ outcome \in [Invocation -> Result \cup Failure \cup {"none"}]
    /\ chunks \in [Invocation -> Nat]
    /\ late \in [Invocation -> Nat]
    /\ faulted \subseteq Invocation
    /\ log \in [Owner -> Status]
    /\ alerts \subseteq Owner \X AlertType

\* Sync run ids are drawn by crypto.randomUUID() when the caller gives none.
OwnersAreUnique ==
    \A i, j \in Invocation : OwnerOf[i] = OwnerOf[j] => i = j

\* assertActive never lies: a run whose local check passes owns the row of
\* sync_locks, and the row lasts at least as long as the run believes.
ActiveLeaseIsOwned ==
    \A i \in Invocation :
        Holding(i) /\ Active(i) => Owns(i) /\ expiresAt[i] <= lock.expires

\* Mutual exclusion: the checks of two runs of one account never both pass.
AtMostOneActive ==
    \A i, j \in Invocation :
        Holding(i) /\ Active(i) /\ Holding(j) /\ Active(j) => i = j

\* The check before every chunk bounds the damage of a lost lease: a run
\* writes at most the one chunk it had already checked.
OneLateChunk == \A i \in Invocation : late[i] <= 1

\* No renewal survives the finally block: after a run has ended, a row of its
\* owner is left behind only if a store call failed or the Worker died.
NoLeaseLeftBehind ==
    \A i \in Invocation :
        pc[i] \in {"returned", "threw"} /\ Owns(i) => i \in faulted

\* sync_runs tells the truth about a run that ended and whose store calls all
\* succeeded: success or skipped iff it returned, and never still 'running'.
LogTellsTheOutcome ==
    \A i \in Invocation :
        pc[i] \in {"returned", "threw"} /\ i \notin faulted =>
            LET status == log[OwnerOf[i]] IN
            /\ status \notin {"none", "running"}
            /\ outcome[i] \in {"success", "warnings"} <=> status = "success"
            /\ outcome[i] = "partial" <=> status = "partial_success"

\* A run with reconciliation warnings is not acknowledged until its alert is
\* in system_alerts.
WarningsAreAlerted ==
    \A i \in Invocation :
        pc[i] = "returned" /\ outcome[i] = "warnings" =>
            <<OwnerOf[i], "sync_completed_with_warnings">> \in alerts

\* A lease once lost never comes back to the run that lost it, so the check
\* that ends a run vouches for its whole execution.
LostLeaseStaysLost ==
    [][\A i \in Invocation :
         Holding(i) /\ ~Owns(i) /\ pc'[i] \in HoldingPc => ~Owns(i)']_vars

\* Every run that starts comes to an end: the finally block waits for the
\* renewal in flight, and that wait is over once D1 answers or fails.
EveryRunEnds ==
    \A i \in Invocation : pc[i] = "acquire" ~> pc[i] \in EndedPc

\* The lease the other modules take for granted.  A run is let through by its
\* check before a chunk, and once more before its outcome.
StageOf(p) ==
    CASE p \in {"idle", "acquire", "busy"} -> "out"
      [] p \in {"begin", "work"} -> "in"
      [] p \in {"write", "save"} -> "cleared"
      [] OTHER -> "over"
Stage == [i \in Invocation |-> StageOf(pc[i])]
Holders == {i \in Invocation : Holding(i) /\ Owns(i)}
Sure == {i \in Invocation : Holding(i) /\ Active(i)}
Lock == INSTANCE ExclusiveLease
            WITH Client <- Invocation, holder <- Holders, sure <- Sure, stage <- Stage
\* The row of sync_locks, the heartbeat and assertActive together are a lease
\* that one run holds at a time, that nobody takes from a run whose check would
\* pass, and that a run which lost it never has again.
ImplementsLease == Lock!Spec
=============================================================================
