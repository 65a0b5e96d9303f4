---------------------------- MODULE RunWorkProofs ----------------------------
(***************************************************************************)
(* Proofs about the life of a run's work, in two parts that share no       *)
(* variable: the lease and the rows of a run and of its reruns             *)
(* (RunExecution), for any number of runs, domains, attempts and any lease *)
(* duration, and the worktree from its base to the set proposed for review *)
(* (DiffGate), for any finite set of paths, trees, policy and budget.      *)
(*                                                                         *)
(* The invariant of RunExecution is built in layers.  Base says where a    *)
(* process is in relation to its lease and its row; the other three are    *)
(* each inductive relative to Base and give one safety property each.  The *)
(* part on DiffGate starts with sums over finite sets, which the change    *)
(* budget is made of, and has an introduction of its own.                  *)
(***************************************************************************)
EXTENDS RunExecution, DomainLockProofs, DiffGate, FiniteSetTheorems,
        NaturalsInduction, WellFoundedInduction

\* Between the acquisition and the end of the finally block.
Holding == {"locked", "gated", "work", "commit", "failed", "failCommit",
            "force", "closing"}

\* Between the INSERT and the finally block.
Working == {"work", "commit", "failed", "failCommit", "force"}

HoldsRow ==
    \A r \in Runs : pc[r] \in Holding =>
        /\ handle[r].state = "held"
        /\ locks[handle[r].lockId].domain = task[r].domain

RowComesLater ==
    \A r \in Runs : pc[r] \in {"idle", "ready", "locked", "gated"} => ~Exists(r)

RowCarriesLease ==
    \A r \in Runs : pc[r] \in Working =>
        Exists(r) /\ runs[r].lease = handle[r].lockId

\* A cleanup in flight has read the status of a row.
CleanerSaw == cleaner # CleanerIdle => cleaner.expected # "absent"

Base ==
    /\ LockInv
    /\ ExecTypeOK
    /\ CleanerSaw
    /\ HoldsRow
    /\ RowComesLater
    /\ RowCarriesLease

-----------------------------------------------------------------------------
\* Every step of the composition is a step of the lock, or none.
LEMMA NextIsLockStep ==
    ASSUME ExecTypeOK, [Next]_vars
    PROVE  [LockNext]_lockVars
  <1>1. CASE \E r \in Runs : RunStep(r)
    <2>1. PICK r \in Runs : RunStep(r)
      BY <1>1
    <2>2. CASE Acquire(r)
      <3>1. task[r].domain \in Domains
        BY DEF ExecTypeOK, Task
      <3> QED
        BY <2>2, <3>1 DEF Acquire, LockNext
    <2>3. CASE Teardown(r)
      BY <2>3 DEF Teardown, LockNext
    <2>4. CASE ~Acquire(r) /\ ~Teardown(r)
      BY <2>1, <2>4 DEF RunStep, DupGate, CreateDbRunLog, CreateRunWorkspace,
         CheckLease, CommitWrite, RecoveryCheck, RecoveryFinalize,
         ForceFailFinalize
    <2> QED
      BY <2>2, <2>3, <2>4
  <1>2. CASE LockEnvironment
    BY <1>2, OperatorWantsAssumption DEF LockEnvironment, LockNext
  <1>3. CASE \E r \in Runs : HeartbeatTimer(r) \/ Crash(r)
    BY <1>3 DEF HeartbeatTimer, Crash, LockNext
  <1>4. CASE \/ \E r \in Runs, d \in Domains : PrepareRun(r, d)
             \/ \E r, p \in Runs : PrepareRerun(r, p)
             \/ \E r \in Runs : ResolveFails(r) \/ ThrowOther(r)
             \/ \E r \in Runs, v \in Verdicts : ApplyReviewDecision(r, v)
             \/ \E r \in Runs, force \in CleanupForces : CleanupGate(r, force)
             \/ CleanupRemove
             \/ RecordCleanup
             \/ UNCHANGED vars
    BY <1>4 DEF PrepareRun, PrepareRerun, ResolveFails, ThrowOther,
       ApplyReviewDecision, CleanupGate, CleanupRemove, RecordCleanup, vars
  <1> QED
    BY <1>1, <1>2, <1>3, <1>4 DEF Next

\* What the steps of the other processes do to r's process: nothing.
\* A step that leaves the lock, the rows' identities and the program counters
\* alone keeps Base once the types are right.
Frame ==
    /\ pc' = pc /\ task' = task /\ handle' = handle
    /\ \A r \in Runs : /\ Exists(r)' = Exists(r)
                       /\ runs'[r].lease = runs[r].lease

LEMMA FrameBase ==
    ASSUME Base, LockInv', RowsPersist, ExecTypeOK', CleanerSaw', Frame
    PROVE  Base'
  <1>1. HoldsRow'
    <2> SUFFICES ASSUME NEW r \in Runs, pc[r] \in Holding
                 PROVE  /\ handle[r].state = "held"
                        /\ locks'[handle[r].lockId].domain = task[r].domain
      BY DEF HoldsRow, Frame
    <2>1. handle[r].state = "held" /\ locks[handle[r].lockId].domain = task[r].domain
      BY DEF Base, HoldsRow
    <2>2. handle[r].lockId \in DOMAIN locks
      BY <2>1 DEF Base, LockInv, HandleOwnsRow
    <2> QED
      BY <2>1, <2>2 DEF RowsPersist
  <1>2. RowComesLater'
    BY DEF Base, Frame, RowComesLater
  <1>3. RowCarriesLease'
    BY DEF Base, Frame, RowCarriesLease
  <1> QED
    BY <1>1, <1>2, <1>3 DEF Base

\* Writing a status keeps the rest of the row.
LEMMA StatusWrite ==
    ASSUME ExecTypeOK, NEW r \in Runs, NEW q \in Statuses
    PROVE  LET new == [runs EXCEPT ![r].status = q]
           IN  /\ new \in [Runs -> RunRow]
               /\ new[r].status = q
               /\ \A s \in Runs :
                    /\ s # r => new[s] = runs[s]
                    /\ new[s].domain = runs[s].domain
                    /\ new[s].lease = runs[s].lease
                    /\ new[s].parent = runs[s].parent
                    /\ new[s].attempt = runs[s].attempt
                    /\ new[s].leased = runs[s].leased
    BY DEF ExecTypeOK, RunRow

\* The names of statuses that the operations write.
LEMMA StatusNames ==
    /\ Failed \in Statuses /\ "cleaned" \in Statuses /\ "running" \in Statuses
    /\ "absent" \notin Statuses
    /\ Verdicts \subseteq Statuses /\ WorkflowOutcomes \subseteq Statuses
    /\ Outcomes \subseteq Statuses /\ Statuses \subseteq Writes
    /\ "running" \in Writes
    BY OutcomesAssumption
       DEF Failed, Statuses, Verdicts, WorkflowOutcomes, Writes, InFlight

LEMMA NextWritesTyped ==
    \A m \in Writes : NextWrites(m) \subseteq Writes
    BY OutcomesAssumption
       DEF NextWrites, Writes, Statuses, InFlight, Verdicts, WorkflowOutcomes

\* A step of r's own process: the other processes' state is untouched.
ProcFrame(r) ==
    \A s \in Runs \ {r} :
        /\ pc'[s] = pc[s] /\ task'[s] = task[s] /\ handle'[s] = handle[s]
        /\ Exists(s)' = Exists(s) /\ runs'[s].lease = runs[s].lease

LEMMA ProcBase ==
    ASSUME Base, LockInv', RowsPersist, ExecTypeOK', CleanerSaw',
           NEW r \in Runs, ProcFrame(r),
           pc'[r] \in Holding =>
               /\ handle'[r].state = "held"
               /\ locks'[handle'[r].lockId].domain = task'[r].domain,
           pc'[r] \in {"idle", "ready", "locked", "gated"} => ~Exists(r)',
           pc'[r] \in Working => Exists(r)' /\ runs'[r].lease = handle'[r].lockId
    PROVE  Base'
  <1>1. HoldsRow'
    <2> SUFFICES ASSUME NEW s \in Runs, pc'[s] \in Holding
                 PROVE  /\ handle'[s].state = "held"
                        /\ locks'[handle'[s].lockId].domain = task'[s].domain
      BY DEF HoldsRow
    <2>1. CASE s = r
      BY <2>1
    <2>2. CASE s # r
      <3>1. /\ handle'[s] = handle[s] /\ task'[s] = task[s]
            /\ pc[s] \in Holding
        BY <2>2 DEF ProcFrame
      <3>2. handle[s].state = "held" /\ locks[handle[s].lockId].domain = task[s].domain
        BY <3>1 DEF Base, HoldsRow
      <3>3. handle[s].lockId \in DOMAIN locks
        BY <3>2 DEF Base, LockInv, HandleOwnsRow
      <3> QED
        BY <3>1, <3>2, <3>3 DEF RowsPersist
    <2> QED
      BY <2>1, <2>2
  <1>2. RowComesLater'
    BY DEF Base, ProcFrame, RowComesLater
  <1>3. RowCarriesLease'
    BY DEF Base, ProcFrame, RowCarriesLease
  <1> QED
    BY <1>1, <1>2, <1>3 DEF Base

-----------------------------------------------------------------------------
(* Base is inductive.                                                      *)

\* The types, operation by operation.
LEMMA TypeStep ==
    ASSUME Base, [Next]_vars
    PROVE  ExecTypeOK'
  <1> USE DEF Base
  <1>1. ASSUME NEW r \in Runs, NEW d \in Domains, PrepareRun(r, d)
        PROVE  ExecTypeOK'
    <2>1. [domain |-> d, parent |-> NoRun, attempt |-> 0] \in Task
      BY DEF Task
    <2> QED
      BY <1>1, <2>1 DEF PrepareRun, Goto, ExecTypeOK, PCs
  <1>2. ASSUME NEW r \in Runs, NEW p \in Runs, PrepareRerun(r, p)
        PROVE  ExecTypeOK'
    <2>1. runs[p].domain \in Domains /\ runs[p].attempt + 1 \in Nat
      BY DEF ExecTypeOK, RunRow
    <2>2. [domain |-> runs[p].domain, parent |-> p,
           attempt |-> runs[p].attempt + 1] \in Task
      BY <2>1 DEF Task
    <2> QED
      BY <1>2, <2>2 DEF PrepareRerun, Goto, ExecTypeOK, PCs
  <1>3. ASSUME NEW r \in Runs, Acquire(r) PROVE ExecTypeOK'
    BY <1>3 DEF Acquire, Goto, ExecTypeOK, PCs
  <1>4. ASSUME NEW r \in Runs, DupGate(r) PROVE ExecTypeOK'
    BY <1>4 DEF DupGate, Goto, ExecTypeOK, PCs
  <1>5. ASSUME NEW r \in Runs, ResolveFails(r) PROVE ExecTypeOK'
    BY <1>5 DEF ResolveFails, Goto, ExecTypeOK, PCs
  <1>6. ASSUME NEW r \in Runs, CreateDbRunLog(r) PROVE ExecTypeOK'
    <2>1. /\ task[r].domain \in Domains /\ task[r].parent \in Runs \cup {NoRun}
          /\ task[r].attempt \in Nat /\ handle[r].lockId \in Nat
          /\ LeaseHeld(r, handle[r].lockId) \in BOOLEAN
      BY DEF ExecTypeOK, Task, LockInv, LockTypeOK, Handle, LeaseHeld
    <2>2. [status |-> "running", domain |-> task[r].domain,
           lease |-> handle[r].lockId, parent |-> task[r].parent,
           attempt |-> task[r].attempt,
           leased |-> LeaseHeld(r, handle[r].lockId)] \in RunRow
      BY <2>1, StatusNames DEF RunRow
    <2> QED
      BY <1>6, <2>2 DEF CreateDbRunLog, Goto, ExecTypeOK, PCs
  <1>7. ASSUME NEW r \in Runs, CreateRunWorkspace(r) PROVE ExecTypeOK'
    BY <1>7 DEF CreateRunWorkspace, ExecTypeOK
  <1>8. ASSUME NEW r \in Runs, CheckLease(r) PROVE ExecTypeOK'
    <2>1. \A w \in NextWrites(mem[r]) : w \in Writes
      BY NextWritesTyped DEF ExecTypeOK
    <2> QED
      BY <1>8, <2>1, StatusNames DEF CheckLease, Goto, ExecTypeOK, PCs
  <1>9. ASSUME NEW r \in Runs, CommitWrite(r) PROVE ExecTypeOK'
    <2>1. /\ pending[r] # "run_completed" => pending[r] \in Statuses
          /\ lateWrites' \in [Runs -> Nat]
      BY <1>9 DEF ExecTypeOK, Writes, CommitWrite, CountLate
    <2>2. runs' \in [Runs -> RunRow]
      BY <1>9, <2>1, StatusWrite DEF CommitWrite, ExecTypeOK
    <2>3. /\ mem' \in [Runs -> Writes] /\ pending' \in [Runs -> Writes]
          /\ pc' \in [Runs -> PCs]
      BY <1>9, StatusNames DEF CommitWrite, Goto, ExecTypeOK, PCs
    <2> QED
      BY <1>9, <2>1, <2>2, <2>3 DEF CommitWrite, ExecTypeOK
  <1>10. ASSUME NEW r \in Runs, ThrowOther(r) PROVE ExecTypeOK'
    BY <1>10, StatusNames DEF ThrowOther, Goto, ExecTypeOK, PCs
  <1>11. ASSUME NEW r \in Runs, RecoveryCheck(r) PROVE ExecTypeOK'
    BY <1>11 DEF RecoveryCheck, Goto, ExecTypeOK, PCs
  <1>12. ASSUME NEW r \in Runs, RecoveryFinalize(r) PROVE ExecTypeOK'
    <2>1. runs' \in [Runs -> RunRow] /\ lateWrites' \in [Runs -> Nat]
      BY <1>12, StatusWrite, StatusNames DEF RecoveryFinalize, CountLate, ExecTypeOK
    <2> QED
      BY <1>12, <2>1 DEF RecoveryFinalize, Goto, ExecTypeOK, PCs
  <1>13. ASSUME NEW r \in Runs, ForceFailFinalize(r) PROVE ExecTypeOK'
    <2>1. runs' \in [Runs -> RunRow]
      BY <1>13, StatusWrite, StatusNames DEF ForceFailFinalize, ExecTypeOK
    <2> QED
      BY <1>13, <2>1 DEF ForceFailFinalize, Goto, ExecTypeOK, PCs
  <1>14. ASSUME NEW r \in Runs, Teardown(r) PROVE ExecTypeOK'
    BY <1>14 DEF Teardown, Goto, ExecTypeOK, PCs
  <1>15. ASSUME NEW r \in Runs, HeartbeatTimer(r) PROVE ExecTypeOK'
    BY <1>15 DEF HeartbeatTimer, execVars, ExecTypeOK
  <1>16. ASSUME NEW r \in Runs, Crash(r) PROVE ExecTypeOK'
    BY <1>16 DEF Crash, Goto, ExecTypeOK, PCs
  <1>17. ASSUME NEW r \in Runs, NEW v \in Verdicts, ApplyReviewDecision(r, v)
         PROVE  ExecTypeOK'
    <2>1. runs' \in [Runs -> RunRow]
      BY <1>17, StatusWrite, StatusNames DEF ApplyReviewDecision
    <2> QED
      BY <1>17, <2>1 DEF ApplyReviewDecision, ExecTypeOK
  <1>18. ASSUME NEW r \in Runs, NEW force \in CleanupForces, CleanupGate(r, force)
         PROVE  ExecTypeOK'
    BY <1>18 DEF CleanupGate, ExecTypeOK, RunRow
  <1>19. CASE CleanupRemove
    BY <1>19 DEF CleanupRemove, ExecTypeOK
  <1>20. CASE RecordCleanup
    <2>1. CleanerIdle \in [run: Runs \cup {NoRun}, removed: BOOLEAN,
                           expected: Statuses \cup {"absent"}]
      BY DEF CleanerIdle
    <2>2. CASE cleaner.run \in Runs
      <3>1. runs' \in [Runs -> RunRow]
        BY <1>20, <2>2, StatusWrite, StatusNames DEF RecordCleanup, ExecTypeOK
      <3> QED
        BY <1>20, <2>1, <3>1 DEF RecordCleanup, ExecTypeOK
    <2>3. CASE cleaner.run \notin Runs
      <3>1. [runs EXCEPT ![cleaner.run].status = "cleaned"] = runs
        BY <2>3 DEF ExecTypeOK
      <3> QED
        BY <1>20, <2>1, <3>1 DEF RecordCleanup, ExecTypeOK
    <2> QED
      BY <2>2, <2>3
  <1>21. CASE LockEnvironment
    BY <1>21 DEF LockEnvironment, execVars, ExecTypeOK
  <1>22. CASE UNCHANGED vars
    BY <1>22 DEF vars, execVars, ExecTypeOK
  <1> QED
    BY <1>1, <1>2, <1>3, <1>4, <1>5, <1>6, <1>7, <1>8, <1>9, <1>10, <1>11,
       <1>12, <1>13, <1>14, <1>15, <1>16, <1>17, <1>18, <1>19, <1>20, <1>21,
       <1>22 DEF Next, RunStep

LEMMA CleanerStep ==
    ASSUME Base, [Next]_vars
    PROVE  CleanerSaw'
  <1>1. CASE UNCHANGED cleaner
    BY <1>1 DEF Base, CleanerSaw
  <1>2. ASSUME NEW r \in Runs, NEW force \in CleanupForces, CleanupGate(r, force)
        PROVE  CleanerSaw'
    BY <1>2 DEF CleanupGate, CleanupAllowed, CleanerSaw
  <1>3. CASE CleanupRemove
    BY <1>3 DEF CleanupRemove, CleanerSaw, Base, ExecTypeOK
  <1>4. CASE RecordCleanup
    BY <1>4 DEF RecordCleanup, CleanerSaw
  <1>5. CASE /\ ~(\E r \in Runs, force \in CleanupForces : CleanupGate(r, force))
             /\ ~CleanupRemove /\ ~RecordCleanup
    BY <1>1, <1>5 DEF Next, RunStep, vars, execVars, PrepareRun, PrepareRerun,
       Acquire, DupGate, ResolveFails, CreateDbRunLog, CreateRunWorkspace,
       CheckLease, CommitWrite, ThrowOther, RecoveryCheck, RecoveryFinalize,
       ForceFailFinalize, Teardown, HeartbeatTimer, Crash, ApplyReviewDecision,
       LockEnvironment
  <1> QED
    BY <1>2, <1>3, <1>4, <1>5

LEMMA BaseStep ==
    ASSUME Base, [Next]_vars
    PROVE  Base' /\ RowsPersist /\ EndedRowsStay
  <1>1. LockInv' /\ RowsPersist /\ EndedRowsStay
    BY NextIsLockStep, LockStep DEF Base
  <1>2. ExecTypeOK' /\ CleanerSaw'
    BY TypeStep, CleanerStep
  <1>3. ExecTypeOK /\ LockInv /\ HoldsRow /\ RowComesLater /\ RowCarriesLease
    BY DEF Base
  <1>4. pc \in [Runs -> PCs] /\ task \in [Runs -> Task] /\ runs \in [Runs -> RunRow]
    BY <1>3 DEF ExecTypeOK
  <1>5. ASSUME NEW r \in Runs, NEW d \in Domains, PrepareRun(r, d)
        PROVE  Base'
    <2>1. ProcFrame(r) /\ pc'[r] = "ready" /\ ~Exists(r)'
      BY <1>3, <1>4, <1>5
         DEF PrepareRun, Goto, ProcFrame, Exists, RowComesLater, lockVars
    <2> QED
      BY <1>1, <1>2, <2>1, ProcBase DEF Holding, Working
  <1>6. ASSUME NEW r \in Runs, NEW p \in Runs, PrepareRerun(r, p)
        PROVE  Base'
    <2>1. ProcFrame(r) /\ pc'[r] = "ready" /\ ~Exists(r)'
      BY <1>3, <1>4, <1>6
         DEF PrepareRerun, Goto, ProcFrame, Exists, RowComesLater, lockVars
    <2> QED
      BY <1>1, <1>2, <2>1, ProcBase DEF Holding, Working
  <1>7. ASSUME NEW r \in Runs, Acquire(r) PROVE Base'
    <2>1. /\ ~Exists(r)' /\ runs' = runs /\ task' = task
          /\ \A s \in Runs : s # r => pc'[s] = pc[s]
      BY <1>3, <1>4, <1>7 DEF Acquire, Goto, Exists, RowComesLater
    <2>2. CASE AcquireDomainLock(r, task[r].domain) /\ Goto(r, "locked")
      <3>1. /\ pc'[r] = "locked" /\ task[r].domain \in Domains
            /\ handle'[r] = [lockId |-> Len(locks) + 1, state |-> "held"]
            /\ \A s \in Runs : s # r => handle'[s] = handle[s]
        BY <1>3, <1>4, <2>2
           DEF Goto, AcquireDomainLock, Task, LockInv, LockTypeOK
      <3>2. locks'[Len(locks) + 1].domain = task[r].domain
        <4>1. locks'[Len(locks) + 1] = NewRow(r, task[r].domain)
          BY <1>3, <2>2, <3>1, AcquireRows DEF LockInv
        <4> QED
          BY <4>1 DEF NewRow
      <3>3. ProcFrame(r)
        BY <2>1, <3>1 DEF ProcFrame, Exists
      <3> QED
        BY <1>1, <1>2, <2>1, <3>1, <3>2, <3>3, ProcBase DEF Working
    <2>3. CASE AcquireBusy(r, task[r].domain) /\ Goto(r, "done")
      <3>1. /\ pc'[r] = "done"
            /\ \A s \in Runs : s # r => handle'[s] = handle[s]
        BY <1>3, <1>4, <2>3 DEF Goto, AcquireBusy, LockInv, LockTypeOK
      <3>2. ProcFrame(r)
        BY <2>1, <3>1 DEF ProcFrame, Exists
      <3> QED
        BY <1>1, <1>2, <3>1, <3>2, ProcBase DEF Working, Holding
    <2> QED
      BY <1>7, <2>2, <2>3 DEF Acquire
  <1>8. ASSUME NEW r \in Runs, DupGate(r) \/ ResolveFails(r) PROVE Base'
    <2>1. /\ ProcFrame(r) /\ pc[r] \in {"locked", "gated"}
          /\ pc'[r] \in {"gated", "closing"}
          /\ UNCHANGED <<locks, handle, task, runs>>
      BY <1>3, <1>4, <1>8
         DEF DupGate, ResolveFails, Goto, ProcFrame, Exists, lockVars
    <2> QED
      BY <1>1, <1>2, <1>3, <2>1, ProcBase
         DEF Holding, Working, HoldsRow, RowComesLater, Exists
  <1>9. ASSUME NEW r \in Runs, CreateDbRunLog(r) PROVE Base'
    <2>1. /\ pc[r] = "gated" /\ pc'[r] \in {"work", "closing"}
          /\ \A s \in Runs : s # r => pc'[s] = pc[s] /\ runs'[s] = runs[s]
          /\ runs'[r].status = "running" /\ runs'[r].lease = handle[r].lockId
          /\ UNCHANGED <<locks, handle, task>>
      BY <1>3, <1>4, <1>9 DEF CreateDbRunLog, Goto, lockVars
    <2>2. ProcFrame(r) /\ Exists(r)'
      BY <2>1 DEF ProcFrame, Exists
    <2> QED
      BY <1>1, <1>2, <1>3, <2>1, <2>2, ProcBase DEF Holding, HoldsRow
  <1>10. ASSUME NEW r \in Runs, CheckLease(r) \/ ThrowOther(r) \/ RecoveryCheck(r)
         PROVE  Base'
    <2>1. /\ pc[r] \in Working /\ pc'[r] \in Working
          /\ \A s \in Runs : s # r => pc'[s] = pc[s]
          /\ UNCHANGED <<locks, handle, task, runs>>
      BY <1>3, <1>4, <1>10
         DEF CheckLease, ThrowOther, RecoveryCheck, Goto, Working, lockVars
    <2>2. ProcFrame(r)
      BY <2>1 DEF ProcFrame, Exists
    <2> QED
      BY <1>1, <1>2, <1>3, <2>1, <2>2, ProcBase
         DEF Working, Holding, HoldsRow, RowCarriesLease, Exists
  <1>11. ASSUME NEW r \in Runs,
                CommitWrite(r) \/ RecoveryFinalize(r) \/ ForceFailFinalize(r)
         PROVE  Base'
    <2>1. /\ pc[r] \in Working /\ pc'[r] \in Working \cup {"closing"}
          /\ \A s \in Runs : s # r => pc'[s] = pc[s]
          /\ UNCHANGED <<locks, handle, task>>
      BY <1>3, <1>4, <1>11
         DEF CommitWrite, RecoveryFinalize, ForceFailFinalize, Goto, Working, lockVars
    <2>2. \/ runs' = runs
          \/ \E q \in Statuses : runs' = [runs EXCEPT ![r].status = q]
      <3>1. pending[r] # "run_completed" => pending[r] \in Statuses
        BY <1>3 DEF ExecTypeOK, Writes
      <3> QED
        BY <1>11, <3>1, StatusNames DEF CommitWrite, RecoveryFinalize, ForceFailFinalize
    <2>3. /\ \A s \in Runs : s # r => runs'[s] = runs[s]
          /\ runs'[r].lease = runs[r].lease /\ Exists(r)'
      <3>1. Exists(r)
        BY <1>3, <2>1 DEF RowCarriesLease
      <3>2. CASE runs' = runs
        BY <3>1, <3>2 DEF Exists
      <3>3. CASE \E q \in Statuses : runs' = [runs EXCEPT ![r].status = q]
        <4>1. PICK q \in Statuses : runs' = [runs EXCEPT ![r].status = q]
          BY <3>3
        <4>2. /\ runs'[r].status = q /\ runs'[r].lease = runs[r].lease
              /\ \A s \in Runs : s # r => runs'[s] = runs[s]
          <5>1. runs \in [Runs -> RunRow]
            BY <1>3 DEF ExecTypeOK
          <5> QED
            BY ONLY <5>1, <4>1, r \in Runs DEF RunRow
        <4> QED
          BY <4>2, StatusNames DEF Exists
      <3> QED
        BY <2>2, <3>2, <3>3
    <2>4. ProcFrame(r)
      BY <2>1, <2>3 DEF ProcFrame, Exists
    <2> QED
      BY <1>1, <1>2, <1>3, <2>1, <2>3, <2>4, ProcBase
         DEF Working, Holding, HoldsRow, RowCarriesLease
  <1>12. ASSUME NEW r \in Runs, Teardown(r) \/ Crash(r) PROVE Base'
    <2>1. /\ pc'[r] \in {"done", "crashed"}
          /\ \A s \in Runs : s # r => pc'[s] = pc[s] /\ handle'[s] = handle[s]
          /\ UNCHANGED <<task, runs>>
      BY <1>3, <1>4, <1>12
         DEF Teardown, Crash, Goto, ReleaseLock, CrashHolder, LockInv, LockTypeOK
    <2>2. ProcFrame(r)
      BY <2>1 DEF ProcFrame, Exists
    <2> QED
      BY <1>1, <1>2, <2>1, <2>2, ProcBase DEF Working, Holding
  <1>13. CASE \/ \E r \in Runs : CreateRunWorkspace(r) \/ HeartbeatTimer(r)
              \/ \E r \in Runs, force \in CleanupForces : CleanupGate(r, force)
              \/ CleanupRemove
              \/ LockEnvironment
              \/ UNCHANGED vars
    <2>1. UNCHANGED <<pc, task, handle, runs>>
      BY <1>13 DEF CreateRunWorkspace, HeartbeatTimer, Heartbeat, CleanupGate,
         CleanupRemove, LockEnvironment, OperatorFind, OperatorRelease, Tick,
         vars, lockVars, execVars
    <2>2. Frame
      BY <2>1 DEF Frame, Exists
    <2> QED
      BY <1>1, <1>2, <2>2, FrameBase
  <1>14. ASSUME NEW r \in Runs, NEW q \in Statuses, Exists(r),
                runs' = [runs EXCEPT ![r].status = q],
                UNCHANGED <<pc, task, handle>>
         PROVE  Base'
    <2>1. Frame
      BY <1>3, <1>14, StatusWrite, StatusNames DEF Frame, Exists
    <2> QED
      BY <1>1, <1>2, <2>1, FrameBase
  <1>15. ASSUME NEW r \in Runs, NEW v \in Verdicts, ApplyReviewDecision(r, v)
         PROVE  Base'
    BY <1>14, <1>15, StatusNames DEF ApplyReviewDecision, Exists, lockVars
  <1>16. CASE RecordCleanup
    <2>1. UNCHANGED <<pc, task, handle>>
      BY <1>16 DEF RecordCleanup, lockVars
    <2>2. CASE runs' = runs
      <3>1. Frame
        BY <2>1, <2>2 DEF Frame, Exists
      <3> QED
        BY <1>1, <1>2, <3>1, FrameBase
    <2>3. CASE runs' # runs
      <3>1. /\ runs' = [runs EXCEPT ![cleaner.run].status = "cleaned"]
            /\ cleaner.run \in Runs /\ runs[cleaner.run].status = cleaner.expected
        BY <1>4, <1>16, <2>3 DEF RecordCleanup
      <3>2. cleaner # CleanerIdle
        BY <1>16 DEF RecordCleanup, CleanerIdle
      <3>3. Exists(cleaner.run)
        BY <3>1, <3>2 DEF Base, CleanerSaw, Exists
      <3> QED
        BY <1>1, <1>14, <2>1, <3>1, <3>3, StatusNames
    <2> QED
      BY <2>2, <2>3
  <1> QED
    BY <1>1, <1>5, <1>6, <1>7, <1>8, <1>9, <1>10, <1>11, <1>12, <1>13, <1>15,
       <1>16 DEF Next, RunStep

-----------------------------------------------------------------------------
(* How a step may change rows, tasks and gates.                            *)

SameRow(r) ==
    /\ Exists(r)'
    /\ runs'[r].domain = runs[r].domain /\ runs'[r].lease = runs[r].lease
    /\ runs'[r].parent = runs[r].parent /\ runs'[r].leased = runs[r].leased

LEMMA RowsOnlyGrow ==
    ASSUME Base, [Next]_vars
    PROVE  \A r \in Runs :
             /\ Exists(r) => SameRow(r)
             /\ Exists(r)' => Exists(r) \/ CreateDbRunLog(r)
  <1> DEFINE Grow == \A r \in Runs :
                       /\ Exists(r) => SameRow(r)
                       /\ Exists(r)' => Exists(r) \/ CreateDbRunLog(r)
  <1>1. /\ runs \in [Runs -> RunRow] /\ ExecTypeOK /\ pending \in [Runs -> Writes]
    BY DEF Base, ExecTypeOK
  <1>2. CASE runs' = runs
    BY <1>2 DEF SameRow, Exists
  <1>3. ASSUME NEW r \in Runs, NEW q \in Statuses, Exists(r),
               runs' = [runs EXCEPT ![r].status = q]
        PROVE  Grow
    BY <1>1, <1>3, StatusWrite, StatusNames DEF SameRow, Exists
  <1>4. ASSUME NEW r \in Runs, CreateDbRunLog(r) PROVE Grow
    <2>1. ~Exists(r)
      BY <1>4 DEF Base, RowComesLater, CreateDbRunLog
    <2>2. \A s \in Runs : s # r => runs'[s] = runs[s]
      BY <1>1, <1>4 DEF CreateDbRunLog
    <2> QED
      BY <1>4, <2>1, <2>2 DEF SameRow, Exists
  <1>5. ASSUME NEW r \in Runs,
               CommitWrite(r) \/ RecoveryFinalize(r) \/ ForceFailFinalize(r)
        PROVE  Grow
    <2>1. Exists(r)
      BY <1>5 DEF Base, RowCarriesLease, Working, CommitWrite, RecoveryFinalize,
         ForceFailFinalize
    <2>2. \/ runs' = runs
          \/ \E q \in Statuses : runs' = [runs EXCEPT ![r].status = q]
      <3>1. pending[r] # "run_completed" => pending[r] \in Statuses
        BY <1>1 DEF Writes
      <3> QED
        BY <1>5, <3>1, StatusNames DEF CommitWrite, RecoveryFinalize, ForceFailFinalize
    <2> QED
      BY <1>2, <1>3, <2>1, <2>2
  <1>6. ASSUME NEW r \in Runs, NEW v \in Verdicts, ApplyReviewDecision(r, v)
        PROVE  Grow
    BY <1>3, <1>6, StatusNames DEF ApplyReviewDecision, Exists
  <1>7. CASE RecordCleanup /\ runs' # runs
    <2>1. /\ runs' = [runs EXCEPT ![cleaner.run].status = "cleaned"]
          /\ cleaner.run \in Runs /\ runs[cleaner.run].status = cleaner.expected
          /\ cleaner # CleanerIdle
      BY <1>1, <1>7 DEF RecordCleanup, CleanerIdle
    <2>2. Exists(cleaner.run)
      BY <2>1 DEF Base, CleanerSaw, Exists
    <2> QED
      BY <1>3, <2>1, <2>2, StatusNames
  <1>8. CASE /\ ~RecordCleanup
             /\ ~(\E r \in Runs, v \in Verdicts : ApplyReviewDecision(r, v))
             /\ ~(\E r \in Runs : \/ CommitWrite(r) \/ RecoveryFinalize(r)
                                  \/ ForceFailFinalize(r) \/ CreateDbRunLog(r))
    <2>1. runs' = runs
      BY <1>8 DEF Next, RunStep, vars, execVars, PrepareRun, PrepareRerun,
         Acquire, DupGate, ResolveFails, CreateRunWorkspace, CheckLease,
         ThrowOther, RecoveryCheck, Teardown, HeartbeatTimer, Crash, CleanupGate,
         CleanupRemove, LockEnvironment
    <2> QED
      BY <1>2, <2>1
  <1> QED
    BY <1>2, <1>4, <1>5, <1>6, <1>7, <1>8

LEMMA TaskSteps ==
    ASSUME Base, [Next]_vars, NEW r \in Runs
    PROVE  \/ task'[r] = task[r]
           \/ \E d \in Domains : PrepareRun(r, d)
           \/ \E p \in Runs : PrepareRerun(r, p)
  <1>1. task \in [Runs -> Task]
    BY DEF Base, ExecTypeOK
  <1>2. ASSUME NEW s \in Runs, s # r,
               \/ \E d \in Domains : PrepareRun(s, d)
               \/ \E p \in Runs : PrepareRerun(s, p)
        PROVE  task'[r] = task[r]
    BY <1>1, <1>2 DEF PrepareRun, PrepareRerun
  <1>3. CASE /\ ~(\E s \in Runs, d \in Domains : PrepareRun(s, d))
             /\ ~(\E s, p \in Runs : PrepareRerun(s, p))
    BY <1>3 DEF Next, RunStep, vars, execVars, Acquire, DupGate, ResolveFails,
       CreateDbRunLog, CreateRunWorkspace, CheckLease, CommitWrite, ThrowOther,
       RecoveryCheck, RecoveryFinalize, ForceFailFinalize, Teardown,
       HeartbeatTimer, Crash, ApplyReviewDecision, CleanupGate, CleanupRemove,
       RecordCleanup, LockEnvironment
  <1> QED
    BY <1>2, <1>3

\* A process stands at the gate because it stood there already or because it
\* has just found no child.
LEMMA GateSteps ==
    ASSUME Base, [Next]_vars, NEW r \in Runs, pc'[r] = "gated"
    PROVE  \/ pc[r] = "gated" /\ handle'[r] = handle[r] /\ task'[r] = task[r]
           \/ DupGate(r)
  <1>1. /\ task \in [Runs -> Task] /\ pc \in [Runs -> PCs]
        /\ handle \in [Runs -> Handle]
    BY DEF Base, ExecTypeOK, LockInv, LockTypeOK
  <1>2. ASSUME NEW s \in Runs, \E d \in Domains : PrepareRun(s, d)
        PROVE  pc[r] = "gated" /\ handle'[r] = handle[r] /\ task'[r] = task[r]
    BY <1>1, <1>2 DEF PrepareRun, Goto, lockVars
  <1>3. ASSUME NEW s \in Runs, \E p \in Runs : PrepareRerun(s, p)
        PROVE  pc[r] = "gated" /\ handle'[r] = handle[r] /\ task'[r] = task[r]
    BY <1>1, <1>3 DEF PrepareRerun, Goto, lockVars
  <1>4. ASSUME NEW s \in Runs, Acquire(s)
        PROVE  pc[r] = "gated" /\ handle'[r] = handle[r] /\ task'[r] = task[r]
    BY <1>1, <1>4 DEF Acquire, AcquireDomainLock, AcquireBusy, Goto
  <1>5. ASSUME NEW s \in Runs, Teardown(s) \/ Crash(s)
        PROVE  pc[r] = "gated" /\ handle'[r] = handle[r] /\ task'[r] = task[r]
    BY <1>1, <1>5 DEF Teardown, Crash, ReleaseLock, CrashHolder, Goto
  <1>6. ASSUME NEW s \in Runs, DupGate(s)
        PROVE  \/ pc[r] = "gated" /\ handle'[r] = handle[r] /\ task'[r] = task[r]
               \/ DupGate(r)
    BY <1>1, <1>6 DEF DupGate, Goto, lockVars
  <1>7. ASSUME NEW s \in Runs,
               \/ ResolveFails(s) \/ CreateDbRunLog(s) \/ CheckLease(s)
               \/ CommitWrite(s) \/ ThrowOther(s) \/ RecoveryCheck(s)
               \/ RecoveryFinalize(s) \/ ForceFailFinalize(s)
        PROVE  pc[r] = "gated" /\ handle'[r] = handle[r] /\ task'[r] = task[r]
    BY <1>1, <1>7 DEF ResolveFails, CreateDbRunLog, CheckLease, CommitWrite,
       ThrowOther, RecoveryCheck, RecoveryFinalize, ForceFailFinalize, Goto, lockVars
  <1>8. CASE UNCHANGED <<pc, handle, task>>
    BY <1>8
  <1>9. CASE \/ \E s \in Runs : CreateRunWorkspace(s) \/ HeartbeatTimer(s)
             \/ \E s \in Runs, v \in Verdicts : ApplyReviewDecision(s, v)
             \/ \E s \in Runs, force \in CleanupForces : CleanupGate(s, force)
             \/ CleanupRemove \/ RecordCleanup \/ LockEnvironment
             \/ UNCHANGED vars
    BY <1>8, <1>9 DEF CreateRunWorkspace, HeartbeatTimer, Heartbeat,
       ApplyReviewDecision, CleanupGate, CleanupRemove, RecordCleanup,
       LockEnvironment, OperatorFind, OperatorRelease, Tick, lockVars, execVars, vars
  <1> QED
    BY <1>2, <1>3, <1>4, <1>5, <1>6, <1>7, <1>9 DEF Next, RunStep

-----------------------------------------------------------------------------
(* One leased child per parent.                                            *)

\* A rerun works in its parent's domain, so it competes for the same lease.
TaskInParentsDomain ==
    \A r \in Runs : task[r].parent # NoRun =>
        /\ Exists(task[r].parent)
        /\ task[r].domain = runs[task[r].parent].domain

ChildInParentsDomain ==
    \A c \in Runs : (Exists(c) /\ runs[c].parent # NoRun) =>
        /\ Exists(runs[c].parent)
        /\ runs[c].domain = runs[runs[c].parent].domain

LeasedRow ==
    \A c \in Runs : (Exists(c) /\ runs[c].leased) =>
        /\ runs[c].lease \in DOMAIN locks
        /\ locks[runs[c].lease].domain = runs[c].domain

\* A sibling that was inserted under its lease since r passed the gate holds
\* a higher fencing token than r.
GateOrder ==
    \A r, c \in Runs :
        ( /\ pc[r] = "gated" /\ task[r].parent # NoRun
          /\ Exists(c) /\ runs[c].parent = task[r].parent /\ runs[c].leased )
        => handle[r].lockId < runs[c].lease

RerunInv ==
    /\ TaskInParentsDomain
    /\ ChildInParentsDomain
    /\ LeasedRow
    /\ GateOrder
    /\ OneLeasedChild

LEMMA RerunStep ==
    ASSUME Base, RerunInv, [Next]_vars
    PROVE  RerunInv'
  <1>1. Base' /\ RowsPersist
    BY BaseStep
  <1>2. \A r \in Runs : /\ Exists(r) => SameRow(r)
                        /\ Exists(r)' => Exists(r) \/ CreateDbRunLog(r)
    BY RowsOnlyGrow
  <1>3. /\ task \in [Runs -> Task] /\ task' \in [Runs -> Task]
        /\ runs \in [Runs -> RunRow] /\ locks \in Seq(Row) /\ locks' \in Seq(Row)
        /\ DOMAIN locks \subseteq DOMAIN locks'
        /\ DOMAIN locks = 1..Len(locks)
    BY <1>1 DEF Base, ExecTypeOK, LockInv, LockTypeOK, RowsPersist
  <1>4. \A r \in Runs : /\ task[r].parent \in Runs \cup {NoRun}
                        /\ task'[r].parent \in Runs \cup {NoRun}
                        /\ runs[r].parent \in Runs \cup {NoRun}
    BY <1>3 DEF Task, RunRow
  \* What an INSERT does.
  <1>5. ASSUME NEW c \in Runs, CreateDbRunLog(c)
        PROVE  /\ ~Exists(c) /\ pc[c] = "gated" /\ task' = task
               /\ handle' = handle /\ locks' = locks
               /\ runs'[c].domain = task[c].domain
               /\ runs'[c].lease = handle[c].lockId
               /\ runs'[c].parent = task[c].parent
               /\ runs'[c].leased <=> LeaseHeld(c, handle[c].lockId)
               /\ handle[c].lockId \in DOMAIN locks
               /\ locks[handle[c].lockId].holder = c
               /\ locks[handle[c].lockId].domain = task[c].domain
    <2>1. pc[c] = "gated"
      BY <1>5 DEF CreateDbRunLog
    <2>2. ~Exists(c) /\ handle[c].state = "held"
          /\ locks[handle[c].lockId].domain = task[c].domain
      BY <2>1 DEF Base, RowComesLater, HoldsRow, Holding
    <2>3. handle[c].lockId \in DOMAIN locks /\ locks[handle[c].lockId].holder = c
      BY <2>2 DEF Base, LockInv, HandleOwnsRow
    <2>4. runs'[c] = [status |-> "running", domain |-> task[c].domain,
                      lease |-> handle[c].lockId, parent |-> task[c].parent,
                      attempt |-> task[c].attempt,
                      leased |-> LeaseHeld(c, handle[c].lockId)]
      BY <1>3, <1>5 DEF CreateDbRunLog
    <2> QED
      BY <1>5, <2>1, <2>2, <2>3, <2>4 DEF CreateDbRunLog, lockVars
  <1>6. TaskInParentsDomain'
    <2> SUFFICES ASSUME NEW r \in Runs, task'[r].parent # NoRun
                 PROVE  /\ runs'[task'[r].parent].status # "absent"
                        /\ task'[r].domain = runs'[task'[r].parent].domain
      BY DEF TaskInParentsDomain, Exists
    <2>1. CASE task'[r] = task[r]
      <3>1. task[r].parent \in Runs /\ Exists(task[r].parent)
            /\ task[r].domain = runs[task[r].parent].domain
        BY <1>4, <2>1 DEF RerunInv, TaskInParentsDomain
      <3> QED
        BY <1>2, <2>1, <3>1 DEF SameRow, Exists
    <2>2. CASE \E d \in Domains : PrepareRun(r, d)
      <3>1. task'[r].parent = NoRun
        BY <1>3, <2>2 DEF PrepareRun
      <3> QED
        BY <3>1
    <2>3. CASE \E p \in Runs : PrepareRerun(r, p)
      <3>1. PICK p \in Runs : PrepareRerun(r, p)
        BY <2>3
      <3>2. /\ task'[r].parent = p /\ task'[r].domain = runs[p].domain
            /\ Exists(p)
        BY <1>3, <3>1 DEF PrepareRerun, Exists
      <3> QED
        BY <1>2, <3>2 DEF SameRow, Exists
    <2> QED
      BY <2>1, <2>2, <2>3, TaskSteps
  <1>7. ChildInParentsDomain'
    <2> SUFFICES ASSUME NEW c \in Runs, Exists(c)', runs'[c].parent # NoRun
                 PROVE  /\ runs'[runs'[c].parent].status # "absent"
                        /\ runs'[c].domain = runs'[runs'[c].parent].domain
      BY DEF ChildInParentsDomain, Exists
    <2>1. CASE Exists(c)
      <3>1. SameRow(c)
        BY <1>2, <2>1
      <3>2. /\ runs[c].parent \in Runs /\ runs[c].parent = runs'[c].parent
            /\ runs[c].domain = runs'[c].domain
        BY <1>4, <3>1 DEF SameRow
      <3>3. /\ Exists(runs[c].parent) /\ runs[c].domain = runs[runs[c].parent].domain
        BY <2>1, <3>2 DEF RerunInv, ChildInParentsDomain
      <3> QED
        BY <1>2, <3>2, <3>3 DEF SameRow, Exists
    <2>2. CASE CreateDbRunLog(c)
      <3>1. /\ runs'[c].parent = task[c].parent /\ runs'[c].domain = task[c].domain
            /\ task[c].parent \in Runs
        BY <1>4, <1>5, <2>2
      <3>2. /\ Exists(task[c].parent) /\ task[c].domain = runs[task[c].parent].domain
        BY <3>1 DEF RerunInv, TaskInParentsDomain
      <3> QED
        BY <1>2, <3>1, <3>2 DEF SameRow, Exists
    <2> QED
      BY <1>2, <2>1, <2>2
  <1>8. LeasedRow'
    <2> SUFFICES ASSUME NEW c \in Runs, Exists(c)', runs'[c].leased
                 PROVE  /\ runs'[c].lease \in DOMAIN locks'
                        /\ locks'[runs'[c].lease].domain = runs'[c].domain
      BY DEF LeasedRow, Exists
    <2>1. CASE Exists(c)
      <3>1. SameRow(c)
        BY <1>2, <2>1
      <3>2. /\ runs[c].lease \in DOMAIN locks
            /\ locks[runs[c].lease].domain = runs[c].domain
        BY <2>1, <3>1 DEF RerunInv, LeasedRow, SameRow
      <3> QED
        BY <1>1, <1>3, <3>1, <3>2 DEF SameRow, RowsPersist
    <2>2. CASE CreateDbRunLog(c)
      BY <1>5, <2>2
    <2> QED
      BY <1>2, <2>1, <2>2
  <1>9. GateOrder'
    <2> SUFFICES ASSUME NEW r \in Runs, NEW c \in Runs,
                        pc'[r] = "gated", task'[r].parent # NoRun,
                        Exists(c)', runs'[c].parent = task'[r].parent,
                        runs'[c].leased
                 PROVE  handle'[r].lockId < runs'[c].lease
      BY DEF GateOrder, Exists
    <2>1. CASE DupGate(r)
      <3>1. runs' = runs /\ task' = task /\ Children(task[r].parent) = {}
        BY <1>1, <2>1 DEF DupGate, Goto, Base, ExecTypeOK
      <3> QED
        BY <3>1 DEF Children, Exists
    <2>2. CASE pc[r] = "gated" /\ handle'[r] = handle[r] /\ task'[r] = task[r]
      <3>1. CASE Exists(c)
        <4>1. SameRow(c)
          BY <1>2, <3>1
        <4>2. handle[r].lockId < runs[c].lease
          BY <2>2, <3>1, <4>1 DEF RerunInv, GateOrder, SameRow
        <4> QED
          BY <2>2, <4>1, <4>2 DEF SameRow
      <3>2. CASE CreateDbRunLog(c)
        <4>1. r # c
          <5>1. pc'[c] \in {"work", "closing"}
            BY <3>2 DEF CreateDbRunLog, Goto, Base, ExecTypeOK
          <5> QED
            BY <5>1
        <4>2. /\ handle[r].lockId \in DOMAIN locks
              /\ locks[handle[r].lockId].holder = r
              /\ locks[handle[r].lockId].domain = task[r].domain
          BY <2>2 DEF Base, HoldsRow, Holding, LockInv, HandleOwnsRow
        <4>3. /\ handle[c].lockId \in DOMAIN locks /\ Active(handle[c].lockId)
              /\ locks[handle[c].lockId].holder = c
              /\ locks[handle[c].lockId].domain = task[c].domain
              /\ task[c].parent = task[r].parent
              /\ runs'[c].lease = handle[c].lockId
          BY <1>5, <2>2, <3>2 DEF LeaseHeld
        <4>4. task[c].domain = task[r].domain
          BY <2>2, <4>3 DEF RerunInv, TaskInParentsDomain
        <4>5. /\ handle[r].lockId # handle[c].lockId
              /\ ~(handle[c].lockId < handle[r].lockId)
          BY <4>1, <4>2, <4>3, <4>4 DEF Base, LockInv, FencingOrder
        <4>6. handle[r].lockId \in Nat /\ handle[c].lockId \in Nat
          BY <1>3, <4>2, <4>3
        <4> QED
          BY <2>2, <4>3, <4>5, <4>6
      <3> QED
        BY <1>2, <3>1, <3>2
    <2> QED
      BY <2>1, <2>2, GateSteps
  <1>10. OneLeasedChild'
    \* The row inserted now is not leased if a leased sibling is there.
    <2>1. ASSUME NEW a \in Runs, NEW b \in Runs, CreateDbRunLog(a), Exists(b),
                 runs[b].parent = task[a].parent, task[a].parent # NoRun,
                 runs[b].leased
          PROVE  ~LeaseHeld(a, handle[a].lockId)
      <3>1. pc[a] = "gated" /\ handle[a].lockId \in DOMAIN locks
            /\ locks[handle[a].lockId].domain = task[a].domain
        BY <1>5, <2>1
      <3>2. handle[a].lockId < runs[b].lease
        BY <2>1, <3>1 DEF RerunInv, GateOrder
      <3>3. /\ runs[b].lease \in DOMAIN locks
            /\ locks[runs[b].lease].domain = runs[b].domain
        BY <2>1 DEF RerunInv, LeasedRow
      <3>4. /\ task[a].domain = runs[task[a].parent].domain
            /\ runs[b].domain = runs[runs[b].parent].domain
        BY <2>1 DEF RerunInv, TaskInParentsDomain, ChildInParentsDomain
      <3>5. ~Active(handle[a].lockId)
        BY <2>1, <3>1, <3>2, <3>3, <3>4 DEF Base, LockInv, FencingOrder
      <3> QED
        BY <3>5 DEF LeaseHeld
    <2> SUFFICES ASSUME NEW a \in Runs, NEW b \in Runs,
                        Exists(a)', Exists(b)', runs'[a].parent # NoRun,
                        runs'[a].parent = runs'[b].parent,
                        runs'[a].leased, runs'[b].leased, a # b
                 PROVE  FALSE
      BY DEF OneLeasedChild, Exists
    <2>2. CASE Exists(a) /\ Exists(b)
      BY <1>2, <2>2 DEF RerunInv, OneLeasedChild, SameRow
    <2>3. CASE CreateDbRunLog(a) /\ Exists(b)
      <3>1. SameRow(b)
        BY <1>2, <2>3
      <3>2. runs[b].parent = task[a].parent /\ task[a].parent # NoRun /\ runs[b].leased
        BY <1>5, <2>3, <3>1 DEF SameRow
      <3> QED
        BY <1>5, <2>1, <2>3, <3>2
    <2>4. CASE Exists(a) /\ CreateDbRunLog(b)
      <3>1. SameRow(a)
        BY <1>2, <2>4
      <3>2. runs[a].parent = task[b].parent /\ task[b].parent # NoRun /\ runs[a].leased
        BY <1>5, <2>4, <3>1 DEF SameRow
      <3> QED
        BY <1>5, <2>1, <2>4, <3>2
    <2>5. CASE CreateDbRunLog(a) /\ CreateDbRunLog(b)
      <3>1. pc[b] = "gated" /\ pc'[b] = "work" /\ pc' = [pc EXCEPT ![a] = "work"]
        BY <2>5 DEF CreateDbRunLog, Goto, Base, ExecTypeOK
      <3> QED
        BY <3>1 DEF Base, ExecTypeOK
    <2> QED
      BY <1>2, <2>2, <2>3, <2>4, <2>5
  <1> QED
    BY <1>6, <1>7, <1>8, <1>9, <1>10 DEF RerunInv

-----------------------------------------------------------------------------
(* At most one late write.                                                 *)

\* A late write was counted after the row's lease had been ended for good.
LateMeansEnded ==
    \A r \in Runs : lateWrites[r] # 0 =>
        /\ Exists(r)
        /\ runs[r].lease \in DOMAIN locks
        /\ ~Active(runs[r].lease)

\* A check that passed saw the lease active: no write was late before it.
CheckedInTime ==
    \A r \in Runs : pc[r] \in {"commit", "failCommit"} => lateWrites[r] = 0

LateInv ==
    /\ OneLateWrite
    /\ LateMeansEnded
    /\ CheckedInTime

\* Who may write late, and who may arrive at a write.
LEMMA LateSteps ==
    ASSUME Base, [Next]_vars, NEW r \in Runs
    PROVE  /\ \/ lateWrites'[r] = lateWrites[r]
              \/ /\ pc[r] \in {"commit", "failCommit"}
                 /\ pc'[r] \notin {"commit", "failCommit"}
                 /\ locks' = locks
                 /\ lateWrites'[r] = IF Active(runs[r].lease)
                                       THEN lateWrites[r] ELSE lateWrites[r] + 1
           /\ pc'[r] \in {"commit", "failCommit"} =>
                \/ pc[r] \in {"commit", "failCommit"}
                \/ LeaseHeld(r, runs[r].lease)
  <1> DEFINE Goal == /\ \/ lateWrites'[r] = lateWrites[r]
                        \/ /\ pc[r] \in {"commit", "failCommit"}
                           /\ pc'[r] \notin {"commit", "failCommit"}
                           /\ locks' = locks
                           /\ lateWrites'[r] = IF Active(runs[r].lease)
                                 THEN lateWrites[r] ELSE lateWrites[r] + 1
                     /\ pc'[r] \in {"commit", "failCommit"} =>
                          \/ pc[r] \in {"commit", "failCommit"}
                          \/ LeaseHeld(r, runs[r].lease)
  <1>1. pc \in [Runs -> PCs] /\ lateWrites \in [Runs -> Nat]
    BY DEF Base, ExecTypeOK
  <1>2. ASSUME NEW q \in Runs,
               \/ \E d \in Domains : PrepareRun(q, d)
               \/ \E p \in Runs : PrepareRerun(q, p)
               \/ Acquire(q) \/ DupGate(q) \/ ResolveFails(q)
               \/ CreateDbRunLog(q) \/ ThrowOther(q) \/ ForceFailFinalize(q)
               \/ Teardown(q) \/ Crash(q)
        PROVE  Goal
    BY <1>1, <1>2 DEF PrepareRun, PrepareRerun, Acquire, DupGate, ResolveFails,
       CreateDbRunLog, ThrowOther, ForceFailFinalize, Teardown, Crash, Goto
  <1>3. ASSUME NEW q \in Runs, CheckLease(q) \/ RecoveryCheck(q)
        PROVE  Goal
    BY <1>1, <1>3 DEF CheckLease, RecoveryCheck, Goto
  <1>4. ASSUME NEW q \in Runs, CommitWrite(q) \/ RecoveryFinalize(q)
        PROVE  Goal
    BY <1>1, <1>4 DEF CommitWrite, RecoveryFinalize, CountLate, Goto, lockVars
  <1>5. CASE UNCHANGED <<pc, lateWrites>>
    BY <1>5
  <1>6. CASE \/ \E s \in Runs : CreateRunWorkspace(s) \/ HeartbeatTimer(s)
             \/ \E s \in Runs, v \in Verdicts : ApplyReviewDecision(s, v)
             \/ \E s \in Runs, force \in CleanupForces : CleanupGate(s, force)
             \/ CleanupRemove \/ RecordCleanup \/ LockEnvironment
             \/ UNCHANGED vars
    BY <1>5, <1>6 DEF CreateRunWorkspace, HeartbeatTimer, ApplyReviewDecision,
       CleanupGate, CleanupRemove, RecordCleanup, LockEnvironment, execVars, vars
  <1> QED
    BY <1>2, <1>3, <1>4, <1>6 DEF Next, RunStep

LEMMA LateStep ==
    ASSUME Base, LateInv, [Next]_vars
    PROVE  LateInv'
  <1> SUFFICES ASSUME NEW r \in Runs
               PROVE  /\ lateWrites'[r] <= 1
                      /\ lateWrites'[r] # 0 =>
                           /\ Exists(r)'
                           /\ runs'[r].lease \in DOMAIN locks'
                           /\ locks'[runs'[r].lease].reason # "none"
                      /\ pc'[r] \in {"commit", "failCommit"} => lateWrites'[r] = 0
    BY DEF LateInv, OneLateWrite, LateMeansEnded, CheckedInTime, Exists, Active
  <1>1. /\ Base' /\ RowsPersist /\ EndedRowsStay
        /\ Exists(r) => SameRow(r)
    BY BaseStep, RowsOnlyGrow
  <1>2. DOMAIN locks \subseteq DOMAIN locks' /\ lateWrites[r] \in Nat
    BY <1>1 DEF Base, ExecTypeOK, LockInv, LockTypeOK, RowsPersist
  <1>3. CASE lateWrites'[r] = lateWrites[r]
    <2>1. lateWrites[r] # 0 =>
            /\ Exists(r)'
            /\ runs'[r].lease \in DOMAIN locks'
            /\ locks'[runs'[r].lease].reason # "none"
      <3> SUFFICES ASSUME lateWrites[r] # 0
                   PROVE  /\ Exists(r)'
                          /\ runs'[r].lease \in DOMAIN locks'
                          /\ locks'[runs'[r].lease].reason # "none"
        OBVIOUS
      <3>1. /\ Exists(r) /\ runs[r].lease \in DOMAIN locks /\ ~Active(runs[r].lease)
        BY DEF LateInv, LateMeansEnded
      <3>2. runs'[r].lease = runs[r].lease /\ Exists(r)'
        BY <1>1, <3>1 DEF SameRow
      <3>3. locks'[runs[r].lease] = locks[runs[r].lease]
        BY <1>1, <3>1 DEF EndedRowsStay
      <3> QED
        BY <1>2, <3>1, <3>2, <3>3 DEF Active
    <2>2. pc'[r] \in {"commit", "failCommit"} => lateWrites[r] = 0
      BY LateSteps DEF LateInv, CheckedInTime, LateMeansEnded, LeaseHeld
    <2> QED
      BY <1>3, <2>1, <2>2 DEF LateInv, OneLateWrite
  <1>4. CASE /\ pc[r] \in {"commit", "failCommit"}
             /\ pc'[r] \notin {"commit", "failCommit"}
             /\ locks' = locks
             /\ lateWrites'[r] = IF Active(runs[r].lease)
                                   THEN lateWrites[r] ELSE lateWrites[r] + 1
    <2>1. /\ lateWrites[r] = 0 /\ Exists(r) /\ runs[r].lease = handle[r].lockId
          /\ handle[r].lockId \in DOMAIN locks
      BY <1>4 DEF LateInv, CheckedInTime, Base, RowCarriesLease, Working, HoldsRow,
         Holding, LockInv, HandleOwnsRow
    <2>2. runs'[r].lease = runs[r].lease /\ Exists(r)'
      BY <1>1, <2>1 DEF SameRow
    <2> QED
      BY <1>4, <2>1, <2>2 DEF Active
  <1> QED
    BY <1>3, <1>4, LateSteps

-----------------------------------------------------------------------------
(* No orphaned row.                                                        *)

\* The process's memory never runs ahead of the row: once it has persisted a
\* final status the row is not in flight any more.
FinalIsPersisted ==
    \A r \in Runs :
        \/ pc[r] = "work" /\ mem[r] \notin InFlight
        \/ pc[r] = "commit" /\ pending[r] = "run_completed"
        => runs[r].status \notin InFlight

\* Before the INSERT the process has persisted nothing.
FreshMemory ==
    \A r \in Runs : pc[r] \in {"idle", "ready", "locked", "gated"} =>
        mem[r] \in InFlight

OrphanInv == NoOrphanRow /\ FinalIsPersisted /\ FreshMemory

LEMMA OrphanStep ==
    ASSUME Base, OrphanInv, [Next]_vars
    PROVE  OrphanInv'
  <1> DEFINE Closed(r) == (pc[r] \in {"closing", "done"} /\ runs[r].status \in InFlight) =>
                            \/ err[r] = "db"
                            \/ err[r] = "export" /\ runs[r].status = "running"
             Final(r) == ( \/ pc[r] = "work" /\ mem[r] \notin InFlight
                           \/ pc[r] = "commit" /\ pending[r] = "run_completed" )
                         => runs[r].status \notin InFlight
             Fresh(r) == pc[r] \in {"idle", "ready", "locked", "gated"}
                           => mem[r] \in InFlight
             Goal(r) == Closed(r)' /\ Final(r)' /\ Fresh(r)'
  <1> SUFFICES ASSUME NEW r \in Runs
               PROVE  Goal(r)
    BY DEF OrphanInv, NoOrphanRow, GivenUp, FinalIsPersisted, FreshMemory
  <1>1. Closed(r) /\ Final(r) /\ Fresh(r)
    BY DEF OrphanInv, NoOrphanRow, GivenUp, FinalIsPersisted, FreshMemory
  <1>2. /\ pc \in [Runs -> PCs] /\ mem \in [Runs -> Writes]
        /\ pending \in [Runs -> Writes] /\ runs \in [Runs -> RunRow]
        /\ err \in [Runs -> {"none", "lease", "other", "db", "export"}] /\ ExecTypeOK
    BY DEF Base, ExecTypeOK
  <1>3. /\ "absent" \notin InFlight /\ Failed \notin InFlight
        /\ \A v \in Verdicts \cup {"cleaned"} : v \notin InFlight
        /\ \A v \in Outcomes : v \notin InFlight /\ v # "run_completed"
        /\ \A v \in TERMINAL : v \notin InFlight
        /\ "running" \in InFlight /\ "generated" \in InFlight
        /\ "run_completed" \notin InFlight
    BY OutcomesAssumption DEF InFlight, Verdicts, Failed, WorkflowOutcomes, TERMINAL
  \* Reviewers, cleanup and other processes: r's process does not move, and its
  \* row is left alone or leaves the in-flight statuses.
  <1>4. CASE /\ pc'[r] = pc[r] /\ mem'[r] = mem[r] /\ pending'[r] = pending[r]
             /\ err'[r] = err[r]
             /\ runs'[r].status = runs[r].status \/ runs'[r].status \notin InFlight
    BY <1>1, <1>4
  <1>5. ASSUME NEW q \in Runs,
               \/ \E d \in Domains : PrepareRun(q, d)
               \/ \E p \in Runs : PrepareRerun(q, p)
               \/ Acquire(q) \/ DupGate(q) \/ ResolveFails(q)
        PROVE  Goal(r)
    <2>1. UNCHANGED <<mem, pending, err, runs>>
      BY <1>5 DEF PrepareRun, PrepareRerun, Acquire, DupGate, ResolveFails
    <2>2. CASE q # r
      <3>1. pc'[r] = pc[r]
        BY <1>2, <1>5, <2>2 DEF PrepareRun, PrepareRerun, Acquire, DupGate,
           ResolveFails, Goto
      <3> QED
        BY <1>4, <2>1, <3>1
    <2>3. CASE q = r
      <3>1. /\ pc[r] \in {"idle", "ready", "locked", "gated"}
        BY <1>5, <2>3 DEF PrepareRun, PrepareRerun, Acquire, DupGate, ResolveFails
      <3>2. runs'[r].status = "absent" /\ mem'[r] \in InFlight
        BY <1>1, <2>1, <3>1 DEF Base, RowComesLater, Exists
      <3> QED
        BY <1>3, <3>2
    <2> QED
      BY <2>2, <2>3
  <1>6. ASSUME NEW q \in Runs, CreateDbRunLog(q) PROVE Goal(r)
    <2>1. CASE q # r
      BY <1>2, <1>4, <1>6, <2>1 DEF CreateDbRunLog, Goto
    <2>2. CASE q = r
      <3>1. mem'[r] = mem[r] /\ pc[r] = "gated" /\ pc'[r] \in {"work", "closing"}
        BY <1>2, <1>6, <2>2 DEF CreateDbRunLog, Goto
      <3>2. pc'[r] = "closing" => err'[r] = "export" /\ runs'[r].status = "running"
        BY <1>2, <1>6, <2>2 DEF CreateDbRunLog, Goto
      <3> QED
        BY <1>1, <3>1, <3>2
    <2> QED
      BY <2>1, <2>2
  <1>7. ASSUME NEW q \in Runs, CheckLease(q) PROVE Goal(r)
    <2>1. CASE q # r
      BY <1>2, <1>4, <1>7, <2>1 DEF CheckLease, Goto
    <2>2. CASE q = r /\ pc'[r] = "failed"
      BY <2>2
    <2>3. CASE q = r /\ pc'[r] # "failed"
      <3>1. /\ pc[r] = "work" /\ pc'[r] = "commit" /\ runs' = runs
            /\ pending'[r] \in NextWrites(mem[r])
        BY <1>2, <1>7, <2>3 DEF CheckLease, Goto
      <3>2. pending'[r] = "run_completed" => mem[r] \notin InFlight
        BY <1>3, <3>1 DEF NextWrites, InFlight
      <3> QED
        BY <1>1, <3>1, <3>2
    <2> QED
      BY <2>1, <2>2, <2>3
  <1>8. ASSUME NEW q \in Runs, CommitWrite(q) PROVE Goal(r)
    <2>1. CASE q # r
      BY <1>2, <1>4, <1>8, <2>1 DEF CommitWrite, Goto
    <2>2. CASE q = r /\ pending[r] = "run_completed"
      <3>1. pc'[r] \in {"closing", "failed"} /\ runs' = runs /\ pc[r] = "commit"
        BY <1>2, <1>8, <2>2 DEF CommitWrite, Goto
      <3> QED
        BY <1>1, <2>2, <3>1
    <2>3. CASE q = r /\ pending[r] # "run_completed"
      <3>1. /\ pc'[r] = "work" /\ mem'[r] = pending[r]
            /\ runs' = [runs EXCEPT ![r].status = pending[r]]
        BY <1>2, <1>8, <2>3 DEF CommitWrite, Goto
      <3>2. pending[r] \in Statuses
        BY <1>2, <2>3 DEF Writes
      <3>3. runs'[r].status = pending[r]
        BY <1>2, <3>1, <3>2, StatusWrite
      <3> QED
        BY <3>1, <3>3
    <2> QED
      BY <2>1, <2>2, <2>3
  <1>9. ASSUME NEW q \in Runs, ThrowOther(q) \/ RecoveryCheck(q) \/ Crash(q)
        PROVE  Goal(r)
    <2>1. CASE q # r
      BY <1>2, <1>4, <1>9, <2>1 DEF ThrowOther, RecoveryCheck, Crash, Goto
    <2>2. CASE q = r
      <3>1. pc'[r] \in {"failed", "failCommit", "force", "crashed"}
        BY <1>2, <1>9, <2>2 DEF ThrowOther, RecoveryCheck, Crash, Goto
      <3> QED
        BY <3>1
    <2> QED
      BY <2>1, <2>2
  <1>10. ASSUME NEW q \in Runs, RecoveryFinalize(q) PROVE Goal(r)
    <2>1. CASE q # r
      BY <1>2, <1>4, <1>10, <2>1 DEF RecoveryFinalize, Goto
    <2>2. CASE q = r
      <3>1. pc'[r] = "force"
        BY <1>2, <1>10, <2>2 DEF RecoveryFinalize, Goto
      <3> QED
        BY <3>1
    <2> QED
      BY <2>1, <2>2
  <1>11. ASSUME NEW q \in Runs, ForceFailFinalize(q) PROVE Goal(r)
    <2>1. CASE q # r
      BY <1>2, <1>4, <1>11, <2>1 DEF ForceFailFinalize, Goto
    <2>2. CASE q = r
      <3>1. pc'[r] = "closing" /\ pc[r] = "force"
        BY <1>2, <1>11, <2>2 DEF ForceFailFinalize, Goto
      <3>2. runs[r].lease = handle[r].lockId
        BY <3>1 DEF Base, RowCarriesLease, Working
      <3>3. CASE err' = [err EXCEPT ![r] = "db"]
        BY <1>2, <3>1, <3>3
      <3>4. CASE runs' = IF ForceFlips(r) THEN [runs EXCEPT ![r].status = Failed]
                                          ELSE runs
        <4>1. CASE ForceFlips(r)
          <5>1. runs'[r].status = Failed
            BY <1>2, <3>4, <4>1, StatusWrite, StatusNames
          <5> QED
            BY <1>3, <3>1, <5>1
        <4>2. CASE ~ForceFlips(r)
          <5>1. runs[r].status \in TERMINAL /\ runs' = runs
            BY <3>2, <3>4, <4>2 DEF ForceFlips
          <5> QED
            BY <1>3, <3>1, <5>1
        <4> QED
          BY <4>1, <4>2
      <3> QED
        BY <1>11, <2>2, <3>3, <3>4 DEF ForceFailFinalize
    <2> QED
      BY <2>1, <2>2
  <1>12. ASSUME NEW q \in Runs, Teardown(q) PROVE Goal(r)
    <2>1. UNCHANGED <<mem, pending, err, runs>>
      BY <1>12 DEF Teardown
    <2>2. CASE q # r
      BY <1>2, <1>4, <1>12, <2>1, <2>2 DEF Teardown, Goto
    <2>3. CASE q = r
      <3>1. pc[r] = "closing" /\ pc'[r] = "done"
        BY <1>2, <1>12, <2>3 DEF Teardown, Goto
      <3> QED
        BY <1>1, <2>1, <3>1
    <2> QED
      BY <2>2, <2>3
  <1>13. ASSUME NEW q \in Runs, NEW v \in Verdicts, ApplyReviewDecision(q, v)
         PROVE  Goal(r)
    <2>1. runs'[r].status \in {runs[r].status, v}
      BY <1>2, <1>13, StatusWrite, StatusNames DEF ApplyReviewDecision
    <2> QED
      BY <1>3, <1>4, <1>13, <2>1 DEF ApplyReviewDecision
  <1>14. CASE RecordCleanup
    <2>1. runs'[r].status \in {runs[r].status, "cleaned"}
      <3>1. CASE cleaner.run = r
        BY <1>2, <1>14, <3>1, StatusWrite, StatusNames DEF RecordCleanup
      <3>2. CASE cleaner.run # r
        BY <1>2, <1>14, <3>2 DEF RecordCleanup
      <3> QED
        BY <3>1, <3>2
    <2> QED
      BY <1>3, <1>4, <1>14, <2>1 DEF RecordCleanup
  <1>15. CASE \/ \E q \in Runs : CreateRunWorkspace(q) \/ HeartbeatTimer(q)
              \/ \E q \in Runs, force \in CleanupForces : CleanupGate(q, force)
              \/ CleanupRemove \/ LockEnvironment \/ UNCHANGED vars
    <2>1. UNCHANGED <<pc, mem, pending, err, runs>>
      BY <1>15 DEF CreateRunWorkspace, HeartbeatTimer, CleanupGate,
         CleanupRemove, LockEnvironment, execVars, vars
    <2> QED
      BY <1>4, <2>1
  <1> HIDE DEF Goal
  <1> QED
    BY <1>5, <1>6, <1>7, <1>8, <1>9, <1>10, <1>11, <1>12, <1>13, <1>14, <1>15
       DEF Next, RunStep

-----------------------------------------------------------------------------
(* A verdict stands.                                                       *)

\* What a reviewer decides on, and what they decide.
Reviewable == Verdicts \cup {"needs_review"}

\* A row that reached review belongs to a process whose remaining guarded
\* write, if any, is the completion event.
ReviewedIsWritten ==
    \A r \in Runs : runs[r].status \in Reviewable =>
        /\ pc[r] = "work" => mem[r] \notin InFlight
        /\ pc[r] = "commit" => pending[r] = "run_completed"

\* What one step may do to the verdict of r.
Stands(r) ==
    (runs[r].status \in Verdicts /\ runs'[r].status # runs[r].status) =>
        runs'[r].status = "cleaned" \/ pc[r] = "failCommit"

LEMMA VerdictStep ==
    ASSUME Base, ReviewedIsWritten, [Next]_vars
    PROVE  ReviewedIsWritten' /\ \A r \in Runs : Stands(r)
  <1> DEFINE Written(r) == runs[r].status \in Reviewable =>
                             /\ pc[r] = "work" => mem[r] \notin InFlight
                             /\ pc[r] = "commit" => pending[r] = "run_completed"
             Goal(r) == Written(r)' /\ Stands(r)
  <1> SUFFICES ASSUME NEW r \in Runs
               PROVE  Goal(r)
    BY DEF ReviewedIsWritten
  <1>1. Written(r)
    BY DEF ReviewedIsWritten
  <1>2. /\ pc \in [Runs -> PCs] /\ mem \in [Runs -> Writes]
        /\ pending \in [Runs -> Writes] /\ runs \in [Runs -> RunRow]
        /\ err \in [Runs -> {"none", "lease", "other", "db", "export"}] /\ ExecTypeOK
    BY DEF Base, ExecTypeOK
  <1>3. /\ Verdicts \subseteq TERMINAL /\ Verdicts \subseteq Reviewable
        /\ "needs_review" \in Reviewable /\ "needs_review" \notin Verdicts
        /\ Failed \notin Reviewable /\ "cleaned" \notin Reviewable
        /\ \A s \in InFlight : s \notin Reviewable
        /\ "absent" \notin Reviewable /\ "running" \in InFlight
        /\ "run_completed" \notin InFlight
    BY DEF InFlight, Verdicts, Failed, TERMINAL, Reviewable
  \* A step that leaves r's process where it is and its row alone, unless it
  \* decides a run in review or takes the row out of review.
  <1>4. CASE /\ pc'[r] = pc[r] /\ mem'[r] = mem[r] /\ pending'[r] = pending[r]
             /\ \/ runs'[r].status = runs[r].status
                \/ runs[r].status = "needs_review"
                \/ runs'[r].status = "cleaned"
    BY <1>1, <1>3, <1>4 DEF Stands
  \* A step that takes r's process out of the workflow and leaves its row.
  <1>5. CASE pc'[r] \notin {"work", "commit"} /\ runs'[r].status = runs[r].status
    BY <1>5 DEF Stands
  <1>6. ASSUME NEW q \in Runs,
               \/ \E d \in Domains : PrepareRun(q, d)
               \/ \E p \in Runs : PrepareRerun(q, p)
               \/ Acquire(q) \/ DupGate(q) \/ ResolveFails(q)
               \/ ThrowOther(q) \/ RecoveryCheck(q) \/ Crash(q) \/ Teardown(q)
        PROVE  Goal(r)
    <2>1. runs' = runs
      BY <1>6 DEF PrepareRun, PrepareRerun, Acquire, DupGate, ResolveFails,
         ThrowOther, RecoveryCheck, Crash, Teardown
    <2>2. CASE q # r
      <3>1. pc'[r] = pc[r] /\ mem'[r] = mem[r] /\ pending'[r] = pending[r]
        BY <1>2, <1>6, <2>2 DEF PrepareRun, PrepareRerun, Acquire, DupGate,
           ResolveFails, ThrowOther, RecoveryCheck, Crash, Teardown, Goto
      <3> QED
        BY <1>4, <2>1, <3>1
    <2>3. CASE q = r
      <3>1. pc'[r] \notin {"work", "commit"}
        BY <1>2, <1>6, <2>3 DEF PrepareRun, PrepareRerun, Acquire, DupGate,
           ResolveFails, ThrowOther, RecoveryCheck, Crash, Teardown, Goto
      <3> QED
        BY <1>5, <2>1, <3>1
    <2> QED
      BY <2>2, <2>3
  <1>7. ASSUME NEW q \in Runs, CreateDbRunLog(q) PROVE Goal(r)
    <2>1. CASE q # r
      BY <1>2, <1>4, <1>7, <2>1 DEF CreateDbRunLog, Goto
    <2>2. CASE q = r
      <3>1. pc[r] = "gated" /\ runs'[r].status = "running"
        BY <1>2, <1>7, <2>2 DEF CreateDbRunLog
      <3>2. runs[r].status = "absent"
        BY <3>1 DEF Base, RowComesLater, Exists
      <3> QED
        BY <1>3, <3>1, <3>2 DEF Stands
    <2> QED
      BY <2>1, <2>2
  <1>8. ASSUME NEW q \in Runs, CheckLease(q) PROVE Goal(r)
    <2>0. runs' = runs
      BY <1>8 DEF CheckLease
    <2>1. CASE q # r
      BY <1>2, <1>4, <1>8, <2>1 DEF CheckLease, Goto
    <2>2. CASE q = r /\ pc'[r] = "failed"
      BY <1>5, <2>0, <2>2
    <2>3. CASE q = r /\ pc'[r] # "failed"
      <3>1. /\ pc[r] = "work" /\ pc'[r] = "commit"
            /\ pending'[r] \in NextWrites(mem[r])
        BY <1>2, <1>8, <2>3 DEF CheckLease, Goto
      <3>2. mem[r] \notin InFlight => pending'[r] = "run_completed"
        BY <3>1 DEF NextWrites, InFlight
      <3> QED
        BY <1>1, <2>0, <3>1, <3>2 DEF Stands
    <2> QED
      BY <2>1, <2>2, <2>3
  <1>9. ASSUME NEW q \in Runs, CommitWrite(q) PROVE Goal(r)
    <2>1. CASE q # r
      BY <1>2, <1>4, <1>9, <2>1 DEF CommitWrite, Goto
    <2>2. CASE q = r /\ pending[r] = "run_completed"
      <3>1. pc'[r] \in {"closing", "failed"} /\ runs' = runs
        BY <1>2, <1>9, <2>2 DEF CommitWrite, Goto
      <3> QED
        BY <1>5, <3>1
    <2>3. CASE q = r /\ pending[r] # "run_completed"
      <3>1. /\ pc[r] = "commit" /\ pc'[r] = "work" /\ mem'[r] = pending[r]
            /\ runs' = [runs EXCEPT ![r].status = pending[r]]
        BY <1>2, <1>9, <2>3 DEF CommitWrite, Goto
      <3>2. pending[r] \in Statuses
        BY <1>2, <2>3 DEF Writes
      <3>3. runs'[r].status = pending[r]
        BY <1>2, <3>1, <3>2, StatusWrite
      <3>4. runs[r].status \notin Reviewable
        BY <1>1, <2>3, <3>1
      <3> QED
        BY <1>3, <3>1, <3>3, <3>4 DEF Stands
    <2> QED
      BY <2>1, <2>2, <2>3
  <1>10. ASSUME NEW q \in Runs, RecoveryFinalize(q) PROVE Goal(r)
    <2>1. CASE q # r
      BY <1>2, <1>4, <1>10, <2>1 DEF RecoveryFinalize, Goto
    <2>2. CASE q = r
      BY <1>2, <1>10, <2>2 DEF RecoveryFinalize, Goto, Stands
    <2> QED
      BY <2>1, <2>2
  <1>11. ASSUME NEW q \in Runs, ForceFailFinalize(q) PROVE Goal(r)
    <2>1. CASE q # r
      BY <1>2, <1>4, <1>11, <2>1 DEF ForceFailFinalize, Goto
    <2>2. CASE q = r
      <3>1. pc'[r] = "closing"
        BY <1>2, <1>11, <2>2 DEF ForceFailFinalize, Goto
      <3>2. runs[r].status \in Verdicts => runs' = runs
        BY <1>3, <1>11, <2>2 DEF ForceFailFinalize, ForceFlips
      <3> QED
        BY <3>1, <3>2 DEF Stands
    <2> QED
      BY <2>1, <2>2
  <1>12. ASSUME NEW q \in Runs, NEW v \in Verdicts, ApplyReviewDecision(q, v)
         PROVE  Goal(r)
    <2>1. runs'[r].status = runs[r].status \/ runs[r].status = "needs_review"
      BY <1>2, <1>12 DEF ApplyReviewDecision
    <2> QED
      BY <1>4, <1>12, <2>1 DEF ApplyReviewDecision
  <1>13. CASE RecordCleanup
    <2>1. runs'[r].status \in {runs[r].status, "cleaned"}
      <3>1. CASE cleaner.run = r
        BY <1>2, <1>13, <3>1, StatusWrite, StatusNames DEF RecordCleanup
      <3>2. CASE cleaner.run # r
        BY <1>2, <1>13, <3>2 DEF RecordCleanup
      <3> QED
        BY <3>1, <3>2
    <2> QED
      BY <1>4, <1>13, <2>1 DEF RecordCleanup
  <1>14. CASE \/ \E q \in Runs : CreateRunWorkspace(q) \/ HeartbeatTimer(q)
              \/ \E q \in Runs, force \in CleanupForces : CleanupGate(q, force)
              \/ CleanupRemove \/ LockEnvironment \/ UNCHANGED vars
    <2>1. UNCHANGED <<pc, mem, pending, runs>>
      BY <1>14 DEF CreateRunWorkspace, HeartbeatTimer, CleanupGate,
         CleanupRemove, LockEnvironment, execVars, vars
    <2> QED
      BY <1>4, <2>1
  <1> HIDE DEF Goal
  <1> QED
    BY <1>6, <1>7, <1>8, <1>9, <1>10, <1>11, <1>12, <1>13, <1>14 DEF Next, RunStep

-----------------------------------------------------------------------------
(* The theorems.                                                           *)

LEMMA InitInv == Init => Base /\ RerunInv /\ LateInv /\ OrphanInv
  <1> SUFFICES ASSUME Init PROVE Base /\ RerunInv /\ LateInv /\ OrphanInv
    OBVIOUS
  <1>1. LockInv
    BY LockInitInv DEF Init
  <1>2. PICK d \in Domains :
          /\ runs = [r \in Runs |->
                      [status |-> IF r \in History THEN "changes_requested"
                                                   ELSE "absent",
                       domain |-> d, lease |-> 0,
                       parent |-> NoRun, attempt |-> 0, leased |-> FALSE]]
          /\ task = [r \in Runs |->
                      [domain |-> d, parent |-> NoRun, attempt |-> 0]]
    BY DEF Init
  <1>3. /\ runs \in [Runs -> RunRow] /\ task \in [Runs -> Task]
        /\ \A r \in Runs : /\ runs[r].leased = FALSE /\ runs[r].parent = NoRun
                           /\ runs[r].status \in {"changes_requested", "absent"}
                           /\ r \notin History => runs[r].status = "absent"
                           /\ task[r].parent = NoRun
    BY <1>2 DEF RunRow, Task, Statuses, Verdicts
  <1>4. ExecTypeOK /\ CleanerSaw
    BY <1>3, StatusNames
       DEF Init, ExecTypeOK, PCs, Writes, CleanerIdle, CleanerSaw
  <1>5. HoldsRow /\ RowComesLater /\ RowCarriesLease
    BY <1>3 DEF Init, HoldsRow, Holding, RowComesLater, Exists, RowCarriesLease, Working
  <1>6. RerunInv
    BY <1>3 DEF RerunInv, TaskInParentsDomain, ChildInParentsDomain, LeasedRow,
       GateOrder, OneLeasedChild
  <1>7. LateInv
    BY DEF Init, LateInv, OneLateWrite, LateMeansEnded, CheckedInTime
  <1>8. OrphanInv
    BY <1>3 DEF Init, OrphanInv, NoOrphanRow, FinalIsPersisted, FreshMemory, InFlight
  <1> QED
    BY <1>1, <1>4, <1>5, <1>6, <1>7, <1>8 DEF Base

\* What the theorems about runs rest on, in every state that runs, reruns, the
\* heartbeat, reviewers, cleanup and the operator can reach (runDomainCoding).
THEOREM ExecInvariant == Spec => [](Base /\ RerunInv /\ LateInv /\ OrphanInv)
  <1>1. Base /\ RerunInv /\ LateInv /\ OrphanInv /\ [Next]_vars =>
          (Base /\ RerunInv /\ LateInv /\ OrphanInv)'
    BY BaseStep, RerunStep, LateStep, OrphanStep
  <1> QED
    BY InitInv, <1>1, PTL DEF Spec

\* Type correctness of the whole composition (runDomainCoding, the lock,
\* reviewers and cleanup).
THEOREM TypeCorrect == Spec => []TypeOK
  <1>1. Base => TypeOK
    BY DEF Base, LockInv, TypeOK
  <1> QED
    BY ExecInvariant, <1>1, PTL

\* The duplicate gate of runDomainCoding works for every insertion made under
\* a lease that is still held.
THEOREM LeasedRerunsAreUnique == Spec => []OneLeasedChild
  <1>1. RerunInv => OneLeasedChild
    BY DEF RerunInv
  <1> QED
    BY ExecInvariant, <1>1, PTL

\* The window that commitThenExport leaves between its lease check and its
\* transaction admits one write, never two.
THEOREM LateWritesAreBounded == Spec => []OneLateWrite
  <1>1. LateInv => OneLateWrite
    BY DEF LateInv
  <1> QED
    BY ExecInvariant, <1>1, PTL

\* runDomainCoding leaves no row in flight unless the last transaction of its
\* catch block fails too, or createDbRunLog throws between its INSERT and the
\* try; then the row says `running`.
THEOREM NoOrphans == Spec => []NoOrphanRow
  <1>1. OrphanInv => NoOrphanRow
    BY DEF OrphanInv
  <1> QED
    BY ExecInvariant, <1>1, PTL

\* A reviewer's verdict outlives every late write of the run's process and its
\* forceFailFinalize: only `harness cleanup` and the guarded finalize of a
\* process that still passes the lease check replace it.
THEOREM VerdictsStand == Spec => VerdictStands
  <1>1. Init => ReviewedIsWritten
    BY DEF Init, ReviewedIsWritten
  <1>2. Base /\ ReviewedIsWritten /\ [Next]_vars => ReviewedIsWritten'
    BY VerdictStep
  <1>3. Base /\ ReviewedIsWritten /\ [Next]_vars =>
          [\A r \in Runs :
             (runs[r].status \in Verdicts /\ runs'[r].status # runs[r].status) =>
                runs'[r].status = "cleaned" \/ pc[r] = "failCommit"]_vars
    BY VerdictStep DEF Stands
  <1> QED
    BY ExecInvariant, <1>1, <1>2, <1>3, PTL DEF Spec, VerdictStands

-----------------------------------------------------------------------------
(* The rows implement RunRegister.                                         *)

\* What the process remembers is what the row says, unless a cleanup or a
\* reviewer has moved the row since; and the write whose lease was checked is
\* one that follows.
Remembers(r) ==
    /\ pc[r] \in {"idle", "ready", "locked", "gated"} => mem[r] = "running"
    /\ pc[r] \in {"work", "commit"} =>
         \/ runs[r].status = mem[r]
         \/ runs[r].status = "cleaned" /\ mem[r] # "running"
         \/ runs[r].status \in Verdicts /\ mem[r] = "needs_review"
    /\ pc[r] = "commit" => pending[r] \in NextWrites(mem[r])

\* What a cleanup in flight saw is a status the gate lets through.
GateLetThrough ==
    cleaner # CleanerIdle =>
        cleaner.expected \notin {"absent", "running", "changes_requested"}

LifeInv == GateLetThrough /\ \A r \in Runs : Remembers(r)

LEMMA NextWritesAre ==
    ASSUME NEW m
    PROVE  /\ NextWrites(m) \subseteq {"generated", "verified", "run_completed"} \cup Outcomes
           /\ m \notin InFlight => NextWrites(m) = {"run_completed"}
           /\ m = "running" => NextWrites(m) = {"generated"}
           /\ m = "generated" => NextWrites(m) = {"verified"} \cup Outcomes
           /\ m = "verified" => NextWrites(m) \subseteq Outcomes
  BY DEF NextWrites, InFlight

LEMMA GateStep ==
    ASSUME Base, GateLetThrough, [Next]_vars
    PROVE  GateLetThrough'
  <1>1. CASE UNCHANGED cleaner
    BY <1>1 DEF GateLetThrough
  <1>2. ASSUME NEW r \in Runs, NEW force \in CleanupForces, CleanupGate(r, force)
        PROVE  GateLetThrough'
    BY <1>2 DEF CleanupGate, CleanupAllowed, GateLetThrough
  <1>3. CASE CleanupRemove
    BY <1>3 DEF CleanupRemove, GateLetThrough, Base, ExecTypeOK
  <1>4. CASE RecordCleanup
    BY <1>4 DEF RecordCleanup, GateLetThrough
  <1>5. CASE /\ ~(\E r \in Runs, force \in CleanupForces : CleanupGate(r, force))
             /\ ~CleanupRemove /\ ~RecordCleanup
    BY <1>1, <1>5 DEF Next, RunStep, vars, execVars, PrepareRun, PrepareRerun,
       Acquire, DupGate, ResolveFails, CreateDbRunLog, CreateRunWorkspace,
       CheckLease, CommitWrite, ThrowOther, RecoveryCheck, RecoveryFinalize,
       ForceFailFinalize, Teardown, HeartbeatTimer, Crash, ApplyReviewDecision,
       LockEnvironment
  <1> QED
    BY <1>2, <1>3, <1>4, <1>5

\* A cleanup records itself on a row that is past "running", or not at all.
LEMMA CleanupIs ==
    ASSUME Base, GateLetThrough, RecordCleanup
    PROVE  \/ runs' = runs
           \/ \E q \in Runs :
                /\ runs[q].status \notin {"absent", "running", "changes_requested"}
                /\ runs' = [runs EXCEPT ![q].status = "cleaned"]
  <1>1. /\ runs \in [Runs -> RunRow] /\ cleaner # CleanerIdle
        /\ cleaner.run \in Runs \cup {NoRun}
    BY DEF Base, ExecTypeOK, RecordCleanup, CleanerIdle
  <1>2. CASE cleaner.run \in Runs
    BY <1>1, <1>2 DEF RecordCleanup, GateLetThrough
  <1>3. CASE cleaner.run \notin Runs
    BY <1>1, <1>3 DEF RecordCleanup
  <1> QED
    BY <1>1, <1>2, <1>3

LEMMA LifeStep ==
    ASSUME Base, LifeInv, [Next]_vars
    PROVE  LifeInv'
  <1> DEFINE Goal(r) == Remembers(r)'
  <1> SUFFICES ASSUME NEW r \in Runs
               PROVE  Goal(r)
    BY GateStep DEF LifeInv
  <1>1. Remembers(r) /\ GateLetThrough
    BY DEF LifeInv
  <1>2. /\ pc \in [Runs -> PCs] /\ mem \in [Runs -> Writes]
        /\ pending \in [Runs -> Writes] /\ runs \in [Runs -> RunRow]
        /\ ExecTypeOK
    BY DEF Base, ExecTypeOK
  <1>3. /\ "needs_review" \notin Verdicts /\ "cleaned" \notin Verdicts
        /\ "running" \notin Verdicts /\ "run_completed" \notin Verdicts
        /\ \A s \in Outcomes : s \notin Verdicts \cup {"running", "cleaned", "run_completed"}
    BY OutcomesAssumption DEF Verdicts, WorkflowOutcomes
  \* Another process's step, unless it is a reviewer's or a cleanup's.
  <1>4. CASE /\ pc'[r] = pc[r] /\ mem'[r] = mem[r] /\ pending'[r] = pending[r]
             /\ runs'[r].status = runs[r].status
    BY <1>1, <1>4 DEF Remembers
  <1>5. CASE /\ pc'[r] = pc[r] /\ mem'[r] = mem[r] /\ pending'[r] = pending[r]
             /\ runs[r].status \notin {"absent", "running"} /\ runs'[r].status = "cleaned"
    <2>1. pc[r] \in {"work", "commit"} => mem[r] # "running"
      BY <1>1, <1>3, <1>5 DEF Remembers
    <2> QED
      BY <1>1, <1>5, <2>1 DEF Remembers
  <1>6. CASE /\ pc'[r] = pc[r] /\ mem'[r] = mem[r] /\ pending'[r] = pending[r]
             /\ runs[r].status = "needs_review" /\ runs'[r].status \in Verdicts
    BY <1>1, <1>3, <1>6 DEF Remembers
  \* Its own step out of the workflow.
  <1>7. CASE pc'[r] \notin {"idle", "ready", "locked", "gated", "work", "commit"}
    BY <1>7 DEF Remembers
  <1>8. ASSUME NEW q \in Runs,
               \/ \E d \in Domains : PrepareRun(q, d)
               \/ \E p \in Runs : PrepareRerun(q, p)
               \/ Acquire(q) \/ DupGate(q) \/ ResolveFails(q)
               \/ ThrowOther(q) \/ RecoveryCheck(q) \/ Crash(q) \/ Teardown(q)
        PROVE  Goal(r)
    <2>1. runs' = runs
      BY <1>8 DEF PrepareRun, PrepareRerun, Acquire, DupGate, ResolveFails,
         ThrowOther, RecoveryCheck, Crash, Teardown
    <2>2. CASE q # r
      <3>1. pc'[r] = pc[r] /\ mem'[r] = mem[r] /\ pending'[r] = pending[r]
        BY <1>2, <1>8, <2>2 DEF PrepareRun, PrepareRerun, Acquire, DupGate,
           ResolveFails, ThrowOther, RecoveryCheck, Crash, Teardown, Goto
      <3> QED
        BY <1>4, <2>1, <3>1
    <2>3. CASE q = r
      <3>1. \/ pc'[r] \notin {"idle", "ready", "locked", "gated", "work", "commit"}
            \/ /\ pc[r] \in {"idle", "ready", "locked"} /\ mem'[r] = mem[r]
               /\ pc'[r] \notin {"work", "commit"}
        BY <1>2, <1>8, <2>3 DEF PrepareRun, PrepareRerun, Acquire, DupGate,
           ResolveFails, ThrowOther, RecoveryCheck, Crash, Teardown, Goto
      <3> QED
        BY <1>1, <1>7, <3>1 DEF Remembers
    <2> QED
      BY <2>2, <2>3
  <1>9. ASSUME NEW q \in Runs, CreateDbRunLog(q) PROVE Goal(r)
    <2>1. CASE q # r
      BY <1>2, <1>4, <1>9, <2>1 DEF CreateDbRunLog, Goto
    <2>2. CASE q = r
      <3>1. /\ pc[r] = "gated" /\ pc'[r] \in {"work", "closing"} /\ mem'[r] = mem[r]
            /\ runs'[r].status = "running"
        BY <1>2, <1>9, <2>2 DEF CreateDbRunLog, Goto
      <3> QED
        BY <1>1, <3>1 DEF Remembers
    <2> QED
      BY <2>1, <2>2
  <1>10. ASSUME NEW q \in Runs, CheckLease(q) PROVE Goal(r)
    <2>0. runs' = runs
      BY <1>10 DEF CheckLease
    <2>1. CASE q # r
      BY <1>2, <1>4, <1>10, <2>0, <2>1 DEF CheckLease, Goto
    <2>2. CASE q = r
      <3>1. \/ pc'[r] = "failed"
            \/ /\ pc[r] = "work" /\ pc'[r] = "commit" /\ mem' = mem
               /\ pending'[r] \in NextWrites(mem[r])
        BY <1>2, <1>10, <2>2 DEF CheckLease, Goto
      <3>2. CASE pc'[r] = "failed"
        BY <1>7, <3>2
      <3>3. CASE pc[r] = "work" /\ pc'[r] = "commit" /\ mem' = mem
                 /\ pending'[r] \in NextWrites(mem[r])
        <4>1. NextWrites(mem[r])' = NextWrites(mem[r])
          BY <3>3 DEF NextWrites
        <4> QED
          BY <1>1, <2>0, <3>3, <4>1 DEF Remembers
      <3> QED
        BY <3>1, <3>2, <3>3
    <2> QED
      BY <2>1, <2>2
  <1>11. ASSUME NEW q \in Runs, CommitWrite(q) PROVE Goal(r)
    <2>1. CASE q # r
      BY <1>2, <1>4, <1>11, <2>1 DEF CommitWrite, Goto
    <2>2. CASE q = r /\ pending[r] = "run_completed"
      <3>1. pc'[r] \in {"closing", "failed"}
        BY <1>2, <1>11, <2>2 DEF CommitWrite, Goto
      <3> QED
        BY <1>7, <3>1
    <2>3. CASE q = r /\ pending[r] # "run_completed"
      <3>1. /\ pc'[r] = "work" /\ mem'[r] = pending[r]
            /\ runs' = [runs EXCEPT ![r].status = pending[r]]
        BY <1>2, <1>11, <2>3 DEF CommitWrite, Goto
      <3>2. pending[r] \in Statuses
        BY <1>2, <2>3 DEF Writes
      <3>3. runs'[r].status = pending[r]
        BY <1>2, <3>1, <3>2, StatusWrite
      <3> QED
        BY <3>1, <3>3 DEF Remembers
    <2> QED
      BY <2>1, <2>2, <2>3
  <1>12. ASSUME NEW q \in Runs, RecoveryFinalize(q) \/ ForceFailFinalize(q) PROVE Goal(r)
    <2>1. CASE q # r
      BY <1>2, <1>4, <1>12, <2>1 DEF RecoveryFinalize, ForceFailFinalize, Goto
    <2>2. CASE q = r
      BY <1>2, <1>7, <1>12, <2>2 DEF RecoveryFinalize, ForceFailFinalize, Goto
    <2> QED
      BY <2>1, <2>2
  <1>13. ASSUME NEW q \in Runs, NEW v \in Verdicts, ApplyReviewDecision(q, v)
         PROVE  Goal(r)
    <2>1. v \in Statuses
      BY StatusNames
    <2>2. \/ runs'[r].status = runs[r].status
          \/ runs[r].status = "needs_review" /\ runs'[r].status \in Verdicts
      BY <1>2, <1>13, <2>1, StatusWrite DEF ApplyReviewDecision
    <2> QED
      BY <1>4, <1>6, <1>13, <2>2 DEF ApplyReviewDecision
  <1>14. CASE RecordCleanup
    <2>1. \/ runs'[r].status = runs[r].status
          \/ runs[r].status \notin {"absent", "running"} /\ runs'[r].status = "cleaned"
      <3>1. CASE runs' = runs
        BY <3>1
      <3>2. ASSUME NEW q \in Runs,
                   runs[q].status \notin {"absent", "running", "changes_requested"},
                   runs' = [runs EXCEPT ![q].status = "cleaned"]
            PROVE  \/ runs'[r].status = runs[r].status
                   \/ runs[r].status \notin {"absent", "running"} /\ runs'[r].status = "cleaned"
        <4>1. "cleaned" \in Statuses
          BY StatusNames
        <4>2. runs'[q].status = "cleaned" /\ (r # q => runs'[r] = runs[r])
          BY <1>2, <3>2, <4>1, StatusWrite
        <4> QED
          BY <3>2, <4>2
      <3> QED
        BY <1>1, <1>14, <3>1, <3>2, CleanupIs
    <2> QED
      BY <1>4, <1>5, <1>14, <2>1 DEF RecordCleanup
  <1>15. CASE \/ \E q \in Runs : CreateRunWorkspace(q) \/ HeartbeatTimer(q)
              \/ \E q \in Runs, force \in CleanupForces : CleanupGate(q, force)
              \/ CleanupRemove \/ LockEnvironment \/ UNCHANGED vars
    <2>1. UNCHANGED <<pc, mem, pending, runs>>
      BY <1>15 DEF CreateRunWorkspace, HeartbeatTimer, CleanupGate,
         CleanupRemove, LockEnvironment, execVars, vars
    <2> QED
      BY <1>4, <2>1
  <1> HIDE DEF Goal
  <1> QED
    BY <1>8, <1>9, <1>10, <1>11, <1>12, <1>13, <1>14, <1>15 DEF Next, RunStep

\* How the row of a run moves in RunRegister: St and Op are what it sees.
St == [r \in Runs |-> StageOf(runs[r].status)]
Op == {r \in Runs : Writing(r)}

WritingPcs == {"work", "commit", "failed", "failCommit", "force", "closing"}

RegisterMoves ==
    \/ St' = St /\ Op' = Op
    \/ \E r \in Runs :
         \/ St[r] = "none" /\ St' = [St EXCEPT ![r] = "running"] /\ Op' = Op \cup {r}
         \/ St' = St /\ Op' = Op \ {r}
         \/ /\ Op' = Op /\ r \in Op
            /\ \/ St' = [St EXCEPT ![r] = "failed"]
               \/ \E s \in {"generated", "verified", "needs_review"} :
                    /\ St' = [St EXCEPT ![r] = s]
                    /\ \/ St[r] = "running" /\ s = "generated"
                       \/ St[r] \in {"generated", "cleaned"} /\ s \in {"verified", "needs_review"}
                       \/ St[r] = "verified" /\ s = "needs_review"
         \/ /\ Op' = Op /\ St[r] = "needs_review"
            /\ \E v \in Verdicts : St' = [St EXCEPT ![r] = v]
         \/ /\ Op' = Op /\ St[r] \notin {"none", "running", "changes_requested"}
            /\ St' = [St EXCEPT ![r] = "cleaned"]

LEMMA StageNames ==
    /\ StageOf("absent") = "none" /\ StageOf("running") = "running"
    /\ StageOf("cleaned") = "cleaned" /\ StageOf("needs_review") = "needs_review"
    /\ StageOf("generated") = "generated" /\ StageOf("verified") = "verified"
    /\ \A v \in Verdicts : StageOf(v) = v
    /\ \A s \in FailedStatuses : StageOf(s) = "failed"
    /\ Outcomes \subseteq {"needs_review"} \cup FailedStatuses
    /\ Failed \in FailedStatuses
  BY OutcomesAssumption
     DEF StageOf, FailedStatuses, WorkflowOutcomes, Verdicts, Failed

LEMMA NoStatusIsNone == "none" \notin Statuses
  BY DEF Statuses, InFlight, WorkflowOutcomes, Verdicts, Failed

\* No row is written, and at most one process leaves the writers.
LEMMA RegisterRests ==
    ASSUME runs' = runs, NEW q \in Runs,
           \A r \in Runs \ {q} : pc'[r] = pc[r],
           pc'[q] \in WritingPcs => pc[q] \in WritingPcs \/ ~Exists(q)
    PROVE  RegisterMoves
  <1>1. St' = St
    BY DEF St
  <1>2. \A r \in Runs : r # q => (Writing(r)' <=> Writing(r))
    BY DEF Writing, Exists
  <1>3. Writing(q)' => Writing(q)
    BY DEF Writing, Exists, WritingPcs
  <1>4. Op' = Op \/ Op' = Op \ {q}
    BY <1>2, <1>3 DEF Op
  <1> QED
    BY <1>1, <1>4 DEF RegisterMoves

\* One status is written, by or under whoever writes the row anyway.
LEMMA RegisterWrites ==
    ASSUME Base, NEW q \in Runs, NEW s \in Statuses, Exists(q),
           runs' = [runs EXCEPT ![q].status = s],
           \A r \in Runs : pc'[r] \in WritingPcs <=> pc[r] \in WritingPcs
    PROVE  St' = [St EXCEPT ![q] = StageOf(s)] /\ Op' = Op
  <1>1. ExecTypeOK /\ s # "absent"
    BY StatusNames DEF Base
  <1>2. runs'[q].status = s /\ \A r \in Runs : r # q => runs'[r] = runs[r]
    BY <1>1, StatusWrite
  <1>3. \A r \in Runs : Writing(r)' <=> Writing(r)
    BY <1>1, <1>2 DEF Writing, Exists, WritingPcs
  <1>4. Op' = Op
    BY <1>3 DEF Op
  <1>5. St' = [St EXCEPT ![q] = StageOf(s)]
    <2>1. \A r \in Runs : StageOf(runs[r].status)' = IF r = q THEN StageOf(s) ELSE StageOf(runs[r].status)
      BY <1>2 DEF StageOf
    <2> QED
      BY <2>1 DEF St
  <1> QED
    BY <1>4, <1>5

LEMMA LifeMoves ==
    ASSUME Base, LifeInv, [Next]_vars
    PROVE  RegisterMoves
  <1>2. /\ pc \in [Runs -> PCs] /\ mem \in [Runs -> Writes]
        /\ pending \in [Runs -> Writes] /\ runs \in [Runs -> RunRow]
        /\ ExecTypeOK /\ RowComesLater /\ RowCarriesLease
    BY DEF Base, ExecTypeOK
  <1>3. \A r \in Runs : St[r] = StageOf(runs[r].status) /\ (Writing(r) <=> r \in Op)
    BY DEF St, Op
  <1>4. CASE UNCHANGED <<runs, pc>>
    <2>1. St' = St /\ Op' = Op
      BY <1>4 DEF St, Op, Writing, Exists
    <2> QED
      BY <2>1 DEF RegisterMoves
  <1>5. ASSUME NEW q \in Runs,
               \/ \E d \in Domains : PrepareRun(q, d)
               \/ \E p \in Runs : PrepareRerun(q, p)
               \/ Acquire(q) \/ DupGate(q) \/ ResolveFails(q) \/ CheckLease(q)
               \/ ThrowOther(q) \/ RecoveryCheck(q) \/ Crash(q) \/ Teardown(q)
        PROVE  RegisterMoves
    <2>1. runs' = runs
      BY <1>5 DEF PrepareRun, PrepareRerun, Acquire, DupGate, ResolveFails, CheckLease,
         ThrowOther, RecoveryCheck, Crash, Teardown
    <2>2. \A r \in Runs \ {q} : pc'[r] = pc[r]
      BY <1>2, <1>5 DEF PrepareRun, PrepareRerun, Acquire, DupGate,
         ResolveFails, CheckLease, ThrowOther, RecoveryCheck, Crash, Teardown, Goto
    <2>3. pc'[q] \in WritingPcs => pc[q] \in WritingPcs \cup {"locked", "gated"}
      BY <1>2, <1>5 DEF PrepareRun, PrepareRerun, Acquire, DupGate,
         ResolveFails, CheckLease, ThrowOther, RecoveryCheck, Crash, Teardown, Goto, WritingPcs
    <2>4. pc[q] \in {"locked", "gated"} => ~Exists(q)
      BY <1>2 DEF RowComesLater
    <2> QED
      BY <2>1, <2>2, <2>3, <2>4, RegisterRests
  <1>6. ASSUME NEW q \in Runs, CreateDbRunLog(q) PROVE RegisterMoves
    <2>1. pc[q] = "gated" /\ ~Exists(q)
      BY <1>2, <1>6 DEF CreateDbRunLog, RowComesLater
    <2>2. /\ runs'[q].status = "running" /\ pc'[q] \in {"work", "closing"}
          /\ \A r \in Runs : r # q => runs'[r] = runs[r] /\ pc'[r] = pc[r]
      BY <1>2, <1>6 DEF CreateDbRunLog, Goto
    <2>3. \A r \in Runs : Writing(r)' <=> Writing(r) \/ r = q
      BY <2>2 DEF Writing, Exists
    <2>4. Op' = Op \cup {q}
      BY <2>3 DEF Op
    <2>5. St' = [St EXCEPT ![q] = "running"]
      <3>1. \A r \in Runs : StageOf(runs[r].status)' = IF r = q THEN "running" ELSE StageOf(runs[r].status)
        BY <2>2, StageNames DEF StageOf
      <3> QED
        BY <3>1 DEF St
    <2>6. St[q] = "none"
      BY <1>3, <2>1, StageNames DEF Exists
    <2> QED
      BY <2>4, <2>5, <2>6 DEF RegisterMoves
  <1>7. ASSUME NEW q \in Runs, CommitWrite(q) PROVE RegisterMoves
    <2>1. CASE pending[q] = "run_completed"
      <3>1. /\ runs' = runs /\ pc[q] \in WritingPcs
            /\ \A r \in Runs \ {q} : pc'[r] = pc[r]
        BY <1>2, <1>7, <2>1 DEF CommitWrite, Goto, WritingPcs
      <3> QED
        BY <3>1, RegisterRests
    <2>2. CASE pending[q] # "run_completed"
      <3> DEFINE s == pending[q]
      <3>1. /\ pc[q] = "commit" /\ runs' = [runs EXCEPT ![q].status = s]
            /\ pc'[q] = "work" /\ \A r \in Runs : r # q => pc'[r] = pc[r]
        BY <1>2, <1>7, <2>2 DEF CommitWrite, Goto
      <3>2. s \in Statuses /\ Exists(q) /\ Writing(q)
        BY <1>2, <2>2, <3>1 DEF Writes, RowCarriesLease, Working, Writing
      <3>3. St' = [St EXCEPT ![q] = StageOf(s)] /\ Op' = Op
        BY <3>1, <3>2, RegisterWrites DEF WritingPcs
      <3>4. Remembers(q)
        BY DEF LifeInv
      <3>5. s \in NextWrites(mem[q]) /\ mem[q] \in InFlight
        BY <2>2, <3>1, <3>4, NextWritesAre DEF Remembers
      <3>6. \/ runs[q].status = mem[q]
            \/ runs[q].status = "cleaned" /\ mem[q] # "running"
        BY <3>1, <3>4, <3>5 DEF Remembers, InFlight
      <3>7. \/ StageOf(s) = "failed"
            \/ s \in {"generated", "verified", "needs_review"} /\ StageOf(s) = s
        BY <2>2, <3>5, NextWritesAre, StageNames
      <3>8. CASE StageOf(s) = "failed"
        BY <1>3, <3>2, <3>3, <3>8 DEF RegisterMoves
      <3>9. CASE s \in {"generated", "verified", "needs_review"} /\ StageOf(s) = s
        <4>1. \/ mem[q] = "running" /\ s = "generated"
              \/ mem[q] = "generated" /\ s \in {"verified", "needs_review"}
              \/ mem[q] = "verified" /\ s = "needs_review"
          <5>1. "generated" \notin Outcomes /\ "verified" \notin Outcomes
            BY OutcomesAssumption DEF WorkflowOutcomes
          <5> QED
            BY <3>5, <3>9, <5>1, NextWritesAre DEF InFlight
        <4>2. \/ St[q] = mem[q]
              \/ St[q] = "cleaned" /\ mem[q] # "running"
          BY <1>3, <3>5, <3>6, StageNames DEF InFlight
        <4> QED
          BY <1>3, <3>2, <3>3, <3>9, <4>1, <4>2 DEF RegisterMoves
      <3> QED
        BY <3>7, <3>8, <3>9
    <2> QED
      BY <2>1, <2>2
  <1>8. ASSUME NEW q \in Runs, RecoveryFinalize(q) \/ ForceFailFinalize(q)
        PROVE  RegisterMoves
    <2>1. /\ runs' = runs \/ runs' = [runs EXCEPT ![q].status = Failed]
          /\ pc[q] \in {"failCommit", "force"} /\ pc'[q] \in {"force", "closing"}
          /\ \A r \in Runs : r # q => pc'[r] = pc[r]
      BY <1>2, <1>8 DEF RecoveryFinalize, ForceFailFinalize, Goto
    <2>2. CASE runs' = runs
      BY <2>1, <2>2, RegisterRests DEF WritingPcs
    <2>3. CASE runs' = [runs EXCEPT ![q].status = Failed]
      <3>1. Exists(q) /\ Writing(q) /\ Failed \in Statuses
        BY <1>2, <2>1, StatusNames DEF RowCarriesLease, Working, Writing
      <3>2. St' = [St EXCEPT ![q] = StageOf(Failed)] /\ Op' = Op
        BY <2>1, <2>3, <3>1, RegisterWrites DEF WritingPcs
      <3>3. StageOf(Failed) = "failed"
        BY StageNames
      <3> QED
        BY <1>3, <3>1, <3>2, <3>3 DEF RegisterMoves
    <2> QED
      BY <2>1, <2>2, <2>3
  <1>9. ASSUME NEW q \in Runs, NEW v \in Verdicts, ApplyReviewDecision(q, v)
        PROVE  RegisterMoves
    <2>1. /\ Exists(q) /\ v \in Statuses /\ runs[q].status = "needs_review"
          /\ runs' = [runs EXCEPT ![q].status = v] /\ pc' = pc
      BY <1>9, StatusNames DEF ApplyReviewDecision, Exists
    <2>2. St' = [St EXCEPT ![q] = StageOf(v)] /\ Op' = Op
      BY <2>1, RegisterWrites
    <2>3. St[q] = "needs_review" /\ StageOf(v) = v
      BY <1>3, <2>1, StageNames
    <2> QED
      BY <2>2, <2>3 DEF RegisterMoves
  <1>10. CASE RecordCleanup
    <2>0. pc' = pc
      BY <1>10 DEF RecordCleanup
    <2>1. CASE runs' = runs
      BY <1>4, <2>0, <2>1
    <2>2. ASSUME NEW q \in Runs,
                 runs[q].status \notin {"absent", "running", "changes_requested"},
                 runs' = [runs EXCEPT ![q].status = "cleaned"]
          PROVE  RegisterMoves
      <3>1. Exists(q) /\ "cleaned" \in Statuses
        BY <2>2, StatusNames DEF Exists
      <3>2. St' = [St EXCEPT ![q] = StageOf("cleaned")] /\ Op' = Op
        BY <2>0, <2>2, <3>1, RegisterWrites
      <3>3. runs[q].status \in Statuses \cup {"absent"}
        BY <1>2 DEF RunRow
      <3>4. St[q] \notin {"none", "running", "changes_requested"} /\ StageOf("cleaned") = "cleaned"
        <4>1. StageOf(runs[q].status) \notin {"none", "running", "changes_requested"}
          BY <2>2, <3>3, NoStatusIsNone DEF StageOf
        <4> QED
          BY <1>3, <4>1, StageNames
      <3> QED
        BY <3>2, <3>4 DEF RegisterMoves
    <2> QED
      BY <1>10, <2>1, <2>2, CleanupIs DEF LifeInv
  <1>11. CASE \/ \E q \in Runs : CreateRunWorkspace(q) \/ HeartbeatTimer(q)
              \/ \E q \in Runs, force \in CleanupForces : CleanupGate(q, force)
              \/ CleanupRemove \/ LockEnvironment \/ UNCHANGED vars
    BY <1>4, <1>11 DEF CreateRunWorkspace, HeartbeatTimer, CleanupGate,
       CleanupRemove, LockEnvironment, execVars, vars
  <1> QED
    BY <1>5, <1>6, <1>7, <1>8, <1>9, <1>10, <1>11 DEF Next, RunStep

LEMMA RegisterStarts ==
    ASSUME Init, NEW r \in Runs
    PROVE  /\ runs[r].status = "absent" \/ runs[r].status = "changes_requested"
           /\ pc[r] = "idle" \/ pc[r] = "done"
  <1>1. PICK d \in Domains :
          runs = [q \in Runs |->
                      [status |-> IF q \in History THEN "changes_requested"
                                                   ELSE "absent",
                       domain |-> d, lease |-> 0,
                       parent |-> NoRun, attempt |-> 0, leased |-> FALSE]]
    BY DEF Init
  <1>2. runs[r].status = IF r \in History THEN "changes_requested" ELSE "absent"
    BY <1>1
  <1>3. pc[r] = IF r \in History THEN "done" ELSE "idle"
    BY DEF Init
  <1> QED
    BY <1>2, <1>3

\* For any number of runs, reviewers and cleanups: the rows of the runs table
\* move only as RunRegister lets them, which is what the other models take for
\* granted of a run (runDomainCoding, applyReviewDecision, recordCleanup,
\* forceFailFinalize).
THEOREM RunsImplementRegister == Spec => ImplementsRegister
  <1>1. Init => LifeInv /\ Register!RegisterInit
    <2> SUFFICES ASSUME Init PROVE LifeInv /\ Register!RegisterInit
      OBVIOUS
    <2>2. LifeInv
      BY DEF Init, LifeInv, GateLetThrough, Remembers
    <2>3. ASSUME NEW r \in Runs
          PROVE  StageOf(runs[r].status) \in Register!Stages
      <3>1. runs[r].status \in {"absent", "changes_requested"}
        BY RegisterStarts
      <3>2. StageOf(runs[r].status) \in {"none", "changes_requested"}
        BY <3>1, StageNames DEF Verdicts
      <3> QED
        BY <3>2 DEF Register!Stages, Register!Verdicts
    <2>4. [r \in Runs |-> StageOf(runs[r].status)] \in [Runs -> Register!Stages]
      BY <2>3
    <2>5. {r \in Runs : Writing(r)} = {}
      BY RegisterStarts DEF Writing
    <2> QED
      BY <2>2, <2>4, <2>5 DEF Register!RegisterInit
  <1>2. Base /\ LifeInv /\ [Next]_vars => LifeInv'
    BY LifeStep
  <1>3. RegisterMoves => [Register!RegisterNext]_(Register!registerVars)
    <2> SUFFICES ASSUME RegisterMoves
                 PROVE  [Register!RegisterNext]_(Register!registerVars)
      OBVIOUS
    <2>1. /\ Register!registerVars = <<St, Op>> /\ Register!Verdicts = Verdicts
          /\ {"generated", "verified", "needs_review"} \subseteq Register!Stages
      BY DEF Register!registerVars, St, Op, Register!Verdicts, Verdicts, Register!Stages
    <2>2. CASE St' = St /\ Op' = Op
      <3>1. UNCHANGED Register!registerVars
        BY <2>2 DEF Register!registerVars, St, Op
      <3> QED
        BY <3>1
    <2>3. ASSUME NEW r \in Runs, St[r] = "none", St' = [St EXCEPT ![r] = "running"],
                 Op' = Op \cup {r}
          PROVE  Register!Insert(r)
      BY <2>3 DEF Register!Insert, St, Op
    <2>4. ASSUME NEW r \in Runs, St' = St, Op' = Op \ {r}
          PROVE  Register!Leave(r)
      BY <2>4 DEF Register!Leave, St, Op
    <2>5. ASSUME NEW r \in Runs, Op' = Op, r \in Op, St' = [St EXCEPT ![r] = "failed"]
          PROVE  Register!FailRun(r)
      BY <2>5 DEF Register!FailRun, St, Op
    <2>6. ASSUME NEW r \in Runs, Op' = Op, r \in Op,
                 NEW s \in {"generated", "verified", "needs_review"},
                 St' = [St EXCEPT ![r] = s],
                 \/ St[r] = "running" /\ s = "generated"
                 \/ St[r] \in {"generated", "cleaned"} /\ s \in {"verified", "needs_review"}
                 \/ St[r] = "verified" /\ s = "needs_review"
          PROVE  Register!Proceed(r, s)
      <3>1. \/ St[r] \in DOMAIN Register!Later /\ s \in Register!Later[St[r]]
            \/ St[r] = "cleaned" /\ s \in {"verified", "needs_review"}
        BY <2>6 DEF Register!Later
      <3> QED
        BY <2>6, <3>1 DEF Register!Proceed, St, Op
    <2>7. ASSUME NEW r \in Runs, Op' = Op, St[r] = "needs_review", NEW v \in Verdicts,
                 St' = [St EXCEPT ![r] = v]
          PROVE  Register!Judge(r, v)
      BY <2>7 DEF Register!Judge, St, Op
    <2>8. ASSUME NEW r \in Runs, Op' = Op,
                 St[r] \notin {"none", "running", "changes_requested"},
                 St' = [St EXCEPT ![r] = "cleaned"]
          PROVE  Register!CleanUp(r)
      BY <2>8 DEF Register!CleanUp, St, Op
    <2> QED
      BY <2>1, <2>2, <2>3, <2>4, <2>5, <2>6, <2>7, <2>8
         DEF RegisterMoves, Register!RegisterNext
  <1>4. Base /\ LifeInv /\ [Next]_vars => [Register!RegisterNext]_(Register!registerVars)
    BY <1>3, LifeMoves
  <1> QED
    BY ExecInvariant, <1>1, <1>2, <1>4, PTL
       DEF Spec, ImplementsRegister, Register!RegisterSpec

-----------------------------------------------------------------------------
(***************************************************************************)
(* DiffGate.  A run proposes the surface of its normalised worktree, while *)
(* the policy and the budget were evaluated on the diff before the         *)
(* normalisation: the index it saw is gone, the working tree is the same.  *)
(* NormalisedIsSeen and SurfaceIsCounted compare the two diffs: whatever   *)
(* the index held, what is proposed was seen, and counted at least as      *)
(* large.  The invariant keeps the two evaluations tied to the tree.       *)
(***************************************************************************)

LEMMA LeastNumber ==
  ASSUME NEW T \in SUBSET Nat, T # {}
  PROVE  \E n \in T : \A m \in T : n =< m
<1>1. IsWellFoundedOn(OpToRel(<, Nat), Nat)
  BY NatLessThanWellFounded
<1>2. PICK n \in T : \A m \in T : ~(<<m, n>> \in OpToRel(<, Nat))
  BY <1>1, WFMin
<1>3. \A m \in T : ~(m < n)
  BY <1>2 DEF OpToRel
<1> QED
  BY <1>3

(* Induction over the size of a finite set: a set of numbers that holds each *)
(* number below which it holds all numbers is Nat.                           *)
LEMMA SizeInduction ==
  ASSUME NEW T \in SUBSET Nat, \A n \in Nat : (\A k \in Nat : k < n => k \in T) => n \in T
  PROVE  T = Nat
<1>1. SUFFICES ASSUME Nat \ T # {} PROVE FALSE
  OBVIOUS
<1>2. PICK n \in Nat \ T : \A m \in Nat \ T : n =< m
  BY <1>1, LeastNumber
<1>3. \A k \in Nat : k < n => k \in T
  BY <1>2
<1> QED
  BY <1>2, <1>3

-----------------------------------------------------------------------------
(* Sums over finite sets.                                                    *)

Chosen(S) == CHOOSE x \in S : TRUE

(* t holds the sum of f over every subset of S.                              *)
Sums(S, f, t) ==
  t = [s \in SUBSET S |-> IF s = {} THEN 0 ELSE f[Chosen(s)] + t[s \ {Chosen(s)}]]

LEMMA SumIsChosen ==
  ASSUME NEW S, NEW f
  PROVE  SumOver(S, f) = (CHOOSE t : Sums(S, f, t))[S]
BY Zenon DEF SumOver, MapThenSumSet, MapThenFoldSet, Sums, Chosen

LEMMA SmallerSets ==
  ASSUME NEW S, IsFiniteSet(S), NEW s \in SUBSET S, NEW x \in s
  PROVE  /\ s \ {x} \in SUBSET S /\ IsFiniteSet(s) /\ IsFiniteSet(s \ {x})
         /\ Cardinality(s) \in Nat /\ Cardinality(s \ {x}) \in Nat
         /\ Cardinality(s \ {x}) = Cardinality(s) - 1
<1>1. IsFiniteSet(s) /\ IsFiniteSet(s \ {x})
  BY FS_Subset, FS_RemoveElement
<1> QED
  BY <1>1, FS_RemoveElement, FS_CardinalityType

(* The function of the sums exists: it is built up by the size of the sets.  *)
LEMMA SumsExist ==
  ASSUME NEW S, IsFiniteSet(S), NEW f \in [S -> Nat]
  PROVE  \E t \in [SUBSET S -> Nat] : Sums(S, f, t)
<1> DEFINE Small(n) == {s \in SUBSET S : Cardinality(s) =< n}
           Partial(n, t) == /\ t \in [Small(n) -> Nat]
                            /\ \A s \in Small(n) :
                                 t[s] = IF s = {} THEN 0 ELSE f[Chosen(s)] + t[s \ {Chosen(s)}]
           T == {n \in Nat : \E t : Partial(n, t)}
<1>0. \A s \in SUBSET S : /\ Cardinality(s) \in Nat
                          /\ s # {} => /\ Chosen(s) \in s /\ s \ {Chosen(s)} \in SUBSET S
                                       /\ Cardinality(s \ {Chosen(s)}) = Cardinality(s) - 1
  <2> TAKE s \in SUBSET S
  <2>1. Cardinality(s) \in Nat
    BY FS_Subset, FS_CardinalityType
  <2>2. s # {} => Chosen(s) \in s
    BY DEF Chosen
  <2> QED
    BY <2>1, <2>2, SmallerSets
<1>1. ASSUME NEW n \in Nat, \A k \in Nat : k < n => \E t : Partial(k, t)
      PROVE  \E t : Partial(n, t)
  <2>1. CASE n = 0
    <3>1. Small(0) = {{}}
      <4>1. ASSUME NEW s \in SUBSET S, Cardinality(s) =< 0 PROVE s = {}
        <5>1. IsFiniteSet(s) /\ Cardinality(s) \in Nat
          BY FS_Subset, FS_CardinalityType
        <5> QED
          BY <4>1, <5>1, FS_EmptySet
      <4>2. Cardinality({}) = 0
        BY FS_EmptySet
      <4> QED
        BY <4>1, <4>2
    <3>2. Partial(0, [s \in Small(0) |-> 0])
      BY <3>1
    <3> QED
      BY <2>1, <3>2
  <2>2. CASE n # 0
    <3>1. n - 1 \in Nat /\ n - 1 < n
      BY <2>2
    <3>2. PICK t : Partial(n - 1, t)
      <4> HIDE DEF Partial
      <4> QED
        BY <1>1, <3>1
    <3> DEFINE g == [s \in Small(n) |-> IF s \in Small(n - 1) THEN t[s]
                                        ELSE f[Chosen(s)] + t[s \ {Chosen(s)}]]
    <3>3. \A s \in Small(n) : s # {} => s \ {Chosen(s)} \in Small(n - 1) /\ Chosen(s) \in S
      BY <1>0, <2>2
    <3>4. {} \in Small(n - 1) /\ \A s \in Small(n - 1) : s \in Small(n)
      <4>1. Cardinality({}) = 0 /\ {} \in SUBSET S
        BY FS_EmptySet
      <4>2. ASSUME NEW s \in SUBSET S, Cardinality(s) =< n - 1 PROVE Cardinality(s) =< n
        <5>1. Cardinality(s) \in Nat
          BY FS_Subset, FS_CardinalityType
        <5> QED
          BY <4>2, <5>1
      <4> QED
        BY <3>1, <4>1, <4>2
    <3> HIDE DEF Small
    <3>5. g \in [Small(n) -> Nat]
      <4>1. ASSUME NEW s \in Small(n)
            PROVE  (IF s \in Small(n - 1) THEN t[s] ELSE f[Chosen(s)] + t[s \ {Chosen(s)}]) \in Nat
        <5>1. CASE s \in Small(n - 1)
          BY <3>2, <5>1
        <5>2. CASE s \notin Small(n - 1)
          <6>1. s # {}
            BY <3>4, <5>2
          <6>2. f[Chosen(s)] \in Nat /\ t[s \ {Chosen(s)}] \in Nat
            BY <3>2, <3>3, <4>1, <6>1
          <6> QED
            BY <5>2, <6>2
        <5> QED
          BY <5>1, <5>2
      <4> QED
        BY <4>1
    <3>6. ASSUME NEW s \in Small(n)
          PROVE  g[s] = IF s = {} THEN 0 ELSE f[Chosen(s)] + g[s \ {Chosen(s)}]
      <4>1. CASE s = {}
        BY <3>2, <3>4, <3>6, <4>1
      <4>2. CASE s # {}
        <5>1. s \ {Chosen(s)} \in Small(n - 1) /\ s \ {Chosen(s)} \in Small(n)
          BY <3>3, <3>4, <3>6, <4>2
        <5>2. g[s \ {Chosen(s)}] = t[s \ {Chosen(s)}]
          BY <5>1
        <5>3. g[s] = f[Chosen(s)] + t[s \ {Chosen(s)}]
          BY <3>2, <3>6, <4>2
        <5> QED
          BY <4>2, <5>2, <5>3
      <4> QED
        BY <4>1, <4>2
    <3>7. Partial(n, g)
      BY <3>5, <3>6
    <3> QED
      BY <3>7
  <2> QED
    BY <2>1, <2>2
<1>2. T = Nat
  <2> HIDE DEF Partial
  <2>1. T \in SUBSET Nat /\ \A n \in Nat : (\A k \in Nat : k < n => k \in T) => n \in T
    BY <1>1
  <2> HIDE DEF T
  <2> QED
    BY <2>1, SizeInduction
<1>3. Cardinality(S) \in Nat
  BY FS_CardinalityType
<1>4. PICK t : Partial(Cardinality(S), t)
  BY <1>2, <1>3
<1>5. Small(Cardinality(S)) = SUBSET S
  BY FS_Subset
<1>6. t \in [SUBSET S -> Nat]
  BY <1>4, <1>5
<1>7. \A s \in SUBSET S : t[s] = IF s = {} THEN 0 ELSE f[Chosen(s)] + t[s \ {Chosen(s)}]
  BY <1>4, <1>5
<1>8. Sums(S, f, t)
  BY <1>6, <1>7 DEF Sums
<1> QED
  BY <1>6, <1>8

(* Two such functions agree where both are defined.                          *)
LEMMA SumsAgree ==
  ASSUME NEW S, IsFiniteSet(S), NEW R \in SUBSET S, NEW f, NEW t, NEW u, Sums(S, f, t), Sums(R, f, u)
  PROVE  \A s \in SUBSET R : t[s] = u[s]
<1> DEFINE T == {n \in Nat : \A s \in SUBSET R : Cardinality(s) = n => t[s] = u[s]}
<1>1. ASSUME NEW n \in Nat, \A k \in Nat : k < n => k \in T PROVE n \in T
  <2>1. SUFFICES ASSUME NEW s \in SUBSET R, Cardinality(s) = n PROVE t[s] = u[s]
    OBVIOUS
  <2>2. s \in SUBSET S
    OBVIOUS
  <2>3. CASE s = {}
    BY <2>2, <2>3 DEF Sums
  <2>4. CASE s # {}
    <3>1. Chosen(s) \in s
      BY <2>4 DEF Chosen
    <3> DEFINE r == s \ {Chosen(s)}
    <3>2. r \in SUBSET R /\ r \in SUBSET S /\ Cardinality(r) = n - 1 /\ Cardinality(r) \in Nat
      BY <2>1, <2>2, <3>1, SmallerSets
    <3>3. t[r] = u[r]
      BY <1>1, <3>2
    <3>4. t[s] = f[Chosen(s)] + t[r] /\ u[s] = f[Chosen(s)] + u[r]
      BY <2>2, <2>4 DEF Sums
    <3> QED
      BY <3>3, <3>4
  <2> QED
    BY <2>3, <2>4
<1>2. T = Nat
  <2>1. T \in SUBSET Nat
    OBVIOUS
  <2> HIDE DEF T
  <2> QED
    BY <1>1, <2>1, SizeInduction
<1>3. \A s \in SUBSET R : Cardinality(s) \in Nat
  BY FS_Subset, FS_CardinalityType
<1> QED
  BY <1>2, <1>3

LEMMA SumFacts ==
  ASSUME NEW S, IsFiniteSet(S), NEW f \in [S -> Nat]
  PROVE  /\ \A s \in SUBSET S : SumOver(s, f) \in Nat
         /\ SumOver({}, f) = 0
         /\ \A s \in SUBSET S : s # {} =>
              SumOver(s, f) = f[Chosen(s)] + SumOver(s \ {Chosen(s)}, f)
<1>1. PICK t \in [SUBSET S -> Nat] : Sums(S, f, t)
  BY SumsExist
<1>2. ASSUME NEW s \in SUBSET S PROVE SumOver(s, f) = t[s]
  <2>1. IsFiniteSet(s) /\ s \in SUBSET s
    BY FS_Subset
  <2> DEFINE g == [x \in s |-> f[x]]
             u == [r \in SUBSET s |-> t[r]]
  <2>2. Sums(s, f, u)
    <3>1. ASSUME NEW r \in SUBSET s
          PROVE  u[r] = IF r = {} THEN 0 ELSE f[Chosen(r)] + u[r \ {Chosen(r)}]
      <4>1. r \in SUBSET S /\ r \ {Chosen(r)} \in SUBSET s
        OBVIOUS
      <4>2. t[r] = IF r = {} THEN 0 ELSE f[Chosen(r)] + t[r \ {Chosen(r)}]
        BY <1>1, <4>1 DEF Sums
      <4> QED
        BY <4>1, <4>2
    <3> QED
      BY <3>1 DEF Sums
  <2> HIDE DEF u
  <2>3. Sums(s, f, CHOOSE v : Sums(s, f, v))
    BY <2>2
  <2>4. (CHOOSE v : Sums(s, f, v))[s] = t[s]
    BY <1>1, <2>1, <2>3, SumsAgree
  <2> QED
    BY <2>4, SumIsChosen
<1>3. {} \in SUBSET S /\ \A s \in SUBSET S : s \ {Chosen(s)} \in SUBSET S
  OBVIOUS
<1>4. \A s \in SUBSET S : t[s] = IF s = {} THEN 0 ELSE f[Chosen(s)] + t[s \ {Chosen(s)}]
  BY <1>1 DEF Sums
<1> QED
  BY <1>1, <1>2, <1>3, <1>4

(* Any element may be taken out of a sum first.                              *)
LEMMA SumWithout ==
  ASSUME NEW S, IsFiniteSet(S), NEW f \in [S -> Nat], NEW s \in SUBSET S, NEW x \in s
  PROVE  SumOver(s, f) = f[x] + SumOver(s \ {x}, f)
<1> DEFINE Holds(r) == \A y \in r : SumOver(r, f) = f[y] + SumOver(r \ {y}, f)
           T == {n \in Nat : \A r \in SUBSET S : Cardinality(r) = n => Holds(r)}
<1>1. ASSUME NEW n \in Nat, \A k \in Nat : k < n => k \in T PROVE n \in T
  <2>1. SUFFICES ASSUME NEW r \in SUBSET S, Cardinality(r) = n, NEW y \in r
                 PROVE  SumOver(r, f) = f[y] + SumOver(r \ {y}, f)
    OBVIOUS
  <2> DEFINE c == Chosen(r)
             q == r \ {c}
             p == r \ {y}
  <2>2. c \in r /\ SumOver(r, f) = f[c] + SumOver(q, f)
    BY SumFacts DEF Chosen
  <2> HIDE DEF c
  <2>3. CASE y = c
    BY <2>2, <2>3
  <2>4. CASE y # c
    <3>0. r \in SUBSET S /\ q \in SUBSET S /\ p \in SUBSET S
      OBVIOUS
    <3>a. Cardinality(r) \in Nat /\ Cardinality(q) \in Nat /\ Cardinality(q) = Cardinality(r) - 1
      BY <2>2, <3>0, SmallerSets
    <3>b. Cardinality(p) \in Nat /\ Cardinality(p) = Cardinality(r) - 1
      BY <3>0, SmallerSets
    <3>1. /\ q \in SUBSET S /\ Cardinality(q) = n - 1 /\ p \in SUBSET S /\ Cardinality(p) = n - 1
          /\ n - 1 \in Nat
      BY <2>1, <3>0, <3>a, <3>b
    <3>2. Holds(q) /\ Holds(p)
      BY <1>1, <3>1
    <3>3. SumOver(q, f) = f[y] + SumOver(q \ {y}, f) /\ SumOver(p, f) = f[c] + SumOver(p \ {c}, f)
      BY <2>2, <2>4, <3>2
    <3>4. q \ {y} = p \ {c} /\ q \ {y} \in SUBSET S
      OBVIOUS
    <3>5. SumOver(q \ {y}, f) \in Nat /\ f[y] \in Nat /\ f[c] \in Nat
      BY <2>2, <3>4, SumFacts
    <3> HIDE DEF p, q
    <3>6. SumOver(p, f) = f[c] + SumOver(q \ {y}, f)
      BY <3>3, <3>4
    <3> QED
      BY <2>2, <3>3, <3>5, <3>6 DEF p
  <2> QED
    BY <2>3, <2>4
<1>2. T = Nat
  <2>1. T \in SUBSET Nat
    OBVIOUS
  <2> HIDE DEF T
  <2> QED
    BY <1>1, <2>1, SizeInduction
<1>3. Cardinality(s) \in Nat
  BY FS_Subset, FS_CardinalityType
<1> QED
  BY <1>2, <1>3

(* A sum is at most two others when every term of it is.                     *)
LEMMA SumBound ==
  ASSUME NEW S, IsFiniteSet(S), NEW f \in [S -> Nat], NEW g \in [S -> Nat], NEW h \in [S -> Nat],
         NEW s \in SUBSET S, NEW a \in SUBSET S, NEW b \in SUBSET S,
         \A x \in s : f[x] =< (IF x \in a THEN g[x] ELSE 0) + (IF x \in b THEN h[x] ELSE 0)
  PROVE  SumOver(s, f) =< SumOver(a, g) + SumOver(b, h)
<1> DEFINE Below(r, p, q) ==
             \A x \in r : f[x] =< (IF x \in p THEN g[x] ELSE 0) + (IF x \in q THEN h[x] ELSE 0)
           Holds(r) == \A p, q \in SUBSET S : Below(r, p, q) =>
                          SumOver(r, f) =< SumOver(p, g) + SumOver(q, h)
           T == {n \in Nat : \A r \in SUBSET S : Cardinality(r) = n => Holds(r)}
<1>0. \A r \in SUBSET S : SumOver(r, f) \in Nat /\ SumOver(r, g) \in Nat /\ SumOver(r, h) \in Nat
  BY SumFacts
<1>1. ASSUME NEW n \in Nat, \A k \in Nat : k < n => k \in T PROVE n \in T
  <2>1. SUFFICES ASSUME NEW r \in SUBSET S, Cardinality(r) = n,
                        NEW p \in SUBSET S, NEW q \in SUBSET S, Below(r, p, q)
                 PROVE  SumOver(r, f) =< SumOver(p, g) + SumOver(q, h)
    OBVIOUS
  <2>2. CASE r = {}
    <3>1. SumOver(r, f) = 0
      BY <2>2, SumFacts
    <3> QED
      BY <1>0, <3>1
  <2>3. CASE r # {}
    <3>1. PICK x \in r : TRUE
      BY <2>3
    <3> DEFINE r1 == r \ {x}
               p1 == p \ {x}
               q1 == q \ {x}
    <3>a. r1 \in SUBSET S /\ p1 \in SUBSET S /\ q1 \in SUBSET S
      OBVIOUS
    <3>b. /\ Cardinality(r) \in Nat /\ Cardinality(r1) \in Nat
          /\ Cardinality(r1) = Cardinality(r) - 1
      BY SmallerSets
    <3>2. /\ r1 \in SUBSET S /\ p1 \in SUBSET S /\ q1 \in SUBSET S
          /\ Cardinality(r1) = n - 1 /\ n - 1 \in Nat
      BY <2>1, <3>a, <3>b
    <3>3. Below(r1, p1, q1)
      BY <2>1
    <3>4. SumOver(r1, f) =< SumOver(p1, g) + SumOver(q1, h)
      BY <1>1, <3>2, <3>3
    <3>5. SumOver(r, f) = f[x] + SumOver(r1, f)
      BY SumWithout
    <3>6. SumOver(p, g) = (IF x \in p THEN g[x] ELSE 0) + SumOver(p1, g)
      <4>1. CASE x \in p
        <5>1. SumOver(p, g) = g[x] + SumOver(p1, g)
          BY <4>1, SumWithout
        <5> QED
          BY <4>1, <5>1
      <4>2. CASE x \notin p
        <5>1. p1 = p /\ SumOver(p, g) \in Nat
          BY <1>0, <4>2
        <5> HIDE DEF p1
        <5>2. SumOver(p, g) = 0 + SumOver(p1, g)
          BY <5>1
        <5> QED
          BY <4>2, <5>2
      <4> QED
        BY <4>1, <4>2
    <3>7. SumOver(q, h) = (IF x \in q THEN h[x] ELSE 0) + SumOver(q1, h)
      <4>1. CASE x \in q
        <5>1. SumOver(q, h) = h[x] + SumOver(q1, h)
          BY <4>1, SumWithout
        <5> QED
          BY <4>1, <5>1
      <4>2. CASE x \notin q
        <5>1. q1 = q /\ SumOver(q, h) \in Nat
          BY <1>0, <4>2
        <5> HIDE DEF q1
        <5>2. SumOver(q, h) = 0 + SumOver(q1, h)
          BY <5>1
        <5> QED
          BY <4>2, <5>2
      <4> QED
        BY <4>1, <4>2
    <3>8. f[x] =< (IF x \in p THEN g[x] ELSE 0) + (IF x \in q THEN h[x] ELSE 0)
      BY <2>1
    <3>9. /\ f[x] \in Nat /\ g[x] \in Nat /\ h[x] \in Nat
          /\ SumOver(r1, f) \in Nat /\ SumOver(p1, g) \in Nat /\ SumOver(q1, h) \in Nat
      BY <1>0, <3>2
    <3> HIDE DEF r1, p1, q1
    <3> QED
      BY <3>4, <3>5, <3>6, <3>7, <3>8, <3>9
  <2> QED
    BY <2>2, <2>3
<1>2. T = Nat
  <2>1. T \in SUBSET Nat
    OBVIOUS
  <2> HIDE DEF T
  <2> QED
    BY <1>1, <2>1, SizeInduction
<1>3. Cardinality(s) \in Nat
  BY FS_Subset, FS_CardinalityType
<1>4. Holds(s)
  BY <1>2, <1>3
<1> QED
  BY <1>4

-----------------------------------------------------------------------------
(* What one diff says, and what the normalised one says after it.            *)

Paths(b, w, i) ==
  TrackedIn(b, w, i) \cup StagedIn(b, i) \cup (UntrackedIn(w, i) \ IgnoreUntracked)

LEMMA DiffFields ==
  ASSUME NEW b, NEW w, NEW i
  PROVE  LET v == DiffAndValidate(b, w, i)
         IN /\ v.ok
            /\ v.tracked = TrackedIn(b, w, i)
            /\ v.kept = UntrackedIn(w, i) \ IgnoreUntracked
            /\ v.violations = {p \in Paths(b, w, i) : ~InWriteScope(p)}
            /\ v.safety = IF v.violations = {} THEN "allowed" ELSE "denied"
            /\ v.stat = StatWithAllowedUntracked(w, CombineNumStat(b, w, i), v.kept \ v.violations)
BY DEF DiffAndValidate, ValidateChangedPaths, PartitionUntracked, Paths

Surface(b, w) == TrackedIn(b, w, b) \cup (UntrackedIn(w, b) \ IgnoreUntracked)

(* What the normalised diff shows, the diff before it showed too.            *)
LEMMA NormalisedIsSeen ==
  ASSUME NEW b \in Tree, NEW w \in Tree, NEW i \in Tree
  PROVE  /\ Surface(b, w) \subseteq Paths(b, w, i)
         /\ Surface(b, w) \subseteq RunPaths
         /\ \A p \in TrackedIn(b, w, b) : b[p] # 0
BY DEF Surface, Paths, TrackedIn, UntrackedIn, StagedIn, Tree

LEMMA MaxOfTwo ==
  ASSUME NEW m \in Nat, NEW n \in Nat
  PROVE  Max({m, n}) \in Nat /\ Max({m, n}) >= m /\ Max({m, n}) >= n
<1>1. \E x \in {m, n} : \A y \in {m, n} : x >= y
  OBVIOUS
<1>2. Max({m, n}) \in {m, n} /\ \A y \in {m, n} : Max({m, n}) >= y
  BY <1>1 DEF Max
<1> QED
  BY <1>2

-----------------------------------------------------------------------------
(* The change budget.                                                        *)

LEMMA LimitsAreNumbers ==
  LET budget == ApplyChangeBudgetOverride(RunBudget)
  IN /\ budget.maxDeletedLines \in Nat /\ budget.maxTotalChangedLines \in Nat
     /\ budget.maxDeletedFiles \in Nat /\ budget.maxChangedFiles \in Nat
     /\ budget.enforce = RunBudget.enforce
<1> DEFINE budget == ApplyChangeBudgetOverride(RunBudget)
<1>1. DOMAIN RunBudget = Limits \cup {"enforce"} /\ RunBudget.enforce \in BOOLEAN
  BY BudgetsAreNumbers DEF Limits
<1>2. \A l \in Limits : RunBudget[l] \in Nat
  BY BudgetsAreNumbers DEF Limits
<1>3. ASSUME NEW l \in Limits PROVE budget[l] \in Nat
  <2>1. budget[l] = IF l \in Limits \cap DOMAIN BudgetOverride /\ RunBudget.enforce
                    THEN Max({RunBudget[l], BudgetOverride[l]}) ELSE RunBudget[l]
    BY <1>1 DEF ApplyChangeBudgetOverride
  <2>2. CASE l \in DOMAIN BudgetOverride /\ RunBudget.enforce
    <3>1. BudgetOverride[l] \in Nat
      BY <2>2, BudgetsAreNumbers
    <3>2. Max({RunBudget[l], BudgetOverride[l]}) \in Nat
      BY <1>2, <3>1, MaxOfTwo
    <3> QED
      BY <2>1, <2>2, <3>2
  <2>3. CASE ~(l \in DOMAIN BudgetOverride /\ RunBudget.enforce)
    BY <1>2, <2>1, <2>3
  <2> QED
    BY <2>2, <2>3
<1>4. budget.enforce = RunBudget.enforce
  BY <1>1 DEF ApplyChangeBudgetOverride, Limits
<1> QED
  BY <1>3, <1>4 DEF Limits

Counts(s) == /\ s.filesChanged \in Nat /\ s.insertions \in Nat
             /\ s.deletions \in Nat /\ s.deletedFiles \in Nat
NoLarger(s, t) == /\ s.filesChanged =< t.filesChanged /\ s.insertions =< t.insertions
               /\ s.deletions =< t.deletions /\ s.deletedFiles =< t.deletedFiles

(* A change that is no larger keeps a budget that a larger one kept.         *)
LEMMA SmallerKeepsTheBudget ==
  ASSUME NEW s, NEW t, Counts(s), Counts(t), NoLarger(s, t), RunBudget.enforce,
         EvaluateChangeBudget(t) # "exceeded"
  PROVE  EvaluateChangeBudget(s) = "within"
<1> DEFINE budget == ApplyChangeBudgetOverride(RunBudget)
<1>1. /\ budget.maxDeletedLines \in Nat /\ budget.maxTotalChangedLines \in Nat
      /\ budget.maxDeletedFiles \in Nat /\ budget.maxChangedFiles \in Nat
      /\ budget.enforce
  BY LimitsAreNumbers
<1> HIDE DEF budget
<1>2. ~(\/ t.deletions > budget.maxDeletedLines
        \/ t.insertions + t.deletions > budget.maxTotalChangedLines
        \/ t.deletedFiles > budget.maxDeletedFiles
        \/ t.filesChanged > budget.maxChangedFiles)
  BY <1>1 DEF EvaluateChangeBudget, ValidateDiffBudget, budget
<1>3. ~(\/ s.deletions > budget.maxDeletedLines
        \/ s.insertions + s.deletions > budget.maxTotalChangedLines
        \/ s.deletedFiles > budget.maxDeletedFiles
        \/ s.filesChanged > budget.maxChangedFiles)
  BY <1>1, <1>2 DEF Counts, NoLarger
<1> QED
  BY <1>3 DEF EvaluateChangeBudget, ValidateDiffBudget, budget

(* The surface a run proposes, counted on its working tree, is no larger     *)
(* than what the diff that was validated counted.                            *)
LEMMA SurfaceIsCounted ==
  ASSUME NEW b \in Tree, NEW w \in Tree, NEW i \in Tree,
         DiffAndValidate(b, w, i).violations = {},
         Surface(b, w) \cap IgnoreUntracked = {}
  PROVE  LET s == [filesChanged |-> Cardinality(Surface(b, w)),
                   insertions   |-> SumOver(Surface(b, w), w),
                   deletions    |-> SumOver(Surface(b, w), b),
                   deletedFiles |-> Cardinality({p \in Surface(b, w) : w[p] = 0})]
         IN /\ Counts(s) /\ Counts(DiffAndValidate(b, w, i).stat)
            /\ NoLarger(s, DiffAndValidate(b, w, i).stat)
<1> DEFINE tracked == TrackedIn(b, w, i)
           seen    == tracked \cup StagedIn(b, i)
           kept    == UntrackedIn(w, i) \ IgnoreUntracked
           now     == Compared(w, i)
           most    == [p \in RunPaths |-> Max({IF p \in tracked THEN now[p] ELSE 0,
                                               IF p \in StagedIn(b, i) THEN i[p] ELSE 0})]
           gone    == {p \in seen : b[p] # 0 /\ 0 \in {now[p], i[p]}}
           S       == Surface(b, w)
           away    == {p \in S : w[p] = 0}
           stat    == DiffAndValidate(b, w, i).stat
<1>1. /\ stat.filesChanged = Cardinality(seen) + Cardinality(kept)
      /\ stat.insertions = SumOver(seen, most) + SumOver(kept, w)
      /\ stat.deletions = SumOver(seen, b)
      /\ stat.deletedFiles = Cardinality(gone)
  <2>1. stat = StatWithAllowedUntracked(w, CombineNumStat(b, w, i), kept)
    <3> DEFINE v == DiffAndValidate(b, w, i)
    <3>1. v.stat = StatWithAllowedUntracked(w, CombineNumStat(b, w, i), v.kept \ v.violations)
      BY DiffFields
    <3>2. v.kept = kept
      BY DiffFields
    <3>3. v.violations = {}
      OBVIOUS
    <3> HIDE DEF v, kept
    <3>4. v.kept \ v.violations = kept
      BY <3>2, <3>3
    <3> QED
      BY <3>1, <3>4 DEF v
  <2> DEFINE t == CombineNumStat(b, w, i)
  <2>2. t = [filesChanged |-> Cardinality(seen), insertions |-> SumOver(seen, most),
             deletions |-> SumOver(seen, b), deletedFiles |-> Cardinality(gone)]
    BY DEF CombineNumStat
  <2> HIDE DEF tracked, seen, kept, now, most, gone, t
  <2>3. stat = [t EXCEPT !.filesChanged = t.filesChanged + Cardinality(kept),
                         !.insertions = t.insertions + SumOver(kept, w)]
    BY <2>1 DEF StatWithAllowedUntracked, t
  <2> QED
    BY <2>2, <2>3
<1>2. seen \in SUBSET RunPaths /\ kept \in SUBSET RunPaths /\ S \in SUBSET RunPaths
  BY NormalisedIsSeen DEF TrackedIn, StagedIn, UntrackedIn
<1>3. ASSUME NEW p \in RunPaths PROVE b[p] \in Nat /\ w[p] \in Nat /\ i[p] \in Nat /\ now[p] \in Nat
  <2>1. b[p] \in Nat /\ w[p] \in Nat /\ i[p] \in Nat
    BY RunsAreFinite DEF Tree
  <2> QED
    BY <2>1 DEF Compared
<1>4. ASSUME NEW p \in RunPaths
      PROVE  most[p] \in Nat /\ (p \in tracked => most[p] >= now[p])
  <2> DEFINE m == IF p \in tracked THEN now[p] ELSE 0
             n == IF p \in StagedIn(b, i) THEN i[p] ELSE 0
  <2>1. m \in Nat /\ n \in Nat
    BY <1>3
  <2>2. most[p] = Max({m, n})
    OBVIOUS
  <2>3. p \in tracked => m = now[p]
    OBVIOUS
  <2> HIDE DEF m, n, most, tracked, now
  <2>4. most[p] \in Nat /\ most[p] >= m
    BY <2>1, <2>2, MaxOfTwo
  <2> QED
    BY <2>3, <2>4
<1>5. most \in [RunPaths -> Nat]
  BY <1>4
<1>6. b \in [RunPaths -> Nat] /\ w \in [RunPaths -> Nat]
  BY RunsAreFinite DEF Tree
<1>7. ASSUME NEW p \in S
      PROVE  /\ p \in seen \cup kept
             /\ b[p] # 0 => p \in seen
             /\ p \notin kept => p \in tracked /\ now[p] = w[p]
             /\ w[p] = 0 => p \in gone
  BY <1>2 DEF Surface, TrackedIn, StagedIn, UntrackedIn, Compared, Tree
<1> HIDE DEF tracked, seen, kept, now, most, gone, S, away
<1>8. SumOver(S, w) =< SumOver(seen, most) + SumOver(kept, w)
  <2>1. ASSUME NEW p \in S
        PROVE  w[p] =< (IF p \in seen THEN most[p] ELSE 0) + (IF p \in kept THEN w[p] ELSE 0)
    <3>1. p \in RunPaths /\ w[p] \in Nat /\ most[p] \in Nat
      BY <1>2, <1>5, <1>6
    <3>2. CASE p \in kept
      BY <3>1, <3>2
    <3>3. CASE p \notin kept
      <4>1. p \in seen /\ most[p] >= w[p]
        BY <1>4, <1>7, <3>1, <3>3
      <4> QED
        BY <3>1, <3>3, <4>1
    <3> QED
      BY <3>2, <3>3
  <2> QED
    BY <1>2, <1>5, <1>6, <2>1, RunsAreFinite, SumBound
<1>9. SumOver(S, b) =< SumOver(seen, b)
  <2>1. ASSUME NEW p \in S
        PROVE  b[p] =< (IF p \in seen THEN b[p] ELSE 0) + (IF p \in {} THEN b[p] ELSE 0)
    <3>1. b[p] \in Nat
      BY <1>2, <1>6
    <3> QED
      BY <1>7, <3>1
  <2>2. SumOver(S, b) =< SumOver(seen, b) + SumOver({}, b)
    BY <1>2, <1>6, <2>1, RunsAreFinite, SumBound
  <2>3. SumOver({}, b) = 0 /\ SumOver(seen, b) \in Nat
    BY <1>2, <1>6, RunsAreFinite, SumFacts
  <2> QED
    BY <2>2, <2>3
<1>10. /\ IsFiniteSet(seen) /\ IsFiniteSet(kept) /\ IsFiniteSet(S) /\ IsFiniteSet(gone) /\ IsFiniteSet(away)
  BY <1>2, RunsAreFinite, FS_Subset DEF gone, away
<1>11. Cardinality(S) =< Cardinality(seen) + Cardinality(kept)
  <2>1. S \subseteq seen \cup kept
    BY <1>7
  <2>2. /\ IsFiniteSet(seen \cup kept)
        /\ Cardinality(seen \cup kept) = Cardinality(seen) + Cardinality(kept) - Cardinality(seen \cap kept)
    BY <1>10, FS_Union
  <2>3. Cardinality(S) =< Cardinality(seen \cup kept)
    BY <2>1, <2>2, FS_Subset
  <2>4. /\ Cardinality(seen) \in Nat /\ Cardinality(kept) \in Nat /\ Cardinality(S) \in Nat
        /\ Cardinality(seen \cap kept) \in Nat
    BY <1>10, FS_Intersection, FS_CardinalityType
  <2> QED
    BY <2>2, <2>3, <2>4
<1>12. Cardinality(away) =< Cardinality(gone)
  <2>1. away \subseteq gone
    BY <1>7 DEF away
  <2> QED
    BY <1>10, <2>1, FS_Subset
<1>13. /\ Cardinality(S) \in Nat /\ Cardinality(seen) \in Nat /\ Cardinality(kept) \in Nat
       /\ Cardinality(away) \in Nat /\ Cardinality(gone) \in Nat
  BY <1>10, FS_CardinalityType
<1>14. /\ SumOver(S, w) \in Nat /\ SumOver(S, b) \in Nat /\ SumOver(seen, most) \in Nat
       /\ SumOver(kept, w) \in Nat /\ SumOver(seen, b) \in Nat
  BY <1>2, <1>5, <1>6, RunsAreFinite, SumFacts
<1> HIDE DEF stat
<1> DEFINE s == [filesChanged |-> Cardinality(S), insertions |-> SumOver(S, w),
                 deletions |-> SumOver(S, b), deletedFiles |-> Cardinality(away)]
<1>15. Counts(stat) /\ Counts(s)
  BY <1>1, <1>13, <1>14 DEF Counts
<1>16. NoLarger(s, stat)
  BY <1>1, <1>8, <1>9, <1>11, <1>12 DEF NoLarger
<1> QED
  BY <1>15, <1>16 DEF S, away, stat

-----------------------------------------------------------------------------
(* The inductive invariant of a coding run.                                  *)

Based == {"workspace", "workspace-carry", "carry", "copy", "coder", "post-codex",
          "commands", "post-command", "evaluated", "artifacts"}

GateTypes ==
  /\ tips \in [remote: Commits \cup {NoCommit}, local: Commits \cup {NoCommit}]
  /\ parent \in [status: STRING, safety: STRING, base: Commits, tree: Tree,
                 exists: BOOLEAN]
  /\ wt \in Tree /\ index \in Tree
  /\ edits \in Nat
  /\ pre = [view |-> pre.view, budget |-> pre.budget]

BaseIsChosen == step \in Based => baseSha \in Commits

ParentIsVetted ==
  parent.status \in {"needs_review", "approved", "changes_requested"} =>
      parent.safety = "allowed"

(* Only the work of a vetted parent on this base is carried, and copied path *)
(* by path into an untouched worktree.                                       *)
CarryProgress ==
  /\ step \in {"workspace-carry", "carry", "copy"} =>
        parent.base = baseSha /\ parent.safety = "allowed"
  /\ step = "carry" => wt = BaseOf(baseSha)
  /\ step = "copy" => carried \subseteq ParentSurface
  /\ step = "copy" =>
        \A p \in RunPaths :
          wt[p] = IF p \in ParentSurface \ carried THEN parent.tree[p] ELSE BaseOf(baseSha)[p]

DiffNow(i) == DiffAndValidate(BaseOf(baseSha), wt, i)

(* The evaluation is of the worktree as it stands ...                        *)
EvaluationIsCurrent ==
  step = "evaluated" =>
      \/ view = NoView
      \/ view = DiffNow(index) /\ pre.budget = EvaluateChangeBudget(view.stat)

(* ... and stays the evaluation of that worktree once the index is folded.   *)
NormalisationIsFaithful ==
  step = "artifacts" =>
      \/ view = NoView
      \/ /\ view = DiffNow(BaseOf(baseSha))
         /\ \E i \in Tree : /\ pre.view = DiffNow(i)
                            /\ pre.budget = EvaluateChangeBudget(pre.view.stat)

NothingProposed == step # "done" => proposal = NoProposal

GateInvariant ==
  /\ GateTypes /\ BaseIsChosen /\ ParentIsVetted /\ CarryProgress
  /\ EvaluationIsCurrent /\ NormalisationIsFaithful /\ NothingProposed
  /\ CarryIsWhole /\ ReviewedIsVetted /\ DeniedBytesStayOut

(* A run that has proposed nothing, or ended on an error, shows nothing.     *)
LEMMA NothingIsShown ==
  ASSUME \/ proposal' = NoProposal
         \/ proposal' = [NoProposal EXCEPT !.status = "failed-internal-error"]
  PROVE  ReviewedIsVetted' /\ DeniedBytesStayOut'
<1>1. /\ proposal'.status # "needs_review"
      /\ proposal'.patch = {} /\ proposal'.untrackedPatch = {} /\ proposal'.salvage = {}
  BY DEF NoProposal
<1>2. ReviewedIsVetted'
  BY <1>1 DEF ReviewedIsVetted
<1>3. DeniedBytesStayOut'
  BY <1>1 DEF DeniedBytesStayOut
<1> QED
  BY <1>2, <1>3

LEMMA ErrorShowsNothing ==
  ASSUME NothingProposed, step # "done", InternalError
  PROVE  step' = "done" /\ ReviewedIsVetted' /\ DeniedBytesStayOut'
<1>1. step' = "done" /\ proposal' = [NoProposal EXCEPT !.status = "failed-internal-error"]
  BY DEF NothingProposed, InternalError, Finalize
<1> QED
  BY <1>1, NothingIsShown

LEMMA GateStarts ==
  ASSUME GateInit
  PROVE  GateInvariant
<1>1. step = "gate" /\ proposal = NoProposal
  BY DEF GateInit
<1>2. GateTypes
  <2>1. wt \in Tree /\ index \in Tree
    BY RunsAreFinite DEF GateInit, Tree
  <2>2. edits \in Nat /\ pre = [view |-> pre.view, budget |-> pre.budget]
    BY DEF GateInit
  <2>3. tips \in InitialTips /\ parent \in ParentRuns
    BY DEF GateInit
  <2> QED
    BY <2>1, <2>2, <2>3, TipsAreCommits, ParentsAreRuns DEF GateTypes
<1>3. ParentIsVetted
  BY DEF GateInit, ParentFits, ParentIsVetted
<1>4. ReviewedIsVetted /\ DeniedBytesStayOut
  BY <1>1 DEF ReviewedIsVetted, DeniedBytesStayOut, NoProposal
<1> QED
  BY <1>1, <1>2, <1>3, <1>4 DEF GateInvariant, BaseIsChosen, Based, CarryProgress,
     EvaluationIsCurrent, NormalisationIsFaithful, NothingProposed, CarryIsWhole

(* The steps before the base is fixed.                                       *)
LEMMA ResolvedIsCommit ==
  ASSUME GateTypes, NEW fetched \in BOOLEAN, ResolveBaseSha(fetched) # NoCommit
  PROVE  ResolveBaseSha(fetched) \in Commits
BY DEF GateTypes, ResolveBaseSha

LEMMA ContinuationStep ==
  ASSUME GateInvariant, NEW fetched \in BOOLEAN, GateContinuation(fetched)
  PROVE  GateInvariant'
<1> USE DEF GateInvariant
<1>1. /\ step = "gate" /\ step' \in {"workspace", "workspace-carry", "resolve"}
      /\ proposal' = NoProposal
  BY DEF GateContinuation, NothingProposed
<1>2. GateTypes' /\ ParentIsVetted'
  BY DEF GateContinuation, GateTypes, ParentIsVetted
<1>3. BaseIsChosen'
  BY <1>1, ResolvedIsCommit DEF GateContinuation, BaseIsChosen, Based
<1>4. CarryProgress'
  <2>1. SUFFICES ASSUME step' = "workspace-carry"
                 PROVE  parent'.base = baseSha' /\ parent'.safety = "allowed"
    BY <1>1 DEF CarryProgress
  <2> QED
    BY <2>1 DEF GateContinuation, ParentIsVetted, IsValidatedContinuationParent
<1> QED
  BY <1>1, <1>2, <1>3, <1>4, NothingIsShown
     DEF EvaluationIsCurrent, NormalisationIsFaithful, NothingProposed, CarryIsWhole

LEMMA ResolveStep ==
  ASSUME GateInvariant, NEW fetched \in BOOLEAN, ResolveOwnBase(fetched)
  PROVE  GateInvariant'
<1> USE DEF GateInvariant
<1>1. step = "resolve" /\ step' \in {"workspace", "done"}
  BY DEF ResolveOwnBase, InternalError, Finalize
<1>2. GateTypes' /\ ParentIsVetted'
  BY DEF ResolveOwnBase, GateTypes, ParentIsVetted
<1>3. BaseIsChosen'
  BY <1>1, ResolvedIsCommit DEF ResolveOwnBase, InternalError, Finalize, BaseIsChosen, Based
<1>4. NothingProposed' /\ ReviewedIsVetted' /\ DeniedBytesStayOut'
  BY <1>1, NothingIsShown, ErrorShowsNothing DEF ResolveOwnBase, NothingProposed
<1> QED
  BY <1>1, <1>2, <1>3, <1>4
     DEF CarryProgress, EvaluationIsCurrent, NormalisationIsFaithful, CarryIsWhole

LEMMA WaitingStep ==
  ASSUME GateInvariant, StartUndriven \/ ParentCleaned \/ BaseAdvances
  PROVE  GateInvariant'
<1> USE DEF GateInvariant
<1>1. /\ step \in {"gate", "resolve"} /\ step' \in {"gate", "resolve"}
      /\ proposal' = NoProposal
  BY DEF StartUndriven, ParentCleaned, BaseAdvances, NothingProposed
<1>2. tips' \in [remote: Commits \cup {NoCommit}, local: Commits \cup {NoCommit}]
  BY DEF StartUndriven, ParentCleaned, BaseAdvances, GateTypes
<1>3. /\ parent' \in [status: STRING, safety: STRING, base: Commits, tree: Tree, exists: BOOLEAN]
      /\ parent'.status = parent.status /\ parent'.safety = parent.safety
  BY DEF StartUndriven, ParentCleaned, BaseAdvances, GateTypes
<1>4. GateTypes' /\ ParentIsVetted'
  BY <1>2, <1>3 DEF StartUndriven, ParentCleaned, BaseAdvances, GateTypes, ParentIsVetted
<1> QED
  BY <1>1, <1>4, NothingIsShown DEF BaseIsChosen, Based, CarryProgress, EvaluationIsCurrent,
     NormalisationIsFaithful, NothingProposed, CarryIsWhole

(* The steps that prepare the worktree.                                      *)
LEMMA BaseIsTree ==
  ASSUME NEW c \in Commits
  PROVE  BaseOf(c) \in Tree
BY BaseTreesAreTrees DEF BaseOf

LEMMA CutStep ==
  ASSUME GateInvariant, CutRunWorkspace
  PROVE  GateInvariant'
<1> USE DEF GateInvariant
<1>1. step \in {"workspace", "workspace-carry"} /\ step' \in {"coder", "carry", "done"}
  BY DEF CutRunWorkspace, InternalError, Finalize
<1>2. BaseOf(baseSha) \in Tree
  BY <1>1, BaseIsTree DEF BaseIsChosen, Based
<1>3. GateTypes' /\ ParentIsVetted'
  BY <1>2 DEF CutRunWorkspace, GateTypes, ParentIsVetted
<1>4. NothingProposed' /\ ReviewedIsVetted' /\ DeniedBytesStayOut'
  BY <1>1, NothingIsShown, ErrorShowsNothing DEF CutRunWorkspace, NothingProposed
<1>5. BaseIsChosen'
  BY <1>1 DEF CutRunWorkspace, BaseIsChosen, Based
<1>6. CarryProgress'
  BY <1>1 DEF CutRunWorkspace, InternalError, Finalize, CarryProgress, BaseOf
<1>7. CarryIsWhole'
  BY <1>1 DEF CutRunWorkspace, InternalError, Finalize, CarryIsWhole, BaseOf
<1> QED
  BY <1>1, <1>3, <1>4, <1>5, <1>6, <1>7 DEF EvaluationIsCurrent, NormalisationIsFaithful

LEMMA SurfaceStep ==
  ASSUME GateInvariant, MaterializeParentWork
  PROVE  GateInvariant'
<1> USE DEF GateInvariant
<1>1. /\ step = "carry" /\ step' \in {"copy", "coder"} /\ proposal' = NoProposal
      /\ wt = BaseOf(baseSha) /\ UNCHANGED <<parent, baseSha, wt, index>>
  BY DEF MaterializeParentWork, NothingProposed, CarryProgress
<1>2. GateTypes' /\ ParentIsVetted'
  BY DEF MaterializeParentWork, GateTypes, ParentIsVetted
<1>3. BaseIsChosen'
  BY <1>1 DEF BaseIsChosen, Based
<1>4. CarryProgress'
  <2>1. ASSUME step' = "copy", NEW p \in RunPaths
        PROVE  wt'[p] = BaseOf(baseSha)[p] /\ carried' = ParentSurface
    BY <1>1, <2>1 DEF MaterializeParentWork
  <2>2. ParentSurface' = ParentSurface /\ BaseOf(baseSha') = BaseOf(baseSha)
    BY <1>1 DEF ParentSurface
  <2> HIDE DEF GateInvariant
  <2>3. ASSUME step' = "copy", NEW p \in RunPaths
        PROVE  wt'[p] = IF p \in ParentSurface' \ carried' THEN parent'.tree[p]
                        ELSE BaseOf(baseSha')[p]
    BY <2>1, <2>2, <2>3
  <2>4. step' = "copy" => parent'.base = baseSha' /\ parent'.safety = "allowed"
    BY <1>1 DEF GateInvariant, CarryProgress
  <2>5. step' = "copy" => carried' \subseteq ParentSurface'
    BY <2>2 DEF MaterializeParentWork
  <2> QED
    BY <1>1, <2>3, <2>4, <2>5 DEF CarryProgress
<1>5. CarryIsWhole'
  BY <1>1 DEF CarryIsWhole, BaseOf
<1> QED
  BY <1>1, <1>2, <1>3, <1>4, <1>5, NothingIsShown
     DEF NothingProposed, EvaluationIsCurrent, NormalisationIsFaithful

(* Once the whole surface is copied, what differs from the parent's tree is  *)
(* an ignored file.                                                          *)
LEMMA WholeSurface ==
  ASSUME GateTypes, baseSha \in Commits, parent.base = baseSha,
         NEW t, NEW p \in RunPaths,
         t = IF p \in ParentSurface THEN parent.tree[p] ELSE BaseOf(baseSha)[p]
  PROVE  \/ t = parent.tree[p]
         \/ p \in IgnoreUntracked /\ BaseOf(baseSha)[p] = 0 /\ t = 0
BY DEF ParentSurface, TrackedIn, UntrackedIn, PartitionUntracked

LEMMA CopyStep ==
  ASSUME GateInvariant, NEW q \in RunPaths, MaterializeEntry(q)
  PROVE  GateInvariant'
<1> USE DEF GateInvariant
<1>1. /\ step = "copy" /\ step' \in {"copy", "coder"} /\ proposal' = NoProposal
      /\ (step' = "coder" <=> carried' = {})
      /\ UNCHANGED <<tips, parent, baseSha, index, pre, edits>>
      /\ q \in carried /\ carried' = carried \ {q}
      /\ wt' = [wt EXCEPT ![q] = parent.tree[q]]
  BY DEF MaterializeEntry, NothingProposed
<1>2. wt' \in Tree
  BY <1>1 DEF GateTypes, Tree
<1>3. GateTypes' /\ ParentIsVetted' /\ BaseIsChosen'
  BY <1>1, <1>2 DEF GateTypes, ParentIsVetted, BaseIsChosen, Based
<1>4. parent.base = baseSha /\ parent.safety = "allowed" /\ baseSha \in Commits
  BY <1>1 DEF CarryProgress, BaseIsChosen, Based
<1>5. ParentSurface' = ParentSurface /\ BaseOf(baseSha') = BaseOf(baseSha)
  BY <1>1 DEF ParentSurface
<1>6. ASSUME NEW p \in RunPaths
      PROVE  wt'[p] = IF p \in ParentSurface \ carried' THEN parent.tree[p]
                      ELSE BaseOf(baseSha)[p]
  <2>1. wt[p] = IF p \in ParentSurface \ carried THEN parent.tree[p] ELSE BaseOf(baseSha)[p]
    BY <1>1 DEF CarryProgress
  <2>2. carried \subseteq ParentSurface
    BY <1>1 DEF CarryProgress
  <2>3. wt'[p] = IF p = q THEN parent.tree[q] ELSE wt[p]
    BY <1>1 DEF GateTypes, Tree
  <2> HIDE DEF GateInvariant
  <2> QED
    BY <1>1, <2>1, <2>2, <2>3
<1>7. carried' \subseteq ParentSurface
  BY <1>1 DEF CarryProgress
<1> HIDE DEF GateInvariant
<1>8. CarryProgress'
  BY <1>1, <1>4, <1>5, <1>6, <1>7 DEF CarryProgress
<1>9. CarryIsWhole'
  <2>1. SUFFICES ASSUME carried' = {}, NEW p \in RunPaths
                 PROVE  \/ wt'[p] = parent.tree[p]
                        \/ p \in IgnoreUntracked /\ BaseOf(baseSha)[p] = 0 /\ wt'[p] = 0
    BY <1>1, <1>4, <1>5 DEF CarryIsWhole
  <2>2. wt'[p] = IF p \in ParentSurface THEN parent.tree[p] ELSE BaseOf(baseSha)[p]
    BY <1>6, <2>1
  <2> QED
    BY <1>4, <2>2, WholeSurface DEF GateInvariant
<1> QED
  BY <1>1, <1>3, <1>8, <1>9, NothingIsShown
     DEF GateInvariant, NothingProposed, EvaluationIsCurrent, NormalisationIsFaithful

LEMMA CopyFailsStep ==
  ASSUME GateInvariant, MaterializeFails
  PROVE  GateInvariant'
<1> USE DEF GateInvariant
<1>1. step = "copy" /\ step' \in {"coder", "done"} /\ UNCHANGED <<parent, baseSha>>
  BY DEF MaterializeFails, InternalError, Finalize
<1>2. BaseOf(baseSha) \in Tree
  BY <1>1, BaseIsTree DEF BaseIsChosen, Based
<1>3. GateTypes' /\ ParentIsVetted' /\ BaseIsChosen'
  BY <1>1, <1>2 DEF MaterializeFails, ResetWorktreeToBase, GateTypes, ParentIsVetted,
     BaseIsChosen, Based
<1>4. NothingProposed' /\ ReviewedIsVetted' /\ DeniedBytesStayOut'
  BY <1>1, NothingIsShown, ErrorShowsNothing DEF MaterializeFails, NothingProposed
<1>5. CarryIsWhole'
  BY <1>1 DEF MaterializeFails, ResetWorktreeToBase, InternalError, Finalize, CarryIsWhole, BaseOf
<1> QED
  BY <1>1, <1>3, <1>4, <1>5 DEF CarryProgress, EvaluationIsCurrent, NormalisationIsFaithful

(* The coder, the commands and the diffs taken of their work.                *)
LEMMA ChangeKeepsTypes ==
  ASSUME GateTypes, ChangeWorktree
  PROVE  wt' \in Tree /\ index' \in Tree /\ edits' \in Nat /\ edits' # 0
<1>1. edits' = edits + 1 /\ edits \in Nat /\ wt \in Tree /\ index \in Tree
  BY DEF ChangeWorktree, GateTypes
<1>2. ASSUME NEW p \in RunPaths, NEW n \in 0..MaxLines, NEW t \in Tree
      PROVE  [t EXCEPT ![p] = n] \in Tree
  BY DEF Tree
<1>3. 0 \in 0..MaxLines /\ \A p \in RunPaths : wt[p] \in 0..MaxLines
  BY <1>1, RunsAreFinite DEF Tree
<1>4. wt' \in Tree /\ index' \in Tree
  BY <1>1, <1>2, <1>3 DEF ChangeWorktree
<1> QED
  BY <1>1, <1>4

LEMMA WorkStep ==
  ASSUME GateInvariant, CoderWorks \/ CommandWorks
  PROVE  GateInvariant'
<1> USE DEF GateInvariant
<1>1. /\ step \in {"coder", "commands"} /\ step' = step /\ proposal' = NoProposal
      /\ UNCHANGED <<tips, parent, baseSha, pre>>
  BY DEF CoderWorks, CommandWorks, NothingProposed
<1>2. wt' \in Tree /\ index' \in Tree /\ edits' \in Nat /\ edits' # 0
  BY ChangeKeepsTypes DEF CoderWorks, CommandWorks
<1>3. GateTypes' /\ ParentIsVetted' /\ BaseIsChosen'
  BY <1>1, <1>2 DEF GateTypes, ParentIsVetted, BaseIsChosen, Based
<1> QED
  BY <1>1, <1>2, <1>3, NothingIsShown DEF CarryProgress, EvaluationIsCurrent,
     NormalisationIsFaithful, NothingProposed, CarryIsWhole

LEMMA EndsStep ==
  ASSUME GateInvariant, CoderEnds \/ CommandEnds
  PROVE  GateInvariant'
<1> USE DEF GateInvariant
<1>1. /\ step \in {"coder", "commands"}
      /\ step' \in {"post-codex", "commands", "post-command", "done"}
      /\ UNCHANGED <<tips, parent, baseSha, pre, wt, index, edits>>
  BY DEF CoderEnds, CommandEnds, InternalError, Finalize
<1>2. GateTypes' /\ ParentIsVetted' /\ BaseIsChosen'
  BY <1>1 DEF GateTypes, ParentIsVetted, BaseIsChosen, Based
<1>3. NothingProposed' /\ ReviewedIsVetted' /\ DeniedBytesStayOut'
  BY <1>1, NothingIsShown, ErrorShowsNothing DEF CoderEnds, CommandEnds, NothingProposed
<1> QED
  BY <1>1, <1>2, <1>3 DEF CarryProgress, EvaluationIsCurrent,
     NormalisationIsFaithful, NothingProposed, CarryIsWhole

LEMMA ViewsAreOk ==
  ASSUME NEW b, NEW w, NEW i
  PROVE  DiffAndValidate(b, w, i).ok /\ ~NoView.ok
BY DEF DiffAndValidate, NoView

LEMMA PostCodexStep ==
  ASSUME GateInvariant, PostCodex
  PROVE  GateInvariant'
<1> USE DEF GateInvariant
<1>1. /\ step = "post-codex" /\ step' \in {"commands", "evaluated"} /\ proposal' = NoProposal
      /\ UNCHANGED <<tips, parent, baseSha, wt, index, edits>>
  BY DEF PostCodex, NothingProposed
<1>2. PICK ok \in BOOLEAN :
        LET v      == AttemptDiff(ok, DiffNow(index))
            budget == IF v.ok THEN EvaluateChangeBudget(v.stat) ELSE "none"
        IN view' = v /\ pre' = [view |-> NoView, budget |-> budget]
  BY DEF PostCodex, DiffNow
<1>3. pre' = [view |-> pre'.view, budget |-> pre'.budget]
  BY <1>2
<1>4. GateTypes' /\ ParentIsVetted' /\ BaseIsChosen'
  BY <1>1, <1>3 DEF GateTypes, ParentIsVetted, BaseIsChosen, Based
<1>5. \/ view' = NoView
      \/ view' = DiffNow(index) /\ pre'.budget = EvaluateChangeBudget(view'.stat)
  BY <1>2, ViewsAreOk DEF AttemptDiff, DiffNow
<1>6. EvaluationIsCurrent'
  BY <1>1, <1>5 DEF EvaluationIsCurrent, DiffNow, BaseOf
<1> QED
  BY <1>1, <1>4, <1>6, NothingIsShown
     DEF CarryProgress, NormalisationIsFaithful, NothingProposed, CarryIsWhole

LEMMA PostCommandStep ==
  ASSUME GateInvariant, PostCommand
  PROVE  GateInvariant'
<1> USE DEF GateInvariant
<1>1. /\ step = "post-command" /\ step' = "evaluated" /\ proposal' = NoProposal
      /\ UNCHANGED <<tips, parent, baseSha, wt, index, edits>>
  BY DEF PostCommand, NothingProposed
<1>2. PICK ok \in BOOLEAN :
        LET v == AttemptDiff(ok, DiffNow(index))
        IN /\ view' = v
           /\ pre' = IF v.ok THEN [pre EXCEPT !.budget = EvaluateChangeBudget(v.stat)]
                             ELSE pre
  BY DEF PostCommand, DiffNow
<1>3. pre = [view |-> pre.view, budget |-> pre.budget]
  BY DEF GateTypes
<1>4. pre' = pre \/ pre' = [view |-> pre.view, budget |-> EvaluateChangeBudget(view'.stat)]
  BY <1>2, <1>3
<1>5. pre' = [view |-> pre'.view, budget |-> pre'.budget]
  BY <1>3, <1>4
<1>6. GateTypes' /\ ParentIsVetted' /\ BaseIsChosen'
  BY <1>1, <1>5 DEF GateTypes, ParentIsVetted, BaseIsChosen, Based
<1>7. \/ view' = NoView
      \/ view' = DiffNow(index) /\ pre'.budget = EvaluateChangeBudget(view'.stat)
  BY <1>2, <1>3, ViewsAreOk DEF AttemptDiff, DiffNow
<1>8. EvaluationIsCurrent'
  BY <1>1, <1>7 DEF EvaluationIsCurrent, DiffNow, BaseOf
<1> QED
  BY <1>1, <1>6, <1>8, NothingIsShown
     DEF CarryProgress, NormalisationIsFaithful, NothingProposed, CarryIsWhole

(* The artifacts and the status.                                             *)
LEMMA NormalizeStep ==
  ASSUME GateInvariant, Normalize
  PROVE  GateInvariant'
<1> USE DEF GateInvariant
<1>1. /\ step = "evaluated" /\ step' \in {"artifacts", "done"}
      /\ UNCHANGED <<tips, parent, baseSha, wt, edits>>
      /\ pre' = [pre EXCEPT !.view = view]
  BY DEF Normalize, InternalError, Finalize
<1>2. pre = [view |-> pre.view, budget |-> pre.budget]
  BY DEF GateTypes
<1>3. pre' = [view |-> view, budget |-> pre.budget]
  BY <1>1, <1>2
<1>4. BaseOf(baseSha) \in Tree
  BY <1>1, BaseIsTree DEF BaseIsChosen, Based
<1>5. index \in Tree /\ index' \in Tree
  BY <1>4 DEF Normalize, NormalizeWorktreeIndexToBase, GateTypes
<1>6. GateTypes' /\ ParentIsVetted' /\ BaseIsChosen'
  BY <1>1, <1>3, <1>5 DEF GateTypes, ParentIsVetted, BaseIsChosen, Based
<1>7. NothingProposed' /\ ReviewedIsVetted' /\ DeniedBytesStayOut'
  BY <1>1, NothingIsShown, ErrorShowsNothing DEF Normalize, NothingProposed
<1>8. NormalisationIsFaithful'
  <2>1. SUFFICES ASSUME step' = "artifacts", view' # NoView
                 PROVE  /\ view' = DiffNow(BaseOf(baseSha))
                        /\ \E i \in Tree : /\ pre'.view = DiffNow(i)
                                           /\ pre'.budget = EvaluateChangeBudget(pre'.view.stat)
    BY <1>1 DEF NormalisationIsFaithful, DiffNow, BaseOf
  <2>2. view.ok
    <3>1. ~view.ok => view' = view
      BY <2>1 DEF Normalize
    <3>2. view # NoView => view = DiffNow(index)
      BY <1>1 DEF EvaluationIsCurrent
    <3> QED
      BY <2>1, <3>1, <3>2, ViewsAreOk DEF DiffNow
  <2>3. view = DiffNow(index) /\ pre.budget = EvaluateChangeBudget(view.stat)
    BY <1>1, <2>2, ViewsAreOk DEF EvaluationIsCurrent
  <2>4. pre'.view = view /\ pre'.budget = pre.budget
    BY <1>3
  <2>5. view' = DiffNow(BaseOf(baseSha))
    BY <2>1, <2>2 DEF Normalize, NormalizeWorktreeIndexToBase, AttemptDiff, DiffNow,
       InternalError, Finalize
  <2> HIDE DEF GateInvariant
  <2> QED
    BY <1>5, <2>3, <2>4, <2>5
<1> QED
  BY <1>1, <1>6, <1>7, <1>8 DEF CarryProgress, EvaluationIsCurrent, CarryIsWhole

(* What the artifacts hold is of the base or allowed by the policy.          *)
LEMMA ArtifactPaths ==
  ASSUME NEW b \in Tree, NEW w \in Tree, NEW i \in Tree, NEW p
  PROVE  /\ p \in DiffAndValidate(b, w, b).tracked => b[p] # 0
         /\ p \in DiffAndValidate(b, w, b).kept \ DiffAndValidate(b, w, i).violations =>
              p \in RunPaths /\ InWriteScope(p)
<1>1. /\ DiffAndValidate(b, w, b).tracked = TrackedIn(b, w, b)
      /\ DiffAndValidate(b, w, b).kept = UntrackedIn(w, b) \ IgnoreUntracked
      /\ DiffAndValidate(b, w, i).violations = {q \in Paths(b, w, i) : ~InWriteScope(q)}
  BY DiffFields
<1>2. Surface(b, w) \subseteq Paths(b, w, i) /\ Surface(b, w) \subseteq RunPaths
  BY NormalisedIsSeen
<1> QED
  BY <1>1, <1>2, NormalisedIsSeen DEF Surface

LEMMA ArtifactsStep ==
  ASSUME GateInvariant, WritePolicyArtifacts
  PROVE  GateInvariant'
<1> USE DEF GateInvariant
<1>1. /\ step = "artifacts" /\ step' = "done"
      /\ UNCHANGED <<tips, parent, baseSha, wt, index, pre, edits>>
  BY DEF WritePolicyArtifacts
<1>2. GateTypes' /\ ParentIsVetted' /\ BaseIsChosen'
  BY <1>1 DEF GateTypes, ParentIsVetted, BaseIsChosen, Based
<1>3. /\ proposal'.patch = view.tracked /\ proposal'.untrackedPatch = UntrackedAllowed
      /\ proposal'.salvage \subseteq view.tracked \cup UntrackedAllowed
      /\ proposal'.reviewed = IF view.ok THEN view.tracked \cup UntrackedAllowed ELSE {}
      /\ proposal'.status = StatusOf
  BY DEF WritePolicyArtifacts, BuildPolicySalvage
<1>4. BaseOf(baseSha) \in Tree /\ wt \in Tree /\ BaseOf(baseSha') = BaseOf(baseSha)
  BY <1>1, BaseIsTree DEF BaseIsChosen, Based, GateTypes
<1>5. \/ view = NoView
      \/ /\ view = DiffNow(BaseOf(baseSha))
         /\ \E i \in Tree : /\ pre.view = DiffNow(i)
                            /\ pre.budget = EvaluateChangeBudget(pre.view.stat)
  BY <1>1 DEF NormalisationIsFaithful
<1> DEFINE b == BaseOf(baseSha)
<1>6. ASSUME NEW p PROVE /\ p \in view.tracked => b[p] # 0
                         /\ p \in UntrackedAllowed => p \in RunPaths /\ InWriteScope(p)
  <2>1. CASE view = NoView
    BY <2>1 DEF UntrackedAllowed, NoView
  <2>2. CASE view # NoView
    <3>1. PICK i \in Tree : pre.view = DiffNow(i)
      BY <1>5, <2>2
    <3>2. view = DiffNow(b)
      BY <1>5, <2>2
    <3> HIDE DEF b, GateInvariant
    <3> QED
      BY <1>4, <3>1, <3>2, ArtifactPaths DEF DiffNow, UntrackedAllowed, b
  <2> QED
    BY <2>1, <2>2
<1>7. DeniedBytesStayOut'
  <2> HIDE DEF GateInvariant
  <2>1. SUFFICES ASSUME NEW p \in RunPaths, ~InWriteScope(p), b[p] = 0,
                        \/ p \in proposal'.patch \/ p \in proposal'.untrackedPatch
                        \/ p \in proposal'.salvage
                 PROVE  FALSE
    BY <1>1, <1>4 DEF DeniedBytesStayOut, ValidateChangedPaths
  <2>2. p \in view.tracked \cup UntrackedAllowed
    BY <1>3, <2>1
  <2> QED
    BY <1>6, <2>1, <2>2
<1>8. ReviewedIsVetted'
  <2> HIDE DEF GateInvariant
  <2>1. CASE StatusOf # "needs_review"
    BY <1>3, <2>1 DEF ReviewedIsVetted
  <2>2. CASE StatusOf = "needs_review"
    <3>1. view.ok /\ pre.view.safety # "denied" /\ pre.budget # "exceeded"
      BY <2>2 DEF StatusOf
    <3>2. view # NoView
      BY <3>1, ViewsAreOk
    <3>3. PICK i \in Tree : /\ pre.view = DiffNow(i)
                            /\ pre.budget = EvaluateChangeBudget(pre.view.stat)
      BY <1>5, <3>2
    <3>4. view = DiffNow(b)
      BY <1>5, <3>2
    <3> DEFINE v == DiffAndValidate(b, wt, i)
    <3>5. v = pre.view
      BY <3>3 DEF DiffNow
    <3>6. v.safety = IF v.violations = {} THEN "allowed" ELSE "denied"
      BY DiffFields
    <3> HIDE DEF v
    <3>7. v.violations = {}
      BY <3>1, <3>5, <3>6
    <3>8. proposal'.reviewed = Surface(b, wt)
      <4> HIDE DEF b
      <4>1. view.tracked = TrackedIn(b, wt, b) /\ view.kept = UntrackedIn(wt, b) \ IgnoreUntracked
        BY <3>4, DiffFields DEF DiffNow, b
      <4>2. UntrackedAllowed = view.kept
        BY <3>5, <3>7 DEF UntrackedAllowed
      <4> QED
        BY <1>3, <3>1, <4>1, <4>2 DEF Surface
    <3>9. Surface(b, wt) \subseteq WriteScope \ DenyWrite
      <4>1. v.violations = {q \in Paths(b, wt, i) : ~InWriteScope(q)}
        BY DiffFields DEF v
      <4>2. Surface(b, wt) \subseteq Paths(b, wt, i)
        BY <1>4, NormalisedIsSeen
      <4> HIDE DEF b
      <4> QED
        BY <3>7, <4>1, <4>2 DEF InWriteScope
    <3>10. ASSUME RunBudget.enforce, Surface(b, wt) \cap IgnoreUntracked = {}
           PROVE  EvaluateChangeBudget(SurfaceStat(Surface(b, wt)))' = "within"
      <4> DEFINE s == [filesChanged |-> Cardinality(Surface(b, wt)),
                       insertions   |-> SumOver(Surface(b, wt), wt),
                       deletions    |-> SumOver(Surface(b, wt), b),
                       deletedFiles |-> Cardinality({p \in Surface(b, wt) : wt[p] = 0})]
      <4>1. Counts(s) /\ Counts(v.stat) /\ NoLarger(s, v.stat)
        BY <1>4, <3>7, <3>10, SurfaceIsCounted DEF v
      <4>2. EvaluateChangeBudget(v.stat) # "exceeded"
        BY <3>1, <3>3, <3>5
      <4>3. SurfaceStat(Surface(b, wt))' = s
        BY <1>1, <1>4 DEF SurfaceStat
      <4> HIDE DEF s
      <4>4. EvaluateChangeBudget(s) = "within"
        BY <3>10, <4>1, <4>2, SmallerKeepsTheBudget
      <4> QED
        BY <4>3, <4>4
    <3> HIDE DEF b
    <3>11. ASSUME RunBudget.enforce, proposal'.reviewed \cap IgnoreUntracked = {}
           PROVE  (EvaluateChangeBudget(SurfaceStat(proposal.reviewed)) = "within")'
      BY <1>1, <1>4, <3>8, <3>10, <3>11 DEF b
    <3> QED
      BY <3>8, <3>9, <3>11 DEF ReviewedIsVetted
  <2> QED
    BY <2>1, <2>2
<1> QED
  BY <1>1, <1>2, <1>7, <1>8 DEF NothingProposed, CarryProgress, EvaluationIsCurrent,
     NormalisationIsFaithful, CarryIsWhole

LEMMA GateStands ==
  ASSUME GateInvariant, UNCHANGED gateVars
  PROVE  GateInvariant'
BY DEF GateInvariant, gateVars, GateTypes, BaseIsChosen, Based, ParentIsVetted, CarryProgress,
   ParentSurface, EvaluationIsCurrent, NormalisationIsFaithful, DiffNow, NothingProposed,
   CarryIsWhole, ReviewedIsVetted, SurfaceStat, DeniedBytesStayOut, BaseOf

(* Every step of a coding run keeps the invariant.                           *)
THEOREM GateInvariantHolds == GateSpec => []GateInvariant
<1>1. GateInit => GateInvariant
  BY GateStarts
<1>2. GateInvariant /\ [GateNext]_gateVars => GateInvariant'
  <2>1. SUFFICES ASSUME GateInvariant, [GateNext]_gateVars PROVE GateInvariant'
    OBVIOUS
  <2>2. ASSUME NEW fetched \in BOOLEAN, GateContinuation(fetched) \/ ResolveOwnBase(fetched)
        PROVE  GateInvariant'
    BY <2>1, <2>2, ContinuationStep, ResolveStep
  <2>3. CASE StartUndriven \/ ParentCleaned \/ BaseAdvances
    BY <2>1, <2>3, WaitingStep
  <2>4. CASE CutRunWorkspace \/ MaterializeParentWork \/ MaterializeFails
    BY <2>1, <2>4, CutStep, SurfaceStep, CopyFailsStep
  <2>5. ASSUME NEW p \in RunPaths, MaterializeEntry(p) PROVE GateInvariant'
    BY <2>1, <2>5, CopyStep
  <2>6. CASE CoderWorks \/ CommandWorks \/ CoderEnds \/ CommandEnds
    BY <2>1, <2>6, WorkStep, EndsStep
  <2>7. CASE PostCodex \/ PostCommand
    BY <2>1, <2>7, PostCodexStep, PostCommandStep
  <2>8. CASE Normalize \/ WritePolicyArtifacts
    BY <2>1, <2>8, NormalizeStep, ArtifactsStep
  <2>9. CASE UNCHANGED gateVars
    BY <2>1, <2>9, GateStands
  <2> QED
    BY <2>1, <2>2, <2>3, <2>4, <2>5, <2>6, <2>7, <2>8, <2>9 DEF GateNext
<1> QED
  BY <1>1, <1>2, PTL DEF GateSpec

(* Whatever the coder and the commands do to the worktree and to the index,  *)
(* what a run proposes for review lies in the write scope and keeps the      *)
(* enforced budget when it is counted on the final working tree              *)
(* (runDomainCodingInner, diffAndValidate).                                  *)
THEOREM ReviewsAreVetted == GateSpec => []ReviewedIsVetted
<1>1. GateInvariant => ReviewedIsVetted
  BY DEF GateInvariant
<1> QED
  BY <1>1, GateInvariantHolds, PTL

(* No artifact holds the bytes of a new file that the policy denies          *)
(* (writePolicyArtifacts, buildPolicySalvage).                               *)
THEOREM DeniedBytesAreLeftOut == GateSpec => []DeniedBytesStayOut
<1>1. GateInvariant => DeniedBytesStayOut
  BY DEF GateInvariant
<1> QED
  BY <1>1, GateInvariantHolds, PTL

(* The coder starts from its base or from the whole work of a vetted parent  *)
(* on that base, whatever moves or fails in between (materializeParentWork). *)
THEOREM CarriesAreWhole == GateSpec => []CarryIsWhole
<1>1. GateInvariant => CarryIsWhole
  BY DEF GateInvariant
<1> QED
  BY <1>1, GateInvariantHolds, PTL
=============================================================================
