---------------------------- MODULE RunExecution ----------------------------
(***************************************************************************)
(* One `harness run` / `harness rerun` per process, executing              *)
(* runDomainCoding (src/src/core/workflow-runner.ts) against the shared    *)
(* `runs` table while other processes take domain leases, reviewers apply  *)
(* verdicts and operators clean runs up.                                   *)
(*                                                                         *)
(* A run goes through: prepare, acquire the domain lease, check that the   *)
(* rerun parent has no child yet, await the base commit, insert the row,   *)
(* then a sequence of lease-guarded writes that ends with the final status *)
(* and the `run_completed` event.  Any exception after createDbRunLog has  *)
(* returned enters the recovery block, which tries a guarded finalize and  *)
(* then the unguarded forceFailFinalize; one that createDbRunLog throws    *)
(* after its insert does not.  The lease check and the write it guards are *)
(* two database calls: other processes run between them.                   *)
(***************************************************************************)
EXTENDS DomainLock

CONSTANTS
    History,         \* runs that ended with changes_requested before we look
    Outcomes,        \* final statuses the workflow may compute for a run
    MaxAttempts,     \* --max-attempts of `harness rerun`
    CleanupForces,   \* values of --force `harness cleanup` is called with
    OperatorWants    \* values of --run-id `harness lock release` is called with

\* The statuses runDomainCodingInner chooses between at its end.
WorkflowOutcomes ==
    {"needs_review", "failed-diff-collection", "failed-codex-timeout",
     "failed-codex", "failed-policy-violation", "failed-budget-exceeded"}

ASSUME HistoryAssumption == History \subseteq Runs
ASSUME OutcomesAssumption == Outcomes \subseteq WorkflowOutcomes
ASSUME MaxAttemptsAssumption == MaxAttempts \in Nat
ASSUME CleanupForcesAssumption == CleanupForces \subseteq BOOLEAN
ASSUME OperatorWantsAssumption == OperatorWants \subseteq Runs \cup {NoRun}

VARIABLES
    runs,        \* the rows of the runs table; status "absent" = no row
    task,        \* what each process was asked to run
    pc,          \* where each process is in runDomainCoding
    mem,         \* RunMeta.status as the process last persisted it
    pending,     \* the guarded write whose lease check has passed
    err,         \* what threw: what the recovery block caught, or missed
    worktree,    \* whether workspaces/<runId>/repo exists
    cleaner,     \* one `harness cleanup` in flight
    lateWrites   \* observer: guarded writes that landed after the lease ended

execVars == <<runs, task, pc, mem, pending, err, worktree, cleaner, lateWrites>>
vars == <<lockVars, execVars>>

-----------------------------------------------------------------------------
(* Types.                                                                  *)

InFlight == {"running", "generated", "verified"}
Verdicts == {"approved", "changes_requested", "rejected"}
Failed == "failed-internal-error"

Statuses ==
    InFlight \cup WorkflowOutcomes \cup Verdicts \cup {"cleaned", Failed}

\* Mutant: the set forgets the verdict `approved`.
TERMINALWithoutApproved ==
    {"changes_requested", "rejected", "cleaned", Failed,
     "failed-policy-violation", "failed-codex-timeout",
     "failed-budget-exceeded", "failed-command"}

\* The TERMINAL set of forceFailFinalize.
TERMINAL ==
    {"approved", "changes_requested", "rejected", "cleaned", Failed,
     "failed-policy-violation", "failed-codex-timeout",
     "failed-budget-exceeded", "failed-command"}

\* `leased` is an observer: whether the run held its lease when its row was
\* inserted.
RunRow == [status: Statuses \cup {"absent"}, domain: Domains, lease: Nat,
           parent: Runs \cup {NoRun}, attempt: Nat, leased: BOOLEAN]

Task == [domain: Domains, parent: Runs \cup {NoRun}, attempt: Nat]

PCs == {"idle", "ready", "locked", "gated", "work", "commit", "failed",
        "failCommit", "force", "closing", "done", "crashed"}

Writes == Statuses \cup {"run_completed"}

CleanerIdle == [run |-> NoRun, expected |-> "absent", removed |-> FALSE]

ExecTypeOK ==
    /\ runs \in [Runs -> RunRow]
    /\ task \in [Runs -> Task]
    /\ pc \in [Runs -> PCs]
    /\ mem \in [Runs -> Writes]
    /\ pending \in [Runs -> Writes]
    /\ err \in [Runs -> {"none", "lease", "other", "db", "export"}]
    /\ worktree \in [Runs -> BOOLEAN]
    /\ cleaner \in [run: Runs \cup {NoRun}, removed: BOOLEAN,
                    expected: Statuses \cup {"absent"}]
    /\ lateWrites \in [Runs -> Nat]

TypeOK == LockTypeOK /\ ExecTypeOK

Init ==
    /\ LockInit
    /\ \E d \in Domains :
         /\ runs = [r \in Runs |->
                      [status |-> IF r \in History THEN "changes_requested"
                                                   ELSE "absent",
                       domain |-> d, lease |-> 0,
                       parent |-> NoRun, attempt |-> 0, leased |-> FALSE]]
         /\ task = [r \in Runs |->
                      [domain |-> d, parent |-> NoRun, attempt |-> 0]]
    /\ pc = [r \in Runs |-> IF r \in History THEN "done" ELSE "idle"]
    /\ mem = [r \in Runs |-> "running"]
    /\ pending = [r \in Runs |-> "running"]
    /\ err = [r \in Runs |-> "none"]
    /\ worktree = [r \in Runs |-> r \in History]
    /\ cleaner = CleanerIdle
    /\ lateWrites = [r \in Runs |-> 0]

-----------------------------------------------------------------------------
(* Helpers.                                                                *)

Exists(r) == runs[r].status # "absent"

\* SELECT run_id FROM runs WHERE parent_run_id = ?
Children(p) == {c \in Runs : Exists(c) /\ runs[c].parent = p}

\* The statuses of the writes that may follow the last one, in the order of
\* runDomainCodingInner: generated, verified only when commands are run (which
\* needs a codex that succeeded), the final status, the completion event.
NextWrites(m) ==
    CASE m = "running"   -> {"generated"}
      [] m = "generated" -> {"verified"} \cup Outcomes
      [] m = "verified"  -> Outcomes \ {"failed-codex", "failed-codex-timeout"}
      [] OTHER           -> {"run_completed"}

\* Observer: one more guarded write of r, counted if its lease row had been
\* ended (released, taken over or force-released) by then.
CountLate(r) ==
    lateWrites' = [lateWrites EXCEPT ![r] =
        IF Active(runs[r].lease) THEN @ ELSE @ + 1]

Goto(r, l) == pc' = [pc EXCEPT ![r] = l]

-----------------------------------------------------------------------------
(* Before the row exists.                                                  *)

PrepareRun(r, d) ==
    /\ pc[r] = "idle"
    /\ task' = [task EXCEPT ![r] = [domain |-> d, parent |-> NoRun, attempt |-> 0]]
    /\ Goto(r, "ready")
    /\ UNCHANGED <<lockVars, runs, mem, pending, err, worktree, cleaner, lateWrites>>

\* prepareRerunFromReview: the parent asked for changes, the chain is below
\* --max-attempts, and (a first, unlocked check) the parent has no child.
PrepareRerun(r, p) ==
    /\ pc[r] = "idle"
    /\ runs[p].status = "changes_requested"
    /\ runs[p].attempt + 1 <= MaxAttempts
    /\ Children(p) = {}
    /\ task' = [task EXCEPT ![r] = [domain |-> runs[p].domain, parent |-> p,
                                    attempt |-> runs[p].attempt + 1]]
    /\ Goto(r, "ready")
    /\ UNCHANGED <<lockVars, runs, mem, pending, err, worktree, cleaner, lateWrites>>

Acquire(r) ==
    /\ pc[r] = "ready"
    /\ \/ AcquireDomainLock(r, task[r].domain) /\ Goto(r, "locked")
       \/ AcquireBusy(r, task[r].domain) /\ Goto(r, "done")
    /\ UNCHANGED <<runs, task, mem, pending, err, worktree, cleaner, lateWrites>>

\* Mutant: the check under the lock is missing.
DupGateMissing(r) ==
    /\ pc[r] = "locked"
    /\ Goto(r, "gated")
    /\ UNCHANGED <<lockVars, runs, task, mem, pending, err, worktree, cleaner, lateWrites>>

\* The duplicate-child check under the lock.
DupGate(r) ==
    /\ pc[r] = "locked"
    /\ Goto(r, IF task[r].parent # NoRun /\ Children(task[r].parent) # {}
                 THEN "closing" ELSE "gated")
    /\ UNCHANGED <<lockVars, runs, task, mem, pending, err, worktree, cleaner, lateWrites>>

\* `await resolveBaseSha` rejects: no row yet, only the finally block runs.
ResolveFails(r) ==
    /\ pc[r] = "gated"
    /\ Goto(r, "closing")
    /\ UNCHANGED <<lockVars, runs, task, mem, pending, err, worktree, cleaner, lateWrites>>

\* createDbRunLog: the INSERT that follows the await, which carries the lease
\* but does not check it, and the first export, which records its own failures
\* in the row and throws when it cannot.  The try of the recovery block opens
\* after the call: then only the finally block runs.
CreateDbRunLog(r) ==
    /\ pc[r] = "gated"
    /\ runs' = [runs EXCEPT ![r] =
         [status |-> "running", domain |-> task[r].domain,
          lease |-> handle[r].lockId, parent |-> task[r].parent,
          attempt |-> task[r].attempt,
          leased |-> LeaseHeld(r, handle[r].lockId)]]
    /\ \/ Goto(r, "work") /\ UNCHANGED err
       \/ Goto(r, "closing") /\ err' = [err EXCEPT ![r] = "export"]
    /\ UNCHANGED <<lockVars, task, mem, pending, worktree, cleaner, lateWrites>>

-----------------------------------------------------------------------------
(* The workflow and its guarded writes.                                    *)

CreateRunWorkspace(r) ==
    /\ pc[r] = "work" /\ mem[r] = "running" /\ ~worktree[r]
    /\ worktree' = [worktree EXCEPT ![r] = TRUE]
    /\ UNCHANGED <<lockVars, runs, task, pc, mem, pending, err, cleaner, lateWrites>>

\* assertActiveLease ahead of a write; a failed check throws.  The events that
\* are emitted between the status writes change nothing that is modelled, but
\* their checks throw too: the second disjunct is possible all along.
CheckLease(r) ==
    /\ pc[r] = "work"
    /\ \/ /\ LeaseHeld(r, runs[r].lease)
          /\ mem[r] = "running" => worktree[r]
          /\ \E w \in NextWrites(mem[r]) : pending' = [pending EXCEPT ![r] = w]
          /\ Goto(r, "commit")
          /\ UNCHANGED <<mem, err>>
       \/ /\ ~LeaseHeld(r, runs[r].lease)
          /\ err' = [err EXCEPT ![r] = "lease"]
          /\ mem' = [mem EXCEPT ![r] = "running"]
          /\ Goto(r, "failed")
          /\ UNCHANGED pending
    /\ UNCHANGED <<lockVars, runs, task, worktree, cleaner, lateWrites>>

\* The write transaction of commitThenExport.  updateRunRow sets the status
\* from the in-memory meta whatever the row holds by now.  The completion
\* event is the last write: the locals die with the stack frame.  The export
\* that follows it may throw too; after the other writes ThrowOther covers it.
CommitWrite(r) ==
    /\ pc[r] = "commit"
    /\ IF pending[r] = "run_completed"
         THEN /\ mem' = [mem EXCEPT ![r] = "running"]
              /\ \/ Goto(r, "closing") /\ UNCHANGED err
                 \/ Goto(r, "failed") /\ err' = [err EXCEPT ![r] = "other"]
              /\ UNCHANGED runs
         ELSE /\ mem' = [mem EXCEPT ![r] = pending[r]]
              /\ runs' = [runs EXCEPT ![r].status = pending[r]]
              /\ Goto(r, "work")
              /\ UNCHANGED err
    /\ pending' = [pending EXCEPT ![r] = "running"]
    /\ CountLate(r)
    /\ UNCHANGED <<lockVars, task, worktree, cleaner>>

\* Anything else inside the try throws: git, codex, the file system, SQLite,
\* the export after a write.
ThrowOther(r) ==
    /\ pc[r] \in {"work", "commit"}
    /\ err' = [err EXCEPT ![r] = "other"]
    /\ mem' = [mem EXCEPT ![r] = "running"]
    /\ pending' = [pending EXCEPT ![r] = "running"]
    /\ Goto(r, "failed")
    /\ UNCHANGED <<lockVars, runs, task, worktree, cleaner, lateWrites>>

-----------------------------------------------------------------------------
(* The recovery block.                                                     *)

\* log.finalize with status failed-internal-error; its rejection is swallowed.
RecoveryCheck(r) ==
    /\ pc[r] = "failed"
    /\ Goto(r, IF LeaseHeld(r, runs[r].lease) THEN "failCommit" ELSE "force")
    /\ UNCHANGED <<lockVars, runs, task, mem, pending, err, worktree, cleaner, lateWrites>>

RecoveryFinalize(r) ==
    /\ pc[r] = "failCommit"
    /\ \/ /\ runs' = [runs EXCEPT ![r].status = Failed]
          /\ CountLate(r)
       \/ UNCHANGED <<runs, lateWrites>>        \* the transaction fails
    /\ Goto(r, "force")
    /\ UNCHANGED <<lockVars, task, mem, pending, err, worktree, cleaner>>

\* Mutant: the lostLockId guard is inverted.
ForceFlipsInverted(r) ==
    /\ runs[r].status \notin TERMINAL
    /\ err[r] = "lease" => runs[r].lease # handle[r].lockId

\* Mutant: only a lost lease is recovered from.
ForceFlipsLeaseLossOnly(r) ==
    /\ runs[r].status \notin TERMINAL
    /\ err[r] = "lease" /\ runs[r].lease = handle[r].lockId

\* The row forceFailFinalize may flip: not TERMINAL, and on a lost lease
\* still carrying the lease that was lost.
ForceFlips(r) ==
    /\ runs[r].status \notin TERMINAL
    /\ err[r] = "lease" => runs[r].lease = handle[r].lockId

ForceFailFinalize(r) ==
    /\ pc[r] = "force"
    /\ \/ /\ runs' = IF ForceFlips(r)
                      THEN [runs EXCEPT ![r].status = Failed]
                      ELSE runs
          /\ UNCHANGED err
       \/ /\ err' = [err EXCEPT ![r] = "db"]      \* it throws: a warning only
          /\ UNCHANGED runs
    /\ Goto(r, "closing")
    /\ UNCHANGED <<lockVars, task, mem, pending, worktree, cleaner, lateWrites>>

\* The finally block.  When the release throws the row is left to expire.
Teardown(r) ==
    /\ pc[r] = "closing"
    /\ ReleaseLock(r) \/ CrashHolder(r)
    /\ Goto(r, "done")
    /\ UNCHANGED <<runs, task, mem, pending, err, worktree, cleaner, lateWrites>>

\* The timer fires between two turns of the event loop: not between a lease
\* check and its write, which are one synchronous call.
HeartbeatTimer(r) ==
    /\ pc[r] \notin {"commit", "failCommit"}
    /\ Heartbeat(r)
    /\ UNCHANGED execVars

Crash(r) ==
    /\ pc[r] \notin {"idle", "ready", "done", "crashed"}
    /\ CrashHolder(r)
    /\ Goto(r, "crashed")
    /\ UNCHANGED <<runs, task, mem, pending, err, worktree, cleaner, lateWrites>>

-----------------------------------------------------------------------------
(* Other processes.                                                        *)

\* RunRepository.applyReviewDecision.
ApplyReviewDecision(r, v) ==
    /\ runs[r].status = "needs_review"
    /\ runs' = [runs EXCEPT ![r].status = v]
    /\ UNCHANGED <<lockVars, task, pc, mem, pending, err, worktree, cleaner, lateWrites>>

CleanupAllowed(s, force) ==
    /\ s \notin {"absent", "running", "changes_requested"}
    /\ s \in {"cleaned", "approved", "rejected"} \/ force

\* cleanupUnderLock reads the status and passes its gate.  The sweep at the
\* start of every run (reclaimTerminalRunWorktrees) selects the rejected runs,
\* which the gate admits too, and then takes the same two steps.
CleanupGate(r, force) ==
    /\ cleaner = CleanerIdle
    /\ CleanupAllowed(runs[r].status, force)
    /\ cleaner' = [run |-> r, expected |-> runs[r].status, removed |-> FALSE]
    /\ UNCHANGED <<lockVars, runs, task, pc, mem, pending, err, worktree, lateWrites>>

\* git worktree remove / branch -D, awaited.
CleanupRemove ==
    /\ cleaner # CleanerIdle /\ ~cleaner.removed
    /\ worktree' = [worktree EXCEPT ![cleaner.run] = FALSE]
    /\ cleaner' = [cleaner EXCEPT !.removed = TRUE]
    /\ UNCHANGED <<lockVars, runs, task, pc, mem, pending, err, lateWrites>>

\* RunRepository.recordCleanup: flips the status the gate saw, or reports a
\* StateConflictError.
RecordCleanup ==
    /\ cleaner.removed
    /\ runs' = IF runs[cleaner.run].status = cleaner.expected
                 THEN [runs EXCEPT ![cleaner.run].status = "cleaned"]
                 ELSE runs
    /\ cleaner' = CleanerIdle
    /\ UNCHANGED <<lockVars, task, pc, mem, pending, err, worktree, lateWrites>>

LockEnvironment ==
    /\ \/ \E d \in Domains, want \in OperatorWants, force \in BOOLEAN :
            OperatorFind(d, want, force)
       \/ OperatorRelease
       \/ Tick
    /\ UNCHANGED execVars

-----------------------------------------------------------------------------
\* The steps a live process takes by itself.
RunStep(r) ==
    \/ Acquire(r) \/ DupGate(r) \/ CreateDbRunLog(r) \/ CreateRunWorkspace(r)
    \/ CheckLease(r) \/ CommitWrite(r) \/ RecoveryCheck(r)
    \/ RecoveryFinalize(r) \/ ForceFailFinalize(r) \/ Teardown(r)

Next ==
    \/ \E r \in Runs, d \in Domains : PrepareRun(r, d)
    \/ \E r, p \in Runs : PrepareRerun(r, p)
    \/ \E r \in Runs : RunStep(r)
    \/ \E r \in Runs : ResolveFails(r) \/ ThrowOther(r)
    \/ \E r \in Runs : HeartbeatTimer(r) \/ Crash(r)
    \/ \E r \in Runs, v \in Verdicts : ApplyReviewDecision(r, v)
    \/ \E r \in Runs, force \in CleanupForces : CleanupGate(r, force)
    \/ CleanupRemove
    \/ RecordCleanup
    \/ LockEnvironment

Spec == Init /\ [][Next]_vars

\* A process that is not killed keeps executing; nothing is assumed of
\* reviewers, operators, timers or the clock.
FairSpec == Spec /\ \A r \in Runs : WF_vars(RunStep(r))
-----------------------------------------------------------------------------
(* Properties.                                                             *)

\* Of the children inserted for one rerun parent, at most one was inserted by
\* a process that still held the domain lease: the check under the lock is
\* enough as long as the lease survives the await between check and insert.
OneLeasedChild ==
    \A a, b \in Runs :
        ( /\ Exists(a) /\ Exists(b)
          /\ runs[a].parent # NoRun /\ runs[a].parent = runs[b].parent
          /\ runs[a].leased /\ runs[b].leased ) => a = b

\* A displaced process lands at most one guarded write after its lease row was
\* ended: the one whose check had already passed (commitThenExport).
OneLateWrite == \A r \in Runs : lateWrites[r] <= 1

\* What the program gives up on: the last-resort transaction failed, or the
\* first export threw before the try was entered.  The second leaves a row that
\* says `running`: no cleanup admits it and no reviewer is asked about it.
GivenUp(r) == err[r] = "db" \/ (err[r] = "export" /\ runs[r].status = "running")

\* A process that ended by itself leaves no row in flight, whatever threw and
\* whoever took the lease, unless it was given up: the last-resort transaction
\* failed as well, or createDbRunLog threw after its INSERT.
NoOrphanRow ==
    \A r \in Runs :
        (pc[r] \in {"closing", "done"} /\ runs[r].status \in InFlight) => GivenUp(r)

\* A reviewer's verdict is final for everyone but `harness cleanup` and the
\* run's own guarded recovery: neither a displaced process's late write nor
\* forceFailFinalize replaces it.
VerdictStands ==
    [][\A r \in Runs :
         (runs[r].status \in Verdicts /\ runs'[r].status # runs[r].status) =>
            runs'[r].status = "cleaned" \/ pc[r] = "failCommit"]_vars

\* A run in flight whose process lives leaves the in-flight statuses, whatever
\* throws and whoever takes the lease: no row rots at `running` but the ones
\* that are given up.
NoRottingRun ==
    \A r \in Runs :
        (runs[r].status \in InFlight) ~>
            (runs[r].status \notin InFlight \/ pc[r] = "crashed" \/ GivenUp(r))

-----------------------------------------------------------------------------
(* Refinement.  What the rest of the program may expect of a row.           *)

FailedStatuses == (WorkflowOutcomes \ {"needs_review"}) \cup {Failed}

StageOf(s) ==
    CASE s = "absent" -> "none"
      [] s \in FailedStatuses -> "failed"
      [] OTHER -> s

\* From the INSERT to the end of the finally block.
Writing(r) ==
    Exists(r) /\ pc[r] \in {"work", "commit", "failed", "failCommit", "force", "closing"}

Register == INSTANCE RunRegister WITH
    stage <- [r \in Runs |-> StageOf(runs[r].status)],
    open <- {r \in Runs : Writing(r)}

\* The rows of the runs table move as RunRegister says, whoever writes them:
\* the process, its recovery, a reviewer or a cleanup.
ImplementsRegister == Register!RegisterSpec
=============================================================================
