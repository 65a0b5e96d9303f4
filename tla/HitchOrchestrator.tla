------------------------- MODULE HitchOrchestrator -------------------------
(* Processes that drive one hitch to its pull request (hitch/orchestrator.ts *)
(* and its runners) while an operator uses the hitch commands.               *)
(*                                                                           *)
(* A drive keeps nothing between two steps of its loop: every step starts    *)
(* from an evaluation of the tables. The top of the loop, the end of the     *)
(* loop and a new invocation are therefore one program counter, "idle".      *)
(* Every withManagedDb block of a runner is one action: the database is      *)
(* closed between two of them and anybody may write. Statements of another   *)
(* process that fall inside such a block are not modelled.                   *)
EXTENDS HitchConvergence

CONSTANTS
  Drives,        \* processes that run `hitch orchestrate`
  MaxIterations, MaxCycles, MaxReruns, \* the budgets the hitch starts with
  Extension,     \* what a reopen adds to each budget
  MaxRuns,       \* run rows: a bound on the model
  MaxCrashes, MaxLapses, MaxOps, \* process deaths, lost leases, operator commands
  OpKinds        \* the operator commands of an instance

(* The operator commands that are modelled.                                  *)
Commands == {"cancel", "close", "reopen", "add", "fixed", "classify", "record", "attempt"}

ASSUME OrchestratorAssumption ==
  /\ {MaxIterations, MaxCycles, MaxReruns, Extension, MaxRuns, MaxCrashes, MaxLapses, MaxOps}
       \subseteq Nat
  /\ Drives # {} /\ IsFiniteSet(Drives) /\ {"none", "dead"} \cap Drives = {}
  /\ OpKinds \subseteq Commands

VARIABLES
  hitch, \* the rows of the hitch
  drive, \* what each process remembers between two transactions
  lock,  \* the domain lock: its holder, "none", or "dead" when the holder died
  left   \* crashes, lapses and operator commands still allowed

vars == <<hitch, drive, lock, left>>

Runs == 1..MaxRuns
RunStatuses == {"created", "needs_review", "approved", "changes_requested", "failed"}
Steps == {"idle", "coder_gate", "coder_create", "coder_lock", "coder_work", "coder_done",
          "coder_void", "review_gate", "review_pick", "review_known", "review_work",
          "review_import", "check_prep", "check_record", "classify_read", "classify_apply", "classify_stop",
          "defer_read", "defer_one", "close_eval", "close_pr", "close_done"}

Idle == [pc |-> "idle", att |-> 0, run |-> 0, keys |-> {}]

HitchTypeOK ==
  /\ hitch.status \in HitchStatuses
  /\ hitch.max \in [{"iterations", "cycles", "reruns"} -> Nat]
  /\ DOMAIN hitch.attempts \subseteq Nat \ {0}
  /\ \A i \in DOMAIN hitch.attempts :
       hitch.attempts[i] \in [rerun : BOOLEAN, status : {"running", "succeeded", "failed"},
                              run : 0..MaxRuns, seen : Nat]
  /\ hitch.cycles \in Seq([run : Runs])
  /\ hitch.findings \in [Keys -> [sev : Severities, scope : Scopes, life : Lives,
                                  cycle : Nat, reopens : Nat]]
  /\ hitch.checks \in [Conditions -> [status : {"none", "passed", "failed"}, run : 0..MaxRuns,
                                      staleBy : SUBSET Nat]]
  /\ hitch.runs \in Seq([status : RunStatuses, parent : 0..MaxRuns])
  /\ hitch.prs \subseteq Runs
  /\ hitch.push \in [run : 0..MaxRuns, n : Nat]
  /\ drive \in [Drives -> [pc : Steps, att : Nat, run : 0..MaxRuns, keys : SUBSET Keys]]
  /\ lock \in Drives \cup {"none", "dead"}
  /\ left \in [crashes : 0..MaxCrashes, lapses : 0..MaxLapses, ops : 0..MaxOps]

Init ==
  /\ hitch = [status |-> "open",
              max |-> [iterations |-> MaxIterations, cycles |-> MaxCycles, reruns |-> MaxReruns],
              attempts |-> [i \in {} |-> 0], cycles |-> <<>>,
              findings |-> [k \in Keys |-> NoFinding],
              checks |-> [c \in Conditions |-> NoCheck],
              runs |-> <<>>, prs |-> {}, push |-> [run |-> 0, n |-> 0]]
  /\ drive = [d \in Drives |-> Idle]
  /\ lock = "none"
  /\ left = [crashes |-> MaxCrashes, lapses |-> MaxLapses, ops |-> MaxOps]

-----------------------------------------------------------------------------
(* How a step of the loop ends                                               *)

At(d, pc) == drive[d].pc = pc
Goto(d, pc) == drive' = [drive EXCEPT ![d].pc = pc]

(* The loop goes on, or the invocation ends: nothing is remembered.          *)
Return(d, h) == hitch' = h /\ drive' = [drive EXCEPT ![d] = Idle]

(* The catch of HitchOrchestrator.run and the escalations of closeAndPr: the *)
(* status is written whatever it is now.                                     *)
Escalated(h) == [h EXCEPT !.status = "escalated"]
Throw(d, h) == Return(d, Escalated(h))

(* evaluateConvergenceAndRecordStatus and decideOrchestratorAction.          *)
FirstPc == [coder |-> "coder_gate", review |-> "review_gate", close_check |-> "check_prep",
            classify |-> "classify_read", defer |-> "defer_read", close |-> "close_eval",
            stop |-> "idle"]
Evaluate(d) ==
  /\ At(d, "idle")
  /\ \E v \in {Decide(hitch)} :
       hitch' = Sync(hitch, v.decision) /\ Goto(d, FirstPc[Step(v)])
  /\ UNCHANGED <<lock, left>>

-----------------------------------------------------------------------------
(* coder                                                                     *)

CoderGate(d) ==
  /\ At(d, "coder_gate")
  /\ \E v \in {Decide(hitch)} :
       IF MayStartRun(v)
       THEN hitch' = Sync(hitch, v.decision) /\ Goto(d, "coder_create")
       ELSE Throw(d, Sync(hitch, v.decision))
  /\ UNCHANGED <<lock, left>>

(* The attempt is recorded; the run it continues is remembered in run.       *)
CoderCreate(d) ==
  /\ At(d, "coder_create")
  /\ hitch' = CreateAttempt(hitch)
  /\ drive' = [drive EXCEPT ![d].pc = "coder_lock", ![d].att = IterationsUsed(hitch) + 1,
                            ![d].run = LatestRun(hitch)]
  /\ UNCHANGED <<lock, left>>

HasChild(h, r) == r # 0 /\ \E i \in DOMAIN h.runs : h.runs[i].parent = r

(* runDomainCoding up to the run row. The lock may be taken: the attempt is  *)
(* discarded and the drive ends. The parent may have a child, or the set-up  *)
(* may fail: the attempt fails without a run.                                *)
CoderLock(d) ==
  /\ At(d, "coder_lock")
  /\ \/ /\ lock # "none"
        /\ Return(d, DiscardAttempt(hitch, drive[d].att))
        /\ UNCHANGED lock
     \/ /\ lock = "none"
        /\ Throw(d, CompleteAttempt(hitch, drive[d].att, "failed", 0))
        /\ UNCHANGED lock
     \/ /\ lock = "none" /\ ~HasChild(hitch, drive[d].run)
        /\ Len(hitch.runs) < MaxRuns
        /\ hitch' = [hitch EXCEPT !.runs =
                       Append(@, [status |-> "created", parent |-> drive[d].run])]
        /\ drive' = [drive EXCEPT ![d].pc = "coder_work", ![d].run = Len(hitch.runs) + 1]
        /\ lock' = d
  /\ UNCHANGED left

(* The run ends: with its status when the lease still stands, as failed by   *)
(* forceFailFinalize when it does not. Its row is left as it was inserted    *)
(* when createDbRunLog throws after the INSERT or forceFailFinalize fails.   *)
CoderWork(d) ==
  /\ At(d, "coder_work")
  /\ IF lock = d
     THEN \E status \in {"needs_review", "failed", "created"} :
            /\ hitch' = [hitch EXCEPT !.runs[drive[d].run].status = status]
            /\ Goto(d, "coder_done")
            /\ lock' = "none"
     ELSE /\ \E status \in {"failed", "created"} :
               /\ hitch' = [hitch EXCEPT !.runs[drive[d].run].status = status]
               /\ Goto(d, "coder_void") \/ (status = "created" /\ Goto(d, "coder_done"))
          /\ UNCHANGED lock
  /\ UNCHANGED left

(* The run returned, or threw RunFinalizedError after it was recorded as     *)
(* failed; a run that never reached its try names no run.                    *)
CoderDone(d) ==
  /\ At(d, "coder_done")
  /\ LET status == hitch.runs[drive[d].run].status
         done(end, r) == CompleteAttempt(hitch, drive[d].att, end, r)
     IN  \/ status \notin {"failed", "created"} /\ Return(d, done("succeeded", drive[d].run))
         \/ status = "failed" /\ Return(d, done("failed", drive[d].run))
         \/ /\ status \in {"failed", "created"}
            /\ \E r \in {drive[d].run} \cup (IF status = "created" THEN {0} ELSE {}) :
                 Throw(d, done("failed", r))
  /\ UNCHANGED <<lock, left>>

(* The lease was lost: a transient error, the attempt is discarded.          *)
CoderVoid(d) ==
  /\ At(d, "coder_void")
  /\ Return(d, DiscardAttempt(hitch, drive[d].att))
  /\ UNCHANGED <<lock, left>>

-----------------------------------------------------------------------------
(* review                                                                    *)

ReviewedBefore(h, r) == \E i \in DOMAIN h.cycles : h.cycles[i].run = r

ReviewGate(d) ==
  /\ At(d, "review_gate")
  /\ \E v \in {Decide(hitch)} :
       IF MayReview(v)
       THEN hitch' = Sync(hitch, v.decision) /\ Goto(d, "review_pick")
       ELSE Throw(d, Sync(hitch, v.decision))
  /\ UNCHANGED <<lock, left>>

(* latestRunId.                                                              *)
ReviewPick(d) ==
  /\ At(d, "review_pick")
  /\ IF LatestRun(hitch) = 0
     THEN Throw(d, hitch)
     ELSE /\ drive' = [drive EXCEPT ![d].pc = "review_known", ![d].run = LatestRun(hitch)]
          /\ UNCHANGED hitch
  /\ UNCHANGED <<lock, left>>

(* tryShortCircuitApprovedDecidedReview: the check is recorded again for a   *)
(* run that is approved already, but only if its review was imported.        *)
ReviewKnown(d) ==
  /\ At(d, "review_known")
  /\ LET r == drive[d].run
         decided == hitch.runs[r].status = "approved" /\ "review_consensus" \in Conditions
     IN  \/ /\ decided /\ ReviewedBefore(hitch, r)
            /\ \E h \in {RecordCheck(hitch, "review_consensus", "passed", r)} :
                 Return(d, EvaluateAndSync(h))
         \/ /\ decided /\ ~ReviewedBefore(hitch, r)
            /\ Throw(d, hitch)
         \/ /\ ~decided
            /\ Goto(d, "review_work") /\ UNCHANGED hitch
  /\ UNCHANGED <<lock, left>>

(* The reviewers and processReviewDecision: a verdict moves the run, too few *)
(* reviewers leave a pending cycle (a stalled consensus escalates), anything *)
(* else, and a run that is not waiting for its review, throws.               *)
ReviewWork(d) ==
  /\ At(d, "review_work")
  /\ LET r == drive[d].run
     IN  \/ /\ hitch.runs[r].status = "needs_review"
            /\ \E verdict \in {"approved", "changes_requested"} :
                 hitch' = [hitch EXCEPT !.runs[r].status = verdict]
            /\ Goto(d, "review_import")
         \/ /\ hitch.runs[r].status = "needs_review"
            /\ \E h \in {AddCycle(hitch, r)} :
                 \E decision \in {Decide(h).decision, "escalate"} : Return(d, Sync(h, decision))
         \/ Throw(d, hitch)
  /\ UNCHANGED <<lock, left>>

(* The findings a proposal can carry: an approval carries no blocker.        *)
Seeds(verdict) ==
  LET seed(k, sev, scope) == [key |-> k, sev |-> sev, scope |-> scope]
  IN  IF verdict = "approved"
      THEN {{}} \cup {{seed(k, "P2", s)} : k \in NoteKeys, s \in Scopes}
      ELSE {{seed(k, "P1", s)} : k \in ChangeKeys, s \in Scopes}

ReviewImport(d) ==
  /\ At(d, "review_import")
  /\ LET r == drive[d].run
         verdict == hitch.runs[r].status
     IN  \E seeds \in Seeds(verdict) :
           \E h \in {Import(hitch, r, verdict, seeds)} : Return(d, EvaluateAndSync(h))
  /\ UNCHANGED <<lock, left>>

-----------------------------------------------------------------------------
(* closeCheck                                                                *)

CheckPrep(d) ==
  /\ At(d, "check_prep")
  /\ IF LatestRun(hitch) # 0 /\ Pending(hitch, "command")
     THEN /\ drive' = [drive EXCEPT ![d].pc = "check_record", ![d].run = LatestRun(hitch)]
          /\ UNCHANGED hitch
     ELSE Throw(d, hitch)
  /\ UNCHANGED <<lock, left>>

(* The commands have run in the worktree of the run, or could not.           *)
CheckRecord(d) ==
  /\ At(d, "check_record")
  /\ \/ \E status \in {"passed", "failed"} :
          Return(d, RecordCheck(hitch, "command", status, drive[d].run))
     \/ Throw(d, hitch)
  /\ UNCHANGED <<lock, left>>

-----------------------------------------------------------------------------
(* classify and defer                                                        *)

ClassifyRead(d) ==
  /\ At(d, "classify_read")
  /\ IF OpenUnknown(hitch) = {}
     THEN Return(d, hitch)
     ELSE /\ drive' = [drive EXCEPT ![d].pc = "classify_apply", ![d].keys = OpenUnknown(hitch)]
          /\ UNCHANGED hitch
  /\ UNCHANGED <<lock, left>>

(* Phase 3: every finding of the snapshot is read again. The jury decides    *)
(* some of the review's own findings; the others, and an operator's, need a  *)
(* person.                                                                   *)
ClassifyApply(d) ==
  /\ At(d, "classify_apply")
  /\ LET fresh == drive[d].keys \cap OpenUnknown(hitch)
     IN  \E decided \in SUBSET (fresh \ OwnKeys) :
           \E scope \in [decided -> {"in_scope", "out_of_scope"}] :
             /\ hitch' = IF decided = {} THEN hitch ELSE
                  Outdate([hitch EXCEPT !.findings = [k \in Keys |->
                             IF k \in decided THEN Classify(@[k], scope[k]) ELSE @[k]]], Tables)
             /\ drive' = [drive EXCEPT ![d] =
                  IF decided = fresh THEN Idle ELSE [Idle EXCEPT !.pc = "classify_stop"]]
  /\ UNCHANGED <<lock, left>>

(* The unresolved classification is recorded as an escalation.               *)
ClassifyStop(d) ==
  /\ At(d, "classify_stop")
  /\ Return(d, Sync(hitch, "escalate"))
  /\ UNCHANGED <<lock, left>>

DeferRead(d) ==
  /\ At(d, "defer_read")
  /\ IF OpenOutOfScope(hitch) = {}
     THEN Return(d, hitch)
     ELSE /\ drive' = [drive EXCEPT ![d].pc = "defer_one", ![d].keys = OpenOutOfScope(hitch)]
          /\ UNCHANGED hitch
  /\ UNCHANGED <<lock, left>>

(* One finding of the batch; after the last one the set is read again.       *)
DeferOne(d) ==
  /\ At(d, "defer_one")
  /\ \E k \in drive[d].keys :
       IF hitch.findings[k].scope # "out_of_scope"
       THEN Throw(d, hitch)
       ELSE /\ hitch' = SetFinding(hitch, k, [hitch.findings[k] EXCEPT !.life = "deferred"])
            /\ drive' = [drive EXCEPT ![d].keys = @ \ {k},
                                      ![d].pc = IF drive[d].keys = {k} THEN "defer_read" ELSE @]
  /\ UNCHANGED <<lock, left>>

-----------------------------------------------------------------------------
(* closeAndPr                                                                *)

CloseEval(d) ==
  /\ At(d, "close_eval")
  /\ IF Decide(hitch).decision = "close_ready" /\ LatestRun(hitch) # 0
     THEN /\ drive' = [drive EXCEPT ![d].pc = "close_pr", ![d].run = LatestRun(hitch)]
          /\ UNCHANGED hitch
     ELSE Throw(d, hitch)
  /\ UNCHANGED <<lock, left>>

(* createPullRequest: an existing pull request is returned as it is; a run   *)
(* that is not approved, a failed gate or a permanent push failure escalate; *)
(* a transient push failure is counted and tried again by a later drive.     *)
ClosePr(d) ==
  /\ At(d, "close_pr")
  /\ LET r == drive[d].run
         pushable == r \notin hitch.prs /\ hitch.runs[r].status = "approved"
         counted == CountPush(hitch, r)
     IN  \/ /\ r \in hitch.prs \/ pushable
            /\ hitch' = [hitch EXCEPT !.prs = @ \cup {r}]
            /\ Goto(d, "close_done")
         \/ /\ pushable
            /\ IF counted.push.n > MaxPush
               THEN Throw(d, counted)
               ELSE Return(d, [counted EXCEPT !.status = "close_ready"])
         \/ /\ r \notin hitch.prs
            /\ Throw(d, hitch)
  /\ UNCHANGED <<lock, left>>

CloseDone(d) ==
  /\ At(d, "close_done")
  /\ Return(d, [hitch EXCEPT !.status = "closed"])
  /\ UNCHANGED <<lock, left>>

-----------------------------------------------------------------------------
(* The operator's commands: each is one short transaction.                   *)

Reopenable == {"closed", "budget_exhausted", "escalated"}

OpCancel(h) == {[h EXCEPT !.status = "cancelled"]}
OpClose(h) ==
  {[h EXCEPT !.status = "closed"] : force \in
     IF Decide(h).decision = "close_ready" THEN BOOLEAN ELSE {TRUE}}
OpReopen(h) ==
  IF h.status \notin Reopenable THEN {} ELSE
    {[h EXCEPT !.status = "open", !.push = [run |-> 0, n |-> 0],
               !.max = [b \in DOMAIN @ |-> @[b] + Extension]]}
(* A finding of the operator's belongs to no cycle, and its reopening is not *)
(* counted against the harness.                                              *)
AddOwn(f, seed) == Upsert(f, seed, 0, FALSE)
OpAdd(h) ==
  {SetFinding(h, k, AddOwn(h.findings[k], [sev |-> sev, scope |-> scope])) :
     k \in OwnKeys, sev \in {"P1", "P2"}, scope \in Scopes}
OpFixed(h) ==
  {SetFinding(h, k, [h.findings[k] EXCEPT !.life = "fixed"]) :
     k \in {x \in Keys : h.findings[x].life # "none"}}
OpClassify(h) ==
  {SetFinding(h, k, Classify(h.findings[k], scope)) :
     k \in {x \in Keys : h.findings[x].life # "none"}, scope \in Scopes}
OpRecord(h) ==
  {RecordCheck(h, "manual", status, 0) :
     status \in IF "manual" \in Conditions THEN {"passed", "failed"} ELSE {}}
(* `hitch attempt complete --status failed`, the way out for an attempt      *)
(* whose process died.                                                       *)
OpAttempt(h) ==
  {CompleteAttempt(h, i, "failed", 0) :
     i \in {j \in DOMAIN h.attempts : h.attempts[j].status = "running"}}

Outcomes(op, h) ==
  CASE op = "cancel" -> OpCancel(h)
    [] op = "close" -> OpClose(h)
    [] op = "reopen" -> OpReopen(h)
    [] op = "add" -> OpAdd(h)
    [] op = "fixed" -> OpFixed(h)
    [] op = "classify" -> OpClassify(h)
    [] op = "record" -> OpRecord(h)
    [] op = "attempt" -> OpAttempt(h)

Operate(op) ==
  /\ left.ops > 0
  /\ \E h \in Outcomes(op, hitch) : hitch' = h
  /\ left' = [left EXCEPT !.ops = @ - 1]
  /\ UNCHANGED <<drive, lock>>

-----------------------------------------------------------------------------
(* Failures                                                                  *)

(* The process dies. The lock it held stays until its lease runs out.        *)
Crash(d) ==
  /\ left.crashes > 0 /\ ~At(d, "idle")
  /\ drive' = [drive EXCEPT ![d] = Idle]
  /\ lock' = IF lock = d THEN "dead" ELSE lock
  /\ left' = [left EXCEPT !.crashes = @ - 1]
  /\ UNCHANGED hitch

LeaseExpires ==
  /\ lock = "dead"
  /\ lock' = "none"
  /\ UNCHANGED <<hitch, drive, left>>

(* A living process misses its heartbeats and its lease runs out.            *)
LeaseLost(d) ==
  /\ left.lapses > 0 /\ lock = d
  /\ lock' = "none"
  /\ left' = [left EXCEPT !.lapses = @ - 1]
  /\ UNCHANGED <<hitch, drive>>

DriveStep(d) ==
  \/ Evaluate(d)
  \/ CoderGate(d) \/ CoderCreate(d) \/ CoderLock(d) \/ CoderWork(d) \/ CoderDone(d) \/ CoderVoid(d)
  \/ ReviewGate(d) \/ ReviewPick(d) \/ ReviewKnown(d) \/ ReviewWork(d) \/ ReviewImport(d)
  \/ CheckPrep(d) \/ CheckRecord(d)
  \/ ClassifyRead(d) \/ ClassifyApply(d) \/ ClassifyStop(d)
  \/ DeferRead(d) \/ DeferOne(d)
  \/ CloseEval(d) \/ ClosePr(d) \/ CloseDone(d)

Next ==
  \/ \E d \in Drives : DriveStep(d) \/ Crash(d) \/ LeaseLost(d)
  \/ \E op \in OpKinds : Operate(op)
  \/ LeaseExpires

Spec == Init /\ [][Next]_vars

(* A drive that can take a step takes it, and the hitch is driven again      *)
(* after an invocation ends; the lease of a dead holder runs out.            *)
Fairness == WF_vars(LeaseExpires) /\ \A d \in Drives : WF_vars(DriveStep(d))
FairSpec == Spec /\ Fairness

-----------------------------------------------------------------------------
(* The runs as the other models know them: a drive's process writes the row  *)
(* of its run from the lock to the end of the step.                          *)

Writes(o) == o.pc \in {"coder_work", "coder_done", "coder_void"}
StageIn(h, r) ==
  IF r \notin DOMAIN h.runs THEN "none"
  ELSE IF h.runs[r].status = "created" THEN "running" ELSE h.runs[r].status

Register == INSTANCE RunRegister
  WITH stage <- [r \in Runs |-> StageIn(hitch, r)],
       open <- {drive[d].run : d \in {e \in Drives : Writes(drive[e])}}

ImplementsRegister == Register!RegisterSpec

(* The domain lock as its users know it: it is granted to a run, and the     *)
(* number of the run serves as the fencing token.                            *)
Holder == IF lock = "none" THEN 0 ELSE Len(hitch.runs)

Fenced == INSTANCE FencedLock
  WITH Clients <- Runs, Names <- {"domain"}, Nobody <- 0,
       owner <- [n \in {"domain"} |-> Holder], token <- [n \in {"domain"} |-> Holder],
       live <- [n \in {"domain"} |-> lock # "none"], issued <- Len(hitch.runs)

UsesTheLock == Fenced!FenceSpec

-----------------------------------------------------------------------------
(* Properties                                                                *)

(* No budget is exceeded by more than the drives that passed the gate        *)
(* together: the gate and the row it counts are two transactions, so a       *)
(* second drive may slip in between.                                         *)
BudgetHolds ==
  LET slack == Cardinality(Drives) - 1
  IN  /\ IterationsUsed(hitch) <= hitch.max.iterations + slack
      /\ CyclesUsed(hitch) <= hitch.max.cycles + slack
      /\ RerunsUsed(hitch) <= hitch.max.reruns + slack

(* A run with a pull request is approved and its review was imported into    *)
(* the hitch, so that its findings were seen before the close.               *)
PrHasItsReview ==
  \A r \in hitch.prs :
    hitch.runs[r].status = "approved" /\ \E i \in DOMAIN hitch.cycles : hitch.cycles[i].run = r

Blocks(f) == f.life \in Open /\ f.scope \in {"in_scope", "unknown"} /\ f.sev \in {"P0", "P1"}
ByOperator == left'.ops # left.ops

(* Without an operator, a finding that blocks the close stops blocking only  *)
(* because the jury moved it out of scope, when its scope was unknown, or    *)
(* because a later review approved the newest run; an operator's finding     *)
(* never does.                                                               *)
OnlyApprovalRetires ==
  [][ByOperator \/ \A k \in Keys :
       Blocks(hitch.findings[k]) /\ ~Blocks(hitch'.findings[k]) =>
         /\ k \notin OwnKeys
         /\ \/ hitch.findings[k].scope = "unknown" /\ hitch'.findings[k].scope = "out_of_scope"
            \/ /\ Len(hitch'.cycles) > hitch.findings[k].cycle
               /\ Len(hitch'.cycles) > Len(hitch.cycles)
               /\ LET r == hitch'.cycles[Len(hitch'.cycles)].run
                  IN  r = LatestRun(hitch) /\ hitch.runs[r].status = "approved"]_vars

(* The orchestrator has nothing to do for the hitch as it stands.            *)
Settled == Step(Decide(hitch)) = "stop"

(* The newest coding attempt is recorded as running, but the process that    *)
(* created it is gone.                                                       *)
AttemptAbandoned ==
  /\ HasAttempt(hitch) /\ Newest(hitch).status = "running"
  /\ \A d \in Drives : drive[d].att # IterationsUsed(hitch)

(* The loop ends: a hitch that is driven again and again comes to rest, at a *)
(* close, a budget, an escalation or a question to a person, unless a coder  *)
(* died and left its attempt running.                                        *)
SettlesUnlessAbandoned == []<>(Settled \/ AttemptAbandoned)

(* The loop ends whatever happens: convergence.ts:219 says of the review it  *)
(* routes to that "it is bounded: one review per coder run".                 *)
AlwaysSettles == []<>Settled
=============================================================================
