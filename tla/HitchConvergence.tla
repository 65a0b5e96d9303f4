------------------------- MODULE HitchConvergence -------------------------
(* What the harness concludes from the tables of one hitch, and how the      *)
(* repositories change them: hitch/convergence.ts, convergence-metrics.ts,   *)
(* convergence-status.ts, close-checks.ts and hitch/repositories/*.ts.       *)
(* Everything here is a function of h, the rows of one hitch:                *)
(*   status, max   the session row: its status and its budgets               *)
(*   attempts      coding attempts by iteration; seen counts the review      *)
(*                 cycles that existed when the attempt was created          *)
(*   cycles        review cycles in order, with the run each one reviewed    *)
(*   findings      findings by stable key, life "none" when there is no row  *)
(*   checks        the latest close check of each condition; staleBy names   *)
(*                 what was written after it: the iteration of a coding      *)
(*                 attempt (undone when that attempt is discarded) or        *)
(*                 Tables, a finding or a cycle (never undone)               *)
(*   runs, prs     run rows by number, and the runs that have a pull request *)
(*   push          transient push failures of the run that is being closed   *)
(* Timestamps are compared only for order, so they are replaced by seen and  *)
(* staleBy; writes in the same millisecond are not modelled.                 *)
EXTENDS Integers, Sequences, FiniteSets, FiniteSetsExt

CONSTANTS
  ChangeKeys,  \* findings a negative review raises (P1, review-blocking)
  NoteKeys,    \* findings any review may raise (P2, advisory)
  OwnKeys,     \* findings an operator adds
  Conditions,  \* required close conditions, a subset of ConditionKinds
  MaxNewFindings, MaxNewPerCycle, MaxReopened, DecreaseAfter, \* divergence policy
  MaxPush      \* MAX_CLOSE_PUSH_ATTEMPTS

ConditionKinds == {"command", "review_consensus", "manual"}

ASSUME ConvergenceAssumption ==
  /\ Conditions \subseteq ConditionKinds
  /\ {MaxNewFindings, MaxNewPerCycle, MaxReopened, DecreaseAfter, MaxPush} \subseteq Nat
  /\ ChangeKeys \cap NoteKeys = {}
  /\ OwnKeys \cap (ChangeKeys \cup NoteKeys) = {}

Keys == ChangeKeys \cup NoteKeys \cup OwnKeys
Severities == {"P0", "P1", "P2"}
Scopes == {"in_scope", "out_of_scope", "unknown"}
Lives == {"none", "open", "reopened", "out_of_scope", "fixed", "deferred"}
HitchStatuses == {"open", "in_progress", "close_ready", "diverging",
                  "budget_exhausted", "escalated", "closed", "cancelled"}

Tables == 0
NoFinding == [sev |-> "P2", scope |-> "unknown", life |-> "none", cycle |-> 0, reopens |-> 0]
NoCheck == [status |-> "none", run |-> 0, staleBy |-> {}]

Open == {"open", "reopened"}
Unresolved == Open \cup {"out_of_scope"}

-----------------------------------------------------------------------------
(* Metrics                                                                   *)

OpenInScope(h, sev) ==
  {k \in Keys : /\ h.findings[k].sev = sev
                /\ h.findings[k].scope = "in_scope"
                /\ h.findings[k].life \in Open}
OpenUnknown(h) == {k \in Keys : h.findings[k].scope = "unknown" /\ h.findings[k].life \in Open}
OpenOutOfScope(h) ==
  {k \in Keys : h.findings[k].scope = "out_of_scope" /\ h.findings[k].life \in Unresolved}

IterationsUsed(h) == IF DOMAIN h.attempts = {} THEN 0 ELSE Max(DOMAIN h.attempts)
RerunsUsed(h) == Cardinality({i \in DOMAIN h.attempts : h.attempts[i].rerun})
CyclesUsed(h) == Len(h.cycles)

HasAttempt(h) == DOMAIN h.attempts # {}
Newest(h) == h.attempts[IterationsUsed(h)]
LatestCodingFailed(h) == HasAttempt(h) /\ Newest(h).status = "failed"
LatestCodingSucceeded(h) ==
  HasAttempt(h) /\ Newest(h).status = "succeeded" /\ Newest(h).run # 0
ReviewPending(h) ==
  /\ HasAttempt(h)
  /\ ~LatestCodingFailed(h)
  /\ Newest(h).seen = CyclesUsed(h)

(* The newest coding attempt that has a run: an attempt without one is       *)
(* skipped.                                                                  *)
LatestRun(h) ==
  LET withRun == {i \in DOMAIN h.attempts : h.attempts[i].run # 0}
  IN  IF withRun = {} THEN 0 ELSE h.attempts[Max(withRun)].run

-----------------------------------------------------------------------------
(* Close conditions                                                          *)

ConditionStatus(h, c) ==
  IF h.checks[c].status = "none" \/ h.checks[c].staleBy # {} THEN "pending"
                                                             ELSE h.checks[c].status
Pending(h, kind) == kind \in Conditions /\ ConditionStatus(h, kind) = "pending"
AllPassed(h) == Conditions # {} /\ \A c \in Conditions : ConditionStatus(h, c) = "passed"
SomeFailed(h) == \E c \in Conditions : ConditionStatus(h, c) = "failed"

(* closeRequirementsSatisfied under the default policy.                      *)
NoBlocker(h) ==
  OpenInScope(h, "P0") = {} /\ OpenInScope(h, "P1") = {} /\ OpenUnknown(h) = {}

-----------------------------------------------------------------------------
(* Budgets and divergence                                                    *)

BudgetExceeded(h) ==
  \/ IterationsUsed(h) > h.max.iterations
  \/ CyclesUsed(h) > h.max.cycles
  \/ RerunsUsed(h) > h.max.reruns
(* Bug: a budget is used up only when it is exceeded. *)
BudgetReachedLate(h) == BudgetExceeded(h)

BudgetReached(h) ==
  \/ IterationsUsed(h) >= h.max.iterations
  \/ CyclesUsed(h) >= h.max.cycles
  \/ RerunsUsed(h) >= h.max.reruns

NewIn(h, n) == Cardinality({k \in ChangeKeys : h.findings[k].life # "none" /\ h.findings[k].cycle = n})
Diverging(h) ==
  LET n == CyclesUsed(h)
  IN  \/ Cardinality({k \in ChangeKeys : h.findings[k].life # "none"}) > MaxNewFindings
      \/ n > 0 /\ NewIn(h, n) > MaxNewPerCycle
      \/ \E k \in ChangeKeys : h.findings[k].reopens > MaxReopened
      \/ /\ DecreaseAfter > 0 /\ n >= DecreaseAfter /\ n > 1
         /\ NewIn(h, n) > 0 /\ NewIn(h, n) >= NewIn(h, n - 1)

-----------------------------------------------------------------------------
(* The decision: the first rule whose guard holds.                           *)

Rule(guard, decision, action) == [guard |-> guard, verdict |-> [decision |-> decision, action |-> action]]

(* A run waits for its review and the review budget has a cycle left.        *)
ReviewDue(h) == ReviewPending(h) /\ CyclesUsed(h) < h.max.cycles

Rules(h) == <<
  Rule(h.status = "closed", "closed", "ask_human"),
  Rule(h.status = "cancelled", "cancel", "ask_human"),
  Rule(h.status = "budget_exhausted", "budget_exhausted", "ask_human"),
  Rule(h.status = "escalated", "escalate", "ask_human"),
  Rule(BudgetExceeded(h), "budget_exhausted", "ask_human"),
  Rule(OpenInScope(h, "P0") # {}, "escalate", "ask_human"),
  Rule(Diverging(h), "diverging", "ask_human"),
  Rule(AllPassed(h) /\ NoBlocker(h) /\ OpenOutOfScope(h) = {}, "close_ready", "close_hitch"),
  Rule(BudgetReached(h) /\ ReviewDue(h) /\ LatestCodingSucceeded(h), "continue", "run_review"),
  Rule(BudgetReached(h), "budget_exhausted", "ask_human"),
  Rule(ReviewDue(h), "continue", "run_review"),
  Rule(OpenUnknown(h) # {}, "needs_classification", "classify_findings"),
  Rule(OpenInScope(h, "P1") # {}, "needs_fix", "fix_findings"),
  Rule(SomeFailed(h), "needs_fix", "run_close_check"),
  Rule(AllPassed(h) /\ OpenOutOfScope(h) # {}, "continue", "defer_followups"),
  Rule(IterationsUsed(h) = 0, "needs_fix", "fix_findings"),
  Rule(LatestCodingFailed(h), "needs_fix", "fix_findings"),
  Rule(Pending(h, "review_consensus") /\ CyclesUsed(h) < h.max.cycles, "continue", "run_review"),
  Rule(Pending(h, "command"), "continue", "run_close_check"),
  Rule(Pending(h, "manual") \/ Conditions = {}, "continue", "ask_human"),
  Rule(TRUE, "continue", "run_close_check") >>

Decisions == {"continue", "needs_fix", "needs_classification", "close_ready", "closed",
              "diverging", "budget_exhausted", "escalate", "cancel"}
NextActions == {"fix_findings", "classify_findings", "run_review", "run_close_check",
                "defer_followups", "close_hitch", "ask_human"}
RuleTables == Seq([guard : BOOLEAN, verdict : [decision : Decisions, action : NextActions]])

(* The verdict of the first rule whose guard holds.                          *)
FirstHolding[rules \in RuleTables] ==
  rules[Min({n \in DOMAIN rules : rules[n].guard})].verdict

Decide(h) == FirstHolding[Rules(h)]

(* The status a decision stands for; the others leave the status alone.      *)
StatusFor == [close_ready |-> "close_ready", diverging |-> "diverging",
              budget_exhausted |-> "budget_exhausted", escalate |-> "escalated"]

(* syncHitchStatusForConvergence.                                            *)
Sync(h, decision) ==
  IF h.status \in {"closed", "cancelled"} THEN h
  ELSE IF decision \in DOMAIN StatusFor THEN [h EXCEPT !.status = StatusFor[decision]]
  ELSE IF h.status \in {"close_ready", "diverging"} THEN [h EXCEPT !.status = "in_progress"]
  ELSE h

EvaluateAndSync(h) == Sync(h, Decide(h).decision)

(* decideOrchestratorAction: the step the orchestrator takes.                *)
Step(v) ==
  CASE v.decision = "needs_fix" -> "coder"
    [] v.decision = "needs_classification" -> "classify"
    [] v.decision = "close_ready" -> "close"
    [] v.decision = "continue" /\ v.action = "run_review" -> "review"
    [] v.decision = "continue" /\ v.action = "run_close_check" -> "close_check"
    [] v.decision = "continue" /\ v.action = "defer_followups" -> "defer"
    [] OTHER -> "stop"

(* allowedByConvergence for the two mutations the orchestrator gates.        *)
MayStartRun(v) == v.decision = "needs_fix"
MayReview(v) == v.decision = "continue" /\ v.action = "run_review"

-----------------------------------------------------------------------------
(* Writes                                                                    *)

(* A write that outdates the recorded checks; who is Tables or an iteration. *)
Outdate(h, who) ==
  [h EXCEPT !.checks = [c \in Conditions |->
     IF h.checks[c].status = "none" THEN h.checks[c]
     ELSE [h.checks[c] EXCEPT !.staleBy = @ \cup {who}]]]

RecordCheck(h, c, status, run) ==
  [h EXCEPT !.checks = [x \in Conditions |->
     IF x = c THEN [status |-> status, run |-> run, staleBy |-> {}] ELSE @[x]]]

SetFinding(h, k, finding) == Outdate([h EXCEPT !.findings[k] = finding], Tables)

CreateAttempt(h) ==
  LET i == IterationsUsed(h) + 1
      attempt == [rerun |-> HasAttempt(h), status |-> "running", run |-> 0, seen |-> CyclesUsed(h)]
  IN  Outdate([h EXCEPT !.attempts =
        [j \in DOMAIN @ \cup {i} |-> IF j = i THEN attempt ELSE @[j]]], i)

CompleteAttempt(h, i, status, run) ==
  Outdate([h EXCEPT !.attempts[i].status = status,
                    !.attempts[i].run = IF run = 0 THEN @ ELSE run], i)

DiscardAttempt(h, i) ==
  [h EXCEPT !.attempts = [j \in DOMAIN @ \ {i} |-> @[j]],
            !.checks = [c \in Conditions |-> [h.checks[c] EXCEPT !.staleBy = @ \ {i}]]]

Rank(sev) == CASE sev = "P0" -> 0 [] sev = "P1" -> 1 [] sev = "P2" -> 2
ScopeRank(scope) == CASE scope = "out_of_scope" -> 0 [] scope = "unknown" -> 1 [] scope = "in_scope" -> 2

DefaultLife(scope) == IF scope = "out_of_scope" THEN "out_of_scope" ELSE "open"

(* upsertFindingWithin: a finding is inserted, or the row with its stable    *)
(* key is promoted and, if it was settled, reopened.                         *)
Upsert(f, seed, cycle, harnessOrigin) ==
  LET blocker == seed.scope \in {"in_scope", "unknown"}
      reopen == blocker /\ f.life \in {"fixed", "deferred", "out_of_scope"}
  IN  IF f.life = "none"
      THEN [sev |-> seed.sev, scope |-> seed.scope, life |-> DefaultLife(seed.scope),
            cycle |-> cycle, reopens |-> 0]
      ELSE [f EXCEPT !.sev = IF Rank(seed.sev) < Rank(@) THEN seed.sev ELSE @,
                     !.scope = IF blocker /\ ScopeRank(seed.scope) > ScopeRank(@)
                               THEN seed.scope ELSE @,
                     !.life = IF reopen THEN "reopened" ELSE @,
                     !.reopens = IF reopen /\ harnessOrigin THEN @ + 1 ELSE @]

(* classifyFinding.                                                          *)
Classify(f, scope) ==
  [f EXCEPT !.scope = scope,
            !.life = CASE scope = "out_of_scope" /\ @ # "deferred" -> "out_of_scope"
                       [] scope = "unknown" /\ @ \notin Open -> "open"
                       [] scope = "in_scope" /\ @ \in {"out_of_scope", "deferred"} -> "open"
                       [] OTHER -> @]

(* Bug: whoever raised a blocker, an approval retires it. *)
SupersededAnyOrigin(h, r, cycle) ==
  {k \in Keys : /\ h.findings[k].scope = "in_scope" /\ h.findings[k].life \in Open
                /\ h.findings[k].sev # "P0" /\ h.findings[k].cycle < cycle}

(* resolveSupersededReviewFindings: what an approval of run r in a cycle     *)
(* retires.                                                                  *)
Superseded(h, r, cycle) ==
  {k \in ChangeKeys :
     /\ LatestRun(h) \in {0, r}
     /\ h.findings[k].scope = "in_scope"
     /\ h.findings[k].life \in Open
     /\ h.findings[k].sev # "P0"
     /\ h.findings[k].cycle < cycle}

(* Bug: the cycle is recorded for the run that the reviewed one continues. *)
AddCycleOfParent(h, r) ==
  LET parent == h.runs[r].parent
  IN  Outdate([h EXCEPT !.cycles = Append(@, [run |-> IF parent = 0 THEN r ELSE parent])], Tables)

AddCycle(h, r) == Outdate([h EXCEPT !.cycles = Append(@, [run |-> r])], Tables)

(* importReviewProposalToHitch, its transaction: the cycle, the findings of  *)
(* the proposal, the blockers an approval retires, and the check.            *)
Import(h, r, verdict, seeds) ==
  LET started == AddCycle(h, r)
      n == CyclesUsed(started)
      seeded == [started EXCEPT !.findings = [k \in Keys |->
                   IF \E s \in seeds : s.key = k
                   THEN Upsert(@[k], CHOOSE s \in seeds : s.key = k, n, TRUE)
                   ELSE @[k]]]
      retired == IF verdict = "approved" THEN Superseded(seeded, r, n) ELSE {}
      resolved == [seeded EXCEPT !.findings = [k \in Keys |->
                     IF k \in retired THEN [@[k] EXCEPT !.life = "fixed"] ELSE @[k]]]
  IN  IF "review_consensus" \in Conditions
      THEN RecordCheck(resolved, "review_consensus",
                       IF verdict = "approved" THEN "passed" ELSE "failed", r)
      ELSE resolved

(* Bug: the counter starts again with every failure. *)
CountPushForgets(h, r) == [h EXCEPT !.push = [run |-> r, n |-> 1]]

(* incrementClosePushAttempts.                                               *)
CountPush(h, r) ==
  [h EXCEPT !.push = [run |-> r, n |-> IF @.run = r THEN @.n + 1 ELSE 1]]
=============================================================================
