-------------------------- MODULE ReviewGovernance --------------------------
(* Who may decide a run, and on what.  One run waits in needs_review while   *)
(* operating-system processes that share only the database act on it:        *)
(*   Autos       harness review auto       (core/reviewer-agent.ts)          *)
(*   Processors  harness review process    (core/review-processor.ts)        *)
(*   Overriders  review process --override (core/review-processor-paths.ts)  *)
(*   Drives      a hitch drive's review    (hitch/orchestrator-runners.ts)   *)
(* Every statement or transaction that touches the database is one step; any *)
(* other process may run between two of them and any process may die there.  *)
(* File export is OFF, the default: the sidecar review-decision.yaml exists  *)
(* only as a hand-edited verdict.                                            *)
EXTENDS ReviewConsensus

CONSTANTS Autos, Processors, Overriders, Drives,
          Group,           \* registry: reviewer -> group
          Settings         \* the circumstances a run may find itself in

(* A setting is a record                                                     *)
(*   rule          the rule snapshot frozen for the run                      *)
(*   cast          the processes that act on it                              *)
(*   reviewers     reviewer ids `review auto` may run as                     *)
(*   changes       changes a reviewer may ask for                            *)
(*   bindings      proposal ids a caller may bind to; 0: unbound             *)
(*   overrides     verdicts an operator may override with                    *)
(*   hand          verdicts an operator may write into the sidecar           *)
(*   housekeeping  proposal ids an operator may archive                      *)
(*   fail, crash   may a reviewer give no usable answer?  a process die?     *)
(*   rows          bound on review_proposals                                 *)
ASSUME GovernanceAssumption ==
  \A s \in Settings :
    /\ RuleIsCompiled(s.rule) /\ RuleIsCoherent(s.rule)
    /\ s.overrides \subseteq Verdicts /\ s.hand \subseteq Verdicts

Manual == "manual-file"    \* reviewer recorded for an imported sidecar
Procs == Autos \cup Processors \cup Overriders \cup Drives

VARIABLES
  setting,     \* never changes
  status,      \* runs.status
  decision,    \* the review_decisions row: how the run was decided, by what
  proposals,   \* review_proposals, in proposal_id order
  consensus,   \* review_consensus; the last row is the active one
  overrides,   \* consensus ids linked from review_overrides rows
  refutes,     \* review_refute_votes
  sidecar,     \* review-decision.yaml
  proc         \* the processes

govVars == <<setting, status, decision, proposals, consensus, overrides, refutes, sidecar, proc>>

Rule == setting.rule
Ids == 1 .. Len(proposals)
Undecided == [via |-> "none", cid |-> 0, ids |-> {}]
IdleProc == [pc |-> "idle", reviewer |-> Manual, overwrite |-> FALSE, todo |-> {},
             ask |-> {}, failed |-> {}, pick |-> 0, bound |-> 0, verdict |-> "pending", cid |-> 0]

GovInit ==
  /\ setting \in Settings
  /\ status = "needs_review"
  /\ decision = Undecided
  /\ proposals = <<>>
  /\ consensus = <<>>
  /\ overrides = {}
  /\ refutes = {}
  /\ sidecar = "none"
  /\ proc = [p \in Procs |-> IF p \in setting.cast THEN IdleProc ELSE [IdleProc EXCEPT !.pc = "done"]]

----------------------------------------------------------------------------
(* Database statements.                                                       *)

Live(row) == ~row.superseded /\ ~row.processed

(* getLatestActiveProposal: reviewed_at DESC, proposal_id DESC.              *)
LatestActive ==
  LET live == {i \in Ids : Live(proposals[i])}
  IN  IF live = {} THEN 0 ELSE CHOOSE i \in live : \A j \in live : j =< i

(* activeProposalRows + enrichRows: live rows that are not archived, of the  *)
(* frozen reviewers when the rule declares them.                             *)
ActiveRows ==
  FrozenOnly(Rule,
    {[id |-> i, reviewer |-> proposals[i].reviewer, group |-> Group[proposals[i].reviewer],
      decision |-> proposals[i].decision, changes |-> proposals[i].changes,
      at |-> i, superseded |-> proposals[i].superseded] :
       i \in {j \in Ids : Live(proposals[j]) /\ proposals[j].lifecycle # "archived"}})

Evaluate(override, rows) ==
  EvaluateConsensus(Rule, rows, refutes, override, Len(proposals))

(* ReviewConsensusRepository.insertActive.                                   *)
InsertConsensus(result, by) ==
  consensus' = Append(consensus, [status |-> result.status, path |-> result.path, by |-> by])

(* UPDATE ... SET superseded_at, lifecycle_status for the rows in ids.       *)
Supersede(rows, ids) ==
  [i \in DOMAIN rows |-> IF i \in ids THEN [rows[i] EXCEPT !.superseded = TRUE,
                                                          !.lifecycle = "superseded"]
                         ELSE rows[i]]

Held(reviewer) == {i \in Ids : proposals[i].reviewer = reviewer /\ ~proposals[i].superseded}

(* Bug: the reviewer's answer is stored whatever happened to the run. *)
ProposalAcceptedAnyStatus(reviewer, overwrite) ==
  overwrite \/ Held(reviewer) = {}

(* insertProposal's gates: the run still waits for review, and a caller that *)
(* may not overwrite supersedes nothing.                                     *)
ProposalAccepted(reviewer, overwrite) ==
  status = "needs_review" /\ (overwrite \/ Held(reviewer) = {})

InsertProposal(reviewer, d, cs) ==
  proposals' = Append(Supersede(proposals, Held(reviewer)),
                      [reviewer |-> reviewer, decision |-> d, changes |-> cs,
                       superseded |-> FALSE, processed |-> FALSE, lifecycle |-> "active"])

MarkProcessed(ids) ==
  [i \in DOMAIN proposals |->
     IF i \in ids THEN [proposals[i] EXCEPT !.processed = TRUE, !.lifecycle = "processed"]
     ELSE proposals[i]]

(* Bug: a superseded or processed row can still be promoted. *)
DecisionAcceptedStale(ids) == status = "needs_review"

(* applyReviewDecision's gates, checked inside its IMMEDIATE transaction.    *)
DecisionAccepted(ids) == status = "needs_review" /\ \A i \in ids : Live(proposals[i])

ApplyReviewDecision(d, ids, via, cid) ==
  /\ status' = d
  /\ decision' = [via |-> via, cid |-> cid, ids |-> ids]
  /\ proposals' = MarkProcessed(ids)

Goto(p, pc) == proc' = [proc EXCEPT ![p].pc = pc]
EndWith(p) == proc' = [proc EXCEPT ![p] = [IdleProc EXCEPT !.pc = "done"]]

----------------------------------------------------------------------------
(* review auto: gates, the reviewer's codex run, the insert, the            *)
(* re-evaluation.                                                            *)

(* The checks before codex runs: needs_review and, without --allow-overwrite,*)
(* no live proposal of anybody and no verdict in the sidecar.  The           *)
(* quarantine then removes the sidecar.                                      *)
MayReview(overwrite) ==
  /\ status = "needs_review"
  /\ overwrite \/ (LatestActive = 0 /\ sidecar = "none")

AutoStart(p, r, overwrite) ==
  /\ proc[p].pc = "idle"
  /\ MayReview(overwrite)
  /\ proc' = [proc EXCEPT ![p].pc = "codex", ![p].reviewer = r, ![p].overwrite = overwrite]
  /\ sidecar' = "none"
  /\ UNCHANGED <<setting, status, decision, proposals, consensus, overrides, refutes>>

(* Where a reviewer's command continues: a lone command ends, a drive goes   *)
(* to its next reviewer.                                                     *)
AfterAuto(p) == IF p \in Drives THEN "dispatch" ELSE "done"

(* Timeout, non-zero exit or unusable output: nothing is stored.             *)
AutoFail(p) ==
  /\ setting.fail
  /\ proc[p].pc = "codex"
  /\ proc' = [proc EXCEPT ![p].pc = AfterAuto(p), ![p].failed = @ \cup {proc[p].reviewer}]
  /\ UNCHANGED <<setting, status, decision, proposals, consensus, overrides, refutes, sidecar>>

AutoInsert(p, d, cs) ==
  /\ proc[p].pc = "codex"
  /\ status = "needs_review" => Len(proposals) < setting.rows
  /\ d = "changes_requested" <=> cs # {}
  /\ IF ProposalAccepted(proc[p].reviewer, proc[p].overwrite)
     THEN InsertProposal(proc[p].reviewer, d, cs) /\ Goto(p, "reeval")
     ELSE EndWith(p) /\ UNCHANGED proposals
  /\ UNCHANGED <<setting, status, decision, consensus, overrides, refutes, sidecar>>

(* Bug: the re-evaluation does not look whether the run was decided. *)
ReEvaluatesDecided == Rule.mode = "consensus"

(* recordConsensusReEvaluation's guard, inside its transaction.              *)
ReEvaluates == status = "needs_review" /\ Rule.mode = "consensus"

(* Best effort: the transaction may fail, which is a warning.                *)
RecordConsensusReEvaluation(p) ==
  /\ proc[p].pc = "reeval"
  /\ \/ ReEvaluates /\ InsertConsensus(Evaluate("none", ActiveRows), "review-auto")
     \/ UNCHANGED consensus
  /\ sidecar' = "none"
  /\ Goto(p, AfterAuto(p))
  /\ UNCHANGED <<setting, status, decision, proposals, overrides, refutes>>

----------------------------------------------------------------------------
(* review process under latest-proposal: a chain of separate reads, then one *)
(* transaction, then the consensus row.                                      *)

ProcessStart(p, b) ==
  /\ proc[p].pc = "idle"
  /\ proc' = [proc EXCEPT ![p].pc = "process", ![p].bound = b]
  /\ UNCHANGED <<setting, status, decision, proposals, consensus, overrides, refutes, sidecar>>

(* The idempotence check: a processed proposal on a promoted run ends the    *)
(* command, unless the caller bound itself to another proposal.              *)
CheckProcessed(p) ==
  LET done == {i \in Ids : proposals[i].processed}
  IN  /\ Rule.mode # "consensus"
      /\ proc[p].pc = "process"
      /\ IF /\ done # {} /\ status # "needs_review"
            /\ proc[p].bound # 0 => \E i \in done : i = proc[p].bound /\ \A j \in done : j =< i
         THEN EndWith(p) ELSE Goto(p, "read")
      /\ UNCHANGED <<setting, status, decision, proposals, consensus, overrides, refutes, sidecar>>

(* The proposal to promote: the caller's, which must be the latest live one, *)
(* or the latest live one; else the sidecar.                                 *)
ReadProposal(p) ==
  LET i == IF proc[p].bound = 0 THEN LatestActive ELSE proc[p].bound
      refused == i # 0 /\ (i \notin Ids \/ ~Live(proposals[i]) \/ i # LatestActive)
  IN  /\ proc[p].pc = "read"
      /\ IF refused \/ (i = 0 /\ sidecar = "none") THEN EndWith(p)
         ELSE proc' = [proc EXCEPT ![p].pc = IF i = 0 THEN "import" ELSE "gate",
                                   ![p].pick = i,
                                   ![p].verdict = IF i = 0 THEN sidecar
                                                  ELSE proposals[i].decision]
      /\ UNCHANGED <<setting, status, decision, proposals, consensus, overrides, refutes, sidecar>>

(* The hand-written verdict becomes a proposal row, best effort: when the    *)
(* insert is refused or fails, for whatever reason, the command goes on with *)
(* the file alone.                                                           *)
ImportSidecar(p) ==
  /\ proc[p].pc = "import"
  /\ \/ /\ ProposalAccepted(Manual, TRUE) /\ Len(proposals) < setting.rows
        /\ InsertProposal(Manual, proc[p].verdict, {})
        /\ proc' = [proc EXCEPT ![p].pc = "gate", ![p].pick = Len(proposals) + 1]
     \/ Goto(p, "gate") /\ UNCHANGED proposals
  /\ UNCHANGED <<setting, status, decision, consensus, overrides, refutes, sidecar>>

CheckStatus(p) ==
  /\ proc[p].pc = "gate"
  /\ IF status = "needs_review" THEN Goto(p, "apply") ELSE EndWith(p)
  /\ UNCHANGED <<setting, status, decision, proposals, consensus, overrides, refutes, sidecar>>

Picked(p) == {proc[p].pick} \ {0}

(* applyReviewDecision with the proposal it marks processed, or with none    *)
(* when the verdict was read from a file that could not be imported.         *)
Promote(p) ==
  /\ proc[p].pc = "apply"
  /\ IF DecisionAccepted(Picked(p))
     THEN /\ ApplyReviewDecision(proc[p].verdict, Picked(p),
                                 IF Picked(p) = {} THEN "file" ELSE "proposal", 0)
          /\ Goto(p, "record")
     ELSE EndWith(p) /\ UNCHANGED <<status, decision, proposals>>
  /\ UNCHANGED <<setting, consensus, overrides, refutes, sidecar>>

(* recordConsensusForReviewProcess: the row mirrors the promoted proposal;   *)
(* best effort, a failure does not unwind the promotion.                     *)
RecordConsensus(p) ==
  /\ proc[p].pc = "record"
  /\ \/ InsertConsensus(Evaluate("none", {[id |-> i, decision |-> proc[p].verdict, at |-> i,
                                           superseded |-> FALSE] : i \in Picked(p)}), "review-process")
     \/ UNCHANGED consensus
  /\ EndWith(p)
  /\ UNCHANGED <<setting, status, decision, proposals, overrides, refutes, sidecar>>

----------------------------------------------------------------------------
(* review process under a consensus rule: one IMMEDIATE transaction.         *)

ProcessConsensusMode(p) ==
  LET result == Evaluate("none", ActiveRows)
      decisive == status = "needs_review" /\ ActiveRows # {} /\ result.status # "pending"
      pendingRow == /\ p \in Drives /\ proc[p].failed # {} /\ FrozenReviewers(Rule) # {}
                    /\ status = "needs_review"
                    /\ ActiveRows # {} \/ proc[p].failed = FrozenReviewers(Rule)
  IN  /\ Rule.mode = "consensus"
      /\ proc[p].pc = "process"
      /\ IF decisive /\ DecisionAccepted(result.included)
         THEN /\ InsertConsensus(result, "consensus")
              /\ ApplyReviewDecision(result.status, result.included, "consensus",
                                     Len(consensus) + 1)
              /\ EndWith(p)
         ELSE /\ IF pendingRow THEN Goto(p, "pending") ELSE EndWith(p)
              /\ UNCHANGED <<status, decision, proposals, consensus>>
      /\ UNCHANGED <<setting, overrides, refutes, sidecar>>

----------------------------------------------------------------------------
(* review process --override: the consensus row, the promotion and the audit *)
(* row are three separate transactions.                                      *)

OverrideConsensus(p, d) ==
  /\ proc[p].pc = "idle"
  /\ Rule.allowedReviewers # {}
  /\ InsertConsensus(Evaluate(d, {}), "override")
  /\ proc' = [proc EXCEPT ![p].pc = "override", ![p].verdict = d, ![p].cid = Len(consensus) + 1]
  /\ UNCHANGED <<setting, status, decision, proposals, overrides, refutes, sidecar>>

OverrideApply(p) ==
  /\ proc[p].pc = "override"
  /\ IF DecisionAccepted({})
     THEN ApplyReviewDecision(proc[p].verdict, {}, "override", proc[p].cid) /\ Goto(p, "audit")
     ELSE EndWith(p) /\ UNCHANGED <<status, decision, proposals>>
  /\ UNCHANGED <<setting, consensus, overrides, refutes, sidecar>>

OverrideAudit(p) ==
  /\ proc[p].pc = "audit"
  /\ overrides' = overrides \cup {proc[p].cid}
  /\ EndWith(p)
  /\ UNCHANGED <<setting, status, decision, proposals, consensus, refutes, sidecar>>

----------------------------------------------------------------------------
(* The review step of a hitch drive.                                         *)

(* prepareReviewDispatchPlan: a frozen electorate starts from a clean slate; *)
(* without one the drive runs a single reviewer that may not overwrite.      *)
Plan(p, single) ==
  /\ proc[p].pc = "idle"
  /\ status # "approved"    \* tryShortCircuitApprovedDecidedReview
  /\ IF FrozenReviewers(Rule) # {}
     THEN /\ proposals' = Supersede(proposals, {i \in Ids : /\ Live(proposals[i])
                                                            /\ proposals[i].reviewer \in FrozenReviewers(Rule)})
          /\ proc' = [proc EXCEPT ![p].pc = "dispatch", ![p].todo = FrozenReviewers(Rule),
                                  ![p].overwrite = TRUE]
     ELSE /\ proc' = [proc EXCEPT ![p].pc = "dispatch", ![p].todo = {single}]
          /\ UNCHANGED proposals
  /\ UNCHANGED <<setting, status, decision, consensus, overrides, refutes, sidecar>>

(* The next reviewer of the plan; a gate that refuses ends the drive.        *)
Dispatch(p) ==
  /\ proc[p].pc = "dispatch" /\ proc[p].todo # {}
  /\ IF MayReview(proc[p].overwrite)
     THEN \E r \in proc[p].todo :
            /\ proc' = [proc EXCEPT ![p].pc = "codex", ![p].reviewer = r, ![p].todo = @ \ {r}]
            /\ sidecar' = "none"
     ELSE EndWith(p) /\ UNCHANGED sidecar
  /\ UNCHANGED <<setting, status, decision, proposals, consensus, overrides, refutes>>

(* prepareRefuteDispatchPlan: when the table reads changes_requested, every  *)
(* refuter is to be asked about every change still open.                     *)
RefutePlan ==
  IF Rule.refute # NoRefute /\ Evaluate("none", ActiveRows).status = "changes_requested"
  THEN Rule.refute.reviewerIds \X
       (UNION {row.changes : row \in {q \in ActiveRows : q.decision = "changes_requested"}}
          \ RefutedTargets(Rule, refutes))
  ELSE {}

(* A lone reviewer's failure ends the drive; frozen reviewers' clean         *)
(* failures do not.                                                          *)
DispatchDone(p) ==
  /\ proc[p].pc = "dispatch" /\ proc[p].todo = {}
  /\ IF FrozenReviewers(Rule) = {} /\ proc[p].failed # {} THEN EndWith(p)
     ELSE proc' = [proc EXCEPT ![p].pc = IF RefutePlan = {} THEN "process" ELSE "refute",
                               ![p].ask = RefutePlan]
  /\ UNCHANGED <<setting, status, decision, proposals, consensus, overrides, refutes, sidecar>>

(* runRefuteAgent + verifyAndRecordRefuteBinding.  The unique index keeps a  *)
(* refuter's first vote; "inconclusive" stands for every answer that does    *)
(* not count.                                                                *)
RefuteVote(p, verdict) ==
  /\ proc[p].pc = "refute"
  /\ \E q \in proc[p].ask :
       /\ proc' = [proc EXCEPT ![p].ask = @ \ {q},
                               ![p].pc = IF proc[p].ask = {q} THEN "process" ELSE "refute"]
       /\ refutes' = IF \/ verdict = "inconclusive"
                        \/ \E v \in refutes : v.reviewer = q[1] /\ v.target = q[2]
                     THEN refutes
                     ELSE refutes \cup {[reviewer |-> q[1], group |-> Group[q[1]], target |-> q[2],
                                         verdict |-> verdict, valid |-> TRUE]}
  /\ UNCHANGED <<setting, status, decision, proposals, consensus, overrides, sidecar>>

(* recordConsensusEvaluationForRun: after a pending verdict with failed      *)
(* reviewers, the evaluation is repeated and recorded outside a transaction. *)
RecordPendingConsensus(p) ==
  /\ proc[p].pc = "pending"
  /\ InsertConsensus(Evaluate("none", ActiveRows), "hitch.review.pending")
  /\ EndWith(p)
  /\ UNCHANGED <<setting, status, decision, proposals, overrides, refutes, sidecar>>

----------------------------------------------------------------------------
(* The rest of the world.                                                    *)

HandEdit(v) ==
  /\ status = "needs_review"
  /\ sidecar' = v
  /\ UNCHANGED <<setting, status, decision, proposals, consensus, overrides, refutes, proc>>

(* harness review proposals archive.                                         *)
Archive(i) ==
  /\ i \in Ids /\ proposals[i].lifecycle # "archived"
  /\ proposals' = [proposals EXCEPT ![i].lifecycle = "archived"]
  /\ UNCHANGED <<setting, status, decision, consensus, overrides, refutes, sidecar, proc>>

(* harness review proposals vacuum --apply: everything settled is archived.  *)
Vacuum ==
  /\ setting.housekeeping # {}
  /\ \E i \in Ids : proposals[i].lifecycle \in {"superseded", "processed"}
  /\ proposals' = [i \in Ids |-> IF proposals[i].lifecycle \in {"superseded", "processed"}
                                 THEN [proposals[i] EXCEPT !.lifecycle = "archived"]
                                 ELSE proposals[i]]
  /\ UNCHANGED <<setting, status, decision, consensus, overrides, refutes, sidecar, proc>>

(* forceFailFinalize by the coder whose lease was lost: needs_review is not  *)
(* among the statuses it spares.                                             *)
ForceFail ==
  /\ setting.crash
  /\ status = "needs_review"
  /\ status' = "failed-internal-error"
  /\ UNCHANGED <<setting, decision, proposals, consensus, overrides, refutes, sidecar, proc>>

(* A dead process is remembered with the consensus row it had in hand.       *)
Crash(p) ==
  /\ setting.crash
  /\ proc[p].pc \notin {"idle", "done", "dead"}
  /\ proc' = [proc EXCEPT ![p] = [IdleProc EXCEPT !.pc = "dead", !.cid = proc[p].cid]]
  /\ UNCHANGED <<setting, status, decision, proposals, consensus, overrides, refutes, sidecar>>

ProcStep(p) ==
  \/ AutoFail(p)
  \/ \E d \in Verdicts, cs \in SUBSET setting.changes : AutoInsert(p, d, cs)
  \/ RecordConsensusReEvaluation(p)
  \/ CheckProcessed(p) \/ ReadProposal(p) \/ ImportSidecar(p) \/ CheckStatus(p)
  \/ Promote(p) \/ RecordConsensus(p)
  \/ ProcessConsensusMode(p)
  \/ OverrideApply(p) \/ OverrideAudit(p)
  \/ Dispatch(p) \/ DispatchDone(p)
  \/ \E v \in {"uphold", "refute", "inconclusive"} : RefuteVote(p, v)
  \/ RecordPendingConsensus(p)

GovNext ==
  \/ \E p \in Autos, r \in setting.reviewers, o \in BOOLEAN : AutoStart(p, r, o)
  \/ \E p \in Processors, b \in setting.bindings : ProcessStart(p, b)
  \/ \E p \in Overriders, d \in setting.overrides : OverrideConsensus(p, d)
  \/ \E p \in Drives, r \in setting.reviewers : Plan(p, r)
  \/ \E p \in Procs : ProcStep(p) \/ Crash(p)
  \/ \E v \in setting.hand : HandEdit(v)
  \/ \E i \in setting.housekeeping : Archive(i)
  \/ Vacuum
  \/ ForceFail

GovSpec == GovInit /\ [][GovNext]_govVars

----------------------------------------------------------------------------
(* The run as the other models know it. Its coder may come back at any time  *)
(* to find that its lease was lost.                                          *)

Stage == IF status = "failed-internal-error" THEN "failed" ELSE status

Register == INSTANCE RunRegister
  WITH Runs <- {"run"}, stage <- [r \in {"run"} |-> Stage], open <- {"run"}

ImplementsRegister == Register!RegisterSpec

----------------------------------------------------------------------------
Pcs == {"idle", "codex", "reeval", "process", "read", "import", "gate", "apply", "record",
        "override", "audit", "dispatch", "refute", "pending", "done", "dead"}
Lifecycles == {"active", "superseded", "processed", "archived"}

GovTypeOK ==
  /\ status \in Verdicts \cup {"needs_review", "failed-internal-error"}
  /\ decision.via \in {"none", "proposal", "file", "consensus", "override"}
  /\ decision.ids \subseteq Ids /\ decision.cid \in 0 .. Len(consensus)
  /\ \A i \in Ids : /\ proposals[i].reviewer \in setting.reviewers \cup {Manual} \cup FrozenReviewers(Rule)
                    /\ proposals[i].decision \in Verdicts
                    /\ proposals[i].lifecycle \in Lifecycles
  /\ \A k \in DOMAIN consensus : consensus[k].status \in ConsensusStatuses
  /\ overrides \subseteq DOMAIN consensus
  /\ \A p \in Procs : proc[p].pc \in Pcs /\ proc[p].verdict \in ConsensusStatuses

(* A verdict and its source are one thing: the rows marked processed are     *)
(* exactly those the recorded decision was taken from, none of them was      *)
(* superseded, and a decision taken from one proposal says what it says      *)
(* (applyReviewDecision marks the source in the transaction that promotes).  *)
(* Only a verdict that a person wrote, into the sidecar or as an override,   *)
(* may stand without a source: the import of the sidecar is best effort.     *)
VerdictHasItsSource ==
  /\ {i \in Ids : proposals[i].processed} = decision.ids
  /\ \A i \in decision.ids : ~proposals[i].superseded
  /\ decision.via = "none" <=> status \in {"needs_review", "failed-internal-error"}
  /\ decision.via = "proposal" =>
       \E i \in decision.ids : decision.ids = {i} /\ proposals[i].decision = status
  /\ decision.via = "file" => decision.ids = {} /\ status \in setting.hand
  /\ decision.via = "override" => decision.ids = {} /\ status \in setting.overrides

(* A consensus verdict takes every ballot of the electorate that is on the   *)
(* table: no live proposal of a counted reviewer is left behind, and an      *)
(* approval carries the approvals each requirement asks for, of distinct     *)
(* reviewers (the single transaction of processConsensusModePath).           *)
NoBallotLeftOut ==
  decision.via = "consensus" =>
    /\ ActiveRows = {}
    /\ status = "approved" =>
         \A k \in DOMAIN Rule.requirements :
           LET req == Rule.requirements[k]
               yes == {proposals[i].reviewer : i \in {j \in decision.ids :
                         /\ proposals[j].decision = "approved"
                         /\ Group[proposals[j].reviewer] = req.group}}
           IN  Cardinality(yes) >= req.minApprovals

(* The consensus row a run was decided by says what the run says, and no     *)
(* re-evaluation of a reviewer's command comes after it: only a drive that   *)
(* had seen the table pending, or an override that lost the race, may still  *)
(* append (recordConsensusReEvaluation checks the status in its transaction).*)
DecidingRowStands ==
  decision.via = "consensus" =>
    /\ consensus[decision.cid].by = "consensus" /\ consensus[decision.cid].status = status
    /\ \A k \in decision.cid + 1 .. Len(consensus) :
         consensus[k].by \in {"hitch.review.pending", "override"}

============================================================================
