---------------------------- MODULE PullRequests ----------------------------
(***************************************************************************)
(* From an approved run to a merged pull request: createPullRequest         *)
(* (src/src/core/pr-creator.ts), the push gates of reviewed-branch-push.ts, *)
(* the `gh` publisher and merger, and the close step of a hitch with        *)
(* auto-merge (orchestrator-runners.ts, orchestrator-runners-automerge.ts). *)
(*                                                                         *)
(* One run with its worktree; several commands work on it at once: the      *)
(* hitch's close step, `pr create` and the salvage push of an escalation.   *)
(* Git and GitHub are external: a push or a `gh` call may take effect and   *)
(* lose its answer, others push to the branch, close or merge the pull      *)
(* request, and CI goes its own way.                                        *)
(***************************************************************************)
EXTENDS Naturals, Sequences, SequencesExt

CONSTANTS
    CliCallers,      \* `pr create` commands and harness.pr.create calls
    CloseCallers,    \* closeAndPr of the hitch, auto-merge enabled
    SalvageCallers,  \* pushReviewedBranchForEscalation
    Message,         \* the deterministic commit message of each caller
    MaxClosePushAttempts,
    MaxTries,        \* bound on the invocations of each caller
    MaxTouches,      \* bound on what everybody else does
    HandCommitsAfterPush \* people commit in the worktree after a push, too

Callers == CliCallers \cup CloseCallers \cup SalvageCallers

\* The author of a pull request nobody has merged yet is no command.
ASSUME PullRequestAssumption ==
    /\ "nobody" \notin Callers
    /\ HandCommitsAfterPush \in BOOLEAN

VARIABLES
    status,    \* runs.status
    wt,        \* the run worktree: branch, content and commits beyond base
    origin,    \* the commits beyond base of the run branch at the remote
    green,     \* the heads CI has passed
    prs,       \* the pull requests at GitHub
    prRow,     \* the pull_requests row of the run
    hitch,     \* status of the hitch and its close_push_attempts
    approval,  \* what the merge gate reads: convergence is close_ready, consensus
               \* or an override approves, the paths' tier is 0; and the
               \* verdict of an external reviewer
    call,      \* one record per caller
    touches

world == <<status, wt, origin, green, prs, approval>>
prVars == <<world, prRow, hitch, call, touches>>

-----------------------------------------------------------------------------
(* The worktree.  A tree is `reviewed` when the reviewed paths have the     *)
(* content that was approved, `extra` when an unreviewed file comes on top, *)
(* `drifted` when a reviewed file differs; a commit may also be `part`, the *)
(* reviewed change without a file that is still untracked.                  *)

Trees == {"reviewed", "extra", "drifted"}
CommitTrees == Trees \cup {"part"}

Commit(msg, tree) == [msg |-> msg, tree |-> tree]
HeadTree == IF wt.log = <<>> THEN "base" ELSE Last(wt.log).tree

\* The content of the reviewed paths.
Content(tree) == IF tree = "extra" THEN "reviewed" ELSE tree

ReviewedFingerprintMatches == Content(wt.tree) = "reviewed"

\* `git diff HEAD` does not see untracked files.
TrackedDirty ==
    /\ HeadTree # wt.tree
    /\ <<HeadTree, wt.tree>> \notin
         {<<"part", "reviewed">>, <<"part", "extra">>, <<"reviewed", "extra">>}

\* After `git add` of the reviewed paths, something is staged.
StagesSomething == Content(wt.tree) # Content(HeadTree)

\* `harness cleanup` removes the worktree, and the run branch with it.
WorktreeExists == wt.branch # "none"

ReviewedBranchCheckedOut == wt.branch = "run"

\* assertNoUnreviewedHistory passes at base and for one clean commit on top.
NoUnreviewedHistory == wt.log = <<>> \/ (Len(wt.log) = 1 /\ ~TrackedDirty)

\* assertSingleReviewedCommit, assertHeadCommitMessageAuthentic and the
\* subset check of the branch diff.
SingleReviewedCommit == Len(wt.log) <= 1
HeadMessageAuthentic(c) == wt.log # <<>> /\ Last(wt.log).msg = Message[c]
BranchPathsReviewed == HeadTree # "extra"

-----------------------------------------------------------------------------
(* Callers.                                                                *)

Idle == [tries |-> 0, pc |-> "idle", staged |-> FALSE, sha |-> <<>>, number |-> 0, ci |-> FALSE]

Step(c, pc) == call' = [call EXCEPT ![c].pc = pc, ![c].tries = @]

NoCalls == [c \in Callers |-> Idle]

\* The command ends; what it knew is gone.
Ended(c) == [Idle EXCEPT !.tries = call[c].tries]
End(c) == call' = [call EXCEPT ![c] = Ended(c)]

Escalate == hitch' = [hitch EXCEPT !.status = "escalated"]

\* An error: the CLI and the salvage print it, the orchestrator escalates.
Fail(c) ==
    /\ End(c)
    /\ IF c \in CloseCallers THEN Escalate ELSE UNCHANGED hitch

PrCreated == prRow.status = "created"

\* existingPrResult: a recorded pull request, with the tip of the local run
\* branch as its reviewed head.
ExistingPrResult(c) ==
    [call[c] EXCEPT !.pc = "created", !.tries = @ + 1,
                    !.number = prRow.number, !.sha = wt.log]

RunIsApproved == status = "approved"

\* createPullRequest: without a recorded pull request only an approved run
\* goes on.
CreatePullRequest(c) ==
    IF PrCreated
      THEN /\ call' = [call EXCEPT ![c] = ExistingPrResult(c)]
           /\ UNCHANGED hitch
      ELSE IF RunIsApproved
        THEN /\ call' = [call EXCEPT ![c].pc = "gates", ![c].tries = @ + 1]
             /\ UNCHANGED hitch
        ELSE /\ call' = [call EXCEPT ![c] = [Ended(c) EXCEPT !.tries = @ + 1]]
             /\ IF c \in CloseCallers THEN Escalate ELSE UNCHANGED hitch

Start(c) == call[c].pc = "idle" /\ call[c].tries < MaxTries

PrCreateCommand(c) ==
    /\ c \in CliCallers /\ Start(c)
    /\ CreatePullRequest(c)
    /\ UNCHANGED <<world, prRow, touches>>

\* evaluateMergeGate: what blocks for good, and what a later try may clear.
HardBlocked == ~approval.closeReady \/ ~approval.consensus
TierEligible == approval.tier = 0
GatePasses(ciGreen) == ~HardBlocked /\ ciGreen /\ TierEligible

\* closeAndPr: only on a hitch that is close_ready; the approval part of the
\* merge gate is evaluated before a pull request that could be merged exists.
CloseAndPr(c) ==
    /\ c \in CloseCallers /\ call[c].pc \in {"idle", "awaiting"} /\ call[c].tries < MaxTries
    /\ hitch.status = "close_ready"
    /\ IF HardBlocked
         THEN /\ call' = [call EXCEPT ![c] = [Ended(c) EXCEPT !.tries = @ + 1]]
              /\ Escalate
         ELSE CreatePullRequest(c)
    /\ UNCHANGED <<world, prRow, touches>>

SalvageReviewBranch(c) ==
    /\ c \in SalvageCallers /\ Start(c)
    /\ status = "needs_review"
    /\ call' = [call EXCEPT ![c].pc = "gates", ![c].tries = @ + 1]
    /\ UNCHANGED <<world, prRow, hitch, touches>>

\* The fingerprint, the checked out branch and the history.
PushGates(c) ==
    /\ call[c].pc = "gates"
    /\ IF ReviewedFingerprintMatches /\ ReviewedBranchCheckedOut /\ NoUnreviewedHistory
         THEN call' = [call EXCEPT ![c].pc = IF wt.log = <<>> THEN "add" ELSE "retry"]
              /\ UNCHANGED hitch
         ELSE Fail(c)
    /\ UNCHANGED <<world, prRow, touches>>

\* `git add` and the staged diff.  A commit that is there already must be
\* the whole reviewed change: nothing may be staged on top of it.  Every git
\* command fails once the worktree is gone.
StageReviewed(c) ==
    /\ call[c].pc \in {"add", "retry"}
    /\ IF ~WorktreeExists \/ (call[c].pc = "retry" /\ StagesSomething)
         THEN Fail(c)
         ELSE /\ call' = [call EXCEPT ![c].pc = "commit", ![c].staged = StagesSomething]
              /\ UNCHANGED hitch
    /\ UNCHANGED <<world, prRow, touches>>

\* `git commit` fails when another command committed the change meanwhile.
CommitReviewed(c) ==
    /\ call[c].pc = "commit"
    /\ \/ /\ ~call[c].staged
          /\ Step(c, "verify") /\ UNCHANGED <<wt, hitch>>
       \/ /\ call[c].staged /\ WorktreeExists /\ StagesSomething
          /\ wt' = [wt EXCEPT !.log = Append(@, Commit(Message[c], Content(wt.tree)))]
          /\ Step(c, "verify") /\ UNCHANGED hitch
       \/ /\ call[c].staged /\ (WorktreeExists => ~StagesSomething)
          /\ Fail(c) /\ UNCHANGED wt
    /\ UNCHANGED <<status, origin, green, prs, approval, prRow, touches>>

\* Mutant: the message of a commit that was found is not compared.
VerifyBranchAnyMessage(c) ==
    /\ call[c].pc = "verify"
    /\ IF SingleReviewedCommit /\ BranchPathsReviewed
         THEN Step(c, "push") /\ UNCHANGED hitch
         ELSE Fail(c)
    /\ UNCHANGED <<world, prRow, touches>>

VerifyBranch(c) ==
    /\ call[c].pc = "verify"
    /\ IF SingleReviewedCommit /\ HeadMessageAuthentic(c) /\ BranchPathsReviewed
         THEN Step(c, "push") /\ UNCHANGED hitch
         ELSE Fail(c)
    /\ UNCHANGED <<world, prRow, touches>>

\* classifyAndRecordClosePushFailure: a permanent failure escalates, a
\* transient one leaves the hitch close_ready until the budget is used up.
ClosePushFailed(c, class) ==
    /\ End(c)
    /\ \E n \in {hitch.attempts + 1} :
         hitch' = CASE c \notin CloseCallers -> hitch
                    [] c \in CloseCallers /\ class = "permanent" ->
                         [hitch EXCEPT !.status = "escalated"]
                    [] OTHER -> [hitch EXCEPT !.attempts = n,
                                   !.status = IF n > MaxClosePushAttempts
                                                THEN "escalated" ELSE @]

\* `git push`: refused when the remote branch is not an ancestor; a transient
\* failure may have updated the remote all the same.
PushBranch(c) ==
    /\ call[c].pc = "push"
    /\ \/ /\ ~WorktreeExists \/ ~IsPrefix(origin, wt.log)
          /\ ClosePushFailed(c, "permanent") /\ UNCHANGED origin
       \/ /\ WorktreeExists /\ IsPrefix(origin, wt.log)
          /\ origin' = wt.log
          /\ IF c \in SalvageCallers
               THEN End(c)
               ELSE call' = [call EXCEPT ![c].pc = "find", ![c].sha = wt.log]
          /\ UNCHANGED hitch
       \/ /\ ClosePushFailed(c, "transient")
          /\ \/ UNCHANGED origin
             \/ WorktreeExists /\ IsPrefix(origin, wt.log) /\ origin' = wt.log
    /\ UNCHANGED <<status, wt, green, prs, approval, prRow, touches>>

OpenPr == {i \in 1..Len(prs) : prs[i].state = "open"}

\* findOpenPr: a timeout is an error, any other failure reads as "none".
FindOpenPr(c) ==
    /\ call[c].pc = "find"
    /\ \/ \E i \in OpenPr :
            call' = [call EXCEPT ![c].pc = "record", ![c].number = i]
       \/ OpenPr = {} /\ Step(c, "create")
       \/ Step(c, "create")
       \/ Step(c, "failed")
    /\ UNCHANGED <<world, prRow, hitch, touches>>

\* `gh pr create`: GitHub refuses a second open pull request of the branch;
\* the answer may be lost.
GhPrCreate(c) ==
    /\ call[c].pc = "create"
    /\ \/ OpenPr # {} /\ Step(c, "failed") /\ UNCHANGED prs
       \/ /\ OpenPr = {}
          /\ prs' = Append(prs, [state |-> "open", draft |-> c \notin CloseCallers,
                                 by |-> "nobody", head |-> <<>>])
          /\ \/ call' = [call EXCEPT ![c].pc = "record", ![c].number = Len(prs) + 1]
             \/ Step(c, "failed")
    /\ UNCHANGED <<status, wt, origin, green, approval, prRow, hitch, touches>>

\* The publisher threw: the attempt is recorded, whatever the row says.
RecordFailedPr(c) ==
    /\ call[c].pc = "failed"
    /\ prRow' = [status |-> "failed", number |-> 0]
    /\ Fail(c)
    /\ UNCHANGED <<world, touches>>

\* The run and the pull_requests row in one transaction, only for a run that
\* is still approved.
RecordPrCreated(c) ==
    /\ call[c].pc = "record"
    /\ IF RunIsApproved
         THEN /\ prRow' = [status |-> "created", number |-> call[c].number]
              /\ Step(c, "created") /\ UNCHANGED hitch
         ELSE Fail(c) /\ UNCHANGED prRow
    /\ UNCHANGED <<world, touches>>

\* `pr create` prints the pull request; the close step goes on to merge it.
PrCreateDone(c) ==
    /\ call[c].pc = "created" /\ c \notin CloseCallers
    /\ End(c)
    /\ UNCHANGED <<world, prRow, hitch, touches>>

-----------------------------------------------------------------------------
(* runAutoMerge.                                                           *)

\* Without the reviewed head there is nothing to pin: escalate.  A
\* CHANGES_REQUESTED verdict becomes an unclassified finding once.
IngestVerdicts(c) ==
    /\ call[c].pc = "created" /\ c \in CloseCallers
    /\ IF call[c].sha = <<>>
         THEN Fail(c) /\ UNCHANGED approval
         ELSE /\ Step(c, IF TierEligible THEN "ci" ELSE "gate") /\ UNCHANGED hitch
              /\ approval' = [approval EXCEPT
                                !.closeReady = @ /\ (approval.verdict = "ingested"
                                                      \/ approval.verdict = "none"),
                                !.verdict = IF @ = "requested" THEN "ingested" ELSE @]
    /\ UNCHANGED <<status, wt, origin, green, prs, prRow, touches>>

\* createGhCiStatus: head and checks in one snapshot.  It waits while checks
\* are pending, and any mismatch, failure or timeout counts as not green.
GhCiStatus(c) ==
    /\ call[c].pc = "ci"
    /\ \/ /\ origin = call[c].sha /\ origin \in green
          /\ call' = [call EXCEPT ![c].pc = "gate", ![c].ci = TRUE]
       \/ Step(c, "gate")
    /\ UNCHANGED <<world, prRow, hitch, touches>>

\* The gate is evaluated again from the database as it is now.
MergeGate(c) ==
    /\ call[c].pc = "gate"
    /\ CASE GatePasses(call[c].ci \/ ~TierEligible) -> Step(c, "merge") /\ UNCHANGED hitch
         [] HardBlocked -> Fail(c)
         [] OTHER -> IF TierEligible
                       THEN Step(c, "awaiting") /\ UNCHANGED hitch
                       ELSE End(c) /\ hitch' = [hitch EXCEPT !.status = "closed"]
    /\ UNCHANGED <<world, prRow, touches>>

\* The pull request waits for CI: `orchestrate` returns, and `await-merge`
\* stops at the end of its time; until then it runs the close step again.
AwaitEnds(c) ==
    /\ call[c].pc = "awaiting"
    /\ End(c)
    /\ UNCHANGED <<world, prRow, hitch, touches>>

\* Mutant: the merge is not pinned to the reviewed commit.
GhPrMergeUnpinned(c) ==
    /\ call[c].pc = "merge"
    /\ \E i \in {call[c].number} :
       \/ /\ prs[i].state = "merged" /\ prs[i].head = call[c].sha
          /\ Step(c, "close") /\ UNCHANGED <<prs, hitch>>
       \/ /\ prs[i].state # "open" \/ prs[i].draft
          /\ ~(prs[i].state = "merged" /\ prs[i].head = call[c].sha)
          /\ Fail(c) /\ UNCHANGED prs
       \/ /\ prs[i].state = "open" /\ ~prs[i].draft
          /\ prs' = [prs EXCEPT ![i].state = "merged", ![i].by = c, ![i].head = origin]
          /\ \/ Step(c, "close") /\ UNCHANGED hitch
             \/ Fail(c)
    /\ UNCHANGED <<status, wt, origin, green, approval, prRow, touches>>

\* `gh pr merge --match-head-commit`, after a look whether it is merged
\* already; GitHub refuses a draft or a moved head, and the answer may be lost.
GhPrMerge(c) ==
    /\ call[c].pc = "merge"
    /\ \E i \in {call[c].number} :
       \/ /\ prs[i].state = "merged" /\ prs[i].head = call[c].sha
          /\ Step(c, "close") /\ UNCHANGED <<prs, hitch>>
       \/ /\ prs[i].state # "open" \/ prs[i].draft \/ origin # call[c].sha
          /\ ~(prs[i].state = "merged" /\ prs[i].head = call[c].sha)
          /\ Fail(c) /\ UNCHANGED prs
       \/ /\ prs[i].state = "open" /\ ~prs[i].draft /\ origin = call[c].sha
          /\ prs' = [prs EXCEPT ![i].state = "merged", ![i].by = c, ![i].head = origin]
          /\ \/ Step(c, "close") /\ UNCHANGED hitch
             \/ Fail(c)
    /\ UNCHANGED <<status, wt, origin, green, approval, prRow, touches>>

CloseHitch(c) ==
    /\ call[c].pc = "close"
    /\ hitch' = [hitch EXCEPT !.status = "closed"]
    /\ End(c)
    /\ UNCHANGED <<world, prRow, touches>>

\* The process dies; git, GitHub and the database keep what was done.
CrashCaller(c) ==
    /\ call[c].pc # "idle"
    /\ End(c)
    /\ UNCHANGED <<world, prRow, hitch, touches>>

-----------------------------------------------------------------------------
(* Everybody else.                                                         *)

Touch == touches < MaxTouches /\ touches' = touches + 1

\* The gates are point-in-time checks; nobody works in the worktree while a
\* command is between them and its push.
Quiet == \A c \in Callers : call[c].pc \notin {"add", "retry", "commit", "verify", "push"}

\* A pull request that is recorded is trusted to have the local tip as its
\* reviewed head, so the passing run has no commits by hand after a push.
HandMayCommit == Quiet /\ (HandCommitsAfterPush \/ origin = <<>>)

EditWorktree(tree) ==
    /\ Touch /\ Quiet /\ WorktreeExists /\ wt.tree # tree
    /\ wt' = [wt EXCEPT !.tree = tree]
    /\ UNCHANGED <<status, origin, green, prs, approval, prRow, hitch, call>>

CommitByHand(msg, tree) ==
    /\ Touch /\ HandMayCommit /\ WorktreeExists /\ Len(wt.log) < 2
    /\ wt' = [wt EXCEPT !.log = Append(@, Commit(msg, tree))]
    /\ UNCHANGED <<status, origin, green, prs, approval, prRow, hitch, call>>

CheckoutOther ==
    /\ Touch /\ Quiet /\ wt.branch = "run"
    /\ wt' = [wt EXCEPT !.branch = "other"]
    /\ UNCHANGED <<status, origin, green, prs, approval, prRow, hitch, call>>

PushByHand ==
    /\ Touch /\ HandMayCommit /\ IsPrefix(origin, wt.log) /\ origin # wt.log
    /\ origin' = wt.log
    /\ UNCHANGED <<status, wt, green, prs, approval, prRow, hitch, call>>

\* Someone pushes to the branch from another clone.
PushFromElsewhere ==
    /\ Touch /\ origin # <<>> /\ Len(origin) < 2
    /\ origin' = Append(origin, Commit("other", "drifted"))
    /\ UNCHANGED <<status, wt, green, prs, approval, prRow, hitch, call>>

CiPasses ==
    /\ origin # <<>> /\ origin \notin green
    /\ green' = green \cup {origin}
    /\ UNCHANGED <<status, wt, origin, prs, approval, prRow, hitch, call, touches>>

\* A person closes or merges the pull request at GitHub.
SettlePr(i, state) ==
    /\ Touch /\ prs[i].state = "open"
    /\ prs' = [prs EXCEPT ![i].state = state, ![i].head = origin]
    /\ UNCHANGED <<status, wt, origin, green, approval, prRow, hitch, call>>

\* applyReviewDecision: a verdict on a run that waits for one, and only there.
ReviewDecides(verdict) ==
    /\ Touch /\ status = "needs_review"
    /\ status' = verdict
    /\ UNCHANGED <<wt, origin, green, prs, approval, prRow, hitch, call>>

\* `harness cleanup` takes no lock a publishing command would see: the
\* worktree goes first, also under a command between its gates and its push,
\* the record of it follows when the git commands have returned.
CleanupAllowed == status # "changes_requested"

CleanupRemoves ==
    /\ Touch /\ CleanupAllowed /\ WorktreeExists
    /\ wt' = [wt EXCEPT !.branch = "none", !.log = <<>>]
    /\ UNCHANGED <<status, origin, green, prs, approval, prRow, hitch, call>>

CleanupRecords ==
    /\ ~WorktreeExists /\ CleanupAllowed /\ status # "cleaned"
    /\ status' = "cleaned"
    /\ UNCHANGED <<wt, origin, green, prs, approval, prRow, hitch, call, touches>>

\* An external reviewer asks for changes, or the consensus is withdrawn.
VerdictArrives ==
    /\ Touch /\ approval.verdict = "none"
    /\ approval' = [approval EXCEPT !.verdict = "requested"]
    /\ UNCHANGED <<status, wt, origin, green, prs, prRow, hitch, call>>

ConsensusMoves ==
    /\ Touch
    /\ approval' = [approval EXCEPT !.consensus = ~@]
    /\ UNCHANGED <<status, wt, origin, green, prs, prRow, hitch, call>>

-----------------------------------------------------------------------------
PrInit ==
    /\ status \in {"needs_review", "approved"}
    /\ wt = [branch |-> "run", tree |-> "reviewed", log |-> <<>>]
    /\ origin = <<>>
    /\ green = {}
    /\ prs = <<>>
    /\ prRow = [status |-> "none", number |-> 0]
    /\ hitch = [status |-> "close_ready", attempts |-> 0]
    /\ \E tier \in {0, 1} :
         approval = [closeReady |-> TRUE, consensus |-> TRUE, verdict |-> "none",
                     tier |-> tier]
    /\ call = NoCalls
    /\ touches = 0

CallerSteps(c) ==
    \/ PrCreateCommand(c) \/ CloseAndPr(c) \/ SalvageReviewBranch(c)
    \/ PushGates(c) \/ StageReviewed(c) \/ CommitReviewed(c) \/ VerifyBranch(c)
    \/ PushBranch(c) \/ FindOpenPr(c) \/ GhPrCreate(c) \/ RecordFailedPr(c)
    \/ RecordPrCreated(c) \/ PrCreateDone(c)
    \/ IngestVerdicts(c) \/ GhCiStatus(c) \/ MergeGate(c) \/ GhPrMerge(c)
    \/ AwaitEnds(c) \/ CloseHitch(c) \/ CrashCaller(c)

Others ==
    \/ \E tree \in Trees : EditWorktree(tree)
    \/ \E c \in Callers, tree \in CommitTrees : CommitByHand(Message[c], tree)
    \/ \E tree \in {"reviewed", "drifted"} : CommitByHand("hand", tree)
    \/ CheckoutOther \/ PushByHand \/ PushFromElsewhere \/ CiPasses
    \/ \E i \in 1..Len(prs), state \in {"closed", "merged"} : SettlePr(i, state)
    \/ \E verdict \in {"approved", "changes_requested", "rejected"} : ReviewDecides(verdict)
    \/ CleanupRemoves \/ CleanupRecords \/ VerdictArrives \/ ConsensusMoves

PrNext == (\E c \in Callers : CallerSteps(c)) \/ Others

PrSpec == PrInit /\ [][PrNext]_prVars

-----------------------------------------------------------------------------
(* The other models know of all this one row whose process has ended.      *)

Register == INSTANCE RunRegister
              WITH Runs <- {"run"}, stage <- [r \in {"run"} |-> status], open <- {}

ImplementsRegister == Register!RegisterSpec

-----------------------------------------------------------------------------
(* Properties.                                                             *)

IsReviewedCommit(log) ==
    /\ Len(log) = 1 /\ log[1].tree = "reviewed"
    /\ \E c \in Callers : log[1].msg = Message[c]

\* What a command pushes is one commit with the reviewed content and the
\* harness's message, whatever was committed or edited before, however often
\* it was tried and whichever other command got there first (the gates of
\* pr-creator.ts and reviewed-branch-push.ts compose).
OnlyReviewedIsPushed ==
    [][\A c \in Callers :
         (call[c].pc = "push" /\ call'[c] # call[c] /\ origin' # origin) =>
             IsReviewedCommit(origin')]_prVars

\* What auto-merge merges is the reviewed commit, CI passed on that commit,
\* and it is the only commit of the branch, whoever pushed to the branch
\* between the creation, the checks and the merge (runAutoMerge's pin).
MergedIsReviewed ==
    \A i \in 1..Len(prs) :
        (prs[i].state = "merged" /\ prs[i].by \in CloseCallers) =>
            IsReviewedCommit(prs[i].head) /\ prs[i].head \in green
=============================================================================
