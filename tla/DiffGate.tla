------------------------------ MODULE DiffGate ------------------------------
(* What a coding run does to its worktree between the moment it resolves its  *)
(* base commit and the moment it proposes a set of files for review           *)
(* (src/core/workflow-runner-inner.ts, workflow-runner-diff.ts, git/diff.ts,   *)
(* policy/): carry the work of a parent run over, let the coder and the        *)
(* allowed commands change the worktree, validate the changed paths against    *)
(* the policy and the change budget, fold commits and staged entries back,     *)
(* write the patches and choose the status.                                    *)
(*                                                                             *)
(* A file is the number of its lines, 0 when it is absent; a change rewrites   *)
(* the whole file, so its diff inserts every new line and deletes every old    *)
(* one.  A commit of the coder is a change of the index: every diff is taken   *)
(* against the base commit and none reads HEAD.                                *)
EXTENDS Integers, FiniteSets, FiniteSetsExt

CONSTANTS
    RunPaths,          \* the files a run may touch
    WriteScope,        \* those the domain's write globs match
    DenyWrite,         \* those a deny_write glob matches
    IgnoreUntracked,   \* those an ignore_untracked glob matches
    BaseTrees,         \* the base commits: a function from commits to trees
    InitialTips,       \* the base branch when the run starts
    ParentRuns,        \* the parents a continuation may find
    RunBudget,         \* the resolved change budget of the policy
    BudgetOverride,    \* the limits the run raises; empty record when none
    AllowedCommands,   \* how many commands the policy lists
    MaxLines,          \* bound: lines of a file
    MaxEdits           \* bound: changes by the coder and by the commands

VARIABLES
    tips,       \* the base branch: [remote, local], NoCommit when missing
    parent,     \* the parent run's row and worktree
    baseSha,    \* the base commit of this run
    carried,    \* paths of the parent's surface still to be copied
    step,       \* where runDomainCodingInner stands
    wt,         \* the working tree
    index,      \* the git index
    codex,      \* how the coder ended: "ok", "timeout", "failed"
    view,       \* the last diffAndValidate
    pre,        \* the evaluation kept from before the normalisation
    commands,   \* commands still to run
    proposal,   \* artifacts, reviewed paths and status of the run
    edits       \* bound on the changes made so far

gateVars == <<tips, parent, baseSha, carried, step, wt, index, codex, view,
              pre, commands, proposal, edits>>

NoCommit == 0
Commits == DOMAIN BaseTrees
Tree == [RunPaths -> 0..MaxLines]
BaseOf(c) == BaseTrees[c]

ASSUME BaseTreesAreTrees == BaseTrees \in [Commits -> Tree] /\ NoCommit \notin Commits
ASSUME ScopesArePaths ==
    WriteScope \cup DenyWrite \cup IgnoreUntracked \subseteq RunPaths
ASSUME RunsAreFinite == IsFiniteSet(RunPaths) /\ MaxLines \in Nat
\* normalizeDiffBudget leaves no limit open.
ASSUME BudgetsAreNumbers ==
    /\ RunBudget \in [maxDeletedLines: Nat, maxTotalChangedLines: Nat,
                      maxDeletedFiles: Nat, maxChangedFiles: Nat, enforce: BOOLEAN]
    /\ BudgetOverride \in [DOMAIN BudgetOverride -> Nat]
ASSUME TipsAreCommits ==
    InitialTips \subseteq [remote: Commits \cup {NoCommit}, local: Commits \cup {NoCommit}]
ASSUME ParentsAreRuns ==
    ParentRuns \subseteq [status: STRING, safety: STRING, base: Commits, tree: Tree,
                         exists: BOOLEAN]

-----------------------------------------------------------------------------
\* git, as the harness calls it: diffs of the working tree and of the index
\* against a base tree, and the files outside the index.  Rename detection is
\* off (--no-renames): a move is a deletion and an addition.

TrackedIn(b, w, i) ==
    {p \in RunPaths : \/ i[p] # 0 /\ w[p] # b[p]
                      \/ i[p] = 0 /\ b[p] # 0}
StagedIn(b, i) == {p \in RunPaths : i[p] # b[p]}
UntrackedIn(w, i) == {p \in RunPaths : w[p] # 0 /\ i[p] = 0}
\* What the tracked diff compares the base with: a path outside the index is
\* a deletion whatever the working tree holds.
Compared(w, i) == [p \in RunPaths |-> IF i[p] = 0 THEN 0 ELSE w[p]]

-----------------------------------------------------------------------------
\* The change budget.

SumOver(S, lines) == MapThenSumSet(LAMBDA p : lines[p], S)

\* The greater of the tracked and the staged count of every path, as the same
\* change may show in both.
CombineNumStat(b, w, i) ==
    LET seen    == TrackedIn(b, w, i) \cup StagedIn(b, i)
        now     == Compared(w, i)
        most    == [p \in RunPaths |-> Max({IF p \in TrackedIn(b, w, i) THEN now[p] ELSE 0,
                                            IF p \in StagedIn(b, i) THEN i[p] ELSE 0})]
    IN [filesChanged |-> Cardinality(seen),
        insertions   |-> SumOver(seen, most),
        deletions    |-> SumOver(seen, b),
        deletedFiles |-> Cardinality({p \in seen : b[p] # 0 /\ 0 \in {now[p], i[p]}})]

StatWithAllowedUntracked(w, stat, allowed) ==
    [stat EXCEPT !.filesChanged = @ + Cardinality(allowed),
                 !.insertions   = @ + SumOver(allowed, w)]

Limits == {"maxDeletedLines", "maxTotalChangedLines", "maxDeletedFiles",
           "maxChangedFiles"}

\* An override raises a limit of an enforced budget and never lowers one.
ApplyChangeBudgetOverride(budget) ==
    [l \in DOMAIN budget |->
        IF l \in Limits \cap DOMAIN BudgetOverride /\ budget.enforce
        THEN Max({budget[l], BudgetOverride[l]})
        ELSE budget[l]]

ValidateDiffBudget(budget, stat) ==
    LET breached == \/ stat.deletions > budget.maxDeletedLines
                    \/ stat.insertions + stat.deletions > budget.maxTotalChangedLines
                    \/ stat.deletedFiles > budget.maxDeletedFiles
                    \/ stat.filesChanged > budget.maxChangedFiles
    IN IF ~breached THEN "within"
       ELSE IF budget.enforce THEN "exceeded" ELSE "exceeded-but-allowed"

EvaluateChangeBudget(stat) ==
    ValidateDiffBudget(ApplyChangeBudgetOverride(RunBudget), stat)

-----------------------------------------------------------------------------
\* Collecting the diff and validating it against the policy.

PartitionUntracked(paths) ==
    [kept |-> paths \ IgnoreUntracked, ignored |-> paths \cap IgnoreUntracked]

\* A deny glob wins over a write glob.
InWriteScope(p) == p \in WriteScope /\ p \notin DenyWrite

ValidateChangedPaths(paths) == {p \in paths : ~InWriteScope(p)}

NoStat == [filesChanged |-> 0, insertions |-> 0, deletions |-> 0, deletedFiles |-> 0]
NoView == [ok |-> FALSE, tracked |-> {}, kept |-> {}, ignored |-> {},
           violations |-> {}, safety |-> "skipped", stat |-> NoStat]

\* A git command that fails leaves a view that nothing was validated in.
AttemptDiff(ok, v) == IF ok THEN v ELSE NoView

DiffAndValidate(b, w, i) ==
    LET tracked    == TrackedIn(b, w, i)
        staged     == StagedIn(b, i)
        untracked  == PartitionUntracked(UntrackedIn(w, i))
        violations == ValidateChangedPaths(tracked \cup staged \cup untracked.kept)
    IN [ok |-> TRUE, tracked |-> tracked, kept |-> untracked.kept,
        ignored |-> untracked.ignored, violations |-> violations,
        safety |-> IF violations = {} THEN "allowed" ELSE "denied",
        stat |-> StatWithAllowedUntracked(w, CombineNumStat(b, w, i),
                                          untracked.kept \ violations)]

-----------------------------------------------------------------------------
NoProposal == [patch |-> {}, untrackedPatch |-> {}, salvage |-> {},
               reviewed |-> {}, fingerprint |-> {}, status |-> "running"]

\* The rows a continuation may meet: a run is recorded as allowed exactly when
\* its validated diff was, and only an allowed one is proposed for review.
ParentFits(p) ==
    p.status # "none" =>
        /\ p.safety = DiffAndValidate(BaseOf(p.base), p.tree, BaseOf(p.base)).safety
        /\ p.status \in {"needs_review", "approved", "changes_requested"} =>
              p.safety = "allowed"

GateInit ==
    /\ tips \in InitialTips
    /\ parent \in {p \in ParentRuns : ParentFits(p)}
    /\ baseSha = NoCommit
    /\ carried = {}
    /\ step = "gate"
    /\ wt = [p \in RunPaths |-> 0] /\ index = wt
    /\ codex = "ok"
    /\ view = NoView /\ pre = [view |-> NoView, budget |-> "within"]
    /\ commands = AllowedCommands
    /\ proposal = NoProposal
    /\ edits = 0

Finalize(status) ==
    /\ step' = "done"
    /\ proposal' = [proposal EXCEPT !.status = status]

\* A thrown error is caught around the whole run and recorded on its row.
InternalError == Finalize("failed-internal-error")

\* The tips a fetch leaves: with the remote reached, its branch; otherwise the
\* local branch alone, never a stale remote-tracking reference.
ResolveBaseSha(fetched) ==
    LET origin == IF fetched THEN tips.remote ELSE NoCommit
    IN IF origin # NoCommit THEN origin ELSE tips.local

IsValidatedContinuationParent(p) ==
    \/ p.status \in {"needs_review", "approved", "changes_requested"}
    \/ p.status = "failed-command" /\ p.safety = "allowed"

\* The orchestrator decides whether the run continues its parent: the parent
\* was validated, the base did not move and the worktree is still there.  The
\* base it resolved is handed to the run; without one the run resolves its own.
GateContinuation(fetched) ==
    LET fresh == ResolveBaseSha(fetched)
    IN /\ step = "gate" /\ parent.status # "none"
       /\ \/ /\ IsValidatedContinuationParent(parent)
             /\ fresh # NoCommit
             /\ baseSha' = fresh
             /\ step' = IF fresh = parent.base /\ parent.exists
                        THEN "workspace-carry" ELSE "workspace"
          \/ /\ ~IsValidatedContinuationParent(parent) \/ fresh = NoCommit
             /\ step' = "resolve"
             /\ UNCHANGED baseSha
       /\ UNCHANGED <<tips, parent, carried, wt, index, codex, view, pre,
                      commands, proposal, edits>>

\* A run that no hitch drives has no parent to continue.
StartUndriven ==
    /\ step = "gate" /\ parent.status = "none"
    /\ step' = "resolve"
    /\ UNCHANGED <<tips, parent, baseSha, carried, wt, index, codex, view, pre,
                   commands, proposal, edits>>

ResolveOwnBase(fetched) ==
    LET fresh == ResolveBaseSha(fetched)
    IN /\ step = "resolve"
       /\ \/ /\ fresh # NoCommit
             /\ baseSha' = fresh
             /\ step' = "workspace"
             /\ UNCHANGED proposal
          \/ /\ fresh = NoCommit
             /\ InternalError
             /\ UNCHANGED baseSha
       /\ UNCHANGED <<tips, parent, carried, wt, index, codex, view, pre,
                      commands, edits>>

\* A worktree or a clone of the base, on a branch of its own.
CutRunWorkspace ==
    /\ step \in {"workspace", "workspace-carry"}
    /\ \/ /\ wt' = BaseOf(baseSha) /\ index' = BaseOf(baseSha)
          /\ step' = IF step = "workspace" THEN "coder" ELSE "carry"
          /\ UNCHANGED proposal
       \/ InternalError /\ UNCHANGED <<wt, index>>
    /\ UNCHANGED <<tips, parent, baseSha, carried, codex, view, pre, commands,
                   edits>>

-----------------------------------------------------------------------------
\* Carrying the parent's work over, entry by entry.

\* The parent's worktree was normalised when its run ended: its index is the
\* base.  Ignored untracked files are not part of the surface.
ParentSurface ==
    LET b == BaseOf(baseSha)
    IN TrackedIn(b, parent.tree, BaseOf(parent.base))
         \cup PartitionUntracked(UntrackedIn(parent.tree, BaseOf(parent.base))).kept

MaterializeParentWork ==
    /\ step = "carry"
    /\ \/ parent.exists /\ ParentSurface # {}
          /\ carried' = ParentSurface /\ step' = "copy"
       \/ carried' = {} /\ step' = "coder"   \* no surface, or the diff failed
    /\ UNCHANGED <<tips, parent, baseSha, wt, index, codex, view, pre, commands,
                   proposal, edits>>

\* A path absent in the parent is removed, any other is cleared and copied.
MaterializeEntry(p) ==
    /\ step = "copy" /\ p \in carried
    /\ wt' = [wt EXCEPT ![p] = parent.tree[p]]
    /\ carried' = carried \ {p}
    /\ step' = IF carried' = {} THEN "coder" ELSE "copy"
    /\ UNCHANGED <<tips, parent, baseSha, index, codex, view, pre, commands,
                   proposal, edits>>

\* The failed copy swallowed without undoing the entries before it.
KeepPartialCarry == UNCHANGED <<wt, index>>

\* reset --hard to the base and clean -ffdx.
ResetWorktreeToBase == wt' = BaseOf(baseSha) /\ index' = BaseOf(baseSha)

\* An entry that cannot be copied, or whose destination lies behind a link,
\* undoes the carry; a reset that fails ends the run.
MaterializeFails ==
    /\ step = "copy" /\ carried # {}
    /\ carried' = {}
    /\ \/ ResetWorktreeToBase /\ step' = "coder" /\ UNCHANGED proposal
       \/ InternalError /\ UNCHANGED <<wt, index>>
    /\ UNCHANGED <<tips, parent, baseSha, codex, view, pre, commands, edits>>

\* harness cleanup removes the parent's worktree before the child holds the
\* domain lock.
ParentCleaned ==
    /\ step = "gate" /\ parent.exists
    /\ parent' = [parent EXCEPT !.exists = FALSE]
    /\ UNCHANGED <<tips, baseSha, carried, step, wt, index, codex, view, pre,
                   commands, proposal, edits>>

\* Someone pushes to the base branch.
BaseAdvances ==
    /\ step \in {"gate", "resolve"}
    /\ \E c \in Commits : c > tips.remote /\ tips' = [tips EXCEPT !.remote = c]
    /\ UNCHANGED <<parent, baseSha, carried, step, wt, index, codex, view, pre,
                   commands, proposal, edits>>

-----------------------------------------------------------------------------
\* The coder and the commands.

\* Writing a file, staging or committing it, unstaging it.
ChangeWorktree ==
    /\ edits < MaxEdits
    /\ edits' = edits + 1
    /\ \E p \in RunPaths :
        \/ /\ \E n \in (0..MaxLines) \ {wt[p]} : wt' = [wt EXCEPT ![p] = n]
           /\ UNCHANGED index
        \/ /\ index[p] # wt[p]
           /\ index' = [index EXCEPT ![p] = wt[p]]
           /\ UNCHANGED wt
        \/ /\ index[p] # 0
           /\ index' = [index EXCEPT ![p] = 0]
           /\ UNCHANGED wt

CoderWorks ==
    /\ step = "coder"
    /\ ChangeWorktree
    /\ UNCHANGED <<tips, parent, baseSha, carried, step, codex, view, pre,
                   commands, proposal>>

CoderEnds ==
    /\ step = "coder"
    /\ codex' \in {"ok", "timeout", "failed"}
    /\ step' = "post-codex"
    /\ UNCHANGED <<tips, parent, baseSha, carried, wt, index, view, pre,
                   commands, proposal, edits>>

\* The gate before the commands: nothing runs in a worktree that is out of
\* scope, over its budget or left by a coder that failed.
MayRunCommands(v, budget) ==
    /\ v.ok /\ v.safety = "allowed"
    /\ budget # "exceeded"
    /\ codex = "ok"
    /\ commands > 0

PostCodex ==
    /\ step = "post-codex"
    /\ \E ok \in BOOLEAN :
        LET v      == AttemptDiff(ok, DiffAndValidate(BaseOf(baseSha), wt, index))
            budget == IF v.ok THEN EvaluateChangeBudget(v.stat) ELSE "none"
        IN /\ view' = v
           /\ pre' = [view |-> NoView, budget |-> budget]
           /\ step' = IF MayRunCommands(v, budget) THEN "commands" ELSE "evaluated"
    /\ UNCHANGED <<tips, parent, baseSha, carried, wt, index, codex, commands,
                   proposal, edits>>

CommandWorks ==
    /\ step = "commands" /\ commands > 0
    /\ ChangeWorktree
    /\ UNCHANGED <<tips, parent, baseSha, carried, step, codex, view, pre,
                   commands, proposal>>

\* A command that fails or times out is recorded and the next one runs; one
\* that cannot be started ends the run.
CommandEnds ==
    /\ step = "commands" /\ commands > 0
    /\ \/ /\ commands' = commands - 1
          /\ step' = IF commands' = 0 THEN "post-command" ELSE "commands"
          /\ UNCHANGED proposal
       \/ InternalError /\ UNCHANGED commands
    /\ UNCHANGED <<tips, parent, baseSha, carried, wt, index, codex, view, pre,
                   edits>>

\* The worktree the commands left taken for the one the coder left.
PostCommandUnchecked ==
    /\ step = "post-command"
    /\ step' = "evaluated"
    /\ UNCHANGED <<tips, parent, baseSha, carried, wt, index, codex, view, pre,
                   commands, proposal, edits>>

PostCommand ==
    /\ step = "post-command"
    /\ \E ok \in BOOLEAN :
        LET v == AttemptDiff(ok, DiffAndValidate(BaseOf(baseSha), wt, index))
        IN /\ view' = v
           /\ pre' = IF v.ok THEN [pre EXCEPT !.budget = EvaluateChangeBudget(v.stat)]
                             ELSE pre
    /\ step' = "evaluated"
    /\ UNCHANGED <<tips, parent, baseSha, carried, wt, index, codex, commands,
                   proposal, edits>>

-----------------------------------------------------------------------------
\* The artifacts, the reviewed surface and the status.

\* The coder's commits and staged entries left where they are.
LeaveIndex == UNCHANGED index

\* reset --mixed to the base: the index is the base, the working tree stays.
NormalizeWorktreeIndexToBase == index' = BaseOf(baseSha)

\* The evaluation is kept; when it saw a diff, the index is folded back and
\* the diff taken again.
Normalize ==
    /\ step = "evaluated"
    /\ pre' = [pre EXCEPT !.view = view]
    /\ \/ ~view.ok /\ step' = "artifacts" /\ UNCHANGED <<index, view, proposal>>
       \/ /\ view.ok
          /\ NormalizeWorktreeIndexToBase
          /\ \E ok \in BOOLEAN :
                view' = AttemptDiff(ok, DiffAndValidate(BaseOf(baseSha), wt, index'))
          /\ step' = "artifacts"
          /\ UNCHANGED proposal
       \/ view.ok /\ InternalError /\ UNCHANGED <<index, view>>
    /\ UNCHANGED <<tips, parent, baseSha, carried, wt, codex, commands, edits>>

UntrackedAllowed == view.kept \ pre.view.violations

\* The patch of the allowed part of a denied run, for its operator; none when
\* git fails on it.
BuildPolicySalvage ==
    IF pre.view.safety = "denied"
    THEN (view.tracked \ pre.view.violations) \cup UntrackedAllowed
    ELSE {}

ComputeReviewedFingerprint(paths) == {<<p, wt[p]>> : p \in paths}

StatusOf ==
    IF ~view.ok THEN "failed-diff-collection"
    ELSE IF codex = "timeout" THEN "failed-codex-timeout"
    ELSE IF codex = "failed" THEN "failed-codex"
    ELSE IF pre.view.safety = "denied" THEN "failed-policy-violation"
    ELSE IF pre.budget = "exceeded" THEN "failed-budget-exceeded"
    ELSE "needs_review"

WritePolicyArtifacts ==
    /\ step = "artifacts"
    /\ step' = "done"
    /\ \E salvaged \in {BuildPolicySalvage, {}} :
        LET reviewed == IF view.ok THEN view.tracked \cup UntrackedAllowed ELSE {}
        IN proposal' = [patch |-> view.tracked, untrackedPatch |-> UntrackedAllowed,
                        salvage |-> salvaged, reviewed |-> reviewed,
                        fingerprint |-> ComputeReviewedFingerprint(reviewed),
                        status |-> StatusOf]
    /\ UNCHANGED <<tips, parent, baseSha, carried, wt, index, codex, view, pre,
                   commands, edits>>

-----------------------------------------------------------------------------
GateNext ==
    \/ \E fetched \in BOOLEAN : GateContinuation(fetched) \/ ResolveOwnBase(fetched)
    \/ StartUndriven \/ CutRunWorkspace
    \/ MaterializeParentWork \/ MaterializeFails
    \/ \E p \in RunPaths : MaterializeEntry(p)
    \/ ParentCleaned \/ BaseAdvances
    \/ CoderWorks \/ CoderEnds \/ PostCodex
    \/ CommandWorks \/ CommandEnds \/ PostCommand
    \/ Normalize \/ WritePolicyArtifacts

GateSpec == GateInit /\ [][GateNext]_gateVars

-----------------------------------------------------------------------------
\* Properties.

\* The lines and files a set of paths changes, read off the working tree alone.
SurfaceStat(paths) ==
    [filesChanged |-> Cardinality(paths), insertions |-> SumOver(paths, wt),
     deletions |-> SumOver(paths, BaseOf(baseSha)),
     deletedFiles |-> Cardinality({p \in paths : wt[p] = 0})]

\* A run proposed for review was validated as it is proposed: whatever the
\* coder and the commands wrote, staged, committed or unstaged, every path of
\* the reviewed set is in the write scope and the whole set, counted on the
\* final working tree, keeps the enforced budget.  (Paths an ignore_untracked
\* glob matches are left out of the count: one of them tracked at the base and
\* taken out of the index is counted as its deletion only.)
ReviewedIsVetted ==
    proposal.status = "needs_review" =>
        /\ proposal.reviewed \subseteq WriteScope \ DenyWrite
        /\ RunBudget.enforce /\ proposal.reviewed \cap IgnoreUntracked = {} =>
              EvaluateChangeBudget(SurfaceStat(proposal.reviewed)) = "within"

\* A file the policy denies and the base does not hold never has its content in
\* an artifact of the run, even when the coder committed it: the patches hold
\* paths the base knows or the policy allows.
DeniedBytesStayOut ==
    LET denied == {p \in ValidateChangedPaths(RunPaths) :
                      baseSha # NoCommit /\ BaseOf(baseSha)[p] = 0}
    IN (proposal.patch \cup proposal.untrackedPatch \cup proposal.salvage)
          \cap denied = {}

\* The coder starts from the base it is diffed against, untouched, or from the
\* whole work of a validated parent made on that same base (its ignored files
\* left behind); never from a part of that work, from the work of a parent that
\* was denied, or from work made on another base.
CarryIsWhole ==
    step = "coder" /\ edits = 0 =>
        \/ wt = BaseOf(baseSha)
        \/ /\ parent.base = baseSha
           /\ parent.safety = "allowed"
           /\ \A p \in RunPaths :
                 \/ wt[p] = parent.tree[p]
                 \/ p \in IgnoreUntracked /\ BaseOf(baseSha)[p] = 0 /\ wt[p] = 0
=============================================================================
