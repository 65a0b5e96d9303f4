# Verification of monorepo-harness

This directory holds a TLA+ model of the harness: modules translated from the TypeScript
under `src/src`, TLC configurations that check them on small instances, and TLAPS proofs of
the properties of the core that matter for every instance. `PROJECT.json` says which lines
every definition stands for, what each run checks, which mutated definition refutes each
property, and which hazard each property is about.

## 1. The system

The harness runs coding agents against git repositories. Every `harness` command is a process
of its own; the processes share one SQLite database, the git repositories and the file
system, and nothing else. There is no server that orders them: a step of one process may fall
between any two database calls of another, a host may sleep, a process may be killed, and an
operator may type a command at any moment.

A *run* takes the lease of its domain, inserts a row in `runs`, cuts a worktree, lets the agent
work, validates the diff and finalizes the row. Reviewers file *proposals*; a proposal, a
consensus of proposals or an override is promoted to the run's *verdict*. A run that needs
changes is rerun, an approved run becomes a *pull request*. A *hitch* drives runs, findings and
reviews towards one pull request within budgets; a *course* drives the hitches of its *phases*.
An *MCP server* exposes the operations to agents, within limits and project scopes and, for
dangerous ones, after an operator's confirmation. Agents may also work in *workspaces* of their
own, which the harness watches. Artifacts, the backlog and knowledge are rows with files that
mirror them.

### Inventory

| component | state | operations | what is hard | what makes it correct |
|---|---|---|---|---|
| domain lock (`workspace/db-domain-lock.ts`) | `domain_locks`, handles in memory | acquire, heartbeat, check, release, operator release | expiry while the holder lives, a stale operator command | exclusion, fencing, an unexpired lease is honoured |
| run execution (`core/workflow-runner*.ts`, `db/run-log-db.ts`, `runs-finalize-repository.ts`) | `runs`, meta in memory, worktree | start, rerun, guarded writes, recovery, force-fail | check and write are two calls; anything may throw anywhere | no orphaned row, no overwritten verdict, one child per parent |
| cleanup (`core/cleanup.ts`, `run-worktree-gc.ts`) | `runs`, worktree | gate, remove, record | status read before awaited git calls | a verdict survives it |
| diff collection and policy (`workflow-runner-inner.ts`, `workflow-runner-diff.ts`, `git/diff.ts`, `policy/`) | worktree, index, base commit, the proposed set | resolve base, carry over, validate twice, normalise, write patches | the coder stages and commits; files change between two passes; a parent disappears | what is reviewed was validated; denied bytes stay out |
| consensus (`core/review-consensus.ts`) | none: a function of proposals, votes and the rule | evaluate | thresholds, staleness, refutation, precedence | no approval over a standing objection |
| review governance (`core/reviewer-agent.ts`, `review-processor*.ts`, `db/repositories/review-*.ts`) | `review_proposals`, `review_consensus`, `review_overrides`, refute votes | file, process, override, archive, dispatch | many deciders, one verdict; minutes between gate and insert | the verdict has its source and leaves no ballot out |
| operations ledger (`operations/operation-runner.ts`, `db/repositories/operations.ts`) | `operations`, events | reserve, replay, work, finish, fail, repair | lost answers, retries, crashes, repair by age | work runs at most once |
| MCP server (`mcp/security`, `mcp/registry`, `mcp/tools`, `mcp/confirmation-runner.ts`) | `mcp_confirmation_requests`, counts over `operations`, the configuration of clients | call, read resource, request, confirm, reject, consume | calls racing at the limit; rows move between projects after the check; a hundred tools with their own checks | limits hold; answers and writes stay in scope |
| hitch convergence (`hitch/convergence*.ts`, `hitch/repositories`) | session, attempts, cycles, findings, checks | evaluate, record, upsert, classify, retire | evidence goes stale, findings reopen | budgets, evidence of the right run |
| hitch orchestrator (`hitch/orchestrator*.ts`), jury (`hitch/jury`) | nothing between two steps | coder, review, close check, classify, defer, close | crash between any two transactions; an operator in between | the loop ends; a pull request is a reviewed run |
| course (`roadmap/course-orchestrator.ts`, `phase-repository.ts`) | courses, phases, links, a lease | walk, gate, drive, transition, edit | lease loss in the middle of a drive; edits under a walk | blocked subtrees rest; an operator's declaration stands; a drive without lease stops |
| phase specification (`roadmap/phase-repository.ts`, `hitch/spec-gates.ts`) | scope, conditions, approval, links | update, ratify, link, start, unlink | check and insert are two calls; many flags | after ratification a spec is only tightened |
| pull requests (`core/pr-creator.ts`, `reviewed-branch-push.ts`, auto-merge) | `pull_requests`, branches, GitHub | commit, push, adopt, create, record, gate, merge | answers get lost; people edit, commit, push and merge as well | only the reviewed commit is pushed and merged |
| agent workspaces (`workspace/agent-workspace.ts`, `cli/workspace.ts`) | git worktrees and branches, `workspaces` rows | create, adopt, list, status, conflicts, recover, remove, link | git is read one command at a time while agents work | an overlap that was there is reported; a hitch is shown where it works |
| schema and migrations (`db/schema.ts`, `db/migrations.ts`) | tables, `schema_migrations` | migrate | builds of several versions, branches with the same number, cascading drops | no row is lost; the newest schema has its tables |
| maintenance lock, backup, restore (`db/maintenance*.ts`, `db/managed-connection.ts`) | a `flock`, the database file, its log, backups | shared, exclusive, backup, checkpoint, vacuum, restore | a file replaced under open connections, a log that belongs to the old file | every commit that counts can be read |
| artifacts and blobs (`core/run-materialize.ts`, `db/run-artifacts.ts`, `storage/`) | `artifacts`, bodies, object store, scratch directory | materialise, review, quarantine, ingest, migrate, gc | a review dies half way; a blob moves under a reader | a published transcript stays readable |
| backlog (`core/backlog-db.ts`, `db/export-*.ts`, `db/import/backlog.ts`) | rows and yaml files | add, move, link, export, import, list | export and import of one item at once | synced means exported at that revision; a read rolls nothing back |
| knowledge (`core/knowledge-db.ts`, `knowledge-context.ts`, `operational-knowledge.ts`) | candidates, decisions, entries, revisions, markdown | sync, promote, reject, edit, deprecate, import | import from stale files under decisions | context has only vetted text; deprecation stands |
| agents, policy compilation, doctor, dashboard, CLI, HTTP server, configuration | | | | not modelled, reasons in `PROJECT.json` |

They interact through rows: a hitch starts runs and reviews, a run asks the lock, a pull request
reads the verdict and the reviewed fingerprint of a run, a course asks for the lock and drives a
hitch, the MCP server reserves an operation before it calls any of them.

## 2. The modules and the code

| module | extends | models |
|---|---|---|
| `FencedLock` | | what the lock promises: the abstract specification |
| `DomainLock` | | `workspace/db-domain-lock.ts`; implements `FencedLock` |
| `RunRegister` | | what everyone may rely on of a row of `runs`: the abstract specification of a run's status |
| `RunExecution` | `DomainLock` | `core/workflow-runner.ts`, `db/run-log-db.ts`, `runs-finalize-repository.ts`, `core/rerun.ts`, `core/cleanup.ts`; implements `RunRegister` |
| `DiffGate` | | a run's worktree from its base to the set proposed for review |
| `ReviewConsensus` | | the operators of `core/review-consensus.ts` |
| `ConsensusBallot` | `ReviewConsensus` | the tables of proposals and votes the evaluation can meet |
| `ReviewGovernance` | `ReviewConsensus` | the review commands and the review step of a drive; implements `RunRegister` |
| `IdempotentWork` | | what the ledger promises a client: the abstract specification |
| `OperationLedger` | | the operations ledger with budget, confirmation and repair; implements `IdempotentWork` |
| `McpTools` | | permissions, project scope and per-tool checks of the MCP server |
| `HitchConvergence` | | the decision of a hitch and the writes it depends on |
| `HitchOrchestrator` | `HitchConvergence` | the processes that drive a hitch, and the operator; implements `RunRegister`, uses `FencedLock` |
| `CourseOrchestration` | `FencedLock` | the walk of a course under its lease |
| `PhaseSpec` | | a phase's specification, its ratification and its links |
| `PullRequests` | | from a run with a verdict to a merged pull request; implements `RunRegister` |
| `AgentWorkspaces` | | agents' worktrees and the `harness workspace` commands |
| `SchemaMigrations` | | the migrations as statements on tables |
| `DbStore` | | database file, log, maintenance lock, backup and restore |
| `RunArtifacts` | | the bodies of a run, scratch directory and object store |
| `BacklogItems`, `KnowledgeEntries` | | rows and the files that mirror them |
| `DomainLockProofs`, `RunWorkProofs`, `ReviewProofs`, `OperationsProofs`, `RoadmapProofs`, `PullRequestProofs`, `StoresProofs`, `HitchProofs` | the modules they are about | theorems, see section 4 |
| `MC...` | | instances |

Two abstract specifications join the modules. `CourseOrchestration` is built on the abstract
lock and the drives of `HitchOrchestrator` are shown to use it as its clients may, and
`DomainLock` is shown to implement that lock; so what a course and a hitch are shown to do holds
with the rows in place of it. `RunRegister` is the life of a run's row: four modules model a part
of the program that moves its status, each with its own idea of what the others do meanwhile, and
each is shown to stay within it. `MCRunWork`,
`MCReview`, `MCOperations` and `MCStores` put modules that share no state side by side: a
variable `part` says which of them moves, so that one run explores the disjoint union of
their state spaces. No claim about an interaction of two parts follows from such a run.

### DomainLock and FencedLock

`locks` is the table: its index is `lock_id`, the fencing token. `expires_at` is the time left
(`ttl`), so that the clock needs no bound. `handle[r]` is the handle object of a process, and
the operator's `harness lock release` is two steps, the SELECT with its filter and the UPDATE
by `lock_id`. `AcquireDomainLock` is one IMMEDIATE transaction in the code and one action here.
`Tick` lets one unit of time pass for every row.

`FencedLock` knows no rows, handles or clocks: an owner, a token and whether the lease is live,
for each name, and the largest token issued. Under the refinement mapping the owner is the
holder of the active row, the token its `lock_id`, and `issued` the length of the table. A hitch
has one lease variable and no tokens; there the number of runs stands for the token, since every
grant inserts one.

### RunRegister

`stage` is the status of every run, the `failed-*` statuses taken together, and `open` the runs
whose process has inserted the row and can still write it. A process goes forward from where the
row is, or over a row an operator had cleaned under it by force; its recovery may fail the row at
any time, even after the verdict; a verdict is given once, to a run that waits for it; a cleanup
follows neither a running process nor a verdict that asks for changes.

### RunExecution

One process per run. `pc` follows `runDomainCoding`: *ready*, *locked*, *gated* (the duplicate
check is behind it, `resolveBaseSha` is awaited), *work*, *commit* (the lease check of a guarded
write has passed, the write has not happened), then the recovery block (*failed*, *failCommit*,
*force*) and the `finally` block (*closing*). `mem` is the status the process believes it has
written; `updateRunRow` writes from it without looking at the row, and so does `CommitWrite`.
`ThrowOther` throws at any place of the `try` block. `CreateDbRunLog` lies before it: when its
export throws after the committed INSERT, only the `finally` block runs. `HeartbeatTimer` either extends the lease or finds it lost.
`leased` and `lateWrites` are observers that no action reads.

### DiffGate

`step` follows `runDomainCodingInner`. The worktree, the index and a commit are functions from
paths to numbers of lines; a commit of the coder is an index change, since every diff is taken
against the base. `DiffAndValidate` is one pass (tracked, staged and untracked paths, policy,
budget); it runs after the coder, after the commands and after `NormalizeWorktreeIndexToBase`,
and `view` and `pre` keep what the code keeps of it. The carry of a parent copies one path per
step, and may fail between two of them.

### ReviewConsensus, ConsensusBallot, ReviewGovernance

`ReviewConsensus` translates `evaluateConsensus` and its helpers as pure operators; its loop over
the requirements, whose order matters, is a recursive function. `ConsensusBallot` generates every small table of proposals and votes and
checks the evaluation against definitions of the same ideas written independently of its
control flow (`Electorate`, `Fresh`, `Struck`). `ReviewGovernance` has one step per statement
or transaction of `review auto`, `review process` (both modes), `--override`, and the review
step of a drive with its reviewers and refuters, over one run. What the code does best effort may
fail here too: the import of a hand-written verdict (`ImportSidecar`), which is then promoted
from the file alone (`via = "file"`), and the consensus row after a promotion or a new proposal. A *setting* is a frozen rule
with the processes that act under it; the settings are in `MCReview`.

### OperationLedger, McpTools

A key stands for `(operation_type, target_id, idempotency_key)`. `Reserve` is the transaction
that looks for the key, checks the budget and inserts the row. `Work` is the side effect, which
`effects` counts; `Finish`, `AppendEvent` and `FailOperation` are the three writes that follow,
each of which may fail. The confirm and reject commands are a read and a write, as in
`mutateConfirmation`. `disturbed` is a history variable. `IdempotentWork` has one record per key
and the stage of the process that was given it: accepted within the limits of its account, worked
on at most once, recorded, given up only while no outcome is recorded.

`McpTools` has the registry as a set of records (name, kind, how the project of a call is
resolved) and the handlers as another (which check they make, which classes of rows they show
and write). `CallTool` and `ReadResource` take the permission decision; `HandleCall` makes the
handler's own check and does its work, or asks for a confirmation, which `ConfirmMcpRequest`
resumes after the rows may have moved. Rows are abstracted to their class and their projects.

### HitchConvergence, HitchOrchestrator

`hitch` holds the rows of one hitch. `Rules` lists the rules of `decide` in their order and
`Decide` takes the first whose guard holds. A timestamp is only ever compared with another, so
an attempt remembers how many cycles were there when it was created (`seen`), and a close check
remembers what was written after it (`staleBy`); this keeps what the code does when an attempt
is discarded: its timestamp no longer outdates the evidence. A drive keeps nothing between two
steps of its loop, so the top of the loop and a new invocation are the same place, `idle`.
Every `withManagedDb` block of a runner is one action. What agents and external programs answer
is a choice: the coder's status, the reviewers' verdict, the commands' result, the jury's
decision, the push; so is whether the run's row is left as it was inserted (`CoderWork`), for the
two reasons `RunExecution` has. `Throw` is the catch of `HitchOrchestrator.run`.

### CourseOrchestration, PhaseSpec

`walk[d]` is one invocation: the roll-up it took at the start, where it stands in the pre-order,
the blocked depth it skips below, the hitches it has driven and what it returns. Each database
block is a step; a driven hitch is a series of `HitchStep`s with any outcome, between which the
timer finds the lease lost and aborts. `Edits` are the commands of the operator and of other
clients. `PhaseSpec` has the update, ratify, link, start and unlink operations with their flags,
as the CLI and the MCP tools call them; `link-hitch` is a check and a later INSERT.

### PullRequests

`wt` and `origin` are sequences of commits beyond the base, a commit being a message and a tree.
`call[c]` follows `createPullRequest` through its gates: approval, fingerprint, staging, commit,
verification of the branch, push, look-up of an open pull request, creation, recording; then the
merge gate, the wait for CI and the merge pinned to a head. `ReviewDecides` gives the run its
verdict, once; `CleanupRemoves` and `CleanupRecords` take the worktree from under a command, as
`run cleanup` does. A push or a `gh` call may take effect
and lose its answer. `Others` are people: they edit, commit, switch, push, merge and close.

### AgentWorkspaces

`trees` are the linked worktrees with the files changed in each, `wsRows` the advisory rows.
One command runs at a time, one git call or row write per step, with agents' git commands and
links of hitches in between. `status`, `conflicts`, `recover` and `checkpoint` read the rows,
reconcile them with `git worktree list` and then read two diffs of every tree.

### SchemaMigrations, DbStore, RunArtifacts, BacklogItems, KnowledgeEntries

`MIGRATIONS` lists the statements of all 41 versions that create, rename, copy, rebuild or drop
tables; `RunStatement` is what SQLite does with foreign keys on. Each version is a transaction.
In `DbStore` the content of a database is its set of commits and a file is an inode; a log next
to another inode is replayed into it. `RunArtifacts` follows `review auto` on a run without
files (materialise, gate, quarantine, reviewers, ingest, remove) beside the blob tools.
`BacklogItems` and `KnowledgeEntries` have one step per transaction and per file call of the
commands, each of which may die or fail there.

## 3. Runs

| run | instance | checks |
|---|---|---|
| `lock` | 2 runs, 2 domains, a lease of 2 units | only the newest row of a domain is active, the operator's command hits the row it matched, an unexpired lease is honoured, the lease of a crashed holder lapses, the rows implement `FencedLock` |
| `run_work` | a parent and 2 reruns, lease 1; a worktree of 4 paths, 2 bases, 6 parents, one command | one leased child per parent, one late write; what is proposed for review was checked as it stands, denied bytes stay out of the patches, a carry is whole or undone |
| `run_lifecycle` | one run, fresh or a rerun of a parent, every outcome, reviewer, cleanup, operator | verdicts stand; no row is orphaned or rots, except where the code gives it up (`GivenUp`: the last-resort transaction failed, or `createDbRunLog` threw after its INSERT) |
| `review` | 4 settings of up to 4 processes and 3 proposals; ballots under 7 rules, 2 groups, 2 changes, 3 votes, 2 prompts | the verdict has its source, or a person wrote it; it leaves no ballot out and keeps its row; no approval over an objection, rejection prevails |
| `operations` | 2 callers, or a caller and an operator, 3 keys, 1 request; 4 clients of all tools over rows of 2 projects and none; a phase with a hitch and 2 specs; 2 agents and 3 steps of theirs | at most once, limits; answers and authorised writes in scope; a ratified spec is only tightened; reports fit the trees |
| `hitch` | 1 drive, 1 crash, 1 operator command of 7 kinds, 3 attempts, 3 cycles, 2 reruns | a pull request is an approved run whose review was imported; findings are retired only by those entitled to; the loop comes to rest unless a coder died and left its attempt running |
| `hitch_two` | 2 drives, 1 lost lease, 1 operator command, 2 attempts | budgets hold up to the one drive that slips past the gate |
| `course` | 2 invocations, 3 phases (one a child), 2 hitches, 1 edit | blocked subtrees rest, an operator's declaration stands, a drive that lost its lease stops |
| `publish` | close step, `pr create` and salvage push, 2 tries each, 2 acts of others; a verdict and a cleanup at any moment | only the reviewed commit is pushed, only it is merged |
| `stores` | migrators of 3 builds; users and an operator with a backup and a restore; repeated reviews and blob tools; 2 backlog users; 2 knowledge users | migrations keep rows, the store is whole, transcripts stay, synced at its revision, reads never roll back, context is vetted, deprecation stands |
| `hitch_wedge` | 1 drive, 1 crash | **violated**: see findings |
| `partial_scratch` | 2 reviews, the first may die while it writes its directory | **violated**: see findings |

### Bounds and why they are enough

*Lock.* Two contenders are enough for every race of the table, since each transaction involves
at most the row of another; two domains show that domains do not disturb one another. A lease of
two units gives a state between fresh and expired. *Runs.* A duplicate child needs a parent and
two reruns; a verdict, a cleanup and a recovery meet in one run. *Worktree.* The four paths are
one the run changes, a new one, one that is denied and one that is ignored; files of up to two
lines under limits of 2 to 5 put every budget on both sides of its limit; the two bases tell a
moved base from the parent's. *Consensus.* Two reviewers per group make "all", "some" and
"none", three votes a tie and a majority under repeated prompts. *Review.* Each setting combines
the processes whose statements can interleave; a third proposal only repeats what two show.
*Operations.* Two budget units and one concurrent slot put every call at a limit; the clock has
the three values that tell fresh, expired and out of the window. The rows of `McpTools` have
every class with a project inside, one outside and none; a scope check compares one or two rows.
*Hitch.* Three attempts and cycles are the least for a rerun of a rerun and for a divergence of
two cycles in a row; two reruns put the rerun budget, `MaxPush = 1` the push budget, within
reach. `MaxRuns` is above what the budgets admit, so that it cuts nothing off. There is one
operator command per behaviour, of any kind and at any moment. *Course.* A root, its child and a
second root are the least tree with a subtree to skip and something after it; the one edit may
come anywhere in the walk of either invocation. *Publish.* Two tries let a caller meet what its
own lost answer left behind; people do not commit in the worktree after a push
(`HandCommitsAfterPush`), for what happens then see section 5. *Stores.* Three builds make an
older, a current and an out-of-turn migrator; one restore beside two users is the least for a
log of the old file; two commands of each kind at once are the least for a lost update. Two blob
tools let one move a body out and another bring it back or collect it, beside two reviews of two
reviewers; three reviews with two tools (3,602,164 states of this part alone) hold as well.

Distinct states: `lock` 13,141, `run_work` 2,810,289, `run_lifecycle` 34,299, `review` 993,235,
`operations` 2,025,804, `hitch` 333,731, `hitch_two` 587,271, `course` 841,572, `publish`
2,123,622, `stores` 1,013,491.

`CHECK_DEADLOCK FALSE` is given where the modelled processes may all have ended. The hitch may
always be driven again, and is checked for deadlock.

### Fairness

Safety properties assume none. `lock` assumes that the clock advances (`WF(Tick)`).
`run_lifecycle` assumes weak fairness of the steps a living process takes by itself, which is
what an event loop gives; nothing is assumed of heartbeats, reviewers or operators. `course` assumes that
the timer of a drive fires and that its abort is taken, which is all `LostDriveStops` needs.
`hitch` and `hitch_wedge` assume that a drive that can take a step takes it, which includes that
the hitch is driven again after an invocation ends (a course does so, and an operator reruns
`hitch orchestrate`), and that the lease of a dead holder runs out. Under this assumption a
counterexample to settling is a loop that no further driving leaves.

## 4. Proofs

TLC checks small instances; the theorems hold for every value of the constants: any sets of
processes, runs, domains, rows and paths, any limits, and any value of the bounds. They rest on
the named assumptions of the modules, which TLC evaluates in the runs: a lease lasts at least
one unit (`LeaseAssumption`), a null value is no member of the set it stands outside of
(`NoRunAssumption`, `NobodyAssumption`, `PullRequestAssumption`), constants are of their types
(the assumptions of `RunExecution`, `OperationLedger`, `AgentWorkspaces`, `BacklogItems`, `RunArtifacts`,
`KnowledgeEntries`, `HitchConvergence`), paths are finitely many, trees give each a number of lines,
a base is a commit and every limit of the budget is a number (the assumptions of `DiffGate`; what
`ChangeBudgetSchema` accepts and `normalizeDiffBudget` completes), no client is allowed the name that stands for "unresolved" and a workspace is linked
to a hitch or to none (`McpAssumption`), there is one lock per course and a depth for every phase
(`CourseAssumption`), a hitch is driven by at least one and finitely many processes, none of
which is called "none" or "dead", and its operator knows the commands of `cli/hitch`
(`OrchestratorAssumption`), a build knows versions that some migration leads to
(`SchemaAssumption`), and rules have passed the compiler (`BallotAssumption`,
`GovernanceAssumption`; what it accepts is `RuleIsCompiled`). Four theorems have a hypothesis
of their own, given with them.

| theorem | establishes |
|---|---|
| `LockTypeCorrect` | type correctness of the lock |
| `Fencing` | only the newest row of a domain can be active |
| `HandlesOwnTheirRows` | a handle names a row of its own run |
| `MutualExclusion` | two runs never both pass the lease check for one domain |
| `LeasesAreHonoured` | no contender ends an unexpired lease; an ended row never changes |
| `OperatorHitsOnlyMatched` | `harness lock release` ends only a row its filter approved |
| `LockImplementsFencedLock` | every step on the table of leases is a step of `FencedLock` or a stutter |
| `TokensOrderGrants` | whoever uses `FencedLock`: tokens only rise, and two grants never share one |
| `TypeCorrect` | type correctness of runs composed with the lock |
| `LeasedRerunsAreUnique` | at most one child of a parent is inserted under a held lease |
| `LateWritesAreBounded` | a displaced process lands at most one guarded write |
| `NoOrphans` | a process that ends by itself leaves no row in flight, unless the last-resort transaction failed or `createDbRunLog` threw after its INSERT; that row still says `running` |
| `VerdictsStand` | a verdict is replaced only by the commands entitled to |
| `RunsImplementRegister` | rows of `runs` move as `RunRegister` says, whoever writes them |
| `ReviewsAreVetted` | what a run proposes is in the write scope and keeps the enforced budget on the final working tree |
| `DeniedBytesAreLeftOut` | no artifact holds a new file the policy denies |
| `CarriesAreWhole` | the coder starts from its base or the whole work of a vetted parent on that base |
| `RejectionsPrevail` | a fresh blocking rejection makes the verdict rejected, for any rule and order of requirements |
| `NoApprovalOverObjections` | an approval leaves no fresh blocking verdict standing that was not struck |
| `VerdictsHaveTheirSource` | the rows marked processed are those the verdict was taken from; only a person's verdict stands without one |
| `DecidingRowsStand` | the consensus row that decided a run says what the run says |
| `NoBallotsLeftOut` | a consensus verdict leaves no live proposal behind (rules without a maximum age) |
| `ReviewsImplementRegister` | a run under review is judged once, as `RunRegister` says |
| `LedgerTypeCorrect` | type correctness of the ledger |
| `WorkRunsAtMostOnce` | the work of a key runs at most once |
| `BudgetIsKept` | the limits of every client hold at every reservation |
| `LedgerImplementsIdempotentWork` | the rows of the ledger and the processes on them implement `IdempotentWork` |
| `AnswersAreScoped` | no answer shows a restricted client a row outside its projects, but for the three exceptions the handlers make |
| `WritesAreScoped` | no call writes without mode and grant, nor outside the client's projects |
| `AnswersAreTrue` | `workspace conflicts` misses no overlap that was there all the while; `workspace status` shows a hitch only where it was recorded |
| `RatificationHolds` | a ratified specification is only tightened, until a flag says otherwise |
| `BlockedTreesRest` | a walk drives nothing between a blocked phase and the next root |
| `DeclarationsStand` | a walk changes a phase only from *pending* to *in_progress*, under its lease |
| `CourseUsesTheLock` | what invocations, crashes and operators do to a course's lease is what `FencedLock` allows |
| `NewestLeasesWrite` | a walk that changes a phase holds the newest lease granted; every other walk remembers an older one |
| `PushesAreReviewed` | a command pushes only one commit with the reviewed content |
| `MergesAreReviewed` | auto-merge merges only that commit with CI passed on it (nobody commits by hand after a push) |
| `PullRequestsImplementRegister` | what publishing relies on of a run is what `RunRegister` allows |
| `StoreStaysWhole` | file and log hold what was committed, unless a swap was interrupted |
| `SyncedMeansExported` | a synced item was exported at its revision |
| `NoRollBack` | no import deletes a db-first item, takes it back or changes it without a new revision |
| `TranscriptsAreKept` | the diff and every transcript stay readable (no death in four named windows) |
| `ContextStaysVetted` | only what a promotion vetted enters the context of a coding agent |
| `DeprecationHolds` | a deprecated entry comes back only by an edit or an import that was asked for |
| `MigrationsLoseNothing` | migrations lose no row, whoever runs or interrupts them, and lead to the tables that `db stats` lists |
| `HitchInvariant`, `HitchTypeCorrect` | type correctness of a hitch and of what its drives remember |
| `BudgetsHold` | a budget is exceeded by at most the number of drives less one |
| `OnlyApprovalsRetire` | a blocker is retired by the jury or an approval of the newest run only, an operator's never |
| `PrsAreReviewed` | a run with a pull request is approved and its review was imported (one drive, consensus required) |
| `HitchRunsImplementRegister` | the runs that drives insert, lose and have decided move as `RunRegister` says |
| `HitchUsesTheLock` | what the drives do to the domain lock, dying and losing it included, is what `FencedLock` allows |

**The lock.** `LockInv` is the type invariant, `FencingOrder`, `HandleOwnsRow`, and
`CliKnowsRow`: between its SELECT and its UPDATE the operator's command knows a row that exists
and passed the filter. The last is what makes the operator's step preserve the rest. Each
operation either changes one row in place or replaces an expired row and appends one; two lemmas
(`InPlaceStep`, `AcquireStep`) carry the argument and every action is an instance. The refinement
needs `FencingOrder`: since the active row of a domain is the newest, the owner and token the
mapping reads off the table change for one domain at a time: a heartbeat is a `Renew`, every way
a row ends is an `End`, an acquire, over an expired row too, is a `Grant`, a tick is a `Lapse`.

**The clients of the lock.** `TokensOrderGrants` says once, of the abstract lock, what its users
build on. For a course the mapping is the identity and every action is one of the lock's or leaves
it alone. A walk gets a token only with its lease and otherwise keeps or forgets it
(`WalkRemembers`), so no walk remembers a token above the last and no two the same; with that
`NewestLeasesWrite` follows: a walk whose guard passed has the token of the lock, the last one
granted. For a hitch the number of runs is the token, since a grant comes with the insert of a
run; the proof needs `HeldForRun`, that while the lock is held there is a run.

**The register of runs.** `RunsImplementRegister` needs `Base`: a process writes only from where
it left its row, unless a forced cleanup or a verdict came in between, and is in `open` exactly
from its INSERT to its end. The other three modules see a row without its process, so `open` is
what they take the process to be: it may still write for a run under review, it has ended for a
pull request, and for a hitch it is the drives past their INSERT. Stating the register exposed an abstraction of
`PullRequests` that was wrong: there a run under publication could lose its approval to another
verdict. No command takes a verdict back, and a cleanup can take the worktree; both are now
modelled so, and the theorems about publishing hold with them.

**Runs.** Every step of the composition is a step of the lock or leaves it alone
(`NextIsLockStep`), so `LockInv` is inherited. `Base` adds where a process is in relation to its
lease and row. On top of it, each inductive relative to `Base`:

- `RerunInv`. `OneLeasedChild` is not inductive: nothing in it says why the second of two gated
  reruns cannot still hold its lease. `GateOrder` does: a sibling inserted under its lease since
  r passed the gate has a higher fencing token than r, because at the gate there was no sibling,
  and the sibling works in the parent's domain as r does (`TaskInParentsDomain`,
  `ChildInParentsDomain`). By `Fencing`, r's lease has then ended.
- `LateInv`. A late write is only counted when the lease row has ended, rows that ended stay
  ended, so every later check fails; one check may already have passed.
- `OrphanInv`. A process ends either normally, after it has persisted a final status
  (`FinalIsPersisted`: its memory is never ahead of its row), or through the recovery block,
  whose last step flips any row in flight, because a row the process works on still carries its
  own lease (`RowCarriesLease` of `Base`). It can also end from `createDbRunLog`, which is before
  the recovery block: then `OrphanInv` says that a row still in flight is as it was inserted.

**The worktree.** The gate evaluates the policy and the budget on the worktree with the coder's
index; what is proposed is the diff after that index was folded back to the base. The two diffs
differ: a path the coder unstaged is a deletion and an untracked file to the first and an edit to
the second. `NormalisedIsSeen` shows that the first saw every path of the second, whatever the
index held, and `SurfaceIsCounted` that it counted at least as many files, lines and deletions, if
no path of the surface is one that `ignore_untracked` matches (the exception `ReviewedIsVetted`
makes). Lines are sums over finite sets, so `RunWorkProofs` first shows that such a sum exists, may
take out any element first (`SumWithout`) and is bounded by two others when its terms are
(`SumBound`); a budget kept by the larger change is kept by the smaller one
(`SmallerKeepsTheBudget`). `GateInvariant` ties the evaluations to the tree: at the end of the
commands `view` is the diff of the worktree as it stands (or no diff), after the normalisation
`pre` is that of the same tree with some index. For the carry it says which paths are already the
parent's and which are still the base's, so that an empty rest means the whole surface.

**Reviews.** The arithmetic first. The library's induction theorems cannot be used here, so
`ReviewProofs` begins with an induction over *sets* of naturals, shows with it that the loop over
the requirements is a function (`LoopExists`) and reads its value as a quantified statement
(`BlockingStatusIs`); precedence and standing objections follow by counting, with finite sets of
voters mapped into one another. The commands share no lock, so the invariant `GovInv` holds for
each process what it knows between two steps (`Fits`: the verdict it carries is that of the row
it picked, or one that a person wrote, into the sidecar or as an override). That this survives
the others is shown once: every step of every process is one of six kinds of database step
(`WorldStep`) that leave decided rows alone. `NoBallotsLeftOut` then only looks at the one
transaction that decides by consensus (`TakenInv`); its hypothesis is `maxAge = NoAge`, since
older proposals are left out on purpose.

**The ledger.** `LedgerInv` says that a key has one row, that a row is worked on by one process,
that a process about to work is the first to do so, and that a row whose outcome is not written
is running or was disturbed by the repair. `AtMostOnce` is inductive with the first three. The
budget is then shown for the reservation, the only step that adds to a count; every other step
only lowers counts or touches disturbed rows.

For the refinement, a key is accepted by the reservation that inserts its row, and its process is
the one that owns it in `LedgerInv`; `StageMoves` shows that the stage of a key changes only with
a step of that process. The repair, which does not know whether a process lives, is a `GiveUp`
while the row is running, and the stale outcome that a living process then writes is a `Record`
or a `LeaveFailed`. A replayed answer changes nothing.

**The MCP tools.** The case analysis over the 86 tools is made once, over the two tables. `Fits` says of a tool and its handler what the answers need: whoever
shows rows is checked by the handler or names a row that the permission layer resolved; whoever
writes is a mutation, checked or resolved for the row it names, and a second row is always
checked. `ToolsFitHandlers` and `ToolsAreHandled` prove it of the registry. The rest is about
time: `LiveCall` says what a call was granted and survives while rows move under it, because a
handler that relies on the permission layer's resolution, or on the preview before the
confirmation, names a row of a table whose projects never change (`SettledHome`); workspaces and
operational entries, which do move, are checked by their handlers on every use.

**Workspaces.** `WorkspacesInv` follows each change through `workspace conflicts`: listed, to be
read, seen by the first of the two git reads of its worktree or certain to be seen by the second,
reported. The last but one is why a merge ends a change: what was committed, edited again and
merged between the two reads is missed, since `status` was read before the edit and the diff
after the merge. The instance of `operations` is too small for that; the proof found it, and TLC
confirms it with five moves of the agents and without the exception.

**Roadmap.** `RatificationHolds` is inductive by itself because the three comparisons of
`spec-gates.ts` compose: what does not widen twice in a row does not widen. For a walk,
`CourseInv` keeps an account of its report: one outcome for every phase it left, and between each
blocked one and the place where it stands either a root or the flag `subtreeBlocked`.

**Pull requests.** `PrInv` follows one commit: between the gates and the push nobody edits the
tree, so the first commit a command makes has the reviewed content, and a second is refused;
after the push the branch is settled; what a command carries to the merge is that commit, and CI
was seen to pass on it. The last part needs `~HandCommitsAfterPush`, because `existingPrResult`
takes the local tip for the reviewed head (section 5); the first does not.

**Stores.** `StoreInv`: what a process holds at each step, that an exclusive lock excludes, and
that file and log are the truth outside a swap. `BacklogInv`: every transaction on a row is one
of three kinds whatever the command read before, so shapes are all that has to be added.
`ArtifactsInv`: up to the sync every durable row has its file or its quarantine mark, and garbage
collection never meets a row that points to the body. It needs that no process dies in four
windows (`UnsafeToDie`: inside the export, inside the ingest of the gate, before the discard,
between the deletion of an object and its record), where a directory is half written, transcripts
are removed that bear no mark yet, or a row still says available. `KnowledgeInv`: a promotion is final and revisions are only appended, so
what a command learned stays true while it works; `DeprecationHolds` follows step by step.

**Migrations.** What a statement does to rows and names is proved for every database
(`CreateKeeps` to `MoveKeeps`). Most statements are `Calm`: they lose no kept row whatever the
tables hold. `CalmRun` carries this along a script, by induction over the execution that
`ScriptRuns` extracts from the recursive function. The five rebuilds and the move of older pull
requests are followed by hand (`RebuildAll`, `MoveStep`): a rebuild drops only tables that no
foreign key refers to (`Childless`), so the DROP deletes no rows of others, and the rows of the
table itself were copied. `ScriptKeeps` collects the 41 scripts. The invariant `SchemaInv` adds
the history: the versions applied are ours up to n and another branch's after that, the tables
are those of version n (`NamesAfter`), and a call that got past its checks, which are made once
before the loop, works on a history without another branch's version and is at most one version
ahead of it.

**The hitch.** Every action of a drive is one of sixteen kinds of step (`DriveKind`), an
operator's command one of two; the 21 rules of `decide` enter only through three lemmas
(`FixSaysBudget`, `ReviewSaysBudget`, `ReadySaysPassed`). `BudgetHolds` is not inductive, since a
drive that passed the gate will write its row whatever the budget says by then: `BudgetInv`
counts every drive past a gate as if its row were written, and a drive passes only while one
unit is left for itself. `RunInv` keeps the attempts of the drives apart (a coding attempt
belongs to one drive and has no run yet), from which the newest run never disappears and
`OnlyApprovalRetires` follows step by step. `PrHasItsReview` says more than the close looks at:
`closeAndPr` asks whether the consensus check is fresh, not which run it is about. `ReviewInv`
closes the gap: a passed check that nothing outdated except the attempt in progress, which may
still be discarded, is about the newest run. This needs a single drive. With two, TLC finds that
a drive may import the review of an older run, which makes the check fresh, while another has
decided a newer run and not yet imported it; the first then opens the pull request of the newer
run, whose findings the hitch has not seen.

**Only model-checked.** Liveness (`CrashedLeaseLapses`, `NoRottingRun`,
`SettlesUnlessAbandoned`, `LostDriveStops`) is out of the prover's reach; every invariant and action property of the passing runs is a
theorem. The refinements of `RunRegister`, `IdempotentWork` and, by the hitch and the course, of
`FencedLock` are theorems and not properties of the runs. No module declares a recursive
operator.

## 5. Findings

Two runs show a disagreement between the code and what a comment or document says of it.

- `hitch_wedge`. A coder process that dies after its attempt was recorded leaves a hitch that
  asks for the same review again and again without using up any budget, until an operator
  completes the attempt.
- `partial_scratch`. `ensureRunMaterialized` takes a run directory with `meta.json` and
  `review-decision.yaml` for a complete one. The export writes these two first and the rest
  after; the marker `.exporting` that would tell the two apart is written and never read. A
  review that dies in between leaves a directory the next one shows to its agent without the
  diff.

Other deviations that came up, described here and not stated as runs:

*Runs and reviews*

- The duplicate gate of a rerun and the INSERT are separated by an `await`, and the INSERT does
  not check the lease: when it is lost in between, both reruns insert a child
  (`workflow-runner.ts:138`, `:181`). `OneLeasedChild` is what does hold.
- A drive that found the table pending records that evaluation without looking at the status
  again and supersedes the final consensus row (`orchestrator-runners-review.ts:618`, against the
  comment at `reviewer-agent.ts:658`). `DecidingRowStands` is what does hold.
- `createDbRunLog` commits the INSERT and then exports (`run-log-db.ts:247`), which may throw also
  with file export off (`export-files.ts:120`, `:131`, `:317`). The call (`workflow-runner.ts:209`)
  is before the `try` (`:280`), so the row stays at `running` with its lease released and nothing
  is attempted. `cleanup` refuses such a row (`core/cleanup.ts:94`), a rerun of the same parent
  meets the duplicate gate, and `db doctor` reports it as `runtime.orphan_run`, not repairable
  (`db/doctor.ts:138`). A hitch records the attempt as failed without a run. `GivenUp` names the
  case; no comment or document speaks of it.
- A sidecar whose import fails for any reason while the run waits is promoted all the same
  (`review-processor.ts:345`), as its comment says: the verdict then has no row, and the comment
  at `:321`, that the audit trail stays canonical in the database, holds only when the insert
  succeeds. `VerdictHasItsSource` is what does hold.
- `forceFailFinalize` lacks `needs_review`, `failed-codex` and `failed-diff-collection` in its
  list of final statuses, so a run whose `run_completed` event meets a lost lease is flipped to
  `failed-internal-error` (`runs-finalize-repository.ts:60`, `workflow-runner.ts:341`).
- `cleanup --force` reads the status before the awaited git calls; a run that is approved
  meanwhile loses its worktree (`core/cleanup.ts:105`, `:173`).
- `maintenance cleanup` takes a worktree without `runs/<id>/meta.json` for an orphan. A db-first
  run with file export off never has that file, so the worktree of a run awaiting its review is
  removed (`core/maintenance.ts:27`, `:86`).
- An override whose process dies after the promotion is unaudited, and one that loses the race
  leaves a consensus row behind (`review-processor-paths.ts:96`).
- An archived proposal can be promoted in latest-proposal mode (`review-proposals.ts:152`;
  `docs/specs/db.md:934`), and a proposal overtaken between read and promotion as well.
- The change budget is evaded by a base-tracked path that matches `ignore_untracked` once it is
  taken out of the index (`docs/specs/workflow.md:311` describes the opposite intent).

*Operations and MCP*

- Two operators on one confirmation: a confirm that read the request before a reject committed
  overwrites the reject, and the tool runs (`confirmation.ts:274`; `docs/specs/cli.md:370`).
- A repair of the ledger under a living process gives two outcomes and frees a slot that is in
  use (`db/repair.ts:161`); an event that fails after the outcome turns succeeded into failed
  (`operation-runner.ts:155`); pending operations hold their slot for ever (`limits.ts:203`).
- The checks of the ops-knowledge and checkpoint tools precede the write on another connection,
  so `WritesStayInScope` is about the moment of authorisation. A read or dry-run tool listed
  under `requireConfirmation` runs unconfirmed through `tools/call` and is denied through
  `resources/read`. Rows without a project are reachable by restricted clients in `review.auto`,
  `review.process`, `rerun.start`, `backlog.run` and `backlog.update`.

*Hitch and course*

- A lease lost during a rerun discards the attempt as a transient failure, but the child run
  row stays, so the retry meets the duplicate gate and escalates (`orchestrator-runners.ts:230`).
- The catch of the orchestrator and `closeAndPr` write `escalated` or `closed` over an operator's
  `cancelled` (`orchestrator.ts:462`, `orchestrator-runners.ts:766`), though
  `syncHitchStatusForConvergence` treats terminal statuses as final.
- With two drives, one records consensus evidence for a run it picked before the other completed
  a newer one, and the newer run can be closed on it before its own review is imported:
  `PrHasItsReview` is a property of one drive. The slower of two drives may also find its gate
  denied and escalate a healthy hitch.
- `phase link-hitch` inserts after its checks: a spec ratified or tightened in between is not
  looked at again. `RatifiedSpecOnlyTightens` is about the spec itself, not about the links.

*Pull requests*

- For a pull request that exists already, `resolveReviewedHeadSha` takes the local tip for the
  reviewed commit. A commit made and pushed by hand after the harness pushed is that tip, so the
  merge is pinned to it (`pr-creator.ts:219`).
- `pr create` records `failed` over the `created` row of a concurrent call (`pr-creator.ts:526`).
- A salvage push leaves a commit with its own message; after a later approval `pr create` finds a
  message it does not accept and stays refused.

*Stores*

- A restore renames the new file over the database and then removes the old log; a crash in
  between leaves a log that the next connection replays (`db/maintenance.ts:189`). `StoreIsWhole`
  excludes this window by name (`SwapInterrupted`).
- Two exports of one backlog item in different statuses can remove each other's file and leave
  the item `synced` with none (`export-files.ts:454`, against `export-records.ts:103`).
  `SyncedAtItsRevision` is about the recorded revision only.
- An edit of knowledge does not bump `db_revision`; a second promoter may write its markdown
  after a deprecation; two rejects lose one entry of the sidecar, which only the file shows.

## 6. What is not modelled

Components with status `not_modelled` carry their reason in `PROJECT.json`. Within the modelled
ones:

- *Lock*: the doctor's release of expired leases (`db/repair.ts:39`).
- *Runs*: events other than `run_completed`, and artifacts other than through `RunArtifacts`.
- *DiffGate*: symbolic links and kinds of files, index flags, HEAD, parents with a pull request.
  A parent removed in the middle of a copy is excluded by the domain lock. A process a command
  leaves running could write after the last pass; commands are taken to have ended.
- *Reviews*: file export (off by default); archived and over-age proposals lie outside
  `NoBallotLeftOut`; votes of one refuter under one prompt are one vote in `ReviewGovernance`
  and several in `ConsensusBallot`.
- *Ledger and MCP*: the HTTP API as a caller, the in-memory rate limiter; `failOperation` is
  assumed to succeed. `McpTools` follows one call at a time and abstracts a row to its class and
  projects; the rest of what a handler does belongs to other modules.
- *Hitch*: Copilot review, `stopAtCloseReady`, the abort signal of a course;
  `facet_red_test`, `evidence_attached` and `finding_policy` conditions; near-duplicates,
  accepted risks, adopted pull requests, the P2 limit, `recoverDivergingSession`, configuration
  updates, close-check attempts; two writes in one millisecond; statements of another process
  inside a `withManagedDb` block; the jury's inside (any set of findings may be decided); when a
  consensus stalls is a choice after a pending cycle; `attempt complete` other than failing a
  running attempt. Auto-merge is in `PullRequests`.
- *Course*: reports, roll-ups for display, editing of the tree other than adding a phase; a
  driven hitch is a choice of outcomes.
- *Pull requests*: labels, text, adopted pull requests, the reviewer bots.
- *Workspaces*: a file that is committed, edited again and merged between the two git reads of
  its worktree, which `conflicts` may miss; clones, heartbeats, run worktrees; two harness commands at once. `recover`
  attaches a hitch by the agent's name, and `create`, `checkpoint` and `link` move an adopted
  row; `remove` deletes an adopted branch: modelled as the code does it, no property is about it.
- *Schema*: columns, indexes other than the one a migration can fail on, reviewer seeding, the
  legacy import; two branches that insert conflicting names after both passed the name check.
- *Database file*: rows of the backup catalogue.
- *Artifacts*: runs with file export on, legacy runs, two concurrent `review auto`, two blob tools
  at once, an object store that loses what it stored. In `stores` no process dies inside the export
  (that is `partial_scratch`), in the ingest of the gate that follows, which prunes rows, between
  the sync and the discard of untrusted outputs, which loses transcripts that were not marked, or
  between an object's deletion and the write that says so.
- *Backlog*: priorities, tags and texts; the file floor of an id and the import of a directory
  are one step each; moving a file that lies in two directories.
- *Knowledge*: `syncRun` is one step; filters of promote; an import without reset; a corrupt
  sidecar.

Some statements of an earlier version of this project were dropped in favour of deeper ones and
are no longer checked: the type invariants of the modules without proofs, one answer per key,
evidence of the right run, unforced cleanup only of final runs.

## 7. Plan

Done: every part of section 1 that changes shared state has a module; the lock implements its
abstract specification, the ledger and the four modules that move a run's status theirs; every
safety property of the runs is a theorem.

Next, in this order:

1. *Composition.* A hitch uses the lock and the register of runs as `RunExecution` implements
   them, but one at a time; show it for both together, and the same of a course's driven hitch.
2. *The inside of the jury*, the remaining close conditions, the HTTP API as a caller of the
   ledger, and the repairs of the doctor as steps of the components they repair.
