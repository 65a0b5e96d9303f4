--------------------------- MODULE AgentWorkspaces ---------------------------
(***************************************************************************)
(* Agent workspaces: git worktrees that agents edit, commit and switch at  *)
(* will (workspace/agent-workspace.ts, git-worktree.ts), the advisory rows *)
(* the harness keeps about them (db/repositories/workspaces.ts), and the   *)
(* `harness workspace` commands (cli/workspace.ts), each a series of git   *)
(* and database reads the agents' own git commands interleave with.        *)
(*                                                                         *)
(* git is the source of truth: rows are reconciled by path, an agent is    *)
(* named by its branch first.  One harness command runs at a time, next to *)
(* orchestrators that link hitches and to the agents.  The main checkout   *)
(* is never a path of this module; worktrees are listed in path order.     *)
(***************************************************************************)
EXTENDS Naturals, Sequences, FiniteSets

CONSTANTS AgentOrder,      \* agent names as ORDER BY agent sorts them
          PathOrder,       \* worktree paths as git lists them
          HomePath,        \* where `create` puts each agent's worktree
          VerifyPath,      \* where `verify-pr` puts its detached worktree
          OtherBranches,   \* branches that are not agent/<name>
          SourceFiles, LinkedHitches,
          HitchDecision,   \* convergence decision of each hitch, or "missing"
          MaxMoves         \* git commands and links beside the harness command

VARIABLES trees,       \* the linked worktrees git knows
          branches,    \* the local branches
          ahead,       \* files a branch has changed and committed since the base
          baseFound,   \* the base ref resolves
          wsRows,      \* workspaces rows, at most one per agent
          cmd,         \* the harness command at work
          moves,       \* agents' steps so far
          steady       \* changes present ever since `conflicts` began

workspaceVars == <<trees, branches, ahead, baseFound, wsRows, cmd, moves, steady>>

gitVars == <<trees, branches, ahead, baseFound>>

WsAgents == {AgentOrder[i] : i \in DOMAIN AgentOrder}
WsPaths == {PathOrder[i] : i \in DOMAIN PathOrder}

\* agentBranch.
AgentBranch(a) == "agent/" \o a
AgentBranches == {AgentBranch(a) : a \in WsAgents}
WsBranches == AgentBranches \cup OtherBranches

ASSUME WorkspacesAssumption ==
    /\ HomePath \in [WsAgents -> WsPaths] /\ VerifyPath \in WsPaths /\ MaxMoves \in Nat
    /\ {"absent", "detached"} \cap WsBranches = {}

\* agentNameFromBranch: no name, or one.
AgentNameFromBranch(b) == {a \in WsAgents : AgentBranch(a) = b}

IdleCmd == [op |-> "idle", at |-> "idle", agent |-> "none", rows |-> <<>>,
            todo |-> {}, lines |-> {}, read |-> {}, target |-> {}, steps |-> {}]

-----------------------------------------------------------------------------
(* git, and what the agents do with it.                                    *)

Absent == [branch |-> "absent", dirty |-> {}]

\* listWorktrees, the main one left out.
ListWorktrees == {p \in WsPaths : trees[p] # Absent}

CheckedOut(b) == \E p \in WsPaths : trees[p].branch = b

\* listAgentWorkspaces, for one agent.
ListAgentWorkspace(a) ==
    {[path |-> p, branch |-> trees[p].branch, agent |-> a] :
        p \in {q \in ListWorktrees : trees[q].branch = AgentBranch(a)}}

\* git worktree add: the path and the branch must both be free.
WorktreeAdd(p, b) ==
    /\ trees[p] = Absent /\ ~CheckedOut(b)
    /\ trees' = [trees EXCEPT ![p] = [branch |-> b, dirty |-> {}]]

\* git diff base...branch, for a base that resolves.
CommittedSinceBase(b) == IF baseFound /\ b \in WsBranches THEN ahead[b] ELSE {}

\* What a worktree has changed: on disk, or committed on its branch.
Changed(p) == trees[p].dirty \cup CommittedSinceBase(trees[p].branch)

\* Only what stays changed in a tree that stays on its branch is steady; a
\* merge ends what it merged, even if the file is edited again.
KeepSteady == steady' = {c \in steady : /\ trees'[c[1]].branch = trees[c[1]].branch
                                        /\ c[2] \in Changed(c[1])'}

AgentEdits(p, f) ==
    /\ p \in ListWorktrees /\ f \notin trees[p].dirty
    /\ trees' = [trees EXCEPT ![p].dirty = @ \cup {f}]
    /\ UNCHANGED <<branches, ahead, baseFound, wsRows, cmd>> /\ KeepSteady

AgentCommits(p) ==
    /\ p \in ListWorktrees /\ trees[p].branch \in WsBranches /\ trees[p].dirty # {}
    /\ ahead' = [ahead EXCEPT ![trees[p].branch] = @ \cup trees[p].dirty]
    /\ trees' = [trees EXCEPT ![p].dirty = {}]
    /\ UNCHANGED <<branches, baseFound, wsRows, cmd>> /\ KeepSteady

\* git switch carries uncommitted changes along; it also detaches.
AgentSwitches(p, b) ==
    /\ p \in ListWorktrees /\ b # trees[p].branch
    /\ b = "detached" \/ (b \in branches /\ ~CheckedOut(b))
    /\ trees' = [trees EXCEPT ![p].branch = b]
    /\ UNCHANGED <<branches, ahead, baseFound, wsRows, cmd>> /\ KeepSteady

\* A worktree added or dropped by hand, without the harness.
UserAddsTree(p, b) ==
    /\ WorktreeAdd(p, b)
    /\ branches' = branches \cup {b}
    /\ UNCHANGED <<ahead, baseFound, wsRows, cmd>> /\ KeepSteady

UserDropsTree(p) ==
    /\ p \in ListWorktrees
    /\ trees' = [trees EXCEPT ![p] = Absent]
    /\ UNCHANGED <<branches, ahead, baseFound, wsRows, cmd>> /\ KeepSteady

BranchMerged(b) ==
    /\ b \in branches /\ ahead[b] # {} /\ baseFound
    /\ ahead' = [ahead EXCEPT ![b] = {}]
    /\ steady' = {c \in steady : trees[c[1]].branch = b => c[2] \notin ahead[b]}
    /\ UNCHANGED <<trees, branches, baseFound, wsRows, cmd>>

-----------------------------------------------------------------------------
(* Rows and their reconciliation with git.                                 *)

\* WorkspaceRepository.upsert: the links of an existing row stay.
Upsert(rows, a, ws) ==
    [rows EXCEPT ![a] =
        {[path |-> ws.path, hitch |-> UNION {r.hitch : r \in @}]}]

\* WorkspaceRepository.linkHitch.
LinkHitch(rows, a, h) ==
    [rows EXCEPT ![a] = {[r EXCEPT !.hitch = {h}] : r \in @}]

\* recordByPath: rows are set in agent order, so the last of a path stands.
RecordByPath(rows, p) ==
    LET at == {i \in DOMAIN AgentOrder : \E r \in rows[AgentOrder[i]] : r.path = p}
    IN  {AgentOrder[i] : i \in {j \in at : \A k \in at : k <= j}}

\* reconcileWorkspaces: the branch names the agent, else the row of the path.
ReconcileAgent(rows, p) ==
    LET named == AgentNameFromBranch(trees[p].branch)
    IN  IF named # {} THEN named ELSE RecordByPath(rows, p)

ReconcileLive(rows) ==
    UNION {{[path |-> p, branch |-> trees[p].branch, agent |-> a] :
               a \in ReconcileAgent(rows, p)} :
           p \in {q \in ListWorktrees : trees[q].branch # "detached"}}

ReconcileStale(rows) ==
    {a \in WsAgents : \E r \in rows[a] : r.path \notin ListWorktrees}

\* The first of the list.
FirstOf(live) ==
    {w \in live : \A v \in live :
        \A i, j \in DOMAIN PathOrder :
            PathOrder[i] = w.path /\ PathOrder[j] = v.path => i <= j}

\* resolveLiveWorkspace.
ResolveLiveWorkspace(rows, a) == FirstOf({w \in ReconcileLive(rows) : w.agent = a})

\* linkAgentWorkspaceToHitch, from an orchestrator run inside the tree at p.
LinkAgentWorkspaceToHitch(p, h) ==
    /\ p \in ListWorktrees /\ trees[p].branch # "detached"
    /\ \E a \in ReconcileAgent(wsRows, p) :
        wsRows' = LinkHitch(Upsert(wsRows, a, [path |-> p]), a, h)
    /\ UNCHANGED <<gitVars, cmd, steady>>

-----------------------------------------------------------------------------
(* `workspace create`, `adopt` and `verify-pr`.                            *)

Answered(c) == cmd' = [c EXCEPT !.at = "answered"]
Refused(c) == cmd' = [IdleCmd EXCEPT !.op = c.op, !.agent = c.agent, !.at = "failed"]

Begin(op, a, at) ==
    /\ cmd.op = "idle"
    /\ cmd' = [IdleCmd EXCEPT !.op = op, !.agent = a, !.at = at]
    /\ UNCHANGED <<gitVars, wsRows>> /\ steady' = {}

\* A second create finds the agent's worktree, wherever it is.
CreateList ==
    /\ cmd.at = "create-list"
    /\ LET found == ListAgentWorkspace(cmd.agent)
       IN  cmd' = [cmd EXCEPT !.at = IF found = {} THEN "create-branch" ELSE "create-upsert",
                              !.target = found]
    /\ UNCHANGED <<gitVars, wsRows, steady>>

CreateBranchExists ==
    /\ cmd.at = "create-branch"
    /\ cmd' = [cmd EXCEPT !.at = IF AgentBranch(cmd.agent) \in branches
                                 THEN "create-add" ELSE "create-add-b"]
    /\ UNCHANGED <<gitVars, wsRows, steady>>

CreateAdd ==
    /\ cmd.at \in {"create-add", "create-add-b"}
    /\ (cmd.at = "create-add") <=> (AgentBranch(cmd.agent) \in branches)
    /\ WorktreeAdd(HomePath[cmd.agent], AgentBranch(cmd.agent))
    /\ branches' = branches \cup {AgentBranch(cmd.agent)}
    /\ cmd' = [cmd EXCEPT !.at = "create-relist"]
    /\ UNCHANGED <<ahead, baseFound, wsRows>> /\ KeepSteady

\* git refuses, or the directory cannot hold symbolic links.
CreateAddFails ==
    /\ cmd.at \in {"create-add", "create-add-b"}
    /\ Refused(cmd)
    /\ UNCHANGED <<gitVars, wsRows, steady>>

CreateRelist ==
    /\ cmd.at = "create-relist"
    /\ LET found == ListAgentWorkspace(cmd.agent)
       IN  IF found = {} THEN Refused(cmd)
           ELSE cmd' = [cmd EXCEPT !.at = "create-upsert", !.target = found]
    /\ UNCHANGED <<gitVars, wsRows, steady>>

CreateUpsert ==
    /\ cmd.at = "create-upsert"
    /\ \E ws \in cmd.target : wsRows' = Upsert(wsRows, cmd.agent, ws)
    /\ Answered([cmd EXCEPT !.target = {}])
    /\ UNCHANGED <<gitVars, steady>>

\* adoptAgentWorkspace: an existing worktree on any branch.
AdoptList(p) ==
    /\ cmd.at = "adopt-list"
    /\ IF p \in ListWorktrees /\ trees[p].branch # "detached"
       THEN cmd' = [cmd EXCEPT !.at = "adopt-rows",
                    !.target = {[path |-> p, branch |-> trees[p].branch, agent |-> cmd.agent]}]
       ELSE Refused(cmd)
    /\ UNCHANGED <<gitVars, wsRows, steady>>

\* One agent to a path, one path to an agent.
AdoptRows ==
    /\ cmd.at = "adopt-rows"
    /\ \E ws \in cmd.target :
        IF /\ \A a \in WsAgents \ {cmd.agent} : \A r \in wsRows[a] : r.path # ws.path
           /\ \A r \in wsRows[cmd.agent] : r.path = ws.path
        THEN wsRows' = Upsert(wsRows, cmd.agent, ws) /\ Answered([cmd EXCEPT !.target = {}])
        ELSE wsRows' = wsRows /\ Refused(cmd)
    /\ UNCHANGED <<gitVars, steady>>

\* verify-pr: fetch the pull request's head and check it out without a branch.
VerifyPr ==
    /\ cmd.at = "verify"
    /\ \/ /\ WorktreeAdd(VerifyPath, "detached") /\ Answered(cmd)
       \/ trees' = trees /\ Refused(cmd)
    /\ UNCHANGED <<branches, ahead, baseFound, wsRows>> /\ KeepSteady

\* verify-pr --rm: removeDetachedWorktree forces.
RemoveDetachedWorktree ==
    /\ cmd.at = "verify-rm"
    /\ IF VerifyPath \in ListWorktrees
       THEN trees' = [trees EXCEPT ![VerifyPath] = Absent] /\ Answered(cmd)
       ELSE trees' = trees /\ Refused(cmd)
    /\ UNCHANGED <<branches, ahead, baseFound, wsRows>> /\ KeepSteady

-----------------------------------------------------------------------------
(* The commands that read rows, then worktrees, then each worktree.        *)

Readers == {"list", "status", "conflicts", "inspect", "checkpoint", "recover", "remove"}
OneAgent == {"inspect", "checkpoint", "recover", "remove"}

\* listByRepo; for `status`, readWorkspaceStatusData with the hitches.
\* The changes that are there when `conflicts` begins are followed from here.
ReadRows(op, a) ==
    /\ cmd.op = "idle"
    /\ cmd' = [IdleCmd EXCEPT !.op = op, !.agent = a, !.at = "reconcile", !.rows = wsRows]
    /\ steady' = IF op # "conflicts" THEN {}
                 ELSE {c \in WsPaths \X SourceFiles : c[2] \in Changed(c[1])
                            /\ \E w \in ReconcileLive(wsRows) : w.path = c[1]}
    /\ UNCHANGED <<gitVars, wsRows>>

\* The mutant's order: the committed difference first.
DiffBeforeStatus == <<"diff", "status">>

\* changedFilesForWorkspace reads the uncommitted files, then the committed
\* difference to the base.
ReadOrder == <<"status", "diff">>

Reconcile ==
    /\ cmd.at = "reconcile"
    /\ LET live == IF cmd.op \in OneAgent THEN ResolveLiveWorkspace(cmd.rows, cmd.agent)
                   ELSE ReconcileLive(cmd.rows)
       IN  CASE cmd.op = "remove" ->
                  cmd' = [cmd EXCEPT !.at = "remove-tree", !.target = live]
             [] cmd.op \in OneAgent /\ live = {} -> Refused(cmd)
             [] cmd.op = "list" ->
                  Answered([cmd EXCEPT !.lines = {[ws |-> w, files |-> {}, ahead |-> FALSE] : w \in live}])
             [] OTHER -> cmd' = [cmd EXCEPT !.at = "inspect", !.todo = live]
    /\ UNCHANGED <<gitVars, wsRows, steady>>

\* The two git reads of one worktree; `read` holds what the first one saw.
ReadTree(which, w) ==
    IF which = "status" THEN trees[w.path].dirty ELSE CommittedSinceBase(w.branch)

InspectFirst ==
    /\ cmd.at = "inspect" /\ cmd.todo # {}
    /\ \E w \in FirstOf(cmd.todo) :
        CASE w.path \in ListWorktrees ->
               cmd' = [cmd EXCEPT !.at = "inspect-second", !.target = {w},
                                  !.read = ReadTree(ReadOrder[1], w)]
          [] w.path \notin ListWorktrees /\ cmd.op = "status" ->
               cmd' = [cmd EXCEPT !.todo = @ \ {w}]     \* worktreeBelongsToRepo
          [] OTHER -> Refused(cmd)
    /\ UNCHANGED <<gitVars, wsRows, steady>>

InspectSecond ==
    /\ cmd.at = "inspect-second"
    /\ \E w \in cmd.target :
        LET second == ReadTree(ReadOrder[2], w)
            line == [ws |-> w,
                     files |-> IF cmd.op = "conflicts" THEN cmd.read \cup second ELSE cmd.read,
                     ahead |-> cmd.op # "conflicts" /\ second # {}]
        IN  IF w.path \notin ListWorktrees THEN Refused(cmd)
            ELSE cmd' = [cmd EXCEPT !.at = "inspect", !.todo = @ \ {w}, !.target = {},
                                    !.read = {}, !.lines = @ \cup {line}]
    /\ UNCHANGED <<gitVars, wsRows, steady>>

InspectDone ==
    /\ cmd.at = "inspect" /\ cmd.todo = {}
    /\ IF cmd.op \in {"checkpoint", "recover"} THEN cmd' = [cmd EXCEPT !.at = cmd.op]
       ELSE Answered(cmd)
    /\ UNCHANGED <<gitVars, wsRows, steady>>

\* findWorkspaceConflicts: the overlaps of every two entries.
FindWorkspaceConflicts(lines) ==
    {<<t[1].ws.agent, t[2].ws.agent, t[3]>> :
        t \in {u \in lines \X lines \X SourceFiles :
            u[1].ws.path # u[2].ws.path /\ u[3] \in u[1].files /\ u[3] \in u[2].files}}

\* What `workspace conflicts` prints.
ConflictsAnswer == FindWorkspaceConflicts(cmd.lines)

\* The row shown with a live worktree is the row recorded at its path.
RowShown(rows, w) == UNION {rows[a] : a \in RecordByPath(rows, w.path)}

DecisionOf(hs) == {HitchDecision[h] : h \in hs}

\* progressLabel.
ProgressLabel(stale, decision, dirty, isAhead) ==
    CASE stale -> "stale"
      [] ~stale /\ "missing" \in decision -> "hitch-missing"
      [] ~stale /\ "escalate" \in decision -> "blocked"
      [] ~stale /\ "needs_fix" \in decision -> "needs-work"
      [] ~stale /\ "close_ready" \in decision -> "ready-to-close"
      [] ~stale /\ "continue" \in decision -> "in-progress"
      [] OTHER -> CASE dirty -> "dirty"
                    [] ~dirty /\ ~baseFound -> "base-unknown"
                    [] ~dirty /\ baseFound /\ isAhead -> "ahead"
                    [] OTHER -> "clean"

\* assembleWorkspaceStatuses: the live worktrees, then the stale rows.
StatusLines ==
    {[path |-> l.ws.path, hitch |-> UNION {r.hitch : r \in RowShown(cmd.rows, l.ws)},
      label |-> ProgressLabel(FALSE, DecisionOf(UNION {r.hitch : r \in RowShown(cmd.rows, l.ws)}),
                              l.files # {}, l.ahead)] : l \in cmd.lines}
    \cup UNION {{[path |-> r.path, hitch |-> r.hitch,
                  label |-> ProgressLabel(TRUE, {}, FALSE, FALSE)] : r \in cmd.rows[a]} :
                a \in ReconcileStale(cmd.rows)}

\* computeNextSteps.
NextSteps(line, hs) ==
    {s \in {"commit", "push", "relink", "run-coder", "run-review", "close", "escalate"} :
        CASE s = "commit" -> line.files # {}
          [] s = "push" -> line.ahead
          [] s = "relink" -> "missing" \in DecisionOf(hs)
          [] s = "run-coder" -> "needs_fix" \in DecisionOf(hs)
          [] s = "run-review" -> "continue" \in DecisionOf(hs)
          [] s = "close" -> "close_ready" \in DecisionOf(hs)
          [] OTHER -> "escalate" \in DecisionOf(hs)}

\* `checkpoint`: upsert and link the hitch named on the command line; the saved
\* note is read by nothing.
Checkpoint(hs) ==
    /\ cmd.at = "checkpoint"
    /\ \E l \in cmd.lines :
        LET row == Upsert(wsRows, cmd.agent, l.ws)
        IN  wsRows' = IF hs = {} THEN row ELSE LinkHitch(row, cmd.agent, CHOOSE h \in hs : TRUE)
    /\ Answered([cmd EXCEPT !.rows = <<>>, !.lines = {}])
    /\ UNCHANGED <<gitVars, steady>>

\* `recover` takes the row of the agent's name, not of the path.
Recover ==
    /\ cmd.at = "recover"
    /\ \E l \in cmd.lines :
        Answered([cmd EXCEPT !.rows = <<>>, !.lines = {},
                  !.steps = NextSteps(l, UNION {r.hitch : r \in wsRows[cmd.agent]})])
    /\ UNCHANGED <<gitVars, wsRows, steady>>

-----------------------------------------------------------------------------
(* `workspace remove`: the worktree, the branch, the row.                  *)

\* What was resolved, or the agent/<name> worktree there is by now.
RemovalTarget == IF cmd.target # {} THEN cmd.target ELSE ListAgentWorkspace(cmd.agent)

RemoveTree(force) ==
    /\ cmd.at = "remove-tree"
    /\ IF RemovalTarget = {}
       THEN trees' = trees /\ cmd' = [cmd EXCEPT !.at = "remove-row"]
       ELSE \E w \in RemovalTarget :
              IF w.path \in ListWorktrees /\ (force \/ trees[w.path].dirty = {})
              THEN /\ trees' = [trees EXCEPT ![w.path] = Absent]
                   /\ cmd' = [cmd EXCEPT !.at = "remove-branch", !.target = {w}]
              ELSE trees' = trees /\ Refused(cmd)
    /\ UNCHANGED <<branches, ahead, baseFound, wsRows>> /\ KeepSteady

\* branch -D, best effort: git keeps a branch that is checked out.
RemoveBranch(keepBranch) ==
    /\ cmd.at = "remove-branch"
    /\ \E w \in cmd.target :
        IF keepBranch \/ w.branch \notin branches \/ CheckedOut(w.branch)
        THEN UNCHANGED <<branches, ahead>>
        ELSE /\ branches' = branches \ {w.branch}
             /\ ahead' = [ahead EXCEPT ![w.branch] = {}]
    /\ cmd' = [cmd EXCEPT !.at = "remove-row", !.target = {}]
    /\ UNCHANGED <<trees, baseFound, wsRows>> /\ KeepSteady

RemoveRow ==
    /\ cmd.at = "remove-row"
    /\ wsRows' = [wsRows EXCEPT ![cmd.agent] = {}]
    /\ Answered([cmd EXCEPT !.rows = <<>>])
    /\ UNCHANGED <<gitVars, steady>>

CommandEnds ==
    /\ cmd.at \in {"answered", "failed"}
    /\ cmd' = IdleCmd /\ steady' = {}
    /\ UNCHANGED <<gitVars, wsRows>>

-----------------------------------------------------------------------------

WorkspacesInit ==
    /\ trees = [p \in WsPaths |-> Absent]
    /\ branches = OtherBranches
    /\ ahead = [b \in WsBranches |-> {}]
    /\ baseFound \in BOOLEAN
    /\ wsRows = [a \in WsAgents |-> {}]
    /\ moves = 0
    /\ cmd = IdleCmd
    /\ steady = {}

AgentsNext ==
    /\ moves < MaxMoves /\ moves' = moves + 1
    /\ \/ \E p \in WsPaths, f \in SourceFiles : AgentEdits(p, f)
       \/ \E p \in WsPaths : AgentCommits(p) \/ UserDropsTree(p)
       \/ \E p \in WsPaths, b \in WsBranches \cup {"detached"} : AgentSwitches(p, b)
       \/ \E p \in WsPaths, b \in WsBranches : UserAddsTree(p, b)
       \/ \E b \in WsBranches : BranchMerged(b)
       \/ \E p \in WsPaths, h \in LinkedHitches : LinkAgentWorkspaceToHitch(p, h)

CommandNext ==
    \/ \E a \in WsAgents : Begin("create", a, "create-list") \/ Begin("adopt", a, "adopt-list")
    \/ Begin("verify", "none", "verify") \/ Begin("verify", "none", "verify-rm")
    \/ \E op \in Readers : \E a \in IF op \in OneAgent THEN WsAgents ELSE {"none"} : ReadRows(op, a)
    \/ CreateList \/ CreateBranchExists \/ CreateAdd \/ CreateAddFails
    \/ CreateRelist \/ CreateUpsert
    \/ \E p \in WsPaths : AdoptList(p)
    \/ AdoptRows \/ VerifyPr \/ RemoveDetachedWorktree
    \/ Reconcile \/ InspectFirst \/ InspectSecond \/ InspectDone
    \/ \E hs \in {{}} \cup {{h} : h \in LinkedHitches} : Checkpoint(hs)
    \/ Recover \/ RemoveRow \/ CommandEnds
    \/ \E force \in BOOLEAN : RemoveTree(force)
    \/ \E keepBranch \in BOOLEAN : RemoveBranch(keepBranch)

WorkspacesNext == AgentsNext \/ (CommandNext /\ UNCHANGED moves)

WorkspacesSpec == WorkspacesInit /\ [][WorkspacesNext]_workspaceVars

-----------------------------------------------------------------------------

(* When `workspace conflicts` answers, every file that two live workspaces *)
(* had both changed all the while, uncommitted or committed, is reported   *)
(* for the two of them, however their agents commit meanwhile and even     *)
(* when both answer to one agent name (cli/workspace.ts, conflicts).  What *)
(* is committed, edited again and merged between the two git reads of its  *)
(* worktree may be missed, so a merge ends a change.                       *)
OverlapIsReported ==
    cmd.op = "conflicts" /\ cmd.at = "answered" =>
        \A c, d \in steady :
            c[1] # d[1] /\ c[2] = d[2] =>
                \E x, y \in cmd.lines :
                    /\ x.ws.path = c[1] /\ y.ws.path = d[1]
                    /\ <<x.ws.agent, y.ws.agent, c[2]>> \in ConflictsAnswer

(* A hitch that `workspace status` shows with a worktree was linked by a   *)
(* row recorded at that very path: two worktrees that answer to one agent  *)
(* name never lend each other their hitch (workspace-reconcile.ts).        *)
HitchShownAtItsPath ==
    cmd.op = "status" /\ cmd.at = "answered" =>
        \A l \in StatusLines : \A h \in l.hitch :
            \E a \in WsAgents : \E r \in cmd.rows[a] : r.path = l.path /\ h \in r.hitch

(* What the reading commands answer is true of the worktrees, although each *)
(* of them runs several git commands while agents work.                    *)
AnswersFitTheTrees == OverlapIsReported /\ HitchShownAtItsPath
=============================================================================
