------------------------------ MODULE McpTools ------------------------------
(***************************************************************************)
(* What an MCP client may see and change (src/src/mcp/registry, server.ts,  *)
(* security/permissions.ts and the handlers in src/src/mcp/tools).          *)
(*                                                                         *)
(* A client is configured with a mode, lists of operations and a list of    *)
(* projects.  A call passes two layers: the server resolves the project the *)
(* call is about (from its arguments or from the row it names) and decides, *)
(* then the handler, on a connection of its own, may check again.  The      *)
(* layers differ: "no project" is allowed by the first and refused by most  *)
(* handlers of the second.  Confirmed requests come back later and are      *)
(* resolved and decided again; the workspace tools leave the database       *)
(* between their check and their answer to run git.                         *)
(*                                                                         *)
(* Rows are told apart by their class and their projects only, so a row a   *)
(* call creates is like one that exists: the log of the call records its    *)
(* class and project.  What else a handler does belongs to other modules.   *)
(* One call is followed at a time, from its arrival to the answer or, for a *)
(* confirmed one, to the confirmation; calls of other clients matter to it  *)
(* through the links and projects they change, which any step may do.       *)
(***************************************************************************)
EXTENDS Naturals, FiniteSets

CONSTANTS
    McpRows,            \* rows of the database a call can name
    NoRow,              \* an argument that is not given
    ClassOf,            \* the table of a row
    InitialHome,        \* the projects of a row; {} if it has none
    InitialLink,        \* the hitch a workspace is linked to, or NoRow
    Clients,            \* client configurations
    Mode,               \* clients[].mode, else defaultMode
    AllowedProjects,    \* allowedProjects; {} means every project
    AllowedOperations, DeniedOperations, RequireConfirmation

VARIABLES
    home,           \* [ops row -> its projects]: the rows whose project a write moves
    link,           \* [workspace row -> hitch row or NoRow]
    request         \* one call, until it is answered or its confirmation lapses

mcpVars == <<home, link, request>>

Unresolved == {"__mcp_unresolved__"}    \* no project has this name

RowsOf(class) == {r \in McpRows : ClassOf[r] = class}

ASSUME McpAssumption ==
    /\ NoRow \notin McpRows /\ RowsOf("none") = {}
    /\ InitialLink \in [RowsOf("workspace") -> RowsOf("hitch") \cup {NoRow}]
    /\ \A c \in Clients : Unresolved \cap AllowedProjects[c] = {}

\* The projects of a row; a workspace has those of its hitch.
HomeOf(r) == IF r \in DOMAIN link
               THEN IF link[r] = NoRow THEN {} ELSE InitialHome[link[r]]
               ELSE IF r \in DOMAIN home THEN home[r] ELSE InitialHome[r]

Restricted(c) == AllowedProjects[c] # {}

-----------------------------------------------------------------------------
(* The registry: kind, how the project of a call is resolved for the        *)
(* permission, and the class of the row the arguments name.                 *)

Tools(kind, scope, names, tools) ==
    [name: tools, kind: {kind}, scope: {scope}, names: {names}]

ProjectReadTools ==
    Tools("read", "none", "none", {"project.list"})
    \cup Tools("read", "args", "project", {"project.get", "project.inspect",
                                   "domain.list", "policy.get_effective"})
    \cup Tools("read", "none", "snapshot", {"policy.snapshot.get"})

RunReadTools ==
    Tools("read", "args", "project", {"run.list", "review.queue"})
    \cup Tools("read", "row", "run", {"run.get", "run.timeline", "run.artifacts",
                                "review.proposals", "review.consensus"})
    \cup Tools("read", "none", "run", {"run.artifact.get"})

CatalogReadTools ==
    Tools("read", "args", "project", {"backlog.list", "knowledge.search",
                                      "ops_knowledge.search"})
    \cup Tools("read", "row", "backlog", {"backlog.get"})
    \cup Tools("read", "row", "knowledge", {"knowledge.get"})
    \cup Tools("read", "row", "ops", {"ops_knowledge.get"})

OpsWriteTools ==
    Tools("mutation", "args", "project", {"ops_knowledge.record"})
    \cup Tools("mutation", "row", "ops", {"ops_knowledge.deprecate"})

SystemReadTools ==
    Tools("read", "none", "none", {"db.status", "doctor.summary", "release.plan",
                                   "operation.list"})
    \cup Tools("read", "none", "project", {"inbox", "metrics"})
    \cup Tools("read", "none", "operation", {"operation.get"})

HitchReadTools ==
    Tools("read", "args", "project", {"hitch.list"})
    \cup Tools("read", "owned", "hitch",
               {"hitch.get", "hitch.status", "hitch.findings", "hitch.decisions"})

DryRunTools ==
    Tools("dry-run", "args", "project", {"project.check", "run.dry_run"})
    \cup Tools("dry-run", "row", "run", {"cleanup.dry_run", "pr.preview"})
    \cup Tools("dry-run", "none", "none",
               {"db.repair.dry_run", "db.archive.preview",
                "db.migrate_blobs.preview", "db.gc_blobs.preview"})

RunMutationTools ==
    Tools("mutation", "args", "project", {"run.start"})
    \cup Tools("mutation", "row", "run", {"review.auto", "rerun.start"})
    \cup Tools("mutation", "owned", "hitch", {"hitch.orchestrate"})

BacklogMutationTools ==
    Tools("mutation", "args", "project", {"backlog.create"})
    \cup Tools("mutation", "row", "backlog", {"backlog.run", "backlog.update"})

HitchMutationTools ==
    Tools("mutation", "args", "project", {"hitch.start"})
    \cup Tools("mutation", "owned", "hitch",
               {"hitch.record_findings", "hitch.record_close_check",
                "hitch.check_convergence"})
    \cup Tools("mutation", "owned", "finding",
               {"hitch.classify_finding", "hitch.mark_finding_fixed",
                "hitch.defer_finding"})

KnowledgeDecisionTools ==
    Tools("mutation", "owned", "candidate", {"knowledge.promote", "knowledge.reject"})

DangerousRunTools ==
    Tools("dangerous", "row", "run", {"review.process", "cleanup.apply", "pr.create"})

DangerousHitchAndDbTools ==
    Tools("dangerous", "owned", "hitch",
          {"hitch.close", "hitch.cancel", "hitch.expand_scope"})
    \cup Tools("dangerous", "finding", "doctor", {"db.repair.apply"})
    \cup Tools("dangerous", "none", "none",
               {"db.archive.apply", "db.migrate_blobs.apply", "db.gc_blobs.apply"})

CourseTools ==
    Tools("read", "args", "project", {"course.list"})
    \cup Tools("read", "owned", "course", {"course.get", "course.status", "phase.list"})
    \cup Tools("read", "owned", "phase", {"phase.get"})
    \cup Tools("mutation", "create", "project", {"course.create"})
    \cup Tools("mutation", "owned", "course", {"course.orchestrate"})

PhaseTools ==
    Tools("mutation", "ownedBoth", "course", {"phase.add"})
    \cup Tools("mutation", "ownedBoth", "phase", {"phase.link_hitch"})
    \cup Tools("mutation", "owned", "phase",
               {"phase.update", "phase.ratify", "phase.start_hitch"})

WorkspaceTools ==
    Tools("read", "none", "none", {"workspace.list"})
    \cup Tools("read", "none", "workspace",
               {"workspace.status", "workspace.inspect", "workspace.conflicts",
                "workspace.recover"})
    \cup Tools("mutation", "none", "workspace", {"workspace.checkpoint"})

McpToolDefinitions ==
    ProjectReadTools \cup RunReadTools \cup CatalogReadTools \cup OpsWriteTools
    \cup SystemReadTools \cup HitchReadTools \cup DryRunTools
    \cup RunMutationTools \cup BacklogMutationTools \cup HitchMutationTools
    \cup KnowledgeDecisionTools \cup DangerousRunTools
    \cup DangerousHitchAndDbTools \cup CourseTools \cup PhaseTools
    \cup WorkspaceTools

-----------------------------------------------------------------------------
(* Resolving the project of a call for the permission.                     *)

ResolveFromArgs(x) == IF x = NoRow THEN {} ELSE HomeOf(x)

\* Runs, backlog items and knowledge entries: a row without a project is
\* resolved to "no project".
ResolveRowProject(c, x) == IF Restricted(c) THEN HomeOf(x) ELSE {}

\* Hitches, findings and candidates, courses and phases: a row without a
\* project is resolved to a name no restricted client is allowed.
UnresolvedProject(c) == IF Restricted(c) THEN Unresolved ELSE {}

ResolveOwnedProject(c, x) ==
    IF HomeOf(x) = {} THEN UnresolvedProject(c) ELSE HomeOf(x)

ResolveCourseProject(c, x) ==
    IF HomeOf(x) = {} THEN UnresolvedProject(c) ELSE HomeOf(x)

VisibleToRestrictedClient(c, x) == HomeOf(x) # {} /\ HomeOf(x) \subseteq AllowedProjects[c]

\* phase.add and phase.link_hitch name a second resource.
ResolveWithSecondary(c, x, y) ==
    IF y # NoRow /\ Restricted(c) /\ ~VisibleToRestrictedClient(c, y)
      THEN Unresolved ELSE ResolveCourseProject(c, x)

ResolveCourseCreateProject(c, x) ==
    IF x = NoRow /\ Restricted(c) THEN Unresolved ELSE ResolveFromArgs(x)

\* A doctor finding may concern several projects: all have to be allowed.
ResolveDoctorFindingProject(c, x) ==
    IF Restricted(c) /\ ~VisibleToRestrictedClient(c, x) THEN Unresolved ELSE {}

ResolveProjectIdForPermission(c, t, x, y) ==
    CASE t.scope = "args"      -> ResolveFromArgs(x)
      [] t.scope = "row"       -> ResolveRowProject(c, x)
      [] t.scope = "owned"     -> IF t.names \in {"course", "phase"}
                                    THEN ResolveCourseProject(c, x)
                                    ELSE ResolveOwnedProject(c, x)
      [] t.scope = "ownedBoth" -> ResolveWithSecondary(c, x, y)
      [] t.scope = "create"    -> ResolveCourseCreateProject(c, x)
      [] t.scope = "finding"   -> ResolveDoctorFindingProject(c, x)
      [] OTHER                 -> {}

IsProjectAllowed(c, projects) ==
    projects = {} \/ ~Restricted(c) \/ projects \subseteq AllowedProjects[c]

\* The decision on an operation: "deny", "confirm" or "allow".
DecideMcpPermission(c, name, kind, projects) ==
    IF ~IsProjectAllowed(c, projects) \/ name \in DeniedOperations[c] THEN "deny"
    ELSE IF kind = "dangerous" \/ name \in RequireConfirmation[c]
      THEN IF kind # "read" /\ Mode[c] # "guarded-mutation" THEN "deny" ELSE "confirm"
    ELSE IF \/ kind = "read"
            \/ kind = "dry-run" /\ Mode[c] # "read-only"
            \/ /\ kind = "mutation" /\ Mode[c] = "guarded-mutation"
               /\ name \in AllowedOperations[c]
      THEN "allow" ELSE "deny"

-----------------------------------------------------------------------------
(* The handlers: the check they make before they work, the classes of rows  *)
(* they show, and the classes they write.                                   *)

Handlers(check, shows, writes, tools) ==
    [name: tools, check: {check}, shows: {shows}, writes: {writes}]

\* ensureProjectVisible: a restricted client needs a project, and an allowed one.
EnsureProjectVisible(c, projects) ==
    ~Restricted(c) \/ (projects # {} /\ projects \subseteq AllowedProjects[c])

ProjectReadHandlers ==
    Handlers("filter", {"project"}, {}, {"project.list"})
    \cup Handlers("project", {"project"}, {}, {"project.get"})
    \cup Handlers("optional", {"project"}, {}, {"domain.list"})
    \cup Handlers("project", {"snapshot"}, {}, {"policy.get_effective"})
    \cup Handlers("row", {"snapshot"}, {}, {"policy.snapshot.get"})

ProjectInspectionHandlers ==
    Handlers("project", {"project"}, {}, {"project.inspect", "project.check"})

RunReadHandlers ==
    Handlers("optional", {"run"}, {}, {"run.list"})
    \cup Handlers("row", {"run"}, {}, {"run.get", "run.timeline", "run.artifacts",
                                       "run.artifact.get"})

ReviewReadHandlers ==
    Handlers("optional", {"run"}, {}, {"review.queue"})
    \cup Handlers("row", {"run"}, {}, {"review.proposals", "review.consensus"})

BacklogReadHandlers ==
    Handlers("optional", {"backlog"}, {}, {"backlog.list"})
    \cup Handlers("row", {"backlog"}, {}, {"backlog.get"})

KnowledgeReadHandlers ==
    Handlers("optional", {"knowledge"}, {}, {"knowledge.search"})
    \cup Handlers("row", {"knowledge"}, {}, {"knowledge.get"})

\* Entries without a project are portable: every client sees them.
OpsKnowledgeReadHandlers ==
    Handlers("portableList", {"ops"}, {}, {"ops_knowledge.search"})
    \cup Handlers("portable", {"ops"}, {}, {"ops_knowledge.get"})

\* Status, counts and release plans show no row; operation.list filters.
SystemReadHandlers ==
    Handlers("none", {}, {}, {"db.status", "doctor.summary", "release.plan"})
    \cup Handlers("filter", {"operation"}, {}, {"operation.list"})
    \cup Handlers("row", {"operation"}, {}, {"operation.get"})

AggregateHandlers == Handlers("aggregate", {"run"}, {}, {"inbox", "metrics"})

HitchReadHandlers ==
    Handlers("optional", {"hitch"}, {}, {"hitch.list"})
    \cup Handlers("row", {"hitch"}, {}, {"hitch.get", "hitch.status",
                                   "hitch.findings", "hitch.decisions"})

CourseReadHandlers ==
    Handlers("optional", {"course"}, {}, {"course.list"})
    \cup Handlers("row", {"course"}, {}, {"course.get", "course.status", "phase.list"})
    \cup Handlers("row", {"phase"}, {}, {"phase.get"})

RunDryRunHandlers == Handlers("project", {"run"}, {}, {"run.dry_run"})

RunPreviewHandlers ==
    Handlers("row", {"run"}, {}, {"cleanup.dry_run", "pr.preview"})

DbDryRunHandlers ==
    Handlers("some", {"doctor"}, {}, {"db.repair.dry_run"})
    \cup Handlers("filter", {"run"}, {}, {"db.archive.preview"})

\* Orphaned blobs belong to no project: the preview of their removal shows
\* no row of any.
BlobDryRunHandlers ==
    Handlers("filter", {"run"}, {}, {"db.migrate_blobs.preview"})
    \cup Handlers("none", {}, {}, {"db.gc_blobs.preview"})

RunMutationHandlers ==
    Handlers("projectAndHitch", {}, {"run"}, {"run.start"})
    \cup Handlers("hitchOfRun", {}, {"run"}, {"review.auto"})

RerunHandlers == Handlers("hitchOfRun", {}, {"run"}, {"rerun.start"})

OrchestrateHandlers == Handlers("none", {}, {"hitch"}, {"hitch.orchestrate"})

BacklogAndKnowledgeHandlers ==
    Handlers("project", {}, {"backlog"}, {"backlog.create"})
    \cup Handlers("none", {}, {"backlog"}, {"backlog.run", "backlog.update"})
    \cup Handlers("none", {}, {"candidate"}, {"knowledge.promote", "knowledge.reject"})

OpsKnowledgeWriteHandlers ==
    Handlers("opsRecord", {}, {"ops"}, {"ops_knowledge.record"})
    \cup Handlers("opsDeprecate", {}, {"ops"}, {"ops_knowledge.deprecate"})

\* The unconfirmed call previews; the confirmed one repeats what it lists here.
DangerousRunHandlers ==
    Handlers("hitchOfRun", {"run"}, {"run"}, {"review.process"})
    \cup Handlers("preview", {"run"}, {"run"}, {"cleanup.apply", "pr.create"})

DangerousDbHandlers ==
    Handlers("preview", {"doctor"}, {"doctor"}, {"db.repair.apply"})
    \cup Handlers("global", {}, {"run"},
             {"db.archive.apply", "db.migrate_blobs.apply", "db.gc_blobs.apply"})

HitchStartHandlers == Handlers("project", {}, {"hitch"}, {"hitch.start"})

RecordFindingsHandlers == Handlers("none", {}, {"hitch"}, {"hitch.record_findings"})

HitchFindingHandlers ==
    Handlers("none", {}, {"finding"}, {"hitch.classify_finding",
                               "hitch.mark_finding_fixed", "hitch.defer_finding"})

HitchCheckHandlers ==
    Handlers("none", {}, {"hitch"}, {"hitch.record_close_check",
                                     "hitch.check_convergence"})

HitchEndHandlers ==
    Handlers("none", {"hitch"}, {"hitch"}, {"hitch.close", "hitch.cancel",
                                            "hitch.expand_scope"})

CourseMutationHandlers ==
    Handlers("project", {}, {"course"}, {"course.create"})
    \cup Handlers("row", {}, {"course"}, {"course.orchestrate"})

PhaseMutationHandlers ==
    Handlers("rowAndSecondary", {}, {"phase"}, {"phase.add", "phase.link_hitch"})
    \cup Handlers("row", {}, {"phase"}, {"phase.update", "phase.ratify",
                                         "phase.start_hitch"})

WorkspaceHandlers ==
    Handlers("filter", {"workspace"}, {}, {"workspace.list"})
    \cup Handlers("tracked", {"workspace"}, {}, {"workspace.status",
                             "workspace.inspect", "workspace.conflicts",
                             "workspace.recover"})
    \cup Handlers("workspaceScope", {}, {"workspace"}, {"workspace.checkpoint"})

ReadHandlers ==
    ProjectReadHandlers \cup ProjectInspectionHandlers \cup RunReadHandlers
    \cup ReviewReadHandlers \cup BacklogReadHandlers \cup KnowledgeReadHandlers
    \cup OpsKnowledgeReadHandlers \cup SystemReadHandlers \cup AggregateHandlers
    \cup HitchReadHandlers \cup CourseReadHandlers

DryRunHandlers ==
    RunDryRunHandlers \cup RunPreviewHandlers \cup DbDryRunHandlers
    \cup BlobDryRunHandlers

ToolHandlers ==
    ReadHandlers \cup DryRunHandlers \cup RunMutationHandlers \cup RerunHandlers
    \cup OrchestrateHandlers \cup BacklogAndKnowledgeHandlers
    \cup OpsKnowledgeWriteHandlers \cup DangerousRunHandlers
    \cup DangerousDbHandlers \cup HitchStartHandlers \cup RecordFindingsHandlers
    \cup HitchFindingHandlers \cup HitchCheckHandlers \cup HitchEndHandlers
    \cup CourseMutationHandlers \cup PhaseMutationHandlers \cup WorkspaceHandlers

HandlerOf(name) == CHOOSE h \in ToolHandlers : h.name = name

-----------------------------------------------------------------------------
(* The checks of the handlers.                                             *)

\* run.start, review.auto and rerun.start may name the hitch they work for.
ValidateHitchLink(c, projects, y) ==
    \/ y = NoRow
    \/ /\ EnsureProjectVisible(c, HomeOf(y))
       /\ HomeOf(y) = {} \/ HomeOf(y) = projects

\* Mutant: an existing portable entry may be taken over.
AuthorizeOpsWritePortable(c, entry) ==
    ~Restricted(c) \/ entry = NoRow \/ HomeOf(entry) \subseteq AllowedProjects[c]

\* The existing entry has to be of an allowed project, never a portable one.
AuthorizeOpsWrite(c, entry) ==
    ~Restricted(c) \/ entry = NoRow \/ VisibleToRestrictedClient(c, entry)

ResolveAggregateProject(c, x) ==
    IF x # NoRow THEN EnsureProjectVisible(c, HomeOf(x))
                 ELSE Cardinality(AllowedProjects[c]) <= 1

CheckWorkspaceProjectScope(c, x, y) ==
    \/ ~Restricted(c)
    \/ /\ VisibleToRestrictedClient(c, x)
       /\ y = NoRow \/ VisibleToRestrictedClient(c, y)

HandlerAdmits(c, check, x, y, confirmed) ==
    CASE check = "project"  -> EnsureProjectVisible(c, ResolveFromArgs(x))
      [] check = "optional" -> x = NoRow \/ EnsureProjectVisible(c, HomeOf(x))
      [] check = "portableList" -> x = NoRow \/ EnsureProjectVisible(c, HomeOf(x))
      [] check = "row"      -> EnsureProjectVisible(c, HomeOf(x))
      [] check = "tracked"  -> EnsureProjectVisible(c, HomeOf(x))
      [] check = "portable" -> HomeOf(x) = {} \/ EnsureProjectVisible(c, HomeOf(x))
      [] check = "aggregate" -> ResolveAggregateProject(c, x)
      [] check = "projectAndHitch" ->
            /\ EnsureProjectVisible(c, ResolveFromArgs(x))
            /\ ValidateHitchLink(c, ResolveFromArgs(x), y)
      [] check = "hitchOfRun" -> ValidateHitchLink(c, HomeOf(x), y)
      [] check = "opsRecord" ->
            /\ EnsureProjectVisible(c, ResolveFromArgs(x))
            /\ AuthorizeOpsWrite(c, y)
      [] check = "opsDeprecate" -> AuthorizeOpsWrite(c, x)
      [] check = "preview" -> confirmed \/ EnsureProjectVisible(c, HomeOf(x))
      [] check = "global" -> ~Restricted(c)
      [] check = "rowAndSecondary" ->
            /\ EnsureProjectVisible(c, HomeOf(x))
            /\ y = NoRow \/ EnsureProjectVisible(c, HomeOf(y))
      [] check = "workspaceScope" -> CheckWorkspaceProjectScope(c, x, y)
      [] OTHER -> TRUE

\* A finding of the doctor shows if one of its projects is allowed.
FindingShows(c, r) == ~Restricted(c) \/ HomeOf(r) \cap AllowedProjects[c] # {}

\* What a listing lets through: the project asked for, else the allowed ones.
Listed(c, check, class, x) ==
    {r \in RowsOf(class) :
        IF x # NoRow THEN HomeOf(r) = HomeOf(x)
        ELSE \/ EnsureProjectVisible(c, HomeOf(r))
             \/ check = "some" /\ FindingShows(c, r)
             \/ check = "portableList" /\ HomeOf(r) = {}}

\* The rows an answer shows, each with its projects at the time of reading: the
\* row the call names, or the rows of a class that the listing lets through.
Shown(c, h, t, x) ==
    UNION {IF t.names = class /\ x # NoRow
             THEN {<<x, HomeOf(x)>>}
             ELSE {<<r, HomeOf(r)>> : r \in Listed(c, h.check, class, x)}
           : class \in h.shows}

\* The rows a call writes, by class and projects: the row it names, the row
\* it creates in the project of its arguments, and the hitch it works for.
Written(h, t, x, y) ==
    {<<class, IF x = NoRow THEN {} ELSE HomeOf(x)>> : class \in h.writes}
    \cup (IF y = NoRow THEN {} ELSE {<<ClassOf[y], HomeOf(y)>>})

-----------------------------------------------------------------------------
NoRequest == [stage |-> "idle"]

ProjectRequired == {"project.get", "project.inspect", "project.check",
                    "policy.get_effective", "run.dry_run", "run.start"}

\* Arguments a call may carry; a second resource where the schema has one.
FirstArguments(t) ==
    RowsOf(t.names)
    \cup (IF t.names = "none" \/ (t.names = "project" /\ t.name \notin ProjectRequired)
            THEN {NoRow} ELSE {})

SecondArguments(t) ==
    {NoRow} \cup
    CASE t.name \in {"run.start", "review.auto", "rerun.start", "review.process",
                     "phase.link_hitch", "workspace.checkpoint"} -> RowsOf("hitch")
      [] t.name = "phase.add" -> RowsOf("phase")
      [] t.name = "ops_knowledge.record" -> RowsOf("ops")
      [] OTHER -> {}

McpInit ==
    /\ home = [r \in RowsOf("ops") |-> InitialHome[r]] /\ link = InitialLink
    /\ request = NoRequest

Answer(r, shown, written) ==
    [stage |-> "answered", client |-> r.client, tool |-> r.tool,
     confirmed |-> r.confirmed, shown |-> shown, written |-> written]

\* createMcpConfirmationRequest: what the preview showed is answered at once.
RequestConfirmation(r, shown) ==
    request' = [r EXCEPT !.stage = "pending", !.shown = shown]

\* HarnessMcpServer.callTool up to the handler.  A mutation that needs a
\* confirmation is only recorded; a read or a dry run goes on, even when the
\* configuration lists it under requireConfirmation.
CallTool(c, t, x, y) ==
    /\ LET r == [stage |-> "permitted", client |-> c, tool |-> t, x |-> x, y |-> y,
                 confirmed |-> FALSE, shown |-> {}, written |-> {}]
           decision == DecideMcpPermission(c, t.name, t.kind,
                          ResolveProjectIdForPermission(c, t, x, y))
       IN CASE decision = "deny" -> request' = Answer(r, {}, {})
            [] decision = "confirm" /\ t.kind = "mutation" -> RequestConfirmation(r, {})
            [] OTHER -> request' = r
    /\ UNCHANGED <<home, link>>

\* The limiter refuses a client's calls until its minute is over.
RateLimited(c, t) ==
    /\ request' = Answer([client |-> c, tool |-> t, confirmed |-> FALSE], {}, {})
    /\ UNCHANGED <<home, link>>

\* resources/read: the same handlers behind read permissions, one for each
\* operation the resource combines.
ResourceTools == {"db.status", "doctor.summary", "project.get", "domain.list",
    "policy.get_effective", "run.get", "run.timeline", "review.proposals",
    "review.consensus", "run.artifacts", "run.artifact.get", "backlog.get", "hitch.status",
    "knowledge.search", "knowledge.get", "operation.get"}

AdditionalOperations(name) ==
    CASE name = "policy.get_effective" -> {"project.get"}
      [] name = "review.consensus"     -> {"review.proposals"}
      [] OTHER                         -> {}

ReadResource(c, t, x) ==
    /\ t.name \in ResourceTools
    /\ LET r == [stage |-> "permitted", client |-> c, tool |-> t, x |-> x,
                 y |-> NoRow, confirmed |-> FALSE, shown |-> {}, written |-> {}]
           projects == ResolveProjectIdForPermission(c, t, x, NoRow)
       IN request' = IF \A name \in {t.name} \cup AdditionalOperations(t.name) :
                          DecideMcpPermission(c, name, "read", projects) = "allow"
                       THEN r ELSE Answer(r, {}, {})
    /\ UNCHANGED <<home, link>>

\* The handler of a call that was let through.
HandlerWork(r, h) ==
    /\ request' = Answer(r, Shown(r.client, h, r.tool, r.x),
                            Written(h, r.tool, r.x, r.y))
    /\ UNCHANGED <<home, link>>

Refuse ==
    /\ request' = Answer(request, {}, {})
    /\ UNCHANGED <<home, link>>

\* A dangerous tool asks for a confirmation with a preview, unless it is the
\* confirmed call; hitch.close may go ahead when the hitch is close_ready and
\* the operation is allowlisted.
AsksFirst(r) == r.tool.kind = "dangerous" /\ ~r.confirmed

HandleCall ==
    /\ request.stage = "permitted"
    /\ LET r == request  h == HandlerOf(r.tool.name) IN
       IF ~HandlerAdmits(r.client, h.check, r.x, r.y, r.confirmed) THEN Refuse
       ELSE \/ /\ AsksFirst(r)
               /\ RequestConfirmation(r, Shown(r.client, h, r.tool, r.x))
               /\ UNCHANGED <<home, link>>
            \/ /\ AsksFirst(r) => /\ r.tool.name = "hitch.close"
                                  /\ "hitch.close" \in AllowedOperations[r.client]
               /\ h.check \notin {"tracked", "opsRecord", "opsDeprecate", "workspaceScope"}
               /\ HandlerWork(r, h)
            \/ /\ h.check \in {"opsRecord", "opsDeprecate", "workspaceScope"}
               /\ r.tool.name = "workspace.checkpoint" =>
                    "workspace.checkpoint" \in AllowedOperations[r.client]
               /\ request' = [r EXCEPT !.stage = "writing",
                                       !.written = Written(h, r.tool, r.x, r.y)]
               /\ UNCHANGED <<home, link>>
            \/ /\ r.tool.name = "workspace.checkpoint"
               /\ "workspace.checkpoint" \notin AllowedOperations[r.client]
               /\ Refuse
            \/ /\ h.check = "tracked"
               /\ request' = [r EXCEPT !.stage = "git",
                      !.shown = {<<w, HomeOf(w)>> : w \in
                          {v \in RowsOf("workspace") :
                              EnsureProjectVisible(r.client, HomeOf(v))}}]
               /\ UNCHANGED <<home, link>>

\* These writers authorize first and write afterwards, in an operation of
\* its own: the row may have moved in between.
WriteAuthorized ==
    /\ request.stage = "writing"
    /\ request' = Answer(request, {}, request.written)
    /\ home' = IF request.tool.name = "ops_knowledge.record" /\ request.y # NoRow
                 THEN [home EXCEPT ![request.y] = ResolveFromArgs(request.x)] ELSE home
    /\ link' = IF request.tool.name = "workspace.checkpoint" /\ request.y # NoRow
                 THEN [link EXCEPT ![request.x] = request.y] ELSE link

\* Mutant: recover reads its second window without authorizing again.
WorkspaceRecoverTrusting ==
    /\ request.stage = "git" /\ request.tool.name = "workspace.recover"
    /\ request' = Answer(request, {<<request.x, HomeOf(request.x)>>}, {})
    /\ UNCHANGED <<home, link>>

\* workspace.recover opens the database again after git and authorizes anew.
WorkspaceRecover ==
    /\ request.stage = "git" /\ request.tool.name = "workspace.recover"
    /\ request' = Answer(request,
            IF EnsureProjectVisible(request.client, HomeOf(request.x))
              THEN {<<request.x, HomeOf(request.x)>>} ELSE {}, {})
    /\ UNCHANGED <<home, link>>

\* The other git tools answer with the database facts of their first window.
WorkspaceAnswer ==
    /\ request.stage = "git" /\ request.tool.name # "workspace.recover"
    /\ request' = Answer(request,
            IF request.tool.name = "workspace.inspect"
              THEN {s \in request.shown : s[1] = request.x} ELSE request.shown, {})
    /\ UNCHANGED <<home, link>>

\* An operator confirms: the request is resolved and decided again, with the
\* configuration it was made under, and its handler runs confirmed.
ConfirmMcpRequest ==
    /\ request.stage = "pending"
    /\ LET q == request
           decision == DecideMcpPermission(q.client, q.tool.name, q.tool.kind,
                          ResolveProjectIdForPermission(q.client, q.tool, q.x, q.y))
       IN /\ decision # "deny"
          /\ request' = [q EXCEPT !.stage = "permitted", !.confirmed = TRUE, !.shown = {}]
    /\ UNCHANGED <<home, link>>

\* The answer is delivered; or the confirmation is rejected or expires.
Deliver ==
    /\ request.stage \in {"answered", "pending"}
    /\ request' = NoRequest
    /\ UNCHANGED <<home, link>>

\* Another server, or the command line, links a workspace to another hitch or
\* records an operational entry under another project.
RelinkElsewhere(w, y) ==
    /\ link[w] # y /\ link' = [link EXCEPT ![w] = y]
    /\ UNCHANGED <<home, request>>

RecordElsewhere(e, projects) ==
    /\ home[e] # projects /\ home' = [home EXCEPT ![e] = projects]
    /\ UNCHANGED <<link, request>>

McpNext ==
    \/ /\ request.stage = "idle"
       /\ \E c \in Clients, t \in McpToolDefinitions :
          \/ \E x \in FirstArguments(t), y \in SecondArguments(t) : CallTool(c, t, x, y)
          \/ \E x \in FirstArguments(t) : ReadResource(c, t, x)
          \/ RateLimited(c, t)
    \/ HandleCall \/ WriteAuthorized \/ WorkspaceRecover \/ WorkspaceAnswer
    \/ ConfirmMcpRequest \/ Deliver
    \/ \E w \in DOMAIN link, y \in RowsOf("hitch") \cup {NoRow} : RelinkElsewhere(w, y)
    \/ \E e \in RowsOf("ops"), x \in RowsOf("project") \cup {NoRow} :
          RecordElsewhere(e, ResolveFromArgs(x))

McpSpec == McpInit /\ [][McpNext]_mcpVars

-----------------------------------------------------------------------------
(* Properties.                                                             *)

\* What a restricted client is shown belonged, when the database was read, to
\* a project it is allowed.  The handlers make three exceptions: portable
\* operational entries, doctor findings that also concern other projects, and
\* the preview of review.process, which looks at no project of its own.
\* This holds although the permission layer lets calls about rows without a
\* project pass, and although git runs between a workspace tool's check and
\* its answer (permissions.ts:54-62, workspace-read-tools.ts:228-243).
AnswersStayInScope ==
    request.stage \in {"answered", "pending"} /\ Restricted(request.client) =>
      \A s \in request.shown :
         \/ s[2] # {} /\ s[2] \subseteq AllowedProjects[request.client]
         \/ ClassOf[s[1]] = "ops" /\ s[2] = {}
         \/ request.tool.name = "review.process" /\ s[2] = {}
         \/ ClassOf[s[1]] = "doctor" /\ s[2] \cap AllowedProjects[request.client] # {}

\* Nothing is written for a client outside guarded-mutation mode, or by an
\* operation that is neither allowlisted nor confirmed; and all a restricted
\* client writes, the second row of a call included, was of its projects when
\* the call was authorized (mutation-tools-core.ts:530-541).  Runs
\* and backlog items without a project are the exception: neither layer refuses
\* a call that names one.
WritesStayInScope ==
    request.stage = "answered" /\ request.written # {} =>
      /\ Mode[request.client] = "guarded-mutation"
      /\ request.confirmed \/ request.tool.name \in AllowedOperations[request.client]
      /\ Restricted(request.client) =>
           \A w \in request.written :
              \/ w[2] # {} /\ w[2] \subseteq AllowedProjects[request.client]
              \/ w[1] \in {"run", "backlog"} /\ w[2] = {}
=============================================================================
