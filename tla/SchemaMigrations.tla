--------------------------- MODULE SchemaMigrations ---------------------------
(***************************************************************************)
(* The schema of the harness database and the runner that brings an old    *)
(* database up to it (db/schema.ts, db/migrations.ts, db/schema-compat.ts).*)
(*                                                                         *)
(* A migration is its list of statements.  A statement is abstracted to    *)
(* the tables it creates, alters, renames, copies or drops and to the      *)
(* foreign keys it declares; columns and indexes are left out, except the  *)
(* unique index of pull_requests, which a duplicate row would make fail.   *)
(* A table holds rows; row k of a child refers to row k of its parents.    *)
(* With foreign_keys = ON a DROP deletes the rows first: rows of a         *)
(* cascading child go with them, any other referring row makes it fail.    *)
(***************************************************************************)
EXTENDS Naturals, Sequences, SequencesExt, FiniteSets

CONSTANTS Migrators,        \* processes that run migrations
          Builds,           \* versions the builds of the harness know
          ForeignSlots,     \* versions another branch may have taken
          MaxStarts         \* bound: migration calls altogether

SCHEMA_VERSION == 41

\* A build knows versions that some migration leads to.
ASSUME SchemaAssumption == Builds \subseteq 1..SCHEMA_VERSION /\ MaxStarts \in Nat

VARIABLES tables,           \* sqlite_master and the rows: set of [name, refs, rows]
          applied,          \* schema_migrations: set of <<version, name>>
          mig,              \* [Migrators -> progress of the call]
          starts,           \* migration calls so far
          kept              \* history: the rows put in when the database was used

schemaVars == <<tables, applied, mig, starts, kept>>

(***************************************************************************)
(* Statements.                                                             *)
(***************************************************************************)
Cascade(t) == <<t, "cascade">>
Ref(t) == <<t, "restrict">>
Create(t, refs) == [op |-> "create", table |-> t, refs |-> refs]
Alter(t, refs) == [op |-> "alter", table |-> t, refs |-> refs]
Rename(t, n) == [op |-> "rename", table |-> t, to |-> n]
Drop(t) == [op |-> "drop", table |-> t]
DropIfExists(t) == [op |-> "dropIf", table |-> t]
Copy(t, n) == [op |-> "copy", table |-> t, to |-> n]
\* The rows older than the newest one of their run are moved to a ledger.
MoveOlder(t, n) == [op |-> "moveOlder", table |-> t, to |-> n]
UniquePerRun(t) == [op |-> "unique", table |-> t]

\* One CREATE after the other for tables without foreign keys.
Creates(names) == [i \in 1..Len(names) |-> Create(names[i], {})]

MIGRATION_V1_RUN_TABLES == Creates(<<"db_meta", "projects", "project_profiles",
    "domains", "policy_generations", "runs", "run_events", "command_results",
    "run_changed_files", "policy_violations">>)
MIGRATION_V1_REVIEW_TABLES == Creates(<<"review_decisions",
    "review_required_changes", "artifacts", "run_context_packs",
    "run_context_pack_files", "backlog_items", "backlog_run_links",
    "knowledge_candidates", "knowledge_entries", "import_errors">>)
MIGRATION_V2_STATEMENTS ==
    <<Alter("runs", {}), Alter("backlog_items", {}),
      Alter("knowledge_candidates", {}), Alter("knowledge_entries", {})>>
    \o Creates(<<"export_records", "exported_files", "operations",
                 "pull_requests", "cleanup_actions">>)
MIGRATION_V3_STATEMENTS == <<Alter("runs", {})>>
MIGRATION_V4_STATEMENTS ==
    Creates(<<"artifact_blobs", "artifact_blob_chunks",
              "pull_request_attempts", "artifacts_v4">>)
    \o <<Copy("artifacts", "artifacts_v4"), Drop("artifacts"),
         Rename("artifacts_v4", "artifacts"),
         MoveOlder("pull_requests", "pull_request_attempts"),
         UniquePerRun("pull_requests")>>
MIGRATION_V5_STATEMENTS == Creates(<<"domain_locks", "review_proposals">>)
                           \o <<Alter("artifacts", {}), Alter("runs", {})>>
MIGRATION_V6_STATEMENTS == <<Create("run_materializations", {Cascade("runs")}),
                             Alter("runs", {})>>
MIGRATION_V7_STATEMENTS ==
    <<Create("reviewers", {}), Create("review_rules", {}),
      Create("run_review_rule_snapshots", {Cascade("runs"), Ref("review_rules")}),
      Create("review_consensus", {Cascade("runs")}),
      Create("review_overrides",
             {Cascade("runs"), Ref("reviewers"), Ref("review_consensus")}),
      Alter("review_proposals", {Ref("reviewers")}),
      Alter("review_decisions", {Ref("review_consensus")})>>
MIGRATION_V8_STATEMENTS == <<Alter("operations", {}),
                             Create("operation_events", {Cascade("operations")})>>
MIGRATION_V9_STATEMENTS ==
    <<Create("project_profile_revisions", {}),
      Alter("projects", {Ref("project_profile_revisions")}),
      Create("policy_templates", {}),
      Create("effective_policy_snapshots", {Ref("policy_templates")}),
      Create("knowledge_entry_revisions", {}),
      Alter("knowledge_entries", {Ref("knowledge_entry_revisions")}),
      Create("asset_exports", {})>>
MIGRATION_V10_STATEMENTS ==
    <<Create("doctor_runs", {}),
      Create("doctor_findings", {Cascade("doctor_runs")}),
      Create("repair_actions", {Ref("doctor_findings")})>>
    \o Creates(<<"backup_catalog", "archive_catalog", "db_stats_snapshots">>)
MIGRATION_V11_STATEMENTS ==
    <<Create("blob_stores", {}),
      Create("external_artifact_blobs", {Ref("blob_stores")}),
      Create("blob_migration_jobs", {})>>
\* Mutant: the old table is dropped before its rows are copied.
V12DropsFirst ==
    <<Create("artifacts_v12", {}), Drop("artifacts"),
      Rename("artifacts_v12", "artifacts"),
      Alter("runs", {Ref("project_profile_revisions"),
                     Ref("effective_policy_snapshots")})>>

MIGRATION_V12_STATEMENTS ==
    <<Create("artifacts_v12", {}), Copy("artifacts", "artifacts_v12"),
      Drop("artifacts"), Rename("artifacts_v12", "artifacts"),
      Alter("runs", {Ref("project_profile_revisions"),
                     Ref("effective_policy_snapshots")})>>

MIGRATION_V13_STATEMENTS ==
    Creates(<<"mcp_confirmation_requests", "mcp_sessions">>)
    \o <<Create("mcp_tool_invocations", {Ref("mcp_sessions")})>>
MIGRATION_V14_STATEMENTS == <<Alter("mcp_confirmation_requests", {})>>
MIGRATION_V15_STATEMENTS == <<Alter("mcp_sessions", {}),
                              Alter("mcp_confirmation_requests", {})>>
MIGRATION_V16_SESSION_TABLES ==
    <<Create("goal_sessions", {}),
      Create("goal_attempts", {Cascade("goal_sessions")}),
      Create("goal_review_cycles", {Cascade("goal_sessions")}),
      Create("goal_findings", {Cascade("goal_sessions")})>>
MIGRATION_V16_DECISION_TABLES ==
    <<Create("goal_close_checks", {Cascade("goal_sessions")}),
      Create("goal_convergence_decisions", {Cascade("goal_sessions")})>>
MIGRATION_V17_STATEMENTS == Creates(<<"workspaces">>)
MIGRATION_V18_STATEMENTS == <<Create("workspace_checkpoints", {Cascade("workspaces")})>>
MIGRATION_V19_STATEMENTS == <<Alter("knowledge_entries", {})>>
\* Tables first, then the column of each, the index rebuilds left out.
MIGRATION_V20_STATEMENTS ==
    <<Rename("goal_sessions", "hitch_sessions"),
      Rename("goal_attempts", "hitch_attempts"),
      Rename("goal_review_cycles", "hitch_review_cycles"),
      Rename("goal_findings", "hitch_findings"),
      Rename("goal_close_checks", "hitch_close_checks"),
      Rename("goal_convergence_decisions", "hitch_convergence_decisions"),
      Alter("workspaces", {}), Alter("workspace_checkpoints", {})>>
MIGRATION_V21_STATEMENTS ==
    <<Create("courses", {}), Create("phases", {Cascade("courses"), Cascade("phases")}),
      Create("phase_hitches", {Cascade("hitch_sessions"), Cascade("phases")})>>
MIGRATION_V22_STATEMENTS == <<DropIfExists("db_stats_snapshots")>>
MIGRATION_V23_STATEMENTS ==
    <<Create("hitch_lifecycle_events", {Cascade("hitch_sessions")})>>
MIGRATION_V24_STATEMENTS == <<Alter("review_proposals", {})>>
MIGRATION_V25_STATEMENTS == <<Alter("runs", {})>>
MIGRATION_V26_STATEMENTS == <<Create("run_usage", {Ref("runs")})>>
MIGRATION_V27_STATEMENTS == Creates(<<"metrics_snapshots">>)
MIGRATION_V28_STATEMENTS == Creates(<<"domain_lock_contention">>)
\* A table whose CHECK changes is rebuilt: new table, copy, drop, rename.
Rebuild(t, n, refs) == <<Create(n, refs), Copy(t, n), Drop(t), Rename(n, t)>>
MIGRATION_V29_STATEMENTS ==
    Rebuild("hitch_lifecycle_events", "hitch_lifecycle_events_v29",
            {Cascade("hitch_sessions")})
MIGRATION_V30_STATEMENTS == Rebuild("run_usage", "run_usage_v30", {Ref("runs")})
MIGRATION_V31_STATEMENTS == Creates(<<"jury_classification_proposals",
    "jury_classification_refutations", "jury_severity_audits">>)
MIGRATION_V32_STATEMENTS == Creates(<<"review_refute_votes">>)
MIGRATION_V33_STATEMENTS == <<Alter("phases", {})>>
MIGRATION_V34_STATEMENTS ==
    Rebuild("hitch_lifecycle_events", "hitch_lifecycle_events_v34",
            {Cascade("hitch_sessions")})
MIGRATION_V35_STATEMENTS == <<Alter("artifacts", {})>>

MIGRATION_V36_STATEMENTS ==
    <<Create("agent_invocation", {}),
      Create("agent_usage_turn", {Cascade("agent_invocation")}),
      Copy("run_usage", "agent_invocation"), Copy("run_usage", "agent_usage_turn")>>
MIGRATION_V37_STATEMENTS == <<Alter("agent_invocation", {})>>
MIGRATION_V38_STATEMENTS == <<Alter("hitch_findings", {})>>
MIGRATION_V39_STATEMENTS == <<Create("hitch_evidence", {Cascade("hitch_sessions")})>>
MIGRATION_V40_STATEMENTS ==
    <<Create("external_review_events", {Cascade("hitch_sessions")})>>
MIGRATION_V41_STATEMENTS == <<Alter("hitch_sessions", {})>>

MIGRATIONS == <<
    MIGRATION_V1_RUN_TABLES \o MIGRATION_V1_REVIEW_TABLES,
    MIGRATION_V2_STATEMENTS, MIGRATION_V3_STATEMENTS, MIGRATION_V4_STATEMENTS,
    MIGRATION_V5_STATEMENTS, MIGRATION_V6_STATEMENTS, MIGRATION_V7_STATEMENTS,
    MIGRATION_V8_STATEMENTS, MIGRATION_V9_STATEMENTS, MIGRATION_V10_STATEMENTS,
    MIGRATION_V11_STATEMENTS, MIGRATION_V12_STATEMENTS, MIGRATION_V13_STATEMENTS,
    MIGRATION_V14_STATEMENTS, MIGRATION_V15_STATEMENTS,
    MIGRATION_V16_SESSION_TABLES \o MIGRATION_V16_DECISION_TABLES,
    MIGRATION_V17_STATEMENTS, MIGRATION_V18_STATEMENTS, MIGRATION_V19_STATEMENTS,
    MIGRATION_V20_STATEMENTS, MIGRATION_V21_STATEMENTS, MIGRATION_V22_STATEMENTS,
    MIGRATION_V23_STATEMENTS, MIGRATION_V24_STATEMENTS, MIGRATION_V25_STATEMENTS,
    MIGRATION_V26_STATEMENTS, MIGRATION_V27_STATEMENTS, MIGRATION_V28_STATEMENTS,
    MIGRATION_V29_STATEMENTS, MIGRATION_V30_STATEMENTS, MIGRATION_V31_STATEMENTS,
    MIGRATION_V32_STATEMENTS, MIGRATION_V33_STATEMENTS, MIGRATION_V34_STATEMENTS,
    MIGRATION_V35_STATEMENTS, MIGRATION_V36_STATEMENTS, MIGRATION_V37_STATEMENTS,
    MIGRATION_V38_STATEMENTS, MIGRATION_V39_STATEMENTS, MIGRATION_V40_STATEMENTS,
    MIGRATION_V41_STATEMENTS>>

(***************************************************************************)
(* The lists of table names that `db stats` walks.                         *)
(***************************************************************************)
V1_TABLE_NAMES == {"db_meta", "projects", "project_profiles", "domains",
    "policy_generations", "runs", "run_events", "command_results",
    "run_changed_files", "policy_violations", "review_decisions",
    "review_required_changes", "artifacts", "run_context_packs",
    "run_context_pack_files", "backlog_items", "backlog_run_links",
    "knowledge_candidates", "knowledge_entries", "import_errors"}
LATER_TABLE_NAMES == {"export_records", "exported_files", "operations",
    "pull_requests", "cleanup_actions", "artifact_blobs", "artifact_blob_chunks",
    "pull_request_attempts", "domain_locks", "review_proposals",
    "run_materializations", "reviewers", "review_rules",
    "run_review_rule_snapshots", "review_consensus", "review_overrides",
    "operation_events", "project_profile_revisions", "policy_templates",
    "effective_policy_snapshots", "knowledge_entry_revisions", "asset_exports",
    "doctor_runs", "doctor_findings", "repair_actions", "backup_catalog",
    "archive_catalog", "db_stats_snapshots", "blob_stores",
    "external_artifact_blobs", "blob_migration_jobs", "mcp_confirmation_requests",
    "mcp_sessions", "mcp_tool_invocations"}
HITCH_TABLE_NAMES == {"hitch_sessions", "hitch_attempts", "hitch_review_cycles",
    "hitch_findings", "hitch_close_checks", "hitch_convergence_decisions",
    "workspaces", "workspace_checkpoints", "courses", "phases", "phase_hitches",
    "hitch_lifecycle_events", "run_usage", "metrics_snapshots",
    "domain_lock_contention", "jury_classification_proposals",
    "jury_classification_refutations", "jury_severity_audits",
    "review_refute_votes", "agent_invocation", "agent_usage_turn",
    "hitch_evidence", "external_review_events"}
DROPPED_TABLE_NAMES == {"db_stats_snapshots"}
CURRENT_TABLE_NAMES ==
    (V1_TABLE_NAMES \union LATER_TABLE_NAMES \union HITCH_TABLE_NAMES)
      \ DROPPED_TABLE_NAMES

(***************************************************************************)
(* What SQLite does with a statement.  A database is a set of tables       *)
(* [name, refs, rows]; the result is [ok, db].                             *)
(***************************************************************************)
Names(db) == {t.name : t \in db}
Rows(db, n) == UNION {t.rows : t \in {u \in db : u.name = n}}
Referrers(db, n, kind) ==
    {t.name : t \in {u \in db : u.name # n /\ u.rows # {} /\ <<n, kind>> \in u.refs}}
\* The children reached from n over cascading foreign keys.
Cascaded(db, n) ==
    LET near(S) == S \union UNION {Referrers(db, c, "cascade") : c \in S}
    IN  near(near(near({n})))
Failed(db) == [ok |-> FALSE, db |-> db]
Done(db) == [ok |-> TRUE, db |-> db]
\* Change(t) for the table named n, the others as they are.
Update(db, n, Change(_)) == {IF t.name = n THEN Change(t) ELSE t : t \in db}
AddRows(db, n, rows) == Update(db, n, LAMBDA t : [t EXCEPT !.rows = @ \union rows])

RunCreate(db, s) ==
    IF s.table \in Names(db) THEN Failed(db)
    ELSE Done(db \union {[name |-> s.table, refs |-> s.refs, rows |-> {}]})
RunRename(db, s) ==
    IF s.to \in Names(db) THEN Failed(db)
    ELSE Done({[name |-> IF t.name = s.table THEN s.to ELSE t.name, rows |-> t.rows,
                refs |-> {IF r[1] = s.table THEN <<s.to, r[2]>> ELSE r : r \in t.refs}]
               : t \in db})
RunDrop(db, s) ==
    LET gone == Cascaded(db, s.table)
    IN  IF \E n \in gone : Referrers(db, n, "restrict") # {} THEN Failed(db)
        ELSE Done({IF t.name \in gone THEN [t EXCEPT !.rows = {}] ELSE t
                   : t \in {u \in db : u.name # s.table}})
RunMoveOlder(db, s) ==
    LET rows == Rows(db, s.table)
        old == {r \in rows : \E q \in rows : q > r}
    IN  Done(AddRows(Update(db, s.table, LAMBDA t : [t EXCEPT !.rows = @ \ old]),
                     s.to, old))

RunStatement(db, s) ==
    LET known == s.table \in Names(db)
    IN CASE s.op = "create" -> RunCreate(db, s)
         [] s.op = "dropIf" /\ ~known -> Done(db)
         [] s.op \notin {"create", "dropIf"} /\ ~known -> Failed(db)
         [] s.op = "alter" /\ known ->
              Done(Update(db, s.table, LAMBDA t : [t EXCEPT !.refs = @ \union s.refs]))
         [] s.op = "copy" /\ known ->
              IF s.to \in Names(db) THEN Done(AddRows(db, s.to, Rows(db, s.table)))
              ELSE Failed(db)
         [] s.op = "moveOlder" /\ known -> RunMoveOlder(db, s)
         [] s.op = "unique" /\ known ->
              IF Cardinality(Rows(db, s.table)) > 1 THEN Failed(db) ELSE Done(db)
         [] s.op = "rename" /\ known -> RunRename(db, s)
         [] s.op \in {"drop", "dropIf"} /\ known -> RunDrop(db, s)

RunStatements(db, stmts) ==
    LET after[i \in 0..Len(stmts)] ==
          IF i = 0 THEN Done(db)
          ELSE LET before == after[i - 1]
               IN  IF before.ok THEN RunStatement(before.db, stmts[i]) ELSE before
    IN  after[Len(stmts)]

Name(v) == <<"ours", v>>
ForeignName(v) == <<"other branch", v>>

SchemaInit ==
    /\ tables = {} /\ applied = {} /\ kept = {}
    /\ mig = [p \in Migrators |-> [pc |-> "idle", next |-> 1, knows |-> 0]]
    /\ starts = 0

Versions == {a[1] : a \in applied}
currentSchemaVersion == IF Versions = {} THEN 0 ELSE Max(Versions)

(***************************************************************************)
(* runMigrations.  The guards are read once, before the loop.              *)
(***************************************************************************)
assertSchemaCompatibleForMigrate(k) == currentSchemaVersion <= k
assertMigrationNameIntegrity(k) ==
    \A a \in applied : a[1] <= k => a[2] = Name(a[1])

RunMigrations(p) ==
    /\ mig[p].pc \in {"idle", "done", "failed", "dead"}
    /\ starts < MaxStarts /\ starts' = starts + 1
    /\ \E k \in Builds : mig' = [mig EXCEPT ![p] =
         [pc |-> IF assertSchemaCompatibleForMigrate(k)
                      /\ assertMigrationNameIntegrity(k) THEN "loop" ELSE "failed",
          next |-> 1, knows |-> k]]
    /\ UNCHANGED <<tables, applied, kept>>

\* One IMMEDIATE transaction: recheck, statements, row; all or nothing.  The
\* versions found applied are passed over in one step: none is ever removed.
MigrationStep(p) ==
    /\ mig[p].pc = "loop" /\ mig[p].next <= mig[p].knows
    /\ \E v \in {mig[p].next} :
         IF v \in Versions
           THEN /\ mig' = [mig EXCEPT ![p].next =
                                 Min({u \in v..mig[p].knows + 1 : u \notin Versions
                                                            \/ u > mig[p].knows})]
                /\ UNCHANGED <<tables, applied>>
           ELSE \E r \in {RunStatements(tables, MIGRATIONS[v])} :
                  /\ tables' = IF r.ok THEN r.db ELSE tables
                  /\ applied' = IF r.ok THEN applied \union {<<v, Name(v)>>} ELSE applied
                  /\ mig' = [mig EXCEPT ![p].next = IF r.ok THEN v + 1 ELSE v,
                                         ![p].pc = IF r.ok THEN "loop" ELSE "failed"]
    /\ UNCHANGED <<starts, kept>>

MigrationsDone(p) ==
    /\ mig[p].pc = "loop" /\ mig[p].next > mig[p].knows
    /\ mig' = [mig EXCEPT ![p].pc = "done", ![p].next = 1]
    /\ UNCHANGED <<tables, applied, starts, kept>>

MigratorDies(p) ==
    /\ mig[p].pc = "loop" /\ starts < MaxStarts
    /\ mig' = [mig EXCEPT ![p] = [pc |-> "dead", next |-> 1, knows |-> 0]]
    /\ UNCHANGED <<tables, applied, starts, kept>>

\* A build that knows the version works with the database: rows everywhere,
\* two pull requests of one run while no index forbids them.
UseDatabase ==
    /\ kept = {} /\ currentSchemaVersion \in Builds
    /\ tables' = {[t EXCEPT !.rows = IF t.name = "pull_requests" /\ currentSchemaVersion >= 4
                                      THEN {2} ELSE {1, 2}] : t \in tables}
    /\ kept' = {[name |-> t.name, rows |-> t.rows] : t \in tables'}
    /\ UNCHANGED <<applied, mig, starts>>

\* Another branch's build put its own migration in the next slot.
OtherBranchMigrates ==
    /\ \A p \in Migrators : mig[p].pc # "loop"
    /\ currentSchemaVersion + 1 \in ForeignSlots
    /\ applied' = applied \union
         {<<currentSchemaVersion + 1, ForeignName(currentSchemaVersion + 1)>>}
    /\ UNCHANGED <<tables, mig, starts, kept>>

SchemaNext ==
    \/ \E p \in Migrators :
         RunMigrations(p) \/ MigrationStep(p) \/ MigrationsDone(p) \/ MigratorDies(p)
    \/ UseDatabase
    \/ OtherBranchMigrates

SchemaSpec == SchemaInit /\ [][SchemaNext]_schemaVars

(***************************************************************************)
(* Properties.                                                             *)
(***************************************************************************)

FinalName(t) == CASE t = "goal_sessions" -> "hitch_sessions"
                  [] t = "goal_attempts" -> "hitch_attempts"
                  [] t = "goal_review_cycles" -> "hitch_review_cycles"
                  [] t = "goal_findings" -> "hitch_findings"
                  [] t = "goal_close_checks" -> "hitch_close_checks"
                  [] t = "goal_convergence_decisions" -> "hitch_convergence_decisions"
                  [] OTHER -> t

\* Whatever the version at which the database was used and whoever migrates it
\* afterwards, in whichever interleaving and with whichever process killed,
\* every row it held is still there: under the table's current name, or, for an older
\* pull request of a run, in the attempt ledger.  Only the tables that are
\* dropped on purpose lose theirs (runMigrations, the rebuilds of v4, v12,
\* v29, v30, v34 under foreign_keys = ON, and the renames of v20).
RowsSurviveMigration ==
    \A t \in {u \in kept : u.name \notin DROPPED_TABLE_NAMES} : \A r \in t.rows :
      \/ r \in Rows(tables, t.name) \union Rows(tables, FinalName(t.name))
      \/ t.name = "pull_requests" /\ r \in Rows(tables, "pull_request_attempts")

\* A database that went through every migration of this history has exactly the
\* tables that `db stats` lists, whoever ran which of them.
LatestHasItsTables ==
    (\A v \in 1..SCHEMA_VERSION : <<v, Name(v)>> \in applied)
      => Names(tables) = CURRENT_TABLE_NAMES

\* Migrations change the shape of the database to the latest one and lose
\* nothing on the way.
MigrationsKeepRows == RowsSurviveMigration /\ LatestHasItsTables

=============================================================================
