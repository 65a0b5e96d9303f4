---------------------------- MODULE BacklogItems ----------------------------
(***************************************************************************)
(* The personal backlog: rows that are canonical (core/backlog-db.ts,      *)
(* db/repositories/backlog.ts), the compatibility file                     *)
(* backlog/<status>/<id>.yaml each one is exported to (db/export-files.ts, *)
(* db/export-records.ts, db/export-bulk.ts), the older file-only items     *)
(* (core/backlog.ts), and the import every list and show begins with       *)
(* (db/import-files.ts, db/import/backlog.ts).                             *)
(*                                                                         *)
(* An item is its sequence number within one day.  Title, goal, priority   *)
(* and tags never change control and are left out; linked runs stay,       *)
(* because the file carries them.  Several commands run at once, each over *)
(* its own connection; a transaction is one step, so is one file call, and *)
(* the three removals of an export and the readings of the four            *)
(* directories by an add are one step each.                                *)
(***************************************************************************)
EXTENDS Naturals, Sequences, FiniteSets

CONSTANTS BacklogUsers,      \* commands that may run at the same time
          MaxItems,          \* ids that may be allocated
          FileOnlyItems,     \* items that begin as a file without a row
          BacklogRuns,       \* runs `backlog run` may link
          ExportModes,       \* HARNESS_EXPORT_FILES of a command
          FaultsOn,          \* TRUE: commands die and file calls fail
          MaxBacklogCommands

ASSUME BacklogAssumption == MaxItems \in Nat /\ MaxBacklogCommands \in Nat
                            /\ ExportModes \subseteq BOOLEAN
                            /\ FaultsOn \in BOOLEAN

VARIABLES items,       \* backlog_items with backlog_run_links
          yamls,       \* the files of an item, by status directory
          bcmds,       \* the commands at work
          begun        \* commands begun so far

backlogVars == <<items, yamls, bcmds, begun>>

ItemIds == 1..MaxItems
BacklogStatusDirs == <<"open", "doing", "done", "deferred">>
BacklogStatuses == {"open", "doing", "done", "deferred"}

NoItem == [mode |-> "none", status |-> "open", links |-> {}, rev |-> 0,
           export |-> "dirty", exported |-> 0]

\* insertItem: a new row is db-first, open, at revision 1 and unexported.
NewItem == [NoItem EXCEPT !.mode = "db-first", !.rev = 1]

NoYaml == [s \in BacklogStatuses |-> {}]
IdleCommand == [pc |-> "idle", op |-> "none", item |-> 1, arg |-> "none",
                files |-> FALSE, snap |-> {}]

DirsOf(i) == {s \in BacklogStatuses : yamls[i][s] # {}}

\* maxDaySequence and maxDaySequenceFromFiles.
HighestOf(ids) == CHOOSE n \in ids \cup {0} : \A k \in ids : k <= n
MaxDaySequence == HighestOf({i \in ItemIds : items[i].mode # "none"})
MaxDaySequenceFromFiles == HighestOf({i \in ItemIds : DirsOf(i) # {}})

\* assertNoLegacyRuntimeRows (the runs of the same check are left out).
NoLegacyRows == \A i \in ItemIds : items[i].mode # "legacy-file"

-----------------------------------------------------------------------------
(* The writes of the repository: what a transaction leaves of a row.       *)

Touched(row, status, links) ==
    [row EXCEPT !.status = status, !.links = links, !.rev = @ + 1,
                !.export = "dirty"]

ExpectedStatuses(target) ==
    IF target = "done" THEN {"open", "doing", "deferred"}
                       ELSE {"open", "doing"}

\* updateItemStatus; the empty set is StateConflictError.
UpdateItemStatus(row, target) ==
    CASE row.status = target -> {row}
      [] row.status \in ExpectedStatuses(target) ->
            {Touched(row, target, row.links)}
      [] OTHER -> {}

\* linkRun: whatever the status was, the item goes back to doing.
LinkRun(row, run) ==
    IF run \in row.links /\ row.status = "doing"
      THEN row ELSE Touched(row, "doing", row.links \cup {run})

\* The transaction of a command; update is backlog.update of the MCP server.
WrittenRow(row, op, arg) ==
    CASE op = "transition" -> UpdateItemStatus(row, arg)
      [] op = "link" -> {LinkRun(row, arg)}
      [] op = "update" -> {Touched(row, arg, row.links)}

\* The revision is not looked at: what a late export would leave behind.
RecordExportUnguarded(row, rev) ==
    [row EXCEPT !.export = "synced", !.exported = rev]

\* recordExportSuccess: synced only at the revision that was exported.
RecordExportSuccess(row, rev) ==
    IF row.rev = rev THEN [row EXCEPT !.export = "synced", !.exported = rev]
                     ELSE [row EXCEPT !.export = "dirty"]

\* recordExportFailure and markExportDisabled look at no revision.
RecordExportFailure(row) == [row EXCEPT !.export = "failed"]
MarkExportDisabled(row) == [row EXCEPT !.export = "disabled"]

-----------------------------------------------------------------------------
(* Import.                                                                 *)

\* A db-first row is taken for one of the importer's own.
ImportedRowOverDbFirst(row, s, yaml, force) ==
    IF row.mode = "none"
      THEN [NoItem EXCEPT !.mode = "legacy-file", !.status = s,
                          !.links = yaml.links, !.export = "synced"]
      ELSE [row EXCEPT !.status = s, !.links = yaml.links]

\* importBacklog on one file: the directory names the status.
ImportedRow(row, s, yaml, force) ==
    CASE row.mode = "none" ->
            [NoItem EXCEPT !.mode = "legacy-file", !.status = s,
                           !.links = yaml.links, !.export = "synced"]
      [] row.mode = "legacy-file" ->
            [row EXCEPT !.status = s, !.links = yaml.links]
      [] row.mode = "db-first" /\ force -> Touched(row, s, yaml.links)
      [] OTHER -> row

ImportStatusDir(rows, s, force) ==
    [i \in ItemIds |-> IF yamls[i][s] = {} THEN rows[i]
                       ELSE ImportedRow(rows[i], s, CHOOSE y \in yamls[i][s] : TRUE,
                                        force)]

\* The reset of runFullImport: a db-first row is canonical and stays.
ResetBacklogRows(rows) ==
    [i \in ItemIds |-> IF rows[i].mode = "db-first" THEN rows[i] ELSE NoItem]

ImportAllDirs(rows, force) ==
    ImportStatusDir(ImportStatusDir(ImportStatusDir(ImportStatusDir(
        rows, "open", force), "doing", force), "done", force), "deferred", force)

-----------------------------------------------------------------------------
(* Commands.                                                               *)

BacklogGoto(u, pc) == bcmds' = [bcmds EXCEPT ![u].pc = pc]
BacklogEnd(u) == bcmds' = [bcmds EXCEPT ![u] = IdleCommand]

BeginBacklog(u, pc, op, i, arg) ==
    /\ bcmds[u].pc = "idle" /\ begun < MaxBacklogCommands
    /\ begun' = begun + 1
    /\ \E files \in ExportModes :
          bcmds' = [bcmds EXCEPT ![u] = [pc |-> pc, op |-> op, item |-> i,
                                         arg |-> arg, files |-> files,
                                         snap |-> {}]]
    /\ UNCHANGED <<items, yamls>>

\* An operator names an item that has a row or a file.
KnownItem(i) == items[i].mode # "none" \/ DirsOf(i) # {}

\* backlog add, also as a deferred finding's follow-up (hitch/followups.ts).
AddBacklogItem(u) == BeginBacklog(u, "floor", "add", 1, "none")
TransitionBacklogItem(u) ==
    \E i \in ItemIds, target \in {"done", "deferred"} :
        KnownItem(i) /\ BeginBacklog(u, "gate", "transition", i, target)
\* backlog run: the item is resolved, the run takes place, and then linked.
LinkBacklogRun(u) ==
    \E i \in ItemIds, r \in BacklogRuns :
        /\ items[i].mode = "db-first" \/ Cardinality(DirsOf(i)) = 1
        /\ BeginBacklog(u, "gate", "link", i, r)
UpdateBacklogItem(u) ==
    \E i \in ItemIds, s \in BacklogStatuses :
        KnownItem(i) /\ BeginBacklog(u, "look", "update", i, s)
ListBacklogItems(u) == BeginBacklog(u, "reset", "list", 1, "none")
\* exportFiles, one db-first row of scopeIds at a time.
ExportFiles(u) ==
    \E i \in ItemIds : /\ items[i].mode = "db-first"
                       /\ BeginBacklog(u, "export", "export", i, "none")

\* maxDaySequenceFromFiles is read before the database is opened.
AddFloor(u) ==
    /\ bcmds[u].pc = "floor"
    /\ bcmds' = [bcmds EXCEPT ![u].pc = "allocate",
                              ![u].item = MaxDaySequenceFromFiles]
    /\ UNCHANGED <<items, yamls, begun>>

AddAllocate(u) ==
    /\ bcmds[u].pc = "allocate"
    /\ \/ /\ ~NoLegacyRows
          /\ BacklogEnd(u)
       \/ /\ NoLegacyRows
          /\ bcmds' = [bcmds EXCEPT ![u].pc = "insert",
                         ![u].item = HighestOf({@, MaxDaySequence}) + 1]
    /\ UNCHANGED <<items, yamls, begun>>

\* A primary-key conflict takes the next sequence.
AddInsert(u) == LET i == bcmds[u].item IN
    /\ bcmds[u].pc = "insert" /\ i \in ItemIds
    /\ \/ /\ items[i].mode # "none"
          /\ bcmds' = [bcmds EXCEPT ![u].item = i + 1]
          /\ UNCHANGED items
       \/ /\ items[i].mode = "none"
          /\ items' = [items EXCEPT ![i] = NewItem]
          /\ BacklogGoto(u, "export")
    /\ UNCHANGED <<yamls, begun>>

WriteGate(u) ==
    /\ bcmds[u].pc = "gate"
    /\ IF NoLegacyRows THEN BacklogGoto(u, "look") ELSE BacklogEnd(u)
    /\ UNCHANGED <<items, yamls, begun>>

\* A db-first row goes through the database, everything else by file; the
\* MCP tool accepts a db-first row only.
RouteBySourceMode(u) == LET c == bcmds[u] IN
    /\ c.pc = "look"
    /\ \/ /\ items[c.item].mode = "db-first"
          /\ BacklogGoto(u, "write")
       \/ /\ items[c.item].mode # "db-first"
          /\ IF c.op = "update" THEN BacklogEnd(u) ELSE BacklogGoto(u, "locate")
    /\ UNCHANGED <<items, yamls, begun>>

WriteRow(u) == LET c == bcmds[u] IN
    /\ c.pc = "write"
    /\ \/ \E row \in WrittenRow(items[c.item], c.op, c.arg) :
             /\ items' = [items EXCEPT ![c.item] = row]
             /\ BacklogGoto(u, "export")
       \/ /\ WrittenRow(items[c.item], c.op, c.arg) = {}
          /\ BacklogEnd(u)
          /\ UNCHANGED items
    /\ UNCHANGED <<yamls, begun>>

-----------------------------------------------------------------------------
(* Export of one item (exportBacklogItem).                                 *)

ExportSkipped(u) == LET c == bcmds[u] IN
    /\ c.pc = "export" /\ ~c.files /\ c.op # "export"
    /\ items' = [items EXCEPT ![c.item] = MarkExportDisabled(@)]
    /\ BacklogEnd(u)
    /\ UNCHANGED <<yamls, begun>>

ExportSnapshot(u) == LET c == bcmds[u] row == items[c.item] IN
    /\ c.pc = "export" /\ (c.files \/ c.op = "export")
    /\ bcmds' = [bcmds EXCEPT ![u].pc = "yaml",
                   ![u].snap = {[status |-> row.status, links |-> row.links,
                                 rev |-> row.rev]}]
    /\ UNCHANGED <<items, yamls, begun>>

ExportYaml(u) == LET i == bcmds[u].item IN
    /\ bcmds[u].pc = "yaml"
    /\ \E s \in bcmds[u].snap :
          yamls' = [yamls EXCEPT ![i][s.status] =
                      {[links |-> s.links, rev |-> s.rev]}]
    /\ BacklogGoto(u, "stale")
    /\ UNCHANGED <<items, begun>>

ExportRemoveStale(u) == LET i == bcmds[u].item IN
    /\ bcmds[u].pc = "stale"
    /\ \E s \in bcmds[u].snap :
          yamls' = [yamls EXCEPT ![i] = [NoYaml EXCEPT ![s.status] =
                                            yamls[i][s.status]]]
    /\ BacklogGoto(u, "record")
    /\ UNCHANGED <<items, begun>>

ExportRecord(u) == LET i == bcmds[u].item IN
    /\ bcmds[u].pc = "record"
    /\ \E s \in bcmds[u].snap :
          items' = [items EXCEPT ![i] = RecordExportSuccess(@, s.rev)]
    /\ BacklogEnd(u)
    /\ UNCHANGED <<yamls, begun>>

\* A file call throws; the export ends with a warning.
ExportFails(u) == LET i == bcmds[u].item IN
    /\ FaultsOn /\ bcmds[u].pc \in {"yaml", "stale"}
    /\ items' = [items EXCEPT ![i] = RecordExportFailure(@)]
    /\ BacklogEnd(u)
    /\ UNCHANGED <<yamls, begun>>

-----------------------------------------------------------------------------
(* File-only items: locate, rewrite the old file, rename it.               *)

\* locate refuses an item it finds in two directories.
FileLocate(u) == LET c == bcmds[u] dirs == DirsOf(c.item) IN
    /\ c.pc = "locate"
    /\ \/ /\ Cardinality(dirs) # 1
          /\ BacklogEnd(u)
       \/ /\ Cardinality(dirs) = 1
          /\ \E d \in dirs : \E y \in yamls[c.item][d] :
                IF c.op = "transition" /\ d = c.arg
                  THEN BacklogEnd(u)
                  ELSE bcmds' = [bcmds EXCEPT ![u].pc = "rewrite",
                         ![u].snap = {[status |-> d, rev |-> y.rev,
                            links |-> IF c.op = "link" THEN y.links \cup {c.arg}
                                                       ELSE y.links]}]
    /\ UNCHANGED <<items, yamls, begun>>

FileTarget(c) == IF c.op = "link" THEN "doing" ELSE c.arg

\* moveItemFile: the content goes to the old path first, then it is renamed.
FileRewrite(u) == LET c == bcmds[u] IN
    /\ c.pc = "rewrite"
    /\ \E s \in c.snap :
          /\ yamls' = [yamls EXCEPT ![c.item][s.status] =
                         {[links |-> s.links, rev |-> s.rev]}]
          /\ IF s.status = FileTarget(c) THEN BacklogEnd(u)
                                         ELSE BacklogGoto(u, "rename")
    /\ UNCHANGED <<items, begun>>

FileRename(u) == LET c == bcmds[u] IN
    /\ c.pc = "rename"
    /\ \E s \in c.snap :
          yamls' = IF yamls[c.item][s.status] = {} THEN yamls
                   ELSE [yamls EXCEPT ![c.item][s.status] = {},
                           ![c.item][FileTarget(c)] = yamls[c.item][s.status]]
    /\ BacklogEnd(u)
    /\ UNCHANGED <<items, begun>>

-----------------------------------------------------------------------------
(* list and show: reset, then the four directories, then the answer.       *)

ListReset(u) ==
    /\ bcmds[u].pc = "reset"
    /\ items' = ResetBacklogRows(items)
    /\ bcmds' = [bcmds EXCEPT ![u].pc = "import", ![u].item = 1]
    /\ UNCHANGED <<yamls, begun>>

ListImportDir(u) == LET k == bcmds[u].item IN
    /\ bcmds[u].pc = "import"
    /\ items' = ImportStatusDir(items, BacklogStatusDirs[k], FALSE)
    /\ IF k = Len(BacklogStatusDirs)
         THEN BacklogEnd(u)
         ELSE bcmds' = [bcmds EXCEPT ![u].item = k + 1]
    /\ UNCHANGED <<yamls, begun>>

-----------------------------------------------------------------------------
(* Exclusive maintenance commands: no command holds a connection.          *)

LockFree == {"idle", "floor", "locate", "rewrite", "rename"}
NobodyConnected == \A u \in BacklogUsers : bcmds[u].pc \in LockFree

\* db migrate-legacy.
MigrateLegacyItems ==
    /\ NobodyConnected /\ ~NoLegacyRows
    /\ items' = [i \in ItemIds |->
                   IF items[i].mode = "legacy-file"
                     THEN [Touched(items[i], items[i].status, items[i].links)
                              EXCEPT !.mode = "db-first"]
                     ELSE items[i]]
    /\ UNCHANGED <<yamls, bcmds, begun>>

\* db import --from-files [--reset] [--force-legacy-reconcile].
ImportBacklogFiles ==
    /\ NobodyConnected /\ begun < MaxBacklogCommands
    /\ begun' = begun + 1
    /\ \E reset, force \in BOOLEAN :
          items' = ImportAllDirs(IF reset THEN ResetBacklogRows(items)
                                          ELSE items, force)
    /\ UNCHANGED <<yamls, bcmds>>

BacklogDie(u) ==
    /\ FaultsOn /\ bcmds[u].pc # "idle"
    /\ BacklogEnd(u)
    /\ UNCHANGED <<items, yamls, begun>>

-----------------------------------------------------------------------------
BacklogInit ==
    /\ items = [i \in ItemIds |-> NoItem]
    /\ yamls = [i \in ItemIds |->
                  IF i \in FileOnlyItems
                    THEN [NoYaml EXCEPT !["open"] = {[links |-> {}, rev |-> 0]}]
                    ELSE NoYaml]
    /\ bcmds = [u \in BacklogUsers |-> IdleCommand]
    /\ begun = 0

BacklogCommand(u) ==
    \/ AddBacklogItem(u) \/ TransitionBacklogItem(u) \/ LinkBacklogRun(u)
    \/ UpdateBacklogItem(u) \/ ListBacklogItems(u) \/ ExportFiles(u)
    \/ AddFloor(u) \/ AddAllocate(u) \/ AddInsert(u)
    \/ WriteGate(u) \/ RouteBySourceMode(u) \/ WriteRow(u)
    \/ ExportSkipped(u) \/ ExportSnapshot(u) \/ ExportYaml(u)
    \/ ExportRemoveStale(u) \/ ExportRecord(u) \/ ExportFails(u)
    \/ FileLocate(u) \/ FileRewrite(u) \/ FileRename(u)
    \/ ListReset(u) \/ ListImportDir(u) \/ BacklogDie(u)

BacklogNext ==
    \/ \E u \in BacklogUsers : BacklogCommand(u)
    \/ MigrateLegacyItems \/ ImportBacklogFiles

BacklogSpec == BacklogInit /\ [][BacklogNext]_backlogVars

-----------------------------------------------------------------------------
\* A db-first row marked synced was exported at the revision it is at: a
\* slow export that lands after a newer write leaves it dirty
\* (recordExportSuccess, db/export-records.ts).
SyncedAtItsRevision ==
    \A i \in ItemIds : items[i].mode = "db-first" /\ items[i].export = "synced"
                       => items[i].exported = items[i].rev

\* A db-first row is never deleted or turned back into a file's row, and its
\* status or links change only with its revision: the import that list and
\* show run from possibly stale files never rolls it back (db/import/backlog.ts).
ReadsNeverRollBack ==
    [][\A i \in ItemIds : items[i].mode = "db-first" =>
          /\ items'[i].mode = "db-first"
          /\ \/ items'[i].rev > items[i].rev
             \/ /\ items'[i].status = items[i].status
                /\ items'[i].links = items[i].links]_backlogVars

=============================================================================
