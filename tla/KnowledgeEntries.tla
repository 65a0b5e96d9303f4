--------------------------- MODULE KnowledgeEntries ---------------------------
(***************************************************************************)
(* Knowledge: the candidates a run proposes and the decision on each       *)
(* (core/knowledge-db.ts, db/repositories/knowledge.ts), the markdown a    *)
(* promotion writes under docs/knowledge, the entries and their revisions  *)
(* (db/repositories/knowledge-entry-revisions.ts), the import every        *)
(* refreshing command begins with (db/import/knowledge.ts), the two        *)
(* builders of the context a coding agent reads (core/knowledge-context.ts)*)
(* and operational knowledge, which only reviewers may read                *)
(* (core/operational-knowledge.ts).                                        *)
(*                                                                         *)
(* One run of one kind: candidate c, its file and its entry share the      *)
(* index c.  A markdown is its text and its `deprecated` flag; an edit     *)
(* keeps the other frontmatter.  Commands run at once, each over its own   *)
(* connection; a transaction is one step, so is a file call, the reading   *)
(* of a directory, and syncRun.  The filters of promote only skip          *)
(* candidates and are left out, as are the export columns: they steer      *)
(* nothing here, and BacklogItems has their protocol.                      *)
(***************************************************************************)
EXTENDS Naturals, Sequences, FiniteSets

CONSTANTS KnowledgeUsers,        \* commands that may run at the same time
          MaxCandidates,         \* entries of knowledge-candidates.yaml
          HashOf,                \* contentHash of a candidate
          LegacyMds,             \* candidates promoted by file before any row
          OpsKeys,               \* operational entries
          KnowledgeExportModes,  \* HARNESS_EXPORT_FILES of a command
          KnowledgeFaults,       \* TRUE: commands die and file calls fail
          MaxKnowledgeCommands

Candidates == 1..MaxCandidates
EntryIds == Candidates \cup OpsKeys

ASSUME KnowledgeAssumption ==
    /\ MaxCandidates \in Nat \ {0} /\ MaxKnowledgeCommands \in Nat
    /\ LegacyMds \subseteq Candidates /\ OpsKeys \cap Candidates = {}
    /\ KnowledgeExportModes \subseteq BOOLEAN /\ KnowledgeFaults \in BOOLEAN

VARIABLES decision,   \* knowledge_candidates.status, "none" without a row
          sidecar,    \* knowledge-decisions.yaml: {} or {the rejected}
          docs,       \* docs/knowledge: a candidate's markdown, {} or {it}
          opsDocs,    \* docs/ops-knowledge
          entries,    \* knowledge_entries: {} or {row}
          revs,       \* knowledge_entry_revisions, by version
          kcmds,      \* the commands at work
          issued      \* commands begun so far

knowledgeVars == <<decision, sidecar, docs, opsDocs, entries, revs, kcmds,
                   issued>>

Markdown == [text : {"base", "edited"}, dep : BOOLEAN]
Promoted == [text |-> "base", dep |-> FALSE]
Deprecated(m) == [m EXCEPT !.dep = TRUE]

\* The row an insert leaves; current_revision_id 0 is NULL.
NewEntry(m, cat, mode) == [cat |-> cat, mode |-> mode, md |-> m, cur |-> 0]

IdleKnowledge == [pc |-> "idle", op |-> "none", at |-> 1, flag |-> FALSE,
                  seen |-> "none", scan |-> {}, snap |-> {}, rid |-> 0]

-----------------------------------------------------------------------------
(* What the repositories' statements leave.                                *)

\* A decision replaces whichever one is there.
SetDecisionUnguarded(status, new) == IF status = "none" THEN {} ELSE {new}

\* setCandidateDecision: the empty set is StateConflictError or a lost row.
SetCandidateDecision(status, new) ==
    IF status \in {"candidate", new} THEN {new} ELSE {}

\* upsertEntry, and the importer's upsert: current_revision_id stays.
UpsertEntry(e, m) ==
    IF entries[e] = {} THEN {NewEntry(m, "codebase", "legacy-file")}
    ELSE {[r EXCEPT !.md = m, !.mode = "legacy-file"] : r \in entries[e]}

\* UPSERT_ENTRY_SQL: whatever was there becomes operational.
UpsertOperational(e, m) ==
    IF entries[e] = {} THEN {NewEntry(m, "operational", "db-first")}
    ELSE {[r EXCEPT !.md = m, !.cat = "operational", !.mode = "db-first"] :
            r \in entries[e]}

\* The current revision always follows the last import.
AlwaysSetCurrent(mode, row) == TRUE

ShouldSetCurrent(mode, row) == mode = "set-current" \/ row.cur = 0

\* recordKnowledgeEntryRevision, on the rows an upsert of the same
\* transaction left: an equal latest revision is reused.
RevisionsWith(e, m) ==
    IF revs[e] # <<>> /\ revs[e][Len(revs[e])] = m THEN revs[e]
                                                   ELSE Append(revs[e], m)
RecordRevision(rows, e, m, mode) ==
    LET ensured == IF rows = {} THEN {NewEntry(m, "codebase", "legacy-file")}
                                ELSE rows
    IN  /\ revs' = [revs EXCEPT ![e] = RevisionsWith(e, m)]
        /\ entries' = [entries EXCEPT ![e] =
              {IF ShouldSetCurrent(mode, r)
                 THEN [r EXCEPT !.cur = Len(RevisionsWith(e, m))] ELSE r :
                    r \in ensured}]

\* currentKnowledgeMarkdown.
CurrentMarkdown(e, row) == IF row.cur = 0 THEN row.md ELSE revs[e][row.cur]

\* listCurrentKnowledgeRevisions: codebase unless asked otherwise.
CurrentOf(cat) ==
    {e \in EntryIds : \E r \in entries[e] : r.cat = cat /\ r.cur # 0}
DeprecatedNow(e) ==
    \E r \in entries[e] : r.cur # 0 /\ revs[e][r.cur].dep

\* buildKnowledgeContext, buildKnowledgeContextFromDb and
\* buildOperationalKnowledgeReviewSection.
ContextFromFiles == {c \in Candidates : \E m \in docs[c] : ~m.dep}
ContextFromDb == {e \in CurrentOf("codebase") : ~DeprecatedNow(e)}
ReviewSection == {e \in CurrentOf("operational") : ~DeprecatedNow(e)}

-----------------------------------------------------------------------------
(* Commands.                                                               *)

KGoto(u, pc) == kcmds' = [kcmds EXCEPT ![u].pc = pc]
KEnd(u) == kcmds' = [kcmds EXCEPT ![u] = IdleKnowledge]
\* The next candidate or file of a loop, read again at pc.
KNextAt(u, c, pc) ==
    IF c.at = MaxCandidates THEN KEnd(u)
    ELSE kcmds' = [kcmds EXCEPT ![u] = [c EXCEPT !.pc = pc, !.at = c.at + 1,
                                          !.seen = "none", !.snap = {}]]
Store == <<decision, sidecar, docs, opsDocs, entries, revs>>

BeginKnowledge(u, pc, op, at, flag) ==
    /\ kcmds[u].pc = "idle" /\ issued < MaxKnowledgeCommands
    /\ issued' = issued + 1
    /\ kcmds' = [kcmds EXCEPT ![u] = [IdleKnowledge EXCEPT
                   !.pc = pc, !.op = op, !.at = at, !.flag = flag]]
    /\ UNCHANGED Store

\* The flag of promote is --allow-duplicate, that of reject file export.
Promote(u) == \E dup \in BOOLEAN : BeginKnowledge(u, "sync", "promote", 1, dup)
Reject(u) == \E c \in Candidates, files \in KnowledgeExportModes :
                BeginKnowledge(u, "sync", "reject", c, files)
ExportDecisions(u) == BeginKnowledge(u, "sidecar", "reject", 1, TRUE)
Deprecate(u) == \E e \in EntryIds : BeginKnowledge(u, "read_row", "deprecate", e, FALSE)
Edit(u) == \E e \in EntryIds : BeginKnowledge(u, "read_row", "edit", e, FALSE)
\* runFullImport with reset, and knowledge import --from-docs.
Refresh(u) == BeginKnowledge(u, "reset", "if-missing", 1, FALSE)
ImportDocs(u) == BeginKnowledge(u, "import", "set-current", 1, FALSE)

\* Content never touches a decision; a rejection of the sidecar enters a row
\* that is still undecided (migrateLegacyRejections).
Synced(c) == IF decision[c] \notin {"none", "candidate"} THEN decision[c]
             ELSE IF \E s \in sidecar : c \in s THEN "rejected" ELSE "candidate"
SyncRun(u) ==
    /\ kcmds[u].pc = "sync"
    /\ decision' = [c \in Candidates |-> Synced(c)]
    /\ KGoto(u, IF kcmds[u].op = "promote" THEN "read" ELSE "decide")
    /\ UNCHANGED <<sidecar, docs, opsDocs, entries, revs, issued>>

-----------------------------------------------------------------------------
(* promoteKnowledgeDbFirst, one candidate after the other.                 *)

PromoteRead(u) == LET c == kcmds[u] IN
    /\ c.pc = "read"
    /\ IF decision[c.at] = "rejected"
         THEN KNextAt(u, c, "read")
         ELSE kcmds' = [kcmds EXCEPT ![u].seen = decision[c.at],
                          ![u].pc = IF c.scan = {} THEN "scan" ELSE "decide"]
    /\ UNCHANGED <<Store, issued>>

\* scanKindDir, once for the kind.
PromoteScan(u) ==
    /\ kcmds[u].pc = "scan"
    /\ LET found == {c \in Candidates : docs[c] # {}} IN
       kcmds' = [kcmds EXCEPT ![u].pc = "decide",
                   ![u].scan = {[keys |-> found,
                                 hashes |-> {HashOf[c] : c \in found}]}]
    /\ UNCHANGED <<Store, issued>>

ScannedKey(c) == \E s \in c.scan : c.at \in s.keys
ScannedHash(c) == \E s \in c.scan : HashOf[c.at] \in s.hashes

PromoteSkip(u) == LET c == kcmds[u] IN
    /\ c.pc = "decide" /\ c.op = "promote"
    /\ \/ ScannedKey(c) /\ c.seen # "candidate"
       \/ ~ScannedKey(c) /\ ScannedHash(c) /\ ~c.flag
    /\ KNextAt(u, c, "read")
    /\ UNCHANGED <<Store, issued>>

\* The decision and the entry in one transaction; a conflict ends the command.
PromoteCommit(u) == LET c == kcmds[u] IN
    /\ c.pc = "decide" /\ c.op = "promote"
    /\ ~ScannedKey(c) /\ (c.flag \/ ~ScannedHash(c))
    /\ \/ \E d \in SetCandidateDecision(decision[c.at], "promoted") :
             /\ decision' = [decision EXCEPT ![c.at] = d]
             /\ entries' = [entries EXCEPT ![c.at] = UpsertEntry(c.at, Promoted)]
             /\ KGoto(u, "write")
       \/ /\ SetCandidateDecision(decision[c.at], "promoted") = {}
          /\ KEnd(u)
          /\ UNCHANGED <<decision, entries>>
    /\ UNCHANGED <<sidecar, docs, opsDocs, revs, issued>>

\* The scan kept in memory learns of the candidate even when the file failed.
PromoteWrite(u) == LET c == kcmds[u] IN
    /\ c.pc = "write"
    /\ \/ docs' = [docs EXCEPT ![c.at] = {Promoted}]
       \/ KnowledgeFaults /\ UNCHANGED docs
    /\ KNextAt(u, [c EXCEPT !.scan =
                     {[keys |-> s.keys \cup {c.at},
                       hashes |-> s.hashes \cup {HashOf[c.at]}] : s \in c.scan}],
               "read")
    /\ UNCHANGED <<decision, sidecar, opsDocs, entries, revs, issued>>

\* reconcileFromExistingMd: the file is read, the decision is taken, and the
\* entry follows in a statement of its own.
ReconcileDecide(u) == LET c == kcmds[u] IN
    /\ c.pc = "decide" /\ c.op = "promote"
    /\ ScannedKey(c) /\ c.seen = "candidate"
    /\ \/ \E d \in SetCandidateDecision(decision[c.at], "promoted") :
             /\ decision' = [decision EXCEPT ![c.at] = d]
             /\ kcmds' = [kcmds EXCEPT ![u].pc = "upsert",
                                       ![u].snap = docs[c.at]]
       \/ /\ SetCandidateDecision(decision[c.at], "promoted") = {}
          /\ KEnd(u)
          /\ UNCHANGED decision
    /\ UNCHANGED <<sidecar, docs, opsDocs, entries, revs, issued>>

ReconcileEntry(u) == LET c == kcmds[u] IN
    /\ c.pc = "upsert" /\ c.op = "promote"
    /\ \E m \in c.snap : entries' = [entries EXCEPT ![c.at] = UpsertEntry(c.at, m)]
    /\ KNextAt(u, c, "read")
    /\ UNCHANGED <<decision, sidecar, docs, opsDocs, revs, issued>>

-----------------------------------------------------------------------------
(* rejectKnowledgeDbFirst and exportKnowledgeDecisions.                    *)

RejectDecide(u) == LET c == kcmds[u] IN
    /\ c.pc = "decide" /\ c.op = "reject"
    /\ \/ \E d \in SetCandidateDecision(decision[c.at], "rejected") :
             /\ decision' = [decision EXCEPT ![c.at] = d]
             /\ IF c.flag THEN KGoto(u, "sidecar") ELSE KEnd(u)
       \/ /\ SetCandidateDecision(decision[c.at], "rejected") = {}
          /\ KEnd(u)
          /\ UNCHANGED decision
    /\ UNCHANGED <<sidecar, docs, opsDocs, entries, revs, issued>>

\* No rejection, no file: an existing one is left alone unless it is empty.
SidecarRead(u) == LET rejected == {c \in Candidates : decision[c] = "rejected"} IN
    /\ kcmds[u].pc = "sidecar"
    /\ IF rejected = {} THEN KEnd(u)
       ELSE kcmds' = [kcmds EXCEPT ![u].pc = "sidecar_write",
                                   ![u].snap = {rejected}]
    /\ UNCHANGED <<Store, issued>>

SidecarWrite(u) ==
    /\ kcmds[u].pc = "sidecar_write"
    /\ sidecar' = kcmds[u].snap \/ (KnowledgeFaults /\ UNCHANGED sidecar)
    /\ KEnd(u)
    /\ UNCHANGED <<decision, docs, opsDocs, entries, revs, issued>>

-----------------------------------------------------------------------------
(* deprecateKnowledgeDbFirst and knowledge edit.                           *)

\* Neither takes an operational entry; an edit needs a current revision.
ReadRow(u) == LET c == kcmds[u] IN
    /\ c.pc = "read_row"
    /\ LET ok == {r \in entries[c.at] : /\ r.cat = "codebase"
                                        /\ c.op = "edit" => r.cur # 0}
       IN IF ok = {} THEN KEnd(u)
          ELSE kcmds' = [kcmds EXCEPT ![u].pc = "revise",
                 ![u].snap = {[r EXCEPT !.md = CurrentMarkdown(c.at, r)] : r \in ok}]
    /\ UNCHANGED <<Store, issued>>

\* The editor gives any markdown back; a deprecation flips the flag of the
\* markdown that was read.
Revised(c) == IF c.op = "edit" THEN Markdown
              ELSE {Deprecated(r.md) : r \in c.snap}
Revise(u) == LET c == kcmds[u] IN
    /\ c.pc = "revise"
    /\ \E m \in Revised(c) :
          /\ RecordRevision(entries[c.at], c.at, m, "set-current")
          /\ kcmds' = [kcmds EXCEPT ![u].pc = "row",
                         ![u].rid = Len(RevisionsWith(c.at, m)),
                         ![u].snap = {[r EXCEPT !.md = m] : r \in c.snap},
                         ![u].flag = \E r \in c.snap : r.md = m]
    /\ UNCHANGED <<decision, sidecar, docs, opsDocs, issued>>

\* deprecate writes the pointer again, edit does not; needsRowUpdate compares
\* with the row read at the start.
RowUpdate(u) == LET c == kcmds[u] IN
    /\ c.pc = "row"
    /\ entries' = [entries EXCEPT ![c.at] =
          {IF \E s \in c.snap : c.op = "deprecate" /\ c.flag /\ s.cur = c.rid
                                /\ s.mode = "db-first"
             THEN r
             ELSE [r EXCEPT !.md = CHOOSE m \in Markdown : \E s \in c.snap : m = s.md,
                            !.mode = "db-first",
                            !.cur = IF c.op = "deprecate" THEN c.rid ELSE @] :
             r \in entries[c.at]}]
    /\ IF c.op = "deprecate" THEN KGoto(u, "publish") ELSE KEnd(u)
    /\ UNCHANGED <<decision, sidecar, docs, opsDocs, revs, issued>>

DeprecateWrite(u) == LET c == kcmds[u] IN
    /\ c.pc = "publish"
    /\ \/ docs' = [docs EXCEPT ![c.at] = {s.md : s \in c.snap}]
       \/ KnowledgeFaults /\ UNCHANGED docs
    /\ KEnd(u)
    /\ UNCHANGED <<decision, sidecar, opsDocs, entries, revs, issued>>

-----------------------------------------------------------------------------
(* Import and export of docs/knowledge.                                    *)

\* The reset drops undecided candidates and entries without a current
\* revision; importCandidates then inserts the run's candidates again.
ImportReset(u) ==
    /\ kcmds[u].pc = "reset"
    /\ decision' = [c \in Candidates |-> IF decision[c] = "candidate"
                                           THEN "none" ELSE decision[c]]
    /\ entries' = [e \in EntryIds |-> {r \in entries[e] : r.cur # 0}]
    /\ KGoto(u, "candidates")
    /\ UNCHANGED <<sidecar, docs, opsDocs, revs, issued>>

ImportCandidates(u) ==
    /\ kcmds[u].pc = "candidates"
    /\ decision' = [c \in Candidates |-> IF decision[c] = "none"
                                           THEN "candidate" ELSE decision[c]]
    /\ KGoto(u, "import")
    /\ UNCHANGED <<sidecar, docs, opsDocs, entries, revs, issued>>

\* importEntries: the file and current_revision_id are read, then the row is
\* upserted, then the revision is recorded, each on its own.
ImportRead(u) == LET c == kcmds[u] IN
    /\ c.pc = "import"
    /\ IF docs[c.at] = {} \/ ~(c.op = "set-current"
                               \/ \A r \in entries[c.at] : r.cur = 0)
         THEN KNextAt(u, c, "import")
         ELSE kcmds' = [kcmds EXCEPT ![u].pc = "upsert", ![u].snap = docs[c.at]]
    /\ UNCHANGED <<Store, issued>>

ImportUpsert(u) == LET c == kcmds[u] IN
    /\ c.pc = "upsert" /\ c.op # "promote"
    /\ \E m \in c.snap : entries' = [entries EXCEPT ![c.at] = UpsertEntry(c.at, m)]
    /\ KGoto(u, "record")
    /\ UNCHANGED <<decision, sidecar, docs, opsDocs, revs, issued>>

ImportRecord(u) == LET c == kcmds[u] IN
    /\ c.pc = "record"
    /\ \E m \in c.snap : RecordRevision(entries[c.at], c.at, m, c.op)
    /\ KNextAt(u, c, "import")
    /\ UNCHANGED <<decision, sidecar, docs, opsDocs, issued>>

\* knowledge export --to-docs: every current codebase revision.
ExportToDocs ==
    /\ issued < MaxKnowledgeCommands /\ issued' = issued + 1
    /\ docs' = [c \in Candidates |->
                  IF c \in CurrentOf("codebase")
                    THEN {revs[c][r.cur] : r \in entries[c]} ELSE docs[c]]
    /\ UNCHANGED <<decision, sidecar, opsDocs, entries, revs, kcmds>>

-----------------------------------------------------------------------------
(* Operational knowledge: each command is one immediate transaction.       *)

OpsWrite(k, m) ==
    /\ issued < MaxKnowledgeCommands /\ issued' = issued + 1
    /\ RecordRevision(UpsertOperational(k, m), k, m, "set-current")
    /\ UNCHANGED <<decision, sidecar, docs, opsDocs, kcmds>>

RecordOperational ==
    \E k \in OpsKeys, t \in {"base", "edited"} :
        OpsWrite(k, [text |-> t, dep |-> FALSE])

DeprecateOperational ==
    \E k \in CurrentOf("operational") : \E r \in entries[k] :
        ~DeprecatedNow(k) /\ OpsWrite(k, Deprecated(revs[k][r.cur]))

\* A file's deprecation rides in its frontmatter.
ImportOperationalEntry(k, m) == OpsWrite(k, m)
ImportOperational ==
    \E k \in OpsKeys : \E m \in opsDocs[k] : ImportOperationalEntry(k, m)

\* Every operational entry, deprecated ones too; other files are pruned.
ExportOperational ==
    /\ issued < MaxKnowledgeCommands /\ issued' = issued + 1
    /\ opsDocs' = [k \in OpsKeys |->
                     IF k \in CurrentOf("operational")
                       THEN {revs[k][r.cur] : r \in entries[k]} ELSE {}]
    /\ UNCHANGED <<decision, sidecar, docs, entries, revs, kcmds>>

-----------------------------------------------------------------------------
KnowledgeDie(u) ==
    /\ KnowledgeFaults /\ kcmds[u].pc # "idle"
    /\ KEnd(u)
    /\ UNCHANGED <<Store, issued>>

KnowledgeInit ==
    /\ decision = [c \in Candidates |-> "none"]
    /\ sidecar = {}
    /\ docs = [c \in Candidates |-> IF c \in LegacyMds THEN {Promoted} ELSE {}]
    /\ opsDocs = [k \in OpsKeys |-> {}]
    /\ entries = [e \in EntryIds |-> {}]
    /\ revs = [e \in EntryIds |-> <<>>]
    /\ kcmds = [u \in KnowledgeUsers |-> IdleKnowledge]
    /\ issued = 0

KnowledgeCommand(u) ==
    \/ Promote(u) \/ Reject(u) \/ ExportDecisions(u) \/ Deprecate(u)
    \/ Edit(u) \/ Refresh(u) \/ ImportDocs(u) \/ SyncRun(u)
    \/ PromoteRead(u) \/ PromoteScan(u) \/ PromoteSkip(u) \/ PromoteCommit(u)
    \/ PromoteWrite(u) \/ ReconcileDecide(u) \/ ReconcileEntry(u)
    \/ RejectDecide(u) \/ SidecarRead(u) \/ SidecarWrite(u)
    \/ ReadRow(u) \/ Revise(u) \/ RowUpdate(u) \/ DeprecateWrite(u)
    \/ ImportReset(u) \/ ImportCandidates(u) \/ ImportRead(u)
    \/ ImportUpsert(u) \/ ImportRecord(u) \/ KnowledgeDie(u)

KnowledgeNext ==
    \/ \E u \in KnowledgeUsers : KnowledgeCommand(u)
    \/ ExportToDocs \/ RecordOperational \/ DeprecateOperational
    \/ ImportOperational \/ ExportOperational

KnowledgeSpec == KnowledgeInit /\ [][KnowledgeNext]_knowledgeVars

-----------------------------------------------------------------------------
\* Whatever a coding agent may read, from the files or from the database, was
\* promoted and is not rejected, and no operational entry is among it ("they
\* cannot leak into a run's context", core/knowledge-context.ts); only a file
\* promoted before there were rows needs no decision.  The section of a
\* reviewer's prompt in turn holds operational entries only.
ContextIsVetted ==
    /\ \A e \in ContextFromFiles \cup ContextFromDb :
           e \in Candidates /\ (e \in LegacyMds \/ decision[e] = "promoted")
    /\ ReviewSection \subseteq OpsKeys

\* An entry whose current revision is deprecated comes back into the context
\* only by an edit or an explicit import of the docs: never by a promotion,
\* and never by the import a refreshing command runs, however it interleaves
\* with the deprecation (importEntries, recordKnowledgeEntryRevision).
DeprecationStands ==
    [][\A e \in Candidates : DeprecatedNow(e) /\ e \in ContextFromDb' =>
          \E u \in KnowledgeUsers :
              /\ kcmds[u] # kcmds'[u]
              /\ kcmds[u].pc \in {"revise", "record"}
              /\ kcmds[u].op \in {"edit", "set-current"}]_knowledgeVars
=============================================================================
