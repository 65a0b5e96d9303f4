---------------------------- MODULE RunArtifacts ----------------------------
(***************************************************************************)
(* The bodies of one db-first run with file export off: the scratch        *)
(* directory a review materialises and removes (core/run-materialize.ts),  *)
(* the manifest it is ingested into (db/run-artifacts.ts), the body store  *)
(* in the database and the external object store the blob tools move       *)
(* bodies between (storage/blob-migration.ts, mcp/tools), and              *)
(* `maintenance cleanup`, which looks at the scratch directory only.       *)
(*                                                                         *)
(* A body stands for its sha256, so equal bodies share one blob.  A path   *)
(* is the diff (every reviewer input), a reviewer's published transcript   *)
(* or its gate-error sidecar; raw streams never become rows and are left   *)
(* out.  Processes die only at the steps named by CrashAt.                 *)
(***************************************************************************)
EXTENDS Naturals, FiniteSets

CONSTANTS ReviewerIds, Bodies,
          DiffBody,      \* the body of the reviewer inputs
          CrashAt,       \* the steps a process may be killed at
          McpGc,         \* TRUE: gc runs on a shared lock, from MCP
          MaxReviews, MaxBlobOps

ASSUME ArtifactsAssumption == DiffBody \in Bodies /\ McpGc \in BOOLEAN
                              /\ MaxReviews \in Nat /\ MaxBlobOps \in Nat

VARIABLES scratch,     \* runs/<id>: meta.json, review-decision.yaml, files
          manifest,    \* artifacts rows, at most one per path
          dbBlobs,     \* artifact_blobs
          extRows,     \* external_artifact_blobs.status, or "none"
          objects,     \* the bodies in the local object store
          review,      \* the `review auto` process
          blobOp,      \* a blob tool at work
          runTree,    \* workspaces/<id> exists
          everHeld,    \* durable paths the manifest ever had
          spent        \* reviews and blob operations begun

artifactVars == <<scratch, manifest, dbBlobs, extRows, objects, review,
                  blobOp, runTree, everHeld, spent>>

Diff == <<"input", "diff">>
LogOf(r) == <<"log", r>>
ErrOf(r) == <<"err", r>>
LogPaths == {LogOf(r) : r \in ReviewerIds}
ErrPaths == {ErrOf(r) : r \in ReviewerIds}
ArtifactPaths == {Diff} \cup LogPaths \cup ErrPaths

\* REVIEWER_RUN_DIR_INPUT_ALLOWLIST: what a reviewer is given.
ReviewerInputs == {Diff}

\* isQuarantinePreservedPath: a gate-error sidecar is transient.
IsQuarantinePreservedPath(p) == p \notin ErrPaths

NoFiles == [p \in ArtifactPaths |-> {}]
NoScratch == [meta |-> FALSE, decision |-> FALSE, files |-> NoFiles]
OnDisk == {p \in ArtifactPaths : scratch.files[p] # {}}

IdleReview == [pc |-> "idle", by |-> "none", todo |-> {}, published |-> FALSE]
IdleBlobOp == [pc |-> "idle", todo |-> {}, cur |-> {}, paths |-> {}]

ArtifactRow(p, body) == [storage |-> "db", sha |-> body, quarantined |-> FALSE]

-----------------------------------------------------------------------------
(* The maintenance lock: a command-line gc holds it exclusively.           *)

GcHoldsLock == ~McpGc /\ blobOp.pc \in {"delete", "forget"}
ReviewHoldsLock == review.pc \notin {"idle", "gate", "codex"}

-----------------------------------------------------------------------------
(* Bodies and rows.                                                        *)

\* storeArtifactBlob: INSERT OR IGNORE under the content address.
StoreArtifactBlob(blobs, body) == blobs \cup {body}

\* The manifest insert of ingestRunArtifactFile.
Upserted(rows, paths) ==
    [p \in ArtifactPaths |->
        IF p \in paths THEN {ArtifactRow(p, b) : b \in scratch.files[p]}
                       ELSE rows[p]]

StoredFiles(paths) == dbBlobs \cup UNION {scratch.files[p] : p \in paths}

\* ingestRunArtifactPaths: only the named paths, the other rows untouched.
IngestPaths(paths) ==
    /\ manifest' = Upserted(manifest, paths)
    /\ dbBlobs' = StoredFiles(paths)
    /\ everHeld' = everHeld \cup {p \in paths : IsQuarantinePreservedPath(p)}

\* Mutant: only rows whose body is still in the database count as recoverable.
IngestSurvivorsInDb ==
    [p \in ArtifactPaths |->
        {row \in manifest[p] : p \notin OnDisk /\ row.quarantined /\ row.storage = "db"}]

\* ingestRunArtifacts of a db-first run: a row survives only when its file is
\* absent and it was quarantined on purpose.
IngestSurvivors ==
    [p \in ArtifactPaths |-> {row \in manifest[p] : p \notin OnDisk /\ row.quarantined}]

IngestRunArtifacts ==
    /\ manifest' = Upserted(IngestSurvivors, OnDisk)
    /\ dbBlobs' = StoredFiles(OnDisk)
    /\ everHeld' = everHeld \cup {p \in OnDisk : IsQuarantinePreservedPath(p)}

\* LocalBlobStore.getSync: content-addressed, so a body is there or it is not.
LocalGet(sha) == sha \in objects

\* readExternalLocalArtifact: the row must say available and the object be there.
ReadExternalLocalArtifact(sha) == extRows[sha] = "available" /\ LocalGet(sha)

\* readArtifactBlob.
ReadArtifactBlob(sha) == sha \in dbBlobs

Readable(row) ==
    IF row.storage = "db" THEN ReadArtifactBlob(row.sha)
    ELSE ReadExternalLocalArtifact(row.sha)

-----------------------------------------------------------------------------
(* `review auto`: materialise, quarantine, run the agent, sync.            *)

\* exportRun: one consistent snapshot of the rows with a body, then ...
RowsWithBody == {p \in ArtifactPaths : manifest[p] # {}}

\* ... meta.json, the events and the decision (or its pending template).
ExportHead == [scratch EXCEPT !.meta = TRUE, !.decision = TRUE]

\* ensureRunMaterialized: nothing to do while meta.json and the decision are
\* there; otherwise the run is exported, without export bookkeeping.
EnsureRunMaterialized(r) ==
    /\ review.pc = "idle" /\ ~GcHoldsLock
    /\ spent.reviews < MaxReviews
    /\ spent' = [spent EXCEPT !.reviews = @ + 1]
    /\ IF scratch.meta /\ scratch.decision
       THEN /\ review' = [IdleReview EXCEPT !.pc = "gate", !.by = r]
            /\ UNCHANGED scratch
       ELSE /\ scratch' = ExportHead
            /\ review' = [IdleReview EXCEPT !.pc = "export", !.by = r,
                                            !.todo = RowsWithBody]
    /\ UNCHANGED <<manifest, dbBlobs, extRows, objects, blobOp, runTree, everHeld>>

\* exportRun: one body after another; an unreadable one fails the export and
\* the review, and what was written stays.
ExportRunBody ==
    /\ review.pc = "export"
    /\ IF review.todo = {}
       THEN /\ review' = [review EXCEPT !.pc = "gate"]
            /\ UNCHANGED scratch
       ELSE \E p \in review.todo :
              IF \E row \in manifest[p] : Readable(row)
              THEN /\ scratch' = [scratch EXCEPT
                                    !.files[p] = {row.sha : row \in manifest[p]}]
                   /\ review' = [review EXCEPT !.todo = @ \ {p}]
              ELSE review' = IdleReview /\ UNCHANGED scratch
    /\ UNCHANGED <<manifest, dbBlobs, extRows, objects, blobOp, runTree,
                   everHeld, spent>>

\* The gates before the agent: already decided, incomplete, or an active
\* proposal without --allow-overwrite.
GateRefuses ==
    /\ review.pc = "gate"
    /\ review' = [review EXCEPT !.pc = "distrust"]
    /\ UNCHANGED <<scratch, manifest, dbBlobs, extRows, objects, blobOp,
                   runTree, everHeld, spent>>

GatePasses ==
    /\ review.pc = "gate"
    /\ review' = [review EXCEPT !.pc = "ingest"]
    /\ UNCHANGED <<scratch, manifest, dbBlobs, extRows, objects, blobOp,
                   runTree, everHeld, spent>>

PriorOutputs == OnDisk \ ReviewerInputs

\* quarantinePriorReviewerVerdictArtifacts, in its three steps: ingest, ...
QuarantineIngest ==
    /\ review.pc = "ingest" /\ ~GcHoldsLock
    /\ IngestPaths(PriorOutputs)
    /\ review' = [review EXCEPT !.pc = "mark", !.todo = PriorOutputs]
    /\ UNCHANGED <<scratch, extRows, objects, blobOp, runTree, spent>>

\* ... markArtifactsQuarantined, ...
MarkArtifactsQuarantined ==
    /\ review.pc = "mark"
    /\ manifest' = [p \in ArtifactPaths |->
                      IF p \in review.todo /\ IsQuarantinePreservedPath(p)
                      THEN {[row EXCEPT !.quarantined = TRUE] : row \in manifest[p]}
                      ELSE manifest[p]]
    /\ review' = [review EXCEPT !.pc = "clear"]
    /\ UNCHANGED <<scratch, dbBlobs, extRows, objects, blobOp, runTree,
                   everHeld, spent>>

\* ... and remove every prior output from the directory, the decision too.
QuarantineClear ==
    /\ review.pc = "clear"
    /\ scratch' = [scratch EXCEPT !.decision = FALSE,
                     !.files = [p \in ArtifactPaths |->
                                  IF p \in review.todo THEN {} ELSE @[p]]]
    /\ review' = [review EXCEPT !.pc = "codex", !.todo = {}]
    /\ UNCHANGED <<manifest, dbBlobs, extRows, objects, blobOp, runTree,
                   everHeld, spent>>

\* runReviewerAgent after the agent answered: an accepted verdict leaves the
\* transcript and clears the sidecar of an earlier failure.
ReviewerSucceeds ==
    /\ review.pc = "codex"
    /\ \E b \in Bodies :
         scratch' = [scratch EXCEPT !.decision = FALSE,
                       !.files[LogOf(review.by)] = {b},
                       !.files[ErrOf(review.by)] = {}]
    /\ review' = [review EXCEPT !.pc = "sync"]
    /\ UNCHANGED <<manifest, dbBlobs, extRows, objects, blobOp, runTree,
                   everHeld, spent>>

\* A timeout, a non-zero exit, a tampered file or an unparseable answer
\* writes the gate-error sidecar; the transcript may have been published.
ReviewerFails ==
    /\ review.pc = "codex"
    /\ \E b \in Bodies, published \in BOOLEAN :
         /\ scratch' = [scratch EXCEPT !.files[LogOf(review.by)] = {b},
                                       !.files[ErrOf(review.by)] = {b}]
         /\ review' = [review EXCEPT !.pc = "distrust", !.published = published]
    /\ UNCHANGED <<manifest, dbBlobs, extRows, objects, blobOp, runTree,
                   everHeld, spent>>

\* syncRunArtifactsToDb after an accepted verdict: the whole directory.
SyncAll ==
    /\ review.pc = "sync" /\ ~GcHoldsLock
    /\ IngestRunArtifacts
    /\ review' = [review EXCEPT !.pc = "remove"]
    /\ UNCHANGED <<scratch, extRows, objects, blobOp, runTree, spent>>

\* quarantineUntrustedReviewerArtifacts: unpublished transcripts are renamed
\* to dotfiles, whichever reviewer they are of.
QuarantineUntrusted ==
    /\ review.pc = "distrust" /\ ~GcHoldsLock
    /\ scratch' = [scratch EXCEPT !.files =
                     [p \in ArtifactPaths |->
                        IF p \in LogPaths /\ ~review.published THEN {} ELSE @[p]]]
    /\ review' = [review EXCEPT !.pc = "gateIngest"]
    /\ UNCHANGED <<manifest, dbBlobs, extRows, objects, blobOp, runTree,
                   everHeld, spent>>

\* ingestRunArtifactPaths of the sidecars and the published transcripts only.
SyncGateError ==
    /\ review.pc = "gateIngest"
    /\ IngestPaths(OnDisk \ ReviewerInputs)
    /\ review' = [review EXCEPT !.pc = "discard"]
    /\ UNCHANGED <<scratch, extRows, objects, blobOp, runTree, spent>>

\* The scratch directory is not needed any more.
RemoveScratch ==
    /\ review.pc \in {"remove", "discard"}
    /\ scratch' = NoScratch
    /\ review' = IdleReview
    /\ UNCHANGED <<manifest, dbBlobs, extRows, objects, blobOp, runTree,
                   everHeld, spent>>

\* The review is killed; a recursive removal leaves any part of the tree, an
\* agent at work a transcript or none.
ReviewKilled ==
    /\ review.pc \in CrashAt
    /\ review' = IdleReview
    /\ \/ UNCHANGED scratch
       \/ /\ review.pc = "codex"
          /\ \E b \in Bodies :
               scratch' = [scratch EXCEPT !.files[LogOf(review.by)] = {b}]
       \/ /\ review.pc \in {"clear", "remove", "discard"}
          /\ \E gone \in SUBSET OnDisk, meta, decision \in BOOLEAN :
               /\ review.pc = "clear" => gone \subseteq review.todo /\ meta
               /\ scratch' =
                    [meta |-> scratch.meta /\ meta,
                     decision |-> scratch.decision /\ decision,
                     files |-> [p \in ArtifactPaths |->
                                  IF p \in gone THEN {} ELSE scratch.files[p]]]
    /\ UNCHANGED <<manifest, dbBlobs, extRows, objects, blobOp, runTree,
                   everHeld, spent>>

-----------------------------------------------------------------------------
(* The blob tools.  What a preview selected may be stale when the tool     *)
(* runs, so a selection is any set; each tool filters it again.            *)

BeginBlobOp(pc, todo, paths) ==
    /\ blobOp.pc = "idle"
    /\ spent.ops < MaxBlobOps
    /\ spent' = [spent EXCEPT !.ops = @ + 1]
    /\ blobOp' = [pc |-> pc, todo |-> todo, cur |-> {}, paths |-> paths]
    /\ UNCHANGED <<scratch, manifest, dbBlobs, extRows, objects, review,
                   runTree, everHeld>>

\* The paths a preview's artifactIds name: any run's of the same bodies.
PreviewedPaths == {ArtifactPaths, LogPaths, {Diff}}

\* The bodies of a selection that have no external row yet.
NotYetExternal(shas) == {s \in shas : ReadArtifactBlob(s) /\ extRows[s] = "none"}

\* migrateSelectedBlobsToExternal, confirmed from MCP with its preview, and
\* migrateBlobsToExternal of the command line, which selects every body.
MigrateToExternal ==
    \E shas \in SUBSET Bodies, paths \in PreviewedPaths :
       BeginBlobOp("put", NotYetExternal(shas), paths)

\* LocalBlobStore.put: a re-put of the same body changes nothing.
LocalPut(sha) == objects \cup {sha}
LocalDelete(sha) == objects \ {sha}

\* put and the verifying head of one body, ...
PutBody ==
    /\ blobOp.pc = "put" /\ blobOp.todo # {}
    /\ \E s \in blobOp.todo :
         /\ objects' = LocalPut(s)
         /\ blobOp' = [blobOp EXCEPT !.pc = "record", !.cur = {s}, !.todo = @ \ {s}]
    /\ UNCHANGED <<scratch, manifest, dbBlobs, extRows, review, runTree,
                   everHeld, spent>>

\* ... then its row (recordExternalBlob is an upsert).
RecordExternalBlob ==
    /\ blobOp.pc = "record"
    /\ extRows' = [s \in Bodies |->
                     IF s \in blobOp.cur THEN "available" ELSE extRows[s]]
    /\ blobOp' = [blobOp EXCEPT !.pc = "put", !.cur = {}]
    /\ UNCHANGED <<scratch, manifest, dbBlobs, objects, review, runTree,
                   everHeld, spent>>

\* flipSelectedArtifactsToExternal, or the command line's flip of every row.
FlipToExternal ==
    /\ blobOp.pc = "put" /\ blobOp.todo = {}
    /\ manifest' = [p \in ArtifactPaths |->
                      {IF p \in blobOp.paths /\ row.storage = "db"
                          /\ extRows[row.sha] = "available"
                       THEN [row EXCEPT !.storage = "external"] ELSE row
                         : row \in manifest[p]}]
    /\ blobOp' = IdleBlobOp
    /\ UNCHANGED <<scratch, dbBlobs, extRows, objects, review, runTree,
                   everHeld, spent>>

\* The external rows of a selection whose body is said to be available.
AvailableExternal(paths) ==
    {f \in paths \X Bodies :
       \E row \in manifest[f[1]] : row.sha = f[2] /\ row.storage = "external"
                                    /\ extRows[row.sha] = "available"}

\* migrateExternalBlobsToDb.
MigrateToDb ==
    \E paths \in PreviewedPaths : BeginBlobOp("fetch", AvailableExternal(paths), {})

\* One row: fetch and check the body, store it, then point the row back,
\* whatever that row has become; a body that is gone is only counted.
FetchToDb ==
    /\ blobOp.pc = "fetch"
    /\ IF blobOp.todo = {}
       THEN blobOp' = IdleBlobOp /\ UNCHANGED <<manifest, dbBlobs>>
       ELSE \E f \in blobOp.todo :
              /\ blobOp' = [blobOp EXCEPT !.todo = @ \ {f}]
              /\ IF LocalGet(f[2])
                 THEN /\ dbBlobs' = StoreArtifactBlob(dbBlobs, f[2])
                      /\ manifest' = [manifest EXCEPT ![f[1]] =
                                        {[row EXCEPT !.storage = "db"] : row \in @}]
                 ELSE UNCHANGED <<manifest, dbBlobs>>
    /\ UNCHANGED <<scratch, extRows, objects, review, runTree, everHeld, spent>>

\* The bodies no artifacts row refers to.
Unreferenced(shas) ==
    {s \in shas : extRows[s] # "none"
                  /\ \A p \in ArtifactPaths : \A row \in manifest[p] : row.sha # s}

\* gcExternalBlobs: the candidates are chosen once, ...
GcExternalBlobs ==
    /\ McpGc \/ ~ReviewHoldsLock
    /\ \E shas \in SUBSET Bodies : BeginBlobOp("delete", Unreferenced(shas), {})

\* ... the object goes first when objects are to be deleted, ...
GcDeleteObject ==
    /\ blobOp.pc = "delete"
    /\ IF blobOp.todo = {}
       THEN blobOp' = IdleBlobOp /\ UNCHANGED objects
       ELSE /\ \E deleteObjects \in BOOLEAN, s \in blobOp.todo :
                 /\ objects' = IF deleteObjects THEN LocalDelete(s) ELSE objects
                 /\ blobOp' = [blobOp EXCEPT !.pc = "forget", !.cur = {s}, !.todo = @ \ {s}]
    /\ UNCHANGED <<scratch, manifest, dbBlobs, extRows, review, runTree,
                   everHeld, spent>>

\* ... then its row.
GcForgetRow ==
    /\ blobOp.pc = "forget"
    /\ extRows' = [s \in Bodies |-> IF s \in blobOp.cur THEN "none" ELSE extRows[s]]
    /\ blobOp' = [blobOp EXCEPT !.pc = "delete", !.cur = {}]
    /\ UNCHANGED <<scratch, manifest, dbBlobs, objects, review, runTree,
                   everHeld, spent>>

\* verifyExternalBlobs, one row: the status becomes what the store says.
VerifyExternalBlob(s) ==
    /\ extRows[s] # "none" /\ ~GcHoldsLock
    /\ extRows' = [extRows EXCEPT ![s] =
                     IF LocalGet(s) THEN "available" ELSE "missing"]
    /\ UNCHANGED <<scratch, manifest, dbBlobs, objects, review, blobOp,
                   runTree, everHeld, spent>>

BlobOpKilled ==
    /\ blobOp.pc \in CrashAt
    /\ blobOp' = IdleBlobOp
    /\ UNCHANGED <<scratch, manifest, dbBlobs, extRows, objects, review,
                   runTree, everHeld, spent>>

-----------------------------------------------------------------------------
(* `maintenance cleanup --force`: a workspace without runs/<id>/meta.json  *)
(* counts as an orphan and is removed.                                     *)

OrphanWorktree == runTree /\ ~scratch.meta

RunMaintenanceCleanup ==
    /\ OrphanWorktree
    /\ runTree' = FALSE
    /\ UNCHANGED <<scratch, manifest, dbBlobs, extRows, objects, review,
                   blobOp, everHeld, spent>>

-----------------------------------------------------------------------------
ReviewStep ==
    \/ \E r \in ReviewerIds : EnsureRunMaterialized(r)
    \/ ExportRunBody \/ GateRefuses \/ GatePasses
    \/ QuarantineIngest \/ MarkArtifactsQuarantined \/ QuarantineClear
    \/ ReviewerSucceeds \/ ReviewerFails
    \/ SyncAll \/ QuarantineUntrusted \/ SyncGateError \/ RemoveScratch
    \/ ReviewKilled

BlobStep ==
    \/ MigrateToExternal \/ PutBody \/ RecordExternalBlob \/ FlipToExternal
    \/ MigrateToDb \/ FetchToDb
    \/ GcExternalBlobs \/ GcDeleteObject \/ GcForgetRow
    \/ \E s \in Bodies : VerifyExternalBlob(s)
    \/ BlobOpKilled

\* The run finished: its bodies are in the database, its directory is gone.
ArtifactsInit ==
    /\ scratch = NoScratch
    /\ manifest = [p \in ArtifactPaths |->
                     IF p = Diff THEN {ArtifactRow(Diff, DiffBody)} ELSE {}]
    /\ dbBlobs = {DiffBody}
    /\ extRows = [s \in Bodies |-> "none"]
    /\ objects = {}
    /\ review = IdleReview
    /\ blobOp = IdleBlobOp
    /\ runTree = TRUE
    /\ everHeld = {Diff}
    /\ spent = [reviews |-> 0, ops |-> 0]

ArtifactsNext == ReviewStep \/ BlobStep \/ RunMaintenanceCleanup

ArtifactsSpec == ArtifactsInit /\ [][ArtifactsNext]_artifactVars

-----------------------------------------------------------------------------
\* Whatever reviews run, fail or are killed and wherever the blob tools move
\* bodies meanwhile, the diff and every transcript the database once held can
\* still be read back: from its row, or from the scratch directory that a
\* review is about to ingest (ingestRunArtifacts prunes rows whose file is
\* absent, so the quarantine mark must be on each of them in time).
TranscriptsStay ==
    \A p \in everHeld :
       (\E row \in manifest[p] : Readable(row)) \/ scratch.files[p] # {}

\* A review never proceeds to read a partially materialised directory, which
\* ensureRunMaterialized promises its caller: when the agent starts, every
\* input the manifest has a body for is there.
NeverReadsPartialScratch ==
    review.pc = "codex" =>
       \A p \in ReviewerInputs : manifest[p] # {} => scratch.files[p] # {}

=============================================================================
