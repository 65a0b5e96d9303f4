----------------------------- MODULE StoresProofs -----------------------------
(***************************************************************************)
(* Proofs about what is kept: the database file under backup, restore and  *)
(* crashes (DbStore), the backlog's rows under writes, exports and imports *)
(* that interleave (BacklogItems), the bodies of a run under reviews that  *)
(* die and blob tools that move them (RunArtifacts), what may enter the    *)
(* context of a coding agent (KnowledgeEntries), and the rows and tables   *)
(* of the database across migrations (SchemaMigrations).                   *)
(***************************************************************************)
EXTENDS DbStore, BacklogItems, RunArtifacts, KnowledgeEntries, SchemaMigrations,
        SequenceTheorems, WellFoundedInduction, TLAPS

-----------------------------------------------------------------------------
(* The database file.  The invariant has four parts: the shapes of the     *)
(* variables, what a process holds at each of its steps, that an exclusive *)
(* lock excludes, and, as long as no swap was interrupted, that file and   *)
(* log together are the truth.                                             *)

StoreJobs == {"command", "backup", "stats", "restore", "checkpoint", "vacuum", "status"}
OnConnection == {"open", "work", "close"}
OnSwap == {"copy", "validate", "rename", "dropWal"}
StorePcs == {"idle", "acquire"} \cup OnConnection \cup OnSwap

\* Contents without a page of another database.
Unmixed == SUBSET (Nat \ {0})

StoreShapes ==
    /\ flock \in [Procs -> {"none", "shared", "exclusive"}]
    /\ proc \in [Procs -> [pc: StorePcs, job: StoreJobs \cup {"none"},
                           arg: Backups \cup {"none"}]]
    /\ main \in [inode: Nat, content: SUBSET Nat]
    /\ wal \in [inode: Nat, content: SUBSET Nat]
    /\ backup \in [Backups -> SUBSET (SUBSET Nat)]
    /\ tmp \in [Operators -> SUBSET (SUBSET Nat)]
    /\ opened \in [Procs -> Nat]
    /\ truth \in SUBSET Nat
    /\ bounds \in [commits: Nat, inodes: Nat, deaths: Nat, interrupted: BOOLEAN]

\* What a process holds where it stands: a connection is worked on under the
\* lock mode of its job, a file is swapped under the exclusive lock and
\* without a handle, and everywhere else nothing is held.
Holds(p) ==
    /\ proc[p].pc # "idle" => proc[p].arg \in Backups /\ proc[p].job \in StoreJobs
    /\ proc[p].pc \in {"idle", "acquire"} => flock[p] = "none"
    /\ proc[p].pc \in OnConnection =>
          flock[p] = ModeOf(proc[p].job) /\ proc[p].job # "restore"
    /\ proc[p].pc \in OnSwap => flock[p] = "exclusive"
    /\ proc[p].pc \in {"work", "close"} <=> opened[p] # 0

HoldersStand == \A p \in Procs : Holds(p)

LocksExclude == \A p, q \in Procs : p # q /\ flock[p] = "exclusive" => flock[q] = "none"

FileIsNewest == main.inode = bounds.inodes /\ main.inode # 0

Swapping == \E p \in Procs : proc[p].pc = "dropWal"

NothingIsMixed ==
    /\ main.content \in Unmixed /\ wal.content \in Unmixed /\ truth \in Unmixed
    /\ \A b \in Backups : backup[b] \subseteq Unmixed
    /\ \A p \in Operators : tmp[p] \subseteq Unmixed

HandlesAreCurrent ==
    \A p \in Procs : opened[p] # 0 /\ flock[p] # "none" => opened[p] = main.inode

\* Between the rename and the removal of the log the new file alone is the
\* truth; at any other time the file with its own log is.
FileHoldsTruth ==
    /\ Swapping => main.content = truth
    /\ ~Swapping => /\ wal = NoWal \/ wal.inode = main.inode
                    /\ main.content \cup wal.content = truth

WholeUnlessInterrupted ==
    bounds.interrupted \/ (NothingIsMixed /\ HandlesAreCurrent /\ FileHoldsTruth)

StoreInv == StoreShapes /\ HoldersStand /\ LocksExclude /\ FileIsNewest
            /\ WholeUnlessInterrupted

LEMMA ViewIsContent ==
    ASSUME StoreShapes
    PROVE  View \in SUBSET Nat
BY DEF StoreShapes, View, Mixed, NoWal

ProcShapes == proc \in [Procs -> [pc: StorePcs, job: StoreJobs \cup {"none"},
                                   arg: Backups \cup {"none"}]]
FlockShapes == flock \in [Procs -> {"none", "shared", "exclusive"}]

LEMMA EndShapes ==
    ASSUME StoreShapes, NEW p \in Procs, End(p)
    PROVE  ProcShapes' /\ FlockShapes'
BY DEF StoreShapes, End, Idle, ProcShapes, FlockShapes, StorePcs

LEMMA GotoShapes ==
    ASSUME StoreShapes, NEW p \in Procs, NEW pc \in StorePcs, Goto(p, pc)
    PROVE  ProcShapes'
BY SMTT(30) DEF StoreShapes, Goto, ProcShapes

\* A step of one process.
StoreStepOf(p) ==
    \/ StartJob(p) \/ acquire(p) \/ acquireTimedOut(p)
    \/ OpenDb(p) \/ CloseDb(p) \/ Commit(p) \/ EndWork(p)
    \/ backupDb(p) \/ checkpointDb(p) \/ vacuumDb(p) \/ Die(p)
    \/ p \in Operators /\ (restoreCopy(p) \/ validateHarnessDb(p)
                           \/ restoreRename(p) \/ restoreDropWal(p))

LEMMA StoreShapesStep ==
    ASSUME StoreShapes, HoldersStand, NEW p \in Procs,
           StoreStepOf(p)
    PROVE  StoreShapes'
PROOF
<1> USE DEF StorePcs, OnConnection, OnSwap
<1> HIDE DEF StoreShapes, ProcShapes, FlockShapes, End, Goto
<1>0. View \in SUBSET Nat
  BY ViewIsContent
<1>a. StoreShapes => ProcShapes /\ FlockShapes
  BY DEF StoreShapes, ProcShapes, FlockShapes
<1>b. (ProcShapes' /\ FlockShapes' /\ UNCHANGED <<files, truth, bounds>>
        /\ opened' \in [Procs -> Nat]) => StoreShapes'
  BY DEF StoreShapes, ProcShapes, FlockShapes, files
<1>1. CASE StartJob(p)
  <2>1. ProcShapes'
    BY <1>1, <1>a DEF StartJob, ProcShapes, StoreJobs
  <2>2. QED
    BY <1>1, <2>1, <1>a, <1>b DEF StartJob, FlockShapes, StoreShapes
<1>2. CASE acquire(p)
  <2>1. ProcShapes'
    BY <1>2, GotoShapes DEF acquire
  <2>2. ModeOf(proc[p].job) \in {"none", "shared", "exclusive"}
    BY <1>2 DEF acquire, ModeOf, HoldersStand, Holds, StoreJobs
  <2>3. FlockShapes'
    BY <1>2, <1>a, <2>2 DEF acquire, FlockShapes
  <2>4. QED
    BY <1>2, <2>1, <2>3, <1>b DEF acquire, StoreShapes
<1>3. CASE acquireTimedOut(p)
  BY <1>3, <1>b, EndShapes DEF acquireTimedOut, StoreShapes
<1>4. CASE OpenDb(p)
  <2>1. ProcShapes' /\ FlockShapes'
    BY <1>4, <1>a, EndShapes, GotoShapes DEF OpenDb, FlockShapes
  <2>2. opened' \in [Procs -> Nat]
    BY <1>4 DEF OpenDb, StoreShapes
  <2>3. QED
    BY <1>4, <2>1, <2>2, <1>b DEF OpenDb
<1>5. CASE CloseDb(p)
  <2>1. ProcShapes' /\ FlockShapes'
    BY <1>5, EndShapes DEF CloseDb
  <2>2. main' \in [inode: Nat, content: SUBSET Nat] /\ wal' \in [inode: Nat, content: SUBSET Nat]
    BY <1>5, <1>0 DEF CloseDb, StoreShapes, Checkpointed, NoWal
  <2>3. QED
    BY <1>5, <2>1, <2>2 DEF CloseDb, StoreShapes, ProcShapes, FlockShapes
<1>6. CASE Commit(p)
  BY <1>6 DEF Commit, NoWal, StoreShapes
<1>7. CASE EndWork(p)
  BY <1>7, <1>a, <1>b, GotoShapes DEF EndWork, FlockShapes, StoreShapes
<1>8. CASE backupDb(p)
  <2>1. ProcShapes'
    BY <1>8, GotoShapes DEF backupDb
  <2>2. backup' \in [Backups -> SUBSET (SUBSET Nat)]
    BY <1>8, <1>0 DEF backupDb, StoreShapes
  <2>3. QED
    BY <1>8, <2>1, <2>2 DEF backupDb, StoreShapes, ProcShapes
<1>9. CASE checkpointDb(p)
  <2>1. ProcShapes'
    BY <1>9, GotoShapes DEF checkpointDb
  <2>2. main' \in [inode: Nat, content: SUBSET Nat] /\ wal' \in [inode: Nat, content: SUBSET Nat]
    BY <1>9, <1>0 DEF checkpointDb, StoreShapes, Checkpointed, NoWal
  <2>3. QED
    BY <1>9, <2>1, <2>2 DEF checkpointDb, StoreShapes, ProcShapes
<1>10. CASE vacuumDb(p)
  <2>1. ProcShapes'
    BY <1>10, GotoShapes DEF vacuumDb
  <2>2. wal' \in [inode: Nat, content: SUBSET Nat]
    BY <1>10, <1>0 DEF vacuumDb, StoreShapes
  <2>3. QED
    BY <1>10, <2>1, <2>2 DEF vacuumDb, StoreShapes, ProcShapes
<1>11. CASE Die(p)
  <2>1. ProcShapes' /\ FlockShapes'
    BY <1>11, EndShapes DEF Die
  <2>2. bounds' \in [commits: Nat, inodes: Nat, deaths: Nat, interrupted: BOOLEAN]
    <3>1. PICK i \in BOOLEAN :
              bounds' = [bounds EXCEPT !.deaths = @ + 1, !.interrupted = i]
      BY <1>11 DEF Die, StoreShapes
    <3>2. bounds \in [commits: Nat, inodes: Nat, deaths: Nat, interrupted: BOOLEAN]
      BY DEF StoreShapes
    <3>3. bounds' = [commits |-> bounds.commits, inodes |-> bounds.inodes,
                     deaths |-> bounds.deaths + 1, interrupted |-> i]
      BY ONLY <3>1, <3>2
    <3>4. QED
      BY ONLY <3>2, <3>3, i \in BOOLEAN
  <2>3. opened' \in [Procs -> Nat]
    BY <1>11 DEF Die, StoreShapes
  <2>4. QED
    BY <1>11, <2>1, <2>2, <2>3 DEF Die, StoreShapes, ProcShapes, FlockShapes, files
<1>12. CASE restoreCopy(p)
  <2>1. ProcShapes' /\ FlockShapes'
    BY <1>12, <1>a, EndShapes, GotoShapes DEF restoreCopy, FlockShapes
  <2>2. tmp' \in [Operators -> SUBSET (SUBSET Nat)]
    <3>1. proc[p].arg \in Backups
      BY <1>12 DEF restoreCopy, HoldersStand, Holds
    <3>2. QED
      BY <1>12, <3>1 DEF restoreCopy, StoreShapes
  <2>3. QED
    BY <1>12, <2>1, <2>2 DEF restoreCopy, StoreShapes, ProcShapes, FlockShapes
<1>13. CASE validateHarnessDb(p)
  <2>1. ProcShapes' /\ FlockShapes'
    BY <1>13, <1>a, EndShapes, GotoShapes DEF validateHarnessDb, FlockShapes
  <2>2. tmp' \in [Operators -> SUBSET (SUBSET Nat)]
    BY <1>13 DEF validateHarnessDb, StoreShapes
  <2>3. QED
    BY <1>13, <2>1, <2>2 DEF validateHarnessDb, StoreShapes, ProcShapes, FlockShapes
<1>14. CASE p \in Operators /\ restoreRename(p)
  <2>1. ProcShapes'
    BY <1>14, GotoShapes DEF restoreRename
  <2>2. tmp' \in [Operators -> SUBSET (SUBSET Nat)]
    BY <1>14 DEF restoreRename, StoreShapes
  <2>3. bounds' \in [commits: Nat, inodes: Nat, deaths: Nat, interrupted: BOOLEAN]
    BY <1>14 DEF restoreRename, StoreShapes
  <2>4. UNION tmp[p] \in SUBSET Nat
    BY <1>14 DEF StoreShapes
  <2>5. main' \in [inode: Nat, content: SUBSET Nat] /\ truth' \in SUBSET Nat
    BY <1>14, <2>3, <2>4 DEF restoreRename
  <2>6. QED
    BY <1>14, <2>1, <2>2, <2>3, <2>5 DEF restoreRename, StoreShapes, ProcShapes
<1>15. CASE restoreDropWal(p)
  <2>1. ProcShapes' /\ FlockShapes'
    BY <1>15, EndShapes DEF restoreDropWal
  <2>2. QED
    BY <1>15, <2>1 DEF restoreDropWal, StoreShapes, ProcShapes, FlockShapes, NoWal
<1>16. QED
  BY <1>1, <1>2, <1>3, <1>4, <1>5, <1>6, <1>7, <1>8, <1>9, <1>10, <1>11, <1>12,
     <1>13, <1>14, <1>15 DEF StoreStepOf

LEMMA HoldersStep ==
    ASSUME StoreShapes, HoldersStand, FileIsNewest, NEW p \in Procs, StoreStepOf(p)
    PROVE  HoldersStand'
PROOF
<1> SUFFICES ASSUME NEW q \in Procs
             PROVE  Holds(q)'
  BY DEF HoldersStand
<1>0. Holds(q) /\ Holds(p)
  BY DEF HoldersStand
<1> USE DEF StorePcs, OnConnection, OnSwap, StoreShapes, End, Goto, Idle, files, StoreJobs
<1>1. CASE StartJob(p)
  BY <1>0, <1>1 DEF StartJob, Holds
<1>2. CASE acquire(p)
  BY <1>0, <1>2 DEF acquire, Holds, ModeOf
<1>3. CASE acquireTimedOut(p)
  BY <1>0, <1>3 DEF acquireTimedOut, Holds
<1>4. CASE OpenDb(p)
  BY <1>0, <1>4 DEF OpenDb, Holds, FileIsNewest
<1>5. CASE CloseDb(p)
  BY <1>0, <1>5 DEF CloseDb, Holds
<1>6. CASE Commit(p)
  BY <1>0, <1>6 DEF Commit, Holds
<1>7. CASE EndWork(p)
  BY <1>0, <1>7 DEF EndWork, Holds
<1>8. CASE backupDb(p)
  BY <1>0, <1>8 DEF backupDb, Holds
<1>9. CASE checkpointDb(p)
  BY <1>0, <1>9 DEF checkpointDb, Holds
<1>10. CASE vacuumDb(p)
  BY <1>0, <1>10 DEF vacuumDb, Holds
<1>11. CASE Die(p)
  BY <1>0, <1>11 DEF Die, Holds
<1>12. CASE restoreCopy(p)
  BY <1>0, <1>12 DEF restoreCopy, Holds
<1>13. CASE validateHarnessDb(p)
  BY <1>0, <1>13 DEF validateHarnessDb, Holds
<1>14. CASE restoreRename(p)
  BY <1>0, <1>14 DEF restoreRename, Holds
<1>15. CASE restoreDropWal(p)
  BY <1>0, <1>15 DEF restoreDropWal, Holds
<1>16. QED
  BY <1>1, <1>2, <1>3, <1>4, <1>5, <1>6, <1>7, <1>8, <1>9, <1>10, <1>11, <1>12,
     <1>13, <1>14, <1>15 DEF StoreStepOf

LEMMA LocksStep ==
    ASSUME StoreShapes, HoldersStand, LocksExclude, NEW p \in Procs, StoreStepOf(p)
    PROVE  LocksExclude'
PROOF
<1>1. \/ acquire(p) /\ flock' = [flock EXCEPT ![p] = ModeOf(proc[p].job)]
      \/ flock' = [flock EXCEPT ![p] = "none"]
      \/ flock' = flock
  BY DEF StoreStepOf, StartJob, acquire, acquireTimedOut, OpenDb, CloseDb, Commit,
         EndWork, backupDb, checkpointDb, vacuumDb, Die, restoreCopy,
         validateHarnessDb, restoreRename, restoreDropWal, End
<1>2. CASE acquire(p) /\ flock' = [flock EXCEPT ![p] = ModeOf(proc[p].job)]
  <2>1. \A q \in Procs \ {p} : \/ flock[q] = "none" \/ ModeOf(proc[p].job) = "none"
                               \/ flock[q] = "shared" /\ ModeOf(proc[p].job) = "shared"
    BY <1>2 DEF acquire, Compatible
  <2>2. QED
    BY <1>2, <2>1 DEF LocksExclude, StoreShapes
<1>3. CASE flock' = [flock EXCEPT ![p] = "none"]
  BY <1>3 DEF LocksExclude, StoreShapes
<1>4. QED
  BY <1>1, <1>2, <1>3 DEF LocksExclude

LEMMA NewestStep ==
    ASSUME StoreShapes, FileIsNewest, NEW p \in Procs, StoreStepOf(p)
    PROVE  FileIsNewest'
PROOF
<1>1. CASE restoreRename(p)
  BY <1>1 DEF restoreRename, FileIsNewest, StoreShapes
<1>2. CASE ~restoreRename(p)
  <2>1. main'.inode = main.inode
    BY <1>2 DEF StoreStepOf, StartJob, acquire, acquireTimedOut, OpenDb, CloseDb, Commit,
         EndWork, backupDb, checkpointDb, vacuumDb, Die, restoreCopy,
         validateHarnessDb, restoreDropWal, Checkpointed, StoreShapes, files
  <2>2. bounds'.inodes = bounds.inodes
    BY <1>2 DEF StoreStepOf, StartJob, acquire, acquireTimedOut, OpenDb, CloseDb, Commit,
         EndWork, backupDb, checkpointDb, vacuumDb, Die, restoreCopy,
         validateHarnessDb, restoreDropWal, Checkpointed, StoreShapes, files
  <2>3. QED
    BY <2>1, <2>2 DEF FileIsNewest
<1>3. QED
  BY <1>1, <1>2

\* Outside a swap a connection opened now reads the truth.
LEMMA ViewIsTruth ==
    ASSUME StoreShapes, NothingIsMixed, FileHoldsTruth, ~Swapping
    PROVE  View = truth
PROOF
<1>1. main.content # Mixed
  BY DEF NothingIsMixed, Unmixed, Mixed
<1>2. wal = NoWal => wal.content = {}
  BY DEF NoWal
<1>3. (wal = NoWal \/ wal.inode = main.inode) /\ main.content \cup wal.content = truth
  BY DEF FileHoldsTruth
<1>4. CASE wal = NoWal
  BY <1>2, <1>3, <1>4 DEF View
<1>5. CASE wal # NoWal
  BY <1>1, <1>3, <1>5 DEF View
<1>6. QED
  BY <1>4, <1>5

\* Who holds the lock in any mode keeps a swap out.
LEMMA HolderKeepsSwapOut ==
    ASSUME StoreShapes, HoldersStand, LocksExclude, NEW p \in Procs,
           flock[p] # "none", proc[p].pc \notin OnSwap
    PROVE  ~Swapping
BY DEF StoreShapes, HoldersStand, Holds, LocksExclude, Swapping, OnSwap

\* Only the rename begins a swap, and only the removal of the log or a death
\* ends one.
LEMMA SwapStands ==
    ASSUME StoreShapes, NEW p \in Procs, StoreStepOf(p), ~restoreRename(p),
           ~restoreDropWal(p), ~(Die(p) /\ proc[p].pc = "dropWal")
    PROVE  Swapping' = Swapping
PROOF
<1>1. ProcShapes
  BY DEF StoreShapes, ProcShapes
<1>2. /\ \A q \in Procs \ {p} : proc'[q] = proc[q]
      /\ proc'[p].pc # "dropWal"
      /\ proc[p].pc # "dropWal"
  BY <1>1 DEF ProcShapes, StoreStepOf, StartJob, acquire, acquireTimedOut, OpenDb, CloseDb, Commit,
     EndWork, backupDb, checkpointDb, vacuumDb, Die, restoreCopy,
     validateHarnessDb, End, Goto, Idle
<1>3. QED
  BY <1>2 DEF Swapping

\* A step that leaves file, log and truth alone, and gives no handle on
\* another file than the present one.
LEMMA FilesRest ==
    ASSUME StoreShapes, NothingIsMixed, HandlesAreCurrent, FileHoldsTruth,
           Swapping' = Swapping, UNCHANGED <<main, wal, truth>>,
           \A b \in Backups : backup'[b] \subseteq Unmixed,
           \A q \in Operators : tmp'[q] \subseteq Unmixed,
           \A q \in Procs : \/ opened'[q] = 0
                            \/ flock'[q] = "none"
                            \/ opened'[q] = main.inode
                            \/ opened'[q] = opened[q] /\ flock'[q] = flock[q]
    PROVE  (NothingIsMixed /\ HandlesAreCurrent /\ FileHoldsTruth)'
PROOF
<1>1. NothingIsMixed'
  BY DEF NothingIsMixed
<1>2. HandlesAreCurrent'
  BY DEF HandlesAreCurrent
<1>3. FileHoldsTruth'
  BY DEF FileHoldsTruth
<1>4. QED
  BY <1>1, <1>2, <1>3

LEMMA WholeStep ==
    ASSUME StoreShapes, HoldersStand, LocksExclude, FileIsNewest,
           WholeUnlessInterrupted, NEW p \in Procs, StoreStepOf(p)
    PROVE  WholeUnlessInterrupted'
PROOF
<1> SUFFICES ASSUME ~bounds'.interrupted
             PROVE  (NothingIsMixed /\ HandlesAreCurrent /\ FileHoldsTruth)'
  BY DEF WholeUnlessInterrupted
<1>0. ~bounds.interrupted
  BY DEF StoreShapes, StoreStepOf, StartJob, acquire, acquireTimedOut, OpenDb, CloseDb, Commit,
     EndWork, backupDb, checkpointDb, vacuumDb, Die, restoreCopy,
     validateHarnessDb, restoreRename, restoreDropWal
<1>i. NothingIsMixed /\ HandlesAreCurrent /\ FileHoldsTruth
  BY <1>0 DEF WholeUnlessInterrupted
<1>h. Holds(p)
  BY DEF HoldersStand
<1>b. /\ \A b \in Backups : backup[b] \subseteq Unmixed
      /\ \A q \in Operators : tmp[q] \subseteq Unmixed
  BY <1>i DEF NothingIsMixed
<1>s. ASSUME ~restoreRename(p), ~restoreDropWal(p), ~(Die(p) /\ proc[p].pc = "dropWal")
      PROVE  Swapping' = Swapping
  BY <1>s, SwapStands
<1>1. CASE StartJob(p) \/ acquire(p) \/ acquireTimedOut(p) \/ OpenDb(p) \/ EndWork(p)
  <2>1. Swapping' = Swapping
    BY <1>1, <1>s DEF StartJob, acquire, acquireTimedOut, OpenDb, EndWork,
          restoreRename, restoreDropWal, Idle
  <2>2. \A q \in Procs : \/ opened'[q] = 0 \/ flock'[q] = "none"
                        \/ opened'[q] = main.inode
                        \/ (opened'[q] = opened[q] /\ flock'[q] = flock[q])
    BY <1>1, <1>h DEF StartJob, acquire, acquireTimedOut, OpenDb, EndWork, StoreShapes, End,
       Holds
  <2>3. UNCHANGED <<main, wal, truth, backup, tmp>>
    BY <1>1 DEF StartJob, acquire, acquireTimedOut, OpenDb, EndWork, files
  <2>4. QED
    BY <1>i, <1>b, <2>1, <2>2, <2>3, FilesRest
<1>2. CASE Die(p) /\ proc[p].pc # "dropWal"
  <2>1. Swapping' = Swapping
    BY <1>2, <1>s DEF restoreRename, restoreDropWal, Die, Goto, End, Idle, StoreShapes
  <2>2. \A q \in Procs : \/ opened'[q] = 0 \/ flock'[q] = "none"
                        \/ opened'[q] = main.inode
                        \/ (opened'[q] = opened[q] /\ flock'[q] = flock[q])
    BY <1>2 DEF Die, StoreShapes, End
  <2>3. UNCHANGED <<main, wal, truth, backup, tmp>>
    BY <1>2 DEF Die, files
  <2>4. QED
    BY <1>i, <1>b, <2>1, <2>2, <2>3, FilesRest
<1>3. CASE Die(p) /\ proc[p].pc = "dropWal"
  <2>1. wal = NoWal
    BY <1>3 DEF Die, StoreShapes
  <2>2. Swapping
    BY <1>3 DEF Swapping
  <2>3. main.content \cup wal.content = truth
    BY <2>1, <2>2, <1>i DEF FileHoldsTruth, NoWal
  <2>4. UNCHANGED <<main, wal, truth, backup, tmp>>
    BY <1>3 DEF Die, files
  <2>5. FileHoldsTruth'
    BY <2>1, <2>2, <2>3, <2>4, <1>i DEF FileHoldsTruth
  <2>6. HandlesAreCurrent'
    BY <1>3, <1>i, <2>4 DEF HandlesAreCurrent, Die, End, StoreShapes
  <2>7. QED
    BY <1>i, <2>4, <2>5, <2>6 DEF NothingIsMixed
<1>4. CASE CloseDb(p) \/ checkpointDb(p)
  <2>0. Swapping' = Swapping
    BY <1>4, <1>s DEF CloseDb, checkpointDb, restoreRename, restoreDropWal, Die
  <2>1. \A q \in Procs : \/ opened'[q] = 0
                        \/ (opened'[q] = opened[q] /\ flock'[q] = flock[q])
    BY <1>4 DEF CloseDb, checkpointDb, StoreShapes, End
  <2>2. UNCHANGED <<truth, backup, tmp>>
    BY <1>4 DEF CloseDb, checkpointDb
  <2>3. CASE UNCHANGED <<main, wal>>
    BY <1>i, <1>b, <2>0, <2>1, <2>2, <2>3, FilesRest
  <2>4. CASE main' = Checkpointed /\ wal' = NoWal /\ proc[p].job \notin {"status", "stats"}
    <3>1. flock[p] # "none" /\ proc[p].pc \notin OnSwap
      BY <1>4, <2>4, <1>h DEF Holds, CloseDb, checkpointDb, OnConnection, OnSwap, ModeOf,
         StoreJobs
    <3>2. ~Swapping
      BY <3>1, HolderKeepsSwapOut
    <3>3. View = truth
      BY <3>2, <1>i, ViewIsTruth
    <3>4. main' = [main EXCEPT !.content = truth]
      BY <3>3, <2>4 DEF Checkpointed
    <3>4b. main'.content = truth /\ main'.inode = main.inode
      BY <3>4 DEF StoreShapes
    <3>5. FileHoldsTruth'
      BY <3>4b, <2>4, <2>2 DEF FileHoldsTruth, NoWal
    <3>6. HandlesAreCurrent'
      BY <3>4b, <2>1, <1>i DEF HandlesAreCurrent
    <3>7. NothingIsMixed'
      BY <3>4b, <2>4, <2>2, <1>i DEF NothingIsMixed, NoWal, Unmixed
    <3>8. QED
      BY <3>5, <3>6, <3>7
  <2>5. QED
    BY <1>4, <2>3, <2>4 DEF CloseDb, checkpointDb
<1>5. CASE Commit(p)
  <2>1. flock[p] # "none" /\ proc[p].pc \notin OnSwap /\ opened[p] # 0
    BY <1>5, <1>h DEF Holds, Commit, OnConnection, OnSwap, ModeOf
  <2>2. opened[p] = main.inode
    BY <2>1, <1>i DEF HandlesAreCurrent
  <2>3. ~Swapping
    BY <2>1, HolderKeepsSwapOut
  <2>4. Swapping' = Swapping
    BY <1>5, <1>s DEF Commit, restoreRename, restoreDropWal, Die
  <2>5a. bounds.commits + 1 \in Nat \ {0}
    BY DEF StoreShapes
  <2>5. PICK c \in Nat \ {0} :
           /\ truth' = truth \cup {c}
           /\ wal' = IF wal = NoWal THEN [inode |-> main.inode, content |-> {c}]
                                    ELSE [wal EXCEPT !.content = @ \cup {c}]
    BY <1>5, <2>2, <2>5a DEF Commit
  <2>6. wal'.content = wal.content \cup {c} /\ (wal'.inode = wal.inode \/ wal = NoWal)
        /\ (wal = NoWal => wal'.inode = main.inode)
    BY <2>5 DEF NoWal, StoreShapes
  <2>7. UNCHANGED <<main, backup, tmp, opened, flock>>
    BY <1>5 DEF Commit
  <2>8. FileHoldsTruth'
    BY <2>3, <2>4, <2>5, <2>6, <2>7, <1>i DEF FileHoldsTruth
  <2>9. NothingIsMixed'
    BY <2>5, <2>6, <2>7, <1>i DEF NothingIsMixed, Unmixed
  <2>10. QED
    BY <2>7, <2>8, <2>9, <1>i DEF HandlesAreCurrent
<1>6. CASE backupDb(p)
  <2>1. flock[p] # "none" /\ proc[p].pc \notin OnSwap
    BY <1>6, <1>h DEF Holds, backupDb, OnConnection, OnSwap, ModeOf
  <2>2. View = truth
    BY <2>1, HolderKeepsSwapOut, <1>i, ViewIsTruth
  <2>3. \A b \in Backups : backup'[b] \subseteq Unmixed
    BY <1>6, <1>b, <1>i, <2>2 DEF backupDb, StoreShapes, NothingIsMixed
  <2>4. Swapping' = Swapping
    BY <1>6, <1>s DEF backupDb, restoreRename, restoreDropWal, Die
  <2>5. UNCHANGED <<main, wal, tmp, truth, flock, opened>>
    BY <1>6 DEF backupDb
  <2>6. QED
    BY <1>i, <1>b, <2>3, <2>4, <2>5, FilesRest
<1>7. CASE vacuumDb(p)
  <2>1. flock[p] # "none" /\ proc[p].pc \notin OnSwap
    BY <1>7, <1>h DEF Holds, vacuumDb, OnConnection, OnSwap, ModeOf
  <2>2. View = truth /\ ~Swapping
    BY <2>1, HolderKeepsSwapOut, <1>i, ViewIsTruth
  <2>3. wal' = [inode |-> main.inode, content |-> truth]
    BY <1>7, <2>2 DEF vacuumDb
  <2>4. Swapping' = Swapping
    BY <1>7, <1>s DEF vacuumDb, restoreRename, restoreDropWal, Die
  <2>5. UNCHANGED <<main, backup, tmp, truth, flock, opened>>
    BY <1>7 DEF vacuumDb
  <2>6. main.content \subseteq truth
    BY <2>2, <1>i DEF FileHoldsTruth
  <2>7. FileHoldsTruth'
    BY <2>2, <2>3, <2>4, <2>5, <2>6 DEF FileHoldsTruth
  <2>8. NothingIsMixed'
    BY <2>3, <2>5, <1>i DEF NothingIsMixed
  <2>9. QED
    BY <2>5, <2>7, <2>8, <1>i DEF HandlesAreCurrent
<1>8. CASE p \in Operators /\ (restoreCopy(p) \/ validateHarnessDb(p))
  <2>1. Swapping' = Swapping
    BY <1>8, <1>s DEF restoreCopy, validateHarnessDb, restoreRename, restoreDropWal, Die
  <2>2. UNCHANGED <<main, wal, truth, backup, opened>>
    BY <1>8 DEF restoreCopy, validateHarnessDb
  <2>3. \A q \in Procs : flock'[q] = "none" \/ flock'[q] = flock[q]
    BY <1>8 DEF restoreCopy, validateHarnessDb, End, StoreShapes
  <2>4. proc[p].arg \in Backups
    BY <1>8, <1>h DEF Holds, restoreCopy, validateHarnessDb
  <2>5. \A q \in Operators : tmp'[q] \subseteq Unmixed
    BY <1>8, <1>b, <2>4 DEF restoreCopy, validateHarnessDb, StoreShapes
  <2>6. QED
    BY <1>i, <1>b, <2>1, <2>2, <2>3, <2>5, FilesRest
<1>9. CASE p \in Operators /\ restoreRename(p)
  <2>1. flock[p] = "exclusive" /\ opened[p] = 0
    BY <1>9, <1>h DEF Holds, restoreRename, OnSwap
  <2>2. HandlesAreCurrent'
    BY <1>9, <2>1 DEF HandlesAreCurrent, restoreRename, LocksExclude
  <2>3. UNION tmp[p] \in Unmixed
    BY <1>9, <1>b DEF Unmixed
  <2>4. NothingIsMixed'
    BY <1>9, <1>i, <1>b, <2>3 DEF NothingIsMixed, restoreRename, StoreShapes
  <2>5. Swapping'
    BY <1>9 DEF restoreRename, Goto, Swapping, StoreShapes
  <2>6. FileHoldsTruth'
    BY <1>9, <2>5 DEF FileHoldsTruth, restoreRename
  <2>7. QED
    BY <2>2, <2>4, <2>6
<1>10. CASE restoreDropWal(p)
  <2>1. Swapping /\ flock[p] = "exclusive"
    BY <1>10, <1>h DEF Holds, restoreDropWal, OnSwap, Swapping
  <2>2. UNCHANGED <<main, truth, backup, tmp, opened>> /\ wal' = NoWal
    BY <1>10 DEF restoreDropWal
  <2>3. FileHoldsTruth'
    BY <1>i, <2>1, <2>2 DEF FileHoldsTruth, NoWal
  <2>4. HandlesAreCurrent'
    BY <1>i, <1>10, <2>2 DEF HandlesAreCurrent, restoreDropWal, End, StoreShapes
  <2>5. NothingIsMixed'
    BY <1>i, <2>2 DEF NothingIsMixed, NoWal, Unmixed
  <2>6. QED
    BY <2>3, <2>4, <2>5
<1>11. QED
  BY <1>1, <1>2, <1>3, <1>4, <1>5, <1>6, <1>7, <1>8, <1>9, <1>10 DEF StoreStepOf

LEMMA StoreInitially == StoreInit => StoreInv
PROOF
<1> SUFFICES ASSUME StoreInit
             PROVE  StoreInv
  OBVIOUS
<1> USE DEF StoreInit, Idle, NoWal
<1>1. StoreShapes
  BY DEF StoreShapes, StorePcs, StoreJobs
<1>2. HoldersStand
  BY DEF HoldersStand, Holds, OnConnection, OnSwap
<1>3. ~Swapping
  BY DEF Swapping
<1>4. WholeUnlessInterrupted
  BY <1>3 DEF WholeUnlessInterrupted, NothingIsMixed, Unmixed, HandlesAreCurrent, FileHoldsTruth
<1>5. QED
  BY <1>1, <1>2, <1>4 DEF StoreInv, LocksExclude, FileIsNewest

\* Every step of the store keeps the invariant.
THEOREM StoreInvariant == StoreSpec => []StoreInv
PROOF
<1>1. StoreInv /\ [StoreNext]_storeVars => StoreInv'
  <2> SUFFICES ASSUME StoreInv, [StoreNext]_storeVars
               PROVE  StoreInv'
    OBVIOUS
  <2>1. CASE UNCHANGED storeVars
    BY <2>1 DEF storeVars, StoreInv, StoreShapes, HoldersStand, Holds, LocksExclude,
       FileIsNewest, WholeUnlessInterrupted, NothingIsMixed, HandlesAreCurrent,
       FileHoldsTruth, Swapping
  <2>2. CASE StoreNext
    <3>1. PICK p \in Procs : StoreStepOf(p)
      BY <2>2 DEF StoreNext, StoreStepOf
    <3>2. QED
      BY <3>1, StoreShapesStep, HoldersStep, LocksStep, NewestStep, WholeStep DEF StoreInv
  <2>3. QED
    BY <2>1, <2>2
<1>2. QED
  BY <1>1, StoreInitially, PTL DEF StoreSpec

\* For any number of commands, operators, backups, commits, restores and
\* deaths: whoever has the database open under the maintenance lock reads
\* exactly what was committed since the last restore, and no backup mixes two
\* databases, unless a restore was killed between the rename and the removal
\* of the old log (restoreDb, openManagedDb).
THEOREM StoreStaysWhole == StoreSpec => []StoreIsWhole
PROOF
<1>1. StoreInv => StoreIsWhole
  <2> SUFFICES ASSUME StoreInv, ~bounds.interrupted
               PROVE  /\ \A p \in Procs : opened[p] # 0 /\ flock[p] # "none" =>
                            opened[p] = main.inode /\ View = truth
                      /\ \A b \in Backups : Mixed \notin backup[b]
    BY DEF StoreIsWhole, SwapInterrupted
  <2>1. NothingIsMixed /\ HandlesAreCurrent /\ FileHoldsTruth
    BY DEF StoreInv, WholeUnlessInterrupted
  <2>2. ASSUME NEW p \in Procs, opened[p] # 0, flock[p] # "none"
        PROVE  opened[p] = main.inode /\ View = truth
    <3>1. proc[p].pc \notin OnSwap
      BY <2>2 DEF StoreInv, HoldersStand, Holds, OnSwap
    <3>2. View = truth
      BY <2>1, <2>2, <3>1, HolderKeepsSwapOut, ViewIsTruth DEF StoreInv
    <3>3. QED
      BY <2>1, <2>2, <3>2 DEF HandlesAreCurrent
  <2>3. \A b \in Backups : Mixed \notin backup[b]
    BY <2>1 DEF NothingIsMixed, Unmixed, Mixed
  <2>4. QED
    BY <2>2, <2>3
<1>2. QED
  BY <1>1, StoreInvariant, PTL

-----------------------------------------------------------------------------
(* The backlog.  Every transaction on a row is a RowStep, whatever the      *)
(* command that makes it found in a file or read before; the shapes of rows *)
(* and commands are all the invariant has to add.                           *)

IsItemRow(row) ==
    row \in [mode: {"none", "legacy-file", "db-first"}, status: {row.status},
             links: {row.links}, rev: Nat,
             export: {"dirty", "synced", "failed", "disabled"},
             exported: {row.exported}]

RowIsSynced(row) ==
    row.mode = "db-first" /\ row.export = "synced" => row.exported = row.rev

\* A db-first row stays one, and only a newer revision says something else.
RowStands(a, b) ==
    a.mode = "db-first" =>
        /\ b.mode = "db-first"
        /\ b.rev > a.rev \/ (b.rev = a.rev /\ b.status = a.status /\ b.links = a.links)

RowStep(a, b) == /\ IsItemRow(b)
                 /\ RowIsSynced(a) => RowIsSynced(b)
                 /\ RowStands(a, b)

AreItemRows(rows) == /\ rows = [i \in ItemIds |-> rows[i]]
                     /\ \A i \in ItemIds : IsItemRow(rows[i])

RowsStep(a, b) == /\ b = [i \in ItemIds |-> b[i]]
                  /\ \A i \in ItemIds : RowStep(a[i], b[i])

\* A command is about to write a row only in one of the three ways there are.
IsBacklogCommand(c) ==
    /\ c \in [pc: {c.pc}, op: {c.op}, item: {c.item}, arg: {c.arg},
             files: {c.files}, snap: {c.snap}]
    /\ c.pc \in {"gate", "look", "write"} => c.op \in {"transition", "link", "update"}

AreCommands == /\ bcmds = [u \in BacklogUsers |-> bcmds[u]]
               /\ \A u \in BacklogUsers : IsBacklogCommand(bcmds[u])

RowsAreSynced == \A i \in ItemIds : RowIsSynced(items[i])

BacklogInv == AreItemRows(items) /\ AreCommands /\ RowsAreSynced

LEMMA SameRow ==
    ASSUME NEW a, IsItemRow(a)
    PROVE  RowStep(a, a)
BY DEF RowStep, RowStands

LEMMA TouchedRow ==
    ASSUME NEW a, IsItemRow(a), NEW status, NEW links
    PROVE  RowStep(a, Touched(a, status, links))
PROOF
<1> DEFINE b == Touched(a, status, links)
<1>1. a.rev \in Nat /\ a.mode \in {"none", "legacy-file", "db-first"}
  BY DEF IsItemRow
<1>2. b.mode = a.mode /\ b.rev = a.rev + 1 /\ b.export = "dirty"
  BY DEF IsItemRow, Touched
<1>3. b \in [mode: {a.mode}, status: {status}, links: {links}, rev: Nat,
            export: {"dirty"}, exported: {a.exported}]
  <2>1. PICK n \in Nat : n = a.rev + 1
    BY <1>1
  <2>2. b = [a EXCEPT !.status = status, !.links = links, !.rev = n, !.export = "dirty"]
    BY <2>1 DEF Touched
  <2>3. QED
    BY ONLY IsItemRow(a), <2>2, n \in Nat DEF IsItemRow
<1> HIDE DEF b
<1>4. IsItemRow(b)
  BY <1>1, <1>3 DEF IsItemRow
<1>5. QED
  BY <1>1, <1>2, <1>4 DEF RowStep, RowStands, RowIsSynced, b

LEMMA WrittenRows ==
    ASSUME NEW a, IsItemRow(a), NEW op \in {"transition", "link", "update"}, NEW arg,
           NEW b \in WrittenRow(a, op, arg)
    PROVE  RowStep(a, b)
PROOF
<1>1. CASE op = "transition"
  <2>1. b \in UpdateItemStatus(a, arg)
    BY <1>1 DEF WrittenRow
  <2>2. b = a \/ b = Touched(a, arg, a.links)
    BY <2>1 DEF UpdateItemStatus
  <2>3. QED
    BY <2>2, SameRow, TouchedRow
<1>2. CASE op = "link"
  <2>1. b = LinkRun(a, arg)
    BY <1>2 DEF WrittenRow
  <2>2. b = a \/ b = Touched(a, "doing", a.links \cup {arg})
    BY <2>1 DEF LinkRun
  <2>3. QED
    BY <2>2, SameRow, TouchedRow
<1>3. CASE op = "update"
  <2>1. b = Touched(a, arg, a.links)
    BY <1>3 DEF WrittenRow
  <2>2. QED
    BY <2>1, TouchedRow
<1>4. QED
  BY <1>1, <1>2, <1>3

\* A record of an export names a revision only if the row is still at it.
LEMMA RecordedRow ==
    ASSUME NEW a, IsItemRow(a), NEW rev
    PROVE  /\ RowStep(a, RecordExportSuccess(a, rev))
           /\ RowStep(a, RecordExportFailure(a))
           /\ RowStep(a, MarkExportDisabled(a))
PROOF
<1>1. CASE a.rev = rev
  BY <1>1 DEF IsItemRow, RowStep, RowStands, RowIsSynced, RecordExportSuccess,
     RecordExportFailure, MarkExportDisabled
<1>2. CASE a.rev # rev
  BY <1>2 DEF IsItemRow, RowStep, RowStands, RowIsSynced, RecordExportSuccess,
     RecordExportFailure, MarkExportDisabled
<1>3. QED
  BY <1>1, <1>2

LEMMA ImportedRows ==
    ASSUME NEW a, IsItemRow(a), NEW status, NEW yaml, NEW force \in BOOLEAN
    PROVE  RowStep(a, ImportedRow(a, status, yaml, force))
PROOF
<1>1. CASE a.mode = "none"
  <2>1. ImportedRow(a, status, yaml, force) =
          [NoItem EXCEPT !.mode = "legacy-file", !.status = status,
                         !.links = yaml.links, !.export = "synced"]
    BY <1>1 DEF ImportedRow
  <2>2. ImportedRow(a, status, yaml, force) =
          [mode |-> "legacy-file", status |-> status, links |-> yaml.links, rev |-> 0,
           export |-> "synced", exported |-> 0]
    BY <2>1 DEF NoItem
  <2>3. QED
    BY <1>1, <2>2 DEF IsItemRow, RowStep, RowStands, RowIsSynced
<1>2. CASE a.mode = "legacy-file"
  <2>1. ImportedRow(a, status, yaml, force) = [a EXCEPT !.status = status, !.links = yaml.links]
    BY <1>2 DEF ImportedRow
  <2>2. ImportedRow(a, status, yaml, force) =
          [mode |-> "legacy-file", status |-> status, links |-> yaml.links, rev |-> a.rev,
           export |-> a.export, exported |-> a.exported]
    BY <1>2, <2>1 DEF IsItemRow
  <2>3. QED
    BY <1>2, <2>2 DEF IsItemRow, RowStep, RowStands, RowIsSynced
<1>3. CASE a.mode = "db-first"
  <2>1. ImportedRow(a, status, yaml, force) = a
        \/ ImportedRow(a, status, yaml, force) = Touched(a, status, yaml.links)
    BY <1>3 DEF ImportedRow
  <2>2. QED
    BY <2>1, SameRow, TouchedRow
<1>4. QED
  BY <1>1, <1>2, <1>3 DEF IsItemRow

LEMMA RowStepsCompose ==
    ASSUME NEW a, NEW b, NEW c, IsItemRow(a), RowStep(a, b), RowStep(b, c)
    PROVE  RowStep(a, c)
BY DEF RowStep, IsItemRow, RowStands

LEMMA RowsStepsCompose ==
    ASSUME NEW a, NEW b, NEW c, AreItemRows(a), RowsStep(a, b), RowsStep(b, c)
    PROVE  RowsStep(a, c) /\ AreItemRows(b)
PROOF
<1>1. ASSUME NEW i \in ItemIds
      PROVE  RowStep(a[i], c[i])
  BY RowStepsCompose DEF RowsStep, AreItemRows
<1>2. QED
  BY <1>1 DEF RowsStep, AreItemRows, RowStep

LEMMA ImportedDir ==
    ASSUME NEW rows, AreItemRows(rows), NEW status, NEW force \in BOOLEAN
    PROVE  RowsStep(rows, ImportStatusDir(rows, status, force))
PROOF
<1> DEFINE out == ImportStatusDir(rows, status, force)
<1>1. ASSUME NEW i \in ItemIds
      PROVE  RowStep(rows[i], out[i])
  BY SameRow, ImportedRows DEF AreItemRows, ImportStatusDir
<1>2. out = [i \in ItemIds |-> out[i]]
  BY DEF ImportStatusDir
<1>3. QED
  BY <1>1, <1>2 DEF RowsStep

LEMMA ResetRows ==
    ASSUME NEW rows, AreItemRows(rows)
    PROVE  RowsStep(rows, ResetBacklogRows(rows))
BY SameRow DEF RowsStep, AreItemRows, ResetBacklogRows, RowStep, RowStands, RowIsSynced,
   IsItemRow, NoItem

LEMMA ImportedDirs ==
    ASSUME NEW rows, AreItemRows(rows), NEW force \in BOOLEAN
    PROVE  RowsStep(rows, ImportAllDirs(rows, force))
PROOF
<1> DEFINE r1 == ImportStatusDir(rows, "open", force)
           r2 == ImportStatusDir(r1, "doing", force)
           r3 == ImportStatusDir(r2, "done", force)
           r4 == ImportStatusDir(r3, "deferred", force)
<1>1. RowsStep(rows, r1)
  BY ImportedDir
<1>1a. AreItemRows(r1)
  BY <1>1 DEF RowsStep, AreItemRows, RowStep
<1>2. RowsStep(r1, r2)
  BY <1>1a, ImportedDir
<1>3. RowsStep(rows, r2) /\ AreItemRows(r2)
  <2> HIDE DEF r1, r2
  <2> QED
    BY <1>1, <1>1a, <1>2, RowsStepsCompose DEF RowsStep, AreItemRows, RowStep
<1>4. RowsStep(r2, r3)
  BY <1>3, ImportedDir
<1>5. RowsStep(rows, r3) /\ AreItemRows(r3)
  <2> HIDE DEF r2, r3
  <2> QED
    BY <1>3, <1>4, RowsStepsCompose DEF RowsStep, AreItemRows, RowStep
<1>6. RowsStep(r3, r4)
  BY <1>5, ImportedDir
<1>7. RowsStep(rows, r4)
  <2> HIDE DEF r3, r4
  <2> QED
    BY <1>5, <1>6, RowsStepsCompose
<1>8. QED
  BY <1>7 DEF ImportAllDirs

\* One row is replaced by what a transaction makes of it.
LEMMA OneRow ==
    ASSUME AreItemRows(items), NEW i, NEW b,
           i \in ItemIds => RowStep(items[i], b),
           items' = [items EXCEPT ![i] = b]
    PROVE  RowsStep(items, items')
BY SameRow DEF AreItemRows, RowsStep

LEMMA NoRow ==
    ASSUME AreItemRows(items), items' = items
    PROVE  RowsStep(items, items')
BY SameRow DEF AreItemRows, RowsStep

LEMMA CommandsStep ==
    ASSUME AreCommands, BacklogNext
    PROVE  AreCommands'
PROOF
<1> USE DEF AreCommands, IsBacklogCommand
<1>1. ASSUME NEW u \in BacklogUsers, NEW c,
             bcmds' = [bcmds EXCEPT ![u] = c], IsBacklogCommand(c)
      PROVE  AreCommands'
  BY <1>1
<1>2. ASSUME NEW u \in BacklogUsers, BacklogEnd(u)
      PROVE  AreCommands'
  BY <1>2 DEF BacklogEnd, IdleCommand
<1>3. ASSUME NEW u \in BacklogUsers, NEW pc, BacklogGoto(u, pc),
             pc \in {"gate", "look", "write"} =>
                 bcmds[u].op \in {"transition", "link", "update"}
      PROVE  AreCommands'
  BY <1>3 DEF BacklogGoto
<1>4. ASSUME NEW u \in BacklogUsers, NEW pc, NEW op, NEW i, NEW arg,
             BeginBacklog(u, pc, op, i, arg),
             pc \in {"gate", "look", "write"} => op \in {"transition", "link", "update"}
      PROVE  AreCommands'
  <2>1. PICK fs : bcmds' = [bcmds EXCEPT ![u] = [pc |-> pc, op |-> op, item |-> i,
                                    arg |-> arg, files |-> fs, snap |-> {}]]
    BY <1>4 DEF BeginBacklog
  <2>2. QED
    BY <1>1, <1>4, <2>1
<1>5. CASE MigrateLegacyItems \/ ImportBacklogFiles
  BY <1>5 DEF MigrateLegacyItems, ImportBacklogFiles
<1>6. ASSUME NEW u \in BacklogUsers, BacklogCommand(u)
      PROVE  AreCommands'
  <2>1. CASE \/ AddBacklogItem(u) \/ TransitionBacklogItem(u) \/ LinkBacklogRun(u)
             \/ UpdateBacklogItem(u) \/ ListBacklogItems(u) \/ ExportFiles(u)
    <3> HIDE DEF AreCommands, IsBacklogCommand
    <3> QED
      BY <2>1, <1>4 DEF AddBacklogItem, TransitionBacklogItem, LinkBacklogRun,
         UpdateBacklogItem, ListBacklogItems, ExportFiles
  <2>2. CASE AddFloor(u) \/ ExportSnapshot(u) \/ ListReset(u)
    BY <2>2 DEF AddFloor, ExportSnapshot, ListReset
  <2>3. CASE AddAllocate(u)
    BY <2>3, <1>2 DEF AddAllocate
  <2>4. CASE AddInsert(u)
    BY <2>4, <1>3 DEF AddInsert
  <2>5. CASE WriteGate(u) \/ RouteBySourceMode(u)
    <3>1. bcmds[u].op \in {"transition", "link", "update"}
      BY <2>5 DEF WriteGate, RouteBySourceMode
    <3> HIDE DEF AreCommands, IsBacklogCommand
    <3>2. QED
      BY <2>5, <3>1, <1>2, <1>3 DEF WriteGate, RouteBySourceMode
  <2>6. CASE \/ WriteRow(u) \/ ExportSkipped(u) \/ ExportYaml(u) \/ ExportRemoveStale(u)
             \/ ExportRecord(u) \/ ExportFails(u) \/ FileRewrite(u) \/ FileRename(u)
             \/ BacklogDie(u)
    <3> HIDE DEF AreCommands, IsBacklogCommand
    <3> QED
      BY <2>6, <1>2, <1>3 DEF WriteRow, ExportSkipped, ExportYaml, ExportRemoveStale,
         ExportRecord, ExportFails, FileRewrite, FileRename, BacklogDie
  <2>7. CASE FileLocate(u)
    <3>1. CASE BacklogEnd(u)
      BY <3>1, <1>2
    <3>2. CASE ~BacklogEnd(u)
      <4>1. PICK snap : bcmds' = [bcmds EXCEPT ![u].pc = "rewrite", ![u].snap = snap]
        BY <2>7, <3>2 DEF FileLocate
      <4>2. QED
        BY <4>1
    <3>3. QED
      BY <3>1, <3>2
  <2>8. CASE ListImportDir(u)
    BY <2>8, <1>2 DEF ListImportDir
  <2>9. QED
    BY <1>6, <2>1, <2>2, <2>3, <2>4, <2>5, <2>6, <2>7, <2>8 DEF BacklogCommand
<1>7. QED
  BY <1>5, <1>6 DEF BacklogNext

LEMMA BacklogRowsStep ==
    ASSUME AreItemRows(items), AreCommands, BacklogNext
    PROVE  RowsStep(items, items')
PROOF
<1>1. CASE MigrateLegacyItems
  <2>1. ASSUME NEW i \in ItemIds
        PROVE  RowStep(items[i], items'[i])
    <3>1. IsItemRow(items[i])
      BY DEF AreItemRows
    <3>2. CASE items[i].mode = "legacy-file"
      <4>1. items'[i] = [Touched(items[i], items[i].status, items[i].links)
                            EXCEPT !.mode = "db-first"]
        BY <1>1, <3>2 DEF MigrateLegacyItems
      <4>2. items'[i] = [mode |-> "db-first", status |-> items[i].status,
                         links |-> items[i].links, rev |-> items[i].rev + 1,
                         export |-> "dirty", exported |-> items[i].exported]
        BY <3>1, <4>1 DEF Touched, IsItemRow
      <4>3. QED
        BY <3>1, <3>2, <4>2 DEF IsItemRow, RowStep, RowStands, RowIsSynced
    <3>3. CASE items[i].mode # "legacy-file"
      BY <1>1, <3>1, <3>3, SameRow DEF MigrateLegacyItems
    <3>4. QED
      BY <3>2, <3>3
  <2>2. items' = [i \in ItemIds |-> items'[i]]
    BY <1>1 DEF MigrateLegacyItems
  <2>3. QED
    BY <2>1, <2>2 DEF RowsStep
<1>2. CASE ImportBacklogFiles
  <2>1. PICK reset \in BOOLEAN, force \in BOOLEAN :
           items' = ImportAllDirs(IF reset THEN ResetBacklogRows(items) ELSE items, force)
    BY <1>2 DEF ImportBacklogFiles
  <2>2. CASE reset
    <3>1. RowsStep(items, ResetBacklogRows(items))
      BY ResetRows
    <3>2. AreItemRows(ResetBacklogRows(items))
      BY <3>1 DEF RowsStep, AreItemRows, RowStep
    <3>3. QED
      BY <2>1, <2>2, <3>1, <3>2, ImportedDirs, RowsStepsCompose
  <2>3. CASE ~reset
    BY <2>1, <2>3, ImportedDirs
  <2>4. QED
    BY <2>2, <2>3
<1>3. ASSUME NEW u \in BacklogUsers, BacklogCommand(u)
      PROVE  RowsStep(items, items')
  <2>1. CASE AddInsert(u)
    <3>1. CASE items' = items
      BY <3>1, NoRow
    <3>2. CASE items' # items
      <4>1. /\ items[bcmds[u].item].mode = "none"
            /\ items' = [items EXCEPT ![bcmds[u].item] = NewItem]
        BY <2>1, <3>2 DEF AddInsert
      <4>2. NewItem \in [mode: {"db-first"}, status: {"open"}, links: {{}}, rev: Nat,
                         export: {"dirty"}, exported: {0}]
        BY DEF NewItem, NoItem
      <4>3. RowStep(items[bcmds[u].item], NewItem)
        BY <4>1, <4>2 DEF RowStep, IsItemRow, RowStands, RowIsSynced
      <4>4. QED
        BY <4>1, <4>3, OneRow
    <3>3. QED
      BY <3>1, <3>2
  <2>2. CASE WriteRow(u)
    <3>1. CASE items' = items
      BY <3>1, NoRow
    <3>2. CASE items' # items
      <4>1. PICK row \in WrittenRow(items[bcmds[u].item], bcmds[u].op, bcmds[u].arg) :
                items' = [items EXCEPT ![bcmds[u].item] = row]
        BY <2>2, <3>2 DEF WriteRow
      <4>2. bcmds[u].op \in {"transition", "link", "update"}
        BY <2>2 DEF WriteRow, AreCommands, IsBacklogCommand
      <4>3. bcmds[u].item \in ItemIds => RowStep(items[bcmds[u].item], row)
        BY <4>1, <4>2, WrittenRows DEF AreItemRows
      <4>4. QED
        BY <4>1, <4>3, OneRow
    <3>3. QED
      BY <3>1, <3>2
  <2>3. CASE ExportSkipped(u) \/ ExportRecord(u) \/ ExportFails(u)
    <3>1. PICK b, rev : /\ items' = [items EXCEPT ![bcmds[u].item] = b]
                        /\ \/ b = MarkExportDisabled(items[bcmds[u].item])
                           \/ b = RecordExportSuccess(items[bcmds[u].item], rev)
                           \/ b = RecordExportFailure(items[bcmds[u].item])
      BY <2>3 DEF ExportSkipped, ExportRecord, ExportFails
    <3>2. bcmds[u].item \in ItemIds => RowStep(items[bcmds[u].item], b)
      BY <3>1, RecordedRow DEF AreItemRows
    <3>3. QED
      BY <3>1, <3>2, OneRow
  <2>4. CASE ListReset(u)
    BY <2>4, ResetRows DEF ListReset
  <2>5. CASE ListImportDir(u)
    BY <2>5, ImportedDir DEF ListImportDir
  <2>6. CASE \/ AddBacklogItem(u) \/ TransitionBacklogItem(u) \/ LinkBacklogRun(u)
             \/ UpdateBacklogItem(u) \/ ListBacklogItems(u) \/ ExportFiles(u)
             \/ AddFloor(u) \/ AddAllocate(u) \/ WriteGate(u) \/ RouteBySourceMode(u)
             \/ ExportSnapshot(u) \/ ExportYaml(u) \/ ExportRemoveStale(u)
             \/ FileLocate(u) \/ FileRewrite(u) \/ FileRename(u) \/ BacklogDie(u)
    <3>1. items' = items
      BY <2>6 DEF AddBacklogItem, TransitionBacklogItem, LinkBacklogRun,
         UpdateBacklogItem, ListBacklogItems, ExportFiles, BeginBacklog,
         AddFloor, AddAllocate, WriteGate, RouteBySourceMode,
         ExportSnapshot, ExportYaml, ExportRemoveStale,
         FileLocate, FileRewrite, FileRename, BacklogDie
    <3>2. QED
      BY <3>1, NoRow
  <2>7. QED
    BY <1>3, <2>1, <2>2, <2>3, <2>4, <2>5, <2>6 DEF BacklogCommand
<1>4. QED
  BY <1>1, <1>2, <1>3 DEF BacklogNext

LEMMA BacklogInitially == BacklogInit => BacklogInv
PROOF
<1> SUFFICES ASSUME BacklogInit
             PROVE  BacklogInv
  OBVIOUS
<1>1. AreItemRows(items)
  BY DEF BacklogInit, AreItemRows, IsItemRow, NoItem
<1>2. AreCommands
  BY DEF BacklogInit, AreCommands, IsBacklogCommand, IdleCommand
<1>3. RowsAreSynced
  BY DEF BacklogInit, RowsAreSynced, RowIsSynced, NoItem
<1>4. QED
  BY <1>1, <1>2, <1>3 DEF BacklogInv

\* Rows and commands keep their shapes, and a synced row is at the revision
\* its export recorded.
THEOREM BacklogInvariant == BacklogSpec => []BacklogInv
PROOF
<1>1. BacklogInv /\ [BacklogNext]_backlogVars => BacklogInv'
  <2> SUFFICES ASSUME BacklogInv, [BacklogNext]_backlogVars
               PROVE  BacklogInv'
    OBVIOUS
  <2>1. CASE UNCHANGED backlogVars
    BY <2>1 DEF backlogVars, BacklogInv, AreItemRows, AreCommands, RowsAreSynced
  <2>2. CASE BacklogNext
    <3>1. RowsStep(items, items')
      BY <2>2, BacklogRowsStep DEF BacklogInv
    <3>2. AreCommands'
      BY <2>2, CommandsStep DEF BacklogInv
    <3>3. QED
      BY <3>1, <3>2 DEF BacklogInv, AreItemRows, RowsAreSynced, RowsStep, RowStep
  <2>3. QED
    BY <2>1, <2>2
<1>2. QED
  BY <1>1, BacklogInitially, PTL DEF BacklogSpec

\* However many commands write, export and import at once, a db-first item
\* marked synced was exported at the revision it is at (recordExportSuccess).
THEOREM SyncedMeansExported == BacklogSpec => []SyncedAtItsRevision
PROOF
<1>1. BacklogInv => SyncedAtItsRevision
  BY DEF BacklogInv, RowsAreSynced, RowIsSynced, SyncedAtItsRevision
<1>2. QED
  BY <1>1, BacklogInvariant, PTL

\* No import from files, not even one that resets or reconciles by force,
\* deletes a db-first item, takes it back to its file or changes it without
\* a new revision (importBacklog, runFullImport).
THEOREM NoRollBack == BacklogSpec => ReadsNeverRollBack
PROOF
<1> DEFINE Stands == \A i \in ItemIds : items[i].mode = "db-first" =>
                        /\ items'[i].mode = "db-first"
                        /\ \/ items'[i].rev > items[i].rev
                           \/ /\ items'[i].status = items[i].status
                              /\ items'[i].links = items[i].links
<1>1. BacklogInv /\ [BacklogNext]_backlogVars => [Stands]_backlogVars
  <2> SUFFICES ASSUME BacklogInv, BacklogNext
               PROVE  Stands
    OBVIOUS
  <2>1. RowsStep(items, items')
    BY BacklogRowsStep DEF BacklogInv
  <2>2. QED
    BY <2>1 DEF RowsStep, RowStep, RowStands
<1>2. QED
  BY <1>1, BacklogInvariant, PTL DEF BacklogSpec, ReadsNeverRollBack

-----------------------------------------------------------------------------
(* The bodies of a run.  A row is pruned only by the sync of a whole        *)
(* directory, so up to there every durable row must have its file or its    *)
(* quarantine mark (Covered), also when the directory is the one a killed   *)
(* review left.  A body leaves the object store only by garbage collection, *)
(* which no row that points there may meet.                                 *)

ReviewPcs == {"idle", "export", "gate", "ingest", "mark", "clear", "codex", "sync",
              "remove", "distrust", "gateIngest", "discard"}
BlobPcs == {"idle", "put", "record", "fetch", "delete", "forget"}
ArtifactRows == [storage: {"db", "external"}, sha: Bodies, quarantined: BOOLEAN]

ArtifactShapes ==
    /\ scratch \in [meta: BOOLEAN, decision: BOOLEAN,
                    files: [ArtifactPaths -> SUBSET Bodies]]
    /\ manifest \in [ArtifactPaths -> SUBSET ArtifactRows]
    /\ extRows \in [Bodies -> {"none", "available", "missing"}]
    /\ review \in [pc: ReviewPcs, by: ReviewerIds \cup {"none"},
                   todo: SUBSET ArtifactPaths, published: BOOLEAN]
    /\ blobOp \in [pc: BlobPcs, todo: {blobOp.todo}, cur: {blobOp.cur},
                   paths: {blobOp.paths}]

ReviewHasReviewer == review.pc # "idle" => review.by \in ReviewerIds

\* Every row can be read: its body is in the database, and in the object
\* store too when it points there.
RowsAreReadable ==
    \A p \in ArtifactPaths : \A row \in manifest[p] :
        /\ row.sha \in dbBlobs
        /\ row.storage = "external" => extRows[row.sha] = "available" /\ row.sha \in objects

\* A row that says available is right, but for the object that is being
\* collected, and nothing a row points to is collected.
ObjectsStay ==
    /\ \A s \in Bodies : extRows[s] = "available" =>
           s \in objects \/ (blobOp.pc = "forget" /\ s \in blobOp.cur)
    /\ blobOp.pc = "record" => blobOp.cur \subseteq objects
    /\ blobOp.pc \in {"delete", "forget"} =>
           \A p \in ArtifactPaths : \A row \in manifest[p] :
               row.storage = "external" => row.sha \notin blobOp.todo \cup blobOp.cur

HeldHaveRows == /\ everHeld \subseteq ArtifactPaths \ ErrPaths
                /\ \A p \in everHeld : manifest[p] # {}

\* A durable row has its file on disk or bears the mark that spares it.
Covered == \A p \in ArtifactPaths \ ErrPaths :
              manifest[p] # {} => \/ scratch.files[p] # {}
                                  \/ \A row \in manifest[p] : row.quarantined

ReviewCovers ==
    /\ review.pc \in {"gate", "ingest", "mark", "clear", "codex", "sync"} => Covered
    /\ review.pc \in {"idle", "distrust"} /\ scratch.meta /\ scratch.decision => Covered
    /\ review.pc \in {"codex", "sync", "remove"} => ~scratch.decision
    /\ review.pc = "export" => \A p \in ArtifactPaths :
           /\ manifest[p] # {} => p \in review.todo \/ scratch.files[p] # {}
           /\ p \in review.todo => manifest[p] # {}
    /\ review.pc = "clear" => \A p \in review.todo \ ErrPaths :
           \A row \in manifest[p] : row.quarantined

ArtifactsInv == ArtifactShapes /\ ReviewHasReviewer /\ RowsAreReadable
                /\ ObjectsStay /\ HeldHaveRows /\ ReviewCovers

\* The windows in which a death loses something the invariant needs: a
\* directory half written, transcripts removed that bear no mark yet, an
\* object deleted whose row still says available.
UnsafeToDie == {"export", "gateIngest", "discard", "forget"}

ReviewShape == review \in [pc: ReviewPcs, by: ReviewerIds \cup {"none"},
                           todo: SUBSET ArtifactPaths, published: BOOLEAN]
ScratchShape == scratch \in [meta: BOOLEAN, decision: BOOLEAN,
                             files: [ArtifactPaths -> SUBSET Bodies]]
ManifestShape == manifest \in [ArtifactPaths -> SUBSET ArtifactRows]

\* Rows made of files are rows of the database.
LEMMA UpsertedRows ==
    ASSUME ArtifactShapes, NEW paths \in SUBSET ArtifactPaths,
           NEW rows \in [ArtifactPaths -> SUBSET ArtifactRows]
    PROVE  Upserted(rows, paths) \in [ArtifactPaths -> SUBSET ArtifactRows]
PROOF
<1>1. \A p \in ArtifactPaths : scratch.files[p] \in SUBSET Bodies
  BY DEF ArtifactShapes
<1>2. \A p \in paths, b \in Bodies : ArtifactRow(p, b) \in ArtifactRows
  BY DEF ArtifactRow, ArtifactRows
<1>3. \A p \in paths : {ArtifactRow(p, b) : b \in scratch.files[p]} \in SUBSET ArtifactRows
  BY <1>1, <1>2
<1>4. QED
  BY <1>3 DEF Upserted

LEMMA BlobShapesStep ==
    ASSUME ArtifactShapes, BlobStep
    PROVE  ArtifactShapes'
PROOF
<1> USE DEF BlobPcs
<1>1. CASE MigrateToExternal \/ MigrateToDb \/ GcExternalBlobs
  <2>1. PICK pc, todo, paths : pc \in BlobPcs /\ BeginBlobOp(pc, todo, paths)
    BY <1>1 DEF MigrateToExternal, MigrateToDb, GcExternalBlobs
  <2>2. QED
    BY <2>1 DEF BeginBlobOp, ArtifactShapes
<1>2. CASE PutBody
  BY <1>2 DEF PutBody, ArtifactShapes
<1>3. CASE RecordExternalBlob
  BY <1>3 DEF RecordExternalBlob, ArtifactShapes
<1>4. CASE FlipToExternal
  <2>1. manifest' \in [ArtifactPaths -> SUBSET ArtifactRows]
    BY <1>4 DEF FlipToExternal, ArtifactShapes, ArtifactRows
  <2>2. QED
    BY <1>4, <2>1 DEF FlipToExternal, ArtifactShapes, IdleBlobOp
<1>5. CASE FetchToDb
  <2>1. manifest' \in [ArtifactPaths -> SUBSET ArtifactRows]
    BY <1>5 DEF FetchToDb, ArtifactShapes, ArtifactRows
  <2>3. blobOp' \in [pc: BlobPcs, todo: {blobOp'.todo}, cur: {blobOp'.cur},
                    paths: {blobOp'.paths}]
    BY <1>5 DEF FetchToDb, ArtifactShapes, IdleBlobOp
  <2>4. QED
    BY <1>5, <2>1, <2>3 DEF FetchToDb, ArtifactShapes
<1>6. CASE GcDeleteObject
  <2>1. CASE blobOp.todo = {}
    BY <1>6, <2>1 DEF GcDeleteObject, ArtifactShapes, IdleBlobOp
  <2>2. CASE blobOp.todo # {}
    <3>1. PICK s : blobOp' = [blobOp EXCEPT !.pc = "forget", !.cur = {s}, !.todo = @ \ {s}]
      BY <1>6, <2>2 DEF GcDeleteObject
    <3>2. blobOp' \in [pc: BlobPcs, todo: {blobOp'.todo}, cur: {blobOp'.cur},
                      paths: {blobOp'.paths}]
      BY <3>1 DEF ArtifactShapes
    <3>3. QED
      BY <1>6, <3>2 DEF GcDeleteObject, ArtifactShapes
  <2>3. QED
    BY <2>1, <2>2
<1>7. CASE GcForgetRow
  BY <1>7 DEF GcForgetRow, ArtifactShapes
<1>8. CASE \E s \in Bodies : VerifyExternalBlob(s)
  BY <1>8 DEF VerifyExternalBlob, ArtifactShapes
<1>9. CASE BlobOpKilled
  BY <1>9 DEF BlobOpKilled, ArtifactShapes, IdleBlobOp
<1>10. QED
  BY <1>1, <1>2, <1>3, <1>4, <1>5, <1>6, <1>7, <1>8, <1>9 DEF BlobStep

LEMMA ReviewShapesStep ==
    ASSUME ArtifactShapes, ReviewStep
    PROVE  ArtifactShapes' /\ (ReviewHasReviewer => ReviewHasReviewer')
PROOF
<1> USE DEF ReviewPcs
<1>a. ReviewShape /\ ScratchShape /\ ManifestShape
  BY DEF ArtifactShapes, ReviewShape, ScratchShape, ManifestShape
<1>b. ASSUME ReviewShape', ScratchShape', ManifestShape',
             UNCHANGED <<extRows, blobOp>>
      PROVE  ArtifactShapes'
  BY <1>b DEF ArtifactShapes, ReviewShape, ScratchShape, ManifestShape
<1>c. OnDisk \in SUBSET ArtifactPaths /\ OnDisk \ ReviewerInputs \in SUBSET ArtifactPaths
      /\ RowsWithBody \in SUBSET ArtifactPaths
  BY DEF OnDisk, RowsWithBody
<1>d. UNCHANGED <<extRows, blobOp>>
  BY DEF ReviewStep, EnsureRunMaterialized, ExportRunBody, GateRefuses, GatePasses,
     QuarantineIngest, MarkArtifactsQuarantined, QuarantineClear, ReviewerSucceeds,
     ReviewerFails, SyncAll, QuarantineUntrusted, SyncGateError, RemoveScratch, ReviewKilled
<1>e. IdleReview \in [pc: {"idle"}, by: {"none"}, todo: {{}}, published: {FALSE}]
  BY DEF IdleReview
<1>f. NoScratch \in [meta: BOOLEAN, decision: BOOLEAN, files: [ArtifactPaths -> SUBSET Bodies]]
  BY DEF NoScratch, NoFiles
<1>1. ASSUME NEW r \in ReviewerIds, EnsureRunMaterialized(r)
      PROVE  ArtifactShapes' /\ ReviewHasReviewer'
  <2>1. ReviewShape' /\ ReviewHasReviewer'
    BY <1>1, <1>c, <1>e DEF EnsureRunMaterialized, ReviewShape, ReviewHasReviewer
  <2>2. ScratchShape'
    BY <1>1, <1>a DEF EnsureRunMaterialized, ScratchShape, ExportHead
  <2>3. QED
    BY <1>1, <1>a, <1>b, <1>d, <2>1, <2>2 DEF EnsureRunMaterialized, ManifestShape
<1>2. CASE ExportRunBody
  <2>1. ReviewShape' /\ (ReviewHasReviewer => ReviewHasReviewer')
    <3>1. \/ review' = [review EXCEPT !.pc = "gate"]
          \/ review' = IdleReview
          \/ \E p \in review.todo : review' = [review EXCEPT !.todo = @ \ {p}]
      BY <1>2 DEF ExportRunBody
    <3>2. review.pc = "export"
      BY <1>2 DEF ExportRunBody
    <3>3. QED
      BY <3>1, <3>2, <1>a, <1>e, ZenonT(60) DEF ReviewShape, ReviewHasReviewer
  <2>2. ScratchShape'
    <3>1. \A p \in ArtifactPaths : {row.sha : row \in manifest[p]} \in SUBSET Bodies
      BY <1>a DEF ManifestShape, ArtifactRows
    <3>2. QED
      BY <1>2, <1>a, <3>1 DEF ExportRunBody, ScratchShape, ReviewShape
  <2>3. QED
    BY <1>2, <1>a, <1>b, <1>d, <2>1, <2>2 DEF ExportRunBody, ManifestShape
<1>3. CASE GateRefuses \/ GatePasses
  <2>1. ReviewShape' /\ (ReviewHasReviewer => ReviewHasReviewer')
    BY <1>3, <1>a DEF GateRefuses, GatePasses, ReviewShape, ReviewHasReviewer
  <2>2. QED
    BY <1>3, <1>a, <1>b, <1>d, <2>1 DEF GateRefuses, GatePasses, ManifestShape, ScratchShape
<1>4. CASE QuarantineIngest
  <2>1. ReviewShape' /\ (ReviewHasReviewer => ReviewHasReviewer')
    BY <1>4, <1>a, <1>c DEF QuarantineIngest, PriorOutputs, ReviewShape, ReviewHasReviewer
  <2>2. ManifestShape'
    BY <1>4, <1>a, <1>c, UpsertedRows DEF QuarantineIngest, IngestPaths, PriorOutputs,
       ManifestShape
  <2>3. QED
    BY <1>4, <1>a, <1>b, <1>d, <2>1, <2>2 DEF QuarantineIngest, ScratchShape
<1>5. CASE MarkArtifactsQuarantined
  <2>1. ReviewShape' /\ (ReviewHasReviewer => ReviewHasReviewer')
    BY <1>5, <1>a DEF MarkArtifactsQuarantined, ReviewShape, ReviewHasReviewer
  <2>2. ManifestShape'
    BY <1>5, <1>a DEF MarkArtifactsQuarantined, ManifestShape, ArtifactRows
  <2>3. QED
    BY <1>5, <1>a, <1>b, <1>d, <2>1, <2>2 DEF MarkArtifactsQuarantined, ScratchShape
<1>6. CASE QuarantineClear \/ QuarantineUntrusted \/ RemoveScratch
  <2>1. ReviewShape' /\ (ReviewHasReviewer => ReviewHasReviewer')
    BY <1>6, <1>a, <1>e DEF QuarantineClear, QuarantineUntrusted, RemoveScratch, ReviewShape,
       ReviewHasReviewer
  <2>2. ScratchShape'
    <3>1. CASE QuarantineClear
      BY <1>a, <3>1 DEF QuarantineClear, ScratchShape
    <3>2. CASE QuarantineUntrusted
      BY <1>a, <3>2 DEF QuarantineUntrusted, ScratchShape
    <3>3. CASE RemoveScratch
      BY <1>f, <3>3 DEF RemoveScratch, ScratchShape
    <3>4. QED
      BY <1>6, <3>1, <3>2, <3>3
  <2>3. QED
    BY <1>6, <1>a, <1>b, <1>d, <2>1, <2>2 DEF QuarantineClear, QuarantineUntrusted,
       RemoveScratch, ManifestShape
<1>7. CASE ReviewerSucceeds \/ ReviewerFails
  <2>1. ReviewShape' /\ (ReviewHasReviewer => ReviewHasReviewer')
    BY <1>7, <1>a DEF ReviewerSucceeds, ReviewerFails, ReviewShape, ReviewHasReviewer
  <2>2. ScratchShape'
    <3>1. CASE ReviewerSucceeds
      <4>1. PICK b \in Bodies :
               scratch' = [scratch EXCEPT !.decision = FALSE,
                             !.files[LogOf(review.by)] = {b},
                             !.files[ErrOf(review.by)] = {}]
        BY <3>1 DEF ReviewerSucceeds
      <4>2. PICK f : f = [scratch.files EXCEPT ![LogOf(review.by)] = {b},
                                               ![ErrOf(review.by)] = {}]
        OBVIOUS
      <4>3. scratch' = [scratch EXCEPT !.decision = FALSE, !.files = f]
        BY <4>1, <4>2, <1>a DEF ScratchShape
      <4>4. f \in [ArtifactPaths -> SUBSET Bodies]
        BY <4>2, <1>a DEF ScratchShape
      <4>5. QED
        BY <4>3, <4>4, <1>a DEF ScratchShape
    <3>2. CASE ReviewerFails
      <4>1. PICK b \in Bodies :
               scratch' = [scratch EXCEPT !.files[LogOf(review.by)] = {b},
                                          !.files[ErrOf(review.by)] = {b}]
        BY <3>2 DEF ReviewerFails
      <4>2. PICK f : f = [scratch.files EXCEPT ![LogOf(review.by)] = {b},
                                               ![ErrOf(review.by)] = {b}]
        OBVIOUS
      <4>3. scratch' = [scratch EXCEPT !.files = f]
        BY <4>1, <4>2, <1>a DEF ScratchShape
      <4>4. f \in [ArtifactPaths -> SUBSET Bodies]
        BY <4>2, <1>a DEF ScratchShape
      <4>5. QED
        BY <4>3, <4>4, <1>a DEF ScratchShape
    <3>3. QED
      BY <1>7, <3>1, <3>2
  <2>3. QED
    BY <1>7, <1>a, <1>b, <1>d, <2>1, <2>2 DEF ReviewerSucceeds, ReviewerFails, ManifestShape
<1>8. CASE SyncAll \/ SyncGateError
  <2>1. ReviewShape' /\ (ReviewHasReviewer => ReviewHasReviewer')
    BY <1>8, <1>a DEF SyncAll, SyncGateError, ReviewShape, ReviewHasReviewer
  <2>2. IngestSurvivors \in [ArtifactPaths -> SUBSET ArtifactRows]
    BY <1>a DEF IngestSurvivors, ManifestShape
  <2>3. ManifestShape'
    <3>1. CASE SyncAll
      BY <3>1, <1>c, <2>2, UpsertedRows DEF SyncAll, IngestRunArtifacts, ManifestShape
    <3>2. CASE SyncGateError
      BY <3>2, <1>a, <1>c, UpsertedRows DEF SyncGateError, IngestPaths, ManifestShape
    <3>3. QED
      BY <1>8, <3>1, <3>2
  <2>4. QED
    BY <1>8, <1>a, <1>b, <1>d, <2>1, <2>3 DEF SyncAll, SyncGateError, ScratchShape
<1>9. CASE ReviewKilled
  <2>1. ReviewShape' /\ ReviewHasReviewer'
    BY <1>9, <1>e DEF ReviewKilled, ReviewShape, ReviewHasReviewer
  <2>2. ScratchShape'
    <3>1. CASE UNCHANGED scratch
      BY <1>a, <3>1 DEF ScratchShape
    <3>2. CASE \E b \in Bodies :
                  scratch' = [scratch EXCEPT !.files[LogOf(review.by)] = {b}]
      BY <1>a, <3>2 DEF ScratchShape
    <3>3. CASE \E gone \in SUBSET OnDisk, meta, dec \in BOOLEAN :
                 scratch' = [meta |-> scratch.meta /\ meta,
                             decision |-> scratch.decision /\ dec,
                             files |-> [p \in ArtifactPaths |->
                                          IF p \in gone THEN {} ELSE scratch.files[p]]]
      BY <1>a, <3>3 DEF ScratchShape
    <3>4. QED
      BY <1>9, <3>1, <3>2, <3>3 DEF ReviewKilled
  <2>3. QED
    BY <1>9, <1>a, <1>b, <1>d, <2>1, <2>2 DEF ReviewKilled, ManifestShape
<1>10. QED
  BY <1>1, <1>2, <1>3, <1>4, <1>5, <1>6, <1>7, <1>8, <1>9 DEF ReviewStep

\* The blob tools move rows between stores and neither remove nor unmark one.
Repointed ==
    \A p \in ArtifactPaths :
        /\ manifest'[p] = {} <=> manifest[p] = {}
        /\ (\A row \in manifest[p] : row.quarantined)
              => (\A row \in manifest'[p] : row.quarantined)

LEMMA RepointedKeeps ==
    ASSUME Repointed, UNCHANGED <<scratch, review, everHeld>>,
           HeldHaveRows, ReviewCovers, ReviewHasReviewer, ArtifactShapes
    PROVE  HeldHaveRows' /\ ReviewCovers' /\ ReviewHasReviewer'
PROOF
<1>1. Covered => Covered'
  BY DEF Covered, Repointed
<1>2. HeldHaveRows'
  BY DEF HeldHaveRows, Repointed
<1>3. ReviewHasReviewer'
  BY DEF ReviewHasReviewer
<1>4. (review.pc = "export" => \A p \in ArtifactPaths :
           /\ manifest[p] # {} => p \in review.todo \/ scratch.files[p] # {}
           /\ p \in review.todo => manifest[p] # {})'
  BY DEF ReviewCovers, Repointed
<1>5. (review.pc = "clear" => \A p \in review.todo \ ErrPaths :
           \A row \in manifest[p] : row.quarantined)'
  BY DEF ReviewCovers, Repointed, ArtifactShapes
<1>6. QED
  BY <1>1, <1>2, <1>3, <1>4, <1>5 DEF ReviewCovers

LEMMA SameRows ==
    ASSUME manifest' = manifest
    PROVE  Repointed
BY DEF Repointed

LEMMA BlobStepKeeps ==
    ASSUME ArtifactShapes, RowsAreReadable, ObjectsStay, BlobStep, "forget" \notin CrashAt
    PROVE  /\ RowsAreReadable' /\ ObjectsStay'
           /\ Repointed /\ UNCHANGED <<scratch, review, everHeld>>
PROOF
<1> USE DEF BlobPcs
<1>0. UNCHANGED <<scratch, review, everHeld>>
  BY DEF BlobStep, MigrateToExternal, MigrateToDb, GcExternalBlobs, BeginBlobOp, PutBody,
     RecordExternalBlob, FlipToExternal, FetchToDb, GcDeleteObject, GcForgetRow,
     VerifyExternalBlob, BlobOpKilled
<1>a. ASSUME NEW p \in ArtifactPaths, NEW row \in manifest[p]
      PROVE  row \in ArtifactRows /\ row.sha \in Bodies
  BY <1>a DEF ArtifactShapes, ArtifactRows
<1>1. CASE MigrateToExternal \/ MigrateToDb
  <2>1. blobOp.pc = "idle" /\ blobOp'.pc \in {"put", "fetch"}
        /\ UNCHANGED <<manifest, dbBlobs, extRows, objects>>
    BY <1>1 DEF MigrateToExternal, MigrateToDb, BeginBlobOp
  <2>2. RowsAreReadable' /\ ObjectsStay'
    BY <2>1 DEF RowsAreReadable, ObjectsStay
  <2>3. QED
    BY <1>0, <2>1, <2>2, SameRows
<1>2. CASE GcExternalBlobs
  <2>1. PICK shas \in SUBSET Bodies : BeginBlobOp("delete", Unreferenced(shas), {})
    BY <1>2 DEF GcExternalBlobs
  <2>2. /\ blobOp.pc = "idle" /\ UNCHANGED <<manifest, dbBlobs, extRows, objects>>
        /\ blobOp'.pc = "delete" /\ blobOp'.todo = Unreferenced(shas) /\ blobOp'.cur = {}
    BY <2>1 DEF BeginBlobOp
  <2>3. \A p \in ArtifactPaths : \A row \in manifest[p] : row.sha \notin Unreferenced(shas)
    BY DEF Unreferenced
  <2>4. RowsAreReadable' /\ ObjectsStay'
    BY <2>2, <2>3 DEF RowsAreReadable, ObjectsStay
  <2>5. QED
    BY <1>0, <2>2, <2>4, SameRows
<1>3. CASE PutBody
  <2>1. PICK s : /\ blobOp.pc = "put" /\ objects' = objects \cup {s}
                 /\ blobOp'.pc = "record" /\ blobOp'.cur = {s}
                 /\ UNCHANGED <<manifest, dbBlobs, extRows>>
    BY <1>3 DEF PutBody, LocalPut, ArtifactShapes
  <2>2. RowsAreReadable' /\ ObjectsStay'
    BY <2>1 DEF RowsAreReadable, ObjectsStay
  <2>3. QED
    BY <1>0, <2>1, <2>2, SameRows
<1>4. CASE RecordExternalBlob
  <2>1. /\ blobOp.pc = "record" /\ blobOp'.pc = "put"
        /\ \A s \in Bodies : extRows'[s] = IF s \in blobOp.cur THEN "available" ELSE extRows[s]
        /\ UNCHANGED <<manifest, dbBlobs, objects>>
    BY <1>4 DEF RecordExternalBlob, ArtifactShapes
  <2>2. RowsAreReadable'
    BY <1>a, <2>1 DEF RowsAreReadable
  <2>3. ObjectsStay'
    BY <2>1 DEF ObjectsStay
  <2>4. QED
    BY <1>0, <2>1, <2>2, <2>3, SameRows
<1>5. CASE FlipToExternal
  <2> DEFINE Flip(p, row) == IF p \in blobOp.paths /\ row.storage = "db"
                                /\ extRows[row.sha] = "available"
                             THEN [row EXCEPT !.storage = "external"] ELSE row
  <2>1. /\ blobOp.pc = "put" /\ blobOp'.pc = "idle"
        /\ \A p \in ArtifactPaths : manifest'[p] = {Flip(p, row) : row \in manifest[p]}
        /\ UNCHANGED <<dbBlobs, extRows, objects>>
    BY <1>5 DEF FlipToExternal, IdleBlobOp
  <2>2. ASSUME NEW p \in ArtifactPaths, NEW row \in manifest[p]
        PROVE  /\ Flip(p, row).sha = row.sha
               /\ Flip(p, row).quarantined = row.quarantined
               /\ Flip(p, row).storage = "external" =>
                     row.storage = "external" \/ extRows[row.sha] = "available"
    BY <1>a, <2>2 DEF ArtifactRows
  <2> HIDE DEF Flip
  <2>3. Repointed
    BY <2>1, <2>2 DEF Repointed
  <2>4. RowsAreReadable'
    BY <1>a, <2>1, <2>2 DEF RowsAreReadable, ObjectsStay
  <2>5. ObjectsStay'
    BY <2>1 DEF ObjectsStay
  <2>6. QED
    BY <1>0, <2>3, <2>4, <2>5
<1>6. CASE FetchToDb
  <2> DEFINE Back(row) == [row EXCEPT !.storage = "db"]
  <2>1. /\ blobOp.pc = "fetch" /\ blobOp'.pc \in {"idle", "fetch"}
        /\ UNCHANGED <<extRows, objects>> /\ dbBlobs \subseteq dbBlobs'
    BY <1>6 DEF FetchToDb, IdleBlobOp, StoreArtifactBlob, ArtifactShapes
  <2>2. \/ manifest' = manifest
        \/ \E f : manifest' = [manifest EXCEPT ![f] = {Back(row) : row \in @}]
    BY <1>6 DEF FetchToDb
  <2>3. ASSUME NEW p \in ArtifactPaths, NEW row \in manifest[p]
        PROVE  Back(row).sha = row.sha /\ Back(row).quarantined = row.quarantined
               /\ Back(row).storage = "db"
    BY <1>a, <2>3 DEF ArtifactRows
  <2> HIDE DEF Back
  <2>4. \A p \in ArtifactPaths : manifest'[p] = manifest[p]
                              \/ manifest'[p] = {Back(row) : row \in manifest[p]}
    BY <2>2 DEF ArtifactShapes
  <2>5. Repointed
    BY <2>3, <2>4 DEF Repointed
  <2>6. RowsAreReadable'
    BY <1>a, <2>1, <2>3, <2>4 DEF RowsAreReadable
  <2>7. ObjectsStay'
    BY <2>1 DEF ObjectsStay
  <2>8. QED
    BY <1>0, <2>5, <2>6, <2>7
<1>7. CASE GcDeleteObject
  <2>1. CASE blobOp.todo = {}
    <3>1. /\ blobOp.pc = "delete" /\ blobOp'.pc = "idle"
          /\ UNCHANGED <<manifest, dbBlobs, extRows, objects>>
      BY <1>7, <2>1 DEF GcDeleteObject, IdleBlobOp
    <3>2. RowsAreReadable' /\ ObjectsStay'
      BY <3>1 DEF RowsAreReadable, ObjectsStay
    <3>3. QED
      BY <1>0, <3>1, <3>2, SameRows
  <2>2. CASE blobOp.todo # {}
    <3>1. PICK s \in blobOp.todo :
             /\ blobOp.pc = "delete" /\ blobOp'.pc = "forget"
             /\ blobOp'.cur = {s} /\ blobOp'.todo = blobOp.todo \ {s}
             /\ objects \ {s} \subseteq objects'
             /\ UNCHANGED <<manifest, dbBlobs, extRows>>
      BY <1>7, <2>2 DEF GcDeleteObject, LocalDelete, ArtifactShapes
    <3>2. \A p \in ArtifactPaths : \A row \in manifest[p] :
             row.storage = "external" => row.sha \notin blobOp.todo
      BY <3>1 DEF ObjectsStay
    <3>3. RowsAreReadable'
      BY <3>1, <3>2 DEF RowsAreReadable
    <3>4. ObjectsStay'
      BY <3>1, <3>2 DEF ObjectsStay
    <3>5. QED
      BY <1>0, <3>1, <3>3, <3>4, SameRows
  <2>3. QED
    BY <2>1, <2>2
<1>8. CASE GcForgetRow
  <2>1. /\ blobOp.pc = "forget" /\ blobOp'.pc = "delete"
        /\ blobOp'.cur = {} /\ blobOp'.todo = blobOp.todo
        /\ \A s \in Bodies : extRows'[s] = IF s \in blobOp.cur THEN "none" ELSE extRows[s]
        /\ UNCHANGED <<manifest, dbBlobs, objects>>
    BY <1>8 DEF GcForgetRow, ArtifactShapes
  <2>2. RowsAreReadable'
    BY <1>a, <2>1 DEF RowsAreReadable, ObjectsStay
  <2>3. ObjectsStay'
    BY <2>1 DEF ObjectsStay
  <2>4. QED
    BY <1>0, <2>1, <2>2, <2>3, SameRows
<1>9. CASE \E s \in Bodies : VerifyExternalBlob(s)
  <2>1. PICK s \in Bodies :
           /\ extRows' = [extRows EXCEPT ![s] = IF s \in objects THEN "available" ELSE "missing"]
           /\ UNCHANGED <<manifest, dbBlobs, objects, blobOp>>
    BY <1>9 DEF VerifyExternalBlob, LocalGet
  <2>2. RowsAreReadable'
    BY <1>a, <2>1 DEF RowsAreReadable, ArtifactShapes
  <2>3. ObjectsStay'
    BY <2>1 DEF ObjectsStay, ArtifactShapes
  <2>4. QED
    BY <1>0, <2>1, <2>2, <2>3, SameRows
<1>10. CASE BlobOpKilled
  <2>1. /\ blobOp.pc # "forget" /\ blobOp'.pc = "idle"
        /\ UNCHANGED <<manifest, dbBlobs, extRows, objects>>
    BY <1>10 DEF BlobOpKilled, IdleBlobOp
  <2>2. RowsAreReadable' /\ ObjectsStay'
    BY <2>1 DEF RowsAreReadable, ObjectsStay
  <2>3. QED
    BY <1>0, <2>1, <2>2, SameRows
<1>11. QED
  BY <1>1, <1>2, <1>3, <1>4, <1>5, <1>6, <1>7, <1>8, <1>9, <1>10 DEF BlobStep

\* Every row a review leaves was there, perhaps unmarked, or points into the
\* database at a body that was just stored.
RowsGrow ==
    /\ dbBlobs \subseteq dbBlobs'
    /\ \A p \in ArtifactPaths : \A row \in manifest'[p] :
          \/ row.storage = "db" /\ row.sha \in dbBlobs'
          \/ \E old \in manifest[p] : old.sha = row.sha /\ old.storage = row.storage

LEMMA GrownRowsAreReadable ==
    ASSUME RowsAreReadable, ObjectsStay, RowsGrow, UNCHANGED <<extRows, objects, blobOp>>
    PROVE  RowsAreReadable' /\ ObjectsStay'
PROOF
<1>1. RowsAreReadable'
  BY DEF RowsAreReadable, RowsGrow
<1>2. ObjectsStay'
  BY DEF ObjectsStay, RowsGrow
<1>3. QED
  BY <1>1, <1>2

\* What an ingest of the named paths leaves.
LEMMA IngestedRows ==
    ASSUME ArtifactShapes, NEW paths \in SUBSET OnDisk,
           NEW rows \in [ArtifactPaths -> SUBSET ArtifactRows],
           manifest' = Upserted(rows, paths), dbBlobs' = StoredFiles(paths)
    PROVE  /\ dbBlobs \subseteq dbBlobs'
           /\ \A p \in paths : manifest'[p] # {}
           /\ \A p \in paths : \A row \in manifest'[p] :
                 row.storage = "db" /\ row.sha \in dbBlobs'
           /\ \A p \in ArtifactPaths \ paths : manifest'[p] = rows[p]
PROOF
<1>1. \A p \in paths : p \in ArtifactPaths /\ scratch.files[p] # {}
  BY DEF OnDisk
<1>2. \A p \in paths : manifest'[p] = {ArtifactRow(p, b) : b \in scratch.files[p]}
  BY <1>1 DEF Upserted
<1>3. \A p \in paths : \A b \in scratch.files[p] : b \in dbBlobs'
  BY DEF StoredFiles
<1>4. \A p \in paths : \A row \in manifest'[p] : row.storage = "db" /\ row.sha \in dbBlobs'
  BY <1>2, <1>3 DEF ArtifactRow
<1>5. \A p \in paths : manifest'[p] # {}
  BY <1>1, <1>2
<1>6. \A p \in ArtifactPaths \ paths : manifest'[p] = rows[p]
  BY DEF Upserted
<1>7. QED
  BY <1>4, <1>5, <1>6 DEF StoredFiles

LEMMA ReviewRowsGrow ==
    ASSUME ArtifactShapes, ReviewStep
    PROVE  RowsGrow /\ UNCHANGED <<extRows, objects, blobOp>>
PROOF
<1>0. UNCHANGED <<extRows, objects, blobOp>>
  BY DEF ReviewStep, EnsureRunMaterialized, ExportRunBody, GateRefuses, GatePasses,
     QuarantineIngest, MarkArtifactsQuarantined, QuarantineClear, ReviewerSucceeds,
     ReviewerFails, SyncAll, QuarantineUntrusted, SyncGateError, RemoveScratch, ReviewKilled
<1>1. CASE QuarantineIngest \/ SyncGateError
  <2>1. PICK paths \in SUBSET OnDisk :
           manifest' = Upserted(manifest, paths) /\ dbBlobs' = StoredFiles(paths)
    BY <1>1 DEF QuarantineIngest, SyncGateError, IngestPaths, PriorOutputs
  <2>2. manifest \in [ArtifactPaths -> SUBSET ArtifactRows]
    BY DEF ArtifactShapes
  <2>3. QED
    BY <1>0, <2>1, <2>2, IngestedRows DEF RowsGrow
<1>2. CASE SyncAll
  <2>1. manifest' = Upserted(IngestSurvivors, OnDisk) /\ dbBlobs' = StoredFiles(OnDisk)
    BY <1>2 DEF SyncAll, IngestRunArtifacts
  <2>2. IngestSurvivors \in [ArtifactPaths -> SUBSET ArtifactRows]
    BY DEF ArtifactShapes, IngestSurvivors
  <2>3. \A p \in ArtifactPaths : IngestSurvivors[p] \subseteq manifest[p]
    BY DEF IngestSurvivors
  <2>4. QED
    BY <1>0, <2>1, <2>2, <2>3, IngestedRows DEF RowsGrow
<1>3. CASE MarkArtifactsQuarantined
  <2>1. ASSUME NEW p \in ArtifactPaths, NEW row \in manifest'[p]
        PROVE  \E old \in manifest[p] : old.sha = row.sha /\ old.storage = row.storage
    BY <1>3, <2>1 DEF MarkArtifactsQuarantined, ArtifactShapes, ArtifactRows
  <2>2. QED
    BY <1>0, <1>3, <2>1 DEF RowsGrow, MarkArtifactsQuarantined
<1>4. CASE UNCHANGED <<manifest, dbBlobs>>
  BY <1>0, <1>4 DEF RowsGrow
<1>5. QED
  BY <1>1, <1>2, <1>3, <1>4 DEF ReviewStep, EnsureRunMaterialized, ExportRunBody, GateRefuses,
     GatePasses, QuarantineClear, ReviewerSucceeds, ReviewerFails, QuarantineUntrusted,
     RemoveScratch, ReviewKilled

\* A path that was ever held keeps a row.
LEMMA HeldStep ==
    ASSUME ArtifactShapes, HeldHaveRows, ReviewCovers, ReviewStep
    PROVE  HeldHaveRows'
PROOF
<1>1. CASE QuarantineIngest \/ SyncGateError
  <2>1. PICK paths \in SUBSET OnDisk :
           /\ manifest' = Upserted(manifest, paths) /\ dbBlobs' = StoredFiles(paths)
           /\ everHeld' = everHeld \cup {p \in paths : IsQuarantinePreservedPath(p)}
    BY <1>1 DEF QuarantineIngest, SyncGateError, IngestPaths, PriorOutputs
  <2>2. manifest \in [ArtifactPaths -> SUBSET ArtifactRows]
    BY DEF ArtifactShapes
  <2>3. /\ \A p \in paths : manifest'[p] # {}
        /\ \A p \in ArtifactPaths \ paths : manifest'[p] = manifest[p]
    BY <2>1, <2>2, IngestedRows
  <2>4. QED
    BY <2>1, <2>3 DEF HeldHaveRows, IsQuarantinePreservedPath, OnDisk
<1>2. CASE SyncAll
  <2>1. /\ manifest' = Upserted(IngestSurvivors, OnDisk) /\ dbBlobs' = StoredFiles(OnDisk)
        /\ everHeld' = everHeld \cup {p \in OnDisk : IsQuarantinePreservedPath(p)}
    BY <1>2 DEF SyncAll, IngestRunArtifacts
  <2>2. IngestSurvivors \in [ArtifactPaths -> SUBSET ArtifactRows]
    BY DEF ArtifactShapes, IngestSurvivors
  <2>3. /\ \A p \in OnDisk : manifest'[p] # {}
        /\ \A p \in ArtifactPaths \ OnDisk : manifest'[p] = IngestSurvivors[p]
    BY <2>1, <2>2, IngestedRows
  <2>4. Covered
    BY <1>2 DEF SyncAll, ReviewCovers
  <2>5. \A p \in everHeld \ OnDisk : IngestSurvivors[p] = manifest[p]
    BY <2>4 DEF Covered, HeldHaveRows, IngestSurvivors, OnDisk
  <2>6. QED
    BY <2>1, <2>3, <2>5 DEF HeldHaveRows, IsQuarantinePreservedPath, OnDisk
<1>3. CASE MarkArtifactsQuarantined
  <2>1. \A p \in ArtifactPaths : manifest[p] # {} => manifest'[p] # {}
    BY <1>3 DEF MarkArtifactsQuarantined
  <2>2. QED
    BY <1>3, <2>1 DEF HeldHaveRows, MarkArtifactsQuarantined
<1>4. CASE UNCHANGED <<manifest, everHeld>>
  BY <1>4 DEF HeldHaveRows
<1>5. QED
  BY <1>1, <1>2, <1>3, <1>4 DEF ReviewStep, EnsureRunMaterialized, ExportRunBody, GateRefuses,
     GatePasses, QuarantineClear, ReviewerSucceeds, ReviewerFails, QuarantineUntrusted,
     RemoveScratch, ReviewKilled

\* Up to the sync every durable row has its file or its mark.
LEMMA CoverStep ==
    ASSUME ArtifactShapes, ReviewHasReviewer, RowsAreReadable, ReviewCovers, ReviewStep,
           CrashAt \cap UnsafeToDie = {}
    PROVE  ReviewCovers'
PROOF
<1>a. ReviewShape /\ ScratchShape /\ ManifestShape
  BY DEF ArtifactShapes, ReviewShape, ScratchShape, ManifestShape
<1>1. CASE \E r \in ReviewerIds : EnsureRunMaterialized(r)
  <2>1. CASE scratch.meta /\ scratch.decision
    <3>1. review'.pc = "gate" /\ UNCHANGED <<scratch, manifest>>
      BY <1>1, <2>1 DEF EnsureRunMaterialized, IdleReview
    <3>2. Covered
      BY <1>1, <2>1 DEF EnsureRunMaterialized, ReviewCovers
    <3>3. Covered'
      BY <3>1, <3>2 DEF Covered
    <3>4. QED
      BY <3>1, <3>3 DEF ReviewCovers
  <2>2. CASE ~(scratch.meta /\ scratch.decision)
    <3>1. review'.pc = "export" /\ review'.todo = RowsWithBody /\ UNCHANGED manifest
      BY <1>1, <2>2 DEF EnsureRunMaterialized, IdleReview
    <3>2. QED
      BY <3>1 DEF ReviewCovers, RowsWithBody
  <2>3. QED
    BY <2>1, <2>2
<1>2. CASE ExportRunBody
  <2>0. /\ review.pc = "export" /\ UNCHANGED manifest
        /\ \A p \in ArtifactPaths : manifest[p] # {} => p \in review.todo \/ scratch.files[p] # {}
        /\ \A p \in ArtifactPaths : p \in review.todo => manifest[p] # {}
    BY <1>2 DEF ExportRunBody, ReviewCovers
  <2>1. CASE review.todo = {}
    <3>1. review'.pc = "gate" /\ UNCHANGED scratch
      BY <1>2, <1>a, <2>1 DEF ExportRunBody, ReviewShape
    <3>2. Covered'
      BY <2>0, <2>1, <3>1 DEF Covered
    <3>3. QED
      BY <3>1, <3>2 DEF ReviewCovers
  <2>2. CASE review.todo # {} /\ review' # IdleReview
    <3>1. PICK p \in review.todo :
             /\ \E row \in manifest[p] : Readable(row)
             /\ scratch' = [scratch EXCEPT !.files[p] = {row.sha : row \in manifest[p]}]
             /\ review' = [review EXCEPT !.todo = @ \ {p}]
      BY <1>2, <2>2 DEF ExportRunBody
    <3>2. review'.pc = "export" /\ review'.todo = review.todo \ {p}
      BY <1>a, <2>0, <3>1 DEF ReviewShape
    <3>3. /\ scratch'.files[p] # {}
          /\ \A q \in ArtifactPaths \ {p} : scratch'.files[q] = scratch.files[q]
      BY <1>a, <3>1 DEF ScratchShape, ReviewShape
    <3>4. \A q \in ArtifactPaths :
             /\ manifest'[q] # {} => q \in review'.todo \/ scratch'.files[q] # {}
             /\ q \in review'.todo => manifest'[q] # {}
      BY <2>0, <3>2, <3>3
    <3>5. QED
      BY <3>2, <3>4 DEF ReviewCovers
  <2>3. CASE review.todo # {} /\ review' = IdleReview
    <3>1. review'.pc = "idle"
      BY <2>3 DEF IdleReview
    <3>2. PICK p \in review.todo : ~(\E row \in manifest[p] : Readable(row))
      <4>1. \A q : [review EXCEPT !.todo = @ \ {q}].pc = "export"
        BY <1>a, <2>0 DEF ReviewShape
      <4>2. QED
        BY <1>2, <2>3, <3>1, <4>1 DEF ExportRunBody
    <3>3. manifest[p] = {}
      BY <1>a, <3>2 DEF RowsAreReadable, Readable, ReadArtifactBlob,
         ReadExternalLocalArtifact, LocalGet, ReviewShape, ManifestShape, ArtifactRows
    <3>4. QED
      BY <1>a, <2>0, <3>2, <3>3 DEF ReviewShape
  <2>4. QED
    BY <2>1, <2>2, <2>3
<1>3. CASE GateRefuses \/ GatePasses
  <2>1. review'.pc \in {"distrust", "ingest"} /\ UNCHANGED <<scratch, manifest>> /\ Covered
    BY <1>3, <1>a DEF GateRefuses, GatePasses, ReviewShape, ReviewCovers
  <2>2. Covered'
    BY <2>1 DEF Covered
  <2>3. QED
    BY <2>1, <2>2 DEF ReviewCovers
<1>4. CASE QuarantineIngest
  <2>1. /\ review'.pc = "mark" /\ UNCHANGED scratch /\ Covered
        /\ manifest' = Upserted(manifest, PriorOutputs)
    BY <1>4, <1>a DEF QuarantineIngest, IngestPaths, ReviewShape, ReviewCovers
  <2>2. \A p \in ArtifactPaths : manifest'[p] = manifest[p] \/ scratch.files[p] # {}
    BY <2>1 DEF Upserted, PriorOutputs, OnDisk
  <2>3. Covered'
    BY <2>1, <2>2 DEF Covered
  <2>4. QED
    BY <2>1, <2>3 DEF ReviewCovers
<1>5. CASE MarkArtifactsQuarantined
  <2>1. review'.pc = "clear" /\ review'.todo = review.todo /\ UNCHANGED scratch /\ Covered
    BY <1>5, <1>a DEF MarkArtifactsQuarantined, ReviewShape, ReviewCovers
  <2>2. \A p \in ArtifactPaths :
           /\ manifest'[p] # {} => manifest[p] # {}
           /\ manifest'[p] = manifest[p] \/ \A row \in manifest'[p] : row.quarantined
           /\ p \in review.todo \ ErrPaths => \A row \in manifest'[p] : row.quarantined
    BY <1>5, <1>a DEF MarkArtifactsQuarantined, IsQuarantinePreservedPath, ManifestShape,
       ArtifactRows
  <2>3. Covered'
    BY <2>1, <2>2 DEF Covered
  <2>4. QED
    BY <1>a, <2>1, <2>2, <2>3 DEF ReviewCovers, ReviewShape
<1>6. CASE QuarantineClear
  <2>1. /\ review'.pc = "codex" /\ UNCHANGED manifest /\ Covered
        /\ \A p \in review.todo \ ErrPaths : \A row \in manifest[p] : row.quarantined
    BY <1>6, <1>a DEF QuarantineClear, ReviewShape, ReviewCovers
  <2>2. /\ ~scratch'.decision
        /\ \A p \in ArtifactPaths \ review.todo : scratch'.files[p] = scratch.files[p]
    BY <1>6, <1>a DEF QuarantineClear, ScratchShape
  <2>3. Covered'
    BY <2>1, <2>2 DEF Covered
  <2>4. QED
    BY <2>1, <2>2, <2>3 DEF ReviewCovers
<1>7. CASE ReviewerSucceeds
  <2>1. review'.pc = "sync" /\ UNCHANGED manifest /\ Covered /\ review.by \in ReviewerIds
    BY <1>7, <1>a DEF ReviewerSucceeds, ReviewShape, ReviewCovers, ReviewHasReviewer
  <2>2. PICK b \in Bodies : scratch' = [scratch EXCEPT !.decision = FALSE,
                                          !.files[LogOf(review.by)] = {b},
                                          !.files[ErrOf(review.by)] = {}]
    BY <1>7 DEF ReviewerSucceeds
  <2>3. ErrOf(review.by) \in ErrPaths
    BY <2>1 DEF ErrPaths
  <2>4. /\ ~scratch'.decision
        /\ \A p \in ArtifactPaths \ ErrPaths : scratch.files[p] # {} => scratch'.files[p] # {}
    <3>1. ~scratch'.decision
      BY <1>a, <2>2 DEF ScratchShape
    <3>2. scratch'.files = [scratch.files EXCEPT ![LogOf(review.by)] = {b},
                                                 ![ErrOf(review.by)] = {}]
      BY <1>a, <2>2 DEF ScratchShape
    <3>3. QED
      BY <1>a, <2>3, <3>1, <3>2 DEF ScratchShape
  <2>5. Covered'
    BY <2>1, <2>4 DEF Covered
  <2>6. QED
    BY <2>1, <2>4, <2>5 DEF ReviewCovers
<1>8. CASE ReviewerFails
  <2>1. review'.pc = "distrust" /\ ~scratch.decision
    BY <1>8, <1>a DEF ReviewerFails, ReviewShape, ReviewCovers
  <2>2. ~scratch'.decision
    BY <1>8, <1>a, <2>1 DEF ReviewerFails, ScratchShape
  <2>3. QED
    BY <2>1, <2>2 DEF ReviewCovers
<1>9. CASE SyncAll
  <2>1. review'.pc = "remove" /\ ~scratch.decision /\ UNCHANGED scratch
    BY <1>9, <1>a DEF SyncAll, ReviewShape, ReviewCovers
  <2>2. QED
    BY <2>1 DEF ReviewCovers
<1>10. CASE QuarantineUntrusted \/ SyncGateError
  <2>1. review'.pc \in {"gateIngest", "discard"}
    BY <1>10, <1>a DEF QuarantineUntrusted, SyncGateError, ReviewShape
  <2>2. QED
    BY <2>1 DEF ReviewCovers
<1>11. CASE RemoveScratch
  <2>1. review'.pc = "idle" /\ ~scratch'.meta
    BY <1>11 DEF RemoveScratch, IdleReview, NoScratch
  <2>2. QED
    BY <2>1 DEF ReviewCovers
<1>12. CASE ReviewKilled
  <2>0. /\ review'.pc = "idle" /\ UNCHANGED manifest
        /\ review.pc \notin {"export", "gateIngest", "discard"}
    BY <1>12 DEF ReviewKilled, IdleReview, UnsafeToDie
  <2> SUFFICES ASSUME scratch'.meta, scratch'.decision
               PROVE  Covered'
    BY <2>0 DEF ReviewCovers
  <2>1. CASE review.pc \in {"codex", "sync", "remove"}
    <3>1. ~scratch.decision
      BY <2>1 DEF ReviewCovers
    <3>2. ~scratch'.decision
      <4>1. CASE UNCHANGED scratch
        BY <3>1, <4>1
      <4>2. CASE \E b \in Bodies :
                   scratch' = [scratch EXCEPT !.files[LogOf(review.by)] = {b}]
        BY <1>a, <3>1, <4>2 DEF ScratchShape
      <4>3. CASE \E gone \in SUBSET OnDisk, meta, dec \in BOOLEAN :
                   scratch' = [meta |-> scratch.meta /\ meta,
                               decision |-> scratch.decision /\ dec,
                               files |-> [p \in ArtifactPaths |->
                                            IF p \in gone THEN {} ELSE scratch.files[p]]]
        <5>1. PICK gone \in SUBSET OnDisk, meta \in BOOLEAN, dec \in BOOLEAN :
                   scratch' = [meta |-> scratch.meta /\ meta,
                               decision |-> scratch.decision /\ dec,
                               files |-> [p \in ArtifactPaths |->
                                            IF p \in gone THEN {} ELSE scratch.files[p]]]
          BY <4>3
        <5>2. scratch'.decision = (scratch.decision /\ dec)
          BY <5>1
        <5>3. QED
          BY <3>1, <5>2
      <4>4. QED
        BY <1>12, <4>1, <4>2, <4>3 DEF ReviewKilled
    <3>3. QED
      BY <3>2
  <2>2. CASE review.pc = "clear"
    <3>1. /\ Covered
          /\ \A p \in review.todo \ ErrPaths : \A row \in manifest[p] : row.quarantined
      BY <2>2 DEF ReviewCovers
    <3>2. \A p \in ArtifactPaths : scratch'.files[p] = scratch.files[p] \/ p \in review.todo
      <4>1. CASE UNCHANGED scratch
        BY <4>1
      <4>2. CASE \E gone \in SUBSET OnDisk, meta, dec \in BOOLEAN :
                   /\ gone \subseteq review.todo
                   /\ scratch' = [meta |-> scratch.meta /\ meta,
                                  decision |-> scratch.decision /\ dec,
                                  files |-> [p \in ArtifactPaths |->
                                               IF p \in gone THEN {} ELSE scratch.files[p]]]
        BY <4>2
      <4>3. QED
        BY <1>12, <2>2, <4>1, <4>2 DEF ReviewKilled
    <3>3. QED
      BY <2>0, <3>1, <3>2 DEF Covered
  <2>3. CASE review.pc \in {"idle", "gate", "ingest", "mark", "distrust"}
    <3>1. UNCHANGED scratch
      BY <1>12, <2>3 DEF ReviewKilled
    <3>2. Covered
      BY <2>3, <3>1 DEF ReviewCovers
    <3>3. QED
      BY <2>0, <3>1, <3>2 DEF Covered
  <2>4. QED
    BY <1>a, <2>0, <2>1, <2>2, <2>3 DEF ReviewShape, ReviewPcs
<1>13. QED
  BY <1>1, <1>2, <1>3, <1>4, <1>5, <1>6, <1>7, <1>8, <1>9, <1>10, <1>11, <1>12 DEF ReviewStep

LEMMA ArtifactsInitially == ArtifactsInit => ArtifactsInv
PROOF
<1> SUFFICES ASSUME ArtifactsInit
             PROVE  ArtifactsInv
  OBVIOUS
<1>0. /\ Diff \in ArtifactPaths /\ Diff \notin ErrPaths /\ DiffBody \in Bodies
      /\ manifest \in [ArtifactPaths -> SUBSET ArtifactRows]
      /\ \A p \in ArtifactPaths : \A row \in manifest[p] : row = ArtifactRow(Diff, DiffBody)
  <2>1. DiffBody \in Bodies
    BY ArtifactsAssumption
  <2>2. ArtifactRow(Diff, DiffBody) \in ArtifactRows
    BY <2>1 DEF ArtifactRow, ArtifactRows
  <2>3. Diff \in ArtifactPaths /\ Diff \notin ErrPaths
    BY DEF Diff, ArtifactPaths, ErrPaths, ErrOf
  <2>4. QED
    BY <2>1, <2>2, <2>3 DEF ArtifactsInit
<1>1. ArtifactShapes
  <2>1. scratch \in [meta: BOOLEAN, decision: BOOLEAN, files: [ArtifactPaths -> SUBSET Bodies]]
    BY DEF ArtifactsInit, NoScratch, NoFiles
  <2>2. review \in [pc: ReviewPcs, by: ReviewerIds \cup {"none"},
                   todo: SUBSET ArtifactPaths, published: BOOLEAN]
    BY DEF ArtifactsInit, IdleReview, ReviewPcs
  <2>3. QED
    BY <1>0, <2>1, <2>2 DEF ArtifactsInit, ArtifactShapes, IdleBlobOp, BlobPcs
<1>2. RowsAreReadable
  BY <1>0 DEF ArtifactsInit, RowsAreReadable, ArtifactRow
<1>3. ObjectsStay
  BY DEF ArtifactsInit, ObjectsStay, IdleBlobOp
<1>4. HeldHaveRows
  BY <1>0 DEF ArtifactsInit, HeldHaveRows
<1>5. ReviewCovers /\ ReviewHasReviewer
  BY DEF ArtifactsInit, ReviewCovers, ReviewHasReviewer, IdleReview, NoScratch
<1>6. QED
  BY <1>1, <1>2, <1>3, <1>4, <1>5 DEF ArtifactsInv

\* Rows, bodies and the scratch directory stay consistent as long as no
\* process dies in one of the four windows.
THEOREM ArtifactsInvariant ==
    ASSUME CrashAt \cap UnsafeToDie = {}
    PROVE  ArtifactsSpec => []ArtifactsInv
PROOF
<1>1. ArtifactsInv /\ [ArtifactsNext]_artifactVars => ArtifactsInv'
  <2> SUFFICES ASSUME ArtifactsInv, [ArtifactsNext]_artifactVars
               PROVE  ArtifactsInv'
    OBVIOUS
  <2>0. ArtifactShapes /\ ReviewHasReviewer /\ RowsAreReadable
        /\ ObjectsStay /\ HeldHaveRows /\ ReviewCovers
    BY DEF ArtifactsInv
  <2>1. CASE ReviewStep
    BY <2>0, <2>1, ReviewShapesStep, ReviewRowsGrow, GrownRowsAreReadable, HeldStep, CoverStep
       DEF ArtifactsInv
  <2>2. CASE BlobStep
    <3>1. "forget" \notin CrashAt
      BY DEF UnsafeToDie
    <3>2. QED
      BY <2>0, <2>2, <3>1, BlobShapesStep, BlobStepKeeps, RepointedKeeps DEF ArtifactsInv
  <2>3. CASE RunMaintenanceCleanup \/ UNCHANGED artifactVars
    <3>1. UNCHANGED <<scratch, manifest, dbBlobs, extRows, objects, review, blobOp, everHeld>>
      BY <2>3 DEF RunMaintenanceCleanup, artifactVars
    <3>2. QED
      BY <2>0, <3>1 DEF ArtifactsInv, ArtifactShapes, ReviewHasReviewer, RowsAreReadable,
         ObjectsStay, HeldHaveRows, ReviewCovers, Covered
  <2>4. QED
    BY <2>1, <2>2, <2>3 DEF ArtifactsNext
<1>2. QED
  BY <1>1, ArtifactsInitially, PTL DEF ArtifactsSpec

\* For any reviewers, bodies, number of reviews and of blob operations, with
\* garbage collection under either lock and with deaths at every other step:
\* the diff and every transcript the database once held can be read back
\* (ingestRunArtifacts, quarantinePriorReviewerVerdictArtifacts,
\* gcExternalBlobs).  The hypothesis names the windows the code leaves open.
THEOREM TranscriptsAreKept ==
    ASSUME CrashAt \cap UnsafeToDie = {}
    PROVE  ArtifactsSpec => []TranscriptsStay
PROOF
<1>1. ArtifactsInv => TranscriptsStay
  <2> SUFFICES ASSUME ArtifactsInv, NEW p \in everHeld
               PROVE  \E row \in manifest[p] : Readable(row)
    BY DEF TranscriptsStay
  <2>1. p \in ArtifactPaths /\ manifest[p] # {}
    BY DEF ArtifactsInv, HeldHaveRows
  <2>2. \A row \in manifest[p] : Readable(row)
    BY <2>1 DEF ArtifactsInv, RowsAreReadable, ArtifactShapes, ArtifactRows, Readable,
       ReadArtifactBlob, ReadExternalLocalArtifact, LocalGet
  <2>3. QED
    BY <2>1, <2>2
<1>2. QED
  BY <1>1, ArtifactsInvariant, PTL

-----------------------------------------------------------------------------
(* Knowledge.  A promotion is final, so whatever a command learned of a     *)
(* vetted candidate stays true while it is at work; revisions are only      *)
(* appended, so a revision a command points to stays what it is.            *)

KnowledgePcs == {"idle", "sync", "read", "scan", "decide", "write", "upsert", "sidecar",
                 "sidecar_write", "read_row", "revise", "row", "publish", "reset",
                 "candidates", "import", "record"}
Decisions == {"none", "candidate", "promoted", "rejected"}
EntryRows == [cat: {"codebase", "operational"}, mode: {"legacy-file", "db-first"},
              md: Markdown, cur: Nat]

KnowledgeShapes ==
    /\ decision \in [Candidates -> Decisions]
    /\ docs \in [Candidates -> SUBSET Markdown]
    /\ opsDocs \in [OpsKeys -> SUBSET Markdown]
    /\ entries \in [EntryIds -> SUBSET EntryRows]
    /\ revs \in [EntryIds -> Seq(Markdown)]

\* Promoted by a decision, or by file before there were rows.
Vetted(c) == c \in Candidates /\ (c \in LegacyMds \/ decision[c] = "promoted")

DocsAreVetted == \A c \in Candidates : docs[c] # {} => Vetted(c)

\* An entry has at most one row, whose current revision exists; codebase
\* knowledge is vetted, and any other entry is operational.
EntryIsWhole(e, rows) ==
    /\ \A r, s \in rows : r = s
    /\ \A r \in rows : r.cur <= Len(revs[e]) /\ (r.cat = "operational" => e \in OpsKeys)
EntryIsSound(e, rows) ==
    EntryIsWhole(e, rows) /\ \A r \in rows : r.cat = "codebase" => Vetted(e)

EntriesAreSound == \A e \in EntryIds : EntryIsSound(e, entries[e])

IsKnowledgeCommand(c) ==
    c \in [pc: KnowledgePcs, op: {c.op}, at: EntryIds, flag: {c.flag}, seen: {c.seen},
          scan: {c.scan}, snap: {c.snap}, rid: Nat]

\* What a command carries on from an earlier step is still so.
CommandFits(c) ==
    /\ c.pc # "read_row" => c.at \in Candidates
    /\ c.pc \in {"write", "upsert", "record", "revise", "row", "publish"} => Vetted(c.at)
    /\ c.pc \in {"upsert", "record"} => c.snap \subseteq Markdown
    /\ c.pc \in {"reset", "candidates", "import", "record"} =>
          c.op \in {"if-missing", "set-current"}
    /\ c.pc = "upsert" => c.op \in {"if-missing", "set-current", "promote"}
    /\ c.pc = "read_row" => c.op \in {"edit", "deprecate"}
    /\ c.pc \in {"revise", "row", "publish"} =>
          c.snap # {} /\ c.snap \subseteq EntryRows /\ c.op \in {"edit", "deprecate"}
    /\ c.pc = "row" /\ c.op = "deprecate" =>
          c.rid \in 1..Len(revs[c.at]) /\ revs[c.at][c.rid].dep

KCommandsFit ==
    /\ kcmds = [u \in KnowledgeUsers |-> kcmds[u]]
    /\ \A u \in KnowledgeUsers : IsKnowledgeCommand(kcmds[u]) /\ CommandFits(kcmds[u])

KnowledgeInv == KnowledgeShapes /\ DocsAreVetted /\ EntriesAreSound /\ KCommandsFit

\* A promotion is final, and revisions are only appended.
PromotionsStand ==
    \A c \in Candidates : decision[c] = "promoted" => decision'[c] = "promoted"
RevisionsGrow ==
    \A e \in EntryIds : /\ Len(revs[e]) <= Len(revs'[e])
                        /\ \A n \in 1..Len(revs[e]) : revs'[e][n] = revs[e][n]

LEMMA FitsStay ==
    ASSUME KnowledgeShapes, KnowledgeShapes', PromotionsStand, RevisionsGrow,
           NEW c, IsKnowledgeCommand(c), CommandFits(c)
    PROVE  CommandFits(c)'
PROOF
<1>1. Vetted(c.at) => Vetted(c.at)'
  BY DEF Vetted, PromotionsStand
<1>2. ASSUME c.rid \in 1..Len(revs[c.at]), revs[c.at][c.rid].dep
      PROVE  c.rid \in 1..Len(revs'[c.at]) /\ revs'[c.at][c.rid].dep
  <2>1. c.at \in EntryIds /\ c.rid \in Nat
    BY DEF IsKnowledgeCommand
  <2>2. Len(revs[c.at]) \in Nat /\ Len(revs'[c.at]) \in Nat
    BY <2>1 DEF KnowledgeShapes
  <2>3. QED
    BY <1>2, <2>1, <2>2 DEF RevisionsGrow
<1>3. QED
  BY <1>1, <1>2 DEF CommandFits

LEMMA SoundStays ==
    ASSUME KnowledgeShapes, KnowledgeShapes', PromotionsStand, RevisionsGrow,
           NEW e \in EntryIds, NEW rows \in SUBSET EntryRows, EntryIsSound(e, rows)
    PROVE  EntryIsSound(e, rows)'
PROOF
<1>1. Vetted(e) => Vetted(e)'
  BY DEF Vetted, PromotionsStand
<1>2. Len(revs[e]) \in Nat /\ Len(revs'[e]) \in Nat /\ Len(revs[e]) <= Len(revs'[e])
  BY DEF KnowledgeShapes, RevisionsGrow
<1>3. \A r \in rows : r.cur \in Nat
  BY DEF EntryRows
<1>4. QED
  BY <1>1, <1>2, <1>3 DEF EntryIsSound, EntryIsWhole

\* An upsert keeps the one row and the revision it points to.
LEMMA UpsertIsWhole ==
    ASSUME KnowledgeShapes, NEW c \in Candidates,
           EntryIsWhole(c, entries[c]), NEW m \in Markdown
    PROVE  /\ UpsertEntry(c, m) \in SUBSET EntryRows
           /\ EntryIsWhole(c, UpsertEntry(c, m))
           /\ \A r \in UpsertEntry(c, m), s \in entries[c] : r.cur = s.cur
PROOF
<1>1. c \in EntryIds /\ entries[c] \in SUBSET EntryRows /\ Len(revs[c]) \in Nat
  BY DEF KnowledgeShapes, EntryIds
<1>2. CASE entries[c] = {}
  <2>1. UpsertEntry(c, m) = {NewEntry(m, "codebase", "legacy-file")}
    BY <1>2 DEF UpsertEntry
  <2>2. NewEntry(m, "codebase", "legacy-file") \in
           [cat: {"codebase"}, mode: {"legacy-file"}, md: Markdown, cur: {0}]
    BY DEF NewEntry
  <2>3. QED
    BY <1>1, <1>2, <2>1, <2>2 DEF EntryRows, EntryIsWhole
<1>3. ASSUME NEW r, entries[c] = {r}
      PROVE  /\ UpsertEntry(c, m) \in SUBSET EntryRows
             /\ EntryIsWhole(c, UpsertEntry(c, m))
             /\ \A q \in UpsertEntry(c, m) : q.cur = r.cur
  <2>1. UpsertEntry(c, m) = {[r EXCEPT !.md = m, !.mode = "legacy-file"]}
    BY <1>3 DEF UpsertEntry
  <2>2. r \in EntryRows /\ r.cur <= Len(revs[c]) /\ (r.cat = "operational" => c \in OpsKeys)
    BY <1>1, <1>3 DEF EntryIsWhole
  <2>3. [r EXCEPT !.md = m, !.mode = "legacy-file"] \in
           [cat: {r.cat}, mode: {"legacy-file"}, md: Markdown, cur: {r.cur}]
    BY <2>2 DEF EntryRows
  <2>4. r.cat \in {"codebase", "operational"} /\ r.cur \in Nat
    BY <2>2 DEF EntryRows
  <2>5. QED
    BY <2>1, <2>2, <2>3, <2>4 DEF EntryRows, EntryIsWhole
<1>4. QED
  <2>1. CASE entries[c] # {}
    <3>1. PICK r : entries[c] = {r}
      BY <2>1 DEF EntryIsWhole
    <3>2. QED
      BY <1>3, <3>1
  <2>2. QED
    BY <1>2, <2>1
LEMMA RevisionsWithGrows ==
    ASSUME KnowledgeShapes, NEW e \in EntryIds, NEW m \in Markdown
    PROVE  /\ RevisionsWith(e, m) \in Seq(Markdown)
           /\ Len(RevisionsWith(e, m)) \in Nat \ {0}
           /\ Len(revs[e]) <= Len(RevisionsWith(e, m))
           /\ \A n \in 1..Len(revs[e]) : RevisionsWith(e, m)[n] = revs[e][n]
           /\ RevisionsWith(e, m)[Len(RevisionsWith(e, m))] = m
PROOF
<1>1. revs[e] \in Seq(Markdown) /\ Len(revs[e]) \in Nat
  BY DEF KnowledgeShapes
<1>2. CASE revs[e] # <<>> /\ revs[e][Len(revs[e])] = m
  BY <1>1, <1>2 DEF RevisionsWith
<1>3. CASE ~(revs[e] # <<>> /\ revs[e][Len(revs[e])] = m)
  BY <1>1, <1>3 DEF RevisionsWith
<1>4. QED
  BY <1>2, <1>3

\* What recording a revision does to the store: the revisions of e grow, its
\* one row keeps its category, and no other entry changes.
LEMMA RecordedRevision ==
    ASSUME KnowledgeShapes, NEW e \in EntryIds, NEW m \in Markdown, NEW mode,
           NEW rows \in SUBSET EntryRows, EntryIsSound(e, rows),
           rows = {} => Vetted(e),
           UNCHANGED <<decision, docs, opsDocs>>, RecordRevision(rows, e, m, mode)
    PROVE  /\ entries' \in [EntryIds -> SUBSET EntryRows]
           /\ revs' \in [EntryIds -> Seq(Markdown)]
           /\ RevisionsGrow
           /\ \A f \in EntryIds \ {e} : entries'[f] = entries[f] /\ revs'[f] = revs[f]
           /\ revs'[e] = RevisionsWith(e, m)
           /\ EntryIsSound(e, entries[e])'
           /\ mode = "set-current" => \A q \in entries'[e] : q.cur = Len(RevisionsWith(e, m))
           /\ mode # "set-current" =>
                 \A r \in rows, q \in entries'[e] : r.cur # 0 => q.cur = r.cur
PROOF
<1> DEFINE ensured == IF rows = {} THEN {NewEntry(m, "codebase", "legacy-file")} ELSE rows
           next(r) == IF ShouldSetCurrent(mode, r)
                        THEN [r EXCEPT !.cur = Len(RevisionsWith(e, m))] ELSE r
           after == {next(r) : r \in ensured}
<1>1. revs' = [revs EXCEPT ![e] = RevisionsWith(e, m)] /\ entries' = [entries EXCEPT ![e] = after]
  BY DEF RecordRevision
<1>2. PICK len \in Nat \ {0} : len = Len(RevisionsWith(e, m))
  BY RevisionsWithGrows
<1>3. revs' \in [EntryIds -> Seq(Markdown)] /\ revs'[e] = RevisionsWith(e, m)
  BY <1>1, RevisionsWithGrows DEF KnowledgeShapes
<1>4. RevisionsGrow
  <2>1. \A f \in EntryIds : Len(revs[f]) \in Nat
    BY DEF KnowledgeShapes
  <2>2. \A f \in EntryIds \ {e} : revs'[f] = revs[f]
    BY <1>1 DEF KnowledgeShapes
  <2>3. ASSUME NEW f \in EntryIds
        PROVE  /\ Len(revs[f]) <= Len(revs'[f])
               /\ \A n \in 1..Len(revs[f]) : revs'[f][n] = revs[f][n]
    <3>1. CASE f = e
      BY <1>3, <3>1, RevisionsWithGrows
    <3>2. CASE f # e
      BY <2>1, <2>2, <3>2
    <3>3. QED
      BY <3>1, <3>2
  <2>4. QED
    BY <2>3 DEF RevisionsGrow
<1>5. PICK r : /\ ensured = {r} /\ r \in EntryRows
               /\ r.cat = "codebase" => Vetted(e)
               /\ r.cat = "operational" => e \in OpsKeys
               /\ r.cur <= Len(revs[e])
               /\ rows \subseteq {r}
  <2>1. CASE rows = {}
    <3>1. NewEntry(m, "codebase", "legacy-file") \in
             [cat: {"codebase"}, mode: {"legacy-file"}, md: Markdown, cur: {0}]
      BY DEF NewEntry
    <3>2. Len(revs[e]) \in Nat
      BY DEF KnowledgeShapes
    <3>3. QED
      BY <2>1, <3>1, <3>2 DEF EntryRows
  <2>2. CASE rows # {}
    BY <2>2 DEF EntryIsSound, EntryIsWhole
  <2>3. QED
    BY <2>1, <2>2
<1> HIDE DEF ensured, next
<1>6. PICK q : after = {q} /\ q = next(r)
  BY <1>5
<1> USE DEF next
<1>7. /\ q \in EntryRows /\ q.cat = r.cat /\ q.cur <= len
      /\ mode = "set-current" => q.cur = len
      /\ mode # "set-current" /\ r.cur # 0 => q.cur = r.cur
  <2>1. CASE ShouldSetCurrent(mode, r)
    <3>1. q = [r EXCEPT !.cur = len]
      BY <1>2, <1>6, <2>1
    <3>2. r \in EntryRows
      BY <1>5
    <3>3. q \in [cat: {r.cat}, mode: {r.mode}, md: {r.md}, cur: {len}]
      BY ONLY <3>1, <3>2 DEF EntryRows
    <3>4. QED
      BY <1>5, <2>1, <3>3, len \in Nat DEF EntryRows, ShouldSetCurrent
  <2>2. CASE ~ShouldSetCurrent(mode, r)
    <3>1. Len(revs[e]) \in Nat /\ r.cur \in Nat
      BY <1>5 DEF KnowledgeShapes, EntryRows
    <3>2. QED
      BY <1>2, <1>5, <1>6, <2>2, <3>1, RevisionsWithGrows DEF ShouldSetCurrent
  <2>3. QED
    BY <2>1, <2>2
<1> HIDE DEF next, after
<1>8. entries' \in [EntryIds -> SUBSET EntryRows] /\ entries'[e] = {q}
  BY <1>1, <1>6, <1>7 DEF KnowledgeShapes
<1>9. Vetted(e)' <=> Vetted(e)
  BY DEF Vetted
<1>10. EntryIsSound(e, entries[e])'
  BY <1>2, <1>3, <1>5, <1>7, <1>8, <1>9 DEF EntryIsSound, EntryIsWhole
<1>11. \A f \in EntryIds \ {e} : entries'[f] = entries[f] /\ revs'[f] = revs[f]
  BY <1>1 DEF KnowledgeShapes
<1>12. QED
  BY <1>2, <1>3, <1>4, <1>5, <1>7, <1>8, <1>10, <1>11
\* What a step leaves of the store, whoever takes it.
DataIsSound ==
    /\ KnowledgeShapes' /\ PromotionsStand /\ RevisionsGrow
    /\ DocsAreVetted' /\ EntriesAreSound'

LEMMA NoRevision ==
    ASSUME KnowledgeShapes, UNCHANGED revs
    PROVE  RevisionsGrow
PROOF
<1>1. \A e \in EntryIds : Len(revs[e]) \in Nat
  BY DEF KnowledgeShapes
<1>2. QED
  BY <1>1 DEF RevisionsGrow

LEMMA DocsStep ==
    ASSUME KnowledgeShapes, DocsAreVetted, PromotionsStand,
           docs' \in [Candidates -> SUBSET Markdown],
           \A c \in Candidates : docs'[c] = docs[c] \/ docs'[c] = {} \/ Vetted(c)
    PROVE  DocsAreVetted'
BY DEF DocsAreVetted, PromotionsStand, Vetted

\* Entries that no step touches stay sound.
LEMMA EntriesStep ==
    ASSUME KnowledgeShapes, KnowledgeShapes', EntriesAreSound, PromotionsStand, RevisionsGrow,
           \A e \in EntryIds : entries'[e] \subseteq entries[e] \/ EntryIsSound(e, entries[e])'
    PROVE  EntriesAreSound'
PROOF
<1>1. ASSUME NEW e \in EntryIds, entries'[e] \subseteq entries[e]
      PROVE  EntryIsSound(e, entries[e])'
  <2>1. PICK rows \in SUBSET EntryRows : rows = entries'[e]
    BY DEF KnowledgeShapes
  <2>2. EntryIsSound(e, rows)
    BY <1>1, <2>1 DEF EntriesAreSound, EntryIsSound, EntryIsWhole
  <2>3. EntryIsSound(e, rows)'
    BY <2>2, SoundStays
  <2>4. QED
    BY <2>1, <2>3
<1>2. QED
  BY <1>1 DEF EntriesAreSound

LEMMA QuietStep ==
    ASSUME KnowledgeShapes, DocsAreVetted, EntriesAreSound,
           UNCHANGED <<docs, opsDocs, entries, revs>>,
           decision' \in [Candidates -> Decisions], PromotionsStand
    PROVE  DataIsSound
PROOF
<1>1. KnowledgeShapes'
  BY DEF KnowledgeShapes
<1>2. DocsAreVetted'
  BY DocsStep DEF KnowledgeShapes
<1>3. QED
  BY <1>1, <1>2, NoRevision, EntriesStep DEF DataIsSound

\* A file written or removed where its candidate is vetted.
LEMMA FileStep ==
    ASSUME KnowledgeShapes, DocsAreVetted, EntriesAreSound,
           UNCHANGED <<decision, entries, revs>>,
           docs' \in [Candidates -> SUBSET Markdown],
           opsDocs' \in [OpsKeys -> SUBSET Markdown],
           \A c \in Candidates : docs'[c] = docs[c] \/ docs'[c] = {} \/ Vetted(c)
    PROVE  DataIsSound
PROOF
<1>1. KnowledgeShapes' /\ PromotionsStand
  BY DEF KnowledgeShapes, PromotionsStand
<1>2. DocsAreVetted'
  BY <1>1, DocsStep
<1>3. QED
  BY <1>1, <1>2, NoRevision, EntriesStep DEF DataIsSound

\* The rows of one entry are replaced by sound ones.
LEMMA RowsStepKnowledge ==
    ASSUME KnowledgeShapes, DocsAreVetted, EntriesAreSound,
           UNCHANGED <<docs, opsDocs, revs>>,
           decision' \in [Candidates -> Decisions], PromotionsStand,
           NEW e \in EntryIds, NEW rows \in SUBSET EntryRows,
           entries' = [entries EXCEPT ![e] = rows],
           EntryIsWhole(e, rows), \A r \in rows : r.cat = "codebase" => Vetted(e)'
    PROVE  DataIsSound
PROOF
<1>1. KnowledgeShapes'
  BY DEF KnowledgeShapes
<1>2. DocsAreVetted'
  BY DocsStep DEF KnowledgeShapes
<1>3. entries'[e] = rows /\ \A f \in EntryIds \ {e} : entries'[f] = entries[f]
  BY DEF KnowledgeShapes
<1>4. EntryIsSound(e, entries[e])'
  BY <1>3 DEF EntryIsSound, EntryIsWhole
<1>5. QED
  BY <1>1, <1>2, <1>3, <1>4, NoRevision, EntriesStep DEF DataIsSound

\* A revision recorded on sound rows.
LEMMA RevisionStep ==
    ASSUME KnowledgeShapes, DocsAreVetted, EntriesAreSound,
           NEW e \in EntryIds, NEW m \in Markdown, NEW mode,
           NEW rows \in SUBSET EntryRows, EntryIsSound(e, rows),
           rows = {} => Vetted(e),
           UNCHANGED <<decision, docs, opsDocs>>, RecordRevision(rows, e, m, mode)
    PROVE  DataIsSound
PROOF
<1>1. /\ entries' \in [EntryIds -> SUBSET EntryRows] /\ revs' \in [EntryIds -> Seq(Markdown)]
      /\ RevisionsGrow /\ EntryIsSound(e, entries[e])'
      /\ \A f \in EntryIds \ {e} : entries'[f] = entries[f]
  BY RecordedRevision
<1>2. KnowledgeShapes' /\ PromotionsStand
  BY <1>1 DEF KnowledgeShapes, PromotionsStand
<1>3. DocsAreVetted'
  BY <1>2, DocsStep DEF KnowledgeShapes
<1>4. QED
  BY <1>1, <1>2, <1>3, EntriesStep DEF DataIsSound

LEMMA TakenDecision ==
    ASSUME KnowledgeShapes, NEW c \in Candidates, NEW d \in SetCandidateDecision(decision[c], "promoted")
                              \cup SetCandidateDecision(decision[c], "rejected"),
           decision' = [decision EXCEPT ![c] = d]
    PROVE  /\ decision' \in [Candidates -> Decisions] /\ PromotionsStand
           /\ decision'[c] = d
PROOF
<1>1. d \in Decisions /\ (decision[c] = "promoted" => d = "promoted")
  BY DEF SetCandidateDecision, Decisions
<1>2. QED
  BY <1>1 DEF KnowledgeShapes, PromotionsStand

LEMMA OperationalStep ==
    ASSUME KnowledgeAssumption, KnowledgeShapes, DocsAreVetted, EntriesAreSound,
           NEW k \in OpsKeys, NEW m \in Markdown, OpsWrite(k, m)
    PROVE  DataIsSound
PROOF
<1> DEFINE rows == UpsertOperational(k, m)
<1>1. k \in EntryIds /\ entries[k] \in SUBSET EntryRows /\ EntryIsWhole(k, entries[k])
      /\ Len(revs[k]) \in Nat
  BY DEF KnowledgeShapes, EntriesAreSound, EntryIsSound, EntryIds
<1>2. ASSUME NEW r, rows = {r}, r \in EntryRows, r.cat = "operational", r.cur <= Len(revs[k])
      PROVE  DataIsSound
  <2>1. rows \in SUBSET EntryRows /\ EntryIsSound(k, rows) /\ rows # {}
    BY <1>2 DEF EntryIsSound, EntryIsWhole
  <2>2. RecordRevision(rows, k, m, "set-current") /\ UNCHANGED <<decision, docs, opsDocs>>
    BY DEF OpsWrite
  <2> HIDE DEF rows
  <2>3. QED
    BY <1>1, <2>1, <2>2, RevisionStep
<1>3. CASE entries[k] = {}
  <2>1. rows = {NewEntry(m, "operational", "db-first")}
    BY <1>3 DEF UpsertOperational
  <2>2. NewEntry(m, "operational", "db-first") \in
           [cat: {"operational"}, mode: {"db-first"}, md: Markdown, cur: {0}]
    BY DEF NewEntry
  <2>3. QED
    BY <1>1, <1>2, <2>1, <2>2 DEF EntryRows
<1>4. CASE entries[k] # {}
  <2>1. PICK r \in EntryRows : entries[k] = {r} /\ r.cur <= Len(revs[k])
    BY <1>1, <1>4 DEF EntryIsWhole
  <2>2. rows = {[r EXCEPT !.md = m, !.cat = "operational", !.mode = "db-first"]}
    BY <1>4, <2>1 DEF UpsertOperational
  <2>3. [r EXCEPT !.md = m, !.cat = "operational", !.mode = "db-first"] \in
           [cat: {"operational"}, mode: {"db-first"}, md: Markdown, cur: {r.cur}]
    BY <2>1 DEF EntryRows
  <2>4. r.cur \in Nat
    BY <2>1 DEF EntryRows
  <2>5. QED
    BY <1>2, <2>1, <2>2, <2>3, <2>4 DEF EntryRows
<1>5. QED
  BY <1>3, <1>4

\* The markdown of a row's current revision.
LEMMA CurrentRevision ==
    ASSUME KnowledgeShapes, EntriesAreSound, NEW e \in EntryIds, NEW r \in entries[e]
    PROVE  CurrentMarkdown(e, r) \in Markdown /\ (r.cur # 0 => revs[e][r.cur] \in Markdown)
PROOF
<1>1. r \in EntryRows /\ r.cur <= Len(revs[e]) /\ revs[e] \in Seq(Markdown)
  BY DEF KnowledgeShapes, EntriesAreSound, EntryIsSound, EntryIsWhole
<1>2. r.cur \in Nat /\ r.md \in Markdown
  BY <1>1 DEF EntryRows
<1>3. QED
  BY <1>1, <1>2 DEF CurrentMarkdown

LEMMA DeprecatedMarkdown ==
    ASSUME NEW m \in Markdown
    PROVE  Deprecated(m) \in Markdown /\ Deprecated(m).dep
BY DEF Deprecated, Markdown

LEMMA OperationalIsNoCandidate ==
    ASSUME KnowledgeAssumption, EntriesAreSound, NEW e \in CurrentOf("operational")
    PROVE  e \in OpsKeys /\ e \in EntryIds
BY DEF CurrentOf, EntriesAreSound, EntryIsSound, EntryIsWhole

LEMMA CodebaseIsVetted ==
    ASSUME EntriesAreSound, NEW e \in CurrentOf("codebase")
    PROVE  Vetted(e) /\ e \in EntryIds
BY DEF CurrentOf, EntriesAreSound, EntryIsSound

LEMMA SharedDataStep ==
    ASSUME KnowledgeAssumption, KnowledgeInv,
           \/ ExportToDocs \/ RecordOperational \/ DeprecateOperational
           \/ ImportOperational \/ ExportOperational
    PROVE  DataIsSound
PROOF
<1>a. KnowledgeShapes /\ DocsAreVetted /\ EntriesAreSound
  BY DEF KnowledgeInv
<1>1. CASE ExportToDocs
  <2>1. ASSUME NEW c \in Candidates
        PROVE  docs'[c] \in SUBSET Markdown /\ (docs'[c] = docs[c] \/ Vetted(c))
    <3>1. CASE c \in CurrentOf("codebase")
      <4>1. docs'[c] = {revs[c][r.cur] : r \in entries[c]}
        BY <1>1, <3>1 DEF ExportToDocs
      <4>2. \A r \in entries[c] : r.cur # 0
        BY <1>a, <3>1 DEF CurrentOf, EntriesAreSound, EntryIsSound, EntryIsWhole
      <4>3. QED
        BY <1>a, <3>1, <4>1, <4>2, CurrentRevision, CodebaseIsVetted
    <3>2. CASE c \notin CurrentOf("codebase")
      BY <1>a, <1>1, <3>2 DEF ExportToDocs, KnowledgeShapes
    <3>3. QED
      BY <3>1, <3>2
  <2>2. docs' = [c \in Candidates |-> docs'[c]]
    BY <1>1 DEF ExportToDocs
  <2>3. docs' \in [Candidates -> SUBSET Markdown]
    BY <2>1, <2>2
  <2>4. UNCHANGED <<decision, entries, revs>> /\ opsDocs' \in [OpsKeys -> SUBSET Markdown]
    BY <1>a, <1>1 DEF ExportToDocs, KnowledgeShapes
  <2>5. QED
    BY <1>a, <2>1, <2>3, <2>4, FileStep
<1>2. CASE RecordOperational
  <2>1. PICK k \in OpsKeys, t \in {"base", "edited"} : OpsWrite(k, [text |-> t, dep |-> FALSE])
    BY <1>2 DEF RecordOperational
  <2>2. [text |-> t, dep |-> FALSE] \in Markdown
    BY DEF Markdown
  <2>3. QED
    BY <1>a, <2>1, <2>2, OperationalStep
<1>3. CASE DeprecateOperational
  <2>0. PICK k \in CurrentOf("operational") : \E r \in entries[k] :
           OpsWrite(k, Deprecated(revs[k][r.cur]))
    BY <1>3 DEF DeprecateOperational
  <2>1. PICK r \in entries[k] : OpsWrite(k, Deprecated(revs[k][r.cur]))
    BY <2>0
  <2>2. r.cur # 0 /\ k \in OpsKeys /\ k \in EntryIds
    BY <1>a, OperationalIsNoCandidate
       DEF CurrentOf, EntriesAreSound, EntryIsSound, EntryIsWhole
  <2>3. Deprecated(revs[k][r.cur]) \in Markdown
    BY <1>a, <2>2, CurrentRevision, DeprecatedMarkdown
  <2>4. QED
    BY <1>a, <2>1, <2>2, <2>3, OperationalStep
<1>4. CASE ImportOperational
  <2>0. PICK k \in OpsKeys : \E m \in opsDocs[k] : OpsWrite(k, m)
    BY <1>4 DEF ImportOperational, ImportOperationalEntry
  <2>1. PICK m \in opsDocs[k] : OpsWrite(k, m)
    BY <2>0
  <2>2. m \in Markdown
    BY <1>a DEF KnowledgeShapes
  <2>3. QED
    BY <1>a, <2>1, <2>2, OperationalStep
<1>5. CASE ExportOperational
  <2>1. ASSUME NEW k \in OpsKeys
        PROVE  opsDocs'[k] \in SUBSET Markdown
    <3>1. CASE k \in CurrentOf("operational")
      <4>1. opsDocs'[k] = {revs[k][r.cur] : r \in entries[k]}
        BY <1>5, <3>1 DEF ExportOperational
      <4>2. k \in EntryIds /\ \A r \in entries[k] : r.cur # 0
        BY <1>a, <3>1 DEF CurrentOf, EntriesAreSound, EntryIsSound, EntryIsWhole
      <4>3. QED
        BY <1>a, <4>1, <4>2, CurrentRevision
    <3>2. CASE k \notin CurrentOf("operational")
      BY <1>5, <3>2 DEF ExportOperational
    <3>3. QED
      BY <3>1, <3>2
  <2>2. opsDocs' = [k \in OpsKeys |-> opsDocs'[k]]
    BY <1>5 DEF ExportOperational
  <2>3. opsDocs' \in [OpsKeys -> SUBSET Markdown]
    BY <2>1, <2>2
  <2>4. /\ UNCHANGED <<decision, entries, revs>> /\ docs' = docs
        /\ docs' \in [Candidates -> SUBSET Markdown]
    BY <1>a, <1>5 DEF ExportOperational, KnowledgeShapes
  <2>5. QED
    BY <1>a, <2>3, <2>4, FileStep
<1>6. QED
  BY <1>1, <1>2, <1>3, <1>4, <1>5

\* What a deprecation or an edit may write.
LEMMA RevisedMarkdown ==
    ASSUME NEW c, c.snap \subseteq EntryRows, NEW m \in Revised(c)
    PROVE  m \in Markdown /\ (c.op # "edit" => m.dep)
PROOF
<1>1. CASE c.op = "edit"
  BY <1>1 DEF Revised
<1>2. CASE c.op # "edit"
  <2>1. PICK r \in c.snap : m = Deprecated(r.md)
    BY <1>2 DEF Revised
  <2>2. r.md \in Markdown
    BY DEF EntryRows
  <2>3. QED
    BY <2>1, <2>2, DeprecatedMarkdown
<1>3. QED
  BY <1>1, <1>2

LEMMA RowUpdateDataStep ==
    ASSUME KnowledgeInv, NEW u \in KnowledgeUsers, RowUpdate(u)
    PROVE  DataIsSound
PROOF
<1>a. KnowledgeShapes /\ DocsAreVetted /\ EntriesAreSound
  BY DEF KnowledgeInv
<1> DEFINE c == kcmds[u]
<1>2. /\ IsKnowledgeCommand(c) /\ c.pc = "row" /\ c.at \in EntryIds /\ Vetted(c.at)
      /\ c.snap # {} /\ c.snap \subseteq EntryRows
      /\ c.op = "deprecate" => c.rid \in 1..Len(revs[c.at])
  BY DEF RowUpdate, KnowledgeInv, KCommandsFit, CommandFits, EntryIds
<1> DEFINE md == CHOOSE m \in Markdown : \E s \in c.snap : m = s.md
           update(r) == [r EXCEPT !.md = md, !.mode = "db-first",
                                  !.cur = IF c.op = "deprecate" THEN c.rid ELSE @]
           next(r) == IF \E s \in c.snap : c.op = "deprecate" /\ c.flag /\ s.cur = c.rid
                                           /\ s.mode = "db-first"
                        THEN r ELSE update(r)
           rows == {next(r) : r \in entries[c.at]}
<1>3. md \in Markdown
  BY <1>2 DEF EntryRows
<1>4. entries' = [entries EXCEPT ![c.at] = rows] /\ UNCHANGED <<decision, docs, opsDocs, revs>>
  BY DEF RowUpdate
<1> HIDE DEF c
<1>5. Len(revs[c.at]) \in Nat /\ entries[c.at] \in SUBSET EntryRows /\ c.rid \in Nat
  BY <1>a, <1>2 DEF KnowledgeShapes, IsKnowledgeCommand
<1>6. ASSUME NEW r \in entries[c.at]
      PROVE  update(r) \in EntryRows /\ update(r).cat = r.cat /\ update(r).cur <= Len(revs[c.at])
  <2>1. PICK cur \in Nat : cur = IF c.op = "deprecate" THEN c.rid ELSE r.cur
    BY <1>5 DEF EntryRows
  <2>2. cur <= Len(revs[c.at])
    BY <1>2, <1>5, <1>6, <2>1, <1>a DEF EntriesAreSound, EntryIsSound, EntryIsWhole
  <2>3. PICK m \in Markdown : m = md
    BY <1>3
  <2>4. update(r) = [r EXCEPT !.md = m, !.mode = "db-first", !.cur = cur]
    BY <2>1, <2>3
  <2>5. r \in EntryRows
    BY <1>5, <1>6
  <2> HIDE DEF update
  <2>6. update(r) \in [cat: {r.cat}, mode: {"db-first"}, md: Markdown, cur: {cur}]
    BY ONLY <2>4, <2>5, m \in Markdown DEF EntryRows
  <2>7. QED
    BY <2>2, <2>5, <2>6 DEF EntryRows
<1> HIDE DEF md, update
<1>7. ASSUME NEW r \in entries[c.at]
      PROVE  next(r) \in EntryRows /\ next(r).cat = r.cat /\ next(r).cur <= Len(revs[c.at])
  BY <1>2, <1>5, <1>6, <1>7, <1>a DEF EntriesAreSound, EntryIsSound, EntryIsWhole
<1> HIDE DEF next
<1>8. rows \in SUBSET EntryRows /\ EntryIsWhole(c.at, rows)
  BY <1>2, <1>7, <1>a DEF EntriesAreSound, EntryIsSound, EntryIsWhole
<1> HIDE DEF rows
<1>9. PICK e \in EntryIds, after \in SUBSET EntryRows : e = c.at /\ after = rows
  BY <1>2, <1>8
<1>10. Vetted(e)' /\ decision' \in [Candidates -> Decisions] /\ PromotionsStand
  BY <1>a, <1>2, <1>4, <1>9 DEF Vetted, KnowledgeShapes, PromotionsStand
<1>11. entries' = [entries EXCEPT ![e] = after] /\ EntryIsWhole(e, after)
  BY <1>4, <1>8, <1>9
<1>12. QED
  BY <1>a, <1>4, <1>10, <1>11, RowsStepKnowledge

LEMMA CommandDataStep ==
    ASSUME KnowledgeAssumption, KnowledgeInv, NEW u \in KnowledgeUsers, KnowledgeCommand(u)
    PROVE  DataIsSound
PROOF
<1>a. KnowledgeShapes /\ DocsAreVetted /\ EntriesAreSound
  BY DEF KnowledgeInv
<1>b. PICK c : c = kcmds[u] /\ IsKnowledgeCommand(c) /\ CommandFits(c) /\ c.at \in EntryIds
  BY DEF KnowledgeInv, KCommandsFit, IsKnowledgeCommand
<1>1. CASE UNCHANGED <<decision, docs, opsDocs, entries, revs>>
  <2>1. decision' \in [Candidates -> Decisions] /\ PromotionsStand
    BY <1>a, <1>1 DEF KnowledgeShapes, PromotionsStand
  <2>2. QED
    BY <1>a, <1>1, <2>1, QuietStep
<1>2. CASE SyncRun(u)
  <2>1. decision' \in [Candidates -> Decisions] /\ PromotionsStand
    BY <1>a, <1>2 DEF SyncRun, Synced, KnowledgeShapes, PromotionsStand, Decisions
  <2>2. QED
    BY <1>a, <1>2, <2>1, QuietStep DEF SyncRun
<1>3. CASE ImportCandidates(u)
  <2>1. decision' \in [Candidates -> Decisions] /\ PromotionsStand
    BY <1>a, <1>3 DEF ImportCandidates, KnowledgeShapes, PromotionsStand, Decisions
  <2>2. QED
    BY <1>a, <1>3, <2>1, QuietStep DEF ImportCandidates
<1>4. CASE ReconcileDecide(u) \/ RejectDecide(u)
  <2>1. c.pc = "decide" /\ c.at \in Candidates
    BY <1>b, <1>4 DEF ReconcileDecide, RejectDecide, CommandFits
  <2>2. CASE UNCHANGED decision
    BY <1>1, <1>4, <2>2 DEF ReconcileDecide, RejectDecide
  <2>3. CASE ~UNCHANGED decision
    <3>1. PICK d \in SetCandidateDecision(decision[c.at], "promoted")
                       \cup SetCandidateDecision(decision[c.at], "rejected") :
             decision' = [decision EXCEPT ![c.at] = d]
      BY <1>b, <1>4, <2>3 DEF ReconcileDecide, RejectDecide
    <3>2. QED
      BY <1>a, <1>4, <2>1, <3>1, TakenDecision, QuietStep DEF ReconcileDecide, RejectDecide
  <2>4. QED
    BY <2>2, <2>3
<1>5. CASE PromoteCommit(u)
  <2>1. c.pc = "decide" /\ c.at \in Candidates
    BY <1>b, <1>5 DEF PromoteCommit, CommandFits
  <2>2. CASE UNCHANGED <<decision, entries>>
    BY <1>1, <1>5, <2>2 DEF PromoteCommit
  <2>3. CASE ~UNCHANGED <<decision, entries>>
    <3>1. PICK d \in SetCandidateDecision(decision[c.at], "promoted") :
             /\ decision' = [decision EXCEPT ![c.at] = d]
             /\ entries' = [entries EXCEPT ![c.at] = UpsertEntry(c.at, Promoted)]
      BY <1>b, <1>5, <2>3 DEF PromoteCommit
    <3>2. d = "promoted"
      BY DEF SetCandidateDecision
    <3>3. /\ decision' \in [Candidates -> Decisions] /\ PromotionsStand
          /\ Vetted(c.at)'
      BY <1>a, <2>1, <3>1, <3>2, TakenDecision DEF Vetted
    <3>4. Promoted \in Markdown /\ EntryIsWhole(c.at, entries[c.at])
      BY <1>a, <1>b DEF Promoted, Markdown, EntriesAreSound, EntryIsSound
    <3>5. PICK rows \in SUBSET EntryRows :
             rows = UpsertEntry(c.at, Promoted) /\ EntryIsWhole(c.at, rows)
      BY <1>a, <2>1, <3>4, UpsertIsWhole
    <3>6. UNCHANGED <<docs, opsDocs, revs>>
      BY <1>5 DEF PromoteCommit
    <3>7. QED
      BY <1>a, <1>b, <3>1, <3>3, <3>5, <3>6, RowsStepKnowledge
  <2>4. QED
    BY <2>2, <2>3
<1>6. CASE ReconcileEntry(u) \/ ImportUpsert(u)
  <2>1. Vetted(c.at) /\ c.at \in Candidates /\ c.snap \subseteq Markdown
    BY <1>b, <1>6 DEF ReconcileEntry, ImportUpsert, CommandFits
  <2>2. PICK m \in c.snap : entries' = [entries EXCEPT ![c.at] = UpsertEntry(c.at, m)]
    BY <1>b, <1>6 DEF ReconcileEntry, ImportUpsert
  <2>3. EntryIsWhole(c.at, entries[c.at])
    BY <1>a, <1>b DEF EntriesAreSound, EntryIsSound
  <2>4. PICK rows \in SUBSET EntryRows : rows = UpsertEntry(c.at, m) /\ EntryIsWhole(c.at, rows)
    BY <1>a, <2>1, <2>2, <2>3, UpsertIsWhole
  <2>5. UNCHANGED <<decision, docs, opsDocs, revs>>
    BY <1>6 DEF ReconcileEntry, ImportUpsert
  <2>6. Vetted(c.at)' /\ decision' \in [Candidates -> Decisions] /\ PromotionsStand
    BY <1>a, <2>1, <2>5 DEF Vetted, KnowledgeShapes, PromotionsStand
  <2>7. QED
    BY <1>a, <1>b, <2>2, <2>4, <2>5, <2>6, RowsStepKnowledge
<1>7. CASE PromoteWrite(u) \/ DeprecateWrite(u)
  <2>1. Vetted(c.at) /\ c.at \in Candidates
    BY <1>b, <1>7 DEF PromoteWrite, DeprecateWrite, CommandFits
  <2>2. PICK mds \in SUBSET Markdown : docs' = [docs EXCEPT ![c.at] = mds] \/ UNCHANGED docs
    <3>1. CASE PromoteWrite(u)
      <4>1. {Promoted} \in SUBSET Markdown
        BY DEF Promoted, Markdown
      <4>2. docs' = [docs EXCEPT ![c.at] = {Promoted}] \/ UNCHANGED docs
        BY <1>b, <3>1 DEF PromoteWrite
      <4>3. QED
        BY <4>1, <4>2
    <3>2. CASE DeprecateWrite(u)
      <4>1. c.snap \subseteq EntryRows
        BY <1>b, <3>2 DEF DeprecateWrite, CommandFits
      <4>2. {s.md : s \in c.snap} \in SUBSET Markdown
        BY <4>1 DEF EntryRows
      <4>3. QED
        BY <1>b, <3>2, <4>2 DEF DeprecateWrite
    <3>3. QED
      BY <1>7, <3>1, <3>2
  <2>3. /\ docs' \in [Candidates -> SUBSET Markdown]
        /\ \A f \in Candidates : docs'[f] = docs[f] \/ Vetted(f)
    BY <1>a, <2>1, <2>2 DEF KnowledgeShapes
  <2>4. UNCHANGED <<decision, entries, revs>> /\ opsDocs' \in [OpsKeys -> SUBSET Markdown]
    BY <1>a, <1>7 DEF PromoteWrite, DeprecateWrite, KnowledgeShapes
  <2>5. QED
    BY <1>a, <2>3, <2>4, FileStep
<1>8. CASE Revise(u)
  <2>1. Vetted(c.at) /\ c.snap \subseteq EntryRows
    BY <1>b, <1>8 DEF Revise, CommandFits
  <2>2. PICK m \in Revised(c) : RecordRevision(entries[c.at], c.at, m, "set-current")
    BY <1>b, <1>8 DEF Revise
  <2>3. m \in Markdown
    BY <2>1, RevisedMarkdown
  <2>4. UNCHANGED <<decision, docs, opsDocs>> /\ EntryIsSound(c.at, entries[c.at])
        /\ entries[c.at] \in SUBSET EntryRows
    BY <1>a, <1>b, <1>8 DEF Revise, EntriesAreSound, KnowledgeShapes
  <2>5. QED
    BY <1>a, <1>b, <2>1, <2>2, <2>3, <2>4, RevisionStep
<1>9. CASE ImportRecord(u)
  <2>1. Vetted(c.at) /\ c.snap \subseteq Markdown
    BY <1>b, <1>9 DEF ImportRecord, CommandFits
  <2>2. PICK m \in c.snap : RecordRevision(entries[c.at], c.at, m, c.op)
    BY <1>b, <1>9 DEF ImportRecord
  <2>3. UNCHANGED <<decision, docs, opsDocs>> /\ EntryIsSound(c.at, entries[c.at])
        /\ entries[c.at] \in SUBSET EntryRows
    BY <1>a, <1>b, <1>9 DEF ImportRecord, EntriesAreSound, KnowledgeShapes
  <2>4. QED
    BY <1>a, <1>b, <2>1, <2>2, <2>3, RevisionStep
<1>10. CASE ImportReset(u)
  <2>1. decision' \in [Candidates -> Decisions] /\ PromotionsStand
    BY <1>a, <1>10 DEF ImportReset, KnowledgeShapes, PromotionsStand, Decisions
  <2>2. UNCHANGED <<docs, opsDocs, revs>> /\ \A e \in EntryIds : entries'[e] \subseteq entries[e]
    BY <1>10 DEF ImportReset
  <2>3. entries' \in [EntryIds -> SUBSET EntryRows]
    BY <1>a, <1>10 DEF ImportReset, KnowledgeShapes
  <2>4. KnowledgeShapes'
    BY <1>a, <2>1, <2>2, <2>3 DEF KnowledgeShapes
  <2>5. DocsAreVetted'
    BY <1>a, <2>1, <2>2, DocsStep DEF KnowledgeShapes
  <2>6. QED
    BY <1>a, <2>1, <2>2, <2>4, <2>5, NoRevision, EntriesStep DEF DataIsSound
<1>11. CASE \/ Promote(u) \/ Reject(u) \/ ExportDecisions(u) \/ Deprecate(u)
            \/ Edit(u) \/ Refresh(u) \/ ImportDocs(u)
            \/ PromoteRead(u) \/ PromoteScan(u) \/ PromoteSkip(u) \/ SidecarRead(u)
            \/ SidecarWrite(u) \/ ReadRow(u) \/ ImportRead(u) \/ KnowledgeDie(u)
  <2>1. UNCHANGED <<decision, docs, opsDocs, entries, revs>>
    BY <1>11 DEF Promote, Reject, ExportDecisions, Deprecate, Edit, Refresh, ImportDocs,
       BeginKnowledge, PromoteRead, PromoteScan, PromoteSkip, SidecarRead, SidecarWrite,
       ReadRow, ImportRead, KnowledgeDie, Store
  <2>2. QED
    BY <1>1, <2>1
<1>12. QED
  BY <1>2, <1>3, <1>4, <1>5, <1>6, <1>7, <1>8, <1>9, <1>10, <1>11, RowUpdateDataStep
     DEF KnowledgeCommand

LEMMA IdleFits ==
    ASSUME KnowledgeAssumption
    PROVE  IsKnowledgeCommand(IdleKnowledge) /\ CommandFits(IdleKnowledge)
           /\ CommandFits(IdleKnowledge)'
PROOF
<1>1. 1 \in Candidates
  BY DEF KnowledgeAssumption, Candidates
<1>2. IdleKnowledge \in [pc: {"idle"}, op: {"none"}, at: {1}, flag: {FALSE}, seen: {"none"},
                         scan: {{}}, snap: {{}}, rid: {0}]
  BY DEF IdleKnowledge
<1>3. QED
  BY <1>1, <1>2 DEF IsKnowledgeCommand, CommandFits, KnowledgePcs, EntryIds

\* One command moves on.
LEMMA OneMoves ==
    ASSUME KnowledgeInv, DataIsSound, NEW u \in KnowledgeUsers, NEW c,
           kcmds' = [kcmds EXCEPT ![u] = c], IsKnowledgeCommand(c), CommandFits(c)'
    PROVE  KCommandsFit'
PROOF
<1>1. kcmds' = [w \in KnowledgeUsers |-> kcmds'[w]]
  BY DEF KnowledgeInv, KCommandsFit
<1>2. ASSUME NEW w \in KnowledgeUsers
      PROVE  IsKnowledgeCommand(kcmds'[w]) /\ CommandFits(kcmds[w])'
  <2>1. CASE w = u
    BY <2>1 DEF KnowledgeInv, KCommandsFit, CommandFits, Vetted
  <2>2. CASE w # u
    <3>1. PICK d : d = kcmds[w]
      OBVIOUS
    <3>2. kcmds'[w] = d /\ IsKnowledgeCommand(d) /\ CommandFits(d)
      BY <2>2, <3>1 DEF KnowledgeInv, KCommandsFit
    <3>3. CommandFits(d)'
      BY <3>2, FitsStay DEF KnowledgeInv, DataIsSound
    <3>4. QED
      BY <3>2, <3>3 DEF CommandFits, Vetted
  <2>3. QED
    BY <2>1, <2>2
<1>3. QED
  BY <1>1, <1>2 DEF KCommandsFit, IsKnowledgeCommand

LEMMA NoneMoves ==
    ASSUME KnowledgeInv, DataIsSound, UNCHANGED kcmds
    PROVE  KCommandsFit'
PROOF
<1>1. ASSUME NEW w \in KnowledgeUsers
      PROVE  CommandFits(kcmds[w])'
  <2>1. PICK d : d = kcmds[w] /\ IsKnowledgeCommand(d) /\ CommandFits(d)
    BY DEF KnowledgeInv, KCommandsFit
  <2>2. CommandFits(d)'
    BY <2>1, FitsStay DEF KnowledgeInv, DataIsSound
  <2>3. QED
    BY <2>1, <2>2 DEF CommandFits, Vetted
<1>2. QED
  BY <1>1 DEF KnowledgeInv, KCommandsFit, IsKnowledgeCommand

LEMMA NextCandidate ==
    ASSUME KnowledgeAssumption, KnowledgeInv, DataIsSound, NEW u \in KnowledgeUsers,
           NEW c, IsKnowledgeCommand(c), c.at \in Candidates,
           NEW pc \in {"read", "import"},
           pc = "import" => c.op \in {"if-missing", "set-current"},
           KNextAt(u, c, pc)
    PROVE  KCommandsFit'
PROOF
<1>1. CASE c.at = MaxCandidates
  BY <1>1, IdleFits, OneMoves DEF KNextAt, KEnd
<1>2. CASE c.at # MaxCandidates
  <2>1. PICK n \in Candidates : n = c.at + 1
    BY <1>2 DEF Candidates, KnowledgeAssumption
  <2>2. PICK d : d = [c EXCEPT !.pc = pc, !.at = n, !.seen = "none", !.snap = {}]
    OBVIOUS
  <2>3. kcmds' = [kcmds EXCEPT ![u] = d]
    BY <1>2, <2>1, <2>2 DEF KNextAt
  <2>4. pc \in KnowledgePcs /\ n \in EntryIds
    BY DEF KnowledgePcs, EntryIds
  <2>5. IsKnowledgeCommand(d) /\ d.pc = pc /\ d.at = n /\ d.op = c.op
    BY <2>2, <2>4 DEF IsKnowledgeCommand
  <2>6. CommandFits(d)'
    BY <2>5 DEF CommandFits
  <2>7. QED
    BY <2>3, <2>5, <2>6, OneMoves
<1>3. QED
  BY <1>1, <1>2

\* A command goes on at pc, whatever it has learned on the way.
LEMMA GoesTo ==
    ASSUME NEW c, IsKnowledgeCommand(c), NEW pc \in KnowledgePcs, NEW flag, NEW seen, NEW scan,
           NEW snap, NEW rid \in Nat,
           NEW d, d = [c EXCEPT !.pc = pc, !.flag = flag, !.seen = seen, !.scan = scan,
                                !.snap = snap, !.rid = rid]
    PROVE  /\ IsKnowledgeCommand(d)
           /\ d.pc = pc /\ d.op = c.op /\ d.at = c.at /\ d.snap = snap /\ d.rid = rid
BY DEF IsKnowledgeCommand

LEMMA CommandBegins ==
    ASSUME KnowledgeAssumption, KnowledgeInv, DataIsSound, NEW u \in KnowledgeUsers,
           \/ Promote(u) \/ Reject(u) \/ ExportDecisions(u) \/ Deprecate(u)
           \/ Edit(u) \/ Refresh(u) \/ ImportDocs(u)
    PROVE  KCommandsFit'
PROOF
<1>1. ASSUME NEW pc \in KnowledgePcs, NEW op, NEW at \in EntryIds, NEW flag,
             pc # "read_row" => at \in Candidates,
             \/ pc \in {"sync", "sidecar"}
             \/ pc = "read_row" /\ op \in {"edit", "deprecate"}
             \/ pc \in {"reset", "import"} /\ op \in {"if-missing", "set-current"},
             BeginKnowledge(u, pc, op, at, flag)
      PROVE  KCommandsFit'
  <2>1. PICK d : d = [IdleKnowledge EXCEPT !.pc = pc, !.op = op, !.at = at, !.flag = flag]
    OBVIOUS
  <2>2. kcmds' = [kcmds EXCEPT ![u] = d]
    BY <1>1, <2>1 DEF BeginKnowledge
  <2>3. d = [pc |-> pc, op |-> op, at |-> at, flag |-> flag, seen |-> "none",
             scan |-> {}, snap |-> {}, rid |-> 0]
    BY <2>1 DEF IdleKnowledge
  <2>4. IsKnowledgeCommand(d) /\ CommandFits(d)'
    BY <1>1, <2>3 DEF IsKnowledgeCommand, CommandFits
  <2>5. QED
    BY <2>2, <2>4, OneMoves
<1>2. 1 \in Candidates /\ Candidates \subseteq EntryIds
  BY DEF KnowledgeAssumption, Candidates, EntryIds
<1>3. {"sync", "sidecar", "read_row", "reset", "import"} \subseteq KnowledgePcs
  BY DEF KnowledgePcs
<1>4. CASE Promote(u)
  BY <1>1, <1>2, <1>3, <1>4 DEF Promote
<1>5. CASE Reject(u)
  BY <1>1, <1>2, <1>3, <1>5 DEF Reject
<1>6. CASE ExportDecisions(u)
  BY <1>1, <1>2, <1>3, <1>6 DEF ExportDecisions
<1>7. CASE Deprecate(u) \/ Edit(u)
  BY <1>1, <1>2, <1>3, <1>7 DEF Deprecate, Edit
<1>8. CASE Refresh(u) \/ ImportDocs(u)
  BY <1>1, <1>2, <1>3, <1>8 DEF Refresh, ImportDocs
<1>9. QED
  BY <1>4, <1>5, <1>6, <1>7, <1>8

LEMMA CommandMoves ==
    ASSUME KnowledgeAssumption, KnowledgeInv, DataIsSound, NEW u \in KnowledgeUsers,
           KnowledgeCommand(u)
    PROVE  KCommandsFit'
PROOF
<1>b. PICK c : c = kcmds[u] /\ IsKnowledgeCommand(c) /\ CommandFits(c) /\ c.at \in EntryIds
               /\ c.rid \in Nat /\ c.pc \in KnowledgePcs
  BY DEF KnowledgeInv, KCommandsFit, IsKnowledgeCommand
<1>c. CommandFits(c)'
  BY <1>b, FitsStay DEF KnowledgeInv, DataIsSound
<1>d. c.pc # "read_row" => c.at \in Candidates
  BY <1>b DEF CommandFits
<1>1. CASE KEnd(u)
  BY <1>1, IdleFits, OneMoves DEF KEnd
\* A step that hands nothing on but where the command is.
<1>2. ASSUME NEW pc \in {"read", "scan", "decide", "sidecar", "sidecar_write"}, NEW d,
             NEW seen, NEW scan, NEW snap,
             d = [c EXCEPT !.pc = pc, !.seen = seen, !.scan = scan, !.snap = snap],
             kcmds' = [kcmds EXCEPT ![u] = d], c.pc # "read_row"
      PROVE  KCommandsFit'
  <2>1. /\ IsKnowledgeCommand(d) /\ d.pc = pc /\ d.at = c.at
    BY <1>b, <1>2, ZenonT(60) DEF IsKnowledgeCommand, KnowledgePcs
  <2>2. CommandFits(d)'
    BY <1>2, <1>d, <2>1 DEF CommandFits
  <2>3. QED
    BY <1>2, <2>1, <2>2, OneMoves
<1>3. c = [c EXCEPT !.seen = c.seen, !.scan = c.scan, !.snap = c.snap]
  BY <1>b DEF IsKnowledgeCommand
\* KGoto.
<1>4. ASSUME NEW pc, KGoto(u, pc)
      PROVE  \E d : d = [c EXCEPT !.pc = pc] /\ kcmds' = [kcmds EXCEPT ![u] = d]
  BY <1>b, <1>4 DEF KGoto
<1>5. ASSUME NEW pc \in {"read", "scan", "decide", "sidecar", "sidecar_write"}, KGoto(u, pc),
             c.pc # "read_row"
      PROVE  KCommandsFit'
  <2>1. PICK d : d = [c EXCEPT !.pc = pc] /\ kcmds' = [kcmds EXCEPT ![u] = d]
    BY <1>4, <1>5
  <2>2. d = [c EXCEPT !.pc = pc, !.seen = c.seen, !.scan = c.scan, !.snap = c.snap]
    BY <1>b, <2>1 DEF IsKnowledgeCommand
  <2>3. QED
    BY <1>2, <1>5, <2>1, <2>2
<1>6. ASSUME NEW pc \in {"candidates", "import", "record", "write", "publish"}, KGoto(u, pc),
             c.at \in Candidates,
             pc \in {"record", "write", "publish"} => Vetted(c.at)',
             pc = "record" => c.snap \subseteq Markdown,
             pc \in {"candidates", "import", "record"} => c.op \in {"if-missing", "set-current"},
             pc = "publish" => c.snap # {} /\ c.snap \subseteq EntryRows /\ c.op = "deprecate"
      PROVE  KCommandsFit'
  <2>1. PICK d : d = [c EXCEPT !.pc = pc] /\ kcmds' = [kcmds EXCEPT ![u] = d]
    BY <1>4, <1>6
  <2>2. IsKnowledgeCommand(d) /\ d.pc = pc /\ d.at = c.at /\ d.op = c.op /\ d.snap = c.snap
    BY <1>b, <2>1 DEF IsKnowledgeCommand, KnowledgePcs
  <2>3. CommandFits(d)'
    BY <1>6, <2>2 DEF CommandFits, Vetted
  <2>4. QED
    BY <2>1, <2>2, <2>3, OneMoves
<1>7. CASE SyncRun(u)
  BY <1>5, <1>7, <1>b DEF SyncRun
<1>8. CASE PromoteRead(u)
  <2>1. c.pc = "read" /\ c.at \in Candidates
    BY <1>8, <1>b, <1>d DEF PromoteRead
  <2>2. CASE KNextAt(u, c, "read")
    BY <2>1, <2>2, <1>b, NextCandidate
  <2>3. CASE ~KNextAt(u, c, "read")
    <3>a. PICK pc \in {"scan", "decide"} : pc = IF c.scan = {} THEN "scan" ELSE "decide"
      OBVIOUS
    <3>b. kcmds' = [kcmds EXCEPT ![u].seen = decision[c.at], ![u].pc = pc]
      BY <1>8, <1>b, <2>3, <3>a DEF PromoteRead
    <3>c. PICK d : d = [c EXCEPT !.pc = pc, !.seen = decision[c.at]]
      OBVIOUS
    <3>1. d = [c EXCEPT !.pc = pc, !.seen = decision[c.at]] /\ kcmds' = [kcmds EXCEPT ![u] = d]
      BY <1>b, <3>b, <3>c
    <3>2. d = [c EXCEPT !.pc = pc, !.seen = decision[c.at], !.scan = c.scan, !.snap = c.snap]
      BY <1>b, <3>1 DEF IsKnowledgeCommand
    <3>3. QED
      BY <1>2, <2>1, <3>1, <3>2
  <2>4. QED
    BY <2>2, <2>3
<1>9. CASE PromoteScan(u)
  <2>1. c.pc = "scan"
    BY <1>9, <1>b DEF PromoteScan
  <2>2. PICK scan, d : d = [c EXCEPT !.pc = "decide", !.scan = scan]
                       /\ kcmds' = [kcmds EXCEPT ![u] = d]
    BY <1>9, <1>b DEF PromoteScan
  <2>3. d = [c EXCEPT !.pc = "decide", !.seen = c.seen, !.scan = scan, !.snap = c.snap]
    BY <1>b, <2>2 DEF IsKnowledgeCommand
  <2>4. QED
    BY <1>2, <2>1, <2>2, <2>3
<1>10. CASE PromoteSkip(u)
  BY <1>10, <1>b, <1>d, NextCandidate DEF PromoteSkip
<1>11. CASE PromoteCommit(u)
  <2>1. c.pc = "decide" /\ c.at \in Candidates
    BY <1>11, <1>b, <1>d DEF PromoteCommit
  <2>2. CASE ~KEnd(u)
    <3>1. PICK d \in SetCandidateDecision(decision[c.at], "promoted") :
             decision' = [decision EXCEPT ![c.at] = d]
      BY <1>11, <1>b, <2>2 DEF PromoteCommit
    <3>2. d = "promoted"
      BY DEF SetCandidateDecision
    <3>3. Vetted(c.at)'
      BY <2>1, <3>1, <3>2, TakenDecision DEF Vetted, KnowledgeInv
    <3>4. KGoto(u, "write")
      BY <1>11, <1>b, <2>2 DEF PromoteCommit
    <3>5. QED
      BY <1>6, <2>1, <3>3, <3>4
  <2>3. QED
    BY <1>1, <2>2
<1>12. CASE PromoteWrite(u)
  <2>1. PICK scan, d : d = [c EXCEPT !.scan = scan] /\ KNextAt(u, d, "read")
    BY <1>12, <1>b DEF PromoteWrite
  <2>2. IsKnowledgeCommand(d) /\ d.at = c.at /\ c.pc = "write"
    BY <1>12, <1>b, <2>1 DEF IsKnowledgeCommand, PromoteWrite
  <2>3. QED
    BY <1>d, <2>1, <2>2, NextCandidate
<1>13. CASE ReconcileDecide(u)
  <2>1. c.pc = "decide" /\ c.op = "promote" /\ c.at \in Candidates
    BY <1>13, <1>b, <1>d DEF ReconcileDecide
  <2>2. CASE ~KEnd(u)
    <3>1. PICK d \in SetCandidateDecision(decision[c.at], "promoted") :
             decision' = [decision EXCEPT ![c.at] = d]
      BY <1>13, <1>b, <2>2 DEF ReconcileDecide
    <3>2. d = "promoted"
      BY DEF SetCandidateDecision
    <3>3. Vetted(c.at)'
      BY <2>1, <3>1, <3>2, TakenDecision DEF Vetted, KnowledgeInv
    <3>a. PICK mds : mds = docs[c.at]
      OBVIOUS
    <3>b. kcmds' = [kcmds EXCEPT ![u].pc = "upsert", ![u].snap = mds]
      BY <1>13, <1>b, <2>2, <3>a DEF ReconcileDecide
    <3>c. PICK k : k = [c EXCEPT !.pc = "upsert", !.snap = mds]
      OBVIOUS
    <3>4. k = [c EXCEPT !.pc = "upsert", !.snap = mds] /\ kcmds' = [kcmds EXCEPT ![u] = k]
      BY <1>b, <3>b, <3>c
    <3>5. IsKnowledgeCommand(k) /\ k.pc = "upsert" /\ k.at = c.at /\ k.op = c.op /\ k.snap = mds
      BY <1>b, <3>4 DEF IsKnowledgeCommand, KnowledgePcs
    <3>6. mds \subseteq Markdown
      BY <2>1, <3>a DEF KnowledgeInv, KnowledgeShapes
    <3>7. CommandFits(k)'
      BY <2>1, <3>3, <3>5, <3>6 DEF CommandFits, Vetted
    <3>8. QED
      BY <3>4, <3>5, <3>7, OneMoves
  <2>3. QED
    BY <1>1, <2>2
<1>14. CASE ReconcileEntry(u)
  BY <1>14, <1>b, <1>d, NextCandidate DEF ReconcileEntry
<1>15. CASE RejectDecide(u)
  BY <1>1, <1>5, <1>15, <1>b DEF RejectDecide
<1>16. CASE SidecarRead(u)
  <2>1. CASE ~KEnd(u)
    <3>1. PICK snap, d : d = [c EXCEPT !.pc = "sidecar_write", !.snap = snap]
                         /\ kcmds' = [kcmds EXCEPT ![u] = d]
      BY <1>16, <1>b, <2>1, ZenonT(60) DEF SidecarRead
    <3>2. d = [c EXCEPT !.pc = "sidecar_write", !.seen = c.seen, !.scan = c.scan, !.snap = snap]
      BY <1>b, <3>1 DEF IsKnowledgeCommand
    <3>3. c.pc # "read_row"
      BY <1>16, <1>b DEF SidecarRead
    <3>4. QED
      BY <1>2, <3>1, <3>2, <3>3
  <2>2. QED
    BY <1>1, <2>1
<1>17. CASE SidecarWrite(u) \/ DeprecateWrite(u) \/ KnowledgeDie(u)
  BY <1>1, <1>17 DEF SidecarWrite, DeprecateWrite, KnowledgeDie
<1>18. CASE ReadRow(u)
  <2>1. c.pc = "read_row" /\ c.op \in {"edit", "deprecate"}
    BY <1>18, <1>b DEF ReadRow, CommandFits
  <2>2. CASE ~KEnd(u)
    <3>1. PICK ok : ok = {r \in entries[c.at] : r.cat = "codebase" /\ (c.op = "edit" => r.cur # 0)}
      OBVIOUS
    <3>2. PICK snap : snap = {[r EXCEPT !.md = CurrentMarkdown(c.at, r)] : r \in ok}
      OBVIOUS
    <3>b. kcmds' = [kcmds EXCEPT ![u].pc = "revise", ![u].snap = snap]
      BY <1>18, <1>b, <2>2, <3>1, <3>2 DEF ReadRow
    <3>c. PICK d : d = [c EXCEPT !.pc = "revise", !.snap = snap]
      OBVIOUS
    <3>3. d = [c EXCEPT !.pc = "revise", !.snap = snap] /\ kcmds' = [kcmds EXCEPT ![u] = d]
      BY <1>b, <3>b, <3>c
    <3>4. ok # {}
      BY <1>18, <1>b, <2>2, <3>1 DEF ReadRow
    <3>5. Vetted(c.at)
      BY <1>b, <3>1, <3>4 DEF KnowledgeInv, EntriesAreSound, EntryIsSound
    <3>6. ASSUME NEW r \in ok
          PROVE  [r EXCEPT !.md = CurrentMarkdown(c.at, r)] \in EntryRows
      <4>1. r \in EntryRows /\ CurrentMarkdown(c.at, r) \in Markdown
        BY <1>b, <3>1, CurrentRevision DEF KnowledgeInv, KnowledgeShapes
      <4>2. QED
        BY <4>1 DEF EntryRows
    <3>7. snap # {} /\ snap \subseteq EntryRows
      BY <3>2, <3>4, <3>6
    <3>8. IsKnowledgeCommand(d) /\ d.pc = "revise" /\ d.at = c.at /\ d.op = c.op /\ d.snap = snap
      BY <1>b, <3>3 DEF IsKnowledgeCommand, KnowledgePcs
    <3>9. Vetted(c.at)' /\ c.at \in Candidates
      BY <3>5 DEF Vetted, DataIsSound, PromotionsStand
    <3>10. CommandFits(d)'
      BY <2>1, <3>7, <3>8, <3>9 DEF CommandFits, Vetted
    <3>11. QED
      BY <3>3, <3>8, <3>10, OneMoves
  <2>3. QED
    BY <1>1, <2>2
<1>19. CASE Revise(u)
  <2>1. /\ c.pc = "revise" /\ Vetted(c.at) /\ c.snap # {} /\ c.snap \subseteq EntryRows
        /\ c.op \in {"edit", "deprecate"} /\ c.at \in Candidates
    BY <1>19, <1>b, <1>d DEF Revise, CommandFits
  <2>2. PICK m \in Revised(c) :
          /\ RecordRevision(entries[c.at], c.at, m, "set-current")
          /\ kcmds' = [kcmds EXCEPT ![u].pc = "row",
                         ![u].rid = Len(RevisionsWith(c.at, m)),
                         ![u].snap = {[r EXCEPT !.md = m] : r \in c.snap},
                         ![u].flag = \E r \in c.snap : r.md = m]
    BY <1>19, <1>b DEF Revise
  <2>3. m \in Markdown /\ (c.op = "deprecate" => m.dep)
    BY <2>1, RevisedMarkdown
  <2>4. revs'[c.at] = RevisionsWith(c.at, m)
    BY <1>b, <2>2 DEF RecordRevision, KnowledgeInv, KnowledgeShapes
  <2>5. PICK rid \in Nat \ {0} : rid = Len(RevisionsWith(c.at, m))
    BY <1>b, <2>3, RevisionsWithGrows DEF KnowledgeInv
  <2>6. rid \in 1..Len(revs'[c.at]) /\ revs'[c.at][rid] = m
    BY <1>b, <2>3, <2>4, <2>5, RevisionsWithGrows DEF KnowledgeInv
  <2>f. PICK flag : flag = \E r \in c.snap : r.md = m
    OBVIOUS
  <2>7. PICK snap : snap = {[r EXCEPT !.md = m] : r \in c.snap}
    OBVIOUS
  <2>8. PICK d : d = [c EXCEPT !.pc = "row", !.rid = rid, !.snap = snap, !.flag = flag]
                 /\ kcmds' = [kcmds EXCEPT ![u] = d]
    <3>1. kcmds' = [kcmds EXCEPT ![u].pc = "row", ![u].rid = rid, ![u].snap = snap, ![u].flag = flag]
      BY <2>2, <2>5, <2>7, <2>f
    <3>2. QED
      BY <3>1, <1>b
  <2>9. snap # {} /\ snap \subseteq EntryRows
    <3>1. ASSUME NEW r \in EntryRows
          PROVE  [r EXCEPT !.md = m] \in EntryRows
      BY <2>3 DEF EntryRows
    <3>2. c.snap # {} /\ c.snap \subseteq EntryRows
      BY <2>1
    <3>3. QED
      BY ONLY <2>7, <3>1, <3>2
  <2>10. IsKnowledgeCommand(d) /\ d.pc = "row" /\ d.at = c.at /\ d.op = c.op /\ d.snap = snap
         /\ d.rid = rid
    BY <1>b, <2>8 DEF IsKnowledgeCommand, KnowledgePcs
  <2>11. Vetted(c.at)'
    BY <2>1 DEF Vetted, DataIsSound, PromotionsStand
  <2>12. CommandFits(d)'
    BY <2>1, <2>3, <2>6, <2>9, <2>10, <2>11 DEF CommandFits, Vetted
  <2>13. QED
    BY <2>8, <2>10, <2>12, OneMoves
<1>20. CASE RowUpdate(u)
  <2>1. /\ c.pc = "row" /\ c.at \in Candidates /\ Vetted(c.at)' /\ c.snap # {}
        /\ c.snap \subseteq EntryRows /\ c.op \in {"edit", "deprecate"}
    BY <1>20, <1>b, <1>c, <1>d DEF RowUpdate, CommandFits, Vetted
  <2>2. CASE ~KEnd(u)
    <3>1. KGoto(u, "publish") /\ c.op = "deprecate"
      BY <1>20, <1>b, <2>2 DEF RowUpdate
    <3>2. QED
      BY <1>6, <2>1, <3>1
  <2>3. QED
    BY <1>1, <2>2
<1>21. CASE ImportReset(u) \/ ImportCandidates(u)
  <2>1. c.pc \in {"reset", "candidates"} /\ c.op \in {"if-missing", "set-current"}
        /\ c.at \in Candidates
    BY <1>21, <1>b, <1>d DEF ImportReset, ImportCandidates, CommandFits
  <2>2. KGoto(u, "candidates") \/ KGoto(u, "import")
    BY <1>21 DEF ImportReset, ImportCandidates
  <2>3. QED
    BY <1>6, <2>1, <2>2
<1>22. CASE ImportRead(u)
  <2>1. c.pc = "import" /\ c.op \in {"if-missing", "set-current"} /\ c.at \in Candidates
    BY <1>22, <1>b, <1>d DEF ImportRead, CommandFits
  <2>2. CASE ~KNextAt(u, c, "import")
    <3>1. PICK mds : mds = docs[c.at] /\ mds # {} /\ mds \subseteq Markdown
      BY <1>22, <1>b, <2>1, <2>2 DEF ImportRead, KnowledgeInv, KnowledgeShapes
    <3>2. PICK d : d = [c EXCEPT !.pc = "upsert", !.snap = mds]
                   /\ kcmds' = [kcmds EXCEPT ![u] = d]
      BY <1>22, <1>b, <2>2, <3>1, ZenonT(60) DEF ImportRead
    <3>3. IsKnowledgeCommand(d) /\ d.pc = "upsert" /\ d.at = c.at /\ d.op = c.op /\ d.snap = mds
      BY <1>b, <3>2 DEF IsKnowledgeCommand, KnowledgePcs
    <3>4. Vetted(c.at)'
      BY <2>1, <3>1 DEF KnowledgeInv, DocsAreVetted, Vetted, DataIsSound, PromotionsStand
    <3>5. CommandFits(d)'
      BY <2>1, <3>1, <3>3, <3>4 DEF CommandFits, Vetted
    <3>6. QED
      BY <3>2, <3>3, <3>5, OneMoves
  <2>3. CASE KNextAt(u, c, "import")
    BY <1>b, <2>1, <2>3, NextCandidate
  <2>4. QED
    BY <2>2, <2>3
<1>23. CASE ImportUpsert(u)
  <2>1. /\ c.pc = "upsert" /\ c.op \in {"if-missing", "set-current"} /\ c.at \in Candidates
        /\ c.snap \subseteq Markdown /\ Vetted(c.at)'
    BY <1>23, <1>b, <1>c, <1>d DEF ImportUpsert, CommandFits, Vetted
  <2>2. KGoto(u, "record")
    BY <1>23 DEF ImportUpsert
  <2>3. QED
    BY <1>6, <2>1, <2>2
<1>24. CASE ImportRecord(u)
  <2>1. /\ c.pc = "record" /\ c.op \in {"if-missing", "set-current"} /\ c.at \in Candidates
        /\ KNextAt(u, c, "import")
    BY <1>24, <1>b, <1>d DEF ImportRecord, CommandFits
  <2>2. QED
    BY <1>b, <2>1, NextCandidate
<1>25. QED
  BY <1>7, <1>8, <1>9, <1>10, <1>11, <1>12, <1>13, <1>14, <1>15, <1>16, <1>17, <1>18,
     <1>19, <1>20, <1>21, <1>22, <1>23, <1>24, CommandBegins DEF KnowledgeCommand

LEMMA KnowledgeInitially == KnowledgeAssumption /\ KnowledgeInit => KnowledgeInv
PROOF
<1> SUFFICES ASSUME KnowledgeAssumption, KnowledgeInit
             PROVE  KnowledgeInv
  OBVIOUS
<1>1. KnowledgeShapes
  BY DEF KnowledgeInit, KnowledgeShapes, Decisions, Promoted, Markdown
<1>2. DocsAreVetted
  BY DEF KnowledgeInit, DocsAreVetted, Vetted
<1>3. EntriesAreSound
  BY DEF KnowledgeInit, EntriesAreSound, EntryIsSound, EntryIsWhole
<1>4. KCommandsFit
  BY IdleFits DEF KnowledgeInit, KCommandsFit
<1>5. QED
  BY <1>1, <1>2, <1>3, <1>4 DEF KnowledgeInv

\* Every file, entry and command keeps to candidates that were promoted, and
\* every current revision exists.
THEOREM KnowledgeInvariant == KnowledgeSpec => []KnowledgeInv
PROOF
<1>1. KnowledgeInv /\ [KnowledgeNext]_knowledgeVars => KnowledgeInv'
  <2> SUFFICES ASSUME KnowledgeInv, [KnowledgeNext]_knowledgeVars
               PROVE  KnowledgeInv'
    OBVIOUS
  <2>1. CASE UNCHANGED knowledgeVars
    BY <2>1 DEF knowledgeVars, KnowledgeInv, KnowledgeShapes, DocsAreVetted, EntriesAreSound,
       EntryIsSound, EntryIsWhole, KCommandsFit, CommandFits, Vetted
  <2>2. ASSUME NEW u \in KnowledgeUsers, KnowledgeCommand(u)
        PROVE  KnowledgeInv'
    BY <2>2, KnowledgeAssumption, CommandDataStep, CommandMoves DEF KnowledgeInv, DataIsSound
  <2>3. CASE \/ ExportToDocs \/ RecordOperational \/ DeprecateOperational
             \/ ImportOperational \/ ExportOperational
    <3>1. DataIsSound
      BY <2>3, KnowledgeAssumption, SharedDataStep
    <3>2. UNCHANGED kcmds
      BY <2>3 DEF ExportToDocs, RecordOperational, DeprecateOperational, ImportOperational,
         ImportOperationalEntry, ExportOperational, OpsWrite
    <3>3. QED
      BY <3>1, <3>2, NoneMoves DEF KnowledgeInv, DataIsSound
  <2>4. QED
    BY <2>1, <2>2, <2>3 DEF KnowledgeNext
<1>2. QED
  BY <1>1, KnowledgeInitially, KnowledgeAssumption, PTL DEF KnowledgeSpec

\* For any candidates, operational entries and commands at once: whatever a
\* coding agent may read was promoted (or came from before there were rows)
\* and is no operational entry, and the section a reviewer reads holds
\* operational entries only (buildKnowledgeContextFromDb).
THEOREM ContextStaysVetted == KnowledgeSpec => []ContextIsVetted
PROOF
<1>1. KnowledgeInv => ContextIsVetted
  <2> SUFFICES ASSUME KnowledgeInv
               PROVE  ContextIsVetted
    OBVIOUS
  <2>1. \A e \in ContextFromFiles : Vetted(e)
    BY DEF KnowledgeInv, DocsAreVetted, ContextFromFiles
  <2>2. \A e \in ContextFromDb : Vetted(e)
    BY CodebaseIsVetted DEF KnowledgeInv, ContextFromDb
  <2>3. ReviewSection \subseteq OpsKeys
    BY OperationalIsNoCandidate, KnowledgeAssumption DEF KnowledgeInv, ReviewSection
  <2>4. QED
    BY <2>1, <2>2, <2>3 DEF ContextIsVetted, Vetted
<1>2. QED
  BY <1>1, KnowledgeInvariant, PTL

\* A current revision that is deprecated and is still the current one.
LEMMA StillDeprecated ==
    ASSUME KnowledgeShapes, EntriesAreSound, RevisionsGrow, NEW e \in Candidates,
           DeprecatedNow(e), \A r \in entries[e], q \in entries'[e] : q.cur = r.cur
    PROVE  e \notin ContextFromDb'
PROOF
<1>1. SUFFICES ASSUME e \in ContextFromDb'
               PROVE  DeprecatedNow(e)' /\ ~DeprecatedNow(e)'
  OBVIOUS
<1>2. PICK r \in entries[e] : r.cur # 0 /\ revs[e][r.cur].dep
  BY DEF DeprecatedNow
<1>3. ~DeprecatedNow(e)' /\ \E q \in entries'[e] : q.cur # 0
  BY <1>1 DEF ContextFromDb, CurrentOf
<1>4. PICK q \in entries'[e] : q.cur = r.cur
  BY <1>2, <1>3
<1>5. r.cur \in 1..Len(revs[e]) /\ e \in EntryIds
  <2>1. e \in EntryIds /\ r \in EntryRows /\ r.cur <= Len(revs[e]) /\ Len(revs[e]) \in Nat
    BY DEF EntryIds, KnowledgeShapes, EntriesAreSound, EntryIsSound, EntryIsWhole
  <2>2. r.cur \in Nat
    BY <2>1 DEF EntryRows
  <2>3. QED
    BY <1>2, <2>1, <2>2
<1>6. revs'[e][q.cur] = revs[e][r.cur]
  BY <1>4, <1>5 DEF RevisionsGrow
<1>7. DeprecatedNow(e)'
  BY <1>2, <1>4, <1>6 DEF DeprecatedNow
<1>8. QED
  BY <1>3, <1>7

\* One whose new current revision is deprecated too.
LEMMA DeprecatedAgain ==
    ASSUME NEW e \in Candidates, \A q \in entries'[e] : q.cur # 0 => revs'[e][q.cur].dep
    PROVE  e \notin ContextFromDb'
BY DEF ContextFromDb, CurrentOf, DeprecatedNow

\* A row update keeps the pointer, or a deprecation writes its own again.
LEMMA UpdatedCurrent ==
    ASSUME KnowledgeShapes, NEW u \in KnowledgeUsers, RowUpdate(u),
           kcmds[u].at \in EntryIds, NEW q \in entries'[kcmds[u].at]
    PROVE  \E r \in entries[kcmds[u].at] :
              q.cur = r.cur \/ (kcmds[u].op = "deprecate" /\ q.cur = kcmds[u].rid)
PROOF
<1> DEFINE c == kcmds[u]
           md == CHOOSE m \in Markdown : \E s \in c.snap : m = s.md
           update(r) == [r EXCEPT !.md = md, !.mode = "db-first",
                                  !.cur = IF c.op = "deprecate" THEN c.rid ELSE @]
           next(r) == IF \E s \in c.snap : c.op = "deprecate" /\ c.flag /\ s.cur = c.rid
                                           /\ s.mode = "db-first"
                        THEN r ELSE update(r)
           rows == {next(r) : r \in entries[c.at]}
<1>1. entries' = [entries EXCEPT ![c.at] = rows]
  BY DEF RowUpdate
<1> HIDE DEF next, md
<1>2. PICK r \in entries[c.at] : q = next(r)
  BY <1>1 DEF KnowledgeShapes
<1>3. r \in EntryRows
  BY DEF KnowledgeShapes
<1>4. q = r \/ q = update(r)
  BY <1>2 DEF next
<1>5. update(r).cur = r.cur \/ (c.op = "deprecate" /\ update(r).cur = c.rid)
  BY <1>3 DEF EntryRows
<1>6. QED
  BY <1>4, <1>5

BroughtBack ==
    \E u \in KnowledgeUsers :
        /\ kcmds[u] # kcmds'[u]
        /\ kcmds[u].pc \in {"revise", "record"}
        /\ kcmds[u].op \in {"edit", "set-current"}

LEMMA DeprecationStep ==
    ASSUME KnowledgeAssumption, KnowledgeInv, KnowledgeNext, NEW e \in Candidates,
           DeprecatedNow(e), e \in ContextFromDb'
    PROVE  BroughtBack
PROOF
<1>a. KnowledgeShapes /\ EntriesAreSound /\ e \in EntryIds
  BY DEF KnowledgeInv, EntryIds
<1>b. RevisionsGrow
  BY CommandDataStep, SharedDataStep DEF DataIsSound, KnowledgeNext
<1>c. ~\A r \in entries[e], q \in entries'[e] : q.cur = r.cur
  BY <1>a, <1>b, StillDeprecated
<1>d. ~\A q \in entries'[e] : q.cur # 0 => revs'[e][q.cur].dep
  BY DeprecatedAgain
<1>e. entries[e] \in SUBSET EntryRows /\ \A r, q \in entries[e] : r = q
  BY <1>a DEF KnowledgeShapes, EntriesAreSound, EntryIsSound, EntryIsWhole
<1>1. ~(entries'[e] \subseteq entries[e])
  BY <1>c, <1>e
<1>2. ASSUME NEW k \in OpsKeys, NEW m, OpsWrite(k, m)
      PROVE  FALSE
  <2>1. k # e
    BY KnowledgeAssumption DEF KnowledgeAssumption
  <2>2. entries'[e] = entries[e]
    BY <1>a, <1>2, <2>1 DEF OpsWrite, RecordRevision, KnowledgeShapes
  <2>3. QED
    BY <1>1, <2>2
<1>3. CASE ExportToDocs \/ ExportOperational
  BY <1>1, <1>3 DEF ExportToDocs, ExportOperational
<1>4. CASE RecordOperational \/ DeprecateOperational \/ ImportOperational
  BY <1>2, <1>4, <1>a, OperationalIsNoCandidate
     DEF RecordOperational, DeprecateOperational, ImportOperational, ImportOperationalEntry
<1>5. ASSUME NEW u \in KnowledgeUsers, KnowledgeCommand(u)
      PROVE  BroughtBack
  <2>b. PICK c : c = kcmds[u] /\ IsKnowledgeCommand(c) /\ CommandFits(c) /\ c.at \in EntryIds
    BY DEF KnowledgeInv, KCommandsFit, IsKnowledgeCommand
  <2>1. ASSUME NEW m \in Markdown, entries' = [entries EXCEPT ![c.at] = UpsertEntry(c.at, m)],
               c.at \in Candidates
        PROVE  FALSE
    <3>1. CASE c.at = e
      <4>1. EntryIsWhole(e, entries[e])
        BY <1>a DEF EntriesAreSound, EntryIsSound
      <4>2. entries'[e] = UpsertEntry(e, m)
        BY <1>a, <2>1, <3>1 DEF KnowledgeShapes
      <4>3. QED
        BY <1>a, <1>c, <4>1, <4>2, UpsertIsWhole
    <3>2. CASE c.at # e
      BY <1>1, <1>a, <2>1, <3>2 DEF KnowledgeShapes
    <3>3. QED
      BY <3>1, <3>2
  <2>2. CASE PromoteCommit(u)
    <3>1. c.at \in Candidates /\ Promoted \in Markdown
      BY <2>2, <2>b DEF PromoteCommit, CommandFits, Promoted, Markdown
    <3>2. entries' = entries \/ entries' = [entries EXCEPT ![c.at] = UpsertEntry(c.at, Promoted)]
      BY <2>2, <2>b DEF PromoteCommit
    <3>3. QED
      BY <1>1, <2>1, <3>1, <3>2
  <2>3. CASE ReconcileEntry(u) \/ ImportUpsert(u)
    <3>1. c.at \in Candidates /\ c.snap \subseteq Markdown
      BY <2>3, <2>b DEF ReconcileEntry, ImportUpsert, CommandFits
    <3>2. PICK m \in c.snap : entries' = [entries EXCEPT ![c.at] = UpsertEntry(c.at, m)]
      BY <2>3, <2>b DEF ReconcileEntry, ImportUpsert
    <3>3. QED
      BY <2>1, <3>1, <3>2
  <2>4. CASE RowUpdate(u)
    <3>1. c.pc = "row" /\ c.op \in {"edit", "deprecate"} /\ revs' = revs
          /\ (c.op = "deprecate" => revs[c.at][c.rid].dep)
      BY <2>4, <2>b DEF RowUpdate, CommandFits
    <3>2. c.at = e
      BY <1>1, <1>a, <2>4, <2>b DEF RowUpdate, KnowledgeShapes
    <3>3. \A q \in entries'[e] : \E r \in entries[e] :
              q.cur = r.cur \/ (c.op = "deprecate" /\ q.cur = c.rid)
      BY <1>a, <2>4, <2>b, <3>2, UpdatedCurrent
    <3>4. PICK r \in entries[e] : r.cur # 0 /\ revs[e][r.cur].dep
      BY DEF DeprecatedNow
    <3>5. \A q \in entries'[e] : q.cur = r.cur \/ (c.op = "deprecate" /\ q.cur = c.rid)
      BY <1>e, <3>3
    <3>6. \A q \in entries'[e] : revs'[e][q.cur].dep
      BY <3>1, <3>2, <3>4, <3>5
    <3>7. QED
      BY <1>d, <3>6
  <2>5. CASE ImportReset(u)
    BY <1>1, <1>a, <2>5 DEF ImportReset
  <2>6. CASE Revise(u)
    <3>1. c.pc = "revise" /\ c.op \in {"edit", "deprecate"} /\ c.snap \subseteq EntryRows
          /\ Vetted(c.at)
      BY <2>6, <2>b DEF Revise, CommandFits
    <3>2. PICK m \in Revised(c) : RecordRevision(entries[c.at], c.at, m, "set-current")
      BY <2>6, <2>b DEF Revise
    <3>3. m \in Markdown /\ (c.op = "deprecate" => m.dep)
      BY <3>1, RevisedMarkdown
    <3>4. PICK rows \in SUBSET EntryRows : rows = entries[c.at] /\ EntryIsSound(c.at, rows)
      BY <1>a, <2>b DEF KnowledgeShapes, EntriesAreSound
    <3>5. UNCHANGED <<decision, docs, opsDocs>>
      BY <2>6 DEF Revise
    <3>6. /\ \A f \in EntryIds \ {c.at} : entries'[f] = entries[f]
          /\ revs'[c.at] = RevisionsWith(c.at, m)
          /\ \A q \in entries'[c.at] : q.cur = Len(RevisionsWith(c.at, m))
      BY <1>a, <2>b, <3>1, <3>2, <3>3, <3>4, <3>5, RecordedRevision
    <3>7. c.at = e
      BY <1>1, <1>a, <3>6
    <3>8. c.op = "edit"
      BY <1>a, <1>d, <3>1, <3>3, <3>6, <3>7, RevisionsWithGrows
    <3>9. kcmds'[u].pc = "row"
      BY <2>6, <2>b DEF Revise, KnowledgeInv, KCommandsFit, IsKnowledgeCommand
    <3>10. QED
      BY <2>b, <3>1, <3>8, <3>9 DEF BroughtBack
  <2>7. CASE ImportRecord(u)
    <3>1. c.pc = "record" /\ c.op \in {"if-missing", "set-current"} /\ c.snap \subseteq Markdown
          /\ Vetted(c.at)
      BY <2>7, <2>b DEF ImportRecord, CommandFits
    <3>2. PICK m \in c.snap : RecordRevision(entries[c.at], c.at, m, c.op)
      BY <2>7, <2>b DEF ImportRecord
    <3>3. PICK rows \in SUBSET EntryRows : rows = entries[c.at] /\ EntryIsSound(c.at, rows)
      BY <1>a, <2>b DEF KnowledgeShapes, EntriesAreSound
    <3>4. UNCHANGED <<decision, docs, opsDocs>>
      BY <2>7 DEF ImportRecord
    <3>5. /\ \A f \in EntryIds \ {c.at} : entries'[f] = entries[f]
          /\ c.op # "set-current" =>
               \A r \in rows, q \in entries'[c.at] : r.cur # 0 => q.cur = r.cur
      BY <1>a, <2>b, <3>1, <3>2, <3>3, <3>4, RecordedRevision
    <3>6. c.at = e
      BY <1>1, <1>a, <3>5
    <3>7. \A r \in entries[e] : r.cur # 0
      BY <1>e DEF DeprecatedNow
    <3>8. c.op = "set-current"
      BY <1>c, <3>1, <3>3, <3>5, <3>6, <3>7
    <3>9. kcmds'[u].pc # "record"
      <4>1. kcmds = [w \in KnowledgeUsers |-> kcmds[w]]
        BY DEF KnowledgeInv, KCommandsFit
      <4>2. CASE KEnd(u)
        BY <4>1, <4>2 DEF KEnd, IdleKnowledge
      <4>3. CASE ~KEnd(u)
        <5>1. PICK d : /\ kcmds' = [kcmds EXCEPT ![u] = d]
                       /\ d = [c EXCEPT !.pc = "import", !.at = c.at + 1, !.seen = "none",
                                        !.snap = {}]
          BY <2>7, <2>b, <4>3 DEF ImportRecord, KNextAt
        <5>2. d.pc = "import"
          BY <2>b, <5>1 DEF IsKnowledgeCommand
        <5>3. QED
          BY <4>1, <5>1, <5>2
      <4>4. QED
        BY <4>2, <4>3
    <3>10. QED
      BY <2>b, <3>1, <3>8, <3>9 DEF BroughtBack
  <2>8. CASE UNCHANGED entries
    BY <1>1, <2>8
  <2>9. CASE \/ Promote(u) \/ Reject(u) \/ ExportDecisions(u) \/ Deprecate(u)
             \/ Edit(u) \/ Refresh(u) \/ ImportDocs(u) \/ SyncRun(u)
             \/ PromoteRead(u) \/ PromoteScan(u) \/ PromoteSkip(u) \/ PromoteWrite(u)
             \/ ReconcileDecide(u) \/ RejectDecide(u) \/ SidecarRead(u) \/ SidecarWrite(u)
             \/ ReadRow(u) \/ DeprecateWrite(u) \/ ImportCandidates(u) \/ ImportRead(u)
             \/ KnowledgeDie(u)
    <3>1. UNCHANGED entries
      BY <2>9 DEF Promote, Reject, ExportDecisions, Deprecate, Edit, Refresh, ImportDocs,
         BeginKnowledge, SyncRun, PromoteRead, PromoteScan, PromoteSkip, PromoteWrite,
         ReconcileDecide, RejectDecide, SidecarRead, SidecarWrite, ReadRow, DeprecateWrite,
         ImportCandidates, ImportRead, KnowledgeDie, Store
    <3>2. QED
      BY <2>8, <3>1
  <2>10. QED
    BY <1>5, <2>2, <2>3, <2>4, <2>5, <2>6, <2>7, <2>9 DEF KnowledgeCommand
<1>6. QED
  BY <1>3, <1>4, <1>5 DEF KnowledgeNext

\* An entry whose current revision is deprecated comes back into the context
\* only by an edit or by an import of the docs that was asked for: not by a
\* promotion, and not by the import of a refreshing command, wherever its
\* steps fall (importEntries, recordKnowledgeEntryRevision).
THEOREM DeprecationHolds == KnowledgeSpec => DeprecationStands
PROOF
<1> DEFINE Stands == \A e \in Candidates : DeprecatedNow(e) /\ e \in ContextFromDb' =>
                        \E u \in KnowledgeUsers :
                            /\ kcmds[u] # kcmds'[u]
                            /\ kcmds[u].pc \in {"revise", "record"}
                            /\ kcmds[u].op \in {"edit", "set-current"}
<1>1. KnowledgeInv /\ [KnowledgeNext]_knowledgeVars => [Stands]_knowledgeVars
  BY KnowledgeAssumption, DeprecationStep DEF BroughtBack
<1>2. QED
  BY <1>1, KnowledgeInvariant, PTL DEF KnowledgeSpec, DeprecationStands

-----------------------------------------------------------------------------
(***************************************************************************)
(* Migrations.  Every statement of the 41 versions but the rebuilds and    *)
(* the move of older pull requests is calm: whatever rows the tables hold, *)
(* it loses none that was kept.  A rebuild drops only tables that no       *)
(* foreign key refers to, so the DROP deletes no other table's rows, after *)
(* their rows were copied.  The invariant adds the history: our versions   *)
(* come first, in order, another branch's after them, and a call gets past *)
(* its checks only where there is none of those.                           *)
(***************************************************************************)

\* A set of versions has a least one.
LEMMA LeastVersion ==
  ASSUME NEW T \in SUBSET Nat, T # {}
  PROVE  \E n \in T : \A m \in T : n =< m
<1>1. IsWellFoundedOn(OpToRel(<, Nat), Nat)
  BY NatLessThanWellFounded
<1>2. PICK n \in T : \A m \in T : ~(<<m, n>> \in OpToRel(<, Nat))
  BY <1>1, WFMin
<1>3. \A m \in T : ~(m < n)
  BY <1>2 DEF OpToRel
<1> QED
  BY <1>3

\* Induction over the naturals for sets.
LEMMA CountUp ==
  ASSUME NEW T \in SUBSET Nat, 0 \in T, \A n \in T : n + 1 \in T
  PROVE  T = Nat
<1> SUFFICES ASSUME Nat \ T # {} PROVE FALSE
  OBVIOUS
<1>1. PICK n \in Nat \ T : \A m \in Nat \ T : n =< m
  BY LeastVersion
<1>2. n # 0 /\ n - 1 \in Nat /\ n - 1 \in T
  BY <1>1
<1> QED
  BY <1>1, <1>2

\* The tables that a migration drops, and those it makes for a rebuild.
Temps == {"artifacts_v4", "artifacts_v12", "hitch_lifecycle_events_v29", "run_usage_v30",
          "hitch_lifecycle_events_v34"}
Childless == {"artifacts", "hitch_lifecycle_events", "run_usage", "db_stats_snapshots"} \cup Temps

\* A database of tables in which no foreign key refers to one of these, so
\* that a DROP takes no other table's rows with it.
IsTable(t) == t = [name |-> t.name, refs |-> t.refs, rows |-> t.rows]
IsDb(db) == \A t \in db : IsTable(t) /\ \A r \in t.refs : r[1] \notin Childless

\* Replacing the rows of a table replaces nothing else of it.
LEMMA WithRows ==
  ASSUME NEW t, IsTable(t), NEW rows
  PROVE  [t EXCEPT !.rows = rows] = [name |-> t.name, refs |-> t.refs, rows |-> rows]
BY DEF IsTable

\* What a statement does to the rows of every table but those in some.
Grows(db, e, some) == \A n : n \notin some => Rows(db, n) \subseteq Rows(e, n)

\* A row of a name is a row of a table with that name.
LEMMA RowsOf ==
  ASSUME NEW db, NEW n, NEW x
  PROVE  x \in Rows(db, n) <=> \E t \in db : t.name = n /\ x \in t.rows
BY DEF Rows


\* CREATE, ALTER and a unique index take no row away.
LEMMA CreateKeeps ==
  ASSUME NEW db, IsDb(db), NEW s, s.op = "create", \A r \in s.refs : r[1] \notin Childless,
         RunStatement(db, s).ok
  PROVE  LET e == RunStatement(db, s).db
         IN  /\ IsDb(e) /\ s.table \notin Names(db) /\ Names(e) = Names(db) \cup {s.table}
             /\ Grows(db, e, {})
<1> DEFINE t == [name |-> s.table, refs |-> s.refs, rows |-> {}]
           e == db \cup {t}
<1>1. RunStatement(db, s) = RunCreate(db, s)
  BY DEF RunStatement
<1>2. s.table \notin Names(db) /\ RunStatement(db, s).db = e
  BY <1>1 DEF RunCreate, Failed, Done
<1>3. IsTable(t) /\ t.name = s.table /\ t.refs = s.refs
  BY DEF IsTable
<1> HIDE DEF t
<1>4. IsDb(e)
  BY <1>3 DEF IsDb
<1>5. Names(e) = Names(db) \cup {s.table}
  BY <1>3 DEF Names
<1>6. Grows(db, e, {})
  BY DEF Grows, Rows
<1> QED
  BY <1>2, <1>4, <1>5, <1>6

LEMMA AlterKeeps ==
  ASSUME NEW db, IsDb(db), NEW s, s.op = "alter", \A r \in s.refs : r[1] \notin Childless,
         RunStatement(db, s).ok
  PROVE  LET e == RunStatement(db, s).db
         IN  /\ IsDb(e) /\ Names(e) = Names(db) /\ Grows(db, e, {})
<1> DEFINE Put(t) == [t EXCEPT !.refs = @ \cup s.refs]
           e == {IF t.name = s.table THEN Put(t) ELSE t : t \in db}
<1>1. RunStatement(db, s).db = e
  BY DEF RunStatement, Update, Failed, Done
<1>2. \A t \in db : /\ Put(t).name = t.name /\ Put(t).rows = t.rows
                    /\ Put(t).refs = t.refs \cup s.refs /\ IsTable(Put(t))
  BY DEF IsDb, IsTable
<1> HIDE DEF Put
<1>3. IsDb(e)
  BY <1>2 DEF IsDb
<1>4. Names(e) = Names(db)
  BY <1>2 DEF Names
<1>5. Grows(db, e, {})
  BY <1>2 DEF Grows, Rows
<1> QED
  BY <1>1, <1>3, <1>4, <1>5

\* COPY adds the rows of one table to another.
LEMMA CopyKeeps ==
  ASSUME NEW db, IsDb(db), NEW s, s.op = "copy", RunStatement(db, s).ok
  PROVE  LET e == RunStatement(db, s).db
         IN  /\ IsDb(e) /\ Names(e) = Names(db) /\ Grows(db, e, {})
             /\ s.table \in Names(db) /\ Rows(db, s.table) \subseteq Rows(e, s.to)
<1> DEFINE new == Rows(db, s.table)
           Put(t) == [t EXCEPT !.rows = @ \cup new]
           e == {IF t.name = s.to THEN Put(t) ELSE t : t \in db}
<1>1. s.to \in Names(db) /\ s.table \in Names(db) /\ RunStatement(db, s).db = e
  BY DEF RunStatement, AddRows, Update, Failed, Done
<1> HIDE DEF new
<1>2. ASSUME NEW t \in db
      PROVE  /\ Put(t).name = t.name /\ Put(t).rows = t.rows \cup new
             /\ Put(t).refs = t.refs /\ IsTable(Put(t))
  <2>1. IsTable(t)
    BY DEF IsDb
  <2>2. Put(t) = [name |-> t.name, refs |-> t.refs, rows |-> t.rows \cup new]
    BY <2>1, WithRows
  <2> QED
    BY <2>2 DEF IsTable
<1> HIDE DEF Put
<1>3. IsDb(e)
  BY <1>2 DEF IsDb
<1>4. Names(e) = Names(db)
  BY <1>2 DEF Names
<1>5. Grows(db, e, {})
  BY <1>2 DEF Grows, Rows
<1>6. new \subseteq Rows(e, s.to)
  <2>1. PICK t \in db : t.name = s.to
    BY <1>1 DEF Names
  <2>2. Put(t) \in e /\ Put(t).name = s.to /\ new \subseteq Put(t).rows
    BY <1>2, <2>1
  <2> QED
    BY <2>2 DEF Rows
<1> QED
  BY <1>1, <1>3, <1>4, <1>5, <1>6 DEF new

\* A renamed table keeps its rows, and so do the others.
LEMMA RenameKeeps ==
  ASSUME NEW db, IsDb(db), NEW s, s.op = "rename", s.to # s.table,
         (s.table \in Childless) \/ (s.to \notin Childless), RunStatement(db, s).ok
  PROVE  LET e == RunStatement(db, s).db
         IN  /\ IsDb(e) /\ Names(e) = (Names(db) \ {s.table}) \cup {s.to}
             /\ Grows(db, e, {s.table}) /\ Rows(db, s.table) \subseteq Rows(e, s.to)
<1> DEFINE Put(t) == [name |-> IF t.name = s.table THEN s.to ELSE t.name, rows |-> t.rows,
                      refs |-> {IF r[1] = s.table THEN <<s.to, r[2]>> ELSE r : r \in t.refs}]
           e == {Put(t) : t \in db}
<1>1. s.table \in Names(db) /\ s.to \notin Names(db) /\ RunStatement(db, s).db = e
  BY DEF RunStatement, RunRename, Failed, Done
<1>2. ASSUME NEW t \in db
      PROVE  /\ Put(t).name = (IF t.name = s.table THEN s.to ELSE t.name)
             /\ Put(t).rows = t.rows /\ IsTable(Put(t))
             /\ \A r \in Put(t).refs : r[1] \notin Childless
  <2>1. ASSUME NEW r \in t.refs
        PROVE  (IF r[1] = s.table THEN <<s.to, r[2]>> ELSE r)[1] \notin Childless
    BY DEF IsDb
  <2> QED
    BY <2>1 DEF IsTable
<1> HIDE DEF Put
<1>3. IsDb(e)
  BY <1>2 DEF IsDb
<1>4. Names(e) = (Names(db) \ {s.table}) \cup {s.to}
  <2>1. PICK t \in db : t.name = s.table
    BY <1>1 DEF Names
  <2>2. Put(t).name = s.to
    BY <1>2, <2>1
  <2> QED
    BY <1>1, <1>2, <2>2 DEF Names
<1>5. Grows(db, e, {s.table}) /\ Rows(db, s.table) \subseteq Rows(e, s.to)
  BY <1>2 DEF Grows, Rows
<1> QED
  BY <1>1, <1>3, <1>4, <1>5

\* Dropping a table nothing refers to takes no rows of another.
LEMMA DropKeeps ==
  ASSUME NEW db, IsDb(db), NEW s, s.op \in {"drop", "dropIf"}, s.table \in Childless,
         RunStatement(db, s).ok
  PROVE  LET e == RunStatement(db, s).db
         IN  /\ IsDb(e) /\ Names(e) = Names(db) \ {s.table} /\ Grows(db, e, {s.table})
<1>1. CASE s.table \notin Names(db)
  <2>1. RunStatement(db, s) = Done(db)
    BY <1>1 DEF RunStatement, Failed
  <2> QED
    BY <1>1, <2>1 DEF Done, Grows
<1>2. CASE s.table \in Names(db)
  <2> DEFINE e == {u \in db : u.name # s.table}
  <2>1. \A kind : Referrers(db, s.table, kind) = {}
    BY DEF Referrers, IsDb
  <2>2. Cascaded(db, s.table) = {s.table}
    BY <2>1 DEF Cascaded
  <2>3. RunStatement(db, s) = RunDrop(db, s)
    BY <1>2 DEF RunStatement
  <2>4. RunStatement(db, s).db
          = {IF t.name \in {s.table} THEN [t EXCEPT !.rows = {}] ELSE t : t \in e}
    BY <2>2, <2>3 DEF RunDrop, Failed, Done
  <2>5. RunStatement(db, s).db = e
    BY <2>4
  <2>6. IsDb(e) /\ Names(e) = Names(db) \ {s.table}
    BY DEF IsDb, Names
  <2>7. Grows(db, e, {s.table})
    BY DEF Grows, Rows
  <2> QED
    BY <2>5, <2>6, <2>7
<1> QED
  BY <1>1, <1>2

\* The rows moved to the ledger are the only ones their table loses.
LEMMA MoveKeeps ==
  ASSUME NEW db, IsDb(db), NEW s, s.op = "moveOlder", s.to # s.table, s.to \in Names(db),
         RunStatement(db, s).ok
  PROVE  LET e == RunStatement(db, s).db
         IN  /\ IsDb(e) /\ Names(e) = Names(db) /\ Grows(db, e, {s.table})
             /\ Rows(db, s.table) \subseteq Rows(e, s.table) \cup Rows(e, s.to)
<1> DEFINE old == {r \in Rows(db, s.table) : \E q \in Rows(db, s.table) : q > r}
           Cut(t) == [t EXCEPT !.rows = @ \ old]
           mid == {IF t.name = s.table THEN Cut(t) ELSE t : t \in db}
           Put(t) == [t EXCEPT !.rows = @ \cup old]
           e == {IF t.name = s.to THEN Put(t) ELSE t : t \in mid}
<1>1. s.table \in Names(db) /\ RunStatement(db, s).db = e
  BY DEF RunStatement, RunMoveOlder, AddRows, Update, Failed, Done
<1>2. \A t \in db : /\ Cut(t).name = t.name /\ Cut(t).rows = t.rows \ old
                    /\ Cut(t).refs = t.refs /\ IsTable(Cut(t))
  BY DEF IsDb, IsTable
<1> HIDE DEF Cut
<1>3. IsDb(mid) /\ Names(mid) = Names(db)
  BY <1>2 DEF IsDb, Names
<1>5. /\ \A n : n # s.table => Rows(db, n) \subseteq Rows(mid, n)
      /\ Rows(db, s.table) \ old \subseteq Rows(mid, s.table)
  BY <1>2 DEF Rows
<1> HIDE DEF mid, old
<1>4. ASSUME NEW t \in mid
      PROVE  /\ Put(t).name = t.name /\ Put(t).rows = t.rows \cup old
             /\ Put(t).refs = t.refs /\ IsTable(Put(t))
  <2>1. IsTable(t)
    BY <1>3 DEF IsDb
  <2>2. Put(t) = [name |-> t.name, refs |-> t.refs, rows |-> t.rows \cup old]
    BY <2>1, WithRows
  <2> QED
    BY <2>2 DEF IsTable
<1> HIDE DEF Put
<1>6. IsDb(e) /\ Names(e) = Names(mid)
  BY <1>3, <1>4 DEF IsDb, Names
<1>7. \A n : Rows(mid, n) \subseteq Rows(e, n)
  BY <1>4 DEF Rows
<1>8. old \subseteq Rows(e, s.to)
  <2>1. PICK t \in mid : t.name = s.to
    BY <1>3 DEF Names
  <2>2. Put(t) \in e /\ Put(t).name = s.to /\ old \subseteq Put(t).rows
    BY <1>4, <2>1
  <2> QED
    BY <2>2 DEF Rows
<1> HIDE DEF e, old
<1>9. Grows(db, e, {s.table})
  BY <1>5, <1>7 DEF Grows
<1>10. Rows(db, s.table) \subseteq Rows(e, s.table) \cup Rows(e, s.to)
  BY <1>5, <1>7, <1>8
<1> QED
  BY <1>1, <1>3, <1>6, <1>9, <1>10

\* A statement that succeeded turned one database into the other.
Goes(d, s, e) == RunStatement(d, s).ok /\ e = RunStatement(d, s).db

\* A script that succeeded went from one database to the next.
Runs(f, stmts) == \A i \in 1..Len(stmts) : Goes(f[i - 1], stmts[i], f[i])

\* A script that succeeded passed through databases, one per statement.
LEMMA ScriptRuns ==
  ASSUME NEW db, NEW stmts, Len(stmts) \in Nat, RunStatements(db, stmts).ok
  PROVE  \E f : Runs(f, stmts) /\ f[0] = db /\ f[Len(stmts)] = RunStatements(db, stmts).db
<1> DEFINE N == Len(stmts)
           next(r, i) == IF r.ok THEN RunStatement(r.db, stmts[i]) ELSE r
           Loop(n, f) == f = [i \in 0..n |-> IF i = 0 THEN Done(db) ELSE next(f[i - 1], i)]
           after == CHOOSE f : Loop(N, f)
           T == {n \in Nat : \E f : Loop(n, f)}
<1>1. RunStatements(db, stmts) = after[N]
  BY DEF RunStatements
<1>2. \E f : Loop(N, f)
  <2> HIDE DEF N, next
  <2>1. 0 \in T
    <3>1. Loop(0, [i \in 0..0 |-> Done(db)])
      OBVIOUS
    <3> QED
      BY <3>1
  <2>2. ASSUME NEW n \in T PROVE n + 1 \in T
    <3>1. PICK f : Loop(n, f)
      OBVIOUS
    <3> DEFINE g == [i \in 0..n + 1 |-> IF i = n + 1 THEN next(f[n], n + 1) ELSE f[i]]
    <3>2. ASSUME NEW i \in 0..n + 1
          PROVE  g[i] = IF i = 0 THEN Done(db) ELSE next(g[i - 1], i)
      <4>1. CASE i = 0
        BY <3>1, <4>1
      <4>2. CASE i = n + 1
        <5>1. i # 0 /\ i - 1 = n /\ n \in 0..n + 1 /\ n # n + 1
          BY <4>2
        <5>2. g[i] = next(f[n], n + 1) /\ g[n] = f[n]
          BY <4>2, <5>1
        <5> QED
          BY <4>2, <5>1, <5>2
      <4>3. CASE i # 0 /\ i # n + 1
        <5>1. i \in 0..n /\ i - 1 \in 0..n + 1 /\ i - 1 # n + 1
          BY <4>3
        <5>2. g[i] = f[i] /\ g[i - 1] = f[i - 1]
          BY <4>3, <5>1
        <5>3. f[i] = next(f[i - 1], i)
          BY <3>1, <4>3, <5>1
        <5> QED
          BY <4>3, <5>2, <5>3
      <4> QED
        BY <4>1, <4>2, <4>3
    <3>3. Loop(n + 1, g)
      <4>1. g = [i \in 0..n + 1 |-> g[i]]
        OBVIOUS
      <4> HIDE DEF g
      <4> QED
        BY <3>2, <4>1
    <3> HIDE DEF Loop, g
    <3>4. n + 1 \in Nat /\ \E h : Loop(n + 1, h)
      BY <3>3
    <3> QED
      BY <3>4
  <2>3. T = Nat
    <3>1. T \in SUBSET Nat
      OBVIOUS
    <3> HIDE DEF T
    <3> QED
      BY <2>1, <2>2, <3>1, CountUp
  <2>4. N \in Nat
    BY DEF N
  <2> QED
    BY <2>3, <2>4
<1>3. after = [i \in 0..N |-> IF i = 0 THEN Done(db) ELSE next(after[i - 1], i)]
  BY <1>2
<1> HIDE DEF after
<1>4. after[0] = Done(db) /\ \A i \in 1..N : after[i] = next(after[i - 1], i)
  <2>1. 0 \in 0..N
    OBVIOUS
  <2>2. \A i \in 1..N : i \in 0..N /\ i # 0
    OBVIOUS
  <2> HIDE DEF N, next
  <2> QED
    BY <1>3, <2>1, <2>2
<1> DEFINE Fine(n) == after[N - n].ok
           U == {n \in Nat : n =< N => Fine(n)}
<1>5. U = Nat
  <2>1. 0 \in U
    BY <1>1
  <2>2. ASSUME NEW n \in U PROVE n + 1 \in U
    <3>1. SUFFICES ASSUME n + 1 =< N PROVE after[N - (n + 1)].ok
      OBVIOUS
    <3>2. N - n \in 1..N /\ (N - n) - 1 = N - (n + 1) /\ after[N - n].ok
      BY <3>1
    <3>3. after[N - n] = next(after[N - (n + 1)], N - n)
      BY <1>4, <3>2
    <3> QED
      BY <3>2, <3>3
  <2>3. U \in SUBSET Nat
    OBVIOUS
  <2> HIDE DEF U
  <2> QED
    BY <2>1, <2>2, <2>3, CountUp
<1>6. \A i \in 0..N : after[i].ok
  <2> SUFFICES ASSUME NEW i \in 0..N PROVE after[i].ok
    OBVIOUS
  <2> DEFINE n == N - i
  <2>1. n \in Nat /\ n =< N /\ N - n = i
    OBVIOUS
  <2> HIDE DEF n
  <2>2. n \in U
    BY ONLY <1>5, <2>1
  <2> QED
    BY <2>1, <2>2
<1> DEFINE f == [i \in 0..N |-> after[i].db]
<1>7. ASSUME NEW i \in 1..N
      PROVE  RunStatement(f[i - 1], stmts[i]).ok /\ f[i] = RunStatement(f[i - 1], stmts[i]).db
  <2>1. i - 1 \in 0..N /\ i \in 0..N
    OBVIOUS
  <2>2. after[i] = RunStatement(after[i - 1].db, stmts[i])
    BY <1>4, <1>6, <2>1
  <2> HIDE DEF N
  <2> QED
    BY <1>6, <2>1, <2>2
<1>8. f[0] = db /\ f[N] = RunStatements(db, stmts).db
  BY <1>1, <1>4 DEF Done
<1> HIDE DEF f
<1> QED
  BY <1>7, <1>8 DEF Runs, Goes

\* Every kept row can be found in this database.
Survives(db) ==
  \A t \in {u \in kept : u.name \notin DROPPED_TABLE_NAMES} : \A r \in t.rows :
    \/ r \in Rows(db, t.name) \cup Rows(db, FinalName(t.name))
    \/ t.name = "pull_requests" /\ r \in Rows(db, "pull_request_attempts")

\* No kept row was put into a half-made replacement.
KeptAreTables == \A t \in kept : t.name \notin Temps

\* The tables that version 20 renames, before and after.
GoalTables == {"goal_sessions", "goal_attempts", "goal_review_cycles", "goal_findings",
               "goal_close_checks", "goal_convergence_decisions"}

\* Statements that lose no kept row whatever the state of the tables.
Calm(s) ==
  \/ s.op \in {"create", "alter"} /\ \A r \in s.refs : r[1] \notin Childless
  \/ s.op \in {"copy", "unique"}
  \/ s.op = "rename" /\ s.table \in GoalTables /\ s.to = FinalName(s.table)
  \/ s.op = "dropIf" /\ s.table \in DROPPED_TABLE_NAMES

\* The tables that a statement makes and takes away.
Born(s) == CASE s.op = "create" -> {s.table}
             [] s.op = "rename" -> {s.to}
             [] OTHER -> {}
Gone(s) == IF s.op \in {"rename", "drop", "dropIf"} THEN {s.table} ELSE {}

\* Where no table loses a row, no kept row is lost.
LEMMA GrowsSurvives ==
  ASSUME NEW db, NEW e, Survives(db), Grows(db, e, {})
  PROVE  Survives(e)
BY DEF Survives, Grows

\* Only the goal tables are renamed, and to names no rebuild uses.
LEMMA FinalNames ==
  /\ \A n : FinalName(n) \notin GoalTables
  /\ \A n : FinalName(n) # n => n \in GoalTables
  /\ \A n \in GoalTables : FinalName(n) \notin Childless
  /\ \A n \in GoalTables : n # "pull_requests" /\ n # "pull_request_attempts"
  /\ \A n : n \notin Childless => FinalName(n) \notin Childless
BY DEF FinalName, GoalTables, Childless, Temps

\* A calm statement keeps every kept row, and what it makes and takes away.
LEMMA CalmStep ==
  ASSUME NEW db, IsDb(db), Survives(db), NEW s, Calm(s), RunStatement(db, s).ok
  PROVE  LET e == RunStatement(db, s).db
         IN  IsDb(e) /\ Survives(e) /\ Names(e) = (Names(db) \ Gone(s)) \cup Born(s)
<1> DEFINE e == RunStatement(db, s).db
<1>1. CASE s.op = "create" /\ \A r \in s.refs : r[1] \notin Childless
  <2>1. IsDb(e) /\ Names(e) = Names(db) \cup {s.table} /\ Grows(db, e, {})
    BY <1>1, CreateKeeps
  <2>2. Gone(s) = {} /\ Born(s) = {s.table}
    BY <1>1 DEF Gone, Born
  <2> HIDE DEF e
  <2> QED
    BY <2>1, <2>2, GrowsSurvives DEF e
<1>2. CASE s.op = "alter" /\ \A r \in s.refs : r[1] \notin Childless
  <2>1. IsDb(e) /\ Names(e) = Names(db) /\ Grows(db, e, {})
    BY <1>2, AlterKeeps
  <2>2. Gone(s) = {} /\ Born(s) = {}
    BY <1>2 DEF Gone, Born
  <2> QED
    BY <2>1, <2>2, GrowsSurvives
<1>3. CASE s.op = "copy"
  <2>1. IsDb(e) /\ Names(e) = Names(db) /\ Grows(db, e, {})
    BY <1>3, CopyKeeps
  <2>2. Gone(s) = {} /\ Born(s) = {}
    BY <1>3 DEF Gone, Born
  <2> QED
    BY <2>1, <2>2, GrowsSurvives
<1>4. CASE s.op = "unique"
  <2>1. e = db
    BY <1>4 DEF RunStatement, Failed, Done
  <2>2. Gone(s) = {} /\ Born(s) = {}
    BY <1>4 DEF Gone, Born
  <2> QED
    BY <2>1, <2>2
<1>5. CASE s.op = "rename" /\ s.table \in GoalTables /\ s.to = FinalName(s.table)
  <2>1. s.to # s.table /\ s.to \notin Childless
    BY <1>5, FinalNames
  <2>2. /\ IsDb(e) /\ Names(e) = (Names(db) \ {s.table}) \cup {s.to}
        /\ Grows(db, e, {s.table}) /\ Rows(db, s.table) \subseteq Rows(e, s.to)
    BY <1>5, <2>1, RenameKeeps
  <2>3. Gone(s) = {s.table} /\ Born(s) = {s.to}
    BY <1>5 DEF Gone, Born
  <2> HIDE DEF e
  <2>4. Survives(e)
    <3> SUFFICES ASSUME NEW t \in kept, t.name \notin DROPPED_TABLE_NAMES, NEW r \in t.rows
                 PROVE  \/ r \in Rows(e, t.name) \cup Rows(e, FinalName(t.name))
                        \/ t.name = "pull_requests" /\ r \in Rows(e, "pull_request_attempts")
      BY DEF Survives
    <3>1. FinalName(t.name) # s.table /\ "pull_request_attempts" # s.table
      BY <1>5, FinalNames
    <3>2. \/ r \in Rows(db, t.name) \cup Rows(db, FinalName(t.name))
          \/ t.name = "pull_requests" /\ r \in Rows(db, "pull_request_attempts")
      BY DEF Survives
    <3>3. CASE r \in Rows(db, t.name) /\ t.name = s.table
      BY <1>5, <2>2, <3>3
    <3>4. CASE r \in Rows(db, t.name) /\ t.name # s.table
      BY <2>2, <3>4 DEF Grows
    <3>5. CASE r \in Rows(db, FinalName(t.name))
      BY <2>2, <3>1, <3>5 DEF Grows
    <3>6. CASE t.name = "pull_requests" /\ r \in Rows(db, "pull_request_attempts")
      BY <2>2, <3>1, <3>6 DEF Grows
    <3> QED
      BY <3>2, <3>3, <3>4, <3>5, <3>6
  <2> QED
    BY <2>2, <2>3, <2>4 DEF e
<1>6. CASE s.op = "dropIf" /\ s.table \in DROPPED_TABLE_NAMES
  <2>1. s.table \in Childless /\ s.table \notin GoalTables /\ s.table # "pull_request_attempts"
        /\ \A n : FinalName(n) = s.table => n = s.table
    BY <1>6, FinalNames DEF DROPPED_TABLE_NAMES, Childless, FinalName, GoalTables
  <2>2. IsDb(e) /\ Names(e) = Names(db) \ {s.table} /\ Grows(db, e, {s.table})
    BY <1>6, <2>1, DropKeeps
  <2>3. Gone(s) = {s.table} /\ Born(s) = {}
    BY <1>6 DEF Gone, Born
  <2> HIDE DEF e
  <2>4. Survives(e)
    BY <1>6, <2>1, <2>2 DEF Survives, Grows
  <2> QED
    BY <2>2, <2>3, <2>4 DEF e
<1> QED
  BY <1>1, <1>2, <1>3, <1>4, <1>5, <1>6 DEF Calm

\* What the statements after a up to b make and take away.
BornIn(s, a, b) == UNION {Born(s[i]) : i \in a + 1..b}
GoneIn(s, a, b) == UNION {Gone(s[i]) : i \in a + 1..b}

\* So does a stretch of calm statements.
LEMMA CalmRun ==
  ASSUME NEW f, NEW s, Len(s) \in Nat, Runs(f, s), NEW a \in Nat, NEW b \in Nat,
         a =< b, b =< Len(s), \A i \in a + 1..b : Calm(s[i]),
         BornIn(s, a, b) \cap GoneIn(s, a, b) = {}, IsDb(f[a]), Survives(f[a])
  PROVE  /\ IsDb(f[b]) /\ Survives(f[b])
         /\ Names(f[b]) = (Names(f[a]) \ GoneIn(s, a, b)) \cup BornIn(s, a, b)
<1> DEFINE Fine(c) == /\ IsDb(f[c]) /\ Survives(f[c])
                      /\ Names(f[c]) = (Names(f[a]) \ GoneIn(s, a, c)) \cup BornIn(s, a, c)
           T == {n \in Nat : a + n =< b => Fine(a + n)}
<1>1. 0 \in T
  <2>1. a + 0 = a /\ a + 1..a = {}
    OBVIOUS
  <2>2. BornIn(s, a, a) = {} /\ GoneIn(s, a, a) = {}
    BY <2>1 DEF BornIn, GoneIn
  <2> QED
    BY <2>1, <2>2
<1>2. ASSUME NEW n \in T PROVE n + 1 \in T
  <2> DEFINE c == a + n
             d == a + n + 1
  <2>1. SUFFICES ASSUME a + (n + 1) =< b PROVE Fine(a + (n + 1))
    OBVIOUS
  <2>2. /\ a + (n + 1) = d /\ c \in Nat /\ d \in a + 1..b /\ d - 1 = c /\ c =< b
        /\ d \in 1..Len(s)
        /\ a + 1..d = (a + 1..c) \cup {d} /\ a + 1..c \subseteq a + 1..b
    BY <2>1
  <2>3. Fine(c)
    BY <2>2
  <2> HIDE DEF c, d
  <2>4. RunStatement(f[c], s[d]).ok /\ f[d] = RunStatement(f[c], s[d]).db /\ Calm(s[d])
    BY <2>2 DEF Runs, Goes
  <2>5. IsDb(f[d]) /\ Survives(f[d]) /\ Names(f[d]) = (Names(f[c]) \ Gone(s[d])) \cup Born(s[d])
    BY <2>3, <2>4, CalmStep
  <2>6. /\ BornIn(s, a, d) = BornIn(s, a, c) \cup Born(s[d])
        /\ GoneIn(s, a, d) = GoneIn(s, a, c) \cup Gone(s[d])
        /\ BornIn(s, a, c) \cap Gone(s[d]) = {}
    <3> DEFINE I == a + 1..c
               J == a + 1..d
               K == a + 1..b
    <3>1. J = I \cup {d} /\ d \in K /\ I \subseteq K
      BY <2>2
    <3>2. /\ BornIn(s, a, c) = UNION {Born(s[i]) : i \in I}
          /\ BornIn(s, a, d) = UNION {Born(s[i]) : i \in J}
          /\ BornIn(s, a, b) = UNION {Born(s[i]) : i \in K}
          /\ GoneIn(s, a, c) = UNION {Gone(s[i]) : i \in I}
          /\ GoneIn(s, a, d) = UNION {Gone(s[i]) : i \in J}
          /\ GoneIn(s, a, b) = UNION {Gone(s[i]) : i \in K}
      BY DEF BornIn, GoneIn
    <3> HIDE DEF I, J, K
    <3>3. /\ BornIn(s, a, d) = BornIn(s, a, c) \cup Born(s[d])
          /\ GoneIn(s, a, d) = GoneIn(s, a, c) \cup Gone(s[d])
      BY <3>1, <3>2
    <3>4. BornIn(s, a, c) \subseteq BornIn(s, a, b) /\ Gone(s[d]) \subseteq GoneIn(s, a, b)
      BY <3>1, <3>2
    <3> QED
      BY <3>3, <3>4
  <2> QED
    BY <2>2, <2>3, <2>5, <2>6
<1>3. T = Nat
  <2>1. T \in SUBSET Nat
    OBVIOUS
  <2> HIDE DEF T
  <2> QED
    BY <1>1, <1>2, <2>1, CountUp
<1> DEFINE n == b - a
<1>4. n \in Nat /\ a + n = b
  OBVIOUS
<1> HIDE DEF n
<1>5. n \in T
  BY ONLY <1>3, <1>4
<1> QED
  BY <1>4, <1>5

\* A table's replacement is made, filled and put in its place.
LEMMA RebuildAll ==
  ASSUME KeptAreTables, NEW t \in Childless \ (Temps \cup DROPPED_TABLE_NAMES),
         NEW n \in Temps, NEW refs, \A r \in refs : r[1] \notin Childless,
         NEW z, NEW a, NEW b, NEW c, NEW d, Goes(z, Create(n, refs), a),
         Goes(a, Copy(t, n), b), Goes(b, Drop(t), c), Goes(c, Rename(n, t), d),
         IsDb(z), Survives(z), Names(z) \cap Temps = {}
  PROVE  IsDb(d) /\ Survives(d) /\ Names(d) = Names(z)
<1>1. IsDb(a) /\ Names(a) = Names(z) \cup {n} /\ Grows(z, a, {})
  <2> DEFINE x == Create(n, refs)
  <2>1. RunStatement(z, x).ok /\ a = RunStatement(z, x).db
    BY DEF Goes
  <2>2. x.op = "create" /\ x.table = n /\ x.refs = refs
    BY DEF Create
  <2> HIDE DEF x
  <2> QED
    BY <2>1, <2>2, CreateKeeps
<1>2. /\ t # n /\ n \in Childless /\ t \in Childless
      /\ t # "pull_requests" /\ t # "pull_request_attempts" /\ n # "pull_request_attempts"
      /\ \A m : FinalName(m) \in {t, n} => m = FinalName(m)
  <2>1. t # "pull_requests" /\ t # "pull_request_attempts" /\ n # "pull_request_attempts"
    BY DEF Childless, Temps
  <2>2. \A m : FinalName(m) \in {t, n} => m = FinalName(m)
    BY FinalNames DEF Childless
  <2> QED
    BY <2>1, <2>2 DEF Childless
<1>3. /\ IsDb(b) /\ Names(b) = Names(a) /\ Grows(a, b, {})
      /\ t \in Names(a) /\ Rows(a, t) \subseteq Rows(b, n)
  <2> DEFINE x == Copy(t, n)
  <2>1. RunStatement(a, x).ok /\ b = RunStatement(a, x).db
    BY DEF Goes
  <2>2. x.op = "copy" /\ x.table = t /\ x.to = n
    BY DEF Copy
  <2> HIDE DEF x
  <2> QED
    BY <1>1, <2>1, <2>2, CopyKeeps
<1>4. IsDb(c) /\ Names(c) = Names(b) \ {t} /\ Grows(b, c, {t})
  <2> DEFINE x == Drop(t)
  <2>1. RunStatement(b, x).ok /\ c = RunStatement(b, x).db
    BY DEF Goes
  <2>2. x.op = "drop" /\ x.table = t /\ x.table \in Childless
    BY DEF Drop
  <2> HIDE DEF x
  <2>3. x.op \in {"drop", "dropIf"} /\ IsDb(b)
    BY <1>3, <2>2
  <2>4. LET e == RunStatement(b, x).db
        IN  IsDb(e) /\ Names(e) = Names(b) \ {x.table} /\ Grows(b, e, {x.table})
    BY ONLY <2>1, <2>2, <2>3, DropKeeps
  <2> QED
    BY <2>1, <2>2, <2>4
<1>5. /\ IsDb(d) /\ Names(d) = (Names(c) \ {n}) \cup {t}
      /\ Grows(c, d, {n}) /\ Rows(c, n) \subseteq Rows(d, t)
  <2> DEFINE x == Rename(n, t)
  <2>1. RunStatement(c, x).ok /\ d = RunStatement(c, x).db
    BY DEF Goes
  <2>2. x.op = "rename" /\ x.table = n /\ x.to = t
    BY DEF Rename
  <2> HIDE DEF x
  <2> QED
    BY <1>2, <1>4, <2>1, <2>2, RenameKeeps
<1>6. \A m : m # n => Rows(z, m) \subseteq Rows(d, m)
  BY <1>1, <1>2, <1>3, <1>4, <1>5 DEF Grows
<1>7. Survives(d)
  <2>1. \A k \in kept : k.name # n /\ (FinalName(k.name) # n)
    BY <1>2 DEF KeptAreTables
  <2> QED
    BY <1>2, <1>6, <2>1 DEF Survives
<1>8. t \in Names(z) /\ n \notin Names(z)
  BY <1>1, <1>2, <1>3
<1>9. Names(d) = Names(z)
  BY ONLY <1>1, <1>3, <1>4, <1>5, <1>8
<1> QED
  BY <1>5, <1>7, <1>9

\* The older pull requests of a run move to their ledger.
LEMMA MoveStep ==
  ASSUME NEW db, IsDb(db), Survives(db), "pull_request_attempts" \in Names(db),
         RunStatement(db, MoveOlder("pull_requests", "pull_request_attempts")).ok
  PROVE  LET e == RunStatement(db, MoveOlder("pull_requests", "pull_request_attempts")).db
         IN  IsDb(e) /\ Survives(e) /\ Names(e) = Names(db)
<1> DEFINE s == MoveOlder("pull_requests", "pull_request_attempts")
           e == RunStatement(db, s).db
<1>1. s.op = "moveOlder" /\ s.table = "pull_requests" /\ s.to = "pull_request_attempts"
  BY DEF MoveOlder
<1> HIDE DEF s
<1>2. /\ IsDb(e) /\ Names(e) = Names(db) /\ Grows(db, e, {"pull_requests"})
      /\ Rows(db, "pull_requests") \subseteq
            Rows(e, "pull_requests") \cup Rows(e, "pull_request_attempts")
  BY <1>1, MoveKeeps DEF s
<1> HIDE DEF e
<1>3. \A m : FinalName(m) = "pull_requests" => m = "pull_requests"
  BY DEF FinalName
<1>4. Survives(e)
  BY <1>2, <1>3, FinalNames DEF Survives, Grows
<1> QED
  BY <1>2, <1>4 DEF e, s

\* A script of calm statements that makes B and takes away G.
CalmScript(s, B, G) ==
  /\ Len(s) \in Nat
  /\ \A i \in 1..Len(s) : Calm(s[i]) /\ Born(s[i]) \subseteq B /\ Gone(s[i]) \subseteq G
  /\ \A x \in B : \E i \in 1..Len(s) : x \in Born(s[i])
  /\ \A x \in G : \E i \in 1..Len(s) : x \in Gone(s[i])

\* A sequence over a set is one over a larger set.
LEMMA SeqMore ==
  ASSUME NEW S, NEW T, NEW s \in Seq(S), S \subseteq T
  PROVE  s \in Seq(T)
OBVIOUS

\* The elements of a concatenation.
LEMMA Concatenated ==
  ASSUME NEW S, NEW s \in Seq(S), NEW T, NEW t \in Seq(T)
  PROVE  /\ Len(s) \in Nat /\ Len(t) \in Nat /\ Len(s \o t) = Len(s) + Len(t)
         /\ \A i \in 1..Len(s) : (s \o t)[i] = s[i]
         /\ \A i \in 1..Len(t) : (s \o t)[Len(s) + i] = t[i]
<1>1. s \in Seq(S \cup T) /\ t \in Seq(S \cup T)
  BY SeqMore
<1> DEFINE u == s \o t
<1>4. /\ Len(u) = Len(s) + Len(t) /\ Len(s) \in Nat /\ Len(t) \in Nat
      /\ \A i \in 1..Len(s) + Len(t) : u[i] = IF i =< Len(s) THEN s[i] ELSE t[i - Len(s)]
  BY <1>1
<1> HIDE DEF u
<1>5. \A i \in 1..Len(s) : u[i] = s[i]
  BY <1>4
<1>6. ASSUME NEW i \in 1..Len(t) PROVE u[Len(s) + i] = t[i]
  <2> DEFINE k == Len(s) + i
  <2>1. k \in 1..Len(s) + Len(t) /\ ~(k =< Len(s)) /\ k - Len(s) = i
    BY <1>4
  <2> HIDE DEF k
  <2> QED
    BY <1>4, <2>1 DEF k
<1> QED
  BY <1>4, <1>5, <1>6 DEF u

\* Two calm scripts, one after the other, are a calm script.
LEMMA CalmThen ==
  ASSUME NEW S, NEW s \in Seq(S), NEW T, NEW t \in Seq(T),
         NEW B, NEW G, CalmScript(s, B, G), NEW C, NEW H, CalmScript(t, C, H)
  PROVE  CalmScript(s \o t, B \cup C, G \cup H)
<1> DEFINE u == s \o t
<1>1. /\ Len(s) \in Nat /\ Len(t) \in Nat /\ Len(u) = Len(s) + Len(t)
      /\ \A i \in 1..Len(s) : u[i] = s[i]
      /\ \A i \in 1..Len(t) : u[Len(s) + i] = t[i]
  BY Concatenated
<1> HIDE DEF u
<1>2. \A i \in 1..Len(s) : i \in 1..Len(u)
  BY <1>1
<1>3. \A i \in 1..Len(t) : Len(s) + i \in 1..Len(u)
  BY <1>1
<1>4. ASSUME NEW i \in 1..Len(u)
      PROVE  \/ i \in 1..Len(s)
             \/ \E j \in 1..Len(t) : i = Len(s) + j
  <2>1. CASE i =< Len(s)
    BY <1>1, <2>1
  <2>2. CASE i > Len(s)
    <3>1. i - Len(s) \in 1..Len(t) /\ i = Len(s) + (i - Len(s))
      BY <1>1, <2>2
    <3> QED
      BY <3>1
  <2> QED
    BY <1>1, <2>1, <2>2
<1>5. \A i \in 1..Len(u) :
         Calm(u[i]) /\ Born(u[i]) \subseteq B \cup C /\ Gone(u[i]) \subseteq G \cup H
  BY <1>1, <1>4 DEF CalmScript
<1>6. \A x \in B \cup C : \E i \in 1..Len(u) : x \in Born(u[i])
  BY <1>1, <1>2, <1>3 DEF CalmScript
<1>7. \A x \in G \cup H : \E i \in 1..Len(u) : x \in Gone(u[i])
  BY <1>1, <1>2, <1>3 DEF CalmScript
<1> QED
  BY <1>1, <1>5, <1>6, <1>7 DEF CalmScript, u

\* The calm statements, kind by kind, with what they make and take away.
LEMMA CreateCalm ==
  ASSUME NEW x, NEW refs, \A r \in refs : r[1] \notin Childless
  PROVE  Calm(Create(x, refs)) /\ Born(Create(x, refs)) = {x} /\ Gone(Create(x, refs)) = {}
BY DEF Calm, Born, Gone, Create

LEMMA AlterCalm ==
  ASSUME NEW x, NEW refs, \A r \in refs : r[1] \notin Childless
  PROVE  Calm(Alter(x, refs)) /\ Born(Alter(x, refs)) = {} /\ Gone(Alter(x, refs)) = {}
BY DEF Calm, Born, Gone, Alter

LEMMA CopyCalm ==
  ASSUME NEW x, NEW n
  PROVE  Calm(Copy(x, n)) /\ Born(Copy(x, n)) = {} /\ Gone(Copy(x, n)) = {}
BY DEF Calm, Born, Gone, Copy

LEMMA UniqueCalm ==
  ASSUME NEW x
  PROVE  Calm(UniquePerRun(x)) /\ Born(UniquePerRun(x)) = {} /\ Gone(UniquePerRun(x)) = {}
BY DEF Calm, Born, Gone, UniquePerRun

LEMMA RenameCalm ==
  ASSUME NEW x \in GoalTables
  PROVE  /\ Calm(Rename(x, FinalName(x))) /\ Born(Rename(x, FinalName(x))) = {FinalName(x)}
         /\ Gone(Rename(x, FinalName(x))) = {x}
<1> DEFINE s == Rename(x, FinalName(x))
<1>1. s.op = "rename" /\ s.table = x /\ s.to = FinalName(x)
  BY DEF Rename
<1> HIDE DEF s
<1> QED
  BY <1>1 DEF Calm, Born, Gone, s

LEMMA DropIfCalm ==
  ASSUME NEW x \in DROPPED_TABLE_NAMES
  PROVE  Calm(DropIfExists(x)) /\ Born(DropIfExists(x)) = {} /\ Gone(DropIfExists(x)) = {x}
<1> DEFINE s == DropIfExists(x)
<1>1. s.op = "dropIf" /\ s.table = x
  BY DEF DropIfExists
<1> HIDE DEF s
<1> QED
  BY <1>1 DEF Calm, Born, Gone, s

\* A list of CREATEs without foreign keys is a calm script.
LEMMA CreatesCalm ==
  ASSUME NEW S, NEW names \in Seq(S)
  PROVE  /\ CalmScript(Creates(names), {names[i] : i \in 1..Len(names)}, {})
         /\ Creates(names) \in Seq({Create(x, {}) : x \in S})
<1> DEFINE s == Creates(names)
<1>1. /\ s \in Seq({Create(x, {}) : x \in S}) /\ Len(s) = Len(names) /\ Len(s) \in Nat
      /\ \A i \in 1..Len(names) : s[i] = Create(names[i], {})
  BY DEF Creates
<1> HIDE DEF s
<1>2. \A i \in 1..Len(names) : Calm(s[i]) /\ Born(s[i]) = {names[i]} /\ Gone(s[i]) = {}
  BY <1>1, CreateCalm
<1> QED
  BY <1>1, <1>2 DEF CalmScript, s

HitchTables == {"hitch_sessions", "hitch_attempts", "hitch_review_cycles", "hitch_findings",
                "hitch_close_checks", "hitch_convergence_decisions"}

\* No foreign key of a migration refers to a table that another one drops.
LEMMA Parents ==
  /\ Cascade("agent_invocation")[1] \notin Childless
  /\ Cascade("courses")[1] \notin Childless
  /\ Cascade("doctor_runs")[1] \notin Childless
  /\ Cascade("goal_sessions")[1] \notin Childless
  /\ Cascade("hitch_sessions")[1] \notin Childless
  /\ Cascade("operations")[1] \notin Childless
  /\ Cascade("phases")[1] \notin Childless
  /\ Cascade("runs")[1] \notin Childless
  /\ Cascade("workspaces")[1] \notin Childless
  /\ Ref("blob_stores")[1] \notin Childless
  /\ Ref("doctor_findings")[1] \notin Childless
  /\ Ref("effective_policy_snapshots")[1] \notin Childless
  /\ Ref("knowledge_entry_revisions")[1] \notin Childless
  /\ Ref("mcp_sessions")[1] \notin Childless
  /\ Ref("policy_templates")[1] \notin Childless
  /\ Ref("project_profile_revisions")[1] \notin Childless
  /\ Ref("review_consensus")[1] \notin Childless
  /\ Ref("review_rules")[1] \notin Childless
  /\ Ref("reviewers")[1] \notin Childless
  /\ Ref("runs")[1] \notin Childless
BY DEF Cascade, Ref, Childless, Temps

\* The same for the lengths that the migrations use.
LEMMA Creates1 ==
  ASSUME NEW a
  PROVE  CalmScript(Creates(<<a>>), {a}, {}) /\ \E S : Creates(<<a>>) \in Seq(S)
<1> DEFINE names == <<a>>
           T == {a}
<1>1. names \in Seq(T) /\ {names[i] : i \in 1..Len(names)} = T
  OBVIOUS
<1> HIDE DEF names, T
<1>2. CalmScript(Creates(names), T, {}) /\ \E S : Creates(names) \in Seq(S)
  BY <1>1, CreatesCalm
<1> QED
  BY <1>2 DEF names, T

LEMMA Creates2 ==
  ASSUME NEW a, NEW b
  PROVE  CalmScript(Creates(<<a, b>>), {a, b}, {}) /\ \E S : Creates(<<a, b>>) \in Seq(S)
<1> DEFINE names == <<a, b>>
           T == {a, b}
<1>1. names \in Seq(T) /\ {names[i] : i \in 1..Len(names)} = T
  OBVIOUS
<1> HIDE DEF names, T
<1>2. CalmScript(Creates(names), T, {}) /\ \E S : Creates(names) \in Seq(S)
  BY <1>1, CreatesCalm
<1> QED
  BY <1>2 DEF names, T

LEMMA Creates3 ==
  ASSUME NEW a, NEW b, NEW c
  PROVE  /\ CalmScript(Creates(<<a, b, c>>), {a, b, c}, {})
         /\ \E S : Creates(<<a, b, c>>) \in Seq(S)
<1> DEFINE names == <<a, b, c>>
           T == {a, b, c}
<1>1. names \in Seq(T) /\ {names[i] : i \in 1..Len(names)} = T
  OBVIOUS
<1> HIDE DEF names, T
<1>2. CalmScript(Creates(names), T, {}) /\ \E S : Creates(names) \in Seq(S)
  BY <1>1, CreatesCalm
<1> QED
  BY <1>2 DEF names, T

LEMMA Creates4 ==
  ASSUME NEW a, NEW b, NEW c, NEW d
  PROVE  /\ CalmScript(Creates(<<a, b, c, d>>), {a, b, c, d}, {})
         /\ \E S : Creates(<<a, b, c, d>>) \in Seq(S)
<1> DEFINE names == <<a, b, c, d>>
           T == {a, b, c, d}
<1>1. names \in Seq(T) /\ {names[i] : i \in 1..Len(names)} = T
  OBVIOUS
<1> HIDE DEF names, T
<1>2. CalmScript(Creates(names), T, {}) /\ \E S : Creates(names) \in Seq(S)
  BY <1>1, CreatesCalm
<1> QED
  BY <1>2 DEF names, T

LEMMA Creates5 ==
  ASSUME NEW a, NEW b, NEW c, NEW d, NEW e
  PROVE  /\ CalmScript(Creates(<<a, b, c, d, e>>), {a, b, c, d, e}, {})
         /\ \E S : Creates(<<a, b, c, d, e>>) \in Seq(S)
<1> DEFINE names == <<a, b, c, d, e>>
           T == {a, b, c, d, e}
<1>1. names \in Seq(T) /\ {names[i] : i \in 1..Len(names)} = T
  OBVIOUS
<1> HIDE DEF names, T
<1>2. CalmScript(Creates(names), T, {}) /\ \E S : Creates(names) \in Seq(S)
  BY <1>1, CreatesCalm
<1> QED
  BY <1>2 DEF names, T

LEMMA Creates10 ==
  ASSUME NEW a, NEW b, NEW c, NEW d, NEW e, NEW f, NEW g, NEW h, NEW k, NEW l
  PROVE  /\ CalmScript(Creates(<<a, b, c, d, e, f, g, h, k, l>>), {a, b, c, d, e, f, g, h, k, l}, {})
         /\ \E S : Creates(<<a, b, c, d, e, f, g, h, k, l>>) \in Seq(S)
<1> DEFINE names == <<a, b, c, d, e, f, g, h, k, l>>
           T == {a, b, c, d, e, f, g, h, k, l}
<1>1. names \in Seq(T) /\ {names[i] : i \in 1..Len(names)} = T
  OBVIOUS
<1> HIDE DEF names, T
<1>2. CalmScript(Creates(names), T, {}) /\ \E S : Creates(names) \in Seq(S)
  BY <1>1, CreatesCalm
<1> QED
  BY <1>2 DEF names, T

\* A tuple is a sequence over its elements.
LEMMA Tuple1 ==
  ASSUME NEW a
  PROVE  <<a>> \in Seq({a})
OBVIOUS

LEMMA Tuple2 ==
  ASSUME NEW a, NEW b
  PROVE  <<a, b>> \in Seq({a, b})
OBVIOUS

LEMMA Tuple3 ==
  ASSUME NEW a, NEW b, NEW c
  PROVE  <<a, b, c>> \in Seq({a, b, c})
OBVIOUS

LEMMA Tuple4 ==
  ASSUME NEW a, NEW b, NEW c, NEW d
  PROVE  <<a, b, c, d>> \in Seq({a, b, c, d})
OBVIOUS

LEMMA Tuple5 ==
  ASSUME NEW a, NEW b, NEW c, NEW d, NEW e
  PROVE  <<a, b, c, d, e>> \in Seq({a, b, c, d, e})
OBVIOUS

\* The calm migrations and the tables they make or rename, one by one.
LEMMA CalmV3 == CalmScript(MIGRATION_V3_STATEMENTS, {}, {})
BY AlterCalm DEF MIGRATION_V3_STATEMENTS, CalmScript

LEMMA CalmV6 == CalmScript(MIGRATION_V6_STATEMENTS, {"run_materializations"}, {})
BY Parents, AlterCalm, CreateCalm DEF MIGRATION_V6_STATEMENTS, CalmScript

LEMMA CalmV7 ==
  CalmScript(MIGRATION_V7_STATEMENTS,
             {"reviewers", "review_rules", "run_review_rule_snapshots",
              "review_consensus", "review_overrides"}, {})
BY Parents, AlterCalm, CreateCalm DEF MIGRATION_V7_STATEMENTS, CalmScript

LEMMA CalmV8 == CalmScript(MIGRATION_V8_STATEMENTS, {"operation_events"}, {})
BY Parents, AlterCalm, CreateCalm DEF MIGRATION_V8_STATEMENTS, CalmScript

LEMMA CalmV9 ==
  CalmScript(MIGRATION_V9_STATEMENTS,
             {"project_profile_revisions", "policy_templates",
              "effective_policy_snapshots", "knowledge_entry_revisions", "asset_exports"}, {})
BY Parents, AlterCalm, CreateCalm DEF MIGRATION_V9_STATEMENTS, CalmScript

LEMMA CalmV11 ==
  CalmScript(MIGRATION_V11_STATEMENTS,
             {"blob_stores", "external_artifact_blobs", "blob_migration_jobs"}, {})
BY Parents, CreateCalm DEF MIGRATION_V11_STATEMENTS, CalmScript

LEMMA CalmV14 == CalmScript(MIGRATION_V14_STATEMENTS, {}, {})
BY AlterCalm DEF MIGRATION_V14_STATEMENTS, CalmScript

LEMMA CalmV15 == CalmScript(MIGRATION_V15_STATEMENTS, {}, {})
BY AlterCalm DEF MIGRATION_V15_STATEMENTS, CalmScript

LEMMA CalmV18 == CalmScript(MIGRATION_V18_STATEMENTS, {"workspace_checkpoints"}, {})
BY Parents, CreateCalm DEF MIGRATION_V18_STATEMENTS, CalmScript

LEMMA CalmV19 == CalmScript(MIGRATION_V19_STATEMENTS, {}, {})
BY AlterCalm DEF MIGRATION_V19_STATEMENTS, CalmScript

LEMMA CalmV21 ==
  CalmScript(MIGRATION_V21_STATEMENTS,
             {"courses", "phases", "phase_hitches"}, {})
BY Parents, CreateCalm DEF MIGRATION_V21_STATEMENTS, CalmScript

LEMMA CalmV23 == CalmScript(MIGRATION_V23_STATEMENTS, {"hitch_lifecycle_events"}, {})
BY Parents, CreateCalm DEF MIGRATION_V23_STATEMENTS, CalmScript

LEMMA CalmV24 == CalmScript(MIGRATION_V24_STATEMENTS, {}, {})
BY AlterCalm DEF MIGRATION_V24_STATEMENTS, CalmScript

LEMMA CalmV25 == CalmScript(MIGRATION_V25_STATEMENTS, {}, {})
BY AlterCalm DEF MIGRATION_V25_STATEMENTS, CalmScript

LEMMA CalmV26 == CalmScript(MIGRATION_V26_STATEMENTS, {"run_usage"}, {})
BY Parents, CreateCalm DEF MIGRATION_V26_STATEMENTS, CalmScript

LEMMA CalmV33 == CalmScript(MIGRATION_V33_STATEMENTS, {}, {})
BY AlterCalm DEF MIGRATION_V33_STATEMENTS, CalmScript

LEMMA CalmV35 == CalmScript(MIGRATION_V35_STATEMENTS, {}, {})
BY AlterCalm DEF MIGRATION_V35_STATEMENTS, CalmScript

LEMMA CalmV36 ==
  CalmScript(MIGRATION_V36_STATEMENTS,
             {"agent_invocation", "agent_usage_turn"}, {})
BY Parents, CopyCalm, CreateCalm DEF MIGRATION_V36_STATEMENTS, CalmScript

LEMMA CalmV37 == CalmScript(MIGRATION_V37_STATEMENTS, {}, {})
BY AlterCalm DEF MIGRATION_V37_STATEMENTS, CalmScript

LEMMA CalmV38 == CalmScript(MIGRATION_V38_STATEMENTS, {}, {})
BY AlterCalm DEF MIGRATION_V38_STATEMENTS, CalmScript

LEMMA CalmV39 == CalmScript(MIGRATION_V39_STATEMENTS, {"hitch_evidence"}, {})
BY Parents, CreateCalm DEF MIGRATION_V39_STATEMENTS, CalmScript

LEMMA CalmV40 == CalmScript(MIGRATION_V40_STATEMENTS, {"external_review_events"}, {})
BY Parents, CreateCalm DEF MIGRATION_V40_STATEMENTS, CalmScript

LEMMA CalmV41 == CalmScript(MIGRATION_V41_STATEMENTS, {}, {})
BY AlterCalm DEF MIGRATION_V41_STATEMENTS, CalmScript

LEMMA CalmV17 == CalmScript(MIGRATION_V17_STATEMENTS, {"workspaces"}, {})
BY Creates1 DEF MIGRATION_V17_STATEMENTS

LEMMA CalmV27 == CalmScript(MIGRATION_V27_STATEMENTS, {"metrics_snapshots"}, {})
BY Creates1 DEF MIGRATION_V27_STATEMENTS

LEMMA CalmV28 == CalmScript(MIGRATION_V28_STATEMENTS, {"domain_lock_contention"}, {})
BY Creates1 DEF MIGRATION_V28_STATEMENTS

LEMMA CalmV31 ==
  CalmScript(MIGRATION_V31_STATEMENTS,
             {"jury_classification_proposals", "jury_classification_refutations",
              "jury_severity_audits"}, {})
BY Creates3 DEF MIGRATION_V31_STATEMENTS

LEMMA CalmV32 == CalmScript(MIGRATION_V32_STATEMENTS, {"review_refute_votes"}, {})
BY Creates1 DEF MIGRATION_V32_STATEMENTS

\* The ones put together from two lists.
LEMMA CalmV1 ==
  CalmScript(MIGRATION_V1_RUN_TABLES \o MIGRATION_V1_REVIEW_TABLES, V1_TABLE_NAMES, {})
<1> DEFINE B == {"db_meta", "projects", "project_profiles", "domains", "policy_generations",
                 "runs", "run_events", "command_results", "run_changed_files",
                 "policy_violations"}
           C == {"review_decisions", "review_required_changes", "artifacts",
                 "run_context_packs", "run_context_pack_files", "backlog_items",
                 "backlog_run_links", "knowledge_candidates", "knowledge_entries",
                 "import_errors"}
<1>1. CalmScript(MIGRATION_V1_RUN_TABLES, B, {}) /\ \E S : MIGRATION_V1_RUN_TABLES \in Seq(S)
  BY Creates10 DEF MIGRATION_V1_RUN_TABLES
<1>2. CalmScript(MIGRATION_V1_REVIEW_TABLES, C, {})
      /\ \E S : MIGRATION_V1_REVIEW_TABLES \in Seq(S)
  BY Creates10 DEF MIGRATION_V1_REVIEW_TABLES
<1>3. V1_TABLE_NAMES = B \cup C
  BY DEF V1_TABLE_NAMES
<1> HIDE DEF B, C
<1>4. CalmScript(MIGRATION_V1_RUN_TABLES \o MIGRATION_V1_REVIEW_TABLES, B \cup C, {} \cup {})
  BY <1>1, <1>2, CalmThen
<1> QED
  BY <1>3, <1>4

LEMMA CalmV2 ==
  CalmScript(MIGRATION_V2_STATEMENTS,
             {"export_records", "exported_files", "operations", "pull_requests",
              "cleanup_actions"}, {})
<1> DEFINE s == <<Alter("runs", {}), Alter("backlog_items", {}),
                  Alter("knowledge_candidates", {}), Alter("knowledge_entries", {})>>
           names == <<"export_records", "exported_files", "operations", "pull_requests",
                      "cleanup_actions">>
           B == {"export_records", "exported_files", "operations", "pull_requests",
                 "cleanup_actions"}
<1>1. CalmScript(s, {}, {})
  BY AlterCalm DEF CalmScript
<1>2. \E S : s \in Seq(S)
  BY Tuple4
<1>3. CalmScript(Creates(names), B, {}) /\ \E S : Creates(names) \in Seq(S)
  BY Creates5
<1>4. MIGRATION_V2_STATEMENTS = s \o Creates(names)
  BY DEF MIGRATION_V2_STATEMENTS
<1> HIDE DEF s, names, B
<1>5. CalmScript(s \o Creates(names), {} \cup B, {} \cup {})
  BY <1>1, <1>2, <1>3, CalmThen
<1> QED
  BY <1>4, <1>5 DEF B

LEMMA CalmV5 ==
  CalmScript(MIGRATION_V5_STATEMENTS, {"domain_locks", "review_proposals"}, {})
<1> DEFINE s == <<Alter("artifacts", {}), Alter("runs", {})>>
           names == <<"domain_locks", "review_proposals">>
           B == {"domain_locks", "review_proposals"}
<1>1. CalmScript(s, {}, {})
  BY AlterCalm DEF CalmScript
<1>2. \E S : s \in Seq(S)
  BY Tuple2
<1>3. CalmScript(Creates(names), B, {}) /\ \E S : Creates(names) \in Seq(S)
  BY Creates2
<1>4. MIGRATION_V5_STATEMENTS = Creates(names) \o s
  BY DEF MIGRATION_V5_STATEMENTS
<1> HIDE DEF s, names, B
<1>5. CalmScript(Creates(names) \o s, B \cup {}, {} \cup {})
  BY <1>1, <1>2, <1>3, CalmThen
<1> QED
  BY <1>4, <1>5 DEF B

LEMMA CalmV10 ==
  CalmScript(MIGRATION_V10_STATEMENTS,
             {"doctor_runs", "doctor_findings", "repair_actions", "backup_catalog",
              "archive_catalog", "db_stats_snapshots"}, {})
<1> DEFINE s == <<Create("doctor_runs", {}),
                  Create("doctor_findings", {Cascade("doctor_runs")}),
                  Create("repair_actions", {Ref("doctor_findings")})>>
           names == <<"backup_catalog", "archive_catalog", "db_stats_snapshots">>
           A == {"doctor_runs", "doctor_findings", "repair_actions"}
           B == {"backup_catalog", "archive_catalog", "db_stats_snapshots"}
<1>1. CalmScript(s, A, {})
  BY Parents, CreateCalm DEF CalmScript
<1>2. \E S : s \in Seq(S)
  BY Tuple3
<1>3. CalmScript(Creates(names), B, {}) /\ \E S : Creates(names) \in Seq(S)
  BY Creates3
<1>4. MIGRATION_V10_STATEMENTS = s \o Creates(names)
  BY DEF MIGRATION_V10_STATEMENTS
<1>5. A \cup B = {"doctor_runs", "doctor_findings", "repair_actions", "backup_catalog",
              "archive_catalog", "db_stats_snapshots"}
  OBVIOUS
<1> HIDE DEF s, names, A, B
<1>6. CalmScript(s \o Creates(names), A \cup B, {} \cup {})
  BY <1>1, <1>2, <1>3, CalmThen
<1> QED
  BY <1>4, <1>5, <1>6

LEMMA CalmV13 ==
  CalmScript(MIGRATION_V13_STATEMENTS,
             {"mcp_confirmation_requests", "mcp_sessions", "mcp_tool_invocations"}, {})
<1> DEFINE s == <<Create("mcp_tool_invocations", {Ref("mcp_sessions")})>>
           names == <<"mcp_confirmation_requests", "mcp_sessions">>
           A == {"mcp_tool_invocations"}
           B == {"mcp_confirmation_requests", "mcp_sessions"}
<1>1. CalmScript(s, A, {})
  BY Parents, CreateCalm DEF CalmScript
<1>2. \E S : s \in Seq(S)
  BY Tuple1
<1>3. CalmScript(Creates(names), B, {}) /\ \E S : Creates(names) \in Seq(S)
  BY Creates2
<1>4. MIGRATION_V13_STATEMENTS = Creates(names) \o s
  BY DEF MIGRATION_V13_STATEMENTS
<1>5. B \cup A = {"mcp_confirmation_requests", "mcp_sessions", "mcp_tool_invocations"}
  OBVIOUS
<1> HIDE DEF s, names, A, B
<1>6. CalmScript(Creates(names) \o s, B \cup A, {} \cup {})
  BY <1>1, <1>2, <1>3, CalmThen
<1> QED
  BY <1>4, <1>5, <1>6

LEMMA CalmV16 ==
  CalmScript(MIGRATION_V16_SESSION_TABLES \o MIGRATION_V16_DECISION_TABLES, GoalTables, {})
<1> DEFINE s == MIGRATION_V16_SESSION_TABLES
           t == MIGRATION_V16_DECISION_TABLES
           A == {"goal_sessions", "goal_attempts", "goal_review_cycles", "goal_findings"}
           B == {"goal_close_checks", "goal_convergence_decisions"}
<1>1. CalmScript(s, A, {})
  BY Parents, CreateCalm DEF CalmScript, MIGRATION_V16_SESSION_TABLES
<1>2. CalmScript(t, B, {})
  BY Parents, CreateCalm DEF CalmScript, MIGRATION_V16_DECISION_TABLES
<1>3. (\E S : s \in Seq(S)) /\ (\E S : t \in Seq(S))
  BY Tuple4, Tuple2 DEF MIGRATION_V16_SESSION_TABLES, MIGRATION_V16_DECISION_TABLES
<1>4. A \cup B = GoalTables
  BY DEF GoalTables
<1> HIDE DEF s, t, A, B
<1>5. CalmScript(s \o t, A \cup B, {} \cup {})
  BY <1>1, <1>2, <1>3, CalmThen
<1> QED
  BY <1>4, <1>5 DEF s, t

LEMMA CalmV20 == CalmScript(MIGRATION_V20_STATEMENTS, HitchTables, GoalTables)
<1> DEFINE s == MIGRATION_V20_STATEMENTS
<1>1. /\ FinalName("goal_sessions") = "hitch_sessions"
      /\ FinalName("goal_attempts") = "hitch_attempts"
      /\ FinalName("goal_review_cycles") = "hitch_review_cycles"
      /\ FinalName("goal_findings") = "hitch_findings"
      /\ FinalName("goal_close_checks") = "hitch_close_checks"
      /\ FinalName("goal_convergence_decisions") = "hitch_convergence_decisions"
  BY DEF FinalName
<1>2. /\ Len(s) = 8
      /\ s[1] = Rename("goal_sessions", FinalName("goal_sessions"))
      /\ s[2] = Rename("goal_attempts", FinalName("goal_attempts"))
      /\ s[3] = Rename("goal_review_cycles", FinalName("goal_review_cycles"))
      /\ s[4] = Rename("goal_findings", FinalName("goal_findings"))
      /\ s[5] = Rename("goal_close_checks", FinalName("goal_close_checks"))
      /\ s[6] = Rename("goal_convergence_decisions", FinalName("goal_convergence_decisions"))
      /\ s[7] = Alter("workspaces", {}) /\ s[8] = Alter("workspace_checkpoints", {})
  BY <1>1 DEF MIGRATION_V20_STATEMENTS
<1>3. \A x \in {"goal_sessions", "goal_attempts", "goal_review_cycles", "goal_findings",
                "goal_close_checks", "goal_convergence_decisions"} : x \in GoalTables
  BY DEF GoalTables
<1> HIDE DEF s
<1>4. /\ \A i \in 1..8 : Calm(s[i])
      /\ \A i \in 7..8 : Born(s[i]) = {} /\ Gone(s[i]) = {}
      /\ Born(s[1]) = {"hitch_sessions"} /\ Gone(s[1]) = {"goal_sessions"}
      /\ Born(s[2]) = {"hitch_attempts"} /\ Gone(s[2]) = {"goal_attempts"}
      /\ Born(s[3]) = {"hitch_review_cycles"} /\ Gone(s[3]) = {"goal_review_cycles"}
      /\ Born(s[4]) = {"hitch_findings"} /\ Gone(s[4]) = {"goal_findings"}
      /\ Born(s[5]) = {"hitch_close_checks"} /\ Gone(s[5]) = {"goal_close_checks"}
      /\ Born(s[6]) = {"hitch_convergence_decisions"}
      /\ Gone(s[6]) = {"goal_convergence_decisions"}
  BY <1>1, <1>2, <1>3, RenameCalm, AlterCalm
<1> QED
  BY <1>2, <1>4 DEF CalmScript, HitchTables, GoalTables, s

LEMMA CalmV22 == CalmScript(MIGRATION_V22_STATEMENTS, {}, DROPPED_TABLE_NAMES)
<1>1. "db_stats_snapshots" \in DROPPED_TABLE_NAMES
      /\ \A x \in DROPPED_TABLE_NAMES : x = "db_stats_snapshots"
  BY DEF DROPPED_TABLE_NAMES
<1>2. Len(MIGRATION_V22_STATEMENTS) = 1
      /\ MIGRATION_V22_STATEMENTS[1] = DropIfExists("db_stats_snapshots")
  BY DEF MIGRATION_V22_STATEMENTS
<1> QED
  BY <1>1, <1>2, DropIfCalm DEF CalmScript

\* A migration's statements, where they succeed, lose no kept row and make
\* and take away these tables.
Keeps(s, B, G) ==
  \A db : IsDb(db) /\ Survives(db) /\ Names(db) \cap Temps = {} /\ RunStatements(db, s).ok
          => LET e == RunStatements(db, s).db
             IN  IsDb(e) /\ Survives(e) /\ Names(e) = (Names(db) \ G) \cup B

\* A calm script keeps what was kept.
LEMMA CalmKeeps ==
  ASSUME NEW s, NEW B, NEW G, CalmScript(s, B, G), B \cap G = {}
  PROVE  Keeps(s, B, G)
<1> SUFFICES ASSUME NEW db, IsDb(db), Survives(db), RunStatements(db, s).ok
             PROVE  LET e == RunStatements(db, s).db
                    IN  IsDb(e) /\ Survives(e) /\ Names(e) = (Names(db) \ G) \cup B
  BY DEF Keeps
<1> DEFINE n == Len(s)
<1>1. n \in Nat /\ 0 \in Nat /\ 0 =< n /\ 0 + 1..n = 1..n
  BY DEF CalmScript
<1>2. PICK f : Runs(f, s) /\ f[0] = db /\ f[n] = RunStatements(db, s).db
  BY <1>1, ScriptRuns
<1>3. BornIn(s, 0, n) = B /\ GoneIn(s, 0, n) = G /\ \A i \in 0 + 1..n : Calm(s[i])
  BY <1>1 DEF BornIn, GoneIn, CalmScript
<1>4. n =< Len(s) /\ Len(s) \in Nat
  BY <1>1
<1> HIDE DEF n
<1>5. /\ IsDb(f[n]) /\ Survives(f[n])
      /\ Names(f[n]) = (Names(f[0]) \ GoneIn(s, 0, n)) \cup BornIn(s, 0, n)
  BY <1>1, <1>2, <1>3, <1>4, CalmRun
<1> QED
  BY <1>2, <1>3, <1>5

\* A rebuild keeps every row and the names of the tables.
LEMMA RebuildKeeps ==
  ASSUME KeptAreTables, NEW t \in Childless \ (Temps \cup DROPPED_TABLE_NAMES),
         NEW n \in Temps, NEW refs, \A r \in refs : r[1] \notin Childless
  PROVE  Keeps(Rebuild(t, n, refs), {}, {})
<1> DEFINE s == Rebuild(t, n, refs)
<1>1. /\ Len(s) = 4 /\ s[1] = Create(n, refs) /\ s[2] = Copy(t, n) /\ s[3] = Drop(t)
      /\ s[4] = Rename(n, t)
  BY DEF Rebuild
<1> HIDE DEF s
<1> SUFFICES ASSUME NEW db, IsDb(db), Survives(db), Names(db) \cap Temps = {},
                    RunStatements(db, s).ok
             PROVE  LET e == RunStatements(db, s).db
                    IN  IsDb(e) /\ Survives(e) /\ Names(e) = (Names(db) \ {}) \cup {}
  BY DEF Keeps, s
<1>2. PICK f : Runs(f, s) /\ f[0] = db /\ f[Len(s)] = RunStatements(db, s).db
  <2>1. Len(s) \in Nat
    BY <1>1
  <2> QED
    BY <2>1, ScriptRuns
<1>3. Goes(f[0], s[1], f[1]) /\ Goes(f[1], s[2], f[2]) /\ Goes(f[2], s[3], f[3])
      /\ Goes(f[3], s[4], f[4])
  <2>1. /\ 1 \in 1..4 /\ 2 \in 1..4 /\ 3 \in 1..4 /\ 4 \in 1..4
        /\ 1 - 1 = 0 /\ 2 - 1 = 1 /\ 3 - 1 = 2 /\ 4 - 1 = 3
    OBVIOUS
  <2> QED
    BY <1>1, <1>2, <2>1 DEF Runs
<1>4. IsDb(f[4]) /\ Survives(f[4]) /\ Names(f[4]) = Names(f[0])
  BY <1>1, <1>2, <1>3, RebuildAll
<1> QED
  BY <1>1, <1>2, <1>4

\* Version 12 rebuilds the artifacts table and adds foreign keys to runs.
LEMMA V12Keeps ==
  ASSUME KeptAreTables PROVE Keeps(MIGRATION_V12_STATEMENTS, {}, {})
<1> DEFINE s == MIGRATION_V12_STATEMENTS
           fks == {Ref("project_profile_revisions"), Ref("effective_policy_snapshots")}
<1>1. /\ Len(s) = 5 /\ s[1] = Create("artifacts_v12", {})
      /\ s[2] = Copy("artifacts", "artifacts_v12") /\ s[3] = Drop("artifacts")
      /\ s[4] = Rename("artifacts_v12", "artifacts") /\ s[5] = Alter("runs", fks)
  BY DEF MIGRATION_V12_STATEMENTS
<1>2. \A r \in fks : r[1] \notin Childless
  BY Parents
<1>3. "artifacts" \in Childless \ (Temps \cup DROPPED_TABLE_NAMES) /\ "artifacts_v12" \in Temps
  BY DEF Childless, Temps, DROPPED_TABLE_NAMES
<1> HIDE DEF s, fks
<1> SUFFICES ASSUME NEW db, IsDb(db), Survives(db), Names(db) \cap Temps = {},
                    RunStatements(db, s).ok
             PROVE  LET e == RunStatements(db, s).db
                    IN  IsDb(e) /\ Survives(e) /\ Names(e) = (Names(db) \ {}) \cup {}
  BY DEF Keeps, s
<1>4. PICK f : Runs(f, s) /\ f[0] = db /\ f[Len(s)] = RunStatements(db, s).db
  <2>1. Len(s) \in Nat
    BY <1>1
  <2> QED
    BY <2>1, ScriptRuns
<1>5. /\ Goes(f[0], s[1], f[1]) /\ Goes(f[1], s[2], f[2]) /\ Goes(f[2], s[3], f[3])
      /\ Goes(f[3], s[4], f[4]) /\ Goes(f[4], s[5], f[5])
  <2>1. /\ 1 \in 1..5 /\ 2 \in 1..5 /\ 3 \in 1..5 /\ 4 \in 1..5 /\ 5 \in 1..5
        /\ 1 - 1 = 0 /\ 2 - 1 = 1 /\ 3 - 1 = 2 /\ 4 - 1 = 3 /\ 5 - 1 = 4
    OBVIOUS
  <2> QED
    BY <1>1, <1>4, <2>1 DEF Runs
<1>6. IsDb(f[4]) /\ Survives(f[4]) /\ Names(f[4]) = Names(f[0])
  <2> DEFINE none == {}
  <2>1. \A r \in none : r[1] \notin Childless
    OBVIOUS
  <2> QED
    BY <1>1, <1>3, <1>4, <1>5, <2>1, RebuildAll
<1>7. /\ RunStatement(f[4], Alter("runs", fks)).ok
      /\ f[5] = RunStatement(f[4], Alter("runs", fks)).db
  BY <1>1, <1>5 DEF Goes
<1>8. /\ Calm(Alter("runs", fks)) /\ Born(Alter("runs", fks)) = {}
      /\ Gone(Alter("runs", fks)) = {}
  BY <1>2, AlterCalm
<1>9. IsDb(f[5]) /\ Survives(f[5]) /\ Names(f[5]) = Names(f[4])
  BY <1>6, <1>7, <1>8, CalmStep
<1> QED
  BY <1>1, <1>4, <1>6, <1>9

\* Version 4 rebuilds the artifacts table and moves older pull requests.
LEMMA V4Keeps ==
  ASSUME KeptAreTables
  PROVE  Keeps(MIGRATION_V4_STATEMENTS,
               {"artifact_blobs", "artifact_blob_chunks", "pull_request_attempts"}, {})
<1> DEFINE s == MIGRATION_V4_STATEMENTS
           B == {"artifact_blobs", "artifact_blob_chunks", "pull_request_attempts"}
<1>1. /\ Len(s) = 9 /\ s[1] = Create("artifact_blobs", {})
      /\ s[2] = Create("artifact_blob_chunks", {}) /\ s[3] = Create("pull_request_attempts", {})
      /\ s[4] = Create("artifacts_v4", {}) /\ s[5] = Copy("artifacts", "artifacts_v4")
      /\ s[6] = Drop("artifacts") /\ s[7] = Rename("artifacts_v4", "artifacts")
      /\ s[8] = MoveOlder("pull_requests", "pull_request_attempts")
      /\ s[9] = UniquePerRun("pull_requests")
  <2> DEFINE names == <<"artifact_blobs", "artifact_blob_chunks", "pull_request_attempts",
                        "artifacts_v4">>
             t == <<Copy("artifacts", "artifacts_v4"), Drop("artifacts"),
                    Rename("artifacts_v4", "artifacts"),
                    MoveOlder("pull_requests", "pull_request_attempts"),
                    UniquePerRun("pull_requests")>>
             c == Creates(names)
  <2>1. Len(names) = 4 /\ \E S : c \in Seq(S)
    BY Creates4
  <2>2. \E S : t \in Seq(S)
    BY Tuple5
  <2>3. /\ Len(c) = 4 /\ c[1] = Create("artifact_blobs", {})
        /\ c[2] = Create("artifact_blob_chunks", {}) /\ c[3] = Create("pull_request_attempts", {})
        /\ c[4] = Create("artifacts_v4", {})
    BY DEF Creates
  <2>4. /\ Len(t) = 5 /\ t[1] = Copy("artifacts", "artifacts_v4") /\ t[2] = Drop("artifacts")
        /\ t[3] = Rename("artifacts_v4", "artifacts")
        /\ t[4] = MoveOlder("pull_requests", "pull_request_attempts")
        /\ t[5] = UniquePerRun("pull_requests")
    OBVIOUS
  <2>5. s = c \o t
    BY DEF MIGRATION_V4_STATEMENTS
  <2> HIDE DEF names, c, t, s
  <2>6. /\ Len(c \o t) = Len(c) + Len(t)
        /\ \A i \in 1..Len(c) : (c \o t)[i] = c[i]
        /\ \A i \in 1..Len(t) : (c \o t)[Len(c) + i] = t[i]
    BY <2>1, <2>2, Concatenated
  <2>7. /\ \A i \in 1..4 : s[i] = c[i]
        /\ \A i \in 1..5 : s[4 + i] = t[i]
        /\ Len(s) = 9
    BY <2>3, <2>4, <2>5, <2>6
  <2>8. s[5] = t[1] /\ s[6] = t[2] /\ s[7] = t[3] /\ s[8] = t[4] /\ s[9] = t[5]
    BY <2>7
  <2> QED
    BY <2>3, <2>4, <2>7, <2>8
<1>2. "artifacts" \in Childless \ (Temps \cup DROPPED_TABLE_NAMES) /\ "artifacts_v4" \in Temps
      /\ B \cap Temps = {}
  BY DEF Childless, Temps, DROPPED_TABLE_NAMES
<1> HIDE DEF s
<1> SUFFICES ASSUME NEW db, IsDb(db), Survives(db), Names(db) \cap Temps = {},
                    RunStatements(db, s).ok
             PROVE  LET e == RunStatements(db, s).db
                    IN  IsDb(e) /\ Survives(e) /\ Names(e) = (Names(db) \ {}) \cup B
  BY DEF Keeps, s
<1>3. PICK f : Runs(f, s) /\ f[0] = db /\ f[Len(s)] = RunStatements(db, s).db
  <2>1. Len(s) \in Nat
    BY <1>1
  <2> QED
    BY <2>1, ScriptRuns
<1>4. IsDb(f[3]) /\ Survives(f[3]) /\ Names(f[3]) = Names(db) \cup B
  <2>1. /\ \A i \in 1..3 : Calm(s[i]) /\ Gone(s[i]) = {}
        /\ B = UNION {Born(s[i]) : i \in 1..3}
    BY <1>1, CreateCalm
  <2>2. 0 + 1..3 = 1..3 /\ 0 \in Nat /\ 3 \in Nat /\ 0 =< 3 /\ 3 =< Len(s) /\ Len(s) \in Nat
    BY <1>1
  <2>3. BornIn(s, 0, 3) = B /\ GoneIn(s, 0, 3) = {} /\ \A i \in 0 + 1..3 : Calm(s[i])
    BY <2>1, <2>2 DEF BornIn, GoneIn
  <2> HIDE DEF B
  <2>4. /\ IsDb(f[3]) /\ Survives(f[3])
        /\ Names(f[3]) = (Names(f[0]) \ GoneIn(s, 0, 3)) \cup BornIn(s, 0, 3)
    BY <1>3, <2>2, <2>3, CalmRun
  <2> QED
    BY <1>3, <2>3, <2>4
<1>5. /\ Goes(f[3], s[4], f[4]) /\ Goes(f[4], s[5], f[5]) /\ Goes(f[5], s[6], f[6])
      /\ Goes(f[6], s[7], f[7]) /\ Goes(f[7], s[8], f[8]) /\ Goes(f[8], s[9], f[9])
  <2>1. /\ 4 \in 1..9 /\ 5 \in 1..9 /\ 6 \in 1..9 /\ 7 \in 1..9 /\ 8 \in 1..9 /\ 9 \in 1..9
        /\ 4 - 1 = 3 /\ 5 - 1 = 4 /\ 6 - 1 = 5 /\ 7 - 1 = 6 /\ 8 - 1 = 7 /\ 9 - 1 = 8
    OBVIOUS
  <2> QED
    BY <1>1, <1>3, <2>1 DEF Runs
<1>6. IsDb(f[7]) /\ Survives(f[7]) /\ Names(f[7]) = Names(f[3])
  <2> DEFINE none == {}
  <2>1. \A r \in none : r[1] \notin Childless
    OBVIOUS
  <2>2. Names(f[3]) \cap Temps = {}
    BY <1>2, <1>4
  <2> QED
    BY <1>1, <1>2, <1>4, <1>5, <2>1, <2>2, RebuildAll
<1> DEFINE move == MoveOlder("pull_requests", "pull_request_attempts")
           once == UniquePerRun("pull_requests")
<1>7. /\ RunStatement(f[7], move).ok /\ f[8] = RunStatement(f[7], move).db
      /\ RunStatement(f[8], once).ok /\ f[9] = RunStatement(f[8], once).db
  BY <1>1, <1>5 DEF Goes
<1>8. IsDb(f[8]) /\ Survives(f[8]) /\ Names(f[8]) = Names(f[7])
  <2>1. IsDb(f[7]) /\ Survives(f[7]) /\ "pull_request_attempts" \in Names(f[7])
    BY <1>4, <1>6
  <2> QED
    BY <1>7, <2>1, MoveStep
<1>9. IsDb(f[9]) /\ Survives(f[9]) /\ Names(f[9]) = Names(f[8])
  <2>1. Calm(once) /\ Born(once) = {} /\ Gone(once) = {}
    BY UniqueCalm
  <2> QED
    BY <1>7, <1>8, <2>1, CalmStep
<1> QED
  BY <1>1, <1>3, <1>4, <1>6, <1>8, <1>9

\* The tables that a version adds and takes away.
Added == <<V1_TABLE_NAMES,
  {"export_records", "exported_files", "operations", "pull_requests", "cleanup_actions"},
  {},
  {"artifact_blobs", "artifact_blob_chunks", "pull_request_attempts"},
  {"domain_locks", "review_proposals"},
  {"run_materializations"},
  {"reviewers", "review_rules", "run_review_rule_snapshots", "review_consensus",
   "review_overrides"},
  {"operation_events"},
  {"project_profile_revisions", "policy_templates", "effective_policy_snapshots",
   "knowledge_entry_revisions", "asset_exports"},
  {"doctor_runs", "doctor_findings", "repair_actions", "backup_catalog",
   "archive_catalog", "db_stats_snapshots"},
  {"blob_stores", "external_artifact_blobs", "blob_migration_jobs"},
  {},
  {"mcp_confirmation_requests", "mcp_sessions", "mcp_tool_invocations"},
  {},
  {},
  GoalTables,
  {"workspaces"},
  {"workspace_checkpoints"},
  {},
  HitchTables,
  {"courses", "phases", "phase_hitches"},
  {},
  {"hitch_lifecycle_events"},
  {},
  {},
  {"run_usage"},
  {"metrics_snapshots"},
  {"domain_lock_contention"},
  {},
  {},
  {"jury_classification_proposals", "jury_classification_refutations",
   "jury_severity_audits"},
  {"review_refute_votes"},
  {},
  {},
  {},
  {"agent_invocation", "agent_usage_turn"},
  {},
  {},
  {"hitch_evidence"},
  {"external_review_events"},
  {}>>

Removed(v) == IF v = 20 THEN GoalTables ELSE IF v = 22 THEN DROPPED_TABLE_NAMES ELSE {}


\* Every name a table ever has between two migrations.
AllNames == V1_TABLE_NAMES \cup LATER_TABLE_NAMES \cup HITCH_TABLE_NAMES \cup GoalTables

\* No new name is one of those taken away.
LEMMA TwentyAndTwentyTwo ==
  /\ HitchTables \cap GoalTables = {}
  /\ {} \cap GoalTables = {} /\ {} \cap DROPPED_TABLE_NAMES = {}
BY DEF HitchTables, GoalTables

\* What each migration of the history does to the tables and their rows.
LEMMA ScriptKeeps ==
  ASSUME KeptAreTables, NEW v \in 1..SCHEMA_VERSION
  PROVE  Keeps(MIGRATIONS[v], Added[v], Removed(v))
<1>1. Keeps(MIGRATIONS[1], Added[1], Removed(1))
  BY CalmV1, CalmKeeps DEF MIGRATIONS, Added, Removed
<1>2. Keeps(MIGRATIONS[2], Added[2], Removed(2))
  BY CalmV2, CalmKeeps DEF MIGRATIONS, Added, Removed
<1>3. Keeps(MIGRATIONS[3], Added[3], Removed(3))
  BY CalmV3, CalmKeeps DEF MIGRATIONS, Added, Removed
<1>5. Keeps(MIGRATIONS[5], Added[5], Removed(5))
  BY CalmV5, CalmKeeps DEF MIGRATIONS, Added, Removed
<1>6. Keeps(MIGRATIONS[6], Added[6], Removed(6))
  BY CalmV6, CalmKeeps DEF MIGRATIONS, Added, Removed
<1>7. Keeps(MIGRATIONS[7], Added[7], Removed(7))
  BY CalmV7, CalmKeeps DEF MIGRATIONS, Added, Removed
<1>8. Keeps(MIGRATIONS[8], Added[8], Removed(8))
  BY CalmV8, CalmKeeps DEF MIGRATIONS, Added, Removed
<1>9. Keeps(MIGRATIONS[9], Added[9], Removed(9))
  BY CalmV9, CalmKeeps DEF MIGRATIONS, Added, Removed
<1>10. Keeps(MIGRATIONS[10], Added[10], Removed(10))
  BY CalmV10, CalmKeeps DEF MIGRATIONS, Added, Removed
<1>11. Keeps(MIGRATIONS[11], Added[11], Removed(11))
  BY CalmV11, CalmKeeps DEF MIGRATIONS, Added, Removed
<1>13. Keeps(MIGRATIONS[13], Added[13], Removed(13))
  BY CalmV13, CalmKeeps DEF MIGRATIONS, Added, Removed
<1>14. Keeps(MIGRATIONS[14], Added[14], Removed(14))
  BY CalmV14, CalmKeeps DEF MIGRATIONS, Added, Removed
<1>15. Keeps(MIGRATIONS[15], Added[15], Removed(15))
  BY CalmV15, CalmKeeps DEF MIGRATIONS, Added, Removed
<1>16. Keeps(MIGRATIONS[16], Added[16], Removed(16))
  BY CalmV16, CalmKeeps DEF MIGRATIONS, Added, Removed
<1>17. Keeps(MIGRATIONS[17], Added[17], Removed(17))
  BY CalmV17, CalmKeeps DEF MIGRATIONS, Added, Removed
<1>18. Keeps(MIGRATIONS[18], Added[18], Removed(18))
  BY CalmV18, CalmKeeps DEF MIGRATIONS, Added, Removed
<1>19. Keeps(MIGRATIONS[19], Added[19], Removed(19))
  BY CalmV19, CalmKeeps DEF MIGRATIONS, Added, Removed
<1>20. Keeps(MIGRATIONS[20], Added[20], Removed(20))
  BY TwentyAndTwentyTwo, CalmV20, CalmKeeps DEF MIGRATIONS, Added, Removed
<1>21. Keeps(MIGRATIONS[21], Added[21], Removed(21))
  BY CalmV21, CalmKeeps DEF MIGRATIONS, Added, Removed
<1>22. Keeps(MIGRATIONS[22], Added[22], Removed(22))
  BY CalmV22, CalmKeeps DEF MIGRATIONS, Added, Removed
<1>23. Keeps(MIGRATIONS[23], Added[23], Removed(23))
  BY CalmV23, CalmKeeps DEF MIGRATIONS, Added, Removed
<1>24. Keeps(MIGRATIONS[24], Added[24], Removed(24))
  BY CalmV24, CalmKeeps DEF MIGRATIONS, Added, Removed
<1>25. Keeps(MIGRATIONS[25], Added[25], Removed(25))
  BY CalmV25, CalmKeeps DEF MIGRATIONS, Added, Removed
<1>26. Keeps(MIGRATIONS[26], Added[26], Removed(26))
  BY CalmV26, CalmKeeps DEF MIGRATIONS, Added, Removed
<1>27. Keeps(MIGRATIONS[27], Added[27], Removed(27))
  BY CalmV27, CalmKeeps DEF MIGRATIONS, Added, Removed
<1>28. Keeps(MIGRATIONS[28], Added[28], Removed(28))
  BY CalmV28, CalmKeeps DEF MIGRATIONS, Added, Removed
<1>31. Keeps(MIGRATIONS[31], Added[31], Removed(31))
  BY CalmV31, CalmKeeps DEF MIGRATIONS, Added, Removed
<1>32. Keeps(MIGRATIONS[32], Added[32], Removed(32))
  BY CalmV32, CalmKeeps DEF MIGRATIONS, Added, Removed
<1>33. Keeps(MIGRATIONS[33], Added[33], Removed(33))
  BY CalmV33, CalmKeeps DEF MIGRATIONS, Added, Removed
<1>35. Keeps(MIGRATIONS[35], Added[35], Removed(35))
  BY CalmV35, CalmKeeps DEF MIGRATIONS, Added, Removed
<1>36. Keeps(MIGRATIONS[36], Added[36], Removed(36))
  BY CalmV36, CalmKeeps DEF MIGRATIONS, Added, Removed
<1>37. Keeps(MIGRATIONS[37], Added[37], Removed(37))
  BY CalmV37, CalmKeeps DEF MIGRATIONS, Added, Removed
<1>38. Keeps(MIGRATIONS[38], Added[38], Removed(38))
  BY CalmV38, CalmKeeps DEF MIGRATIONS, Added, Removed
<1>39. Keeps(MIGRATIONS[39], Added[39], Removed(39))
  BY CalmV39, CalmKeeps DEF MIGRATIONS, Added, Removed
<1>40. Keeps(MIGRATIONS[40], Added[40], Removed(40))
  BY CalmV40, CalmKeeps DEF MIGRATIONS, Added, Removed
<1>41. Keeps(MIGRATIONS[41], Added[41], Removed(41))
  BY CalmV41, CalmKeeps DEF MIGRATIONS, Added, Removed
<1>4. Keeps(MIGRATIONS[4], Added[4], Removed(4))
  BY V4Keeps DEF MIGRATIONS, Added, Removed
<1>12. Keeps(MIGRATIONS[12], Added[12], Removed(12))
  BY V12Keeps DEF MIGRATIONS, Added, Removed
<1>29. Keeps(MIGRATIONS[29], Added[29], Removed(29))
  <2>1. "hitch_lifecycle_events" \in Childless \ (Temps \cup DROPPED_TABLE_NAMES)
        /\ "hitch_lifecycle_events_v29" \in Temps
    BY DEF Childless, Temps, DROPPED_TABLE_NAMES
  <2>2. Keeps(MIGRATION_V29_STATEMENTS, {}, {})
    BY <2>1, Parents, RebuildKeeps DEF MIGRATION_V29_STATEMENTS
  <2> QED
    BY <2>2 DEF MIGRATIONS, Added, Removed
<1>30. Keeps(MIGRATIONS[30], Added[30], Removed(30))
  <2>1. "run_usage" \in Childless \ (Temps \cup DROPPED_TABLE_NAMES)
        /\ "run_usage_v30" \in Temps
    BY DEF Childless, Temps, DROPPED_TABLE_NAMES
  <2>2. Keeps(MIGRATION_V30_STATEMENTS, {}, {})
    BY <2>1, Parents, RebuildKeeps DEF MIGRATION_V30_STATEMENTS
  <2> QED
    BY <2>2 DEF MIGRATIONS, Added, Removed
<1>34. Keeps(MIGRATIONS[34], Added[34], Removed(34))
  <2>1. "hitch_lifecycle_events" \in Childless \ (Temps \cup DROPPED_TABLE_NAMES)
        /\ "hitch_lifecycle_events_v34" \in Temps
    BY DEF Childless, Temps, DROPPED_TABLE_NAMES
  <2>2. Keeps(MIGRATION_V34_STATEMENTS, {}, {})
    BY <2>1, Parents, RebuildKeeps DEF MIGRATION_V34_STATEMENTS
  <2> QED
    BY <2>2 DEF MIGRATIONS, Added, Removed
<1> QED
  BY <1>1, <1>2, <1>3, <1>4, <1>5, <1>6, <1>7, <1>8, <1>9, <1>10, <1>11, <1>12, <1>13,
     <1>14, <1>15, <1>16, <1>17, <1>18, <1>19, <1>20, <1>21, <1>22, <1>23, <1>24, <1>25,
     <1>26, <1>27, <1>28, <1>29, <1>30, <1>31, <1>32, <1>33, <1>34, <1>35, <1>36, <1>37,
     <1>38, <1>39, <1>40, <1>41 DEF SCHEMA_VERSION

\* Goal tables are made before version 20, dropped ones before version 22.
LEMMA AddedWhen ==
  ASSUME NEW v \in 1..SCHEMA_VERSION
  PROVE  /\ Added[v] \subseteq AllNames
         /\ v >= 20 => Added[v] \cap GoalTables = {}
         /\ v >= 22 => Added[v] \cap DROPPED_TABLE_NAMES = {}
BY DEF Added, AllNames, SCHEMA_VERSION, V1_TABLE_NAMES, LATER_TABLE_NAMES,
   HITCH_TABLE_NAMES, HitchTables, GoalTables, DROPPED_TABLE_NAMES

\* Every name is one that some migration adds.
LEMMA AllAdded == AllNames \subseteq UNION {Added[v] : v \in 1..SCHEMA_VERSION}
<1>1. V1_TABLE_NAMES = Added[1]
  BY DEF Added
<1>2. LATER_TABLE_NAMES \subseteq Added[2] \cup Added[4] \cup Added[5] \cup Added[6] \cup Added[7]
        \cup Added[8] \cup Added[9] \cup Added[10] \cup Added[11] \cup Added[13]
  BY DEF Added, LATER_TABLE_NAMES
<1>3. HITCH_TABLE_NAMES \subseteq Added[17] \cup Added[18] \cup Added[20] \cup Added[21]
        \cup Added[23] \cup Added[26] \cup Added[27] \cup Added[28] \cup Added[31]
        \cup Added[32] \cup Added[36] \cup Added[39] \cup Added[40]
  BY DEF Added, HITCH_TABLE_NAMES, HitchTables
<1>4. GoalTables = Added[16]
  BY DEF Added
<1>5. \A v \in 1..41 : Added[v] \subseteq UNION {Added[w] : w \in 1..SCHEMA_VERSION}
  BY DEF SCHEMA_VERSION
<1> QED
  BY <1>1, <1>2, <1>3, <1>4, <1>5 DEF AllNames

\* The tables of a database that went through our versions up to n.
NamesAfter(n) ==
  {x \in UNION {Added[v] : v \in 1..n} : /\ x \in GoalTables => n < 20
                                         /\ x \in DROPPED_TABLE_NAMES => n < 22}

\* Between two migrations no half-made replacement is left.
LEMMA NamesOnTheWay ==
  ASSUME NEW n \in 0..SCHEMA_VERSION
  PROVE  NamesAfter(n) \cap Temps = {}
<1>1. AllNames \cap Temps = {}
  BY DEF AllNames, Temps, V1_TABLE_NAMES, LATER_TABLE_NAMES, HITCH_TABLE_NAMES, GoalTables
<1>2. \A v \in 1..n : v \in 1..SCHEMA_VERSION
  BY DEF SCHEMA_VERSION
<1> QED
  BY <1>1, <1>2, AddedWhen DEF NamesAfter

\* A migration takes the tables of one version to those of the next.
LEMMA NamesStep ==
  ASSUME NEW n \in 0..SCHEMA_VERSION - 1
  PROVE  (NamesAfter(n) \ Removed(n + 1)) \cup Added[n + 1] = NamesAfter(n + 1)
<1> DEFINE v == n + 1
           Old == UNION {Added[w] : w \in 1..n}
           New == UNION {Added[w] : w \in 1..v}
<1>1. n \in Nat /\ v \in 1..SCHEMA_VERSION /\ 1..v = 1..n \cup {v}
  BY DEF SCHEMA_VERSION
<1>2. New = Old \cup Added[v]
  BY <1>1
<1>3. /\ n < 20 <=> (v < 20 \/ v = 20)
      /\ n < 22 <=> (v < 22 \/ v = 22)
      /\ v < 20 \/ v >= 20
      /\ v < 22 \/ v >= 22
  BY <1>1
<1>4. /\ v >= 20 => Added[v] \cap GoalTables = {}
      /\ v >= 22 => Added[v] \cap DROPPED_TABLE_NAMES = {}
  BY <1>1, AddedWhen
<1>5. /\ GoalTables \cap DROPPED_TABLE_NAMES = {}
      /\ ~(22 < 20) /\ 20 < 22 /\ ~(20 < 20) /\ ~(22 < 22)
  BY DEF GoalTables, DROPPED_TABLE_NAMES
<1>6. /\ NamesAfter(n) = {x \in Old : /\ x \in GoalTables => n < 20
                                      /\ x \in DROPPED_TABLE_NAMES => n < 22}
      /\ NamesAfter(v) = {x \in New : /\ x \in GoalTables => v < 20
                                      /\ x \in DROPPED_TABLE_NAMES => v < 22}
  BY DEF NamesAfter
<1> HIDE DEF v, Old, New
<1>7. NamesAfter(v) = (NamesAfter(n) \ Removed(v)) \cup Added[v]
  <2>1. CASE v = 20
    BY <1>2, <1>3, <1>4, <1>5, <1>6, <2>1 DEF Removed
  <2>2. CASE v = 22
    BY <1>2, <1>3, <1>4, <1>5, <1>6, <2>2 DEF Removed
  <2>3. CASE v # 20 /\ v # 22
    BY <1>2, <1>3, <1>4, <1>5, <1>6, <2>3 DEF Removed
  <2> QED
    BY <2>1, <2>2, <2>3
<1> QED
  BY <1>7 DEF v

\* After the last one there are the tables that db stats lists.
LEMMA NamesAtLast == NamesAfter(SCHEMA_VERSION) = CURRENT_TABLE_NAMES
<1>1. UNION {Added[v] : v \in 1..SCHEMA_VERSION} = AllNames
  BY AllAdded, AddedWhen
<1>2. ~(SCHEMA_VERSION < 20) /\ ~(SCHEMA_VERSION < 22)
  BY DEF SCHEMA_VERSION
<1>3. NamesAfter(SCHEMA_VERSION) = (AllNames \ GoalTables) \ DROPPED_TABLE_NAMES
  BY <1>1, <1>2 DEF NamesAfter
<1>4. GoalTables \cap (V1_TABLE_NAMES \cup LATER_TABLE_NAMES \cup HITCH_TABLE_NAMES) = {}
  BY DEF GoalTables, V1_TABLE_NAMES, LATER_TABLE_NAMES, HITCH_TABLE_NAMES
<1> QED
  BY <1>3, <1>4 DEF CURRENT_TABLE_NAMES, AllNames

\* The versions applied: our migrations up to n, then other branches' up to m.
History(n, m) ==
  /\ n =< m
  /\ applied = {<<v, Name(v)>> : v \in 1..n} \cup {<<v, ForeignName(v)>> : v \in n + 1..m}
  /\ Names(tables) = NamesAfter(n)
  /\ \A p \in Migrators : mig[p].pc = "loop" =>
       m = n /\ mig[p].next \in 1..n + 1 /\ mig[p].knows \in Builds

\* Where a migration call may stand.
MigrationCalls == [pc: {"idle", "loop", "done", "failed", "dead"}, next: Nat, knows: Nat]

\* The shape of the calls.
MigrationType == mig \in [Migrators -> MigrationCalls]

\* The inductive invariant: rows kept so far survive, and the tables are those
\* of the versions in the history.
SchemaInv ==
  /\ MigrationType
  /\ IsDb(tables) /\ Survives(tables) /\ KeptAreTables
  /\ \E n \in 0..SCHEMA_VERSION : \E m \in Nat : History(n, m)

\* The newest of the versions up to m is m.
LEMMA MaxUpTo ==
  ASSUME NEW m \in Nat, m # 0
  PROVE  Max(1..m) = m
<1>1. m \in 1..m /\ \A y \in 1..m : m >= y
  OBVIOUS
<1>2. \A x \in 1..m : (\A y \in 1..m : x >= y) => x = m
  BY <1>1
<1> QED
  BY <1>1, <1>2 DEF Max

\* What the history says of the versions that are read.
LEMMA HistoryVersions ==
  ASSUME NEW n \in 0..SCHEMA_VERSION, NEW m \in Nat, History(n, m)
  PROVE  Versions = 1..m /\ currentSchemaVersion = m
<1>1. n \in Nat /\ n =< m
  BY DEF History, SCHEMA_VERSION
<1>2. Versions = (1..n) \cup (n + 1..m)
  <2> DEFINE A == {<<v, Name(v)>> : v \in 1..n}
             B == {<<v, ForeignName(v)>> : v \in n + 1..m}
  <2>1. applied = A \cup B
    BY DEF History
  <2>2. {a[1] : a \in A} = 1..n
    <3>1. \A a \in A : a[1] \in 1..n
      OBVIOUS
    <3>2. \A v \in 1..n : <<v, Name(v)>> \in A /\ <<v, Name(v)>>[1] = v
      OBVIOUS
    <3> HIDE DEF A
    <3> QED
      BY <3>1, <3>2
  <2>3. {a[1] : a \in B} = n + 1..m
    <3>1. \A a \in B : a[1] \in n + 1..m
      OBVIOUS
    <3>2. \A v \in n + 1..m : <<v, ForeignName(v)>> \in B /\ <<v, ForeignName(v)>>[1] = v
      OBVIOUS
    <3> HIDE DEF B
    <3> QED
      BY <3>1, <3>2
  <2> HIDE DEF A, B
  <2> QED
    BY <2>1, <2>2, <2>3 DEF Versions
<1>3. Versions = 1..m
  BY <1>1, <1>2
<1>4. CASE m = 0
  BY <1>3, <1>4 DEF currentSchemaVersion
<1>5. CASE m # 0
  <2>1. 1 \in 1..m
    BY <1>5
  <2> QED
    BY <1>3, <1>5, <2>1, MaxUpTo DEF currentSchemaVersion
<1> QED
  BY <1>3, <1>4, <1>5

\* The two builds name a version differently.
LEMMA NameDiffers == \A v, w : Name(v) # ForeignName(w)
BY DEF Name, ForeignName

\* A call gets past its checks only on a history without another branch's version.
LEMMA ChecksPassed ==
  ASSUME NEW n \in 0..SCHEMA_VERSION, NEW m \in Nat, History(n, m), NEW k \in Builds,
         assertSchemaCompatibleForMigrate(k), assertMigrationNameIntegrity(k)
  PROVE  m = n
<1>1. n \in Nat /\ n =< m /\ m =< k /\ k \in Nat
  <2>1. currentSchemaVersion = m
    BY HistoryVersions
  <2>2. n \in Nat /\ n =< m /\ k \in Nat
    BY SchemaAssumption DEF History, SCHEMA_VERSION
  <2> QED
    BY <2>1, <2>2 DEF assertSchemaCompatibleForMigrate
<1>2. ASSUME m # n PROVE FALSE
  <2>1. m \in n + 1..m
    BY <1>1, <1>2
  <2>2. <<m, ForeignName(m)>> \in applied
    BY <2>1 DEF History
  <2>3. ForeignName(m) = Name(m)
    BY <1>1, <2>2 DEF assertMigrationNameIntegrity
  <2> QED
    BY <2>3, NameDiffers
<1> QED
  BY <1>2

\* The invariant holds at the start and under every action.
LEMMA SchemaInvInit == SchemaInit => SchemaInv
<1> SUFFICES ASSUME SchemaInit PROVE SchemaInv
  OBVIOUS
<1>1. MigrationType /\ IsDb(tables) /\ Survives(tables) /\ KeptAreTables
  BY DEF SchemaInit, MigrationType, MigrationCalls, IsDb, Survives, KeptAreTables
<1>2. History(0, 0)
  <2>1. 1..0 = {} /\ 0 + 1..0 = {} /\ \A p \in Migrators : mig[p].pc # "loop"
    BY DEF SchemaInit
  <2>2. NamesAfter(0) = {} /\ Names(tables) = {} /\ applied = {}
    BY <2>1 DEF NamesAfter, SchemaInit, Names
  <2> QED
    BY <2>1, <2>2 DEF History
<1>3. 0 \in 0..SCHEMA_VERSION
  BY DEF SCHEMA_VERSION
<1> QED
  BY <1>1, <1>2, <1>3 DEF SchemaInv

\* A call may stand here whatever the history is.
Fits(x) ==
  /\ x \in MigrationCalls
  /\ \A n \in 0..SCHEMA_VERSION : \A m \in Nat :
       History(n, m) /\ x.pc = "loop" => m = n /\ x.next \in 1..n + 1 /\ x.knows \in Builds

\* A step that moves one call and nothing else.
LEMMA LeavesHistory ==
  ASSUME SchemaInv, NEW p \in Migrators, NEW x, Fits(x), mig' = [mig EXCEPT ![p] = x],
         UNCHANGED <<tables, applied, kept>>
  PROVE  SchemaInv'
<1>1. MigrationType'
  BY DEF SchemaInv, MigrationType, Fits
<1>2. IsDb(tables)' /\ Survives(tables)' /\ KeptAreTables'
  <2>1. IsDb(tables) /\ Survives(tables) /\ KeptAreTables
    BY DEF SchemaInv
  <2> QED
    BY <2>1 DEF IsDb, IsTable, Survives, Rows, KeptAreTables
<1>3. PICK n \in 0..SCHEMA_VERSION, m \in Nat : History(n, m)
  BY DEF SchemaInv
<1>4. History(n, m)'
  <2>1. ASSUME NEW q \in Migrators, mig'[q].pc = "loop"
        PROVE  m = n /\ mig'[q].next \in 1..n + 1 /\ mig'[q].knows \in Builds
    <3>1. mig \in [Migrators -> MigrationCalls]
      BY DEF SchemaInv, MigrationType
    <3>2. CASE q = p
      BY <1>3, <2>1, <3>1, <3>2 DEF Fits
    <3>3. CASE q # p
      BY <1>3, <2>1, <3>1, <3>3 DEF History
    <3> QED
      BY <3>2, <3>3
  <2> QED
    BY <1>3, <2>1 DEF History, Names, NamesAfter
<1>5. 0..SCHEMA_VERSION = (0..SCHEMA_VERSION)'
  BY DEF SCHEMA_VERSION
<1> QED
  BY <1>1, <1>2, <1>3, <1>4, <1>5 DEF SchemaInv

\* UseDatabase puts rows into every table and remembers them.
LEMMA SchemaInvUse == SchemaInv /\ UseDatabase => SchemaInv'
<1> SUFFICES ASSUME SchemaInv, UseDatabase PROVE SchemaInv'
  OBVIOUS
<1> DEFINE new(t) == IF t.name = "pull_requests" /\ currentSchemaVersion >= 4
                       THEN {2} ELSE {1, 2}
           Put(t) == [t EXCEPT !.rows = new(t)]
<1>1. /\ tables' = {Put(t) : t \in tables}
      /\ kept' = {[name |-> t.name, rows |-> t.rows] : t \in tables'}
      /\ UNCHANGED <<applied, mig, starts>>
  BY DEF UseDatabase
<1>2. ASSUME NEW t \in tables
      PROVE  Put(t).name = t.name /\ Put(t).refs = t.refs /\ IsTable(Put(t))
  <2>1. IsTable(t)
    BY DEF SchemaInv, IsDb
  <2> DEFINE rows == new(t)
  <2> HIDE DEF rows
  <2>2. [t EXCEPT !.rows = rows] = [name |-> t.name, refs |-> t.refs, rows |-> rows]
    BY <2>1, WithRows
  <2>3. Put(t) = [name |-> t.name, refs |-> t.refs, rows |-> rows]
    BY <2>2 DEF rows
  <2> QED
    BY <2>3 DEF IsTable
<1> HIDE DEF Put
<1>3. IsDb(tables)'
  BY <1>1, <1>2 DEF SchemaInv, IsDb, IsTable
<1>4. Names(tables)' = Names(tables)
  BY <1>1, <1>2 DEF Names
<1>5. Survives(tables)'
  BY <1>1 DEF Survives, Rows
<1>6. PICK n \in 0..SCHEMA_VERSION, m \in Nat : History(n, m)
  BY DEF SchemaInv
<1>7. Names(tables) \cap Temps = {}
  BY <1>6, NamesOnTheWay DEF History
<1>8. KeptAreTables'
  <2>1. \A k \in kept' : \E t \in tables' : k.name = t.name
    BY <1>1
  <2>2. \A t \in tables' : t.name \in Names(tables)'
    BY DEF Names
  <2> QED
    BY <1>4, <1>7, <2>1, <2>2 DEF KeptAreTables
<1>9. History(n, m)' /\ MigrationType'
  BY <1>1, <1>4, <1>6 DEF History, NamesAfter, SchemaInv, MigrationType
<1>10. (0..SCHEMA_VERSION)' = 0..SCHEMA_VERSION
  BY DEF SCHEMA_VERSION
<1> QED
  BY <1>3, <1>5, <1>8, <1>9, <1>10 DEF SchemaInv

\* Another branch's version comes after all others, while nobody migrates.
LEMMA SchemaInvOther == SchemaInv /\ OtherBranchMigrates => SchemaInv'
<1> SUFFICES ASSUME SchemaInv, OtherBranchMigrates PROVE SchemaInv'
  OBVIOUS
<1>1. PICK n \in 0..SCHEMA_VERSION, m \in Nat : History(n, m)
  BY DEF SchemaInv
<1>2. currentSchemaVersion = m /\ n \in Nat /\ n =< m
  <2>1. currentSchemaVersion = m
    BY <1>1, HistoryVersions
  <2>2. n \in Nat /\ n =< m
    BY <1>1 DEF History, SCHEMA_VERSION
  <2> QED
    BY <2>1, <2>2
<1>3. /\ applied' = applied \cup {<<m + 1, ForeignName(m + 1)>>}
      /\ UNCHANGED <<tables, mig, kept>> /\ \A p \in Migrators : mig[p].pc # "loop"
  BY <1>2 DEF OtherBranchMigrates
<1>4. n + 1..m + 1 = (n + 1..m) \cup {m + 1}
  BY <1>2
<1>5. applied' = {<<v, Name(v)>> : v \in 1..n}
                   \cup {<<v, ForeignName(v)>> : v \in n + 1..m + 1}
  <2> DEFINE I == n + 1..m
             J == n + 1..m + 1
             A == {<<v, Name(v)>> : v \in 1..n}
  <2>1. applied = A \cup {<<v, ForeignName(v)>> : v \in I}
    BY <1>1 DEF History
  <2>2. J = I \cup {m + 1}
    BY <1>4
  <2> HIDE DEF I, J, A
  <2>3. {<<v, ForeignName(v)>> : v \in J}
          = {<<v, ForeignName(v)>> : v \in I} \cup {<<m + 1, ForeignName(m + 1)>>}
    BY <2>2
  <2>4. applied' = A \cup {<<v, ForeignName(v)>> : v \in J}
    BY <1>3, <2>1, <2>3
  <2> QED
    BY <2>4 DEF A, J
<1>6. History(n, m + 1)'
  BY <1>1, <1>2, <1>3, <1>5 DEF History, Names, NamesAfter
<1>7. (MigrationType /\ IsDb(tables) /\ Survives(tables) /\ KeptAreTables)'
  <2>1. MigrationType /\ IsDb(tables) /\ Survives(tables) /\ KeptAreTables
    BY DEF SchemaInv
  <2> QED
    BY <1>3, <2>1 DEF MigrationType, IsDb, IsTable, Survives, Rows, KeptAreTables
<1>8. m + 1 \in Nat /\ (0..SCHEMA_VERSION)' = 0..SCHEMA_VERSION
  BY DEF SCHEMA_VERSION
<1> QED
  BY <1>6, <1>7, <1>8 DEF SchemaInv

\* Updating two fields of a call is putting a call in its place.
LEMMA MigPut ==
  ASSUME MigrationType, NEW p \in Migrators, NEW a, NEW b
  PROVE  /\ [mig EXCEPT ![p].next = b]
              = [mig EXCEPT ![p] = [pc |-> mig[p].pc, next |-> b, knows |-> mig[p].knows]]
         /\ [mig EXCEPT ![p].next = b, ![p].pc = a]
              = [mig EXCEPT ![p] = [pc |-> a, next |-> b, knows |-> mig[p].knows]]
         /\ [mig EXCEPT ![p].pc = a, ![p].next = b]
              = [mig EXCEPT ![p] = [pc |-> a, next |-> b, knows |-> mig[p].knows]]
<1>1. mig[p] = [pc |-> mig[p].pc, next |-> mig[p].next, knows |-> mig[p].knows]
  BY DEF MigrationType, MigrationCalls
<1> DEFINE r == mig[p]
<1>2. [r EXCEPT !.next = b] = [pc |-> r.pc, next |-> b, knows |-> r.knows]
  BY <1>1
<1>3. [[r EXCEPT !.next = b] EXCEPT !.pc = a] = [pc |-> a, next |-> b, knows |-> r.knows]
  <2> DEFINE q == [r EXCEPT !.next = b]
  <2>1. q = [pc |-> r.pc, next |-> b, knows |-> r.knows]
    BY <1>2
  <2> HIDE DEF q
  <2>2. [q EXCEPT !.pc = a] = [pc |-> a, next |-> b, knows |-> r.knows]
    BY <2>1
  <2> QED
    BY <2>2 DEF q
<1>5. [mig EXCEPT ![p].next = b] = [mig EXCEPT ![p] = [r EXCEPT !.next = b]]
  BY DEF MigrationType
<1>6. [mig EXCEPT ![p].next = b, ![p].pc = a]
        = [mig EXCEPT ![p] = [[r EXCEPT !.next = b] EXCEPT !.pc = a]]
  BY DEF MigrationType
<1>7. [mig EXCEPT ![p].pc = a, ![p].next = b]
        = [mig EXCEPT ![p] = [[r EXCEPT !.pc = a] EXCEPT !.next = b]]
  BY DEF MigrationType
<1>8. [[r EXCEPT !.pc = a] EXCEPT !.next = b] = [pc |-> a, next |-> b, knows |-> r.knows]
  <2> DEFINE q == [r EXCEPT !.pc = a]
  <2>1. q = [pc |-> a, next |-> r.next, knows |-> r.knows]
    BY <1>1
  <2> HIDE DEF q
  <2>2. [q EXCEPT !.next = b] = [pc |-> a, next |-> b, knows |-> r.knows]
    BY <2>1
  <2> QED
    BY <2>2 DEF q
<1> QED
  BY <1>2, <1>3, <1>5, <1>6, <1>7, <1>8

\* A call starts.
LEMMA SchemaInvCall ==
  ASSUME SchemaInv, NEW p \in Migrators, RunMigrations(p) PROVE SchemaInv'
<1>1. PICK k \in Builds : mig' = [mig EXCEPT ![p] =
         [pc |-> IF assertSchemaCompatibleForMigrate(k)
                      /\ assertMigrationNameIntegrity(k) THEN "loop" ELSE "failed",
          next |-> 1, knows |-> k]]
  BY DEF RunMigrations
<1> DEFINE x == [pc |-> IF assertSchemaCompatibleForMigrate(k)
                      /\ assertMigrationNameIntegrity(k) THEN "loop" ELSE "failed",
                 next |-> 1, knows |-> k]
<1>2. k \in Nat
  BY SchemaAssumption DEF SCHEMA_VERSION
<1>3. x \in MigrationCalls
  BY <1>2 DEF MigrationCalls
<1>4. ASSUME NEW n \in 0..SCHEMA_VERSION, NEW m \in Nat, History(n, m), x.pc = "loop"
      PROVE  m = n /\ x.next \in 1..n + 1 /\ x.knows \in Builds
  <2>1. assertSchemaCompatibleForMigrate(k) /\ assertMigrationNameIntegrity(k)
    BY <1>4
  <2>2. m = n
    BY <1>4, <2>1, ChecksPassed
  <2>3. 1 \in 1..n + 1
    BY DEF SCHEMA_VERSION
  <2> QED
    BY <2>2, <2>3
<1>5. UNCHANGED <<tables, applied, kept>> /\ mig' = [mig EXCEPT ![p] = x]
  BY <1>1 DEF RunMigrations
<1> HIDE DEF x
<1>6. Fits(x)
  BY <1>3, <1>4 DEF Fits
<1> QED
  BY <1>5, <1>6, LeavesHistory

\* A call ends.
LEMMA SchemaInvDone ==
  ASSUME SchemaInv, NEW p \in Migrators, MigrationsDone(p) PROVE SchemaInv'
<1> DEFINE x == [pc |-> "done", next |-> 1, knows |-> mig[p].knows]
<1>1. /\ mig[p] = [pc |-> mig[p].pc, next |-> mig[p].next, knows |-> mig[p].knows]
      /\ mig[p].knows \in Nat
  BY DEF SchemaInv, MigrationType, MigrationCalls
<1>2. mig' = [mig EXCEPT ![p] = x] /\ UNCHANGED <<tables, applied, kept>>
  <2>1. mig' = [mig EXCEPT ![p].pc = "done", ![p].next = 1]
        /\ UNCHANGED <<tables, applied, kept>>
    BY DEF MigrationsDone
  <2>2. [mig EXCEPT ![p].pc = "done", ![p].next = 1] = [mig EXCEPT ![p] = x]
    BY MigPut DEF SchemaInv
  <2> HIDE DEF x
  <2> QED
    BY <2>1, <2>2
<1>3. Fits(x)
  BY <1>1 DEF Fits, MigrationCalls
<1> HIDE DEF x
<1> QED
  BY <1>2, <1>3, LeavesHistory

\* A process dies between two transactions.
LEMMA SchemaInvDies ==
  ASSUME SchemaInv, NEW p \in Migrators, MigratorDies(p) PROVE SchemaInv'
<1> DEFINE x == [pc |-> "dead", next |-> 1, knows |-> 0]
<1>1. mig' = [mig EXCEPT ![p] = x] /\ UNCHANGED <<tables, applied, kept>>
  BY DEF MigratorDies
<1>2. Fits(x)
  BY DEF Fits, MigrationCalls
<1> HIDE DEF x
<1> QED
  BY <1>1, <1>2, LeavesHistory

\* Min is the least element.
LEMMA LeastOf ==
  ASSUME NEW S \in SUBSET Nat, NEW x \in S
  PROVE  Min(S) \in S /\ Min(S) =< x
<1>1. PICK n \in S : \A m \in S : n =< m
  BY LeastVersion
<1> QED
  BY <1>1 DEF Min

\* One version: passed over, run, or found not to work.
LEMMA SchemaInvStep ==
  ASSUME SchemaInv, NEW p \in Migrators, MigrationStep(p) PROVE SchemaInv'
<1> DEFINE v == mig[p].next
           k == mig[p].knows
<1>1. PICK n \in 0..SCHEMA_VERSION, m \in Nat : History(n, m)
  BY DEF SchemaInv
<1>2. /\ mig[p] = [pc |-> "loop", next |-> v, knows |-> k] /\ v \in Nat /\ k \in Nat
      /\ v =< k /\ k =< SCHEMA_VERSION /\ UNCHANGED <<starts, kept>> /\ mig[p].pc = "loop"
  <2>1. /\ mig[p] = [pc |-> "loop", next |-> v, knows |-> k] /\ mig[p].pc = "loop"
        /\ v \in Nat /\ k \in Nat
    BY DEF MigrationStep, SchemaInv, MigrationType, MigrationCalls
  <2>2. k \in Builds
    BY <1>1, <2>1 DEF History
  <2> QED
    BY <2>1, <2>2, SchemaAssumption DEF MigrationStep, SCHEMA_VERSION
<1>3. m = n /\ v \in 1..n + 1 /\ k \in Builds /\ n \in Nat
  BY <1>1, <1>2 DEF History, SCHEMA_VERSION
<1>4. Versions = 1..n /\ currentSchemaVersion = n
  BY <1>1, <1>3, HistoryVersions
<1>5. CASE v \in Versions
  <2> DEFINE S == {u \in v..k + 1 : u \notin Versions \/ u > k}
             y == Min(S)
             x == [pc |-> "loop", next |-> y, knows |-> k]
  <2>1. mig' = [mig EXCEPT ![p].next = y] /\ UNCHANGED <<tables, applied, kept>>
    BY <1>5 DEF MigrationStep
  <2>2. S \in SUBSET Nat /\ k + 1 \in S
    BY <1>2
  <2>3. n + 1 =< k + 1 => n + 1 \in S
    BY <1>3, <1>4, <1>5
  <2>4. y \in S /\ y =< k + 1
    <3> HIDE DEF S
    <3> QED
      BY <2>2, LeastOf
  <2>5. y =< n + 1
    <3>1. CASE n + 1 =< k + 1
      <4>1. n + 1 \in S
        BY <2>3, <3>1
      <4> HIDE DEF S
      <4> QED
        BY <2>2, <4>1, LeastOf
    <3>2. CASE ~(n + 1 =< k + 1)
      <4>1. y \in Nat
        BY <2>4, <1>2
      <4> HIDE DEF y, S
      <4> QED
        BY <1>2, <1>3, <2>4, <3>2, <4>1
    <3> QED
      BY <3>1, <3>2
  <2>6. y \in Nat /\ y >= v
    BY <1>2, <2>4
  <2>7. y \in 1..n + 1
    <3> HIDE DEF y
    <3> QED
      BY <1>3, <2>5, <2>6
  <2> HIDE DEF S, y
  <2>8. x \in MigrationCalls
    BY <1>2, <2>6 DEF MigrationCalls
  <2>9. mig' = [mig EXCEPT ![p] = x]
    <3>1. [mig EXCEPT ![p].next = y] = [mig EXCEPT ![p] = x]
      BY <1>2, MigPut DEF SchemaInv
    <3> HIDE DEF x
    <3> QED
      BY <2>1, <3>1
  <2>10. ASSUME NEW a \in 0..SCHEMA_VERSION, NEW b \in Nat, History(a, b)
         PROVE  b = a /\ x.next \in 1..a + 1 /\ x.knows \in Builds
    <3>1. b = a /\ b = n
      BY <1>2, <1>4, <2>10, HistoryVersions DEF History
    <3> QED
      BY <1>3, <2>7, <3>1
  <2> HIDE DEF x
  <2>11. Fits(x)
    BY <2>8, <2>10 DEF Fits
  <2> QED
    BY <2>1, <2>9, <2>11, LeavesHistory
<1>6. CASE v \notin Versions
  <2>1. v = n + 1 /\ v \in 1..SCHEMA_VERSION /\ n \in 0..SCHEMA_VERSION - 1
    <3>1. v \notin 1..n
      BY <1>4, <1>6
    <3> HIDE DEF v, k
    <3>2. v = n + 1
      BY <1>3, <3>1
    <3> QED
      BY <1>2, <1>3, <3>2 DEF SCHEMA_VERSION
  <2> DEFINE r == RunStatements(tables, MIGRATIONS[v])
  <2>2. /\ tables' = IF r.ok THEN r.db ELSE tables
        /\ applied' = IF r.ok THEN applied \cup {<<v, Name(v)>>} ELSE applied
        /\ mig' = [mig EXCEPT ![p].next = IF r.ok THEN v + 1 ELSE v,
                              ![p].pc = IF r.ok THEN "loop" ELSE "failed"]
    BY <1>6 DEF MigrationStep
  <2>3. /\ IsDb(tables) /\ Survives(tables) /\ KeptAreTables
        /\ Names(tables) = NamesAfter(n) /\ Names(tables) \cap Temps = {}
    BY <1>1, NamesOnTheWay DEF SchemaInv, History
  <2>4. Keeps(MIGRATIONS[v], Added[v], Removed(v))
    BY <2>1, <2>3, ScriptKeeps
  <2>5. CASE ~r.ok
    <3> DEFINE x == [pc |-> "failed", next |-> v, knows |-> k]
    <3>1. mig' = [mig EXCEPT ![p] = x] /\ UNCHANGED <<tables, applied, kept>>
      <4>1. mig' = [mig EXCEPT ![p].next = v, ![p].pc = "failed"]
            /\ tables' = tables /\ applied' = applied /\ kept' = kept
        <5> HIDE DEF r
        <5> QED
          BY <1>2, <2>2, <2>5
      <4>2. [mig EXCEPT ![p].next = v, ![p].pc = "failed"] = [mig EXCEPT ![p] = x]
        BY MigPut DEF SchemaInv
      <4> HIDE DEF x
      <4> QED
        BY <4>1, <4>2
    <3>2. Fits(x)
      BY <1>2 DEF Fits, MigrationCalls
    <3> HIDE DEF x
    <3> QED
      BY <3>1, <3>2, LeavesHistory
  <2>6. CASE r.ok
    <3>1. IsDb(r.db) /\ Survives(r.db) /\ Names(r.db) = NamesAfter(v)
      <4>1. /\ IsDb(r.db) /\ Survives(r.db)
            /\ Names(r.db) = (Names(tables) \ Removed(v)) \cup Added[v]
        BY <2>3, <2>4, <2>6 DEF Keeps
      <4> HIDE DEF r
      <4> QED
        BY <2>1, <2>3, <4>1, NamesStep
    <3> HIDE DEF r
    <3>2. /\ tables' = r.db /\ applied' = applied \cup {<<v, Name(v)>>} /\ kept' = kept
          /\ mig' = [mig EXCEPT ![p] = [pc |-> "loop", next |-> v + 1, knows |-> k]]
      <4> DEFINE x == [pc |-> "loop", next |-> v + 1, knows |-> k]
      <4>1. /\ mig' = [mig EXCEPT ![p].next = v + 1, ![p].pc = "loop"]
            /\ tables' = r.db /\ applied' = applied \cup {<<v, Name(v)>>} /\ kept' = kept
        BY <1>2, <2>2, <2>6
      <4>2. [mig EXCEPT ![p].next = v + 1, ![p].pc = "loop"] = [mig EXCEPT ![p] = x]
        BY MigPut DEF SchemaInv
      <4>3. mig' = [mig EXCEPT ![p] = x]
        <5> HIDE DEF x
        <5> QED
          BY <4>1, <4>2
      <4> QED
        BY <4>1, <4>3
    <3>3. IsDb(tables)' /\ Survives(tables)' /\ KeptAreTables' /\ Names(tables)' = NamesAfter(v)
      BY <2>3, <3>1, <3>2 DEF IsDb, IsTable, Survives, Rows, KeptAreTables, Names
    <3>4. MigrationType'
      BY <1>2, <3>2 DEF SchemaInv, MigrationType, MigrationCalls
    <3>5. /\ n + 1..n = {} /\ v + 1..v = {} /\ 1..v = 1..n \cup {v} /\ v \in Nat
      BY <1>3, <2>1
    <3>6. applied' = {<<w, Name(w)>> : w \in 1..v} \cup {<<w, ForeignName(w)>> : w \in v + 1..v}
      <4> DEFINE I == 1..n
                 J == 1..v
      <4>1. applied = {<<w, Name(w)>> : w \in I}
        BY <1>1, <1>3, <3>5 DEF History
      <4>2. J = I \cup {v}
        BY <3>5
      <4> HIDE DEF I, J, v
      <4>3. {<<w, Name(w)>> : w \in J} = {<<w, Name(w)>> : w \in I} \cup {<<v, Name(v)>>}
        BY <4>2
      <4>4. applied' = {<<w, Name(w)>> : w \in J}
        BY <3>2, <4>1, <4>3
      <4> QED
        BY <3>5, <4>4 DEF J
    <3>7. ASSUME NEW q \in Migrators, mig'[q].pc = "loop"
          PROVE  v = v /\ mig'[q].next \in 1..v + 1 /\ mig'[q].knows \in Builds
      <4>1. CASE q = p
        <5>1. mig'[q] = [pc |-> "loop", next |-> v + 1, knows |-> k]
          BY <3>2, <4>1 DEF SchemaInv, MigrationType
        <5> QED
          BY <1>3, <3>5, <5>1
      <4>2. CASE q # p
        <5>1. mig'[q] = mig[q]
          BY <3>2, <4>2 DEF SchemaInv, MigrationType
        <5>2. mig[q].next \in 1..n + 1 /\ mig[q].knows \in Builds
          BY <1>1, <3>7, <5>1 DEF History
        <5> QED
          BY <1>3, <2>1, <5>1, <5>2
      <4> QED
        BY <4>1, <4>2
    <3>8. \E a \in 0..SCHEMA_VERSION : History(a, a)'
      <4> DEFINE a == n + 1
      <4>1. /\ v = a /\ a =< a /\ a \in 0..SCHEMA_VERSION
            /\ applied' = {<<w, Name(w)>> : w \in 1..a}
                             \cup {<<w, ForeignName(w)>> : w \in a + 1..a}
            /\ Names(tables)' = NamesAfter(a)
        BY <2>1, <3>3, <3>5, <3>6 DEF SCHEMA_VERSION
      <4>2. \A q \in Migrators : mig'[q].pc = "loop" =>
               mig'[q].next \in 1..a + 1 /\ mig'[q].knows \in Builds
        BY <3>7, <4>1
      <4>3. a' = a /\ NamesAfter(a)' = NamesAfter(a)
        BY DEF NamesAfter
      <4> HIDE DEF a
      <4>4. History(a, a)'
        BY <4>1, <4>2, <4>3 DEF History
      <4> QED
        BY <4>1, <4>4
    <3>9. \A a \in 0..SCHEMA_VERSION : a \in Nat
      BY DEF SCHEMA_VERSION
    <3>10. (0..SCHEMA_VERSION)' = 0..SCHEMA_VERSION
      BY DEF SCHEMA_VERSION
    <3> QED
      BY <3>3, <3>4, <3>8, <3>9, <3>10 DEF SchemaInv
  <2> QED
    BY <2>5, <2>6
<1> QED
  BY <1>5, <1>6

LEMMA SchemaInvNext == SchemaInv /\ [SchemaNext]_schemaVars => SchemaInv'
<1> SUFFICES ASSUME SchemaInv, [SchemaNext]_schemaVars PROVE SchemaInv'
  OBVIOUS
<1>1. CASE \E p \in Migrators : RunMigrations(p)
  BY <1>1, SchemaInvCall
<1>2. CASE \E p \in Migrators : MigrationStep(p)
  BY <1>2, SchemaInvStep
<1>3. CASE \E p \in Migrators : MigrationsDone(p)
  BY <1>3, SchemaInvDone
<1>4. CASE \E p \in Migrators : MigratorDies(p)
  BY <1>4, SchemaInvDies
<1>5. CASE UseDatabase
  BY <1>5, SchemaInvUse
<1>6. CASE OtherBranchMigrates
  BY <1>6, SchemaInvOther
<1>7. CASE UNCHANGED schemaVars
  <2>1. /\ tables' = tables /\ applied' = applied /\ mig' = mig /\ kept' = kept
        /\ (0..SCHEMA_VERSION)' = 0..SCHEMA_VERSION
    BY <1>7 DEF schemaVars, SCHEMA_VERSION
  <2> QED
    BY <2>1 DEF SchemaInv, MigrationType, IsDb, IsTable, Survives, Rows, KeptAreTables,
       History, Names, NamesAfter
<1> QED
  BY <1>1, <1>2, <1>3, <1>4, <1>5, <1>6, <1>7 DEF SchemaNext

\* The invariant holds in every state of the schema's specification.
LEMMA SchemaInvariant == SchemaSpec => []SchemaInv
BY SchemaInvInit, SchemaInvNext, PTL DEF SchemaSpec

\* Whoever migrates a database from whichever version it was used at, with any
\* number of processes, killed anywhere, no row is lost on the way to the
\* latest schema, and a database with all versions has the tables that db
\* stats lists (runMigrations, the rebuilds under foreign_keys = ON).
THEOREM MigrationsLoseNothing == SchemaSpec => []MigrationsKeepRows
<1>1. SchemaInv => RowsSurviveMigration
  BY DEF SchemaInv, Survives, RowsSurviveMigration
<1>2. SchemaInv => LatestHasItsTables
  <2> SUFFICES ASSUME SchemaInv, \A v \in 1..SCHEMA_VERSION : <<v, Name(v)>> \in applied
               PROVE  Names(tables) = CURRENT_TABLE_NAMES
    BY DEF LatestHasItsTables
  <2>1. PICK n \in 0..SCHEMA_VERSION, m \in Nat : History(n, m)
    BY DEF SchemaInv
  <2> DEFINE w == SCHEMA_VERSION
  <2>2. w \in 1..SCHEMA_VERSION
    BY DEF SCHEMA_VERSION
  <2>3. <<w, Name(w)>> \in applied
    BY <2>2
  <2>4. w \in 1..n
    <3> HIDE DEF w
    <3>1. CASE \E v \in 1..n : <<w, Name(w)>> = <<v, Name(v)>>
      BY <3>1
    <3>2. CASE \E v \in n + 1..m : <<w, Name(w)>> = <<v, ForeignName(v)>>
      BY <3>2, NameDiffers
    <3> QED
      BY <2>1, <2>3, <3>1, <3>2 DEF History
  <2>5. n = SCHEMA_VERSION
    BY <2>4 DEF SCHEMA_VERSION
  <2> QED
    BY <2>1, <2>5, NamesAtLast DEF History
<1> QED
  BY <1>1, <1>2, SchemaInvariant, PTL DEF MigrationsKeepRows

=============================================================================
