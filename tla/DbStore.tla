-------------------------------- MODULE DbStore --------------------------------
(***************************************************************************)
(* The database file, its write-ahead log, the maintenance lock that keeps *)
(* commands and maintenance apart, and backup, restore, checkpoint and     *)
(* vacuum (db/maintenance-lock.ts, db/managed-connection.ts,               *)
(* db/connection.ts, db/maintenance.ts and the commands under cli/db).     *)
(*                                                                         *)
(* The content of a database is the set of its commits.  A file is an      *)
(* inode with a content; the log belongs to the inode it was written for,  *)
(* but SQLite finds it by name: a log next to another inode is replayed    *)
(* into it and leaves neither content ("mixed").                           *)
(***************************************************************************)
EXTENDS Naturals, FiniteSets

CONSTANTS Users,            \* processes running ordinary commands
          Operators,        \* processes running `harness db ...`
          Backups,          \* paths backups are written to
          MaxCommits,       \* bound: commits by the users
          MaxRestores,      \* bound: replaced database files
          MaxDeaths         \* bound: processes killed

Procs == Users \union Operators
NoWal == [inode |-> 0, content |-> {}]
Mixed == {0}                \* pages of two databases in one file

VARIABLES flock,            \* [Procs -> lock mode held on db.lock]
          proc,             \* [Procs -> [pc, job, arg]]
          main,             \* harness.sqlite: [inode, content]
          wal,              \* harness.sqlite-wal: [inode, content] or NoWal
          backup,           \* [Backups -> {} or {content}]
          tmp,              \* [Operators -> {} or {content}]: <db>.restore-<pid>
          opened,           \* [Procs -> inode of the open handle, 0 for none]
          truth,            \* history: what the database should hold
          bounds            \* [commits, inodes, deaths, interrupted] so far

storeVars == <<flock, proc, main, wal, backup, tmp, opened, truth, bounds>>

Idle == [pc |-> "idle", job |-> "none", arg |-> "none"]

StoreInit ==
    /\ flock = [p \in Procs |-> "none"]
    /\ proc = [p \in Procs |-> Idle]
    /\ main = [inode |-> 1, content |-> {}]
    /\ wal = NoWal
    /\ backup = [b \in Backups |-> {}]
    /\ tmp = [p \in Operators |-> {}]
    /\ opened = [p \in Procs |-> 0]
    /\ truth = {}
    /\ bounds = [commits |-> 0, inodes |-> 1, deaths |-> 0, interrupted |-> FALSE]

\* What a connection opened now reads.
View == IF wal = NoWal THEN main.content
        ELSE IF wal.inode = main.inode /\ main.content # Mixed
        THEN main.content \union wal.content ELSE Mixed

(***************************************************************************)
(* The maintenance lock: flock, shared or exclusive, dropped by the kernel *)
(* when the process ends.                                                  *)
(***************************************************************************)
ModeOf(job) == CASE job \in {"command", "backup", "stats"} -> "shared"
                 [] job \in {"restore", "checkpoint", "vacuum"} -> "exclusive"
                 [] job = "status" -> "none"

Compatible(p, mode) ==
    \A q \in Procs \ {p} : \/ flock[q] = "none" \/ mode = "none"
                           \/ flock[q] = "shared" /\ mode = "shared"

Goto(p, pc) == proc' = [proc EXCEPT ![p].pc = pc]
End(p) == /\ proc' = [proc EXCEPT ![p] = Idle]
          /\ flock' = [flock EXCEPT ![p] = "none"]

files == <<main, wal, backup, tmp>>

\* A process starts a job; acquire polls until the lock is free.
StartJob(p) ==
    /\ proc[p] = Idle
    /\ \E job \in IF p \in Users THEN {"command"}
                  ELSE {"backup", "stats", "restore", "checkpoint", "vacuum", "status"},
          arg \in Backups :
         proc' = [proc EXCEPT ![p] = [pc |-> "acquire", job |-> job, arg |-> arg]]
    /\ UNCHANGED <<flock, files, opened, truth, bounds>>

acquire(p) ==
    /\ proc[p].pc = "acquire"
    /\ Compatible(p, ModeOf(proc[p].job))
    /\ flock' = [flock EXCEPT ![p] = ModeOf(proc[p].job)]
    /\ Goto(p, IF proc[p].job = "restore" THEN "copy" ELSE "open")
    /\ UNCHANGED <<files, opened, truth, bounds>>

\* The deadline passes: MaintenanceLockBusyError.
acquireTimedOut(p) ==
    /\ proc[p].pc = "acquire" /\ ~Compatible(p, ModeOf(proc[p].job))
    /\ End(p)
    /\ UNCHANGED <<files, opened, truth, bounds>>

(***************************************************************************)
(* Connections.  The last writable one to close moves the log into the     *)
(* file and removes it; a process that dies leaves the log behind.         *)
(***************************************************************************)
OpenDb(p) ==
    /\ proc[p].pc = "open"
    \* a backup target that exists is refused before the database is opened
    /\ IF proc[p].job = "backup" /\ backup[proc[p].arg] # {}
         THEN End(p) /\ UNCHANGED opened
         ELSE Goto(p, "work") /\ opened' = [opened EXCEPT ![p] = main.inode]
              /\ UNCHANGED flock
    /\ UNCHANGED <<files, truth, bounds>>

\* The file and its log as the last connection to them leaves them.
Checkpointed == [main EXCEPT !.content = View]
LastOn(p) == \A q \in Procs \ {p} : opened[q] # opened[p]

CloseDb(p) ==
    /\ proc[p].pc = "close"
    /\ opened' = [opened EXCEPT ![p] = 0]
    /\ End(p)
    /\ IF LastOn(p) /\ opened[p] = main.inode /\ proc[p].job \notin {"status", "stats"}
         THEN main' = Checkpointed /\ wal' = NoWal
         ELSE UNCHANGED <<main, wal>>
    /\ UNCHANGED <<backup, tmp, truth, bounds>>

\* A transaction commits: a frame in the log of the inode the handle is on.
\* A handle on a replaced file writes to files nobody finds any more.
Commit(p) ==
    /\ proc[p].pc = "work" /\ proc[p].job = "command"
    /\ bounds.commits < MaxCommits
    /\ \E c \in {bounds.commits + 1} :
         /\ bounds' = [bounds EXCEPT !.commits = c]
         /\ truth' = truth \union {c}
         /\ wal' = IF opened[p] # main.inode THEN wal
                   ELSE IF wal = NoWal THEN [inode |-> main.inode, content |-> {c}]
                   ELSE [wal EXCEPT !.content = @ \union {c}]
    /\ UNCHANGED <<flock, proc, main, backup, tmp, opened>>

EndWork(p) ==
    /\ proc[p].pc = "work" /\ proc[p].job \in {"command", "stats", "status"}
    /\ Goto(p, "close")
    /\ UNCHANGED <<flock, files, opened, truth, bounds>>

(***************************************************************************)
(* Backup, checkpoint and vacuum work on an open connection.               *)
(***************************************************************************)
\* The online backup ends with a snapshot of one instant.
backupDb(p) ==
    /\ proc[p].pc = "work" /\ proc[p].job = "backup"
    /\ backup' = [backup EXCEPT ![proc[p].arg] = {View}]
    /\ Goto(p, "close")
    /\ UNCHANGED <<flock, main, wal, tmp, opened, truth, bounds>>

\* wal_checkpoint(TRUNCATE) is busy while another connection is open.
checkpointDb(p) ==
    /\ proc[p].pc = "work" /\ proc[p].job = "checkpoint"
    /\ IF LastOn(p) THEN main' = Checkpointed /\ wal' = NoWal
                    ELSE UNCHANGED <<main, wal>>
    /\ Goto(p, "close")
    /\ UNCHANGED <<flock, backup, tmp, opened, truth, bounds>>

\* VACUUM rewrites the pages through the log.
vacuumDb(p) ==
    /\ proc[p].pc = "work" /\ proc[p].job = "vacuum"
    /\ wal' = [inode |-> main.inode, content |-> View]
    /\ Goto(p, "close")
    /\ UNCHANGED <<flock, main, backup, tmp, opened, truth, bounds>>

(***************************************************************************)
(* Restore.                                                                *)
(***************************************************************************)
\* The source must exist; its online backup makes a standalone copy.
restoreCopy(p) ==
    /\ proc[p].pc = "copy"
    /\ IF backup[proc[p].arg] = {}
         THEN End(p) /\ UNCHANGED tmp
         ELSE /\ tmp' = [tmp EXCEPT ![p] = backup[proc[p].arg]]
              /\ Goto(p, "validate") /\ UNCHANGED flock
    /\ UNCHANGED <<main, wal, backup, opened, truth, bounds>>

\* integrity_check, version and core tables; a copy that fails is removed.
validateHarnessDb(p) ==
    /\ proc[p].pc = "validate"
    /\ IF tmp[p] = {Mixed}
         THEN End(p) /\ tmp' = [tmp EXCEPT ![p] = {}]
         ELSE Goto(p, "rename") /\ UNCHANGED <<flock, tmp>>
    /\ UNCHANGED <<main, wal, backup, opened, truth, bounds>>

restoreRename(p) ==
    /\ proc[p].pc = "rename" /\ bounds.inodes <= MaxRestores
    /\ bounds' = [bounds EXCEPT !.inodes = @ + 1]
    /\ main' = [inode |-> bounds'.inodes, content |-> UNION tmp[p]]
    /\ truth' = UNION tmp[p]
    /\ tmp' = [tmp EXCEPT ![p] = {}]
    /\ Goto(p, "dropWal")
    /\ UNCHANGED <<flock, wal, backup, opened>>

\* Mutant: the log of the replaced file is left in place.
restoreKeepsWal(p) ==
    /\ proc[p].pc = "dropWal"
    /\ End(p)
    /\ UNCHANGED <<files, opened, truth, bounds>>

\* The log and the shared memory of the replaced file are removed.
restoreDropWal(p) ==
    /\ proc[p].pc = "dropWal"
    /\ wal' = NoWal
    /\ End(p)
    /\ UNCHANGED <<main, backup, tmp, opened, truth, bounds>>

\* A process is killed: the kernel drops its lock and its handles.
Die(p) ==
    /\ proc[p] # Idle /\ bounds.deaths < MaxDeaths
    /\ bounds' = [bounds EXCEPT !.deaths = @ + 1,
                                !.interrupted = @ \/ (proc[p].pc = "dropWal" /\ wal # NoWal)]
    /\ End(p)
    /\ opened' = [opened EXCEPT ![p] = 0]
    /\ UNCHANGED <<files, truth>>

StoreNext ==
    \E p \in Procs :
      \/ StartJob(p) \/ acquire(p) \/ acquireTimedOut(p)
      \/ OpenDb(p) \/ CloseDb(p) \/ Commit(p) \/ EndWork(p)
      \/ backupDb(p) \/ checkpointDb(p) \/ vacuumDb(p) \/ Die(p)
      \/ p \in Operators /\ (restoreCopy(p) \/ validateHarnessDb(p)
                             \/ restoreRename(p) \/ restoreDropWal(p))

StoreSpec == StoreInit /\ [][StoreNext]_storeVars

(***************************************************************************)
(* Properties.                                                             *)
(***************************************************************************)
\* A restore died after the rename and before the removal of a log that was
\* there: the one window the code leaves open.
SwapInterrupted == bounds.interrupted

\* A process that holds the database open under the maintenance lock reads
\* exactly what was committed since the last restore, on top of what that
\* restore brought back: no commit of a finished or killed command is lost,
\* none goes to a replaced file, no log is replayed into a file it was not
\* written for, and every backup is the content of one instant.  The one
\* exception is a restore killed between the rename and the removal of the
\* log (restoreDb, acquire, openManagedDb).
StoreIsWhole ==
    SwapInterrupted \/
      /\ \A p \in Procs : opened[p] # 0 /\ flock[p] # "none" =>
           opened[p] = main.inode /\ View = truth
      /\ \A b \in Backups : Mixed \notin backup[b]
==============================================================================
