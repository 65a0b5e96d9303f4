----------------------------- MODULE DomainLock -----------------------------
(***************************************************************************)
(* The lease-based domain lock kept in the `domain_locks` table            *)
(* (src/src/workspace/db-domain-lock.ts).                                  *)
(*                                                                         *)
(* A harness process serializes its work on a domain with a lease row whose *)
(* AUTOINCREMENT `lock_id` is the fencing token.  The holder extends the    *)
(* lease from a heartbeat timer, every write of the run checks it, and a    *)
(* contender that finds the row expired soft-releases it and inserts its    *)
(* own row in the same IMMEDIATE transaction.  Processes crash, timers stop *)
(* firing while a host sleeps, and the operator's `harness lock release`    *)
(* may end any lease.                                                      *)
(*                                                                         *)
(* `expires_at` is represented by the time left until it: `ttl = 0` is     *)
(* `expires_at <= now`.  Every process reads the clock of the host that    *)
(* owns the SQLite file, so the two say the same.                          *)
(***************************************************************************)
EXTENDS Integers, Sequences

CONSTANTS
    Runs,      \* run ids; each run id acquires at most one lease
    Domains,   \* domain keys `<repoId>::<domain>`
    Lease,     \* lease duration, in clock ticks
    NoRun      \* the absent `--run-id` of `harness lock release`

ASSUME LeaseAssumption == Lease \in Nat \ {0}
ASSUME NoRunAssumption == NoRun \notin Runs

VARIABLES
    locks,     \* the domain_locks rows, indexed by lock_id
    handle,    \* the DomainLockHandle each run's process holds in memory
    cli        \* `harness lock release` between its SELECT and its UPDATE

lockVars == <<locks, handle, cli>>

-----------------------------------------------------------------------------
(* Types and null values.                                                  *)

\* `released_at`, `release_reason` and `released_by` in one: "none" while the
\* row is active, then who ended it.
Reasons == {"none", "expired", "normal", "operator"}

Row == [domain: Domains, holder: Runs, ttl: 0..Lease, reason: Reasons]

HandleStates == {"none", "busy", "held", "released", "crashed"}

Handle == [lockId: Nat, state: HandleStates]

NoHandle == [lockId |-> 0, state |-> "none"]

CliIdle == [lockId |-> 0, want |-> NoRun, force |-> FALSE]

LockTypeOK ==
    /\ locks \in Seq(Row)
    /\ handle \in [Runs -> Handle]
    /\ cli \in [lockId: Nat, want: Runs \cup {NoRun}, force: BOOLEAN]

LockInit ==
    /\ locks = <<>>
    /\ handle = [r \in Runs |-> NoHandle]
    /\ cli = CliIdle

-----------------------------------------------------------------------------
(* Queries.                                                                *)

Active(i) == locks[i].reason = "none"

\* The rows matched by `domain_key = ? AND released_at IS NULL`.
ActiveRows(d) == {i \in DOMAIN locks : locks[i].domain = d /\ Active(i)}

\* Mutant: the check forgets `released_at IS NULL AND expires_at > now`.
LeaseHeldByIdOnly(r, i) == i \in DOMAIN locks /\ locks[i].holder = r

\* The row test of `assertHeld` and `assertActiveLease`: this lock_id, this
\* holder, not released, not expired.
LeaseHeld(r, i) ==
    /\ i \in DOMAIN locks
    /\ locks[i].holder = r
    /\ Active(i)
    /\ locks[i].ttl > 0

NewRow(r, d) == [domain |-> d, holder |-> r, ttl |-> Lease, reason |-> "none"]

-----------------------------------------------------------------------------
(* The lock operations.                                                    *)

\* Mutant: the soft-release of the expired row is missing.
ExpireStaleMissing(d) == locks

\* The rows after the expired lease of the domain, if any, is soft-released.
ExpireStale(d) ==
    [i \in DOMAIN locks |->
        IF i \in ActiveRows(d)
          THEN [locks[i] EXCEPT !.reason = "expired"]
          ELSE locks[i]]

AcquireDomainLock(r, d) ==
    /\ handle[r].state = "none"
    /\ \A i \in ActiveRows(d) : locks[i].ttl = 0
    /\ locks' = Append(ExpireStale(d), NewRow(r, d))
    /\ handle' = [handle EXCEPT ![r] =
                    [lockId |-> Len(locks) + 1, state |-> "held"]]
    /\ UNCHANGED cli

\* `DomainLockBusyError`: an unexpired active row exists.
AcquireBusy(r, d) ==
    /\ handle[r].state = "none"
    /\ \E i \in ActiveRows(d) : locks[i].ttl > 0
    /\ handle' = [handle EXCEPT ![r].state = "busy"]
    /\ UNCHANGED <<locks, cli>>

\* Mutant: heartbeat's UPDATE forgets `released_at IS NULL`.
HeartbeatEndedRow(r) ==
    /\ handle[r].state = "held"
    /\ locks' = [locks EXCEPT ![handle[r].lockId].ttl = Lease]
    /\ UNCHANGED <<handle, cli>>

\* Mutant: heartbeat's UPDATE names neither the lock_id nor the holder.
HeartbeatAllRows(r) ==
    /\ handle[r].state = "held"
    /\ Active(handle[r].lockId)
    /\ locks' = [i \in DOMAIN locks |->
                   IF Active(i) THEN [locks[i] EXCEPT !.ttl = Lease] ELSE locks[i]]
    /\ UNCHANGED <<handle, cli>>

\* Mutant: the timer outlives its process.
HeartbeatOutlives(r) ==
    /\ handle[r].state \in {"held", "crashed"}
    /\ Active(handle[r].lockId)
    /\ locks' = [locks EXCEPT ![handle[r].lockId].ttl = Lease]
    /\ UNCHANGED <<handle, cli>>

\* The UPDATE of `heartbeat` matches on lock_id, holder and `released_at IS
\* NULL`; it does not look at `expires_at`, so a late heartbeat revives a row
\* nobody has taken over.  When it matches no row the holder only learns that
\* the lease is lost.
Heartbeat(r) ==
    /\ handle[r].state = "held"
    /\ LET i == handle[r].lockId IN
         /\ locks[i].holder = r
         /\ Active(i)
         /\ locks' = [locks EXCEPT ![i].ttl = Lease]
    /\ UNCHANGED <<handle, cli>>

\* `release`: a no-op on the row when it was already ended by someone else.
ReleaseLock(r) ==
    /\ handle[r].state = "held"
    /\ locks' = IF Active(handle[r].lockId)
                  THEN [locks EXCEPT ![handle[r].lockId].reason = "normal"]
                  ELSE locks
    /\ handle' = [handle EXCEPT ![r].state = "released"]
    /\ UNCHANGED cli

\* The holder's process dies: no more heartbeats, no release.
CrashHolder(r) ==
    /\ handle[r].state = "held"
    /\ handle' = [handle EXCEPT ![r].state = "crashed"]
    /\ UNCHANGED <<locks, cli>>

\* `harness lock release` reads the active row and applies its run-id filter.
OperatorFind(d, want, force) ==
    /\ cli = CliIdle
    /\ \E i \in ActiveRows(d) :
         /\ \/ want = NoRun
            \/ locks[i].holder = want
            \/ force
         /\ cli' = [lockId |-> i, want |-> want, force |-> force]
    /\ UNCHANGED <<locks, handle>>

\* Mutant: the UPDATE names the domain instead of the lock_id.
OperatorReleaseByDomain ==
    /\ cli # CliIdle
    /\ locks' = [i \in DOMAIN locks |->
                   IF i \in ActiveRows(locks[cli.lockId].domain)
                     THEN [locks[i] EXCEPT !.reason = "operator"]
                     ELSE locks[i]]
    /\ cli' = CliIdle
    /\ UNCHANGED handle

\* The UPDATE runs after the SELECT, outside any transaction, and names the
\* lock_id that was read.
OperatorRelease ==
    /\ cli # CliIdle
    /\ locks' = IF Active(cli.lockId)
                  THEN [locks EXCEPT ![cli.lockId].reason = "operator"]
                  ELSE locks
    /\ cli' = CliIdle
    /\ UNCHANGED handle

\* One tick of the clock.
Tick ==
    /\ \E i \in DOMAIN locks : Active(i) /\ locks[i].ttl > 0
    /\ locks' = [i \in DOMAIN locks |->
                   IF Active(i) /\ locks[i].ttl > 0
                     THEN [locks[i] EXCEPT !.ttl = @ - 1]
                     ELSE locks[i]]
    /\ UNCHANGED <<handle, cli>>

-----------------------------------------------------------------------------
LockNext ==
    \/ \E r \in Runs, d \in Domains : AcquireDomainLock(r, d)
    \/ \E r \in Runs, d \in Domains : AcquireBusy(r, d)
    \/ \E r \in Runs : Heartbeat(r)
    \/ \E r \in Runs : ReleaseLock(r)
    \/ \E r \in Runs : CrashHolder(r)
    \/ \E d \in Domains, want \in Runs \cup {NoRun}, force \in BOOLEAN :
         OperatorFind(d, want, force)
    \/ OperatorRelease
    \/ Tick

LockSpec == LockInit /\ [][LockNext]_lockVars

\* The clock advances; nothing else is owed by a process.
LockFairSpec == LockSpec /\ WF_lockVars(Tick)
-----------------------------------------------------------------------------
(* Properties.                                                             *)

\* Mutual exclusion and fencing: of all rows ever inserted for a domain only
\* the newest can be active, so the lease check admits at most one run per
\* domain and it is the one with the highest fencing token
\* (acquireDomainLock's soft-release of the expired row).
FencingOrder ==
    \A i, j \in DOMAIN locks :
        (i < j /\ locks[i].domain = locks[j].domain) => ~Active(i)

\* A handle names the row its own run inserted, so a heartbeat, a lease check
\* or a release can never reach another run's row.
HandleOwnsRow ==
    \A r \in Runs :
        handle[r].state \in {"held", "released", "crashed"} =>
            /\ handle[r].lockId \in DOMAIN locks
            /\ locks[handle[r].lockId].holder = r

\* The operator's UPDATE hits exactly the row its SELECT approved, however
\* the table moved in between (releaseDomainLockByDomain): without --force
\* and with --run-id only that run's lease can be ended.
OperatorHitsMatchedRow ==
    [][\A i \in DOMAIN locks :
         (Active(i) /\ locks'[i].reason = "operator") =>
            \/ cli.want = NoRun
            \/ cli.force
            \/ locks[i].holder = cli.want]_lockVars

\* An unexpired lease is ended by its holder or by the operator, never by a
\* contender; and a row that was ended is never revived or rewritten.
LeaseIsHonoured ==
    [][\A i \in DOMAIN locks :
         /\ (Active(i) /\ locks[i].ttl > 0) => locks'[i].reason # "expired"
         /\ ~Active(i) => locks'[i] = locks[i]]_lockVars

\* A crashed holder never blocks a domain for ever: nothing but its own
\* heartbeat extends its lease, so the row runs out or is ended.
CrashedLeaseLapses ==
    \A r \in Runs :
        (handle[r].state = "crashed") ~> ~LeaseHeld(r, handle[r].lockId)

-----------------------------------------------------------------------------
(* Refinement.                                                             *)

\* The row whose lease a domain is under, 0 when it has none.
ActiveRow(d) ==
    IF ActiveRows(d) = {} THEN 0 ELSE CHOOSE i \in ActiveRows(d) : TRUE

Fenced == INSTANCE FencedLock WITH
    Clients <- Runs,
    Names <- Domains,
    Nobody <- NoRun,
    owner <- [d \in Domains |->
                IF ActiveRow(d) = 0 THEN NoRun ELSE locks[ActiveRow(d)].holder],
    token <- [d \in Domains |-> ActiveRow(d)],
    live <- [d \in Domains |-> ActiveRow(d) # 0 /\ locks[ActiveRow(d)].ttl > 0],
    issued <- Len(locks)

\* The domain_locks table is a fenced lock per domain: a lease changes hands
\* only when it was ended or has run out, every grant has a larger token than
\* all before it, and neither a late heartbeat nor a late operator UPDATE
\* reaches a grant it was not meant for.
ImplementsFencedLock == Fenced!FenceSpec

=============================================================================
