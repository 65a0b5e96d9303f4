-------------------------- MODULE DomainLockProofs --------------------------
(***************************************************************************)
(* Proofs about the domain lock, for any set of runs and domains and any   *)
(* lease duration.                                                         *)
(*                                                                         *)
(* The inductive invariant adds to the three invariants that TLC checks    *)
(* what `harness lock release` knows between its SELECT and its UPDATE:    *)
(* the lock_id it read names a row, and that row passed the filter.        *)
(***************************************************************************)
EXTENDS DomainLock, TLAPS

\* What the run-id filter of `harness lock release` admits.
CliMatches(c) ==
    /\ c.lockId \in DOMAIN locks
    /\ \/ c.want = NoRun
       \/ c.force
       \/ locks[c.lockId].holder = c.want

CliKnowsRow == cli # CliIdle => CliMatches(cli)

LockInv ==
    /\ LockTypeOK
    /\ FencingOrder
    /\ HandleOwnsRow
    /\ CliKnowsRow

-----------------------------------------------------------------------------
(* How a step may change the table.                                        *)

\* Rows are only appended, and a row keeps its domain and its holder.
RowsPersist ==
    /\ Len(locks) <= Len(locks')
    /\ \A i \in DOMAIN locks :
         /\ locks'[i].domain = locks[i].domain
         /\ locks'[i].holder = locks[i].holder

\* A row that was ended stays as it is.
EndedRowsStay ==
    \A i \in DOMAIN locks : ~Active(i) => locks'[i] = locks[i]

\* A row stays a row when it is ended, extended or aged.
LEMMA RowUpdate ==
    /\ \A w \in Row, q \in Reasons :
         /\ [w EXCEPT !.reason = q] \in Row
         /\ [w EXCEPT !.reason = q].domain = w.domain
         /\ [w EXCEPT !.reason = q].holder = w.holder
         /\ [w EXCEPT !.reason = q].ttl = w.ttl
         /\ [w EXCEPT !.reason = q].reason = q
    /\ \A w \in Row, t \in 0..Lease :
         /\ [w EXCEPT !.ttl = t] \in Row
         /\ [w EXCEPT !.ttl = t].domain = w.domain
         /\ [w EXCEPT !.ttl = t].holder = w.holder
         /\ [w EXCEPT !.ttl = t].reason = w.reason
    BY DEF Row

\* The rows in place of the expired lease, and the new row behind them.
LEMMA AcquireRows ==
    ASSUME LockTypeOK, NEW r \in Runs, NEW d \in Domains,
           AcquireDomainLock(r, d)
    PROVE  /\ locks' \in Seq(Row)
           /\ Len(locks') = Len(locks) + 1
           /\ locks'[Len(locks) + 1] = NewRow(r, d)
           /\ \A i \in DOMAIN locks :
                locks'[i] = IF i \in ActiveRows(d)
                              THEN [locks[i] EXCEPT !.reason = "expired"]
                              ELSE locks[i]
  <1>1. locks \in Seq(Row) /\ DOMAIN locks = 1..Len(locks) /\ Len(locks) \in Nat
    BY DEF LockTypeOK
  <1>2. NewRow(r, d) \in Row
    BY LeaseAssumption DEF NewRow, Row, Reasons
  <1>3. /\ ExpireStale(d) \in Seq(Row)
        /\ Len(ExpireStale(d)) = Len(locks)
        /\ DOMAIN ExpireStale(d) = DOMAIN locks
    <2>0. (\A i \in DOMAIN locks : locks[i] \in Row) /\ "expired" \in Reasons
      BY <1>1 DEF Reasons
    <2>1. \A i \in DOMAIN locks :
            [locks[i] EXCEPT !.reason = "expired"] \in Row /\ locks[i] \in Row
      BY <2>0, RowUpdate
    <2>2. ExpireStale(d) \in [1..Len(locks) -> Row]
      BY <1>1, <2>1 DEF ExpireStale
    <2> QED
      BY <1>1, <2>2
  <1>4. locks' = Append(ExpireStale(d), NewRow(r, d))
    BY DEF AcquireDomainLock
  <1>5. /\ locks' \in Seq(Row)
        /\ Len(locks') = Len(locks) + 1
        /\ locks'[Len(locks) + 1] = NewRow(r, d)
    BY <1>1, <1>2, <1>3, <1>4
  <1>6. \A i \in DOMAIN locks : locks'[i] = ExpireStale(d)[i]
    BY <1>1, <1>2, <1>3, <1>4
  <1> QED
    BY <1>5, <1>6 DEF ExpireStale

-----------------------------------------------------------------------------
(* Each operation, from the invariant.                                     *)

LEMMA AcquireStep ==
    ASSUME LockInv, NEW r \in Runs, NEW d \in Domains, AcquireDomainLock(r, d)
    PROVE  LockInv' /\ RowsPersist /\ EndedRowsStay
  <1>1. /\ locks \in Seq(Row) /\ DOMAIN locks = 1..Len(locks) /\ Len(locks) \in Nat
        /\ \A i \in DOMAIN locks : locks[i] \in Row
        /\ handle \in [Runs -> Handle]
        /\ LockTypeOK
    BY DEF LockInv, LockTypeOK
  <1>2. /\ locks' \in Seq(Row)
        /\ Len(locks') = Len(locks) + 1
        /\ locks'[Len(locks) + 1] = NewRow(r, d)
        /\ \A i \in DOMAIN locks :
             locks'[i] = IF i \in ActiveRows(d)
                           THEN [locks[i] EXCEPT !.reason = "expired"]
                           ELSE locks[i]
    BY <1>1, AcquireRows
  <1>3. /\ DOMAIN locks' = 1..(Len(locks) + 1)
        /\ DOMAIN locks' = DOMAIN locks \cup {Len(locks) + 1}
        /\ Len(locks) + 1 \notin DOMAIN locks
    BY <1>1, <1>2
  <1>4. \A i \in DOMAIN locks :
          /\ locks'[i].domain = locks[i].domain
          /\ locks'[i].holder = locks[i].holder
          /\ ~Active(i) => locks'[i] = locks[i]
          /\ (Active(i) /\ locks[i].domain = d) => locks'[i].reason = "expired"
          /\ ~(Active(i) /\ locks[i].domain = d) => locks'[i] = locks[i]
    <2> SUFFICES ASSUME NEW i \in DOMAIN locks
                 PROVE  /\ locks'[i].domain = locks[i].domain
                        /\ locks'[i].holder = locks[i].holder
                        /\ ~Active(i) => locks'[i] = locks[i]
                        /\ (Active(i) /\ locks[i].domain = d)
                             => locks'[i].reason = "expired"
                        /\ ~(Active(i) /\ locks[i].domain = d)
                             => locks'[i] = locks[i]
      OBVIOUS
    <2>1. locks[i] \in Row /\ "expired" \in Reasons
      BY <1>1 DEF Reasons
    <2>2. CASE i \in ActiveRows(d)
      <3>1. locks'[i] = [locks[i] EXCEPT !.reason = "expired"]
        BY <1>2, <2>2
      <3>2. Active(i) /\ locks[i].domain = d
        BY <2>2 DEF ActiveRows
      <3> QED
        BY <2>1, <3>1, <3>2, RowUpdate
    <2>3. CASE i \notin ActiveRows(d)
      <3>1. locks'[i] = locks[i]
        BY <1>2, <2>3
      <3> QED
        BY <2>3, <3>1 DEF ActiveRows
    <2> QED
      BY <2>2, <2>3
  <1>5. RowsPersist /\ EndedRowsStay
    BY <1>1, <1>2, <1>4 DEF RowsPersist, EndedRowsStay
  <1>6. /\ handle' \in [Runs -> Handle]
        /\ handle'[r] = [lockId |-> Len(locks) + 1, state |-> "held"]
        /\ \A s \in Runs : s # r => handle'[s] = handle[s]
    BY <1>1 DEF AcquireDomainLock, Handle, HandleStates
  <1>7. LockTypeOK'
    BY <1>2, <1>6 DEF LockInv, LockTypeOK, AcquireDomainLock
  <1>8. FencingOrder'
    <2> SUFFICES ASSUME NEW i \in DOMAIN locks', NEW j \in DOMAIN locks',
                        i < j, locks'[i].domain = locks'[j].domain
                 PROVE  locks'[i].reason # "none"
      BY DEF FencingOrder, Active
    <2>1. i \in DOMAIN locks
      BY <1>1, <1>3
    <2>2. CASE j \in DOMAIN locks
      BY <1>4, <2>1, <2>2 DEF LockInv, FencingOrder, Active
    <2>3. CASE j = Len(locks) + 1
      <3>1. locks[i].domain = d
        BY <1>2, <1>4, <2>1, <2>3 DEF NewRow
      <3> QED
        BY <1>4, <2>1, <3>1 DEF Active
    <2> QED
      BY <1>3, <2>2, <2>3
  <1>9. HandleOwnsRow'
    <2> SUFFICES ASSUME NEW s \in Runs,
                        handle'[s].state \in {"held", "released", "crashed"}
                 PROVE  /\ handle'[s].lockId \in DOMAIN locks'
                        /\ locks'[handle'[s].lockId].holder = s
      BY DEF HandleOwnsRow
    <2>1. CASE s = r
      BY <1>2, <1>3, <1>6, <2>1 DEF NewRow
    <2>2. CASE s # r
      <3>1. handle'[s] = handle[s]
        BY <1>6, <2>2
      <3>2. handle[s].lockId \in DOMAIN locks /\ locks[handle[s].lockId].holder = s
        BY <3>1 DEF LockInv, HandleOwnsRow
      <3> QED
        BY <1>3, <1>4, <3>1, <3>2
    <2> QED
      BY <2>1, <2>2
  <1>10. CliKnowsRow'
    BY <1>3, <1>4 DEF LockInv, CliKnowsRow, CliMatches, AcquireDomainLock, CliIdle
  <1> QED
    BY <1>5, <1>7, <1>8, <1>9, <1>10 DEF LockInv

\* An operation that rewrites rows in place, ending or extending active ones,
\* keeps everything.
LEMMA InPlaceStep ==
    ASSUME LockInv,
           locks' \in Seq(Row), Len(locks') = Len(locks),
           \A i \in DOMAIN locks :
             /\ locks'[i].domain = locks[i].domain
             /\ locks'[i].holder = locks[i].holder
             /\ ~Active(i) => locks'[i] = locks[i]
    PROVE  /\ FencingOrder' /\ RowsPersist /\ EndedRowsStay
           /\ handle' = handle => HandleOwnsRow'
           /\ cli' = cli => CliKnowsRow'
  <1>1. /\ locks \in Seq(Row) /\ DOMAIN locks = 1..Len(locks)
        /\ DOMAIN locks' = DOMAIN locks /\ Len(locks) \in Nat
    BY DEF LockInv, LockTypeOK
  <1>2. FencingOrder'
    BY <1>1 DEF LockInv, FencingOrder, Active
  <1>3. RowsPersist /\ EndedRowsStay
    BY <1>1 DEF RowsPersist, EndedRowsStay
  <1>4. handle' = handle => HandleOwnsRow'
    BY <1>1 DEF LockInv, HandleOwnsRow
  <1>5. cli' = cli => CliKnowsRow'
    BY <1>1 DEF LockInv, CliKnowsRow, CliMatches, CliIdle
  <1> QED
    BY <1>2, <1>3, <1>4, <1>5

\* Rewriting one row's reason or time left is such an operation.
LEMMA OneRowStep ==
    ASSUME LockInv, NEW i \in DOMAIN locks, NEW w \in Row,
           Active(i), w.domain = locks[i].domain, w.holder = locks[i].holder,
           locks' = [locks EXCEPT ![i] = w]
    PROVE  /\ locks' \in Seq(Row) /\ Len(locks') = Len(locks)
           /\ locks'[i] = w
           /\ \A k \in DOMAIN locks :
                /\ k # i => locks'[k] = locks[k]
                /\ locks'[k].domain = locks[k].domain
                /\ locks'[k].holder = locks[k].holder
                /\ ~Active(k) => locks'[k] = locks[k]
    BY DEF LockInv, LockTypeOK

LEMMA HeartbeatStep ==
    ASSUME LockInv, NEW r \in Runs, Heartbeat(r)
    PROVE  LockInv' /\ RowsPersist /\ EndedRowsStay
  <1> DEFINE i == handle[r].lockId
             w == [locks[i] EXCEPT !.ttl = Lease]
  <1>1. /\ i \in DOMAIN locks /\ locks[i] \in Row /\ Active(i)
        /\ handle' = handle /\ cli' = cli
        /\ locks' = [locks EXCEPT ![i].ttl = Lease]
    BY DEF LockInv, LockTypeOK, HandleOwnsRow, Heartbeat
  <1>2. w \in Row /\ w.domain = locks[i].domain /\ w.holder = locks[i].holder
    BY <1>1, RowUpdate, LeaseAssumption
  <1>3. locks' = [locks EXCEPT ![i] = w]
    BY <1>1
  <1> HIDE DEF w, i
  <1>4. /\ locks' \in Seq(Row) /\ Len(locks') = Len(locks)
        /\ \A k \in DOMAIN locks :
             /\ locks'[k].domain = locks[k].domain
             /\ locks'[k].holder = locks[k].holder
             /\ ~Active(k) => locks'[k] = locks[k]
    BY <1>1, <1>2, <1>3, OneRowStep
  <1>5. /\ FencingOrder' /\ RowsPersist /\ EndedRowsStay
        /\ HandleOwnsRow' /\ CliKnowsRow'
    BY <1>1, <1>4, InPlaceStep
  <1> QED
    BY <1>1, <1>4, <1>5 DEF LockInv, LockTypeOK

\* Ending one active row.
LEMMA EndRowStep ==
    ASSUME LockInv, NEW i \in DOMAIN locks, NEW q \in Reasons,
           locks' = IF Active(i) THEN [locks EXCEPT ![i].reason = q] ELSE locks
    PROVE  /\ locks' \in Seq(Row) /\ Len(locks') = Len(locks)
           /\ FencingOrder' /\ RowsPersist /\ EndedRowsStay
           /\ handle' = handle => HandleOwnsRow'
           /\ cli' = cli => CliKnowsRow'
           /\ \A k \in DOMAIN locks : k # i => locks'[k] = locks[k]
           /\ \A k \in DOMAIN locks :
                 Active(k) => locks'[k].reason \in {"none", q}
  <1> DEFINE w == [locks[i] EXCEPT !.reason = q]
  <1>1. /\ w \in Row /\ w.domain = locks[i].domain /\ w.holder = locks[i].holder
        /\ w.reason = q
    BY RowUpdate DEF LockInv, LockTypeOK
  <1>2. CASE Active(i)
    <2>1. locks' = [locks EXCEPT ![i] = w]
      BY <1>2
    <2> HIDE DEF w
    <2>2. /\ locks' \in Seq(Row) /\ Len(locks') = Len(locks)
          /\ locks'[i] = w
          /\ \A k \in DOMAIN locks :
                /\ k # i => locks'[k] = locks[k]
                /\ locks'[k].domain = locks[k].domain
                /\ locks'[k].holder = locks[k].holder
                /\ ~Active(k) => locks'[k] = locks[k]
      BY <1>1, <1>2, <2>1, OneRowStep
    <2>3. \A k \in DOMAIN locks : Active(k) => locks'[k].reason \in {"none", q}
      BY <1>1, <2>2 DEF Active
    <2> QED
      BY <2>2, <2>3, InPlaceStep
  <1>3. CASE ~Active(i)
    <2>1. locks' = locks /\ locks \in Seq(Row)
      BY <1>3 DEF LockInv, LockTypeOK
    <2>2. /\ FencingOrder' /\ RowsPersist /\ EndedRowsStay
          /\ handle' = handle => HandleOwnsRow'
          /\ cli' = cli => CliKnowsRow'
      BY <2>1, InPlaceStep
    <2> QED
      BY <2>1, <2>2 DEF Active
  <1> QED
    BY <1>2, <1>3

LEMMA ReleaseStep ==
    ASSUME LockInv, NEW r \in Runs, ReleaseLock(r)
    PROVE  LockInv' /\ RowsPersist /\ EndedRowsStay
  <1>1. /\ handle \in [Runs -> Handle]
        /\ handle[r].lockId \in DOMAIN locks
        /\ cli' = cli
        /\ handle' = [handle EXCEPT ![r].state = "released"]
    BY DEF LockInv, LockTypeOK, HandleOwnsRow, ReleaseLock
  <1>2. /\ locks' \in Seq(Row) /\ Len(locks') = Len(locks)
        /\ FencingOrder' /\ RowsPersist /\ EndedRowsStay /\ CliKnowsRow'
    BY <1>1, EndRowStep DEF ReleaseLock, Reasons
  <1>3. /\ handle' \in [Runs -> Handle]
        /\ \A s \in Runs : handle'[s].lockId = handle[s].lockId
        /\ \A s \in Runs : s # r => handle'[s] = handle[s]
    BY <1>1 DEF Handle, HandleStates
  <1>4. HandleOwnsRow'
    <2>1. \A s \in Runs : handle'[s].state \in {"held", "released", "crashed"} =>
             handle[s].state \in {"held", "released", "crashed"}
      BY <1>3 DEF ReleaseLock
    <2>2. DOMAIN locks' = DOMAIN locks
      BY <1>2 DEF LockInv, LockTypeOK
    <2> QED
      BY <1>2, <1>3, <2>1, <2>2 DEF LockInv, HandleOwnsRow, RowsPersist
  <1> QED
    BY <1>1, <1>2, <1>3, <1>4 DEF LockInv, LockTypeOK

LEMMA OperatorReleaseStep ==
    ASSUME LockInv, OperatorRelease
    PROVE  LockInv' /\ RowsPersist /\ EndedRowsStay
  <1>1. /\ cli.lockId \in DOMAIN locks /\ handle' = handle /\ cli' = CliIdle
    BY DEF LockInv, CliKnowsRow, CliMatches, OperatorRelease
  <1>2. /\ locks' \in Seq(Row)
        /\ FencingOrder' /\ RowsPersist /\ EndedRowsStay /\ HandleOwnsRow'
    BY <1>1, EndRowStep DEF OperatorRelease, Reasons
  <1>3. CliKnowsRow' /\ cli' \in [lockId: Nat, want: Runs \cup {NoRun}, force: BOOLEAN]
    BY <1>1 DEF CliKnowsRow, CliIdle
  <1> QED
    BY <1>1, <1>2, <1>3 DEF LockInv, LockTypeOK

LEMMA TickStep ==
    ASSUME LockInv, Tick
    PROVE  LockInv' /\ RowsPersist /\ EndedRowsStay
  <1>1. /\ locks \in Seq(Row) /\ DOMAIN locks = 1..Len(locks) /\ Len(locks) \in Nat
        /\ \A k \in DOMAIN locks : locks[k] \in Row
        /\ handle' = handle /\ cli' = cli
    BY DEF LockInv, LockTypeOK, Tick
  <1>2. \A k \in DOMAIN locks :
          /\ locks[k].ttl > 0 => locks[k].ttl - 1 \in 0..Lease
    BY <1>1, LeaseAssumption DEF Row
  <1>3. \A k \in DOMAIN locks :
          /\ locks'[k] \in Row
          /\ locks'[k].domain = locks[k].domain
          /\ locks'[k].holder = locks[k].holder
          /\ ~Active(k) => locks'[k] = locks[k]
    BY <1>1, <1>2, RowUpdate DEF Tick
  <1>4. locks' \in [1..Len(locks) -> Row]
    BY <1>1, <1>3 DEF Tick
  <1>5. locks' \in Seq(Row) /\ Len(locks') = Len(locks)
    BY <1>1, <1>4
  <1>6. FencingOrder' /\ RowsPersist /\ EndedRowsStay /\ HandleOwnsRow' /\ CliKnowsRow'
    BY <1>1, <1>3, <1>5, InPlaceStep
  <1> QED
    BY <1>1, <1>5, <1>6 DEF LockInv, LockTypeOK

\* The operations that leave the table alone.
LEMMA NoRowStep ==
    ASSUME LockInv,
           \/ \E r \in Runs, d \in Domains : AcquireBusy(r, d)
           \/ \E r \in Runs : CrashHolder(r)
           \/ \E d \in Domains, want \in Runs \cup {NoRun}, force \in BOOLEAN :
                OperatorFind(d, want, force)
           \/ UNCHANGED lockVars
    PROVE  LockInv' /\ RowsPersist /\ EndedRowsStay
  <1>1. locks' = locks
    BY DEF AcquireBusy, CrashHolder, OperatorFind, lockVars
  <1>2. /\ FencingOrder' /\ RowsPersist /\ EndedRowsStay
        /\ handle' = handle => HandleOwnsRow'
        /\ cli' = cli => CliKnowsRow'
    <2>1. locks \in Seq(Row)
      BY DEF LockInv, LockTypeOK
    <2> QED
      BY <1>1, <2>1, InPlaceStep
  <1>3. CASE \E r \in Runs, d \in Domains : AcquireBusy(r, d)
    <2>1. PICK r \in Runs, d \in Domains : AcquireBusy(r, d)
      BY <1>3
    <2>2. LockTypeOK' /\ HandleOwnsRow'
      BY <1>1, <2>1
         DEF LockInv, LockTypeOK, HandleOwnsRow, AcquireBusy, Handle, HandleStates
    <2> QED
      BY <1>2, <2>1, <2>2 DEF LockInv, AcquireBusy
  <1>4. CASE \E r \in Runs : CrashHolder(r)
    <2>1. PICK r \in Runs : CrashHolder(r)
      BY <1>4
    <2>2. LockTypeOK' /\ HandleOwnsRow'
      BY <1>1, <2>1
         DEF LockInv, LockTypeOK, HandleOwnsRow, CrashHolder, Handle, HandleStates
    <2> QED
      BY <1>2, <2>1, <2>2 DEF LockInv, CrashHolder
  <1>5. CASE \E d \in Domains, want \in Runs \cup {NoRun}, force \in BOOLEAN :
                OperatorFind(d, want, force)
    <2>1. PICK d \in Domains, want \in Runs \cup {NoRun}, force \in BOOLEAN :
                OperatorFind(d, want, force)
      BY <1>5
    <2>2. PICK i \in ActiveRows(d) :
              /\ want = NoRun \/ locks[i].holder = want \/ force
              /\ cli' = [lockId |-> i, want |-> want, force |-> force]
      BY <2>1 DEF OperatorFind
    <2>3. i \in DOMAIN locks /\ i \in Nat
      BY <2>2 DEF ActiveRows, LockInv, LockTypeOK
    <2>4. LockTypeOK' /\ CliKnowsRow'
      BY <1>1, <2>1, <2>2, <2>3
         DEF LockInv, LockTypeOK, CliKnowsRow, CliMatches, OperatorFind
    <2> QED
      BY <1>2, <2>1, <2>4 DEF LockInv, OperatorFind
  <1>6. CASE UNCHANGED lockVars
    BY <1>2, <1>6 DEF LockInv, LockTypeOK, lockVars
  <1> QED
    BY <1>3, <1>4, <1>5, <1>6

LEMMA LockStep ==
    ASSUME LockInv, [LockNext]_lockVars
    PROVE  LockInv' /\ RowsPersist /\ EndedRowsStay
    BY AcquireStep, HeartbeatStep, ReleaseStep, OperatorReleaseStep, TickStep,
       NoRowStep DEF LockNext

-----------------------------------------------------------------------------
(* The theorems.                                                           *)

LEMMA LockInitInv == LockInit => LockInv
    BY DEF LockInit, LockInv, LockTypeOK, FencingOrder, HandleOwnsRow,
           CliKnowsRow, CliMatches, NoHandle, Handle, HandleStates, CliIdle

\* What the theorems about the lock rest on: every operation on the table of
\* leases (workspace/db-domain-lock.ts) and every tick of the clock preserves it.
THEOREM LockInvariant == LockSpec => []LockInv
  <1>1. LockInv /\ [LockNext]_lockVars => LockInv'
    BY LockStep
  <1> QED
    BY LockInitInv, <1>1, PTL DEF LockSpec

\* Every value of the table, the handles and the operator's command stays in
\* its type (acquireDomainLock and the handle's methods).
THEOREM LockTypeCorrect == LockSpec => []LockTypeOK
  <1>1. LockInv => LockTypeOK
    BY DEF LockInv
  <1> QED
    BY LockInvariant, <1>1, PTL

\* Only the newest row of a domain can be active: acquireDomainLock's
\* soft-release and insert give fencing tokens that order the holders.
THEOREM Fencing == LockSpec => []FencingOrder
  <1>1. LockInv => FencingOrder
    BY DEF LockInv
  <1> QED
    BY LockInvariant, <1>1, PTL

\* heartbeat, assertHeld and release act on the caller's own row.
THEOREM HandlesOwnTheirRows == LockSpec => []HandleOwnsRow
  <1>1. LockInv => HandleOwnsRow
    BY DEF LockInv
  <1> QED
    BY LockInvariant, <1>1, PTL

\* Two runs never pass assertActiveLease for the same domain in one state.
THEOREM MutualExclusion ==
    LockSpec => [](\A r, s \in Runs : \A i, j \in DOMAIN locks :
                     ( /\ LeaseHeld(r, i) /\ LeaseHeld(s, j)
                       /\ locks[i].domain = locks[j].domain ) => r = s)
  <1>1. LockInv =>
          \A r, s \in Runs : \A i, j \in DOMAIN locks :
             ( /\ LeaseHeld(r, i) /\ LeaseHeld(s, j)
               /\ locks[i].domain = locks[j].domain ) => r = s
    <2> SUFFICES ASSUME LockInv, NEW r \in Runs, NEW s \in Runs,
                        NEW i \in DOMAIN locks, NEW j \in DOMAIN locks,
                        LeaseHeld(r, i), LeaseHeld(s, j),
                        locks[i].domain = locks[j].domain
                 PROVE  r = s
      OBVIOUS
    <2>1. i \in Nat /\ j \in Nat
      BY DEF LockInv, LockTypeOK
    <2>2. i = j
      BY <2>1 DEF LockInv, FencingOrder, LeaseHeld
    <2> QED
      BY <2>2 DEF LeaseHeld
  <1> QED
    BY LockInvariant, <1>1, PTL

\* No contender ends an unexpired lease, and an ended row is never revived:
\* heartbeat's and release's `released_at IS NULL` and acquire's expiry test.
THEOREM LeasesAreHonoured == LockSpec => LeaseIsHonoured
  <1>1. LockInv /\ [LockNext]_lockVars =>
          [\A i \in DOMAIN locks :
             /\ (Active(i) /\ locks[i].ttl > 0) => locks'[i].reason # "expired"
             /\ ~Active(i) => locks'[i] = locks[i]]_lockVars
    <2> SUFFICES ASSUME LockInv, LockNext, NEW i \in DOMAIN locks,
                        Active(i), locks[i].ttl > 0
                 PROVE  locks'[i].reason # "expired"
      BY LockStep DEF EndedRowsStay
    <2>1. CASE \E r \in Runs, d \in Domains : AcquireDomainLock(r, d)
      <3>1. PICK r \in Runs, d \in Domains : AcquireDomainLock(r, d)
        BY <2>1
      <3>2. i \notin ActiveRows(d)
        <4>1. locks[i].ttl # 0
          OBVIOUS
        <4> QED
          BY <3>1, <4>1 DEF AcquireDomainLock
      <3>3. locks'[i] = locks[i]
        BY <3>1, <3>2, AcquireRows DEF LockInv
      <3> QED
        BY <3>3 DEF Active
    <2>2. CASE \E r \in Runs : Heartbeat(r)
      <3>1. PICK r \in Runs : Heartbeat(r)
        BY <2>2
      <3>2. locks'[i].reason = locks[i].reason
        BY <3>1, RowUpdate, LeaseAssumption DEF Heartbeat, LockInv, LockTypeOK
      <3> QED
        BY <3>2 DEF Active
    <2>3. CASE \E r \in Runs : ReleaseLock(r)
      <3>1. PICK r \in Runs : ReleaseLock(r)
        BY <2>3
      <3>2. handle[r].lockId \in DOMAIN locks /\ "normal" \in Reasons
        BY <3>1 DEF ReleaseLock, LockInv, HandleOwnsRow, Reasons
      <3>3. locks'[i].reason \in {"none", "normal"}
        BY <3>1, <3>2, EndRowStep DEF ReleaseLock
      <3> QED
        BY <3>3
    <2>4. CASE OperatorRelease
      <3>1. cli.lockId \in DOMAIN locks /\ "operator" \in Reasons
        BY <2>4 DEF OperatorRelease, LockInv, CliKnowsRow, CliMatches, Reasons
      <3>2. locks'[i].reason \in {"none", "operator"}
        BY <2>4, <3>1, EndRowStep DEF OperatorRelease
      <3> QED
        BY <3>2
    <2>5. CASE Tick
      <3>0. locks[i] \in Row
        BY DEF LockInv, LockTypeOK
      <3>1. locks[i].ttl - 1 \in 0..Lease
        BY <3>0, LeaseAssumption DEF Row
      <3>2. locks'[i] = [locks[i] EXCEPT !.ttl = @ - 1]
        BY <2>5 DEF Tick
      <3>3. locks'[i].reason = locks[i].reason
        BY <3>0, <3>1, <3>2, RowUpdate
      <3> QED
        BY <3>3 DEF Active
    <2>6. CASE \/ \E r \in Runs, d \in Domains : AcquireBusy(r, d)
               \/ \E r \in Runs : CrashHolder(r)
               \/ \E d \in Domains, want \in Runs \cup {NoRun}, force \in BOOLEAN :
                    OperatorFind(d, want, force)
      <3>1. locks' = locks
        BY <2>6 DEF AcquireBusy, CrashHolder, OperatorFind
      <3> QED
        BY <3>1 DEF Active
    <2> QED
      BY <2>1, <2>2, <2>3, <2>4, <2>5, <2>6 DEF LockNext
  <1> QED
    BY LockInvariant, <1>1, PTL DEF LockSpec, LeaseIsHonoured

\* The UPDATE of `harness lock release` ends only a row its SELECT approved:
\* releaseDomainLockByDomain names the lock_id, not the domain.
THEOREM OperatorHitsOnlyMatched == LockSpec => OperatorHitsMatchedRow
  <1>1. LockInv /\ [LockNext]_lockVars =>
          [\A i \in DOMAIN locks :
             (Active(i) /\ locks'[i].reason = "operator") =>
                \/ cli.want = NoRun
                \/ cli.force
                \/ locks[i].holder = cli.want]_lockVars
    <2> SUFFICES ASSUME LockInv, LockNext, NEW i \in DOMAIN locks,
                        Active(i), locks'[i].reason = "operator"
                 PROVE  cli.want = NoRun \/ cli.force \/ locks[i].holder = cli.want
      OBVIOUS
    <2>1. CASE \E r \in Runs, d \in Domains : AcquireDomainLock(r, d)
      <3>1. PICK r \in Runs, d \in Domains : AcquireDomainLock(r, d)
        BY <2>1
      <3>2. locks[i] \in Row /\ "expired" \in Reasons
        BY DEF LockInv, LockTypeOK, Reasons
      <3>3. locks'[i] = [locks[i] EXCEPT !.reason = "expired"] \/ locks'[i] = locks[i]
        BY <3>1, AcquireRows DEF LockInv
      <3> QED
        BY <3>2, <3>3, RowUpdate DEF Active
    <2>2. CASE \E r \in Runs : Heartbeat(r)
      <3>1. PICK r \in Runs : Heartbeat(r)
        BY <2>2
      <3>2. locks'[i].reason = locks[i].reason
        BY <3>1, RowUpdate, LeaseAssumption DEF Heartbeat, LockInv, LockTypeOK
      <3> QED
        BY <3>2 DEF Active
    <2>3. CASE \E r \in Runs : ReleaseLock(r)
      <3>1. PICK r \in Runs : ReleaseLock(r)
        BY <2>3
      <3>2. handle[r].lockId \in DOMAIN locks /\ "normal" \in Reasons
        BY <3>1 DEF ReleaseLock, LockInv, HandleOwnsRow, Reasons
      <3>3. locks'[i].reason \in {"none", "normal"}
        BY <3>1, <3>2, EndRowStep DEF ReleaseLock
      <3> QED
        BY <3>3
    <2>4. CASE OperatorRelease
      <3>1. cli # CliIdle /\ CliMatches(cli) /\ "operator" \in Reasons
        BY <2>4 DEF OperatorRelease, LockInv, CliKnowsRow, Reasons
      <3>2. cli.lockId \in DOMAIN locks
        BY <3>1 DEF CliMatches
      <3>3. i # cli.lockId => locks'[i] = locks[i]
        BY <2>4, <3>1, <3>2, EndRowStep DEF OperatorRelease
      <3> QED
        BY <3>1, <3>3 DEF CliMatches, Active
    <2>5. CASE Tick
      <3>1. locks[i] \in Row
        BY DEF LockInv, LockTypeOK
      <3>2. locks[i].ttl > 0 => locks[i].ttl - 1 \in 0..Lease
        BY <3>1, LeaseAssumption DEF Row
      <3>3. locks'[i].reason = locks[i].reason
        BY <2>5, <3>1, <3>2, RowUpdate DEF Tick
      <3> QED
        BY <3>3 DEF Active
    <2>6. CASE \/ \E r \in Runs, d \in Domains : AcquireBusy(r, d)
               \/ \E r \in Runs : CrashHolder(r)
               \/ \E d \in Domains, want \in Runs \cup {NoRun}, force \in BOOLEAN :
                    OperatorFind(d, want, force)
      <3>1. locks' = locks
        BY <2>6 DEF AcquireBusy, CrashHolder, OperatorFind
      <3> QED
        BY <3>1 DEF Active
    <2> QED
      BY <2>1, <2>2, <2>3, <2>4, <2>5, <2>6 DEF LockNext
  <1> QED
    BY LockInvariant, <1>1, PTL DEF LockSpec, OperatorHitsMatchedRow

-----------------------------------------------------------------------------
(* The table implements the fenced lock.  The grant of a domain is its      *)
(* active row; by the fencing order there is at most one, so every step of  *)
(* the table ends, makes, renews or lets lapse at most the grants it names. *)

\* An active row of a domain is the row the refinement mapping chooses.
ActiveIsChosen(d) ==
    /\ \A i \in ActiveRows(d) : i = ActiveRow(d) /\ i # 0
    /\ ActiveRow(d) # 0 => ActiveRow(d) \in ActiveRows(d)

OneActive == \A d \in Domains : ActiveIsChosen(d)

LEMMA FencingGivesOneActive == LockInv => OneActive
  <1> SUFFICES ASSUME LockInv, NEW d \in Domains
               PROVE  ActiveIsChosen(d)
    BY DEF OneActive
  <1>1. \A i, j \in ActiveRows(d) : i = j /\ i # 0
    BY DEF LockInv, LockTypeOK, FencingOrder, ActiveRows
  <1>2. CASE ActiveRows(d) = {}
    BY <1>2 DEF ActiveRow, ActiveIsChosen
  <1>3. CASE ActiveRows(d) # {}
    <2>1. ActiveRow(d) = CHOOSE i \in ActiveRows(d) : TRUE
      BY <1>3 DEF ActiveRow
    <2>2. ActiveRow(d) \in ActiveRows(d)
      BY <1>3, <2>1
    <2> QED
      BY <1>1, <2>2 DEF ActiveIsChosen
  <1> QED
    BY <1>2, <1>3

\* The same before and after a step.
LEMMA OneActiveStep ==
    ASSUME LockInv, LockInv', NEW d \in Domains
    PROVE  /\ \A i \in ActiveRows(d) : i = ActiveRow(d) /\ i # 0
           /\ ActiveRow(d) # 0 => ActiveRow(d) \in ActiveRows(d)
           /\ \A i \in ActiveRows(d)' : i = ActiveRow(d)' /\ i # 0
           /\ ActiveRow(d)' # 0 => ActiveRow(d)' \in ActiveRows(d)'
  <1>1. LockInv' => OneActive'
    BY FencingGivesOneActive, PTL
  <1> QED
    BY <1>1, FencingGivesOneActive DEF OneActive, ActiveIsChosen

\* What a domain's grant looks like through the mapping.
GrantHolder(d) == IF ActiveRow(d) = 0 THEN NoRun ELSE locks[ActiveRow(d)].holder

GrantLive(d) == ActiveRow(d) # 0 /\ locks[ActiveRow(d)].ttl > 0

\* A domain none of whose rows became active or stopped being active keeps
\* its grant.
LEMMA SameActive ==
    ASSUME LockInv, LockInv', RowsPersist, NEW d \in Domains,
           ActiveRows(d)' = ActiveRows(d)
    PROVE  /\ ActiveRow(d)' = ActiveRow(d)
           /\ GrantHolder(d)' = GrantHolder(d)
           /\ ActiveRow(d) # 0 => ActiveRow(d) \in DOMAIN locks
  <1>1. ActiveRow(d)' = ActiveRow(d)
    BY OneActiveStep
  <1>2. ActiveRow(d) # 0 => ActiveRow(d) \in DOMAIN locks
    BY OneActiveStep DEF ActiveRows
  <1>3. GrantHolder(d)' = GrantHolder(d)
    BY <1>1, <1>2 DEF GrantHolder, RowsPersist
  <1> QED
    BY <1>1, <1>2, <1>3

\* A domain whose grant is active has an owner.
LEMMA OwnedIsSomeone ==
    ASSUME LockInv, LockInv', NEW d \in Domains, ActiveRow(d) # 0
    PROVE  /\ GrantHolder(d) \in Runs /\ GrantHolder(d) # NoRun
           /\ ActiveRow(d) \in DOMAIN locks
  <1>1. ActiveRow(d) \in DOMAIN locks
    BY OneActiveStep DEF ActiveRows
  <1>2. locks[ActiveRow(d)] \in Row
    BY <1>1 DEF LockInv, LockTypeOK
  <1> QED
    BY <1>1, <1>2, NoRunAssumption DEF GrantHolder, Row

\* acquireDomainLock grants the domain with a fresh token.
LEMMA AcquireGrants ==
    ASSUME LockInv, LockInv', NEW r \in Runs, NEW d \in Domains,
           AcquireDomainLock(r, d)
    PROVE  Fenced!Grant(r, d)
  <1>1. /\ Len(locks') = Len(locks) + 1
        /\ locks'[Len(locks) + 1] = NewRow(r, d)
        /\ \A i \in DOMAIN locks :
             locks'[i] = IF i \in ActiveRows(d)
                           THEN [locks[i] EXCEPT !.reason = "expired"]
                           ELSE locks[i]
    BY AcquireRows DEF LockInv
  <1>2. /\ DOMAIN locks = 1..Len(locks) /\ DOMAIN locks' = 1..(Len(locks) + 1)
        /\ Len(locks) \in Nat
        /\ DOMAIN locks' = DOMAIN locks \cup {Len(locks) + 1}
        /\ \A i \in DOMAIN locks : locks[i] \in Row
    BY <1>1 DEF LockInv, LockTypeOK
  <1>3. RowsPersist
    BY AcquireStep
  <1>4. \A e \in Domains \ {d} : ActiveRows(e)' = ActiveRows(e)
    <2> SUFFICES ASSUME NEW e \in Domains \ {d}
                 PROVE  ActiveRows(e)' = ActiveRows(e)
      OBVIOUS
    <2>1. Len(locks) + 1 \notin ActiveRows(e)'
      BY <1>1 DEF ActiveRows, NewRow
    <2>2. \A i \in DOMAIN locks : locks[i].domain = e => locks'[i] = locks[i]
      BY <1>1 DEF ActiveRows
    <2>3. \A i \in DOMAIN locks : locks'[i].domain = locks[i].domain
      BY <1>3 DEF RowsPersist
    <2> QED
      BY <1>2, <2>1, <2>2, <2>3 DEF ActiveRows, Active
  <1>5. \A e \in Domains \ {d} :
          /\ ActiveRow(e)' = ActiveRow(e) /\ GrantHolder(e)' = GrantHolder(e)
          /\ GrantLive(e)' = GrantLive(e)
    <2> SUFFICES ASSUME NEW e \in Domains \ {d}
                 PROVE  /\ ActiveRow(e)' = ActiveRow(e)
                        /\ GrantHolder(e)' = GrantHolder(e)
                        /\ GrantLive(e)' = GrantLive(e)
      OBVIOUS
    <2>1. /\ ActiveRow(e)' = ActiveRow(e) /\ GrantHolder(e)' = GrantHolder(e)
          /\ ActiveRow(e) # 0 => ActiveRow(e) \in DOMAIN locks
      BY <1>3, <1>4, SameActive
    <2>2. ActiveRow(e) # 0 => locks[ActiveRow(e)].domain = e
      BY OneActiveStep DEF ActiveRows
    <2>3. ActiveRow(e) # 0 => locks'[ActiveRow(e)] = locks[ActiveRow(e)]
      BY <1>1, <2>1, <2>2 DEF ActiveRows
    <2> QED
      BY <2>1, <2>3 DEF GrantLive
  <1>6. /\ ActiveRow(d)' = Len(locks) + 1 /\ GrantHolder(d)' = r
        /\ GrantLive(d)' = TRUE
    <2>1. Len(locks) + 1 \in ActiveRows(d)'
      BY <1>1, <1>2 DEF ActiveRows, Active, NewRow
    <2>2. ActiveRow(d)' = Len(locks) + 1 /\ ActiveRow(d)' # 0
      BY <2>1, OneActiveStep
    <2> QED
      BY <1>1, <2>2, LeaseAssumption DEF GrantHolder, GrantLive, NewRow
  <1>7. GrantHolder(d) = NoRun \/ ~GrantLive(d)
    BY OneActiveStep DEF AcquireDomainLock, GrantHolder, GrantLive, ActiveRows
  <1> QED
    BY <1>1, <1>5, <1>6, <1>7 DEF Fenced!Grant, GrantHolder, GrantLive

\* heartbeat renews the grant of its own run.
LEMMA HeartbeatRenews ==
    ASSUME LockInv, LockInv', NEW r \in Runs, Heartbeat(r)
    PROVE  \E d \in Domains : Fenced!Renew(r, d, ActiveRow(d))
  <1>0. PICK i \in DOMAIN locks, d \in Domains :
             i = handle[r].lockId /\ d = locks[i].domain
    BY DEF Heartbeat, LockInv, LockTypeOK, HandleOwnsRow, Row
  <1>1. /\ locks[i].holder = r /\ Active(i)
        /\ locks \in Seq(Row) /\ DOMAIN locks = 1..Len(locks)
        /\ locks' = [locks EXCEPT ![i].ttl = Lease]
    BY <1>0 DEF Heartbeat, LockInv, LockTypeOK
  <1>2. RowsPersist
    BY HeartbeatStep
  <1>3. /\ Len(locks') = Len(locks) /\ DOMAIN locks' = DOMAIN locks
        /\ \A k \in DOMAIN locks : locks'[k].reason = locks[k].reason
        /\ \A k \in DOMAIN locks : k # i => locks'[k] = locks[k]
        /\ locks'[i].ttl = Lease
    BY <1>1 DEF Row
  <1>4. \A e \in Domains : ActiveRows(e)' = ActiveRows(e)
    BY <1>2, <1>3 DEF ActiveRows, Active, RowsPersist
  <1>5. \A e \in Domains :
          ActiveRow(e)' = ActiveRow(e) /\ GrantHolder(e)' = GrantHolder(e)
    BY <1>2, <1>4, SameActive
  <1>6. ActiveRow(d) = i /\ i # 0
    BY <1>0, <1>1, OneActiveStep DEF ActiveRows
  <1>7. GrantHolder(d) = r /\ GrantLive(d)' = TRUE
    BY <1>1, <1>3, <1>5, <1>6, LeaseAssumption DEF GrantHolder, GrantLive
  <1>8. \A e \in Domains \ {d} : GrantLive(e)' = GrantLive(e)
    <2> SUFFICES ASSUME NEW e \in Domains \ {d}
                 PROVE  GrantLive(e)' = GrantLive(e)
      OBVIOUS
    <2>1. ActiveRow(e) # 0 =>
            /\ ActiveRow(e) \in DOMAIN locks
            /\ locks[ActiveRow(e)].domain = e
      BY OneActiveStep DEF ActiveRows
    <2>2. ActiveRow(e) # 0 => locks'[ActiveRow(e)] = locks[ActiveRow(e)]
      BY <1>0, <1>3, <2>1
    <2> QED
      BY <1>5, <2>2 DEF GrantLive
  <1>9. Fenced!Renew(r, d, ActiveRow(d))
    <2>1. [e \in Domains |-> GrantLive(e)]' =
            [[e \in Domains |-> GrantLive(e)] EXCEPT ![d] = TRUE]
      BY <1>7, <1>8
    <2>2. UNCHANGED <<[e \in Domains |-> GrantHolder(e)],
                      [e \in Domains |-> ActiveRow(e)], Len(locks)>>
      BY <1>3, <1>5
    <2>3. [e \in Domains |-> GrantHolder(e)][d] = r
      BY <1>7
    <2> QED
      BY <2>1, <2>2, <2>3 DEF Fenced!Renew, GrantHolder, GrantLive
  <1> QED
    BY <1>9

\* The mapping of a step that leaves every grant alone.
LEMMA Stutters ==
    ASSUME LockInv, LockInv', locks' = locks
    PROVE  UNCHANGED Fenced!fenceVars
  <1>1. \A d \in Domains : ActiveRows(d)' = ActiveRows(d)
    BY DEF ActiveRows, Active
  <1>2. \A d \in Domains : ActiveRow(d)' = ActiveRow(d)
    BY <1>1, OneActiveStep
  <1> QED
    BY <1>2 DEF Fenced!fenceVars

\* release and the operator's UPDATE end the grant of the row they name, or
\* change nothing when that row was ended before.
LEMMA EndRowEnds ==
    ASSUME LockInv, LockInv', NEW i \in DOMAIN locks,
           NEW q \in {"normal", "operator"},
           locks' = IF Active(i) THEN [locks EXCEPT ![i].reason = q] ELSE locks
    PROVE  (\E d \in Domains : Fenced!End(d)) \/ UNCHANGED Fenced!fenceVars
  <1>1. CASE ~Active(i)
    BY <1>1, Stutters
  <1>2. CASE Active(i)
    <2>0. q \in Reasons /\ locks[i] \in Row
      BY DEF Reasons, LockInv, LockTypeOK
    <2>d. PICK d \in Domains : d = locks[i].domain
      BY <2>0 DEF Row
    <2>1. /\ locks \in Seq(Row) /\ DOMAIN locks = 1..Len(locks)
          /\ locks' = [locks EXCEPT ![i].reason = q]
      BY <1>2 DEF LockInv, LockTypeOK, Row
    <2>2. RowsPersist
      BY <2>0, EndRowStep
    <2>3. /\ Len(locks') = Len(locks) /\ DOMAIN locks' = DOMAIN locks
          /\ \A k \in DOMAIN locks : k # i => locks'[k] = locks[k]
          /\ locks'[i].reason = q
      <3>1. /\ Len(locks') = Len(locks) /\ locks' \in Seq(Row)
            /\ \A k \in DOMAIN locks : k # i => locks'[k] = locks[k]
        BY <2>0, EndRowStep
      <3>2. locks'[i] = [locks[i] EXCEPT !.reason = q]
        BY <2>1
      <3>3. locks'[i].reason = q
        <4>1. [locks[i] EXCEPT !.reason = q].reason = q
          BY ONLY <2>0, RowUpdate
        <4> QED
          BY ONLY <3>2, <4>1
      <3>4. DOMAIN locks' = DOMAIN locks
        BY <2>1, <3>1
      <3> QED
        BY <3>1, <3>3, <3>4
    <2>4. ActiveRow(d) = i /\ i # 0
      BY <1>2, <2>d, OneActiveStep DEF ActiveRows
    <2>5. \A e \in Domains \ {d} : ActiveRows(e)' = ActiveRows(e)
      BY <2>d, <2>2, <2>3 DEF ActiveRows, Active, RowsPersist
    <2>6. \A e \in Domains \ {d} :
            /\ ActiveRow(e)' = ActiveRow(e) /\ GrantHolder(e)' = GrantHolder(e)
            /\ GrantLive(e)' = GrantLive(e)
      <3> SUFFICES ASSUME NEW e \in Domains \ {d}
                   PROVE  /\ ActiveRow(e)' = ActiveRow(e)
                          /\ GrantHolder(e)' = GrantHolder(e)
                          /\ GrantLive(e)' = GrantLive(e)
        OBVIOUS
      <3>1. /\ ActiveRow(e)' = ActiveRow(e) /\ GrantHolder(e)' = GrantHolder(e)
        BY <2>2, <2>5, SameActive
      <3>2. ActiveRow(e) # 0 =>
              /\ ActiveRow(e) \in DOMAIN locks
              /\ locks[ActiveRow(e)].domain = e
        BY OneActiveStep DEF ActiveRows
      <3>3. ActiveRow(e) # 0 => locks'[ActiveRow(e)] = locks[ActiveRow(e)]
        BY <2>d, <2>3, <3>2
      <3> QED
        BY <3>1, <3>3 DEF GrantLive
    <2>7. ActiveRow(d)' = 0
      <3>1. ActiveRows(d)' = {}
        <4>1. \A k \in ActiveRows(d) : k = i
          BY <2>1, <2>4, OneActiveStep
        <4>2. \A k \in DOMAIN locks \ {i} :
                locks'[k].domain = d /\ locks'[k].reason = "none" => k \in ActiveRows(d)
          BY <2>3 DEF ActiveRows, Active
        <4> QED
          BY <2>3, <4>1, <4>2 DEF ActiveRows, Active
      <3> QED
        BY <3>1 DEF ActiveRow
    <2>8. GrantHolder(d)' = NoRun /\ GrantLive(d)' = FALSE
      BY <2>7 DEF GrantHolder, GrantLive
    <2>9. GrantHolder(d) # NoRun
      BY <2>1, <2>4, OwnedIsSomeone
    <2> HIDE DEF GrantHolder, GrantLive
    <2>10. [e \in Domains |-> GrantHolder(e)'] = [[e \in Domains |-> GrantHolder(e)] EXCEPT ![d] = NoRun]
      BY ONLY <2>6, <2>8
    <2>14. [e \in Domains |-> GrantHolder(e)][d] # NoRun
      BY <2>9
    <2>11. [e \in Domains |-> ActiveRow(e)'] = [[e \in Domains |-> ActiveRow(e)] EXCEPT ![d] = 0]
      BY ONLY <2>6, <2>7
    <2>12. [e \in Domains |-> GrantLive(e)'] = [[e \in Domains |-> GrantLive(e)] EXCEPT ![d] = FALSE]
      BY ONLY <2>6, <2>8
    <2>13. Len(locks') = Len(locks)
      BY <2>3
    <2>15. Fenced!End(d)
      BY ONLY <2>10, <2>11, <2>12, <2>13, <2>14 DEF Fenced!End, GrantHolder, GrantLive
    <2> QED
      BY <2>15
  <1> QED
    BY <1>1, <1>2

\* A tick of the clock lets the leases lapse whose time is used up.
LEMMA TickLapses ==
    ASSUME LockInv, LockInv', Tick
    PROVE  \E lapsed \in SUBSET Domains : Fenced!Lapse(lapsed)
  <1> DEFINE L == {d \in Domains : GrantLive(d) /\ ~GrantLive(d)'}
  <1>1. RowsPersist
    BY TickStep
  <1>2. /\ DOMAIN locks = 1..Len(locks) /\ Len(locks) \in Nat
        /\ \A k \in DOMAIN locks : locks[k] \in Row
    BY DEF LockInv, LockTypeOK
  <1>3. /\ DOMAIN locks' = DOMAIN locks /\ Len(locks') = Len(locks)
    BY <1>2 DEF Tick, LockInv, LockTypeOK
  <1>4. \A k \in DOMAIN locks :
          /\ locks'[k].reason = locks[k].reason
          /\ locks[k].ttl = 0 => locks'[k].ttl = 0
    BY <1>2 DEF Tick, Row
  <1>5. \A d \in Domains : ActiveRows(d)' = ActiveRows(d)
    BY <1>1, <1>3, <1>4 DEF ActiveRows, Active, RowsPersist
  <1>6. \A d \in Domains :
          /\ ActiveRow(d)' = ActiveRow(d) /\ GrantHolder(d)' = GrantHolder(d)
          /\ ActiveRow(d) # 0 => ActiveRow(d) \in DOMAIN locks
    BY <1>1, <1>5, SameActive
  <1>7. \A d \in Domains : GrantLive(d)' => GrantLive(d)
    <2> SUFFICES ASSUME NEW d \in Domains, GrantLive(d)'
                 PROVE  GrantLive(d)
      OBVIOUS
    <2>1. ActiveRow(d) # 0 /\ ActiveRow(d) \in DOMAIN locks
      BY <1>6 DEF GrantLive
    <2>2. locks'[ActiveRow(d)].ttl > 0
      BY <1>6 DEF GrantLive
    <2>3. locks[ActiveRow(d)].ttl \in Nat /\ locks[ActiveRow(d)].ttl # 0
      BY <1>2, <1>4, <2>1, <2>2 DEF Row
    <2> QED
      BY <2>1, <2>3 DEF GrantLive
  <1>8. \A d \in L : GrantHolder(d) # NoRun /\ GrantLive(d)
    BY OwnedIsSomeone DEF GrantLive
  <1>9. \A d \in Domains : GrantLive(d)' = (GrantLive(d) /\ d \notin L)
    BY <1>7 DEF GrantLive
  <1>10. L \in SUBSET Domains
    OBVIOUS
  <1> HIDE DEF L
  <1>11. Fenced!Lapse(L)
    BY <1>3, <1>6, <1>8, <1>9, <1>10 DEF Fenced!Lapse, GrantHolder, GrantLive
  <1> QED
    BY <1>10, <1>11

LEMMA LockStepRefines ==
    ASSUME LockInv, [LockNext]_lockVars
    PROVE  [Fenced!FenceNext]_(Fenced!fenceVars)
  <1>0. LockInv'
    BY LockStep
  <1>1. CASE \E r \in Runs, d \in Domains : AcquireDomainLock(r, d)
    BY <1>0, <1>1, AcquireGrants DEF Fenced!FenceNext
  <1>2. CASE \E r \in Runs : Heartbeat(r)
    <2>1. PICK r \in Runs : Heartbeat(r)
      BY <1>2
    <2>2. PICK d \in Domains : Fenced!Renew(r, d, ActiveRow(d))
      BY <1>0, <2>1, HeartbeatRenews
    <2>3. Fenced!Renew(r, d, [e \in Domains |-> ActiveRow(e)][d])
      BY <2>2
    <2> QED
      BY <2>3 DEF Fenced!FenceNext
  <1>3. CASE \E r \in Runs : ReleaseLock(r)
    <2>1. PICK r \in Runs : ReleaseLock(r)
      BY <1>3
    <2>2. handle[r].lockId \in DOMAIN locks
      BY <2>1 DEF ReleaseLock, LockInv, HandleOwnsRow
    <2>3. locks' = IF Active(handle[r].lockId)
                     THEN [locks EXCEPT ![handle[r].lockId].reason = "normal"]
                     ELSE locks
      BY <2>1 DEF ReleaseLock
    <2>4. (\E d \in Domains : Fenced!End(d)) \/ UNCHANGED Fenced!fenceVars
      BY <1>0, <2>2, <2>3, EndRowEnds
    <2> QED
      BY <2>4 DEF Fenced!FenceNext
  <1>4. CASE OperatorRelease
    <2>1. cli.lockId \in DOMAIN locks
      BY <1>4 DEF OperatorRelease, LockInv, CliKnowsRow, CliMatches
    <2>2. locks' = IF Active(cli.lockId)
                     THEN [locks EXCEPT ![cli.lockId].reason = "operator"]
                     ELSE locks
      BY <1>4 DEF OperatorRelease
    <2>3. (\E d \in Domains : Fenced!End(d)) \/ UNCHANGED Fenced!fenceVars
      BY <1>0, <2>1, <2>2, EndRowEnds
    <2> QED
      BY <2>3 DEF Fenced!FenceNext
  <1>5. CASE Tick
    BY <1>0, <1>5, TickLapses DEF Fenced!FenceNext
  <1>6. CASE locks' = locks
    BY <1>0, <1>6, Stutters
  <1>7. \/ \E r \in Runs, d \in Domains : AcquireDomainLock(r, d)
        \/ \E r \in Runs : Heartbeat(r)
        \/ \E r \in Runs : ReleaseLock(r)
        \/ OperatorRelease
        \/ Tick
        \/ locks' = locks
    BY DEF LockNext, lockVars, AcquireBusy, CrashHolder, OperatorFind
  <1> QED
    BY <1>1, <1>2, <1>3, <1>4, <1>5, <1>6, <1>7

\* The domain_locks table is a fenced lock per domain: every step of
\* acquireDomainLock, heartbeat, release, `harness lock release` and the clock
\* is a grant with a fresh token, a renewal by the owner, an end or a lapse.
THEOREM LockImplementsFencedLock == LockSpec => ImplementsFencedLock
  <1>1. LockInit => Fenced!FenceInit
    <2> SUFFICES ASSUME LockInit PROVE Fenced!FenceInit
      OBVIOUS
    <2>1. locks = <<>>
      BY DEF LockInit
    <2>2. \A d \in Domains : ActiveRow(d) = 0
      BY <2>1 DEF ActiveRow, ActiveRows
    <2> QED
      BY <2>1, <2>2 DEF Fenced!FenceInit
  <1>2. LockInv /\ [LockNext]_lockVars => [Fenced!FenceNext]_(Fenced!fenceVars)
    BY LockStepRefines
  <1> QED
    BY <1>1, <1>2, LockInvariant, PTL
       DEF LockSpec, ImplementsFencedLock, Fenced!FenceSpec

=============================================================================
