----------------------------- MODULE HitchProofs -----------------------------
EXTENDS HitchOrchestrator, TLAPS, FiniteSetTheorems, SequenceTheorems, WellFoundedInduction

(* Least and greatest numbers.                                               *)
LEMMA LeastOf ==
  ASSUME NEW T \in SUBSET Nat, T # {}
  PROVE  \E n \in T : \A m \in T : n =< m
<1>1. IsWellFoundedOn(OpToRel(<, Nat), Nat)
  BY NatLessThanWellFounded
<1>2. PICK n \in T : \A m \in T : ~(<<m, n>> \in OpToRel(<, Nat))
  BY <1>1, WFMin
<1>3. \A m \in T : ~(m < n)
  BY <1>2 DEF OpToRel
<1> QED
  BY <1>3

(* Min of a nonempty set of numbers is its least element.                    *)
LEMMA MinOf ==
  ASSUME NEW T \in SUBSET Nat, T # {}
  PROVE  Min(T) \in T /\ \A m \in T : Min(T) =< m
BY LeastOf DEF Min

(* Max of a nonempty bounded set of numbers is its greatest element.         *)
LEMMA MaxOf ==
  ASSUME NEW T, NEW n \in Nat, T \subseteq 1..n, T # {}
  PROVE  Max(T) \in T /\ \A m \in T : m =< Max(T)
<1> DEFINE B == {k \in Nat : \A m \in T : m =< k}
<1>1. n \in B
  OBVIOUS
<1>2. PICK k \in B : \A j \in B : k =< j
  BY <1>1, LeastOf
<1>3. k \in T
  <2>1. SUFFICES ASSUME k \notin T PROVE FALSE
    OBVIOUS
  <2>2. \A m \in T : m =< k /\ m # k /\ m \in Nat /\ m >= 1
    BY <1>2, <2>1
  <2>3. k # 0 /\ \A m \in T : m =< k - 1
    <3>1. PICK m \in T : TRUE
      OBVIOUS
    <3> QED
      BY <1>2, <2>2, <3>1
  <2>4. k - 1 \in B
    BY <1>2, <2>3
  <2> QED
    BY <1>2, <2>4
<1>4. \E x \in T : \A y \in T : x >= y
  BY <1>2, <1>3
<1>5. Max(T) \in T /\ \A y \in T : Max(T) >= y
  BY <1>4 DEF Max
<1> QED
  BY <1>5

(* The rules.                                                                *)
RuleRecords == [guard : BOOLEAN, verdict : [decision : Decisions, action : NextActions]]

(* The rules are a table of the type FirstHolding is defined on, and the     *)
(* last one always holds.                                                    *)
LEMMA RuleTable ==
  ASSUME NEW h
  PROVE  Rules(h) \in RuleTables /\ DOMAIN Rules(h) = 1..21 /\ Rules(h)[21].guard
<1>1. \A g \in BOOLEAN : \A d \in Decisions, a \in NextActions : Rule(g, d, a) \in RuleRecords
  BY DEF Rule, RuleRecords
<1>2. /\ BudgetExceeded(h) \in BOOLEAN /\ Diverging(h) \in BOOLEAN /\ AllPassed(h) \in BOOLEAN
      /\ NoBlocker(h) \in BOOLEAN /\ BudgetReached(h) \in BOOLEAN /\ ReviewDue(h) \in BOOLEAN
      /\ LatestCodingSucceeded(h) \in BOOLEAN /\ SomeFailed(h) \in BOOLEAN
      /\ LatestCodingFailed(h) \in BOOLEAN
      /\ \A kind : Pending(h, kind) \in BOOLEAN
  BY DEF BudgetExceeded, Diverging, AllPassed, NoBlocker, BudgetReached, ReviewDue,
         LatestCodingSucceeded, SomeFailed, LatestCodingFailed, Pending, ReviewPending, HasAttempt
<1>3. DOMAIN Rules(h) = 1..21 /\ Rules(h)[21].guard
  BY DEF Rules, Rule
<1>4. \A n \in 1..21 : Rules(h)[n] \in RuleRecords
  <2>1. /\ Rules(h)[1] \in RuleRecords /\ Rules(h)[2] \in RuleRecords
        /\ Rules(h)[3] \in RuleRecords /\ Rules(h)[4] \in RuleRecords
        /\ Rules(h)[5] \in RuleRecords /\ Rules(h)[6] \in RuleRecords
        /\ Rules(h)[7] \in RuleRecords
    BY <1>2 DEF Rules, Rule, RuleRecords, Decisions, NextActions
  <2>2. /\ Rules(h)[8] \in RuleRecords /\ Rules(h)[9] \in RuleRecords
        /\ Rules(h)[10] \in RuleRecords /\ Rules(h)[11] \in RuleRecords
        /\ Rules(h)[12] \in RuleRecords /\ Rules(h)[13] \in RuleRecords
        /\ Rules(h)[14] \in RuleRecords
    BY <1>2 DEF Rules, Rule, RuleRecords, Decisions, NextActions
  <2>3. /\ Rules(h)[15] \in RuleRecords /\ Rules(h)[16] \in RuleRecords
        /\ Rules(h)[17] \in RuleRecords /\ Rules(h)[18] \in RuleRecords
        /\ Rules(h)[19] \in RuleRecords /\ Rules(h)[20] \in RuleRecords
        /\ Rules(h)[21] \in RuleRecords
    BY <1>2 DEF Rules, Rule, RuleRecords, Decisions, NextActions
  <2> QED
    BY <2>1, <2>2, <2>3
<1>5. Rules(h) \in Seq(RuleRecords)
  <2>1. Rules(h) = [n \in 1..21 |-> Rules(h)[n]]
    BY DEF Rules
  <2> QED
    BY <1>4, <2>1
<1> QED
  BY <1>3, <1>5 DEF RuleTables, RuleRecords

(* A decision is the verdict of a rule that holds while none before it does. *)
LEMMA FirstRule ==
  ASSUME NEW h
  PROVE  \E m \in 1..21 : /\ Rules(h)[m].guard
                          /\ Decide(h) = Rules(h)[m].verdict
                          /\ \A n \in 1..21 : n < m => ~Rules(h)[n].guard
<1> DEFINE T == {n \in DOMAIN Rules(h) : Rules(h)[n].guard}
<1>1. T \in SUBSET Nat /\ T # {} /\ T \subseteq 1..21
  BY RuleTable
<1>2. Decide(h) = Rules(h)[Min(T)].verdict
  BY RuleTable DEF Decide, FirstHolding
<1>3. Min(T) \in T /\ \A m \in T : Min(T) =< m
  BY <1>1, MinOf
<1>4. Min(T) \in 1..21 /\ Rules(h)[Min(T)].guard
  BY <1>1, <1>3
<1>5. ASSUME NEW n \in 1..21, n < Min(T), Rules(h)[n].guard PROVE FALSE
  <2>1. n \in T
    BY <1>5, RuleTable
  <2>2. Min(T) =< n
    BY <1>3, <2>1
  <2> QED
    BY <1>1, <1>3, <1>5, <2>2
<1> QED
  BY <1>2, <1>4, <1>5

(* What the decisions that the budgets hang on say about the tables.         *)
LEMMA FixSaysBudget ==
  ASSUME NEW h, Decide(h).decision = "needs_fix"
  PROVE  ~BudgetReached(h)
<1>1. PICK m \in 1..21 : /\ Rules(h)[m].guard
                         /\ Decide(h) = Rules(h)[m].verdict
                         /\ \A n \in 1..21 : n < m => ~Rules(h)[n].guard
  BY FirstRule
<1>2. m > 10
  BY <1>1 DEF Rules, Rule
<1>3. Rules(h)[10].guard <=> BudgetReached(h)
  BY DEF Rules, Rule
<1> QED
  BY <1>1, <1>2, <1>3

(* A review is only routed to while a cycle is left.                         *)
LEMMA ReviewSaysBudget ==
  ASSUME NEW h, MayReview(Decide(h))
  PROVE  CyclesUsed(h) < h.max.cycles
<1>1. PICK m \in 1..21 : Rules(h)[m].guard /\ Decide(h) = Rules(h)[m].verdict
  BY FirstRule
<1>2. m \in {9, 11, 18}
  BY <1>1 DEF Rules, Rule, MayReview
<1>3. /\ Rules(h)[9].guard => ReviewDue(h)
      /\ Rules(h)[11].guard => ReviewDue(h)
      /\ Rules(h)[18].guard => CyclesUsed(h) < h.max.cycles
  BY DEF Rules, Rule
<1> QED
  BY <1>1, <1>2, <1>3 DEF ReviewDue

(* A hitch is only ready to close when every condition passed.               *)
LEMMA ReadySaysPassed ==
  ASSUME NEW h, Decide(h).decision = "close_ready"
  PROVE  AllPassed(h)
<1>1. PICK m \in 1..21 : Rules(h)[m].guard /\ Decide(h) = Rules(h)[m].verdict
  BY FirstRule
<1>2. m = 8
  BY <1>1 DEF Rules, Rule
<1>3. Rules(h)[8].guard => AllPassed(h)
  BY DEF Rules, Rule
<1> QED
  BY <1>1, <1>2, <1>3

-----------------------------------------------------------------------------
(* The rows of a hitch and what the repositories do to them.                 *)

HitchFields == {"status", "max", "attempts", "cycles", "findings", "checks", "runs", "prs", "push"}
Attempts == [rerun : BOOLEAN, status : {"running", "succeeded", "failed"},
             run : 0..MaxRuns, seen : Nat]
Findings == [sev : Severities, scope : Scopes, life : Lives, cycle : Nat, reopens : Nat]
Checks == [status : {"none", "passed", "failed"}, run : 0..MaxRuns, staleBy : SUBSET Nat]

AttemptsOK(h) ==
  /\ \E n \in Nat : DOMAIN h.attempts \subseteq 1..n
  /\ h.attempts \in [DOMAIN h.attempts -> Attempts]

RowsOK(h) ==
  /\ DOMAIN h = HitchFields
  /\ h.status \in HitchStatuses
  /\ h.max \in [{"iterations", "cycles", "reruns"} -> Nat]
  /\ AttemptsOK(h)
  /\ h.cycles \in Seq([run : Runs])
  /\ h.findings \in [Keys -> Findings]
  /\ h.checks \in [Conditions -> Checks]
  /\ h.runs \in Seq([status : RunStatuses, parent : 0..MaxRuns])
  /\ h.prs \subseteq Runs
  /\ h.push \in [run : 0..MaxRuns, n : Nat]

(* Only some of the fields change.                                           *)
Touches(h, g, fields) ==
  DOMAIN g = HitchFields /\ \A f \in HitchFields \ fields : g[f] = h[f]

(* A check row is as it was, but may be outdated by who.                     *)
Outdated(h, g, who) ==
  \A c \in Conditions :
    /\ g.checks[c].status = h.checks[c].status
    /\ g.checks[c].run = h.checks[c].run
    /\ g.checks[c].staleBy = IF h.checks[c].status = "none" THEN h.checks[c].staleBy
                             ELSE h.checks[c].staleBy \cup {who}

(* The check of c was recorded.                                              *)
Recorded(h, g, c, s, r) ==
  \A x \in Conditions :
    g.checks[x] = IF x = c THEN [status |-> s, run |-> r, staleBy |-> {}] ELSE h.checks[x]

(* Attempt i was created, completed with run r, or discarded.                *)
Made(h, g, i) ==
  /\ i \notin DOMAIN h.attempts
  /\ DOMAIN g.attempts = DOMAIN h.attempts \cup {i}
  /\ g.attempts[i].run = 0
  /\ g.attempts[i].rerun = HasAttempt(h)
  /\ \A j \in DOMAIN h.attempts : g.attempts[j] = h.attempts[j]

Completed(h, g, i, r) ==
  /\ DOMAIN g.attempts = DOMAIN h.attempts
  /\ \A j \in DOMAIN h.attempts :
       /\ g.attempts[j].rerun = h.attempts[j].rerun
       /\ g.attempts[j].run = IF j = i /\ r # 0 THEN r ELSE h.attempts[j].run

Discarded(h, g, i) ==
  /\ DOMAIN g.attempts = DOMAIN h.attempts \ {i}
  /\ \A j \in DOMAIN h.attempts \ {i} : g.attempts[j] = h.attempts[j]
  /\ \A c \in Conditions : /\ g.checks[c].status = h.checks[c].status
                           /\ g.checks[c].run = h.checks[c].run
                           /\ g.checks[c].staleBy = h.checks[c].staleBy \ {i}

(* The status of run r was written.                                          *)
Moved(h, g, r, s) ==
  /\ Len(g.runs) = Len(h.runs)
  /\ \A x \in 1..Len(h.runs) : g.runs[x].status = IF x = r THEN s ELSE h.runs[x].status

(* A review of run r was imported.                                           *)
Imported(h, g, r, v) ==
  /\ g.cycles = Append(h.cycles, [run |-> r])
  /\ \A c \in Conditions :
       IF c = "review_consensus"
       THEN g.checks[c] = [status |-> IF v = "approved" THEN "passed" ELSE "failed",
                           run |-> r, staleBy |-> {}]
       ELSE /\ g.checks[c].status = h.checks[c].status
            /\ g.checks[c].run = h.checks[c].run
            /\ g.checks[c].staleBy \subseteq h.checks[c].staleBy \cup {0}
  /\ \A k \in Keys : Blocks(h.findings[k]) /\ ~Blocks(g.findings[k]) =>
       /\ v = "approved" /\ k \in ChangeKeys
       /\ LatestRun(h) \in {0, r}
       /\ h.findings[k].cycle < Len(h.cycles) + 1

(* The status is written.                                                    *)
LEMMA StatusRows ==
  ASSUME NEW h, RowsOK(h), NEW s \in HitchStatuses
  PROVE  /\ RowsOK([h EXCEPT !.status = s])
         /\ Touches(h, [h EXCEPT !.status = s], {"status"})
<1> DEFINE g == [h EXCEPT !.status = s]
<1>1. DOMAIN g = HitchFields /\ g.status = s /\ \A f \in HitchFields \ {"status"} : g[f] = h[f]
  BY DEF RowsOK, HitchFields
<1> HIDE DEF g
<1>2. RowsOK(g) /\ Touches(h, g, {"status"})
  BY <1>1 DEF RowsOK, AttemptsOK, Touches, HitchFields
<1> QED
  BY <1>2 DEF g

(* syncHitchStatusForConvergence writes the status at most.                  *)
LEMMA SyncRows ==
  ASSUME NEW h, RowsOK(h), NEW d
  PROVE  RowsOK(Sync(h, d)) /\ Touches(h, Sync(h, d), {"status"})
<1>1. d \in DOMAIN StatusFor => StatusFor[d] \in HitchStatuses
  BY DEF StatusFor, HitchStatuses
<1>2. Touches(h, h, {"status"})
  BY DEF Touches, RowsOK
<1>3. "in_progress" \in HitchStatuses
  BY DEF HitchStatuses
<1> QED
  BY <1>1, <1>2, <1>3, StatusRows DEF Sync

(* So does an escalation.                                                    *)
LEMMA EscalatedRows ==
  ASSUME NEW h, RowsOK(h)
  PROVE  RowsOK(Escalated(h)) /\ Touches(h, Escalated(h), {"status"})
<1>1. "escalated" \in HitchStatuses
  BY DEF HitchStatuses
<1> QED
  BY <1>1, StatusRows DEF Escalated

(* The check rows are replaced.                                              *)
LEMMA ChecksRows ==
  ASSUME NEW h, RowsOK(h), NEW checks \in [Conditions -> Checks]
  PROVE  LET g == [h EXCEPT !.checks = checks]
         IN  RowsOK(g) /\ Touches(h, g, {"checks"}) /\ g.checks = checks
<1> DEFINE g == [h EXCEPT !.checks = checks]
<1>1. DOMAIN g = HitchFields /\ g.checks = checks /\ \A f \in HitchFields \ {"checks"} : g[f] = h[f]
  BY DEF RowsOK, HitchFields
<1> HIDE DEF g
<1>2. RowsOK(g) /\ Touches(h, g, {"checks"}) /\ g.checks = checks
  BY <1>1 DEF RowsOK, AttemptsOK, Touches, HitchFields
<1> QED
  BY <1>2 DEF g

(* A write outdates every recorded check.                                    *)
LEMMA OutdateRows ==
  ASSUME NEW h, RowsOK(h), NEW who \in Nat
  PROVE  LET g == Outdate(h, who)
         IN  RowsOK(g) /\ Touches(h, g, {"checks"}) /\ Outdated(h, g, who)
<1> DEFINE checks == [c \in Conditions |->
             IF h.checks[c].status = "none" THEN h.checks[c]
             ELSE [h.checks[c] EXCEPT !.staleBy = @ \cup {who}]]
<1>1. \A c \in Conditions : h.checks[c] \in Checks
  BY DEF RowsOK
<1>2. \A c \in Conditions :
        /\ checks[c] \in Checks
        /\ checks[c].status = h.checks[c].status
        /\ checks[c].run = h.checks[c].run
        /\ checks[c].staleBy = IF h.checks[c].status = "none" THEN h.checks[c].staleBy
                               ELSE h.checks[c].staleBy \cup {who}
  BY <1>1 DEF Checks
<1>3. checks \in [Conditions -> Checks]
  BY <1>2
<1>4. Outdate(h, who) = [h EXCEPT !.checks = checks]
  BY DEF Outdate
<1> HIDE DEF checks
<1> QED
  BY <1>2, <1>3, <1>4, ChecksRows DEF Outdated

(* A check is recorded and becomes fresh.                                    *)
LEMMA RecordRows ==
  ASSUME NEW h, RowsOK(h), NEW c, NEW s \in {"none", "passed", "failed"}, NEW r \in 0..MaxRuns
  PROVE  LET g == RecordCheck(h, c, s, r)
         IN  RowsOK(g) /\ Touches(h, g, {"checks"}) /\ Recorded(h, g, c, s, r)
<1> DEFINE checks == [x \in Conditions |->
             IF x = c THEN [status |-> s, run |-> r, staleBy |-> {}] ELSE h.checks[x]]
<1>1. checks \in [Conditions -> Checks]
  BY DEF RowsOK, Checks
<1>2. RecordCheck(h, c, s, r) = [h EXCEPT !.checks = checks]
  BY DEF RecordCheck
<1>3. \A x \in Conditions : checks[x] = IF x = c THEN [status |-> s, run |-> r, staleBy |-> {}]
                                               ELSE h.checks[x]
  OBVIOUS
<1> HIDE DEF checks
<1>4. Recorded(h, [h EXCEPT !.checks = checks], c, s, r)
  BY <1>1, <1>3, ChecksRows DEF Recorded
<1> QED
  BY <1>1, <1>2, <1>4, ChecksRows

(* The finding rows are replaced.                                            *)
LEMMA FindingsRows ==
  ASSUME NEW h, RowsOK(h), NEW findings \in [Keys -> Findings]
  PROVE  LET g == [h EXCEPT !.findings = findings]
         IN  RowsOK(g) /\ Touches(h, g, {"findings"}) /\ g.findings = findings
<1> DEFINE g == [h EXCEPT !.findings = findings]
<1>1. DOMAIN g = HitchFields /\ g.findings = findings /\ \A f \in HitchFields \ {"findings"} : g[f] = h[f]
  BY DEF RowsOK, HitchFields
<1> HIDE DEF g
<1>2. RowsOK(g) /\ Touches(h, g, {"findings"}) /\ g.findings = findings
  BY <1>1 DEF RowsOK, AttemptsOK, Touches, HitchFields
<1> QED
  BY <1>2 DEF g

(* A finding is written, which outdates the checks.                          *)
LEMMA SetFindingRows ==
  ASSUME NEW h, RowsOK(h), NEW k \in Keys, NEW f \in Findings
  PROVE  LET g == SetFinding(h, k, f)
         IN  /\ RowsOK(g) /\ Touches(h, g, {"findings", "checks"}) /\ Outdated(h, g, Tables)
             /\ g.findings = [h.findings EXCEPT ![k] = f]
<1> DEFINE i == [h EXCEPT !.findings[k] = f]
           F == [h.findings EXCEPT ![k] = f]
<1>1. F \in [Keys -> Findings] /\ i = [h EXCEPT !.findings = F]
  BY DEF RowsOK
<1> HIDE DEF F
<1>2. RowsOK(i) /\ Touches(h, i, {"findings"}) /\ i.findings = F
  BY <1>1, FindingsRows
<1>3. SetFinding(h, k, f) = Outdate(i, 0)
  BY DEF SetFinding, Tables
<1> HIDE DEF i
<1> DEFINE g == Outdate(i, 0)
<1>4. RowsOK(g) /\ Touches(i, g, {"checks"}) /\ Outdated(i, g, 0)
  BY <1>2, OutdateRows
<1> HIDE DEF g
<1>5. Touches(h, g, {"findings", "checks"}) /\ g.findings = F
  BY <1>2, <1>4 DEF Touches, HitchFields
<1>6. Outdated(h, g, 0)
  BY <1>2, <1>4 DEF Touches, HitchFields, Outdated
<1> QED
  BY <1>3, <1>4, <1>5, <1>6 DEF g, F, Tables

(* The attempt rows are replaced.                                            *)
LEMMA AttemptsRows ==
  ASSUME NEW h, RowsOK(h), NEW n \in Nat, NEW D \in SUBSET (1..n), NEW a \in [D -> Attempts]
  PROVE  LET g == [h EXCEPT !.attempts = a]
         IN  RowsOK(g) /\ Touches(h, g, {"attempts"}) /\ g.attempts = a
<1> DEFINE g == [h EXCEPT !.attempts = a]
<1>1. DOMAIN g = HitchFields /\ g.attempts = a /\ \A f \in HitchFields \ {"attempts"} : g[f] = h[f]
  BY DEF RowsOK, HitchFields
<1> HIDE DEF g
<1>2. DOMAIN a = D
  OBVIOUS
<1>3. AttemptsOK(g)
  BY <1>1, <1>2 DEF AttemptsOK
<1>4. RowsOK(g) /\ Touches(h, g, {"attempts"}) /\ g.attempts = a
  BY <1>1, <1>3 DEF RowsOK, Touches, HitchFields
<1> QED
  BY <1>4 DEF g

(* The iterations used bound the attempts that exist.                        *)
LEMMA IterationFacts ==
  ASSUME NEW h, RowsOK(h)
  PROVE  /\ IterationsUsed(h) \in Nat
         /\ \A i \in DOMAIN h.attempts : i \in 1..IterationsUsed(h)
         /\ HasAttempt(h) => IterationsUsed(h) \in DOMAIN h.attempts
         /\ IsFiniteSet(DOMAIN h.attempts)
<1>1. PICK n \in Nat : DOMAIN h.attempts \subseteq 1..n
  BY DEF RowsOK, AttemptsOK
<1>2. IsFiniteSet(DOMAIN h.attempts)
  BY <1>1, FS_Interval, FS_Subset
<1>3. CASE DOMAIN h.attempts = {}
  BY <1>2, <1>3 DEF IterationsUsed, HasAttempt
<1>4. CASE DOMAIN h.attempts # {}
  <2>1. Max(DOMAIN h.attempts) \in DOMAIN h.attempts /\ \A i \in DOMAIN h.attempts : i =< Max(DOMAIN h.attempts)
    BY <1>1, <1>4, MaxOf
  <2> QED
    BY <1>1, <1>2, <1>4, <2>1 DEF IterationsUsed
<1> QED
  BY <1>3, <1>4

(* createAttempt adds a new row with the next index.                         *)
LEMMA CreateRows ==
  ASSUME NEW h, RowsOK(h)
  PROVE  LET g == CreateAttempt(h)
             i == IterationsUsed(h) + 1
         IN  /\ RowsOK(g) /\ Touches(h, g, {"attempts", "checks"}) /\ Outdated(h, g, i)
             /\ i \in Nat \ {0} /\ Made(h, g, i)
<1> DEFINE i == IterationsUsed(h) + 1
           attempt == [rerun |-> HasAttempt(h), status |-> "running", run |-> 0, seen |-> CyclesUsed(h)]
           a == [j \in DOMAIN h.attempts \cup {i} |-> IF j = i THEN attempt ELSE h.attempts[j]]
           e == [h EXCEPT !.attempts = a]
<1>1. i \in Nat \ {0} /\ i \notin DOMAIN h.attempts
  BY IterationFacts
<1>2. attempt \in Attempts
  <2>1. MaxRuns \in Nat
    BY OrchestratorAssumption
  <2>2. CyclesUsed(h) \in Nat
    BY DEF RowsOK, CyclesUsed
  <2> QED
    BY <2>1, <2>2 DEF Attempts, HasAttempt
<1>3. a \in [DOMAIN h.attempts \cup {i} -> Attempts]
  BY <1>2 DEF RowsOK, AttemptsOK
<1>4. DOMAIN h.attempts \cup {i} \in SUBSET (1..i)
  BY <1>1, IterationFacts
<1>5. CreateAttempt(h) = Outdate(e, i)
  BY DEF CreateAttempt
<1>6. /\ DOMAIN a = DOMAIN h.attempts \cup {i} /\ a[i] = attempt
      /\ \A j \in DOMAIN h.attempts : a[j] = h.attempts[j]
  BY <1>1
<1>7. attempt.run = 0 /\ attempt.rerun = HasAttempt(h)
  OBVIOUS
<1> HIDE DEF i, a, attempt
<1>8. RowsOK(e) /\ Touches(h, e, {"attempts"}) /\ e.attempts = a
  BY <1>1, <1>3, <1>4, AttemptsRows
<1> HIDE DEF e
<1> DEFINE g == Outdate(e, i)
<1>9. RowsOK(g) /\ Touches(e, g, {"checks"}) /\ Outdated(e, g, i)
  BY <1>1, <1>8, OutdateRows
<1> HIDE DEF g
<1>10. Touches(h, g, {"attempts", "checks"}) /\ Outdated(h, g, i) /\ g.attempts = a
  BY <1>8, <1>9 DEF Touches, HitchFields, Outdated
<1>11. Made(h, g, i)
  BY <1>1, <1>6, <1>7, <1>10 DEF Made
<1> QED
  BY <1>1, <1>5, <1>9, <1>10, <1>11 DEF g, i

(* completeAttempt keeps which attempts there are.                           *)
LEMMA CompleteRows ==
  ASSUME NEW h, RowsOK(h), NEW i \in Nat, NEW s \in {"running", "succeeded", "failed"},
         NEW r \in 0..MaxRuns
  PROVE  LET g == CompleteAttempt(h, i, s, r)
         IN  /\ RowsOK(g) /\ Touches(h, g, {"attempts", "checks"}) /\ Outdated(h, g, i)
             /\ Completed(h, g, i, r)
<1> DEFINE e == [h EXCEPT !.attempts[i].status = s,
                          !.attempts[i].run = IF r = 0 THEN @ ELSE r]
           a == [j \in DOMAIN h.attempts |->
                   IF j = i THEN [h.attempts[j] EXCEPT !.status = s, !.run = IF r = 0 THEN @ ELSE r]
                            ELSE h.attempts[j]]
<1>1. h.attempts \in [DOMAIN h.attempts -> Attempts] /\ DOMAIN h = HitchFields
  BY DEF RowsOK, AttemptsOK
<1>2. e = [h EXCEPT !.attempts = a]
  BY <1>1 DEF HitchFields
<1>3. PICK n \in Nat : DOMAIN h.attempts \subseteq 1..n
  BY DEF RowsOK, AttemptsOK
<1>4. /\ a \in [DOMAIN h.attempts -> Attempts]
      /\ \A j \in DOMAIN h.attempts :
           /\ a[j].rerun = h.attempts[j].rerun
           /\ a[j].run = IF j = i /\ r # 0 THEN r ELSE h.attempts[j].run
  BY <1>1 DEF Attempts
<1>5. CompleteAttempt(h, i, s, r) = Outdate(e, i)
  BY DEF CompleteAttempt
<1> HIDE DEF a, e
<1>6. RowsOK(e) /\ Touches(h, e, {"attempts"}) /\ e.attempts = a
  <2>1. DOMAIN h.attempts \in SUBSET (1..n)
    BY <1>3
  <2> QED
    BY <1>2, <1>4, <2>1, AttemptsRows
<1> DEFINE g == Outdate(e, i)
<1>7. RowsOK(g) /\ Touches(e, g, {"checks"}) /\ Outdated(e, g, i)
  BY <1>6, OutdateRows
<1> HIDE DEF g
<1>8. Touches(h, g, {"attempts", "checks"}) /\ Outdated(h, g, i) /\ g.attempts = a
  BY <1>6, <1>7 DEF Touches, HitchFields, Outdated
<1>9. DOMAIN a = DOMAIN h.attempts
  BY <1>4
<1>10. Completed(h, g, i, r)
  BY <1>4, <1>8, <1>9 DEF Completed
<1> QED
  BY <1>5, <1>7, <1>8, <1>10 DEF g

(* discardAttempt removes one row and its mark on the checks.                *)
LEMMA DiscardRows ==
  ASSUME NEW h, RowsOK(h), NEW i \in Nat
  PROVE  LET g == DiscardAttempt(h, i)
         IN  RowsOK(g) /\ Touches(h, g, {"attempts", "checks"}) /\ Discarded(h, g, i)
<1> DEFINE a == [j \in DOMAIN h.attempts \ {i} |-> h.attempts[j]]
           checks == [c \in Conditions |-> [h.checks[c] EXCEPT !.staleBy = @ \ {i}]]
           e == [h EXCEPT !.attempts = a]
           g == [e EXCEPT !.checks = checks]
<1>1. PICK n \in Nat : DOMAIN h.attempts \subseteq 1..n
  BY DEF RowsOK, AttemptsOK
<1>2. a \in [DOMAIN h.attempts \ {i} -> Attempts]
  BY DEF RowsOK, AttemptsOK
<1>3. \A c \in Conditions : h.checks[c] \in Checks
  BY DEF RowsOK
<1>4. \A c \in Conditions : /\ checks[c] \in Checks
                            /\ checks[c].status = h.checks[c].status
                            /\ checks[c].run = h.checks[c].run
                            /\ checks[c].staleBy = h.checks[c].staleBy \ {i}
  BY <1>3 DEF Checks
<1>5. checks \in [Conditions -> Checks]
  BY <1>4
<1>6. DiscardAttempt(h, i) = g
  BY DEF DiscardAttempt, RowsOK, HitchFields
<1>7. DOMAIN a = DOMAIN h.attempts \ {i} /\ \A j \in DOMAIN h.attempts \ {i} : a[j] = h.attempts[j]
  OBVIOUS
<1> HIDE DEF a, checks
<1>8. RowsOK(e) /\ Touches(h, e, {"attempts"}) /\ e.attempts = a
  BY <1>1, <1>2, AttemptsRows
<1> HIDE DEF e
<1>9. RowsOK(g) /\ Touches(e, g, {"checks"}) /\ g.checks = checks
  BY <1>5, <1>8, ChecksRows
<1> HIDE DEF g
<1>10. Touches(h, g, {"attempts", "checks"}) /\ g.attempts = a
  BY <1>8, <1>9 DEF Touches, HitchFields
<1>11. Discarded(h, g, i)
  BY <1>4, <1>7, <1>9, <1>10 DEF Discarded
<1> QED
  BY <1>6, <1>9, <1>10, <1>11

(* A review cycle is added.                                                  *)
LEMMA CycleRows ==
  ASSUME NEW h, RowsOK(h), NEW r \in Runs
  PROVE  LET g == AddCycle(h, r)
         IN  /\ RowsOK(g) /\ Touches(h, g, {"cycles", "checks"}) /\ Outdated(h, g, 0)
             /\ g.cycles = Append(h.cycles, [run |-> r])
<1> DEFINE C == Append(h.cycles, [run |-> r])
           e == [h EXCEPT !.cycles = C]
<1>1. C \in Seq([run : Runs])
  BY DEF RowsOK
<1>2. AddCycle(h, r) = Outdate(e, 0)
  BY DEF AddCycle, Tables
<1> HIDE DEF C
<1>3. DOMAIN e = HitchFields /\ e.cycles = C /\ \A f \in HitchFields \ {"cycles"} : e[f] = h[f]
  BY DEF RowsOK, HitchFields
<1> HIDE DEF e
<1>4. RowsOK(e) /\ Touches(h, e, {"cycles"})
  BY <1>1, <1>3 DEF RowsOK, AttemptsOK, Touches, HitchFields
<1> DEFINE g == Outdate(e, 0)
<1>5. RowsOK(g) /\ Touches(e, g, {"checks"}) /\ Outdated(e, g, 0)
  BY <1>4, OutdateRows
<1> HIDE DEF g
<1>6. Touches(h, g, {"cycles", "checks"}) /\ Outdated(h, g, 0) /\ g.cycles = C
  BY <1>3, <1>4, <1>5 DEF Touches, HitchFields, Outdated
<1> QED
  BY <1>2, <1>5, <1>6 DEF g, C

(* The runs are replaced.                                                    *)
LEMMA RunsRows ==
  ASSUME NEW h, RowsOK(h), NEW runs \in Seq([status : RunStatuses, parent : 0..MaxRuns])
  PROVE  LET g == [h EXCEPT !.runs = runs]
         IN  RowsOK(g) /\ Touches(h, g, {"runs"}) /\ g.runs = runs
<1> DEFINE g == [h EXCEPT !.runs = runs]
<1>1. DOMAIN g = HitchFields /\ g.runs = runs /\ \A f \in HitchFields \ {"runs"} : g[f] = h[f]
  BY DEF RowsOK, HitchFields
<1> HIDE DEF g
<1>2. RowsOK(g) /\ Touches(h, g, {"runs"}) /\ g.runs = runs
  BY <1>1 DEF RowsOK, AttemptsOK, Touches, HitchFields
<1> QED
  BY <1>2 DEF g

(* The status of one run is written.                                         *)
LEMMA RunStatusRows ==
  ASSUME NEW h, RowsOK(h), NEW r, NEW s \in RunStatuses
  PROVE  LET g == [h EXCEPT !.runs[r].status = s]
         IN  RowsOK(g) /\ Touches(h, g, {"runs"}) /\ Moved(h, g, r, s)
<1> DEFINE R == [status : RunStatuses, parent : 0..MaxRuns]
           runs == [x \in 1..Len(h.runs) |->
                      IF x = r THEN [h.runs[x] EXCEPT !.status = s] ELSE h.runs[x]]
           g == [h EXCEPT !.runs[r].status = s]
<1>1. h.runs \in Seq(R) /\ DOMAIN h = HitchFields
  BY DEF RowsOK
<1>2. /\ DOMAIN h.runs = 1..Len(h.runs) /\ Len(h.runs) \in Nat
      /\ \A x \in 1..Len(h.runs) : h.runs[x] \in R
  <2> HIDE DEF R
  <2> QED
    BY <1>1
<1>3. \A x \in 1..Len(h.runs) :
        runs[x] \in R /\ runs[x].status = IF x = r THEN s ELSE h.runs[x].status
  BY <1>2
<1>4. [h.runs EXCEPT ![r].status = s] = runs
  BY <1>2
<1>5. g = [h EXCEPT !.runs = runs]
  BY <1>4
<1>6. runs \in Seq(R) /\ Len(runs) = Len(h.runs)
  <2> HIDE DEF R
  <2>1. runs \in [1..Len(h.runs) -> R]
    BY <1>3
  <2> QED
    BY <1>2, <2>1
<1> HIDE DEF runs, g
<1>7. RowsOK(g) /\ Touches(h, g, {"runs"}) /\ g.runs = runs
  BY <1>5, <1>6, RunsRows
<1> QED
  BY <1>3, <1>6, <1>7 DEF g, Moved

(* A pull request is added.                                                  *)
LEMMA PrsRows ==
  ASSUME NEW h, RowsOK(h), NEW r \in Runs
  PROVE  LET g == [h EXCEPT !.prs = @ \cup {r}]
         IN  RowsOK(g) /\ Touches(h, g, {"prs"}) /\ g.prs = h.prs \cup {r}
<1> DEFINE g == [h EXCEPT !.prs = @ \cup {r}]
<1>1. DOMAIN g = HitchFields /\ g.prs = h.prs \cup {r} /\ \A f \in HitchFields \ {"prs"} : g[f] = h[f]
  BY DEF RowsOK, HitchFields
<1> HIDE DEF g
<1>2. RowsOK(g) /\ Touches(h, g, {"prs"}) /\ g.prs = h.prs \cup {r}
  BY <1>1 DEF RowsOK, AttemptsOK, Touches, HitchFields
<1> QED
  BY <1>2 DEF g

(* A failed push is counted.                                                 *)
LEMMA PushRows ==
  ASSUME NEW h, RowsOK(h), NEW r \in 0..MaxRuns
  PROVE  RowsOK(CountPush(h, r)) /\ Touches(h, CountPush(h, r), {"push"})
<1> DEFINE P == [run |-> r, n |-> IF h.push.run = r THEN h.push.n + 1 ELSE 1]
           g == [h EXCEPT !.push = P]
<1>1. P \in [run : 0..MaxRuns, n : Nat]
  BY DEF RowsOK
<1>2. CountPush(h, r) = g
  BY DEF CountPush
<1> HIDE DEF P
<1>3. DOMAIN g = HitchFields /\ g.push = P /\ \A f \in HitchFields \ {"push"} : g[f] = h[f]
  BY DEF RowsOK, HitchFields
<1> HIDE DEF g
<1>4. RowsOK(g) /\ Touches(h, g, {"push"})
  BY <1>1, <1>3 DEF RowsOK, AttemptsOK, Touches, HitchFields
<1> QED
  BY <1>2, <1>4

(* What the writes do to a finding.                                          *)
Kept(f, g) == g \in Findings /\ (Blocks(f) => Blocks(g) /\ g.cycle = f.cycle)

(* An upsert never makes a blocker stop blocking.                            *)
LEMMA UpsertFacts ==
  ASSUME NEW f \in Findings, NEW seed, seed.sev \in Severities, seed.scope \in Scopes,
         NEW n \in Nat, NEW own \in BOOLEAN
  PROVE  Kept(f, Upsert(f, seed, n, own))
<1> DEFINE g == Upsert(f, seed, n, own)
           sev == seed.sev
           scope == seed.scope
<1>1. sev \in Severities /\ scope \in Scopes /\ seed.sev = sev /\ seed.scope = scope
  OBVIOUS
<1> HIDE DEF sev, scope
<1>2. ASSUME f.life = "none" PROVE Kept(f, g)
  <2>1. g = [sev |-> sev, scope |-> scope, life |-> DefaultLife(scope), cycle |-> n, reopens |-> 0]
    BY <1>1, <1>2 DEF Upsert
  <2>2. ~Blocks(f)
    BY <1>2 DEF Blocks, Open
  <2> HIDE DEF g
  <2>3. g \in Findings
    BY <1>1, <2>1 DEF Findings, DefaultLife, Lives
  <2> QED
    BY <2>2, <2>3 DEF Kept
<1>3. ASSUME f.life # "none" PROVE Kept(f, g)
  <2> DEFINE sev2 == IF Rank(sev) < Rank(f.sev) THEN sev ELSE f.sev
             blocker == scope \in {"in_scope", "unknown"}
             scope2 == IF blocker /\ ScopeRank(scope) > ScopeRank(f.scope) THEN scope ELSE f.scope
             reopen == blocker /\ f.life \in {"fixed", "deferred", "out_of_scope"}
             after == IF reopen THEN "reopened" ELSE f.life
             reopens2 == IF reopen /\ own THEN f.reopens + 1 ELSE f.reopens
  <2>1. g = [f EXCEPT !.sev = sev2, !.scope = scope2, !.life = after, !.reopens = reopens2]
    BY <1>1, <1>3 DEF Upsert
  <2>2. /\ sev2 \in Severities
        /\ f.sev \in {"P0", "P1"} => sev2 \in {"P0", "P1"}
    BY <1>1 DEF Findings, Severities, Rank
  <2>3. /\ scope2 \in Scopes
        /\ f.scope \in {"in_scope", "unknown"} => scope2 \in {"in_scope", "unknown"}
    BY <1>1 DEF Findings, Scopes, ScopeRank
  <2>4. after \in Lives /\ (f.life \in Open => after \in Open) /\ reopens2 \in Nat
    BY DEF Findings, Lives, Open
  <2> HIDE DEF sev2, scope2, after, reopens2, g
  <2>5. /\ g \in Findings /\ g.cycle = f.cycle
        /\ g.sev = sev2 /\ g.scope = scope2 /\ g.life = after
    BY <2>1, <2>2, <2>3, <2>4 DEF Findings
  <2> QED
    BY <2>2, <2>3, <2>4, <2>5 DEF Blocks, Kept
<1> QED
  BY <1>2, <1>3

(* A classification other than out of scope leaves a blocker blocking.       *)
LEMMA ClassifyFacts ==
  ASSUME NEW f \in Findings, NEW scope \in Scopes
  PROVE  LET g == Classify(f, scope)
         IN  /\ g \in Findings /\ g.scope = scope
             /\ (Blocks(f) /\ scope \in {"in_scope", "unknown"} => Blocks(g))
<1> DEFINE after == CASE scope = "out_of_scope" /\ f.life # "deferred" -> "out_of_scope"
                      [] scope = "unknown" /\ f.life \notin Open -> "open"
                      [] scope = "in_scope" /\ f.life \in {"out_of_scope", "deferred"} -> "open"
                      [] OTHER -> f.life
           g == [f EXCEPT !.scope = scope, !.life = after]
<1>1. Classify(f, scope) = g
  BY DEF Classify, Findings
<1>2. after \in Lives
  BY DEF Findings, Lives, Scopes
<1>3. f.life \in Open /\ scope \in {"in_scope", "unknown"} => after = f.life
  BY DEF Open
<1> HIDE DEF after
<1>4. g \in Findings /\ g.scope = scope /\ g.life = after /\ g.sev = f.sev
  BY <1>2 DEF Findings
<1> QED
  BY <1>1, <1>3, <1>4 DEF Blocks

(* Writing the life of a finding changes nothing else of it.                 *)
LEMMA LifeFacts ==
  ASSUME NEW f \in Findings, NEW life \in Lives
  PROVE  LET g == [f EXCEPT !.life = life]
         IN  g \in Findings /\ g.life = life /\ g.sev = f.sev /\ g.scope = f.scope
BY DEF Findings

(* The newest run is read from the attempts alone.                           *)
LEMMA LatestSame ==
  ASSUME NEW h, NEW g, g.attempts = h.attempts
  PROVE  LatestRun(g) = LatestRun(h)
BY DEF LatestRun

SeedsOK(seeds) ==
  \A s \in seeds : \E key : \E sev \in Severities, scope \in Scopes :
    s = [key |-> key, sev |-> sev, scope |-> scope]

(* importReviewProposalToHitch as a whole: its cycle, its check, and what it *)
(* retires.                                                                  *)
LEMMA ImportRows ==
  ASSUME NEW h, RowsOK(h), NEW r \in Runs, NEW v,
         NEW seeds, SeedsOK(seeds)
  PROVE  LET g == Import(h, r, v, seeds)
         IN  /\ RowsOK(g) /\ Touches(h, g, {"cycles", "findings", "checks"})
             /\ Imported(h, g, r, v)
<1> DEFINE started == AddCycle(h, r)
           n == CyclesUsed(started)
           F == [k \in Keys |-> IF \E s \in seeds : s.key = k
                                THEN Upsert(started.findings[k], CHOOSE s \in seeds : s.key = k, n, TRUE)
                                ELSE started.findings[k]]
           seeded == [started EXCEPT !.findings = F]
           retired == IF v = "approved" THEN Superseded(seeded, r, n) ELSE {}
           G == [k \in Keys |-> IF k \in retired THEN [seeded.findings[k] EXCEPT !.life = "fixed"]
                                ELSE seeded.findings[k]]
           resolved == [seeded EXCEPT !.findings = G]
           status == IF v = "approved" THEN "passed" ELSE "failed"
           g == IF "review_consensus" \in Conditions
                THEN RecordCheck(resolved, "review_consensus", status, r) ELSE resolved
<1>1. Import(h, r, v, seeds) = g
  BY DEF Import
<1>2. /\ RowsOK(started) /\ Touches(h, started, {"cycles", "checks"}) /\ Outdated(h, started, 0)
      /\ started.cycles = Append(h.cycles, [run |-> r])
  BY CycleRows
<1>3. h.cycles \in Seq([run : Runs]) /\ h.findings \in [Keys -> Findings]
  BY DEF RowsOK
<1>4. n = Len(h.cycles) + 1 /\ n \in Nat
  BY <1>2, <1>3 DEF CyclesUsed
<1>5. started.findings = h.findings /\ started.attempts = h.attempts
  BY <1>2 DEF Touches, HitchFields
<1> HIDE DEF started, n
<1>6. \A k \in Keys : F[k] \in Findings /\ (Blocks(h.findings[k]) => Blocks(F[k]) /\ F[k].cycle = h.findings[k].cycle)
  <2> SUFFICES ASSUME NEW k \in Keys
               PROVE  F[k] \in Findings
                        /\ (Blocks(h.findings[k]) => Blocks(F[k]) /\ F[k].cycle = h.findings[k].cycle)
    OBVIOUS
  <2>1. h.findings[k] \in Findings
    BY <1>3
  <2>2. CASE \E s \in seeds : s.key = k
    <3> DEFINE s == CHOOSE x \in seeds : x.key = k
    <3>1. s \in seeds
      BY <2>2
    <3> HIDE DEF s
    <3>2. PICK key : \E sev \in Severities, scope \in Scopes :
                       s = [key |-> key, sev |-> sev, scope |-> scope]
      BY <3>1 DEF SeedsOK
    <3>3. PICK sev \in Severities, scope \in Scopes : s = [key |-> key, sev |-> sev, scope |-> scope]
      BY <3>2
    <3>4. F[k] = Upsert(h.findings[k], s, n, TRUE)
      BY <1>5, <2>2 DEF s
    <3> HIDE DEF F
    <3>5. s.sev \in Severities /\ s.scope \in Scopes
      BY <3>3
    <3>6. Kept(h.findings[k], Upsert(h.findings[k], s, n, TRUE))
      BY <1>4, <2>1, <3>5, UpsertFacts, Zenon
    <3> QED
      BY <3>4, <3>6 DEF Kept
  <2>3. CASE ~\E s \in seeds : s.key = k
    <3>1. F[k] = h.findings[k]
      BY <1>5, <2>3
    <3> QED
      BY <2>1, <3>1
  <2> QED
    BY <2>2, <2>3
<1>7. F \in [Keys -> Findings]
  BY <1>6
<1> HIDE DEF F
<1>8. RowsOK(seeded) /\ Touches(started, seeded, {"findings"}) /\ seeded.findings = F
  BY <1>2, <1>7, FindingsRows
<1>9. LatestRun(seeded) = LatestRun(h)
  <2>1. seeded.attempts = h.attempts
    BY <1>5, <1>8 DEF Touches, HitchFields
  <2> QED
    BY <2>1, LatestSame
<1> HIDE DEF seeded
<1>10. \A k \in retired : /\ v = "approved" /\ k \in ChangeKeys /\ LatestRun(h) \in {0, r}
                          /\ F[k].cycle < n
  BY <1>8, <1>9 DEF Superseded
<1> HIDE DEF retired
<1>11. \A k \in Keys : /\ G[k] \in Findings
                       /\ k \notin retired => G[k] = F[k]
  BY <1>7, <1>8, LifeFacts DEF Lives
<1>12. G \in [Keys -> Findings]
  BY <1>11
<1> HIDE DEF G
<1>13. RowsOK(resolved) /\ Touches(seeded, resolved, {"findings"}) /\ resolved.findings = G
  BY <1>8, <1>12, FindingsRows
<1> HIDE DEF resolved
<1>14. /\ Touches(h, resolved, {"cycles", "findings", "checks"})
       /\ resolved.cycles = Append(h.cycles, [run |-> r])
       /\ resolved.checks = started.checks
  BY <1>2, <1>8, <1>13 DEF Touches, HitchFields
<1>15. \A k \in Keys : Blocks(h.findings[k]) /\ ~Blocks(G[k]) =>
         /\ v = "approved" /\ k \in ChangeKeys
         /\ LatestRun(h) \in {0, r}
         /\ h.findings[k].cycle < Len(h.cycles) + 1
  BY <1>4, <1>6, <1>10, <1>11
<1>16. status \in {"none", "passed", "failed"} /\ r \in 0..MaxRuns
  BY DEF Runs
<1>17. CASE "review_consensus" \notin Conditions
  <2>1. g = resolved
    BY <1>17
  <2>2. \A c \in Conditions : c # "review_consensus"
    BY <1>17
  <2>3. \A c \in Conditions : /\ resolved.checks[c].status = h.checks[c].status
                              /\ resolved.checks[c].run = h.checks[c].run
                              /\ resolved.checks[c].staleBy \subseteq h.checks[c].staleBy \cup {0}
    BY <1>2, <1>14 DEF Outdated
  <2> QED
    BY <1>1, <1>13, <1>14, <1>15, <2>1, <2>2, <2>3 DEF Imported
<1>18. CASE "review_consensus" \in Conditions
  <2> DEFINE c0 == "review_consensus"
             e == RecordCheck(resolved, c0, status, r)
  <2>1. g = e
    BY <1>18
  <2> HIDE DEF g, c0, status
  <2>2. RowsOK(e) /\ Touches(resolved, e, {"checks"}) /\ Recorded(resolved, e, c0, status, r)
    BY <1>13, <1>16, RecordRows
  <2> HIDE DEF e
  <2>3. /\ Touches(h, e, {"cycles", "findings", "checks"}) /\ e.cycles = resolved.cycles
        /\ e.findings = G
    BY <1>13, <1>14, <2>2 DEF Touches, HitchFields
  <2>4. \A c \in Conditions :
          IF c = "review_consensus" THEN e.checks[c] = [status |-> status, run |-> r, staleBy |-> {}]
          ELSE /\ e.checks[c].status = h.checks[c].status
               /\ e.checks[c].run = h.checks[c].run
               /\ e.checks[c].staleBy \subseteq h.checks[c].staleBy \cup {0}
    BY <1>2, <1>14, <2>2 DEF Outdated, Recorded, c0, status
  <2> QED
    BY <1>1, <1>14, <1>15, <2>1, <2>2, <2>3, <2>4 DEF Imported, status
<1> QED
  BY <1>17, <1>18

-----------------------------------------------------------------------------
(* The steps of a drive: each one takes the rows from h to g and the memory  *)
(* of the drive from o to m.                                                 *)

Memories == [pc : Steps, att : Nat, run : 0..MaxRuns, keys : SUBSET Keys]

(* A drive that reviews or publishes remembers a run.                        *)
MemoryOK(m) ==
  m \in Memories /\ (m.pc \in {"review_known", "review_work", "review_import", "close_pr"} => m.run # 0)

(* Where a drive holds nothing the invariants speak of.                      *)
Free == Steps \ {"coder_create", "coder_lock", "coder_work", "coder_done", "coder_void",
                 "review_pick", "review_known", "review_work", "review_import", "close_pr"}

(* The consensus check can only be outdated, a blocker only be moved out of  *)
(* scope when its scope was unknown.                                         *)
Outdates(h, g) ==
  \A c \in Conditions : c = "review_consensus" =>
    /\ g.checks[c].status = h.checks[c].status
    /\ g.checks[c].run = h.checks[c].run
    /\ h.checks[c].staleBy \subseteq g.checks[c].staleBy
    /\ g.checks[c].staleBy \subseteq h.checks[c].staleBy \cup {0}
Retires(h, g) ==
  \A k \in Keys : Blocks(h.findings[k]) /\ ~Blocks(g.findings[k]) =>
    /\ k \notin OwnKeys
    /\ h.findings[k].scope = "unknown" /\ g.findings[k].scope = "out_of_scope"

Rest(h, g, o, m) ==
  /\ m.pc \in Free
  /\ Touches(h, g, {"status", "push", "checks", "findings"}) /\ Outdates(h, g) /\ Retires(h, g)
CoderPasses(h, g, o, m) ==
  m.pc = "coder_create" /\ Touches(h, g, {"status"}) /\ ~BudgetReached(h)
AttemptMade(h, g, o, m) ==
  /\ o.pc = "coder_create" /\ m.pc = "coder_lock" /\ m.att = IterationsUsed(h) + 1
  /\ Touches(h, g, {"attempts", "checks"}) /\ Made(h, g, m.att) /\ Outdated(h, g, m.att)
AttemptGone(h, g, o, m) ==
  /\ o.pc \in {"coder_lock", "coder_void"} /\ m = Idle
  /\ Touches(h, g, {"attempts", "checks"}) /\ Discarded(h, g, o.att)
AttemptEnds(h, g, o, m) ==
  /\ o.pc \in {"coder_lock", "coder_done"} /\ m = Idle
  /\ Touches(h, g, {"attempts", "checks", "status"})
  /\ \E r : Completed(h, g, o.att, r) /\ (r = 0 \/ (r = o.run /\ o.pc = "coder_done"))
  /\ Outdated(h, g, o.att)
RunMade(h, g, o, m) ==
  /\ o.pc = "coder_lock" /\ m.pc = "coder_work" /\ m.att = o.att /\ m.run = Len(h.runs) + 1
  /\ Touches(h, g, {"runs"})
  /\ \E p \in 0..MaxRuns : g.runs = Append(h.runs, [status |-> "created", parent |-> p])
RunEnds(h, g, o, m) ==
  /\ o.pc = "coder_work" /\ m.pc \in {"coder_done", "coder_void"} /\ m.att = o.att /\ m.run = o.run
  /\ Touches(h, g, {"runs"}) /\ \E s \in {"needs_review", "failed", "created"} : Moved(h, g, o.run, s)
ReviewPasses(h, g, o, m) ==
  m.pc = "review_pick" /\ Touches(h, g, {"status"}) /\ CyclesUsed(h) < h.max.cycles
RunPicked(h, g, o, m) ==
  o.pc = "review_pick" /\ m.pc = "review_known" /\ m.run = LatestRun(h) /\ Touches(h, g, {})
ReviewStarts(h, g, o, m) ==
  o.pc = "review_known" /\ m.pc = "review_work" /\ m.run = o.run /\ Touches(h, g, {})
ReviewRecalled(h, g, o, m) ==
  /\ o.pc = "review_known" /\ m = Idle
  /\ Touches(h, g, {"checks", "status"}) /\ Recorded(h, g, "review_consensus", "passed", o.run)
  /\ ReviewedBefore(h, o.run)
RunDecided(h, g, o, m) ==
  /\ o.pc = "review_work" /\ m.pc = "review_import" /\ m.run = o.run
  /\ Touches(h, g, {"runs"}) /\ h.runs[o.run].status = "needs_review"
  /\ \E s \in {"approved", "changes_requested"} : Moved(h, g, o.run, s)
ReviewPends(h, g, o, m) ==
  /\ o.pc = "review_work" /\ m = Idle
  /\ Touches(h, g, {"cycles", "checks", "status"}) /\ Outdated(h, g, 0)
  /\ g.cycles = Append(h.cycles, [run |-> o.run])
ReviewEnds(h, g, o, m) ==
  /\ o.pc = "review_import" /\ m = Idle
  /\ Touches(h, g, {"cycles", "findings", "checks", "status"})
  /\ Imported(h, g, o.run, h.runs[o.run].status)
CloseStarts(h, g, o, m) ==
  m.pc = "close_pr" /\ m.run = LatestRun(h) /\ Touches(h, g, {}) /\ AllPassed(h)
PrMade(h, g, o, m) ==
  /\ o.pc = "close_pr" /\ m.pc \in Free
  /\ Touches(h, g, {"prs"}) /\ g.prs = h.prs \cup {o.run}
  /\ o.run \in h.prs \/ h.runs[o.run].status = "approved"

DriveKind(h, g, o, m) ==
  \/ Rest(h, g, o, m)
  \/ CoderPasses(h, g, o, m) \/ AttemptMade(h, g, o, m) \/ AttemptGone(h, g, o, m)
  \/ AttemptEnds(h, g, o, m) \/ RunMade(h, g, o, m) \/ RunEnds(h, g, o, m)
  \/ ReviewPasses(h, g, o, m) \/ RunPicked(h, g, o, m) \/ ReviewStarts(h, g, o, m)
  \/ ReviewRecalled(h, g, o, m) \/ RunDecided(h, g, o, m) \/ ReviewPends(h, g, o, m)
  \/ ReviewEnds(h, g, o, m) \/ CloseStarts(h, g, o, m) \/ PrMade(h, g, o, m)

(* What an operator's command does.                                          *)
OperatorKind(h, g) ==
  \/ /\ Touches(h, g, {"status", "push", "max", "checks", "findings"}) /\ Outdates(h, g)
     /\ \A b \in {"iterations", "cycles", "reruns"} : h.max[b] =< g.max[b]
  \/ /\ Touches(h, g, {"attempts", "checks"})
     /\ \E i \in DOMAIN h.attempts : Completed(h, g, i, 0) /\ Outdated(h, g, i)

TypeInv ==
  /\ RowsOK(hitch)
  /\ drive \in [Drives -> Memories] /\ \A d \in Drives : MemoryOK(drive[d])
  /\ lock \in Drives \cup {"none", "dead"}
  /\ left \in [crashes : 0..MaxCrashes, lapses : 0..MaxLapses, ops : 0..MaxOps]

(* A step of drive d.                                                        *)
DriveMoves(d) ==
  /\ RowsOK(hitch')
  /\ \E m : MemoryOK(m) /\ drive' = [drive EXCEPT ![d] = m] /\ DriveKind(hitch, hitch', drive[d], m)

(* A drive between two invocations remembers nothing.                        *)
LEMMA IdleOK == MemoryOK(Idle) /\ Idle.pc = "idle" /\ Idle.pc \in Free
<1>1. 0 \in 0..MaxRuns
  BY OrchestratorAssumption
<1> QED
  BY <1>1 DEF MemoryOK, Memories, Idle, Free, Steps

(* Goto changes the place of the drive and nothing else of its memory.       *)
LEMMA GotoPuts ==
  ASSUME TypeInv, NEW d \in Drives, NEW pc \in Steps, Goto(d, pc)
  PROVE  \E m \in Memories : /\ drive' = [drive EXCEPT ![d] = m]
                             /\ m.pc = pc /\ m.att = drive[d].att /\ m.run = drive[d].run
                             /\ m.keys = drive[d].keys
<1> DEFINE m == [drive[d] EXCEPT !.pc = pc]
<1>1. drive[d] \in Memories
  BY DEF TypeInv
<1>2. /\ m \in Memories
      /\ m.pc = pc /\ m.att = drive[d].att /\ m.run = drive[d].run /\ m.keys = drive[d].keys
  BY <1>1 DEF Memories
<1>3. drive' = [drive EXCEPT ![d] = m]
  BY DEF Goto
<1> HIDE DEF m
<1> QED
  BY <1>2, <1>3

(* A status written over other rows.                                         *)
LEMMA StatusLast ==
  ASSUME NEW h, NEW e, NEW g, Touches(e, g, {"status"}), NEW F, Touches(h, e, F)
  PROVE  /\ Touches(h, g, F \cup {"status"})
         /\ g.attempts = e.attempts /\ g.checks = e.checks /\ g.cycles = e.cycles
         /\ g.findings = e.findings /\ g.runs = e.runs /\ g.prs = e.prs
BY DEF Touches, HitchFields

(* No field changed.                                                         *)
LEMMA TouchesNothing ==
  ASSUME NEW h, RowsOK(h)
  PROVE  Touches(h, h, {})
BY DEF Touches, RowsOK

(* Touches is monotone in the fields.                                        *)
LEMMA TouchesMore ==
  ASSUME NEW h, NEW g, NEW F, NEW G, Touches(h, g, F), F \subseteq G
  PROVE  Touches(h, g, G)
BY DEF Touches

(* A step that writes the status or the push counter concerns no check and   *)
(* no finding.                                                               *)
LEMMA QuietRows ==
  ASSUME NEW h, NEW g, RowsOK(h), Touches(h, g, {"status", "push"})
  PROVE  Touches(h, g, {"status", "push", "checks", "findings"}) /\ Outdates(h, g) /\ Retires(h, g)
<1>1. g.checks = h.checks /\ g.findings = h.findings
  BY DEF Touches, HitchFields
<1> QED
  BY <1>1, TouchesMore DEF Outdates, Retires

(* The loop goes on and only the status may have changed.                    *)
LEMMA QuietReturn ==
  ASSUME TypeInv, NEW d \in Drives, NEW g, RowsOK(g), Touches(hitch, g, {"status", "push"}), Return(d, g)
  PROVE  DriveMoves(d)
<1>1. hitch' = g /\ drive' = [drive EXCEPT ![d] = Idle]
  BY DEF Return
<1>2. Rest(hitch, hitch', drive[d], Idle)
  BY <1>1, IdleOK, QuietRows DEF Rest, TypeInv
<1> QED
  BY <1>1, <1>2, IdleOK DEF DriveMoves, DriveKind

(* The same when the invocation escalates.                                   *)
LEMMA QuietThrow ==
  ASSUME TypeInv, NEW d \in Drives, NEW g, RowsOK(g), Touches(hitch, g, {"status", "push"}), Throw(d, g)
  PROVE  DriveMoves(d)
<1>1. RowsOK(Escalated(g)) /\ Touches(g, Escalated(g), {"status"})
  BY EscalatedRows
<1>2. Touches(hitch, Escalated(g), {"status", "push"})
  BY <1>1 DEF Touches
<1> QED
  BY <1>1, <1>2, QuietReturn DEF Throw

-----------------------------------------------------------------------------
(* Every action of a drive is a step of one of these kinds.                  *)

(* A step to a place where the drive holds nothing.                          *)
LEMMA QuietGoto ==
  ASSUME TypeInv, NEW d \in Drives, NEW pc \in Free, Goto(d, pc), RowsOK(hitch'),
         Touches(hitch, hitch', {"status", "push"})
  PROVE  DriveMoves(d)
<1>1. pc \in Steps
  BY DEF Free
<1>2. PICK m \in Memories : drive' = [drive EXCEPT ![d] = m] /\ m.pc = pc
  BY <1>1, GotoPuts
<1>3. MemoryOK(m)
  BY <1>2 DEF MemoryOK, Free
<1>4. Rest(hitch, hitch', drive[d], m)
  BY <1>2, QuietRows DEF Rest, TypeInv
<1> QED
  BY <1>2, <1>3, <1>4 DEF DriveMoves, DriveKind

(* The hitch after its status was synchronised.                              *)
LEMMA SyncedStatus ==
  ASSUME TypeInv, NEW x
  PROVE  /\ RowsOK(Sync(hitch, x)) /\ Touches(hitch, Sync(hitch, x), {"status"})
         /\ Touches(hitch, Sync(hitch, x), {"status", "push"})
<1>1. RowsOK(Sync(hitch, x)) /\ Touches(hitch, Sync(hitch, x), {"status"})
  BY SyncRows DEF TypeInv
<1> QED
  BY <1>1 DEF Touches

(* The gates: evaluate, the coder gate and the review gate.                  *)
LEMMA GateSteps ==
  ASSUME TypeInv, NEW d \in Drives
  PROVE  /\ Evaluate(d) => DriveMoves(d)
         /\ CoderGate(d) => DriveMoves(d)
         /\ ReviewGate(d) => DriveMoves(d)
<1>1. ASSUME Evaluate(d) PROVE DriveMoves(d)
  <2>1. PICK v \in {Decide(hitch)} :
          hitch' = Sync(hitch, v.decision) /\ Goto(d, FirstPc[Step(v)])
    BY <1>1 DEF Evaluate
  <2>2. FirstPc[Step(v)] \in Free
    BY DEF Step, FirstPc, Free, Steps
  <2> QED
    BY <2>1, <2>2, SyncedStatus, QuietGoto
<1>2. ASSUME CoderGate(d) PROVE DriveMoves(d)
  <2> DEFINE v == Decide(hitch)
             g == Sync(hitch, v.decision)
  <2>1. IF MayStartRun(v) THEN hitch' = g /\ Goto(d, "coder_create") ELSE Throw(d, g)
    BY <1>2 DEF CoderGate
  <2>2. RowsOK(g) /\ Touches(hitch, g, {"status"}) /\ Touches(hitch, g, {"status", "push"})
    BY SyncedStatus
  <2>3. CASE ~MayStartRun(v)
    BY <2>1, <2>2, <2>3, QuietThrow
  <2>4. CASE MayStartRun(v)
    <3>1. ~BudgetReached(hitch)
      BY <2>4, FixSaysBudget DEF MayStartRun
    <3>2. "coder_create" \in Steps
      BY DEF Steps
    <3> HIDE DEF g, v
    <3>3. PICK m \in Memories : drive' = [drive EXCEPT ![d] = m] /\ m.pc = "coder_create"
      BY <2>1, <2>4, <3>2, GotoPuts
    <3>4. MemoryOK(m) /\ CoderPasses(hitch, hitch', drive[d], m)
      BY <2>1, <2>2, <2>4, <3>1, <3>3 DEF MemoryOK, CoderPasses
    <3> QED
      BY <2>1, <2>2, <2>4, <3>3, <3>4 DEF DriveMoves, DriveKind
  <2> QED
    BY <2>3, <2>4
<1>3. ASSUME ReviewGate(d) PROVE DriveMoves(d)
  <2> DEFINE v == Decide(hitch)
             g == Sync(hitch, v.decision)
  <2>1. IF MayReview(v) THEN hitch' = g /\ Goto(d, "review_pick") ELSE Throw(d, g)
    BY <1>3 DEF ReviewGate
  <2>2. RowsOK(g) /\ Touches(hitch, g, {"status"}) /\ Touches(hitch, g, {"status", "push"})
    BY SyncedStatus
  <2>3. CASE ~MayReview(v)
    BY <2>1, <2>2, <2>3, QuietThrow
  <2>4. CASE MayReview(v)
    <3>1. CyclesUsed(hitch) < hitch.max.cycles
      BY <2>4, ReviewSaysBudget
    <3>2. "review_pick" \in Steps
      BY DEF Steps
    <3> HIDE DEF g, v
    <3>3. PICK m \in Memories : drive' = [drive EXCEPT ![d] = m] /\ m.pc = "review_pick"
      BY <2>1, <2>4, <3>2, GotoPuts
    <3>4. MemoryOK(m) /\ ReviewPasses(hitch, hitch', drive[d], m)
      BY <2>1, <2>2, <2>4, <3>1, <3>3 DEF MemoryOK, ReviewPasses
    <3> QED
      BY <2>1, <2>2, <2>4, <3>3, <3>4 DEF DriveMoves, DriveKind
  <2> QED
    BY <2>3, <2>4
<1> QED
  BY <1>1, <1>2, <1>3

(* The newest run is the run of some attempt, or 0 when no attempt has one.  *)
LEMMA LatestRunType ==
  ASSUME NEW h, RowsOK(h)
  PROVE  /\ LatestRun(h) \in 0..MaxRuns
         /\ (LatestRun(h) # 0) <=> \E i \in DOMAIN h.attempts : h.attempts[i].run # 0
         /\ LatestRun(h) = 0 \/ \E i \in DOMAIN h.attempts : h.attempts[i].run = LatestRun(h)
<1> DEFINE W == {i \in DOMAIN h.attempts : h.attempts[i].run # 0}
<1>1. PICK n \in Nat : DOMAIN h.attempts \subseteq 1..n
  BY DEF RowsOK, AttemptsOK
<1>2. \A i \in DOMAIN h.attempts : h.attempts[i].run \in 0..MaxRuns
  BY DEF RowsOK, AttemptsOK, Attempts
<1>3. CASE W = {}
  <2>1. LatestRun(h) = 0
    BY <1>3 DEF LatestRun
  <2>2. 0 \in 0..MaxRuns
    BY OrchestratorAssumption
  <2> QED
    BY <1>3, <2>1, <2>2
<1>4. CASE W # {}
  <2>1. Max(W) \in W
    BY <1>1, <1>4, MaxOf
  <2>2. LatestRun(h) = h.attempts[Max(W)].run
    BY <1>4 DEF LatestRun
  <2> QED
    BY <1>2, <2>1, <2>2
<1> QED
  BY <1>3, <1>4

(* The steps of the coder.                                                   *)
LEMMA CoderSteps ==
  ASSUME TypeInv, NEW d \in Drives
  PROVE  /\ CoderCreate(d) => DriveMoves(d)
         /\ CoderLock(d) => DriveMoves(d)
         /\ CoderWork(d) => DriveMoves(d)
         /\ CoderDone(d) => DriveMoves(d)
         /\ CoderVoid(d) => DriveMoves(d)
<1> DEFINE o == drive[d]
<1>0. /\ o \in Memories /\ o.att \in Nat /\ o.run \in 0..MaxRuns /\ RowsOK(hitch)
      /\ 0 \in 0..MaxRuns /\ MaxRuns \in Nat
  BY OrchestratorAssumption DEF TypeInv, Memories
(* An attempt completed, with or without an escalation.                      *)
<1>1. ASSUME NEW s \in {"running", "succeeded", "failed"}, NEW r \in 0..MaxRuns,
             o.pc \in {"coder_lock", "coder_done"}, r = 0 \/ (r = o.run /\ o.pc = "coder_done"),
             \/ Return(d, CompleteAttempt(hitch, o.att, s, r))
             \/ Throw(d, CompleteAttempt(hitch, o.att, s, r))
      PROVE  DriveMoves(d)
  <2> DEFINE e == CompleteAttempt(hitch, o.att, s, r)
  <2>1. /\ RowsOK(e) /\ Touches(hitch, e, {"attempts", "checks"}) /\ Outdated(hitch, e, o.att)
        /\ Completed(hitch, e, o.att, r)
    <3> HIDE DEF o
    <3> QED
      BY <1>0, CompleteRows
  <2> HIDE DEF e, o
  <2>2. \E g \in {e, Escalated(e)} : hitch' = g /\ drive' = [drive EXCEPT ![d] = Idle]
    BY <1>1 DEF Return, Throw, e, o
  <2>3. RowsOK(hitch') /\ Touches(e, hitch', {"status"})
    BY <2>1, <2>2, EscalatedRows, TouchesNothing, TouchesMore
  <2>4. /\ Touches(hitch, hitch', {"attempts", "checks", "status"})
        /\ hitch'.attempts = e.attempts /\ hitch'.checks = e.checks
    <3>1. {"attempts", "checks"} \cup {"status"} = {"attempts", "checks", "status"}
      OBVIOUS
    <3> QED
      BY <2>1, <2>3, <3>1, StatusLast
  <2>5. Completed(hitch, hitch', o.att, r) /\ Outdated(hitch, hitch', o.att)
    BY <2>1, <2>4 DEF Completed, Outdated
  <2>6. AttemptEnds(hitch, hitch', o, Idle)
    BY <1>1, <2>4, <2>5 DEF AttemptEnds
  <2> QED
    BY <2>2, <2>3, <2>6, IdleOK DEF DriveMoves, DriveKind, o
<1>2. ASSUME o.pc \in {"coder_lock", "coder_void"}, Return(d, DiscardAttempt(hitch, o.att))
      PROVE  DriveMoves(d)
  <2>1. RowsOK(hitch') /\ Touches(hitch, hitch', {"attempts", "checks"}) /\ Discarded(hitch, hitch', o.att)
    <3> HIDE DEF o
    <3> QED
      BY <1>0, <1>2, DiscardRows DEF Return
  <2>2. AttemptGone(hitch, hitch', o, Idle)
    BY <1>2, <2>1 DEF AttemptGone
  <2> QED
    BY <1>2, <2>1, <2>2, IdleOK DEF DriveMoves, DriveKind, Return
<1>3. ASSUME CoderCreate(d) PROVE DriveMoves(d)
  <2> DEFINE i == IterationsUsed(hitch) + 1
             m == [o EXCEPT !.pc = "coder_lock", !.att = i, !.run = LatestRun(hitch)]
  <2>1. /\ RowsOK(hitch') /\ Touches(hitch, hitch', {"attempts", "checks"})
        /\ Outdated(hitch, hitch', i) /\ i \in Nat \ {0} /\ Made(hitch, hitch', i)
    BY <1>0, <1>3, CreateRows DEF CoderCreate
  <2>2. LatestRun(hitch) \in 0..MaxRuns
    BY <1>0, LatestRunType
  <2>3. drive' = [drive EXCEPT ![d] = m] /\ o.pc = "coder_create"
    BY <1>3 DEF CoderCreate, At
  <2>4. m \in Memories /\ m.pc = "coder_lock" /\ m.att = i
    <3> HIDE DEF i
    <3> QED
      BY <1>0, <2>1, <2>2 DEF Memories, Steps
  <2> HIDE DEF m
  <2>5. MemoryOK(m) /\ AttemptMade(hitch, hitch', o, m)
    BY <2>1, <2>3, <2>4 DEF MemoryOK, AttemptMade
  <2> QED
    BY <2>1, <2>3, <2>5 DEF DriveMoves, DriveKind
<1>4. ASSUME CoderLock(d) PROVE DriveMoves(d)
  <2>0. o.pc = "coder_lock"
    BY <1>4 DEF CoderLock, At
  <2>1. CASE Return(d, DiscardAttempt(hitch, o.att))
    BY <1>2, <2>0, <2>1
  <2>2. CASE Throw(d, CompleteAttempt(hitch, o.att, "failed", 0))
    BY <1>0, <1>1, <2>0, <2>2
  <2>3. CASE /\ Len(hitch.runs) < MaxRuns
             /\ hitch' = [hitch EXCEPT !.runs = Append(@, [status |-> "created", parent |-> drive[d].run])]
             /\ drive' = [drive EXCEPT ![d].pc = "coder_work", ![d].run = Len(hitch.runs) + 1]
    <3> DEFINE runs == Append(hitch.runs, [status |-> "created", parent |-> o.run])
               r == Len(hitch.runs) + 1
               m == [o EXCEPT !.pc = "coder_work", !.run = r]
    <3>1. hitch.runs \in Seq([status : RunStatuses, parent : 0..MaxRuns])
      BY <1>0 DEF RowsOK
    <3>2. runs \in Seq([status : RunStatuses, parent : 0..MaxRuns]) /\ Len(hitch.runs) \in Nat
      BY <1>0, <3>1 DEF RunStatuses
    <3>3. hitch' = [hitch EXCEPT !.runs = runs]
      BY <2>3
    <3> HIDE DEF runs
    <3>4. RowsOK(hitch') /\ Touches(hitch, hitch', {"runs"}) /\ hitch'.runs = runs
      BY <1>0, <3>2, <3>3, RunsRows
    <3>5. drive' = [drive EXCEPT ![d] = m]
      BY <2>3
    <3>6. r \in 0..MaxRuns /\ r # 0
      BY <1>0, <2>3, <3>2
    <3>7. m \in Memories /\ m.pc = "coder_work" /\ m.att = o.att /\ m.run = r
      <4> HIDE DEF r, o
      <4> QED
        BY <1>0, <3>6 DEF Memories, Steps
    <3> HIDE DEF m
    <3>8. MemoryOK(m) /\ RunMade(hitch, hitch', o, m)
      BY <1>0, <2>0, <3>4, <3>7 DEF MemoryOK, RunMade, runs
    <3> QED
      BY <3>4, <3>5, <3>8 DEF DriveMoves, DriveKind
  <2> QED
    BY <1>4, <2>1, <2>2, <2>3 DEF CoderLock
<1>5. ASSUME CoderWork(d) PROVE DriveMoves(d)
  <2>1. PICK s \in {"needs_review", "failed", "created"}, pc \in {"coder_done", "coder_void"} :
          hitch' = [hitch EXCEPT !.runs[o.run].status = s] /\ Goto(d, pc)
    BY <1>5 DEF CoderWork
  <2>2. o.pc = "coder_work"
    BY <1>5 DEF CoderWork, At
  <2>3. pc \in Steps /\ s \in RunStatuses
    BY DEF Steps, RunStatuses
  <2>4. PICK m \in Memories : /\ drive' = [drive EXCEPT ![d] = m] /\ m.pc = pc
                              /\ m.att = o.att /\ m.run = o.run
    BY <2>1, <2>3, GotoPuts
  <2> HIDE DEF o
  <2>5. RowsOK(hitch') /\ Touches(hitch, hitch', {"runs"}) /\ Moved(hitch, hitch', o.run, s)
    BY <1>0, <2>1, <2>3, RunStatusRows
  <2>6. MemoryOK(m) /\ RunEnds(hitch, hitch', o, m)
    BY <2>2, <2>4, <2>5 DEF MemoryOK, RunEnds
  <2> QED
    BY <2>4, <2>5, <2>6 DEF DriveMoves, DriveKind, o
<1>6. ASSUME CoderDone(d) PROVE DriveMoves(d)
  <2>1. o.pc = "coder_done"
    BY <1>6 DEF CoderDone, At
  <2>2. PICK s \in {"running", "succeeded", "failed"}, r \in {0, o.run} :
          \/ Return(d, CompleteAttempt(hitch, o.att, s, r))
          \/ Throw(d, CompleteAttempt(hitch, o.att, s, r))
    BY <1>6 DEF CoderDone
  <2> QED
    BY <1>0, <1>1, <2>1, <2>2
<1>7. ASSUME CoderVoid(d) PROVE DriveMoves(d)
  BY <1>2, <1>7 DEF CoderVoid, At
<1> QED
  BY <1>3, <1>4, <1>5, <1>6, <1>7

(* What a proposal of a review may carry.                                    *)
LEMMA SeedsFacts ==
  ASSUME NEW v, NEW seeds \in Seeds(v)
  PROVE  SeedsOK(seeds)
<1>1. "P1" \in Severities /\ "P2" \in Severities
  BY DEF Severities
<1>2. CASE v = "approved"
  BY <1>1, <1>2 DEF Seeds, SeedsOK
<1>3. CASE v # "approved"
  BY <1>1, <1>3 DEF Seeds, SeedsOK
<1> QED
  BY <1>2, <1>3

(* The steps of a review.                                                    *)
LEMMA ReviewSteps ==
  ASSUME TypeInv, NEW d \in Drives
  PROVE  /\ ReviewPick(d) => DriveMoves(d)
         /\ ReviewKnown(d) => DriveMoves(d)
         /\ ReviewWork(d) => DriveMoves(d)
         /\ ReviewImport(d) => DriveMoves(d)
<1> DEFINE o == drive[d]
<1>0. /\ o \in Memories /\ MemoryOK(o) /\ o.run \in 0..MaxRuns /\ RowsOK(hitch) /\ MaxRuns \in Nat
  BY OrchestratorAssumption DEF TypeInv, Memories
<1>1. Touches(hitch, hitch, {"status", "push"})
  BY <1>0, TouchesNothing, TouchesMore
<1>2. ASSUME ReviewPick(d) PROVE DriveMoves(d)
  <2>1. CASE LatestRun(hitch) = 0
    BY <1>0, <1>1, <1>2, <2>1, QuietThrow DEF ReviewPick
  <2>2. CASE LatestRun(hitch) # 0
    <3> DEFINE r == LatestRun(hitch)
               m == [o EXCEPT !.pc = "review_known", !.run = r]
    <3>1. drive' = [drive EXCEPT ![d] = m] /\ hitch' = hitch /\ o.pc = "review_pick"
      BY <1>2, <2>2 DEF ReviewPick, At
    <3>2. r \in 0..MaxRuns /\ r # 0
      BY <1>0, <2>2, LatestRunType
    <3>3. m \in Memories /\ m.pc = "review_known" /\ m.run = r
      <4> HIDE DEF r, o
      <4> QED
        BY <1>0, <3>2 DEF Memories, Steps
    <3> HIDE DEF m, o
    <3>4. MemoryOK(m) /\ RunPicked(hitch, hitch', o, m)
      BY <1>0, <3>1, <3>2, <3>3, TouchesNothing DEF MemoryOK, RunPicked
    <3> QED
      BY <1>0, <3>1, <3>4 DEF DriveMoves, DriveKind, o
  <2> QED
    BY <2>1, <2>2
<1>3. ASSUME ReviewKnown(d) PROVE DriveMoves(d)
  <2>0. o.pc = "review_known" /\ o.run # 0
    BY <1>0, <1>3 DEF ReviewKnown, At, MemoryOK
  <2> DEFINE h == RecordCheck(hitch, "review_consensus", "passed", o.run)
             g == EvaluateAndSync(h)
  <2>1. \/ /\ ReviewedBefore(hitch, o.run) /\ Return(d, g)
        \/ Throw(d, hitch)
        \/ Goto(d, "review_work") /\ UNCHANGED hitch
    BY <1>3 DEF ReviewKnown
  <2>2. CASE ReviewedBefore(hitch, o.run) /\ Return(d, g)
    <3> HIDE DEF o
    <3>1. "passed" \in {"none", "passed", "failed"}
      OBVIOUS
    <3>2. /\ RowsOK(h) /\ Touches(hitch, h, {"checks"})
          /\ Recorded(hitch, h, "review_consensus", "passed", o.run)
      BY <1>0, <3>1, RecordRows
    <3> HIDE DEF h
    <3>3. RowsOK(g) /\ Touches(h, g, {"status"})
      BY <3>2, SyncRows DEF EvaluateAndSync
    <3>4. {"checks"} \cup {"status"} = {"checks", "status"}
      OBVIOUS
    <3> HIDE DEF g
    <3>5. Touches(hitch, g, {"checks", "status"}) /\ g.checks = h.checks
      BY <3>2, <3>3, <3>4, StatusLast
    <3>6. Recorded(hitch, g, "review_consensus", "passed", o.run)
      BY <3>2, <3>5 DEF Recorded
    <3>7. ReviewRecalled(hitch, g, o, Idle)
      BY <2>0, <2>2, <3>5, <3>6 DEF ReviewRecalled
    <3> QED
      BY <2>2, <3>3, <3>7, IdleOK DEF DriveMoves, DriveKind, Return, o
  <2>3. CASE Throw(d, hitch)
    BY <1>0, <1>1, <2>3, QuietThrow
  <2>4. CASE Goto(d, "review_work") /\ UNCHANGED hitch
    <3>1. "review_work" \in Steps
      BY DEF Steps
    <3>2. PICK m \in Memories : drive' = [drive EXCEPT ![d] = m] /\ m.pc = "review_work" /\ m.run = o.run
      BY <2>4, <3>1, GotoPuts
    <3> HIDE DEF o
    <3>3. MemoryOK(m) /\ ReviewStarts(hitch, hitch', o, m)
      BY <1>0, <2>0, <2>4, <3>2, TouchesNothing DEF MemoryOK, ReviewStarts
    <3> QED
      BY <1>0, <2>4, <3>2, <3>3 DEF DriveMoves, DriveKind, o
  <2> QED
    BY <2>1, <2>2, <2>3, <2>4
<1>4. ASSUME ReviewWork(d) PROVE DriveMoves(d)
  <2>0. o.pc = "review_work" /\ o.run # 0 /\ o.run \in Runs
    BY <1>0, <1>4 DEF ReviewWork, At, MemoryOK, Runs
  <2>1. CASE /\ hitch.runs[o.run].status = "needs_review"
             /\ \E verdict \in {"approved", "changes_requested"} :
                  hitch' = [hitch EXCEPT !.runs[o.run].status = verdict]
             /\ Goto(d, "review_import")
    <3>1. PICK s \in {"approved", "changes_requested"} : hitch' = [hitch EXCEPT !.runs[o.run].status = s]
      BY <2>1
    <3>2. "review_import" \in Steps /\ s \in RunStatuses
      BY DEF Steps, RunStatuses
    <3>3. PICK m \in Memories : drive' = [drive EXCEPT ![d] = m] /\ m.pc = "review_import" /\ m.run = o.run
      BY <2>1, <3>2, GotoPuts
    <3> HIDE DEF o
    <3>4. RowsOK(hitch') /\ Touches(hitch, hitch', {"runs"}) /\ Moved(hitch, hitch', o.run, s)
      BY <1>0, <3>1, <3>2, RunStatusRows
    <3>5. MemoryOK(m) /\ RunDecided(hitch, hitch', o, m)
      BY <2>0, <2>1, <3>3, <3>4 DEF MemoryOK, RunDecided
    <3> QED
      BY <3>3, <3>4, <3>5 DEF DriveMoves, DriveKind, o
  <2>2. CASE \E h \in {AddCycle(hitch, o.run)} :
               \E decision \in {Decide(h).decision, "escalate"} : Return(d, Sync(h, decision))
    <3> DEFINE h == AddCycle(hitch, o.run)
    <3>1. PICK decision : Return(d, Sync(h, decision))
      BY <2>2
    <3> DEFINE g == Sync(h, decision)
    <3> HIDE DEF o
    <3>2. /\ RowsOK(h) /\ Touches(hitch, h, {"cycles", "checks"}) /\ Outdated(hitch, h, 0)
          /\ h.cycles = Append(hitch.cycles, [run |-> o.run])
      BY <1>0, <2>0, CycleRows
    <3> HIDE DEF h
    <3>3. RowsOK(g) /\ Touches(h, g, {"status"})
      BY <3>2, SyncRows
    <3>4. {"cycles", "checks"} \cup {"status"} = {"cycles", "checks", "status"}
      OBVIOUS
    <3> HIDE DEF g
    <3>5. Touches(hitch, g, {"cycles", "checks", "status"}) /\ g.checks = h.checks /\ g.cycles = h.cycles
      <4>1. Touches(hitch, h, {"cycles", "checks"}) /\ Touches(h, g, {"status"})
        BY <3>2, <3>3
      <4> QED
        BY <3>4, <4>1, StatusLast
    <3>6. ReviewPends(hitch, g, o, Idle)
      BY <2>0, <3>2, <3>5 DEF ReviewPends, Outdated
    <3>7. hitch' = g /\ drive' = [drive EXCEPT ![d] = Idle]
      BY <3>1 DEF Return, g
    <3> QED
      BY <3>3, <3>6, <3>7, IdleOK DEF DriveMoves, DriveKind, o
  <2>3. CASE Throw(d, hitch)
    BY <1>0, <1>1, <2>3, QuietThrow
  <2> QED
    BY <1>4, <2>1, <2>2, <2>3 DEF ReviewWork
<1>5. ASSUME ReviewImport(d) PROVE DriveMoves(d)
  <2>0. o.pc = "review_import" /\ o.run # 0 /\ o.run \in Runs
    BY <1>0, <1>5 DEF ReviewImport, At, MemoryOK, Runs
  <2> DEFINE v == hitch.runs[o.run].status
  <2>1. PICK seeds \in Seeds(v) : Return(d, EvaluateAndSync(Import(hitch, o.run, v, seeds)))
    BY <1>5 DEF ReviewImport
  <2> DEFINE h == Import(hitch, o.run, v, seeds)
             g == EvaluateAndSync(h)
  <2> HIDE DEF o, v
  <2>2. SeedsOK(seeds)
    BY SeedsFacts
  <2>3. /\ RowsOK(h) /\ Touches(hitch, h, {"cycles", "findings", "checks"})
        /\ Imported(hitch, h, o.run, v)
    BY <1>0, <2>0, <2>2, ImportRows
  <2> HIDE DEF h
  <2>4. RowsOK(g) /\ Touches(h, g, {"status"})
    BY <2>3, SyncRows DEF EvaluateAndSync
  <2>5. {"cycles", "findings", "checks"} \cup {"status"} = {"cycles", "findings", "checks", "status"}
    OBVIOUS
  <2>6. hitch' = g /\ drive' = [drive EXCEPT ![d] = Idle]
    BY <2>1 DEF Return, h, o
  <2> HIDE DEF g
  <2>7. /\ Touches(hitch, g, {"cycles", "findings", "checks", "status"})
        /\ g.checks = h.checks /\ g.cycles = h.cycles /\ g.findings = h.findings
    BY <2>3, <2>4, <2>5, StatusLast
  <2>8. Imported(hitch, g, o.run, v)
    BY <2>3, <2>7 DEF Imported
  <2>9. ReviewEnds(hitch, g, o, Idle)
    BY <2>0, <2>7, <2>8 DEF ReviewEnds, v
  <2> QED
    BY <2>4, <2>6, <2>9, IdleOK DEF DriveMoves, DriveKind, o
<1> QED
  BY <1>2, <1>3, <1>4, <1>5

(* The steps of the close check.                                             *)
LEMMA CheckSteps ==
  ASSUME TypeInv, NEW d \in Drives
  PROVE  /\ CheckPrep(d) => DriveMoves(d)
         /\ CheckRecord(d) => DriveMoves(d)
<1> DEFINE o == drive[d]
<1>0. /\ o \in Memories /\ o.run \in 0..MaxRuns /\ RowsOK(hitch) /\ MaxRuns \in Nat
  BY OrchestratorAssumption DEF TypeInv, Memories
<1>1. Touches(hitch, hitch, {"status", "push"})
  BY <1>0, TouchesNothing, TouchesMore
<1>2. ASSUME CheckPrep(d) PROVE DriveMoves(d)
  <2> DEFINE r == LatestRun(hitch)
             m == [o EXCEPT !.pc = "check_record", !.run = r]
  <2>1. CASE Throw(d, hitch)
    BY <1>0, <1>1, <2>1, QuietThrow
  <2>2. CASE drive' = [drive EXCEPT ![d] = m] /\ hitch' = hitch
    <3>1. r \in 0..MaxRuns
      BY <1>0, LatestRunType
    <3>2. m \in Memories /\ m.pc = "check_record"
      <4> HIDE DEF r, o
      <4> QED
        BY <1>0, <3>1 DEF Memories, Steps
    <3> HIDE DEF m, o
    <3>3. MemoryOK(m) /\ m.pc \in Free
      BY <3>2 DEF MemoryOK, Free, Steps
    <3>4. Rest(hitch, hitch', o, m)
      BY <1>0, <1>1, <2>2, <3>3, QuietRows DEF Rest
    <3> QED
      BY <1>0, <2>2, <3>3, <3>4 DEF DriveMoves, DriveKind, o
  <2> QED
    BY <1>2, <2>1, <2>2 DEF CheckPrep
<1>3. ASSUME CheckRecord(d) PROVE DriveMoves(d)
  <2>1. CASE Throw(d, hitch)
    BY <1>0, <1>1, <2>1, QuietThrow
  <2>2. CASE \E status \in {"passed", "failed"} :
               Return(d, RecordCheck(hitch, "command", status, o.run))
    <3>1. PICK s \in {"passed", "failed"} : Return(d, RecordCheck(hitch, "command", s, o.run))
      BY <2>2
    <3>2. hitch' = RecordCheck(hitch, "command", s, o.run) /\ drive' = [drive EXCEPT ![d] = Idle]
      BY <3>1 DEF Return
    <3> HIDE DEF o
    <3>3. /\ RowsOK(hitch') /\ Touches(hitch, hitch', {"checks"})
          /\ Recorded(hitch, hitch', "command", s, o.run)
      BY <1>0, <3>2, RecordRows
    <3>4. Touches(hitch, hitch', {"status", "push", "checks", "findings"}) /\ Outdates(hitch, hitch')
      BY <3>3, TouchesMore DEF Recorded, Outdates
    <3>5. Retires(hitch, hitch')
      BY <3>3 DEF Touches, HitchFields, Retires
    <3>6. Rest(hitch, hitch', o, Idle)
      BY <3>4, <3>5, IdleOK DEF Rest
    <3> QED
      BY <3>2, <3>3, <3>6, IdleOK DEF DriveMoves, DriveKind, o
  <2> QED
    BY <1>3, <2>1, <2>2 DEF CheckRecord
<1> QED
  BY <1>2, <1>3

(* A drive that reads a set of findings, or drops one of the set.            *)
LEMMA KeysPuts ==
  ASSUME TypeInv, NEW d \in Drives, NEW pc \in Free, NEW keys \in SUBSET Keys
  PROVE  LET m == [drive[d] EXCEPT !.pc = pc, !.keys = keys]
         IN  MemoryOK(m) /\ m.pc \in Free
<1>1. drive[d] \in Memories
  BY DEF TypeInv
<1>2. pc \in Steps
  BY DEF Free
<1> QED
  BY <1>1, <1>2 DEF Memories, MemoryOK, Free

(* The steps of classify and defer.                                          *)
LEMMA FindingSteps ==
  ASSUME TypeInv, NEW d \in Drives
  PROVE  /\ ClassifyRead(d) => DriveMoves(d)
         /\ ClassifyApply(d) => DriveMoves(d)
         /\ ClassifyStop(d) => DriveMoves(d)
         /\ DeferRead(d) => DriveMoves(d)
         /\ DeferOne(d) => DriveMoves(d)
<1> DEFINE o == drive[d]
<1>0. o \in Memories /\ o.keys \in SUBSET Keys /\ RowsOK(hitch) /\ hitch.findings \in [Keys -> Findings]
  BY DEF TypeInv, Memories, RowsOK
<1>1. Touches(hitch, hitch, {"status", "push"})
  BY <1>0, TouchesNothing, TouchesMore
<1>2. {"classify_apply", "defer_one", "defer_read", "classify_stop"} \subseteq Free
  BY DEF Free, Steps
<1>3. ASSUME NEW m, MemoryOK(m), m.pc \in Free, drive' = [drive EXCEPT ![d] = m], hitch' = hitch
      PROVE  DriveMoves(d)
  <2>1. Rest(hitch, hitch', o, m)
    BY <1>0, <1>1, <1>3, QuietRows DEF Rest
  <2> QED
    BY <1>0, <1>3, <2>1 DEF DriveMoves, DriveKind
<1>4. ASSUME ClassifyRead(d) PROVE DriveMoves(d)
  <2>1. CASE Return(d, hitch)
    BY <1>0, <1>1, <2>1, QuietReturn
  <2>2. CASE /\ drive' = [drive EXCEPT ![d] = [drive[d] EXCEPT !.pc = "classify_apply", !.keys = OpenUnknown(hitch)]]
             /\ hitch' = hitch
    <3>1. OpenUnknown(hitch) \in SUBSET Keys
      BY DEF OpenUnknown
    <3> QED
      BY <1>2, <1>3, <2>2, <3>1, KeysPuts
  <2> QED
    BY <1>4, <2>1, <2>2 DEF ClassifyRead
<1>5. ASSUME DeferRead(d) PROVE DriveMoves(d)
  <2>1. CASE Return(d, hitch)
    BY <1>0, <1>1, <2>1, QuietReturn
  <2>2. CASE /\ drive' = [drive EXCEPT ![d] = [drive[d] EXCEPT !.pc = "defer_one", !.keys = OpenOutOfScope(hitch)]]
             /\ hitch' = hitch
    <3>1. OpenOutOfScope(hitch) \in SUBSET Keys
      BY DEF OpenOutOfScope
    <3> QED
      BY <1>2, <1>3, <2>2, <3>1, KeysPuts
  <2> QED
    BY <1>5, <2>1, <2>2 DEF DeferRead
<1>6. ASSUME ClassifyStop(d) PROVE DriveMoves(d)
  BY <1>6, SyncedStatus, QuietReturn DEF ClassifyStop
(* Findings written and the recorded checks outdated.                        *)
<1>7. ASSUME NEW F \in [Keys -> Findings], hitch' = Outdate([hitch EXCEPT !.findings = F], 0),
             Retires(hitch, [hitch EXCEPT !.findings = F])
      PROVE  /\ RowsOK(hitch') /\ Touches(hitch, hitch', {"status", "push", "checks", "findings"})
             /\ Outdates(hitch, hitch') /\ Retires(hitch, hitch')
  <2> DEFINE e == [hitch EXCEPT !.findings = F]
  <2>1. RowsOK(e) /\ Touches(hitch, e, {"findings"}) /\ e.findings = F
    BY <1>0, FindingsRows
  <2> HIDE DEF e
  <2>2. RowsOK(hitch') /\ Touches(e, hitch', {"checks"}) /\ Outdated(e, hitch', 0)
    BY <1>7, <2>1, OutdateRows DEF e
  <2>3. /\ Touches(hitch, hitch', {"status", "push", "checks", "findings"})
        /\ e.checks = hitch.checks /\ hitch'.findings = e.findings
    BY <2>1, <2>2 DEF Touches, HitchFields
  <2>4. Outdates(hitch, hitch')
    BY <2>2, <2>3 DEF Outdated, Outdates
  <2>5. Retires(hitch, hitch')
    BY <1>7, <2>3 DEF Retires, e
  <2> QED
    BY <2>2, <2>3, <2>4, <2>5
<1>8. ASSUME ClassifyApply(d) PROVE DriveMoves(d)
  <2> DEFINE fresh == o.keys \cap OpenUnknown(hitch)
             m(decided) == IF decided = fresh THEN Idle ELSE [Idle EXCEPT !.pc = "classify_stop"]
  <2>1. PICK decided \in SUBSET (fresh \ OwnKeys) :
          \E scope \in [decided -> {"in_scope", "out_of_scope"}] :
            /\ hitch' = IF decided = {} THEN hitch ELSE
                 Outdate([hitch EXCEPT !.findings = [k \in Keys |->
                            IF k \in decided THEN Classify(@[k], scope[k]) ELSE @[k]]], Tables)
            /\ drive' = [drive EXCEPT ![d] = m(decided)]
    BY <1>8 DEF ClassifyApply
  <2>2. MemoryOK(m(decided)) /\ m(decided).pc \in Free
    <3>1. [Idle EXCEPT !.pc = "classify_stop"] = [pc |-> "classify_stop", att |-> 0, run |-> 0, keys |-> {}]
      BY DEF Idle
    <3>2. 0 \in 0..MaxRuns
      BY OrchestratorAssumption
    <3>3. MemoryOK([Idle EXCEPT !.pc = "classify_stop"]) /\ [Idle EXCEPT !.pc = "classify_stop"].pc = "classify_stop"
      BY <3>1, <3>2 DEF MemoryOK, Memories, Steps
    <3> QED
      BY <1>2, <3>3, IdleOK
  <2>3. PICK scope \in [decided -> {"in_scope", "out_of_scope"}] :
          hitch' = IF decided = {} THEN hitch ELSE
                 Outdate([hitch EXCEPT !.findings = [k \in Keys |->
                            IF k \in decided THEN Classify(@[k], scope[k]) ELSE @[k]]], Tables)
    BY <2>1
  <2>4. CASE decided = {}
    BY <1>3, <2>1, <2>2, <2>3, <2>4
  <2>5. CASE decided # {}
    <3> DEFINE F == [k \in Keys |-> IF k \in decided THEN Classify(hitch.findings[k], scope[k])
                                    ELSE hitch.findings[k]]
    <3>1. hitch' = Outdate([hitch EXCEPT !.findings = F], 0)
      BY <2>3, <2>5 DEF Tables
    <3>2. \A k \in decided : /\ k \in Keys \ OwnKeys /\ hitch.findings[k].scope = "unknown"
                             /\ scope[k] \in {"in_scope", "out_of_scope"} /\ scope[k] \in Scopes
      BY DEF OpenUnknown, Scopes
    <3>3. \A k \in Keys : F[k] \in Findings
      BY <1>0, <3>2, ClassifyFacts
    <3>4. F \in [Keys -> Findings]
      BY <3>3
    <3>5. \A k \in Keys : Blocks(hitch.findings[k]) /\ ~Blocks(F[k]) =>
            /\ k \notin OwnKeys
            /\ hitch.findings[k].scope = "unknown" /\ F[k].scope = "out_of_scope"
      <4> SUFFICES ASSUME NEW k \in Keys, Blocks(hitch.findings[k]), ~Blocks(F[k])
                   PROVE  /\ k \notin OwnKeys
                          /\ hitch.findings[k].scope = "unknown" /\ F[k].scope = "out_of_scope"
        OBVIOUS
      <4>1. k \in decided
        OBVIOUS
      <4>2. F[k] = Classify(hitch.findings[k], scope[k])
        BY <4>1
      <4>3. /\ Classify(hitch.findings[k], scope[k]).scope = scope[k]
            /\ scope[k] = "in_scope" => Blocks(Classify(hitch.findings[k], scope[k]))
        BY <1>0, <3>2, <4>1, ClassifyFacts
      <4> QED
        BY <3>2, <4>1, <4>2, <4>3
    <3> HIDE DEF F
    <3>6. Retires(hitch, [hitch EXCEPT !.findings = F])
      BY <1>0, <3>4, <3>5, FindingsRows DEF Retires
    <3> HIDE DEF m
    <3>7. Rest(hitch, hitch', o, m(decided)) /\ RowsOK(hitch')
      BY <1>7, <2>2, <3>1, <3>4, <3>6 DEF Rest
    <3> QED
      BY <2>1, <2>2, <3>7 DEF DriveMoves, DriveKind
  <2> QED
    BY <2>4, <2>5
<1>9. ASSUME DeferOne(d) PROVE DriveMoves(d)
  <2>1. PICK k \in o.keys :
          IF hitch.findings[k].scope # "out_of_scope"
          THEN Throw(d, hitch)
          ELSE /\ hitch' = SetFinding(hitch, k, [hitch.findings[k] EXCEPT !.life = "deferred"])
               /\ drive' = [drive EXCEPT ![d].keys = @ \ {k},
                                         ![d].pc = IF drive[d].keys = {k} THEN "defer_read" ELSE @]
    BY <1>9 DEF DeferOne
  <2>2. CASE hitch.findings[k].scope # "out_of_scope"
    BY <1>0, <1>1, <2>1, <2>2, QuietThrow
  <2>3. CASE hitch.findings[k].scope = "out_of_scope"
    <3> DEFINE pc == IF o.keys = {k} THEN "defer_read" ELSE "defer_one"
               m == [o EXCEPT !.pc = pc, !.keys = o.keys \ {k}]
               f == [hitch.findings[k] EXCEPT !.life = "deferred"]
               F == [hitch.findings EXCEPT ![k] = f]
    <3>0. k \in Keys
      BY <1>0
    <3>1. o.pc = "defer_one"
      BY <1>9 DEF DeferOne, At
    <3>2. drive' = [drive EXCEPT ![d] = m]
      BY <1>0, <2>1, <2>3, <3>1 DEF Memories
    <3>3. MemoryOK(m) /\ m.pc \in Free
      <4>1. pc \in Free /\ o.keys \ {k} \in SUBSET Keys
        BY <1>0, <1>2
      <4> QED
        BY <4>1, KeysPuts
    <3>4. f \in Findings
      BY <1>0, <3>0, LifeFacts DEF Lives
    <3>5. hitch' = Outdate([hitch EXCEPT !.findings = F], 0)
      BY <2>1, <2>3 DEF SetFinding, Tables
    <3>6. F \in [Keys -> Findings]
      BY <1>0, <3>4
    <3>7. \A x \in Keys : Blocks(hitch.findings[x]) => F[x] = hitch.findings[x]
      BY <1>0, <2>3 DEF Blocks
    <3> HIDE DEF F, m
    <3>8. Retires(hitch, [hitch EXCEPT !.findings = F])
      BY <1>0, <3>6, <3>7, FindingsRows DEF Retires
    <3>9. Rest(hitch, hitch', o, m) /\ RowsOK(hitch')
      BY <1>7, <3>3, <3>5, <3>6, <3>8 DEF Rest
    <3> QED
      BY <3>2, <3>3, <3>9 DEF DriveMoves, DriveKind
  <2> QED
    BY <2>2, <2>3
<1> QED
  BY <1>4, <1>5, <1>6, <1>8, <1>9

(* The steps of the close.                                                   *)
LEMMA CloseSteps ==
  ASSUME TypeInv, NEW d \in Drives
  PROVE  /\ CloseEval(d) => DriveMoves(d)
         /\ ClosePr(d) => DriveMoves(d)
         /\ CloseDone(d) => DriveMoves(d)
<1> DEFINE o == drive[d]
<1>0. /\ o \in Memories /\ MemoryOK(o) /\ o.run \in 0..MaxRuns /\ RowsOK(hitch) /\ MaxRuns \in Nat
  BY OrchestratorAssumption DEF TypeInv, Memories
<1>1. Touches(hitch, hitch, {"status", "push"})
  BY <1>0, TouchesNothing, TouchesMore
<1>2. ASSUME CloseEval(d) PROVE DriveMoves(d)
  <2>1. CASE Throw(d, hitch)
    BY <1>0, <1>1, <2>1, QuietThrow
  <2>2. CASE /\ Decide(hitch).decision = "close_ready" /\ LatestRun(hitch) # 0
             /\ drive' = [drive EXCEPT ![d].pc = "close_pr", ![d].run = LatestRun(hitch)]
             /\ hitch' = hitch
    <3> DEFINE r == LatestRun(hitch)
               m == [o EXCEPT !.pc = "close_pr", !.run = r]
    <3>1. drive' = [drive EXCEPT ![d] = m]
      BY <2>2
    <3>2. r \in 0..MaxRuns /\ r # 0 /\ AllPassed(hitch)
      BY <1>0, <2>2, LatestRunType, ReadySaysPassed
    <3>3. m \in Memories /\ m.pc = "close_pr" /\ m.run = r
      <4> HIDE DEF r, o
      <4> QED
        BY <1>0, <3>2 DEF Memories, Steps
    <3> HIDE DEF m, o
    <3>4. MemoryOK(m) /\ CloseStarts(hitch, hitch', o, m)
      BY <1>0, <2>2, <3>2, <3>3, TouchesNothing DEF MemoryOK, CloseStarts
    <3> QED
      BY <1>0, <2>2, <3>1, <3>4 DEF DriveMoves, DriveKind, o
  <2> QED
    BY <1>2, <2>1, <2>2 DEF CloseEval
<1>3. ASSUME ClosePr(d) PROVE DriveMoves(d)
  <2>0. o.pc = "close_pr" /\ o.run # 0 /\ o.run \in Runs
    BY <1>0, <1>3 DEF ClosePr, At, MemoryOK, Runs
  <2> DEFINE c == CountPush(hitch, o.run)
  <2>1. RowsOK(c) /\ Touches(hitch, c, {"push"}) /\ Touches(hitch, c, {"status", "push"})
    <3> HIDE DEF o
    <3>1. RowsOK(c) /\ Touches(hitch, c, {"push"})
      BY <1>0, PushRows
    <3> HIDE DEF c
    <3> QED
      BY <3>1, TouchesMore
  <2>2. CASE /\ o.run \in hitch.prs \/ (o.run \notin hitch.prs /\ hitch.runs[o.run].status = "approved")
             /\ hitch' = [hitch EXCEPT !.prs = @ \cup {o.run}]
             /\ Goto(d, "close_done")
    <3>1. "close_done" \in Steps /\ "close_done" \in Free
      BY DEF Steps, Free
    <3>2. PICK m \in Memories : drive' = [drive EXCEPT ![d] = m] /\ m.pc = "close_done"
      BY <2>2, <3>1, GotoPuts
    <3> HIDE DEF o
    <3>3. RowsOK(hitch') /\ Touches(hitch, hitch', {"prs"}) /\ hitch'.prs = hitch.prs \cup {o.run}
      BY <1>0, <2>0, <2>2, PrsRows
    <3>4. MemoryOK(m) /\ PrMade(hitch, hitch', o, m)
      BY <2>0, <2>2, <3>1, <3>2, <3>3 DEF MemoryOK, PrMade
    <3> QED
      BY <3>2, <3>3, <3>4 DEF DriveMoves, DriveKind, o
  <2>3. CASE Throw(d, c)
    BY <2>1, <2>3, QuietThrow
  <2>4. CASE Return(d, [c EXCEPT !.status = "close_ready"])
    <3> DEFINE g == [c EXCEPT !.status = "close_ready"]
    <3>1. "close_ready" \in HitchStatuses
      BY DEF HitchStatuses
    <3> HIDE DEF c
    <3>2. RowsOK(g) /\ Touches(c, g, {"status"})
      BY <2>1, <3>1, StatusRows
    <3> HIDE DEF g
    <3>3. Touches(hitch, g, {"status", "push"})
      BY <2>1, <3>2 DEF Touches
    <3> QED
      BY <2>4, <3>2, <3>3, QuietReturn DEF g, c
  <2>5. CASE Throw(d, hitch)
    BY <1>0, <1>1, <2>5, QuietThrow
  <2> QED
    BY <1>3, <2>2, <2>3, <2>4, <2>5 DEF ClosePr
<1>4. ASSUME CloseDone(d) PROVE DriveMoves(d)
  <2> DEFINE g == [hitch EXCEPT !.status = "closed"]
  <2>1. "closed" \in HitchStatuses
    BY DEF HitchStatuses
  <2>2. RowsOK(g) /\ Touches(hitch, g, {"status"})
    BY <1>0, <2>1, StatusRows
  <2>3. Return(d, g)
    BY <1>4 DEF CloseDone
  <2> HIDE DEF g
  <2>4. Touches(hitch, g, {"status", "push"})
    BY <2>2, TouchesMore
  <2> QED
    BY <2>2, <2>3, <2>4, QuietReturn
<1> QED
  BY <1>2, <1>3, <1>4

(* All of them.                                                              *)
LEMMA DriveSteps ==
  ASSUME TypeInv, NEW d \in Drives, DriveStep(d)
  PROVE  DriveMoves(d)
BY GateSteps, CoderSteps, ReviewSteps, CheckSteps, FindingSteps, CloseSteps DEF DriveStep

-----------------------------------------------------------------------------
(* The operator's commands.                                                  *)

(* A command that writes the status.                                         *)
LEMMA OperatorStatus ==
  ASSUME TypeInv, NEW g, RowsOK(g), Touches(hitch, g, {"status", "push"})
  PROVE  OperatorKind(hitch, g)
<1>1. Touches(hitch, g, {"status", "push", "max", "checks", "findings"})
  BY TouchesMore
<1>2. Outdates(hitch, g)
  BY QuietRows DEF TypeInv
<1>3. g.max = hitch.max
  BY DEF Touches, HitchFields
<1>4. \A b \in {"iterations", "cycles", "reruns"} : hitch.max[b] =< g.max[b]
  BY <1>3 DEF TypeInv, RowsOK
<1> QED
  BY <1>1, <1>2, <1>4 DEF OperatorKind

(* A command that writes one finding.                                        *)
LEMMA OperatorFinding ==
  ASSUME TypeInv, NEW k \in Keys, NEW f \in Findings
  PROVE  RowsOK(SetFinding(hitch, k, f)) /\ OperatorKind(hitch, SetFinding(hitch, k, f))
<1> DEFINE g == SetFinding(hitch, k, f)
<1>1. RowsOK(g) /\ Touches(hitch, g, {"findings", "checks"}) /\ Outdated(hitch, g, 0)
  BY SetFindingRows DEF TypeInv, Tables
<1> HIDE DEF g
<1>2. Touches(hitch, g, {"status", "push", "max", "checks", "findings"})
  BY <1>1, TouchesMore
<1>3. Outdates(hitch, g)
  BY <1>1 DEF Outdated, Outdates
<1>4. g.max = hitch.max
  BY <1>1 DEF Touches, HitchFields
<1>5. \A b \in {"iterations", "cycles", "reruns"} : hitch.max[b] =< g.max[b]
  BY <1>4 DEF TypeInv, RowsOK
<1>6. OperatorKind(hitch, g)
  BY <1>2, <1>3, <1>5 DEF OperatorKind
<1> QED
  BY <1>1, <1>6 DEF g

(* Every command of an operator.                                             *)
LEMMA OperatorSteps ==
  ASSUME TypeInv, NEW op, NEW g \in Outcomes(op, hitch),
         op \in Commands
  PROVE  RowsOK(g) /\ OperatorKind(hitch, g)
<1>0. RowsOK(hitch) /\ hitch.findings \in [Keys -> Findings]
  BY DEF TypeInv, RowsOK
<1>1. ASSUME NEW s \in HitchStatuses, g = [hitch EXCEPT !.status = s]
      PROVE  RowsOK(g) /\ OperatorKind(hitch, g)
  <2>1. RowsOK(g) /\ Touches(hitch, g, {"status"})
    BY <1>0, <1>1, StatusRows
  <2> QED
    BY <2>1, TouchesMore, OperatorStatus
<1>2. CASE op = "cancel"
  <2>1. g = [hitch EXCEPT !.status = "cancelled"]
    BY <1>2 DEF Outcomes, OpCancel
  <2> QED
    BY <1>1, <2>1 DEF HitchStatuses
<1>3. CASE op = "close"
  <2>1. g = [hitch EXCEPT !.status = "closed"]
    BY <1>3 DEF Outcomes, OpClose
  <2> QED
    BY <1>1, <2>1 DEF HitchStatuses
<1>4. CASE op = "reopen"
  <2> DEFINE P == [run |-> 0, n |-> 0]
             M == [b \in DOMAIN hitch.max |-> hitch.max[b] + Extension]
  <2>1. g = [hitch EXCEPT !.status = "open", !.push = P, !.max = M]
    BY <1>4 DEF Outcomes, OpReopen
  <2>2. hitch.max \in [{"iterations", "cycles", "reruns"} -> Nat] /\ Extension \in Nat /\ MaxRuns \in Nat
    BY <1>0, OrchestratorAssumption DEF RowsOK
  <2>3. /\ M \in [{"iterations", "cycles", "reruns"} -> Nat]
        /\ \A b \in {"iterations", "cycles", "reruns"} : hitch.max[b] =< M[b]
    BY <2>2
  <2>4. P \in [run : 0..MaxRuns, n : Nat]
    BY <2>2
  <2> HIDE DEF P, M
  <2>5. /\ DOMAIN g = HitchFields /\ g.status = "open" /\ g.push = P /\ g.max = M
        /\ \A f \in HitchFields \ {"status", "push", "max"} : g[f] = hitch[f]
    BY <1>0, <2>1 DEF RowsOK, HitchFields
  <2>6. RowsOK(g)
    BY <1>0, <2>3, <2>4, <2>5 DEF RowsOK, AttemptsOK, HitchFields, HitchStatuses
  <2>7. Touches(hitch, g, {"status", "push", "max", "checks", "findings"}) /\ g.checks = hitch.checks
    BY <2>5 DEF Touches, HitchFields
  <2>8. Outdates(hitch, g)
    BY <2>7 DEF Outdates
  <2> QED
    BY <2>3, <2>5, <2>6, <2>7, <2>8 DEF OperatorKind
<1>5. CASE op = "add"
  <2>1. g \in OpAdd(hitch)
    BY <1>5 DEF Outcomes
  <2>2. PICK k \in OwnKeys, sev \in {"P1", "P2"}, scope \in Scopes :
          g = SetFinding(hitch, k, AddOwn(hitch.findings[k], [sev |-> sev, scope |-> scope]))
    BY <2>1 DEF OpAdd
  <2> DEFINE seed == [sev |-> sev, scope |-> scope]
             f == AddOwn(hitch.findings[k], seed)
  <2>3. k \in Keys /\ seed.sev \in Severities /\ seed.scope \in Scopes
    BY DEF Keys, Severities
  <2> HIDE DEF seed
  <2>4. hitch.findings[k] \in Findings /\ 0 \in Nat /\ FALSE \in BOOLEAN
    BY <1>0, <2>3
  <2>5. Kept(hitch.findings[k], f)
    BY <2>3, <2>4, UpsertFacts, Zenon DEF AddOwn
  <2>6. f \in Findings
    BY <2>5 DEF Kept
  <2>7. g = SetFinding(hitch, k, f)
    BY <2>2 DEF seed
  <2> QED
    BY <2>3, <2>6, <2>7, OperatorFinding
<1>6. CASE op = "fixed"
  <2>1. PICK k \in Keys : g = SetFinding(hitch, k, [hitch.findings[k] EXCEPT !.life = "fixed"])
    BY <1>6 DEF Outcomes, OpFixed
  <2>2. [hitch.findings[k] EXCEPT !.life = "fixed"] \in Findings
    BY <1>0, LifeFacts DEF Lives
  <2> QED
    BY <2>1, <2>2, OperatorFinding
<1>7. CASE op = "classify"
  <2>1. PICK k \in Keys, scope \in Scopes : g = SetFinding(hitch, k, Classify(hitch.findings[k], scope))
    BY <1>7 DEF Outcomes, OpClassify
  <2>2. Classify(hitch.findings[k], scope) \in Findings
    BY <1>0, ClassifyFacts
  <2> QED
    BY <2>1, <2>2, OperatorFinding
<1>8. CASE op = "record"
  <2>1. PICK s \in {"passed", "failed"} : g = RecordCheck(hitch, "manual", s, 0)
    BY <1>8 DEF Outcomes, OpRecord
  <2>2. 0 \in 0..MaxRuns /\ s \in {"none", "passed", "failed"}
    BY OrchestratorAssumption
  <2>3. RowsOK(g) /\ Touches(hitch, g, {"checks"}) /\ Recorded(hitch, g, "manual", s, 0)
    BY <1>0, <2>1, <2>2, RecordRows
  <2>4. Touches(hitch, g, {"status", "push", "max", "checks", "findings"}) /\ Outdates(hitch, g)
    BY <2>3, TouchesMore DEF Recorded, Outdates
  <2>5. g.max = hitch.max
    BY <2>3 DEF Touches, HitchFields
  <2>6. \A b \in {"iterations", "cycles", "reruns"} : hitch.max[b] =< g.max[b]
    BY <1>0, <2>5 DEF RowsOK
  <2> QED
    BY <2>3, <2>4, <2>6 DEF OperatorKind
<1>9. CASE op = "attempt"
  <2>1. PICK i \in DOMAIN hitch.attempts : g = CompleteAttempt(hitch, i, "failed", 0)
    BY <1>9 DEF Outcomes, OpAttempt
  <2>2. 0 \in 0..MaxRuns /\ i \in Nat /\ "failed" \in {"running", "succeeded", "failed"}
    BY <1>0, IterationFacts, OrchestratorAssumption
  <2>3. /\ RowsOK(g) /\ Touches(hitch, g, {"attempts", "checks"}) /\ Outdated(hitch, g, i)
        /\ Completed(hitch, g, i, 0)
    BY <1>0, <2>1, <2>2, CompleteRows
  <2> QED
    BY <2>3 DEF OperatorKind
<1> QED
  BY <1>2, <1>3, <1>4, <1>5, <1>6, <1>7, <1>8, <1>9 DEF Commands

-----------------------------------------------------------------------------
(* Type correctness.                                                         *)

(* Whatever happens: a drive takes a step of a known kind, an operator's     *)
(* command writes the rows, or neither the rows nor the drives change.       *)
StepKind ==
  \/ \E d \in Drives : DriveMoves(d)
  \/ RowsOK(hitch') /\ OperatorKind(hitch, hitch') /\ UNCHANGED drive /\ ByOperator
  \/ UNCHANGED <<hitch, drive>>

(* Every step of the specification is of one of these kinds.                 *)
LEMMA StepKinds ==
  ASSUME TypeInv, [Next]_vars
  PROVE  StepKind
<1>1. CASE \E d \in Drives : DriveStep(d)
  BY <1>1, DriveSteps DEF StepKind
<1>2. ASSUME NEW d \in Drives, Crash(d) PROVE StepKind
  <2>1. hitch' = hitch /\ drive' = [drive EXCEPT ![d] = Idle]
    BY <1>2 DEF Crash
  <2>2. Touches(hitch, hitch, {"status", "push"})
    BY TouchesNothing, TouchesMore DEF TypeInv
  <2>3. Rest(hitch, hitch', drive[d], Idle)
    BY <2>1, <2>2, IdleOK, QuietRows DEF Rest, TypeInv
  <2> QED
    BY <2>1, <2>3, IdleOK DEF DriveMoves, DriveKind, TypeInv, StepKind
<1>3. ASSUME NEW op \in OpKinds, Operate(op) PROVE StepKind
  <2>1. op \in Commands
    BY OrchestratorAssumption
  <2>2. /\ hitch' \in Outcomes(op, hitch) /\ UNCHANGED drive
        /\ left.ops > 0 /\ left' = [left EXCEPT !.ops = @ - 1]
    BY <1>3 DEF Operate
  <2>3. ByOperator
    BY <2>2, OrchestratorAssumption DEF ByOperator, TypeInv
  <2> QED
    BY <2>1, <2>2, <2>3, OperatorSteps DEF StepKind
<1>4. CASE \E d \in Drives : LeaseLost(d)
  BY <1>4 DEF LeaseLost, StepKind
<1>5. CASE LeaseExpires
  BY <1>5 DEF LeaseExpires, StepKind
<1>6. CASE UNCHANGED vars
  BY <1>6 DEF vars, StepKind
<1> QED
  BY <1>1, <1>2, <1>3, <1>4, <1>5, <1>6 DEF Next

(* The lock and the bounds of the model keep their types.                    *)
LEMMA LockSteps ==
  ASSUME TypeInv, [Next]_vars
  PROVE  /\ lock' \in Drives \cup {"none", "dead"}
         /\ left' \in [crashes : 0..MaxCrashes, lapses : 0..MaxLapses, ops : 0..MaxOps]
<1> USE DEF TypeInv
<1>0. {MaxCrashes, MaxLapses, MaxOps} \subseteq Nat
  BY OrchestratorAssumption
<1>1. ASSUME NEW d \in Drives, DriveStep(d) PROVE lock' \in {lock, d, "none"} /\ left' = left
  BY <1>1 DEF DriveStep, Evaluate, CoderGate, CoderCreate, CoderLock, CoderWork, CoderDone, CoderVoid,
       ReviewGate, ReviewPick, ReviewKnown, ReviewWork, ReviewImport, CheckPrep, CheckRecord,
       ClassifyRead, ClassifyApply, ClassifyStop, DeferRead, DeferOne, CloseEval, ClosePr, CloseDone
<1>2. ASSUME NEW d \in Drives, Crash(d)
      PROVE  lock' \in {lock, "dead"} /\ left.crashes > 0 /\ left' = [left EXCEPT !.crashes = @ - 1]
  BY <1>2 DEF Crash
<1>3. ASSUME NEW d \in Drives, LeaseLost(d)
      PROVE  lock' = "none" /\ left.lapses > 0 /\ left' = [left EXCEPT !.lapses = @ - 1]
  BY <1>3 DEF LeaseLost
<1>4. ASSUME NEW op \in OpKinds, Operate(op)
      PROVE  lock' = lock /\ left.ops > 0 /\ left' = [left EXCEPT !.ops = @ - 1]
  BY <1>4 DEF Operate
<1>5. CASE LeaseExpires
  BY <1>5 DEF LeaseExpires
<1>6. CASE UNCHANGED vars
  BY <1>6 DEF vars
<1> QED
  BY <1>0, <1>1, <1>2, <1>3, <1>4, <1>5, <1>6 DEF Next

(* The hitch is created with rows of the right types.                        *)
LEMMA TypeInit == Init => TypeInv
<1> SUFFICES ASSUME Init PROVE TypeInv
  OBVIOUS
<1>1. {MaxIterations, MaxCycles, MaxReruns, MaxRuns, MaxCrashes, MaxLapses, MaxOps} \subseteq Nat
  BY OrchestratorAssumption
<1>2. /\ DOMAIN hitch = HitchFields /\ hitch.status = "open" /\ hitch.cycles = <<>>
      /\ hitch.max = [iterations |-> MaxIterations, cycles |-> MaxCycles, reruns |-> MaxReruns]
      /\ DOMAIN hitch.attempts = {} /\ hitch.attempts = [i \in {} |-> 0]
      /\ hitch.findings = [k \in Keys |-> NoFinding]
      /\ hitch.checks = [c \in Conditions |-> NoCheck]
      /\ hitch.runs = <<>> /\ hitch.prs = {} /\ hitch.push = [run |-> 0, n |-> 0]
  BY DEF Init, HitchFields
<1>3. NoFinding \in Findings /\ NoCheck \in Checks
  BY <1>1 DEF NoFinding, NoCheck, Findings, Checks, Severities, Scopes, Lives
<1>4. hitch.findings \in [Keys -> Findings] /\ hitch.checks \in [Conditions -> Checks]
  BY <1>2, <1>3
<1>5. AttemptsOK(hitch)
  <2>1. DOMAIN hitch.attempts \subseteq 1..0
    BY <1>2
  <2> QED
    BY <1>2, <2>1 DEF AttemptsOK
<1>6. hitch.max \in [{"iterations", "cycles", "reruns"} -> Nat]
  BY <1>1, <1>2
<1>7. /\ hitch.cycles \in Seq([run : Runs]) /\ hitch.prs \subseteq Runs
      /\ hitch.runs \in Seq([status : RunStatuses, parent : 0..MaxRuns])
      /\ hitch.push \in [run : 0..MaxRuns, n : Nat] /\ hitch.status \in HitchStatuses
  BY <1>1, <1>2 DEF HitchStatuses
<1>8. RowsOK(hitch)
  BY <1>2, <1>4, <1>5, <1>6, <1>7 DEF RowsOK
<1>9. drive = [d \in Drives |-> Idle] /\ lock = "none"
      /\ left = [crashes |-> MaxCrashes, lapses |-> MaxLapses, ops |-> MaxOps]
  BY DEF Init
<1>10. Idle \in Memories
  BY IdleOK DEF MemoryOK
<1> QED
  BY <1>1, <1>8, <1>9, <1>10, IdleOK DEF TypeInv

(* Every step keeps the types.                                               *)
LEMMA TypeStep == TypeInv /\ [Next]_vars => TypeInv'
<1> SUFFICES ASSUME TypeInv, [Next]_vars PROVE TypeInv'
  OBVIOUS
<1>1. StepKind
  BY StepKinds
<1>2. RowsOK(hitch') /\ drive' \in [Drives -> Memories] /\ \A e \in Drives : MemoryOK(drive'[e])
  <2>1. CASE \E d \in Drives : DriveMoves(d)
    <3>1. PICK d \in Drives : DriveMoves(d)
      BY <2>1
    <3>2. PICK m : RowsOK(hitch') /\ MemoryOK(m) /\ drive' = [drive EXCEPT ![d] = m]
      BY <3>1 DEF DriveMoves
    <3> QED
      BY <3>2 DEF TypeInv, MemoryOK
  <2>2. CASE RowsOK(hitch') /\ UNCHANGED drive
    BY <2>2 DEF TypeInv
  <2>3. CASE UNCHANGED <<hitch, drive>>
    BY <2>3 DEF TypeInv
  <2> QED
    BY <1>1, <2>1, <2>2, <2>3 DEF StepKind
<1> QED
  BY <1>2, LockSteps DEF TypeInv

(* The rows and the memory of every drive keep their types, and a drive that *)
(* reviews or publishes always knows a run (latestRunId is checked before).  *)
THEOREM HitchInvariant == Spec => []TypeInv
<1>1. TypeInv /\ [Next]_vars => TypeInv'
  BY TypeStep
<1> QED
  BY TypeInit, <1>1, PTL DEF Spec

(* The tables of a hitch keep their types (hitch/repositories/*.ts).         *)
THEOREM HitchTypeCorrect == Spec => []HitchTypeOK
<1>1. TypeInv => HitchTypeOK
  <2> SUFFICES ASSUME TypeInv PROVE HitchTypeOK
    OBVIOUS
  <2>1. \A i \in DOMAIN hitch.attempts :
          /\ i \in Nat \ {0}
          /\ hitch.attempts[i] \in [rerun : BOOLEAN, status : {"running", "succeeded", "failed"},
                                    run : 0..MaxRuns, seen : Nat]
    BY DEF TypeInv, RowsOK, AttemptsOK, Attempts
  <2> QED
    BY <2>1 DEF TypeInv, RowsOK, HitchTypeOK, Findings, Checks, Memories
<1> QED
  BY HitchInvariant, <1>1, PTL

-----------------------------------------------------------------------------
(* The budgets.                                                              *)

Creating == {d \in Drives : drive[d].pc = "coder_create"}
ReviewSteps3 == {"review_pick", "review_known", "review_work", "review_import"}
Reviewing == {d \in Drives : drive[d].pc \in ReviewSteps3}

(* Every drive that passed a gate counts as if it had written its row: at    *)
(* the gate one unit was left, and at most all the drives are past it.       *)
BudgetInv ==
  LET slack == Cardinality(Drives) - 1
  IN  /\ IterationsUsed(hitch) + Cardinality(Creating) =< hitch.max.iterations + slack
      /\ RerunsUsed(hitch) + Cardinality(Creating) =< hitch.max.reruns + slack
      /\ CyclesUsed(hitch) + Cardinality(Reviewing) =< hitch.max.cycles + slack

(* What is used of the budgets is a number.                                  *)
LEMMA UseTypes ==
  ASSUME NEW h, RowsOK(h)
  PROVE  /\ IterationsUsed(h) \in Nat /\ RerunsUsed(h) \in Nat /\ CyclesUsed(h) \in Nat
         /\ h.max.iterations \in Nat /\ h.max.cycles \in Nat /\ h.max.reruns \in Nat
<1>1. RerunsUsed(h) \in Nat
  <2> DEFINE R == {i \in DOMAIN h.attempts : h.attempts[i].rerun}
  <2>1. IsFiniteSet(R)
    BY IterationFacts, FS_Subset
  <2> QED
    BY <2>1, FS_CardinalityType DEF RerunsUsed
<1>2. CyclesUsed(h) \in Nat
  BY DEF RowsOK, CyclesUsed
<1>3. h.max \in [{"iterations", "cycles", "reruns"} -> Nat]
  BY DEF RowsOK
<1>4. h.max.iterations \in Nat /\ h.max.cycles \in Nat /\ h.max.reruns \in Nat
  BY <1>3
<1> QED
  BY <1>1, <1>2, <1>4, IterationFacts

(* Discarding an attempt never uses more.                                    *)
LEMMA UseShrinks ==
  ASSUME NEW h, NEW g, RowsOK(h), RowsOK(g), DOMAIN g.attempts \subseteq DOMAIN h.attempts,
         \A j \in DOMAIN g.attempts : g.attempts[j].rerun = h.attempts[j].rerun
  PROVE  IterationsUsed(g) =< IterationsUsed(h) /\ RerunsUsed(g) =< RerunsUsed(h)
<1> DEFINE R(x) == {i \in DOMAIN x.attempts : x.attempts[i].rerun}
<1>1. R(g) \subseteq R(h) /\ IsFiniteSet(R(h))
  BY IterationFacts, FS_Subset
<1>2. RerunsUsed(g) =< RerunsUsed(h)
  BY <1>1, FS_Subset DEF RerunsUsed
<1>3. IterationsUsed(g) =< IterationsUsed(h)
  <2>1. CASE HasAttempt(g)
    <3>1. IterationsUsed(g) \in DOMAIN h.attempts
      BY <2>1, IterationFacts
    <3>2. IterationsUsed(g) \in 1..IterationsUsed(h)
      BY <3>1, IterationFacts
    <3> QED
      BY <3>2, UseTypes
  <2>2. CASE ~HasAttempt(g)
    <3>1. IterationsUsed(g) = 0
      BY <2>2 DEF IterationsUsed, HasAttempt
    <3> QED
      BY <3>1, UseTypes
  <2> QED
    BY <2>1, <2>2
<1> QED
  BY <1>2, <1>3

(* Creating an attempt uses one iteration, and one rerun when there was an   *)
(* attempt.                                                                  *)
LEMMA UseGrows ==
  ASSUME NEW h, NEW g, RowsOK(h), RowsOK(g), Made(h, g, IterationsUsed(h) + 1)
  PROVE  IterationsUsed(g) =< IterationsUsed(h) + 1 /\ RerunsUsed(g) =< RerunsUsed(h) + 1
<1> DEFINE i == IterationsUsed(h) + 1
           R(x) == {j \in DOMAIN x.attempts : x.attempts[j].rerun}
<1>1. /\ DOMAIN g.attempts = DOMAIN h.attempts \cup {i}
      /\ \A j \in DOMAIN h.attempts : g.attempts[j] = h.attempts[j]
  BY DEF Made
<1>2. i \in Nat \ {0} /\ \A j \in DOMAIN h.attempts : j \in 1..i
  BY IterationFacts
<1>3. IterationsUsed(g) =< i
  <2>1. IterationsUsed(g) \in DOMAIN g.attempts
    BY <1>1, IterationFacts DEF HasAttempt
  <2> QED
    BY <1>1, <1>2, <2>1
<1>4. R(g) \subseteq R(h) \cup {i} /\ IsFiniteSet(R(h))
  <2>1. IsFiniteSet(R(h))
    BY IterationFacts, FS_Subset
  <2> QED
    BY <1>1, <2>1
<1>5. /\ IsFiniteSet(R(h) \cup {i}) /\ Cardinality(R(h) \cup {i}) =< Cardinality(R(h)) + 1
  <2>1. i \notin R(h)
    BY DEF Made
  <2> HIDE DEF R, i
  <2>2. Cardinality(R(h) \cup {i}) = Cardinality(R(h)) + 1 /\ Cardinality(R(h)) \in Nat
    BY <1>4, <2>1, FS_AddElement, FS_CardinalityType
  <2> QED
    BY <1>4, <2>2, FS_AddElement
<1>6. Cardinality(R(g)) =< Cardinality(R(h) \cup {i})
  BY <1>4, <1>5, FS_Subset
<1>7. Cardinality(R(g)) \in Nat /\ Cardinality(R(h) \cup {i}) \in Nat /\ Cardinality(R(h)) \in Nat
  BY <1>4, <1>5, FS_CardinalityType, FS_Subset
<1>8. RerunsUsed(g) = Cardinality(R(g)) /\ RerunsUsed(h) = Cardinality(R(h))
  BY DEF RerunsUsed
<1> HIDE DEF R
<1> QED
  BY <1>3, <1>5, <1>6, <1>7, <1>8

(* The sets of drives past a gate are finite.                                *)
LEMMA DriveSets ==
  ASSUME NEW S \in SUBSET Drives
  PROVE  /\ IsFiniteSet(S) /\ Cardinality(S) \in Nat /\ Cardinality(S) =< Cardinality(Drives)
         /\ Cardinality(Drives) \in Nat \ {0}
         /\ \A T \in SUBSET S : Cardinality(T) =< Cardinality(S)
         /\ \A d \in S : Cardinality(S \ {d}) = Cardinality(S) - 1
<1>1. IsFiniteSet(Drives) /\ Drives # {}
  BY OrchestratorAssumption
<1>2. Cardinality(Drives) \in Nat /\ Cardinality(Drives) # 0
  BY <1>1, FS_CardinalityType, FS_EmptySet
<1>3. IsFiniteSet(S) /\ Cardinality(S) \in Nat /\ Cardinality(S) =< Cardinality(Drives)
  BY <1>1, FS_Subset, FS_CardinalityType
<1>4. \A T \in SUBSET S : Cardinality(T) =< Cardinality(S)
  BY <1>3, FS_Subset
<1>5. \A d \in S : Cardinality(S \ {d}) = Cardinality(S) - 1
  BY <1>3, FS_RemoveElement
<1> QED
  BY <1>2, <1>3, <1>4, <1>5

(* A step that uses nothing and passes no gate.                              *)
LEMMA BudgetKept ==
  ASSUME TypeInv, TypeInv', BudgetInv,
         IterationsUsed(hitch') =< IterationsUsed(hitch), RerunsUsed(hitch') =< RerunsUsed(hitch),
         CyclesUsed(hitch') = CyclesUsed(hitch),
         \A b \in {"iterations", "cycles", "reruns"} : hitch.max[b] =< hitch'.max[b],
         Creating' \subseteq Creating, Reviewing' \subseteq Reviewing
  PROVE  BudgetInv'
<1>1. Creating \in SUBSET Drives /\ Reviewing \in SUBSET Drives
  BY DEF Creating, Reviewing
<1>2. /\ Cardinality(Creating') =< Cardinality(Creating)
      /\ Cardinality(Reviewing') =< Cardinality(Reviewing)
      /\ Cardinality(Creating') \in Nat /\ Cardinality(Creating) \in Nat
      /\ Cardinality(Reviewing') \in Nat /\ Cardinality(Reviewing) \in Nat
      /\ Cardinality(Drives) \in Nat
  BY <1>1, DriveSets
<1>3. /\ IterationsUsed(hitch) \in Nat /\ RerunsUsed(hitch) \in Nat /\ CyclesUsed(hitch) \in Nat
      /\ hitch.max.iterations \in Nat /\ hitch.max.cycles \in Nat /\ hitch.max.reruns \in Nat
      /\ IterationsUsed(hitch') \in Nat /\ RerunsUsed(hitch') \in Nat /\ CyclesUsed(hitch') \in Nat
      /\ hitch'.max.iterations \in Nat /\ hitch'.max.cycles \in Nat /\ hitch'.max.reruns \in Nat
  BY UseTypes DEF TypeInv
<1>4. /\ hitch.max.iterations =< hitch'.max.iterations /\ hitch.max.cycles =< hitch'.max.cycles
      /\ hitch.max.reruns =< hitch'.max.reruns
  OBVIOUS
<1>5. /\ IterationsUsed(hitch) + Cardinality(Creating) =< hitch.max.iterations + (Cardinality(Drives) - 1)
      /\ RerunsUsed(hitch) + Cardinality(Creating) =< hitch.max.reruns + (Cardinality(Drives) - 1)
      /\ CyclesUsed(hitch) + Cardinality(Reviewing) =< hitch.max.cycles + (Cardinality(Drives) - 1)
  BY DEF BudgetInv
<1>6. /\ IterationsUsed(hitch') + Cardinality(Creating') =< hitch'.max.iterations + (Cardinality(Drives) - 1)
      /\ RerunsUsed(hitch') + Cardinality(Creating') =< hitch'.max.reruns + (Cardinality(Drives) - 1)
      /\ CyclesUsed(hitch') + Cardinality(Reviewing') =< hitch'.max.cycles + (Cardinality(Drives) - 1)
  BY <1>2, <1>3, <1>4, <1>5
<1> QED
  BY <1>6 DEF BudgetInv

(* The sets of drives after a step of one of them.                           *)
LEMMA SetsAfter ==
  ASSUME TypeInv, NEW d \in Drives, NEW m, drive' = [drive EXCEPT ![d] = m]
  PROVE  /\ m.pc # "coder_create" => Creating' = Creating \ {d}
         /\ m.pc \notin ReviewSteps3 => Reviewing' = Reviewing \ {d}
         /\ drive[d].pc \in ReviewSteps3 => Reviewing' \subseteq Reviewing
<1>1. drive'[d] = m /\ \A e \in Drives : e # d => drive'[e] = drive[e]
  BY DEF TypeInv
<1> QED
  BY <1>1 DEF Creating, Reviewing

(* A step that keeps the attempts and the cycles uses nothing.               *)
LEMMA SameUse ==
  ASSUME NEW h, NEW g, RowsOK(h), RowsOK(g), NEW F, Touches(h, g, F),
         F \cap {"attempts", "cycles", "max"} = {}
  PROVE  /\ IterationsUsed(g) =< IterationsUsed(h) /\ RerunsUsed(g) =< RerunsUsed(h)
         /\ IterationsUsed(g) = IterationsUsed(h) /\ RerunsUsed(g) = RerunsUsed(h)
         /\ CyclesUsed(g) = CyclesUsed(h) /\ g.max = h.max
         /\ \A b \in {"iterations", "cycles", "reruns"} : h.max[b] =< g.max[b]
<1>1. g.attempts = h.attempts /\ g.cycles = h.cycles /\ g.max = h.max
  BY DEF Touches, HitchFields
<1>2. IterationsUsed(g) = IterationsUsed(h) /\ RerunsUsed(g) = RerunsUsed(h) /\ CyclesUsed(g) = CyclesUsed(h)
  BY <1>1 DEF IterationsUsed, RerunsUsed, CyclesUsed
<1>3. IterationsUsed(h) \in Nat /\ RerunsUsed(h) \in Nat
  BY UseTypes
<1>4. \A b \in {"iterations", "cycles", "reruns"} : h.max[b] =< g.max[b]
  BY <1>1 DEF RowsOK
<1> QED
  BY <1>1, <1>2, <1>3, <1>4

(* Every step keeps the budgets.                                             *)
LEMMA BudgetStep ==
  ASSUME TypeInv, TypeInv', StepKind, BudgetInv
  PROVE  BudgetInv'
<1> DEFINE h == hitch
           g == hitch'
<1>0. RowsOK(h) /\ RowsOK(g)
  BY DEF TypeInv
<1>1. /\ IterationsUsed(h) \in Nat /\ RerunsUsed(h) \in Nat /\ CyclesUsed(h) \in Nat
      /\ h.max.iterations \in Nat /\ h.max.cycles \in Nat /\ h.max.reruns \in Nat
      /\ IterationsUsed(g) \in Nat /\ RerunsUsed(g) \in Nat /\ CyclesUsed(g) \in Nat
  BY <1>0, UseTypes
<1>2. Creating \in SUBSET Drives /\ Reviewing \in SUBSET Drives
  BY DEF Creating, Reviewing
<1>3. Creating' \in SUBSET Drives /\ Reviewing' \in SUBSET Drives
  BY DEF Creating, Reviewing
<1>4. /\ Cardinality(Creating) \in Nat /\ Cardinality(Reviewing) \in Nat
      /\ Cardinality(Creating') \in Nat /\ Cardinality(Reviewing') \in Nat
      /\ Cardinality(Creating') =< Cardinality(Drives) /\ Cardinality(Reviewing') =< Cardinality(Drives)
      /\ Cardinality(Drives) \in Nat
  BY <1>2, <1>3, DriveSets
<1>5. /\ IterationsUsed(h) + Cardinality(Creating) =< h.max.iterations + (Cardinality(Drives) - 1)
      /\ RerunsUsed(h) + Cardinality(Creating) =< h.max.reruns + (Cardinality(Drives) - 1)
      /\ CyclesUsed(h) + Cardinality(Reviewing) =< h.max.cycles + (Cardinality(Drives) - 1)
  BY DEF BudgetInv
<1>6. ASSUME NEW d \in Drives, DriveMoves(d) PROVE BudgetInv'
  <2>1. PICK m : drive' = [drive EXCEPT ![d] = m] /\ DriveKind(h, g, drive[d], m)
    BY <1>6 DEF DriveMoves
  <2> DEFINE o == drive[d]
  <2>2. /\ m.pc # "coder_create" => Creating' = Creating \ {d} /\ Creating' \subseteq Creating
        /\ m.pc \notin ReviewSteps3 => Reviewing' = Reviewing \ {d} /\ Reviewing' \subseteq Reviewing
        /\ o.pc \in ReviewSteps3 => Reviewing' \subseteq Reviewing
    BY <2>1, SetsAfter
  <2>3. Idle.pc # "coder_create" /\ Idle.pc \notin ReviewSteps3
    BY DEF Idle, ReviewSteps3
  <2> HIDE DEF h, g, o
  (* Nothing is used and no gate is passed.                                  *)
  <2>4. ASSUME NEW F, Touches(h, g, F), F \cap {"attempts", "cycles", "max"} = {},
               m.pc # "coder_create", m.pc \notin ReviewSteps3 \/ o.pc \in ReviewSteps3
        PROVE  BudgetInv'
    BY <1>0, <2>2, <2>4, SameUse, BudgetKept DEF h, g
  <2>5. CASE Rest(h, g, o, m)
    <3>1. m.pc # "coder_create" /\ m.pc \notin ReviewSteps3
      BY <2>5 DEF Rest, Free, ReviewSteps3
    <3> QED
      BY <2>4, <2>5, <3>1 DEF Rest
  <2>6. CASE \/ RunMade(h, g, o, m) \/ RunEnds(h, g, o, m) \/ RunPicked(h, g, o, m)
             \/ ReviewStarts(h, g, o, m) \/ RunDecided(h, g, o, m) \/ CloseStarts(h, g, o, m)
    <3>1. m.pc # "coder_create" /\ (m.pc \notin ReviewSteps3 \/ o.pc \in ReviewSteps3)
      BY <2>6 DEF RunMade, RunEnds, RunPicked, ReviewStarts, RunDecided, CloseStarts, ReviewSteps3
    <3>2. Touches(h, g, {"runs"})
      BY <2>6, TouchesMore DEF RunMade, RunEnds, RunPicked, ReviewStarts, RunDecided, CloseStarts
    <3> QED
      BY <2>4, <3>1, <3>2
  <2>7. CASE ReviewRecalled(h, g, o, m)
    <3>1. m.pc # "coder_create" /\ m.pc \notin ReviewSteps3
      BY <2>3, <2>7 DEF ReviewRecalled
    <3>2. Touches(h, g, {"checks", "status"})
      BY <2>7 DEF ReviewRecalled
    <3> QED
      BY <2>4, <3>1, <3>2
  <2>8. CASE PrMade(h, g, o, m)
    <3>1. m.pc # "coder_create" /\ m.pc \notin ReviewSteps3
      BY <2>8 DEF PrMade, Free, ReviewSteps3
    <3>2. Touches(h, g, {"prs"})
      BY <2>8 DEF PrMade
    <3> QED
      BY <2>4, <3>1, <3>2
  <2>9. CASE CoderPasses(h, g, o, m)
    <3>1. Touches(h, g, {"status"}) /\ ~BudgetReached(h) /\ m.pc \notin ReviewSteps3
      BY <2>9 DEF CoderPasses, ReviewSteps3
    <3>2. IterationsUsed(h) < h.max.iterations /\ RerunsUsed(h) < h.max.reruns
      BY <1>1, <3>1 DEF BudgetReached
    <3>3. /\ IterationsUsed(g) = IterationsUsed(h) /\ RerunsUsed(g) = RerunsUsed(h)
          /\ CyclesUsed(g) = CyclesUsed(h) /\ g.max = h.max
      BY <1>0, <3>1, SameUse
    <3>4. Cardinality(Reviewing') =< Cardinality(Reviewing)
      BY <1>2, <2>2, <3>1, DriveSets
    <3>5. /\ IterationsUsed(g) + Cardinality(Creating') =< g.max.iterations + (Cardinality(Drives) - 1)
          /\ RerunsUsed(g) + Cardinality(Creating') =< g.max.reruns + (Cardinality(Drives) - 1)
          /\ CyclesUsed(g) + Cardinality(Reviewing') =< g.max.cycles + (Cardinality(Drives) - 1)
      BY <1>1, <1>4, <1>5, <3>2, <3>3, <3>4
    <3> QED
      BY <3>5 DEF BudgetInv, g
  <2>10. CASE ReviewPasses(h, g, o, m)
    <3>1. Touches(h, g, {"status"}) /\ CyclesUsed(h) < h.max.cycles /\ m.pc # "coder_create"
      BY <2>10 DEF ReviewPasses
    <3>2. /\ IterationsUsed(g) = IterationsUsed(h) /\ RerunsUsed(g) = RerunsUsed(h)
          /\ CyclesUsed(g) = CyclesUsed(h) /\ g.max = h.max
      BY <1>0, <3>1, SameUse
    <3>3. Cardinality(Creating') =< Cardinality(Creating)
      BY <1>2, <2>2, <3>1, DriveSets
    <3>4. /\ IterationsUsed(g) + Cardinality(Creating') =< g.max.iterations + (Cardinality(Drives) - 1)
          /\ RerunsUsed(g) + Cardinality(Creating') =< g.max.reruns + (Cardinality(Drives) - 1)
          /\ CyclesUsed(g) + Cardinality(Reviewing') =< g.max.cycles + (Cardinality(Drives) - 1)
      BY <1>1, <1>4, <1>5, <3>1, <3>2, <3>3
    <3> QED
      BY <3>4 DEF BudgetInv, g
  (* The attempt that a gate let through.                                    *)
  <2>11. CASE AttemptMade(h, g, o, m)
    <3>1. /\ Touches(h, g, {"attempts", "checks"}) /\ Made(h, g, IterationsUsed(h) + 1)
          /\ o.pc = "coder_create" /\ m.pc = "coder_lock"
      BY <2>11 DEF AttemptMade
    <3>2. m.pc \notin ReviewSteps3 /\ d \in Creating
      BY <3>1 DEF ReviewSteps3, Creating, o
    <3>3. IterationsUsed(g) =< IterationsUsed(h) + 1 /\ RerunsUsed(g) =< RerunsUsed(h) + 1
      BY <1>0, <3>1, UseGrows
    <3>4. g.max = h.max /\ CyclesUsed(g) = CyclesUsed(h)
      BY <3>1 DEF Touches, HitchFields, CyclesUsed
    <3>5. Cardinality(Creating') = Cardinality(Creating) - 1
      BY <1>2, <2>2, <3>1, <3>2, DriveSets
    <3>6. Cardinality(Reviewing') =< Cardinality(Reviewing)
      BY <1>2, <2>2, <3>2, DriveSets
    <3>7. /\ IterationsUsed(g) + Cardinality(Creating') =< g.max.iterations + (Cardinality(Drives) - 1)
          /\ RerunsUsed(g) + Cardinality(Creating') =< g.max.reruns + (Cardinality(Drives) - 1)
          /\ CyclesUsed(g) + Cardinality(Reviewing') =< g.max.cycles + (Cardinality(Drives) - 1)
      BY <1>1, <1>4, <1>5, <3>3, <3>4, <3>5, <3>6
    <3> QED
      BY <3>7 DEF BudgetInv, g
  (* An attempt completed or discarded.                                      *)
  <2>12. CASE AttemptGone(h, g, o, m) \/ AttemptEnds(h, g, o, m)
    <3>1. /\ DOMAIN g.attempts \subseteq DOMAIN h.attempts
          /\ \A j \in DOMAIN g.attempts : g.attempts[j].rerun = h.attempts[j].rerun
      BY <2>12 DEF AttemptGone, AttemptEnds, Completed, Discarded
    <3>2. Touches(h, g, {"attempts", "checks", "status"}) /\ m = Idle
      BY <2>12, TouchesMore DEF AttemptGone, AttemptEnds
    <3>3. g.max = h.max /\ CyclesUsed(g) = CyclesUsed(h)
      BY <3>2 DEF Touches, HitchFields, CyclesUsed
    <3>4. \A b \in {"iterations", "cycles", "reruns"} : h.max[b] =< g.max[b]
      BY <1>0, <3>3 DEF RowsOK
    <3>5. IterationsUsed(g) =< IterationsUsed(h) /\ RerunsUsed(g) =< RerunsUsed(h)
      BY <1>0, <3>1, UseShrinks
    <3> QED
      BY <2>2, <2>3, <3>2, <3>3, <3>4, <3>5, BudgetKept DEF h, g
  (* The cycle that a gate let through.                                      *)
  <2>13. CASE ReviewPends(h, g, o, m) \/ ReviewEnds(h, g, o, m)
    <3>1. /\ Touches(h, g, {"cycles", "findings", "checks", "status"}) /\ m = Idle
          /\ g.cycles = Append(h.cycles, [run |-> o.run])
      BY <2>13, TouchesMore DEF ReviewPends, ReviewEnds, Imported
    <3>2. o.pc \in ReviewSteps3 /\ d \in Reviewing
      BY <2>13 DEF ReviewPends, ReviewEnds, ReviewSteps3, Reviewing, o
    <3>3. g.attempts = h.attempts /\ g.max = h.max
      BY <3>1 DEF Touches, HitchFields
    <3>4. IterationsUsed(g) = IterationsUsed(h) /\ RerunsUsed(g) = RerunsUsed(h)
      BY <3>3 DEF IterationsUsed, RerunsUsed
    <3>5. CyclesUsed(g) = CyclesUsed(h) + 1
      BY <1>0, <3>1 DEF RowsOK, CyclesUsed
    <3>6. Cardinality(Reviewing') = Cardinality(Reviewing) - 1
      BY <1>2, <2>2, <2>3, <3>1, <3>2, DriveSets
    <3>7. Cardinality(Creating') =< Cardinality(Creating)
      BY <1>2, <2>2, <2>3, <3>1, DriveSets
    <3>8. /\ IterationsUsed(g) + Cardinality(Creating') =< g.max.iterations + (Cardinality(Drives) - 1)
          /\ RerunsUsed(g) + Cardinality(Creating') =< g.max.reruns + (Cardinality(Drives) - 1)
          /\ CyclesUsed(g) + Cardinality(Reviewing') =< g.max.cycles + (Cardinality(Drives) - 1)
      BY <1>1, <1>4, <1>5, <3>3, <3>4, <3>5, <3>6, <3>7
    <3> QED
      BY <3>8 DEF BudgetInv, g
  <2> QED
    BY <2>1, <2>5, <2>6, <2>7, <2>8, <2>9, <2>10, <2>11, <2>12, <2>13 DEF DriveKind, o
<1>7. CASE OperatorKind(h, g) /\ UNCHANGED drive
  <2>1. Creating' = Creating /\ Reviewing' = Reviewing
    BY <1>7 DEF Creating, Reviewing
  <2>2. CASE /\ Touches(h, g, {"status", "push", "max", "checks", "findings"})
             /\ \A b \in {"iterations", "cycles", "reruns"} : h.max[b] =< g.max[b]
    <3>1. g.attempts = h.attempts /\ g.cycles = h.cycles
      BY <2>2 DEF Touches, HitchFields
    <3>2. /\ IterationsUsed(g) = IterationsUsed(h) /\ RerunsUsed(g) = RerunsUsed(h)
          /\ CyclesUsed(g) = CyclesUsed(h)
      BY <3>1 DEF IterationsUsed, RerunsUsed, CyclesUsed
    <3>3. IterationsUsed(g) =< IterationsUsed(h) /\ RerunsUsed(g) =< RerunsUsed(h)
      BY <1>1, <3>2
    <3> QED
      BY <2>1, <2>2, <3>2, <3>3, BudgetKept
  <2>3. CASE /\ Touches(h, g, {"attempts", "checks"})
             /\ \E i \in DOMAIN h.attempts : Completed(h, g, i, 0) /\ Outdated(h, g, i)
    <3>1. /\ DOMAIN g.attempts \subseteq DOMAIN h.attempts
          /\ \A j \in DOMAIN g.attempts : g.attempts[j].rerun = h.attempts[j].rerun
      BY <2>3 DEF Completed
    <3>2. g.max = h.max /\ CyclesUsed(g) = CyclesUsed(h)
      BY <2>3 DEF Touches, HitchFields, CyclesUsed
    <3>3. \A b \in {"iterations", "cycles", "reruns"} : h.max[b] =< g.max[b]
      BY <1>0, <3>2 DEF RowsOK
    <3>4. IterationsUsed(g) =< IterationsUsed(h) /\ RerunsUsed(g) =< RerunsUsed(h)
      BY <1>0, <3>1, UseShrinks
    <3> QED
      BY <2>1, <3>2, <3>3, <3>4, BudgetKept
  <2> QED
    BY <1>7, <2>2, <2>3 DEF OperatorKind
<1>8. CASE UNCHANGED <<hitch, drive>>
  BY <1>8 DEF BudgetInv, Creating, Reviewing
<1> QED
  BY <1>6, <1>7, <1>8 DEF StepKind

(* Nothing is used at the start.                                             *)
LEMMA BudgetInit == Init => BudgetInv
<1> SUFFICES ASSUME Init PROVE BudgetInv
  OBVIOUS
<1>1. /\ DOMAIN hitch.attempts = {} /\ hitch.cycles = <<>>
      /\ hitch.max = [iterations |-> MaxIterations, cycles |-> MaxCycles, reruns |-> MaxReruns]
  BY DEF Init
<1>2. IterationsUsed(hitch) = 0 /\ CyclesUsed(hitch) = 0
  BY <1>1 DEF IterationsUsed, CyclesUsed
<1>3. {i \in DOMAIN hitch.attempts : hitch.attempts[i].rerun} = {}
  BY <1>1
<1>4. RerunsUsed(hitch) = 0
  BY <1>3, FS_EmptySet DEF RerunsUsed
<1>5. Creating = {} /\ Reviewing = {}
  BY DEF Init, Idle, Creating, Reviewing, ReviewSteps3
<1>6. Cardinality(Creating) = 0 /\ Cardinality(Reviewing) = 0 /\ Cardinality(Drives) \in Nat \ {0}
  BY <1>5, FS_EmptySet, DriveSets
<1>7. MaxIterations \in Nat /\ MaxCycles \in Nat /\ MaxReruns \in Nat
  BY OrchestratorAssumption
<1> QED
  BY <1>1, <1>2, <1>4, <1>6, <1>7 DEF BudgetInv

(* However many processes drive the hitch, crash, lose the lock or are       *)
(* helped by an operator, a budget is exceeded by at most the number of      *)
(* drives less one: what passed the gates of allowedByConvergence together   *)
(* (hitch/orchestrator.ts, hitch/convergence.ts).                            *)
THEOREM BudgetsHold == Spec => []BudgetHolds
<1>1. TypeInv /\ BudgetInv /\ [Next]_vars => BudgetInv'
  BY TypeStep, StepKinds, BudgetStep
<1>2. TypeInv /\ BudgetInv => BudgetHolds
  <2> SUFFICES ASSUME TypeInv, BudgetInv PROVE BudgetHolds
    OBVIOUS
  <2>1. Creating \in SUBSET Drives /\ Reviewing \in SUBSET Drives
    BY DEF Creating, Reviewing
  <2>2. /\ Cardinality(Creating) \in Nat /\ Cardinality(Reviewing) \in Nat
        /\ Cardinality(Drives) \in Nat
    BY <2>1, DriveSets
  <2>3. /\ IterationsUsed(hitch) \in Nat /\ RerunsUsed(hitch) \in Nat /\ CyclesUsed(hitch) \in Nat
        /\ hitch.max.iterations \in Nat /\ hitch.max.cycles \in Nat /\ hitch.max.reruns \in Nat
    BY UseTypes DEF TypeInv
  <2> QED
    BY <2>2, <2>3 DEF BudgetInv, BudgetHolds
<1> QED
  BY BudgetInit, HitchInvariant, <1>1, <1>2, PTL DEF Spec

-----------------------------------------------------------------------------
(* Attempts in progress and the runs of the hitch.                           *)

Coding(o) == o.pc \in {"coder_lock", "coder_work", "coder_done", "coder_void"}
Judging(o) == o.pc \in {"review_known", "review_work", "review_import"}
HasRun(h) == \E i \in DOMAIN h.attempts : h.attempts[i].run # 0

(* The attempt of a drive that codes is there and has no run yet; a drive    *)
(* that reviews has found a run, and the runs of attempts do not disappear.  *)
Fits(h, o) ==
  /\ Coding(o) => o.att \in DOMAIN h.attempts /\ h.attempts[o.att].run = 0
  /\ Judging(o) => HasRun(h)

RunInv ==
  /\ \A d \in Drives : Fits(hitch, drive[d])
  /\ \A d, e \in Drives : d # e /\ Coding(drive[d]) /\ Coding(drive[e]) => drive[d].att # drive[e].att

(* What a step of a drive does to the attempts of the others and to its own. *)
LEMMA FitsAfter ==
  ASSUME NEW h, NEW g, NEW o, NEW m, RowsOK(h), RowsOK(g), MemoryOK(m), Fits(h, o),
         DriveKind(h, g, o, m)
  PROVE  /\ Fits(g, m)
         /\ HasRun(h) => HasRun(g)
         /\ \A i \in DOMAIN h.attempts : ~(Coding(o) /\ i = o.att) /\ h.attempts[i].run = 0 =>
              i \in DOMAIN g.attempts /\ g.attempts[i].run = 0
         /\ Coding(m) => (Coding(o) /\ m.att = o.att) \/ m.att \notin DOMAIN h.attempts
<1> DEFINE Goal == /\ Fits(g, m)
                   /\ HasRun(h) => HasRun(g)
                   /\ \A i \in DOMAIN h.attempts : ~(Coding(o) /\ i = o.att) /\ h.attempts[i].run = 0 =>
                        i \in DOMAIN g.attempts /\ g.attempts[i].run = 0
                   /\ Coding(m) => (Coding(o) /\ m.att = o.att) \/ m.att \notin DOMAIN h.attempts
<1>1. ~Coding(Idle) /\ ~Judging(Idle)
  BY DEF Coding, Judging, Idle
(* The attempts are as they were.                                            *)
<1>2. ASSUME g.attempts = h.attempts,
             Coding(m) => Coding(o) /\ m.att = o.att,
             Judging(m) => HasRun(h)
      PROVE  Goal
  <2>1. HasRun(g) <=> HasRun(h)
    BY <1>2 DEF HasRun
  <2>2. Fits(g, m)
    BY <1>2, <2>1 DEF Fits
  <2> QED
    BY <1>2, <2>1, <2>2
<1>3. CASE Rest(h, g, o, m) \/ CoderPasses(h, g, o, m) \/ ReviewPasses(h, g, o, m)
            \/ CloseStarts(h, g, o, m) \/ PrMade(h, g, o, m)
  <2>1. g.attempts = h.attempts
    BY <1>3 DEF Rest, CoderPasses, ReviewPasses, CloseStarts, PrMade, Touches, HitchFields
  <2>2. ~Coding(m) /\ ~Judging(m)
    BY <1>3 DEF Rest, CoderPasses, ReviewPasses, CloseStarts, PrMade, Free, Coding, Judging
  <2> QED
    BY <1>2, <2>1, <2>2
<1>4. CASE RunMade(h, g, o, m) \/ RunEnds(h, g, o, m)
  <2>1. g.attempts = h.attempts
    BY <1>4 DEF RunMade, RunEnds, Touches, HitchFields
  <2>2. Coding(m) /\ Coding(o) /\ m.att = o.att /\ ~Judging(m)
    BY <1>4 DEF RunMade, RunEnds, Coding, Judging
  <2> QED
    BY <1>2, <2>1, <2>2
<1>5. CASE RunPicked(h, g, o, m)
  <2>1. g.attempts = h.attempts
    BY <1>5 DEF RunPicked, Touches, HitchFields
  <2>2. ~Coding(m) /\ m.run # 0
    BY <1>5 DEF RunPicked, Coding, MemoryOK
  <2>3. HasRun(h)
    BY <1>5, <2>2, LatestRunType DEF RunPicked, HasRun
  <2> QED
    BY <1>2, <2>1, <2>2, <2>3
<1>6. CASE ReviewStarts(h, g, o, m) \/ RunDecided(h, g, o, m)
  <2>1. g.attempts = h.attempts
    BY <1>6 DEF ReviewStarts, RunDecided, Touches, HitchFields
  <2>2. ~Coding(m) /\ Judging(o)
    BY <1>6 DEF ReviewStarts, RunDecided, Coding, Judging
  <2> QED
    BY <1>2, <2>1, <2>2 DEF Fits
<1>7. CASE ReviewRecalled(h, g, o, m) \/ ReviewPends(h, g, o, m) \/ ReviewEnds(h, g, o, m)
  <2>1. g.attempts = h.attempts
    BY <1>7 DEF ReviewRecalled, ReviewPends, ReviewEnds, Touches, HitchFields
  <2>2. m = Idle
    BY <1>7 DEF ReviewRecalled, ReviewPends, ReviewEnds
  <2> QED
    BY <1>1, <1>2, <2>1, <2>2
<1>8. CASE AttemptMade(h, g, o, m)
  <2>1. Made(h, g, m.att) /\ m.pc = "coder_lock" /\ o.pc = "coder_create"
    BY <1>8 DEF AttemptMade
  <2>2. Coding(m) /\ ~Judging(m) /\ ~Coding(o)
    BY <2>1 DEF Coding, Judging
  <2>3. Fits(g, m)
    BY <2>1, <2>2 DEF Fits, Made
  <2>4. HasRun(h) => HasRun(g)
    BY <2>1 DEF HasRun, Made
  <2> QED
    BY <2>1, <2>2, <2>3, <2>4 DEF Made
<1>9. CASE AttemptGone(h, g, o, m)
  <2>1. Discarded(h, g, o.att) /\ Coding(o) /\ m = Idle
    BY <1>9 DEF AttemptGone, Coding
  <2>2. h.attempts[o.att].run = 0
    BY <2>1 DEF Fits
  <2>3. HasRun(h) => HasRun(g)
    BY <2>1, <2>2 DEF HasRun, Discarded
  <2>4. Fits(g, m)
    BY <1>1, <2>1 DEF Fits
  <2> QED
    BY <1>1, <2>1, <2>3, <2>4 DEF Discarded
<1>10. CASE AttemptEnds(h, g, o, m)
  <2>1. PICK r : Completed(h, g, o.att, r) /\ Coding(o) /\ m = Idle
    BY <1>10 DEF AttemptEnds, Coding
  <2>2. HasRun(h) => HasRun(g)
    BY <2>1 DEF HasRun, Completed
  <2>3. Fits(g, m)
    BY <1>1, <2>1 DEF Fits
  <2> QED
    BY <1>1, <2>1, <2>2, <2>3 DEF Completed
<1> QED
  BY <1>3, <1>4, <1>5, <1>6, <1>7, <1>8, <1>9, <1>10 DEF DriveKind

(* Every step keeps the attempts of the drives apart.                        *)
LEMMA RunInvStep ==
  ASSUME TypeInv, TypeInv', StepKind, RunInv
  PROVE  RunInv'
<1>0. RowsOK(hitch) /\ RowsOK(hitch')
  BY DEF TypeInv
<1>1. ASSUME NEW d \in Drives, DriveMoves(d) PROVE RunInv'
  <2> DEFINE o == drive[d]
  <2>1. PICK m : MemoryOK(m) /\ drive' = [drive EXCEPT ![d] = m] /\ DriveKind(hitch, hitch', o, m)
    BY <1>1 DEF DriveMoves
  <2>2. drive'[d] = m /\ \A e \in Drives : e # d => drive'[e] = drive[e]
    BY <2>1 DEF TypeInv
  <2>3. Fits(hitch, o)
    BY DEF RunInv
  <2> HIDE DEF o
  <2>4. /\ Fits(hitch', m)
        /\ HasRun(hitch) => HasRun(hitch')
        /\ \A i \in DOMAIN hitch.attempts : ~(Coding(o) /\ i = o.att) /\ hitch.attempts[i].run = 0 =>
             i \in DOMAIN hitch'.attempts /\ hitch'.attempts[i].run = 0
        /\ Coding(m) => (Coding(o) /\ m.att = o.att) \/ m.att \notin DOMAIN hitch.attempts
    BY <1>0, <2>1, <2>3, FitsAfter
  <2>5. ASSUME NEW e \in Drives, e # d
        PROVE  Fits(hitch', drive'[e]) /\ (Coding(drive'[e]) /\ Coding(m) => drive'[e].att # m.att)
    <3>1. drive'[e] = drive[e] /\ Fits(hitch, drive[e])
      BY <2>2, <2>5 DEF RunInv
    <3>2. Coding(drive[e]) /\ Coding(o) => drive[e].att # o.att
      BY <2>5 DEF RunInv, o
    <3>3. Coding(drive[e]) => /\ drive[e].att \in DOMAIN hitch.attempts
                              /\ hitch.attempts[drive[e].att].run = 0
      BY <3>1 DEF Fits
    <3>4. Coding(drive[e]) => /\ drive[e].att \in DOMAIN hitch'.attempts
                              /\ hitch'.attempts[drive[e].att].run = 0
      BY <2>4, <3>2, <3>3
    <3>5. Fits(hitch', drive[e])
      BY <2>4, <3>1, <3>4 DEF Fits
    <3> QED
      BY <2>4, <3>1, <3>2, <3>3, <3>5
  <2>6. \A e \in Drives : Fits(hitch', drive'[e])
    BY <2>2, <2>4, <2>5
  <2>7. ASSUME NEW e \in Drives, NEW f \in Drives, e # f, Coding(drive'[e]), Coding(drive'[f])
        PROVE  drive'[e].att # drive'[f].att
    <3>1. CASE e = d
      BY <2>2, <2>5, <2>7, <3>1
    <3>2. CASE f = d
      BY <2>2, <2>5, <2>7, <3>2
    <3>3. CASE e # d /\ f # d
      <4>1. drive'[e] = drive[e] /\ drive'[f] = drive[f]
        BY <2>2, <3>3
      <4> QED
        BY <2>7, <4>1 DEF RunInv
    <3> QED
      BY <3>1, <3>2, <3>3
  <2> QED
    BY <2>6, <2>7 DEF RunInv
<1>2. CASE OperatorKind(hitch, hitch') /\ UNCHANGED drive
  <2>1. /\ DOMAIN hitch'.attempts = DOMAIN hitch.attempts
        /\ \A i \in DOMAIN hitch.attempts : hitch'.attempts[i].run = hitch.attempts[i].run
    <3>1. CASE Touches(hitch, hitch', {"status", "push", "max", "checks", "findings"})
      BY <3>1 DEF Touches, HitchFields
    <3>2. CASE \E i \in DOMAIN hitch.attempts : Completed(hitch, hitch', i, 0)
      BY <3>2 DEF Completed
    <3> QED
      BY <1>2, <3>1, <3>2 DEF OperatorKind
  <2>2. HasRun(hitch') <=> HasRun(hitch)
    BY <2>1 DEF HasRun
  <2>3. \A d \in Drives : Fits(hitch', drive[d])
    BY <2>1, <2>2 DEF RunInv, Fits
  <2> QED
    BY <1>2, <2>3 DEF RunInv
<1>3. CASE UNCHANGED <<hitch, drive>>
  BY <1>3 DEF RunInv
<1> QED
  BY <1>1, <1>2, <1>3 DEF StepKind

(* No drive holds an attempt at the start.                                   *)
LEMMA RunInit == Init => RunInv
<1>1. ~Coding(Idle) /\ ~Judging(Idle)
  BY DEF Coding, Judging, Idle
<1> QED
  BY <1>1 DEF Init, RunInv, Fits

(* A blocking finding is retired only by an approval of the newest run.      *)
LEMMA RetiredByApproval ==
  ASSUME TypeInv, RunInv, StepKind, ~ByOperator, NEW k \in Keys,
         Blocks(hitch.findings[k]), ~Blocks(hitch'.findings[k])
  PROVE  /\ k \notin OwnKeys
         /\ \/ hitch.findings[k].scope = "unknown" /\ hitch'.findings[k].scope = "out_of_scope"
            \/ /\ Len(hitch'.cycles) > hitch.findings[k].cycle
               /\ Len(hitch'.cycles) > Len(hitch.cycles)
               /\ LET r == hitch'.cycles[Len(hitch'.cycles)].run
                  IN  r = LatestRun(hitch) /\ hitch.runs[r].status = "approved"
<1>0. hitch'.findings # hitch.findings
  OBVIOUS
<1>1. PICK d \in Drives : DriveMoves(d)
  BY <1>0 DEF StepKind
<1> DEFINE h == hitch
           g == hitch'
           o == drive[d]
<1>2. PICK m : DriveKind(h, g, o, m)
  BY <1>1 DEF DriveMoves
<1>3. CASE Rest(h, g, o, m)
  BY <1>3 DEF Rest, Retires
<1>4. CASE ReviewEnds(h, g, o, m)
  <2>1. o.pc = "review_import" /\ Imported(h, g, o.run, h.runs[o.run].status)
    BY <1>4 DEF ReviewEnds
  <2>2. /\ h.runs[o.run].status = "approved" /\ k \in ChangeKeys
        /\ LatestRun(h) \in {0, o.run} /\ h.findings[k].cycle < Len(h.cycles) + 1
        /\ g.cycles = Append(h.cycles, [run |-> o.run])
    BY <2>1 DEF Imported
  <2>3. HasRun(h)
    BY <2>1 DEF RunInv, Fits, Judging
  <2>4. LatestRun(h) = o.run
    BY <2>2, <2>3, LatestRunType DEF HasRun, TypeInv
  <2>5. h.cycles \in Seq([run : Runs])
    BY DEF TypeInv, RowsOK
  <2>6. /\ Len(g.cycles) = Len(h.cycles) + 1 /\ Len(h.cycles) \in Nat
        /\ g.cycles[Len(g.cycles)] = [run |-> o.run]
    BY <2>2, <2>5
  <2>7. g.cycles[Len(g.cycles)].run = o.run
    BY <2>6
  <2>8. k \notin OwnKeys
    BY <2>2, ConvergenceAssumption
  <2>9. Len(g.cycles) > h.findings[k].cycle
    BY <2>2, <2>6
  <2>10. Len(g.cycles) > Len(h.cycles)
    BY <2>6
  <2> QED
    BY <2>2, <2>4, <2>7, <2>8, <2>9, <2>10
<1>5. CASE ~Rest(h, g, o, m) /\ ~ReviewEnds(h, g, o, m)
  <2>1. g.findings = h.findings
    BY <1>2, <1>5 DEF DriveKind, CoderPasses, AttemptMade, AttemptGone, AttemptEnds, RunMade, RunEnds,
         ReviewPasses, RunPicked, ReviewStarts, ReviewRecalled, RunDecided, ReviewPends, CloseStarts,
         PrMade, Touches, HitchFields
  <2> QED
    BY <1>0, <2>1
<1> QED
  BY <1>3, <1>4, <1>5

(* Without an operator, a blocking finding stops blocking only because the   *)
(* jury moved it out of scope while its scope was unknown, or because a      *)
(* review approved the newest run after the finding was raised               *)
(* (resolveSupersededReviewFindings); an operator's finding never does.      *)
THEOREM OnlyApprovalsRetire == Spec => OnlyApprovalRetires
<1>1. TypeInv /\ RunInv /\ [Next]_vars => RunInv'
  BY TypeStep, StepKinds, RunInvStep
<1>2. TypeInv /\ RunInv /\ [Next]_vars =>
        [ByOperator \/ \A k \in Keys :
           Blocks(hitch.findings[k]) /\ ~Blocks(hitch'.findings[k]) =>
             /\ k \notin OwnKeys
             /\ \/ hitch.findings[k].scope = "unknown" /\ hitch'.findings[k].scope = "out_of_scope"
                \/ /\ Len(hitch'.cycles) > hitch.findings[k].cycle
                   /\ Len(hitch'.cycles) > Len(hitch.cycles)
                   /\ LET r == hitch'.cycles[Len(hitch'.cycles)].run
                      IN  r = LatestRun(hitch) /\ hitch.runs[r].status = "approved"]_vars
  BY StepKinds, RetiredByApproval
<1> QED
  BY RunInit, HitchInvariant, <1>1, <1>2, PTL DEF Spec, OnlyApprovalRetires

-----------------------------------------------------------------------------
(* One process drives the hitch and a consensus is required: what the checks *)
(* and the memory of the process say about reviews.                          *)

Consensus == "review_consensus"
DoingOf(o) == IF o.pc \in {"coder_lock", "coder_work", "coder_void"} THEN {o.att} ELSE {}
RunExists(h, r) == r \in 1..Len(h.runs)

RunsExist(h, o) ==
  /\ \A i \in DOMAIN h.attempts : h.attempts[i].run # 0 => RunExists(h, h.attempts[i].run)
  /\ o.pc \in {"coder_work", "coder_done", "close_pr"} \/ Judging(o) => RunExists(h, o.run)
  /\ \A r \in h.prs : RunExists(h, r)

(* A passed consensus check names a reviewed run; unless it was outdated by  *)
(* more than the attempt in progress, which may be discarded, it is the      *)
(* newest run.                                                               *)
CheckFits(h, o) ==
  LET c == h.checks[Consensus]
  IN  /\ c.staleBy \subseteq {0} \cup DOMAIN h.attempts
      /\ c.status = "passed" => ReviewedBefore(h, c.run)
      /\ c.status = "passed" /\ c.staleBy \subseteq DoingOf(o) => c.run = LatestRun(h)

MemoryFits(h, o) ==
  /\ Judging(o) => o.run = LatestRun(h)
  /\ o.pc = "close_pr" => ReviewedBefore(h, o.run)
  /\ o.pc = "coder_work" => h.runs[o.run].status = "created"

PrsFit(h) == \A r \in h.prs : h.runs[r].status = "approved" /\ ReviewedBefore(h, r)

ReviewFits(h, o) == RunsExist(h, o) /\ CheckFits(h, o) /\ MemoryFits(h, o) /\ PrsFit(h)

(* The newest run hangs on the runs of the attempts alone.                   *)
LEMMA LatestKept ==
  ASSUME NEW h, NEW g, RowsOK(h),
         \A i \in DOMAIN g.attempts :
           \/ i \in DOMAIN h.attempts /\ g.attempts[i].run = h.attempts[i].run
           \/ g.attempts[i].run = 0,
         \A i \in DOMAIN h.attempts :
           \/ i \in DOMAIN g.attempts /\ g.attempts[i].run = h.attempts[i].run
           \/ h.attempts[i].run = 0
  PROVE  LatestRun(g) = LatestRun(h)
<1> DEFINE W(x) == {i \in DOMAIN x.attempts : x.attempts[i].run # 0}
<1>1. W(g) = W(h)
  OBVIOUS
<1>2. \A i \in W(h) : g.attempts[i].run = h.attempts[i].run
  OBVIOUS
<1>3. CASE W(h) = {}
  BY <1>1, <1>3 DEF LatestRun
<1>4. CASE W(h) # {}
  <2>1. LatestRun(g) = g.attempts[Max(W(g))].run /\ LatestRun(h) = h.attempts[Max(W(h))].run
    BY <1>1, <1>4 DEF LatestRun
  <2>2. PICK n \in Nat : DOMAIN h.attempts \subseteq 1..n
    BY DEF RowsOK, AttemptsOK
  <2>3. W(h) \subseteq 1..n
    BY <2>2
  <2> HIDE DEF W
  <2>4. Max(W(h)) \in W(h)
    BY <1>4, <2>2, <2>3, MaxOf
  <2> QED
    BY <1>1, <1>2, <2>1, <2>4
<1> QED
  BY <1>3, <1>4

(* A reviewed run stays reviewed.                                            *)
LEMMA ReviewedStays ==
  ASSUME NEW h, NEW g, RowsOK(h), NEW x, NEW r,
         g.cycles = h.cycles \/ g.cycles = Append(h.cycles, [run |-> x]),
         ReviewedBefore(h, r)
  PROVE  ReviewedBefore(g, r)
<1>1. PICK i \in DOMAIN h.cycles : h.cycles[i].run = r
  BY DEF ReviewedBefore
<1>2. h.cycles \in Seq([run : Runs])
  BY DEF RowsOK
<1>3. i \in DOMAIN g.cycles /\ g.cycles[i] = h.cycles[i]
  BY <1>1, <1>2
<1> QED
  BY <1>1, <1>3 DEF ReviewedBefore

(* The run of the cycle that was just added is reviewed.                     *)
LEMMA ReviewedNow ==
  ASSUME NEW h, NEW g, RowsOK(h), NEW r, g.cycles = Append(h.cycles, [run |-> r])
  PROVE  ReviewedBefore(g, r)
<1>1. h.cycles \in Seq([run : Runs])
  BY DEF RowsOK
<1>2. Len(h.cycles) + 1 \in DOMAIN g.cycles /\ g.cycles[Len(h.cycles) + 1] = [run |-> r]
  BY <1>1
<1>3. g.cycles[Len(h.cycles) + 1].run = r
  BY <1>2
<1> QED
  BY <1>2, <1>3 DEF ReviewedBefore

(* The newest run is one of the runs.                                        *)
LEMMA LatestExists ==
  ASSUME NEW h, RowsOK(h), NEW o, RunsExist(h, o), LatestRun(h) # 0
  PROVE  RunExists(h, LatestRun(h))
BY LatestRunType DEF RunsExist

(* The rows the reviews hang on: equal, but the checks may be outdated.      *)
LEMMA FitsSame ==
  ASSUME NEW h, NEW g, NEW o, NEW m, RowsOK(h), RowsOK(g), ReviewFits(h, o),
         g.attempts = h.attempts, g.cycles = h.cycles, g.runs = h.runs, g.prs = h.prs,
         g.checks[Consensus].status = h.checks[Consensus].status,
         g.checks[Consensus].run = h.checks[Consensus].run,
         h.checks[Consensus].staleBy \subseteq g.checks[Consensus].staleBy,
         g.checks[Consensus].staleBy \subseteq h.checks[Consensus].staleBy \cup {0},
         DoingOf(m) \subseteq DoingOf(o),
         m.pc \in {"coder_work", "coder_done", "close_pr"} \/ Judging(m) => RunExists(h, m.run),
         MemoryFits(h, m)
  PROVE  ReviewFits(g, m)
<1>1. LatestRun(g) = LatestRun(h)
  BY LatestSame
<1>2. \A r : ReviewedBefore(g, r) <=> ReviewedBefore(h, r)
  BY DEF ReviewedBefore
<1>3. RunsExist(g, m)
  BY DEF ReviewFits, RunsExist, RunExists
<1>4. CheckFits(g, m)
  BY <1>1, <1>2 DEF ReviewFits, CheckFits
<1>5. MemoryFits(g, m)
  BY <1>1, <1>2 DEF MemoryFits
<1>6. PrsFit(g)
  BY <1>2 DEF ReviewFits, PrsFit
<1> QED
  BY <1>3, <1>4, <1>5, <1>6 DEF ReviewFits

(* An idle drive codes nothing and judges nothing.                           *)
LEMMA FitsIdle == ~Coding(Idle) /\ ~Judging(Idle) /\ DoingOf(Idle) = {} /\ Idle.pc = "idle"
BY DEF Coding, Judging, DoingOf, Idle

(* A drive that holds nothing, or only passed the gate, remembers no run.    *)
LEMMA FitsFree ==
  ASSUME NEW h, NEW m, m.pc \in Free \cup {"coder_create", "review_pick"}
  PROVE  /\ MemoryFits(h, m) /\ DoingOf(m) = {}
         /\ ~(m.pc \in {"coder_work", "coder_done", "close_pr"} \/ Judging(m))
BY DEF MemoryFits, DoingOf, Judging, Free

(* The steps that leave the attempts, the cycles, the runs and the pull      *)
(* requests alone.                                                           *)
LEMMA FitsQuiet ==
  ASSUME "review_consensus" \in Conditions,
         NEW h, NEW g, NEW o, NEW m, RowsOK(h), RowsOK(g), MemoryOK(m), ReviewFits(h, o),
         \/ Rest(h, g, o, m) \/ CoderPasses(h, g, o, m) \/ ReviewPasses(h, g, o, m)
         \/ RunPicked(h, g, o, m) \/ ReviewStarts(h, g, o, m) \/ CloseStarts(h, g, o, m)
  PROVE  ReviewFits(g, m)
<1> DEFINE c == h.checks[Consensus]
           e == g.checks[Consensus]
<1>1. /\ g.attempts = h.attempts /\ g.cycles = h.cycles /\ g.runs = h.runs /\ g.prs = h.prs
      /\ ~Rest(h, g, o, m) => g.checks = h.checks
  BY DEF Rest, CoderPasses, ReviewPasses, RunPicked, ReviewStarts, CloseStarts, Touches, HitchFields
<1>2. Rest(h, g, o, m) => /\ e.status = c.status /\ e.run = c.run
                          /\ c.staleBy \subseteq e.staleBy /\ e.staleBy \subseteq c.staleBy \cup {0}
  BY DEF Rest, Outdates, Consensus
<1>3. /\ e.status = c.status /\ e.run = c.run
      /\ c.staleBy \subseteq e.staleBy /\ e.staleBy \subseteq c.staleBy \cup {0}
  BY <1>1, <1>2
<1> HIDE DEF c, e
<1>4. DoingOf(m) = {}
  BY DEF DoingOf, Rest, CoderPasses, ReviewPasses, RunPicked, ReviewStarts, CloseStarts, Free
<1>5. /\ m.pc \in {"coder_work", "coder_done", "close_pr"} \/ Judging(m) => RunExists(h, m.run)
      /\ MemoryFits(h, m)
  <2>1. CASE Rest(h, g, o, m) \/ CoderPasses(h, g, o, m) \/ ReviewPasses(h, g, o, m)
    <3>1. m.pc \in Free \cup {"coder_create", "review_pick"}
      BY <2>1 DEF Rest, CoderPasses, ReviewPasses
    <3> QED
      BY <3>1, FitsFree
  <2>2. CASE RunPicked(h, g, o, m)
    <3>1. m.pc = "review_known" /\ m.run = LatestRun(h) /\ m.run # 0
      BY <2>2 DEF RunPicked, MemoryOK
    <3>2. RunExists(h, m.run)
      BY <3>1, LatestExists DEF ReviewFits
    <3> QED
      BY <3>1, <3>2 DEF MemoryFits
  <2>3. CASE ReviewStarts(h, g, o, m)
    <3>1. o.pc = "review_known" /\ m.pc = "review_work" /\ m.run = o.run
      BY <2>3 DEF ReviewStarts
    <3>2. Judging(o)
      BY <3>1 DEF Judging
    <3>3. RunExists(h, o.run) /\ o.run = LatestRun(h)
      BY <3>2 DEF ReviewFits, RunsExist, MemoryFits
    <3> QED
      BY <3>1, <3>3 DEF MemoryFits
  <2>4. CASE CloseStarts(h, g, o, m)
    <3>1. m.pc = "close_pr" /\ m.run = LatestRun(h) /\ m.run # 0 /\ AllPassed(h)
      BY <2>4 DEF CloseStarts, MemoryOK
    <3>2. RunExists(h, m.run)
      BY <3>1, LatestExists DEF ReviewFits
    <3>3. ConditionStatus(h, Consensus) = "passed"
      BY <3>1 DEF AllPassed, Consensus
    <3>4. h.checks[Consensus].status = "passed" /\ h.checks[Consensus].staleBy = {}
      BY <3>3 DEF ConditionStatus
    <3>5. ReviewedBefore(h, m.run)
      BY <3>1, <3>4 DEF ReviewFits, CheckFits
    <3> QED
      BY <3>1, <3>2, <3>5 DEF MemoryFits, Judging
  <2> QED
    BY <2>1, <2>2, <2>3, <2>4
<1> QED
  BY <1>1, <1>3, <1>4, <1>5, FitsSame DEF c, e

(* The steps that write an attempt.                                          *)
LEMMA FitsAttempts ==
  ASSUME "review_consensus" \in Conditions,
         NEW h, NEW g, NEW o, NEW m, RowsOK(h), RowsOK(g), MemoryOK(m), Fits(h, o), ReviewFits(h, o),
         AttemptMade(h, g, o, m) \/ AttemptGone(h, g, o, m) \/ AttemptEnds(h, g, o, m)
  PROVE  ReviewFits(g, m)
<1> DEFINE c == h.checks[Consensus]
           e == g.checks[Consensus]
<1>1. g.cycles = h.cycles /\ g.runs = h.runs /\ g.prs = h.prs
  BY DEF AttemptMade, AttemptGone, AttemptEnds, Touches, HitchFields
<1>2. \A r : ReviewedBefore(g, r) <=> ReviewedBefore(h, r)
  BY <1>1 DEF ReviewedBefore
<1>3. PrsFit(g)
  BY <1>1, <1>2 DEF ReviewFits, PrsFit
<1>4. MemoryFits(g, m) /\ ~(m.pc \in {"coder_work", "coder_done", "close_pr"} \/ Judging(m))
  BY FitsIdle DEF MemoryFits, AttemptMade, AttemptGone, AttemptEnds, Judging
<1>5. /\ c.staleBy \subseteq {0} \cup DOMAIN h.attempts
      /\ c.status = "passed" => ReviewedBefore(h, c.run)
      /\ c.status = "passed" /\ c.staleBy \subseteq DoingOf(o) => c.run = LatestRun(h)
  BY DEF ReviewFits, CheckFits
<1>6. /\ \A i \in DOMAIN h.attempts : h.attempts[i].run # 0 => RunExists(h, h.attempts[i].run)
      /\ \A r \in h.prs : RunExists(h, r)
      /\ o.pc = "coder_done" => RunExists(h, o.run)
  BY DEF ReviewFits, RunsExist
<1>7. \A r : RunExists(g, r) <=> RunExists(h, r)
  BY <1>1 DEF RunExists
<1>8. CASE AttemptMade(h, g, o, m)
  <2> DEFINE i == m.att
  <2>1. Made(h, g, i) /\ Outdated(h, g, i) /\ m.pc = "coder_lock" /\ o.pc = "coder_create"
    BY <1>8 DEF AttemptMade
  <2>2. /\ e.status = c.status /\ e.run = c.run
        /\ e.staleBy = IF c.status = "none" THEN c.staleBy ELSE c.staleBy \cup {i}
    BY <2>1 DEF Outdated, Consensus
  <2>3. DoingOf(m) = {i} /\ DoingOf(o) = {}
    BY <2>1 DEF DoingOf
  <2>4. i # 0
    <3>1. PICK n \in Nat : DOMAIN g.attempts \subseteq 1..n
      BY DEF RowsOK, AttemptsOK
    <3> QED
      BY <2>1, <3>1 DEF Made
  <2>5. LatestRun(g) = LatestRun(h)
    BY <2>1, LatestKept DEF Made
  <2> HIDE DEF c, e, i
  <2>6. e.status = "passed" /\ e.staleBy \subseteq {i} => e.run = LatestRun(g)
    <3>1. i \notin c.staleBy
      BY <1>5, <2>1, <2>4 DEF Made
    <3> QED
      BY <1>5, <2>2, <2>3, <2>5, <3>1
  <2>7. e.staleBy \subseteq {0} \cup DOMAIN g.attempts
    BY <1>5, <2>1, <2>2 DEF Made
  <2>8. CheckFits(g, m)
    BY <1>2, <1>5, <2>2, <2>3, <2>6, <2>7 DEF CheckFits, c, e
  <2>9. \A j \in DOMAIN g.attempts : g.attempts[j].run # 0 => RunExists(g, g.attempts[j].run)
    BY <1>6, <1>7, <2>1 DEF Made
  <2>10. RunsExist(g, m)
    BY <1>1, <1>4, <1>6, <1>7, <2>9 DEF RunsExist
  <2> QED
    BY <1>3, <1>4, <2>8, <2>10 DEF ReviewFits
<1>9. CASE AttemptGone(h, g, o, m)
  <2> DEFINE i == o.att
  <2>1. Discarded(h, g, i) /\ m = Idle /\ o.pc \in {"coder_lock", "coder_void"}
    BY <1>9 DEF AttemptGone
  <2>2. /\ e.status = c.status /\ e.run = c.run
        /\ e.staleBy = c.staleBy \ {i}
    BY <2>1 DEF Discarded, Consensus
  <2>3. DoingOf(o) = {i} /\ DoingOf(m) = {}
    BY <2>1, FitsIdle DEF DoingOf
  <2>4. h.attempts[i].run = 0
    BY <2>1 DEF Fits, Coding
  <2>5. LatestRun(g) = LatestRun(h)
    BY <2>1, <2>4, LatestKept DEF Discarded
  <2> HIDE DEF c, e, i
  <2>6. CheckFits(g, m)
    <3>1. e.staleBy \subseteq {0} \cup DOMAIN g.attempts
      BY <1>5, <2>1, <2>2 DEF Discarded
    <3>2. e.status = "passed" /\ e.staleBy \subseteq {} => e.run = LatestRun(g)
      BY <1>5, <2>2, <2>3, <2>5
    <3> QED
      BY <1>2, <1>5, <2>2, <2>3, <3>1, <3>2 DEF CheckFits, c, e
  <2>7. \A j \in DOMAIN g.attempts : g.attempts[j].run # 0 => RunExists(g, g.attempts[j].run)
    BY <1>6, <1>7, <2>1 DEF Discarded
  <2>8. RunsExist(g, m)
    BY <1>1, <1>4, <1>6, <1>7, <2>7 DEF RunsExist
  <2> QED
    BY <1>3, <1>4, <2>6, <2>8 DEF ReviewFits
<1>10. CASE AttemptEnds(h, g, o, m)
  <2> DEFINE i == o.att
  <2>0. PICK r : Completed(h, g, o.att, r) /\ (r = 0 \/ (r = o.run /\ o.pc = "coder_done"))
    BY <1>10 DEF AttemptEnds
  <2>1. Completed(h, g, i, r) /\ Outdated(h, g, i) /\ m = Idle /\ o.pc \in {"coder_lock", "coder_done"}
    BY <1>10, <2>0 DEF AttemptEnds
  <2>2. /\ e.status = c.status /\ e.run = c.run
        /\ e.staleBy = IF c.status = "none" THEN c.staleBy ELSE c.staleBy \cup {i}
    BY <2>1 DEF Outdated, Consensus
  <2>3. i \in DOMAIN h.attempts /\ DoingOf(m) = {}
    BY <2>1, FitsIdle DEF Fits, Coding
  <2>4. r # 0 => RunExists(h, r)
    BY <1>6, <2>0
  <2> HIDE DEF c, e, i
  <2>5. CheckFits(g, m)
    <3>1. e.staleBy \subseteq {0} \cup DOMAIN g.attempts
      BY <1>5, <2>1, <2>2, <2>3 DEF Completed
    <3>2. ~(e.status = "passed" /\ e.staleBy \subseteq {})
      BY <2>2
    <3> QED
      BY <1>2, <1>5, <2>2, <2>3, <3>1, <3>2 DEF CheckFits, c, e
  <2>6. \A j \in DOMAIN g.attempts : g.attempts[j].run # 0 => RunExists(g, g.attempts[j].run)
    BY <1>6, <1>7, <2>1, <2>4 DEF Completed
  <2>7. RunsExist(g, m)
    BY <1>1, <1>4, <1>6, <1>7, <2>6 DEF RunsExist
  <2> QED
    BY <1>3, <1>4, <2>5, <2>7 DEF ReviewFits
<1> QED
  BY <1>8, <1>9, <1>10

(* The steps that write a run: one that is created, ends or is decided has   *)
(* no pull request yet.                                                      *)
LEMMA FitsRuns ==
  ASSUME NEW h, NEW g, NEW o, NEW m, RowsOK(h), RowsOK(g), MemoryOK(m), ReviewFits(h, o),
         RunMade(h, g, o, m) \/ RunEnds(h, g, o, m) \/ RunDecided(h, g, o, m)
  PROVE  ReviewFits(g, m)
<1>1. /\ g.attempts = h.attempts /\ g.cycles = h.cycles /\ g.checks = h.checks /\ g.prs = h.prs
  BY DEF RunMade, RunEnds, RunDecided, Touches, HitchFields
<1>2. \A r : ReviewedBefore(g, r) <=> ReviewedBefore(h, r)
  BY <1>1 DEF ReviewedBefore
<1>3. LatestRun(g) = LatestRun(h)
  BY <1>1, LatestSame
<1>4. DoingOf(m) \subseteq DoingOf(o)
  BY DEF DoingOf, RunMade, RunEnds, RunDecided
<1>5. CheckFits(g, m)
  BY <1>1, <1>2, <1>3, <1>4 DEF ReviewFits, CheckFits
<1>6. h.runs \in Seq([status : RunStatuses, parent : 0..MaxRuns])
  BY DEF RowsOK
<1>7. /\ \A r : RunExists(h, r) => RunExists(g, r)
      /\ \A r \in h.prs : g.runs[r].status = h.runs[r].status
      /\ m.pc = "coder_work" => g.runs[m.run].status = "created"
      /\ RunExists(g, m.run)
  <2>0. \A r \in h.prs : RunExists(h, r) /\ h.runs[r].status = "approved"
    BY DEF ReviewFits, RunsExist, PrsFit
  <2>1. CASE RunMade(h, g, o, m)
    <3>1. PICK p : g.runs = Append(h.runs, [status |-> "created", parent |-> p])
      BY <2>1 DEF RunMade
    <3>2. m.run = Len(h.runs) + 1
      BY <2>1 DEF RunMade
    <3>3. /\ Len(g.runs) = Len(h.runs) + 1 /\ Len(h.runs) \in Nat
          /\ \A r \in 1..Len(h.runs) : g.runs[r] = h.runs[r]
          /\ g.runs[Len(h.runs) + 1] = [status |-> "created", parent |-> p]
      BY <1>6, <3>1
    <3> QED
      BY <2>0, <3>2, <3>3 DEF RunExists
  <2>2. CASE RunEnds(h, g, o, m) \/ RunDecided(h, g, o, m)
    <3>1. PICK s : Moved(h, g, o.run, s)
      BY <2>2 DEF RunEnds, RunDecided
    <3>2. m.run = o.run /\ m.pc # "coder_work" /\ (o.pc = "coder_work" \/ Judging(o))
      BY <2>2 DEF RunEnds, RunDecided, Judging
    <3>3. RunExists(h, o.run)
      BY <3>2 DEF ReviewFits, RunsExist
    <3>4. h.runs[o.run].status # "approved"
      BY <2>2 DEF RunEnds, RunDecided, ReviewFits, MemoryFits
    <3>5. o.run \notin h.prs
      BY <2>0, <3>4
    <3> QED
      BY <2>0, <3>1, <3>2, <3>3, <3>5 DEF Moved, RunExists
  <2> QED
    BY <2>1, <2>2
<1>8. RunsExist(g, m)
  BY <1>1, <1>7 DEF ReviewFits, RunsExist
<1>9. MemoryFits(g, m)
  <2>1. Judging(m) => Judging(o) /\ m.run = o.run
    BY DEF Judging, RunMade, RunEnds, RunDecided
  <2>2. m.pc # "close_pr"
    BY DEF RunMade, RunEnds, RunDecided
  <2> QED
    BY <1>3, <1>7, <2>1, <2>2 DEF ReviewFits, MemoryFits
<1>10. PrsFit(g)
  BY <1>1, <1>2, <1>7 DEF ReviewFits, PrsFit
<1> QED
  BY <1>5, <1>8, <1>9, <1>10 DEF ReviewFits

(* The steps that end a review: the check they leave passed is about the     *)
(* newest run.                                                               *)
LEMMA FitsReviews ==
  ASSUME "review_consensus" \in Conditions,
         NEW h, NEW g, NEW o, NEW m, RowsOK(h), RowsOK(g), MemoryOK(m), ReviewFits(h, o),
         ReviewRecalled(h, g, o, m) \/ ReviewPends(h, g, o, m) \/ ReviewEnds(h, g, o, m)
  PROVE  ReviewFits(g, m)
<1> DEFINE c == h.checks[Consensus]
           e == g.checks[Consensus]
<1>1. /\ g.attempts = h.attempts /\ g.runs = h.runs /\ g.prs = h.prs
  BY DEF ReviewRecalled, ReviewPends, ReviewEnds, Touches, HitchFields
<1>2. g.cycles = h.cycles \/ g.cycles = Append(h.cycles, [run |-> o.run])
  BY DEF ReviewRecalled, ReviewPends, ReviewEnds, Imported, Touches, HitchFields
<1>3. \A r : ReviewedBefore(h, r) => ReviewedBefore(g, r)
  BY <1>2, ReviewedStays
<1>4. LatestRun(g) = LatestRun(h)
  BY <1>1, LatestSame
<1>5. m = Idle /\ Judging(o) /\ o.run = LatestRun(h)
  BY DEF ReviewRecalled, ReviewPends, ReviewEnds, Judging, ReviewFits, MemoryFits
<1>6. RunsExist(g, m) /\ MemoryFits(g, m)
  BY <1>1, <1>5, FitsIdle DEF ReviewFits, RunsExist, RunExists, MemoryFits
<1>7. PrsFit(g)
  BY <1>1, <1>3 DEF ReviewFits, PrsFit
<1>8. CheckFits(g, m)
  <2>0. /\ c.staleBy \subseteq {0} \cup DOMAIN h.attempts
        /\ c.status = "passed" => ReviewedBefore(h, c.run)
    BY DEF ReviewFits, CheckFits
  <2>1. CASE ReviewRecalled(h, g, o, m)
    <3>1. e = [status |-> "passed", run |-> o.run, staleBy |-> {}] /\ ReviewedBefore(h, o.run)
      BY <2>1 DEF ReviewRecalled, Recorded, Consensus
    <3> HIDE DEF e
    <3>2. e.run = o.run /\ e.staleBy = {}
      BY <3>1
    <3> QED
      BY <1>3, <1>4, <1>5, <3>1, <3>2 DEF CheckFits, e
  <2>2. CASE ReviewPends(h, g, o, m)
    <3>1. /\ e.status = c.status /\ e.run = c.run
          /\ e.staleBy = IF c.status = "none" THEN c.staleBy ELSE c.staleBy \cup {0}
      BY <2>2 DEF ReviewPends, Outdated, Consensus
    <3>2. DoingOf(m) = {}
      BY <1>5, FitsIdle
    <3> HIDE DEF c, e
    <3> QED
      BY <1>1, <1>3, <2>0, <3>1, <3>2 DEF CheckFits, c, e
  <2>3. CASE ReviewEnds(h, g, o, m)
    <3>1. /\ g.cycles = Append(h.cycles, [run |-> o.run])
          /\ \E s : e = [status |-> s, run |-> o.run, staleBy |-> {}]
      BY <2>3 DEF ReviewEnds, Imported, Consensus
    <3>2. ReviewedBefore(g, o.run)
      BY <3>1, ReviewedNow
    <3> HIDE DEF e
    <3>3. e.run = o.run /\ e.staleBy = {}
      BY <3>1
    <3> QED
      BY <1>4, <1>5, <3>2, <3>3 DEF CheckFits, e
  <2> QED
    BY <2>1, <2>2, <2>3
<1> QED
  BY <1>6, <1>7, <1>8 DEF ReviewFits

(* A pull request is made for the run whose review let the hitch close.      *)
LEMMA FitsPr ==
  ASSUME NEW h, NEW g, NEW o, NEW m, RowsOK(h), RowsOK(g), MemoryOK(m), ReviewFits(h, o),
         PrMade(h, g, o, m)
  PROVE  ReviewFits(g, m)
<1>1. /\ g.attempts = h.attempts /\ g.runs = h.runs /\ g.cycles = h.cycles /\ g.checks = h.checks
      /\ g.prs = h.prs \cup {o.run} /\ o.pc = "close_pr" /\ m.pc \in Free
      /\ o.run \in h.prs \/ h.runs[o.run].status = "approved"
  BY DEF PrMade, Touches, HitchFields
<1>2. \A r : ReviewedBefore(g, r) <=> ReviewedBefore(h, r)
  BY <1>1 DEF ReviewedBefore
<1>3. LatestRun(g) = LatestRun(h)
  BY <1>1, LatestSame
<1>4. RunExists(h, o.run) /\ ReviewedBefore(h, o.run)
  BY <1>1 DEF ReviewFits, RunsExist, MemoryFits
<1>5. MemoryFits(g, m) /\ DoingOf(m) = {} /\ ~(m.pc \in {"coder_work", "coder_done", "close_pr"} \/ Judging(m))
  BY <1>1, FitsFree
<1>6. RunsExist(g, m)
  BY <1>1, <1>4, <1>5 DEF ReviewFits, RunsExist, RunExists
<1>7. CheckFits(g, m)
  BY <1>1, <1>2, <1>3, <1>5 DEF ReviewFits, CheckFits
<1>8. PrsFit(g)
  BY <1>1, <1>2, <1>4 DEF ReviewFits, PrsFit
<1> QED
  BY <1>5, <1>6, <1>7, <1>8 DEF ReviewFits

(* Whatever step the drive takes.                                            *)
LEMMA ReviewFitsAfter ==
  ASSUME "review_consensus" \in Conditions,
         NEW h, NEW g, NEW o, NEW m, RowsOK(h), RowsOK(g), MemoryOK(m), Fits(h, o), ReviewFits(h, o),
         DriveKind(h, g, o, m)
  PROVE  ReviewFits(g, m)
BY FitsQuiet, FitsAttempts, FitsRuns, FitsReviews, FitsPr DEF DriveKind

(* An operator moves the status and the findings and outdates the checks, or *)
(* ends an attempt without a run.                                            *)
LEMMA ReviewFitsOperator ==
  ASSUME "review_consensus" \in Conditions,
         NEW h, NEW g, NEW o, RowsOK(h), RowsOK(g), ReviewFits(h, o), OperatorKind(h, g)
  PROVE  ReviewFits(g, o)
<1> DEFINE c == h.checks[Consensus]
           e == g.checks[Consensus]
<1>1. g.cycles = h.cycles /\ g.runs = h.runs /\ g.prs = h.prs
  BY DEF OperatorKind, Touches, HitchFields
<1>2. \A r : ReviewedBefore(g, r) <=> ReviewedBefore(h, r)
  BY <1>1 DEF ReviewedBefore
<1>3. CASE Touches(h, g, {"status", "push", "max", "checks", "findings"}) /\ Outdates(h, g)
  <2>1. g.attempts = h.attempts
    BY <1>3 DEF Touches, HitchFields
  <2>2. /\ e.status = c.status /\ e.run = c.run
        /\ c.staleBy \subseteq e.staleBy /\ e.staleBy \subseteq c.staleBy \cup {0}
    BY <1>3 DEF Outdates, Consensus
  <2>3. /\ o.pc \in {"coder_work", "coder_done", "close_pr"} \/ Judging(o) => RunExists(h, o.run)
        /\ MemoryFits(h, o)
    BY DEF ReviewFits, RunsExist
  <2>4. MemoryFits(g, o) /\ RunsExist(g, o) /\ PrsFit(g) /\ LatestRun(g) = LatestRun(h)
    <3>1. LatestRun(g) = LatestRun(h)
      BY <2>1, LatestSame
    <3> QED
      BY <1>1, <1>2, <2>1, <2>3, <3>1 DEF ReviewFits, MemoryFits, RunsExist, RunExists, PrsFit
  <2> HIDE DEF c, e
  <2>5. CheckFits(g, o)
    BY <1>2, <2>1, <2>2, <2>4 DEF ReviewFits, CheckFits, c, e
  <2> QED
    BY <2>4, <2>5 DEF ReviewFits
<1>4. ASSUME NEW i \in DOMAIN h.attempts, Completed(h, g, i, 0), Outdated(h, g, i)
      PROVE  ReviewFits(g, o)
  <2>1. /\ DOMAIN g.attempts = DOMAIN h.attempts
        /\ \A j \in DOMAIN h.attempts : g.attempts[j].run = h.attempts[j].run
    BY <1>4 DEF Completed
  <2>2. LatestRun(g) = LatestRun(h)
    BY <2>1, LatestKept
  <2>3. /\ e.status = c.status /\ e.run = c.run
        /\ c.staleBy \subseteq e.staleBy /\ e.staleBy \subseteq c.staleBy \cup {i}
    BY <1>4 DEF Outdated, Consensus
  <2>4. MemoryFits(g, o) /\ PrsFit(g)
    BY <1>1, <1>2, <2>2 DEF ReviewFits, MemoryFits, PrsFit
  <2>5. RunsExist(g, o)
    BY <1>1, <2>1 DEF ReviewFits, RunsExist, RunExists
  <2> HIDE DEF c, e
  <2>6. CheckFits(g, o)
    BY <1>2, <1>4, <2>1, <2>2, <2>3 DEF ReviewFits, CheckFits, c, e
  <2> QED
    BY <2>4, <2>5, <2>6 DEF ReviewFits
<1> QED
  BY <1>3, <1>4 DEF OperatorKind

ReviewInv == \A d \in Drives : ReviewFits(hitch, drive[d])

(* At the start nothing was checked.                                         *)
LEMMA ReviewInvInit ==
  ASSUME "review_consensus" \in Conditions, Init
  PROVE  ReviewInv
<1>1. /\ hitch.attempts = <<>> /\ hitch.cycles = <<>> /\ hitch.runs = <<>> /\ hitch.prs = {}
      /\ hitch.checks[Consensus] = NoCheck
  BY DEF Init, Consensus
<1>2. hitch.checks[Consensus].status = "none" /\ hitch.checks[Consensus].staleBy = {}
  BY <1>1 DEF NoCheck
<1>3. DOMAIN hitch.attempts = {}
  BY <1>1
<1>4. RunsExist(hitch, Idle) /\ MemoryFits(hitch, Idle) /\ PrsFit(hitch)
  BY <1>1, <1>3, FitsIdle DEF RunsExist, MemoryFits, PrsFit
<1>5. CheckFits(hitch, Idle)
  BY <1>2 DEF CheckFits
<1>6. \A d \in Drives : drive[d] = Idle
  BY DEF Init
<1> QED
  BY <1>4, <1>5, <1>6 DEF ReviewInv, ReviewFits

(* With a single drive every step keeps what the checks say about reviews.   *)
LEMMA ReviewInvStep ==
  ASSUME "review_consensus" \in Conditions, \A d, e \in Drives : d = e,
         TypeInv, TypeInv', RunInv, StepKind, ReviewInv
  PROVE  ReviewInv'
<1>0. RowsOK(hitch) /\ RowsOK(hitch')
  BY DEF TypeInv
<1>1. ASSUME NEW d \in Drives, DriveMoves(d) PROVE ReviewInv'
  <2>1. PICK m : MemoryOK(m) /\ drive' = [drive EXCEPT ![d] = m] /\ DriveKind(hitch, hitch', drive[d], m)
    BY <1>1 DEF DriveMoves
  <2>2. drive'[d] = m
    BY <2>1 DEF TypeInv
  <2>3. Fits(hitch, drive[d]) /\ ReviewFits(hitch, drive[d])
    BY DEF RunInv, ReviewInv
  <2>4. ReviewFits(hitch', m)
    BY <1>0, <2>1, <2>3, ReviewFitsAfter
  <2>5. \A e \in Drives : ReviewFits(hitch', drive'[e])
    BY <2>2, <2>4
  <2> QED
    BY <2>5 DEF ReviewInv
<1>2. CASE OperatorKind(hitch, hitch') /\ UNCHANGED drive
  <2>1. \A d \in Drives : ReviewFits(hitch', drive[d])
    BY <1>0, <1>2, ReviewFitsOperator DEF ReviewInv
  <2> QED
    BY <1>2, <2>1 DEF ReviewInv
<1>3. CASE UNCHANGED <<hitch, drive>>
  BY <1>3 DEF ReviewInv
<1> QED
  BY <1>1, <1>2, <1>3 DEF StepKind

(* One process drives the hitch: a run has a pull request only if it was     *)
(* approved and its review was imported into the hitch, so that no finding   *)
(* of its review was missed by the close. The close check looks at whether   *)
(* the consensus check is fresh, not at which run it is about; that a fresh  *)
(* check is about the newest run is what the invariant adds, and what a      *)
(* second drive that decides a newer run before its import would break.      *)
THEOREM PrsAreReviewed ==
  ASSUME "review_consensus" \in Conditions, \A d, e \in Drives : d = e
  PROVE  Spec => []PrHasItsReview
<1>1. Init => ReviewInv
  BY ReviewInvInit
<1>2. TypeInv /\ RunInv /\ ReviewInv /\ [Next]_vars => ReviewInv' /\ RunInv'
  BY TypeStep, StepKinds, RunInvStep, ReviewInvStep
<1>3. ReviewInv => PrHasItsReview
  <2>1. PICK d \in Drives : TRUE
    BY OrchestratorAssumption
  <2> QED
    BY <2>1 DEF ReviewInv, ReviewFits, PrsFit, PrHasItsReview, ReviewedBefore
<1> QED
  BY RunInit, HitchInvariant, <1>1, <1>2, <1>3, PTL DEF Spec

-----------------------------------------------------------------------------
(* The runs of the hitch implement RunRegister, for any number of drives.    *)

OpenRuns == {drive[d].run : d \in {e \in Drives : Writes(drive[e])}}
OpenRunsBut(d) == {drive[e].run : e \in {x \in Drives : x # d /\ Writes(drive[x])}}

AttemptRunsExist(h) ==
  \A i \in DOMAIN h.attempts : h.attempts[i].run # 0 => RunExists(h, h.attempts[i].run)

(* The run of a drive that writes or judges exists, and is not beyond        *)
(* "created" as long as its process works on it.                             *)
RunFits(h, o) ==
  /\ Writes(o) \/ Judging(o) => RunExists(h, o.run)
  /\ o.pc = "coder_work" => h.runs[o.run].status = "created"

RegisterInv ==
  /\ AttemptRunsExist(hitch)
  /\ \A d \in Drives : RunFits(hitch, drive[d])
  /\ \A d, e \in Drives :
       d # e /\ Writes(drive[d]) /\ Writes(drive[e]) => drive[d].run # drive[e].run

(* What a step of a drive is for the runs.                                   *)
RunsStay(h, g, o, m) ==
  /\ g.runs = h.runs /\ ~Writes(m) /\ AttemptRunsExist(g)
  /\ Judging(m) => RunExists(h, m.run)
RunsMove(h, g, o, m) ==
  /\ g.attempts = h.attempts
  /\ RunMade(h, g, o, m) \/ RunEnds(h, g, o, m) \/ RunDecided(h, g, o, m)

LEMMA RunsAfter ==
  ASSUME NEW h, NEW g, NEW o, NEW m, RowsOK(h), RowsOK(g), MemoryOK(m), AttemptRunsExist(h),
         RunFits(h, o), DriveKind(h, g, o, m)
  PROVE  RunsStay(h, g, o, m) \/ RunsMove(h, g, o, m)
<1>0. ~Writes(Idle) /\ ~Judging(Idle)
  BY DEF Writes, Judging, Idle
<1>1. ASSUME g.runs = h.runs, g.attempts = h.attempts PROVE AttemptRunsExist(g)
  BY <1>1 DEF AttemptRunsExist, RunExists
<1>2. CASE Rest(h, g, o, m) \/ CoderPasses(h, g, o, m) \/ ReviewPasses(h, g, o, m)
            \/ CloseStarts(h, g, o, m) \/ PrMade(h, g, o, m)
  <2>1. g.attempts = h.attempts /\ g.runs = h.runs
    BY <1>2 DEF Rest, CoderPasses, ReviewPasses, CloseStarts, PrMade, Touches, HitchFields
  <2>2. ~Writes(m) /\ ~Judging(m)
    BY <1>2 DEF Rest, CoderPasses, ReviewPasses, CloseStarts, PrMade, Free, Writes, Judging
  <2> QED
    BY <1>1, <2>1, <2>2 DEF RunsStay
<1>3. CASE RunMade(h, g, o, m) \/ RunEnds(h, g, o, m) \/ RunDecided(h, g, o, m)
  <2>1. g.attempts = h.attempts
    BY <1>3 DEF RunMade, RunEnds, RunDecided, Touches, HitchFields
  <2> QED
    BY <1>3, <2>1 DEF RunsMove
<1>4. CASE RunPicked(h, g, o, m)
  <2>1. g.attempts = h.attempts /\ g.runs = h.runs
    BY <1>4 DEF RunPicked, Touches, HitchFields
  <2>2. ~Writes(m) /\ m.run # 0 /\ m.run = LatestRun(h)
    BY <1>4 DEF RunPicked, Writes, MemoryOK
  <2>3. RunExists(h, m.run)
    BY <2>2, LatestRunType DEF AttemptRunsExist
  <2> QED
    BY <1>1, <2>1, <2>2, <2>3 DEF RunsStay
<1>5. CASE ReviewStarts(h, g, o, m)
  <2>1. g.attempts = h.attempts /\ g.runs = h.runs
    BY <1>5 DEF ReviewStarts, Touches, HitchFields
  <2>2. ~Writes(m) /\ Judging(o) /\ m.run = o.run
    BY <1>5 DEF ReviewStarts, Writes, Judging
  <2> QED
    BY <1>1, <2>1, <2>2 DEF RunsStay, RunFits
<1>6. CASE ReviewRecalled(h, g, o, m) \/ ReviewPends(h, g, o, m) \/ ReviewEnds(h, g, o, m)
  <2>1. g.attempts = h.attempts /\ g.runs = h.runs
    BY <1>6 DEF ReviewRecalled, ReviewPends, ReviewEnds, Touches, HitchFields
  <2>2. m = Idle
    BY <1>6 DEF ReviewRecalled, ReviewPends, ReviewEnds
  <2> QED
    BY <1>0, <1>1, <2>1, <2>2 DEF RunsStay
<1>7. CASE AttemptMade(h, g, o, m)
  <2>1. Made(h, g, m.att) /\ m.pc = "coder_lock" /\ g.runs = h.runs
    BY <1>7 DEF AttemptMade, Touches, HitchFields
  <2>2. AttemptRunsExist(g)
    BY <2>1 DEF Made, AttemptRunsExist, RunExists
  <2> QED
    BY <2>1, <2>2 DEF RunsStay, Writes, Judging
<1>8. CASE AttemptGone(h, g, o, m)
  <2>1. Discarded(h, g, o.att) /\ m = Idle /\ g.runs = h.runs
    BY <1>8 DEF AttemptGone, Touches, HitchFields
  <2>2. AttemptRunsExist(g)
    BY <2>1 DEF Discarded, AttemptRunsExist, RunExists
  <2> QED
    BY <1>0, <2>1, <2>2 DEF RunsStay
<1>9. CASE AttemptEnds(h, g, o, m)
  <2>1. PICK r : /\ Completed(h, g, o.att, r)
                 /\ r = 0 \/ (r = o.run /\ o.pc = "coder_done")
    BY <1>9 DEF AttemptEnds
  <2>2. m = Idle /\ g.runs = h.runs
    BY <1>9 DEF AttemptEnds, Touches, HitchFields
  <2>3. r # 0 => RunExists(h, r)
    BY <2>1 DEF RunFits, Writes
  <2>4. AttemptRunsExist(g)
    BY <2>1, <2>2, <2>3 DEF Completed, AttemptRunsExist, RunExists
  <2> QED
    BY <1>0, <2>2, <2>4 DEF RunsStay
<1> QED
  BY <1>2, <1>3, <1>4, <1>5, <1>6, <1>7, <1>8, <1>9 DEF DriveKind

(* A run that exists stays, and its status changes only when it is moved.    *)
LEMMA RunsKept ==
  ASSUME NEW h, NEW g, NEW o, NEW m, RowsOK(h), RunsMove(h, g, o, m)
  PROVE  /\ \A r : RunExists(h, r) => RunExists(g, r)
         /\ \A r : RunExists(h, r) /\ r # o.run => g.runs[r].status = h.runs[r].status
         /\ RunMade(h, g, o, m) => \A r : RunExists(h, r) => g.runs[r] = h.runs[r]
<1>1. h.runs \in Seq([status : RunStatuses, parent : 0..MaxRuns])
  BY DEF RowsOK
<1>2. CASE RunMade(h, g, o, m)
  <2>1. PICK p : g.runs = Append(h.runs, [status |-> "created", parent |-> p])
    BY <1>2 DEF RunMade
  <2>2. /\ Len(g.runs) = Len(h.runs) + 1 /\ Len(h.runs) \in Nat
        /\ \A r \in 1..Len(h.runs) : g.runs[r] = h.runs[r]
    BY <1>1, <2>1
  <2> QED
    BY <2>2 DEF RunExists
<1>3. CASE RunEnds(h, g, o, m) \/ RunDecided(h, g, o, m)
  <2>1. PICK s : Moved(h, g, o.run, s)
    BY <1>3 DEF RunEnds, RunDecided
  <2>2. ~RunMade(h, g, o, m)
    BY <1>3 DEF RunEnds, RunDecided, RunMade
  <2> QED
    BY <2>1, <2>2 DEF Moved, RunExists
<1> QED
  BY <1>2, <1>3 DEF RunsMove

(* The drive's own memory fits the runs after its step.                      *)
LEMMA OwnRunFits ==
  ASSUME NEW h, NEW g, NEW o, NEW m, RowsOK(h), RunFits(h, o), RunsMove(h, g, o, m)
  PROVE  /\ RunFits(g, m) /\ RunExists(g, m.run)
         /\ RunMade(h, g, o, m) => m.run = Len(h.runs) + 1
         /\ ~RunMade(h, g, o, m) => m.run = o.run
         /\ Writes(m) /\ Writes(o) => m.run = o.run
<1>1. h.runs \in Seq([status : RunStatuses, parent : 0..MaxRuns])
  BY DEF RowsOK
<1>2. CASE RunMade(h, g, o, m)
  <2>1. PICK p : g.runs = Append(h.runs, [status |-> "created", parent |-> p])
    BY <1>2 DEF RunMade
  <2>2. /\ Len(g.runs) = Len(h.runs) + 1 /\ Len(h.runs) \in Nat
        /\ g.runs[Len(h.runs) + 1] = [status |-> "created", parent |-> p]
    BY <1>1, <2>1
  <2>3. m.run = Len(h.runs) + 1 /\ ~Writes(o)
    BY <1>2 DEF RunMade, Writes
  <2> QED
    BY <1>2, <2>2, <2>3 DEF RunFits, RunExists
<1>3. CASE RunEnds(h, g, o, m) \/ RunDecided(h, g, o, m)
  <2>1. PICK s : Moved(h, g, o.run, s)
    BY <1>3 DEF RunEnds, RunDecided
  <2>2. m.run = o.run /\ m.pc # "coder_work" /\ (Writes(o) \/ Judging(o)) /\ o.pc # "coder_lock"
    BY <1>3 DEF RunEnds, RunDecided, Writes, Judging
  <2>3. ~RunMade(h, g, o, m)
    BY <2>2 DEF RunMade
  <2> QED
    BY <2>1, <2>2, <2>3 DEF Moved, RunExists, RunFits
<1> QED
  BY <1>2, <1>3 DEF RunsMove

(* Every step keeps the runs of the drives apart and at their places.        *)
LEMMA RegisterInvStep ==
  ASSUME TypeInv, TypeInv', StepKind, RegisterInv
  PROVE  RegisterInv'
<1>0. RowsOK(hitch) /\ RowsOK(hitch')
  BY DEF TypeInv
<1>1. ASSUME NEW d \in Drives, DriveMoves(d) PROVE RegisterInv'
  <2> DEFINE o == drive[d]
  <2>1. PICK m : MemoryOK(m) /\ drive' = [drive EXCEPT ![d] = m] /\ DriveKind(hitch, hitch', o, m)
    BY <1>1 DEF DriveMoves
  <2>2. drive'[d] = m /\ \A e \in Drives : e # d => drive'[e] = drive[e]
    BY <2>1 DEF TypeInv
  <2>3. AttemptRunsExist(hitch) /\ RunFits(hitch, o)
    BY DEF RegisterInv
  <2>4. \A e \in Drives : e # d =>
          /\ RunFits(hitch, drive[e])
          /\ Writes(drive[e]) /\ Writes(o) => drive[e].run # o.run
    BY DEF RegisterInv
  <2> HIDE DEF o
  <2>5. RunsStay(hitch, hitch', o, m) \/ RunsMove(hitch, hitch', o, m)
    BY <1>0, <2>1, <2>3, RunsAfter
  <2>6. CASE RunsStay(hitch, hitch', o, m)
    <3>1. AttemptRunsExist(hitch') /\ RunFits(hitch', m) /\ ~Writes(m)
      BY <2>6 DEF RunsStay, RunFits, RunExists, Writes
    <3>2. \A e \in Drives : e # d => RunFits(hitch', drive[e])
      BY <2>4, <2>6 DEF RunsStay, RunFits, RunExists
    <3>3. \A e, f \in Drives : e # f /\ Writes(drive'[e]) /\ Writes(drive'[f]) =>
            drive'[e].run # drive'[f].run
      <4>1. \A e \in Drives : Writes(drive'[e]) => e # d /\ drive'[e] = drive[e]
        BY <2>2, <3>1
      <4> QED
        BY <4>1 DEF RegisterInv
    <3>4. \A e \in Drives : RunFits(hitch', drive'[e])
      BY <2>2, <3>1, <3>2
    <3> QED
      BY <3>1, <3>3, <3>4 DEF RegisterInv
  <2>7. CASE RunsMove(hitch, hitch', o, m)
    <3>1. /\ \A r : RunExists(hitch, r) => RunExists(hitch', r)
          /\ \A r : RunExists(hitch, r) /\ r # o.run => hitch'.runs[r].status = hitch.runs[r].status
          /\ RunMade(hitch, hitch', o, m) =>
               \A r : RunExists(hitch, r) => hitch'.runs[r] = hitch.runs[r]
      BY <1>0, <2>7, RunsKept
    <3>2. /\ RunFits(hitch', m)
          /\ RunMade(hitch, hitch', o, m) => m.run = Len(hitch.runs) + 1
          /\ ~RunMade(hitch, hitch', o, m) => m.run = o.run
      BY <1>0, <2>3, <2>7, OwnRunFits
    <3>3. AttemptRunsExist(hitch')
      BY <2>3, <2>7, <3>1 DEF RunsMove, AttemptRunsExist
    <3>4. ASSUME NEW e \in Drives, e # d
          PROVE  RunFits(hitch', drive[e])
      <4>1. RunFits(hitch, drive[e])
        BY <2>4, <3>4
      <4>2. CASE RunMade(hitch, hitch', o, m)
        BY <3>1, <4>1, <4>2 DEF RunFits, Writes
      <4>3. CASE RunEnds(hitch, hitch', o, m)
        <5>1. drive[e].pc = "coder_work" => drive[e].run # o.run
          BY <2>4, <3>4, <4>3 DEF RunEnds, Writes
        <5> QED
          BY <3>1, <4>1, <5>1 DEF RunFits, Writes
      <4>4. CASE RunDecided(hitch, hitch', o, m)
        <5>1. drive[e].pc = "coder_work" => drive[e].run # o.run
          BY <4>1, <4>4 DEF RunDecided, RunFits
        <5> QED
          BY <3>1, <4>1, <5>1 DEF RunFits, Writes
      <4> QED
        BY <2>7, <4>2, <4>3, <4>4 DEF RunsMove
    <3>5. ASSUME NEW e \in Drives, e # d, Writes(drive[e]), Writes(m)
          PROVE  drive[e].run # m.run
      <4>1. RunExists(hitch, drive[e].run)
        BY <2>4, <3>5 DEF RunFits
      <4>2. CASE RunMade(hitch, hitch', o, m)
        <5>1. hitch.runs \in Seq([status : RunStatuses, parent : 0..MaxRuns])
          BY <1>0 DEF RowsOK
        <5> QED
          BY <3>2, <4>1, <4>2, <5>1 DEF RunExists
      <4>3. CASE ~RunMade(hitch, hitch', o, m)
        <5>1. Writes(o) /\ m.run = o.run
          BY <2>7, <3>2, <3>5, <4>3 DEF RunsMove, RunEnds, RunDecided, Writes
        <5> QED
          BY <2>4, <3>5, <5>1
      <4> QED
        BY <4>2, <4>3
    <3>6. \A e \in Drives : RunFits(hitch', drive'[e])
      BY <2>2, <3>2, <3>4
    <3>7. ASSUME NEW e \in Drives, NEW f \in Drives, e # f, Writes(drive'[e]), Writes(drive'[f])
          PROVE  drive'[e].run # drive'[f].run
      <4>1. CASE e = d
        BY <2>2, <3>5, <3>7, <4>1
      <4>2. CASE f = d
        BY <2>2, <3>5, <3>7, <4>2
      <4>3. CASE e # d /\ f # d
        BY <2>2, <3>7, <4>3 DEF RegisterInv
      <4> QED
        BY <4>1, <4>2, <4>3
    <3> QED
      BY <3>3, <3>6, <3>7 DEF RegisterInv
  <2> QED
    BY <2>5, <2>6, <2>7
<1>2. CASE OperatorKind(hitch, hitch') /\ UNCHANGED drive
  <2>1. /\ hitch'.runs = hitch.runs
        /\ DOMAIN hitch'.attempts = DOMAIN hitch.attempts
        /\ \A i \in DOMAIN hitch.attempts : hitch'.attempts[i].run = hitch.attempts[i].run
    <3>1. CASE Touches(hitch, hitch', {"status", "push", "max", "checks", "findings"})
      BY <3>1 DEF Touches, HitchFields
    <3>2. CASE /\ Touches(hitch, hitch', {"attempts", "checks"})
               /\ \E i \in DOMAIN hitch.attempts : Completed(hitch, hitch', i, 0)
      BY <3>2 DEF Completed, Touches, HitchFields
    <3> QED
      BY <1>2, <3>1, <3>2 DEF OperatorKind
  <2>2. AttemptRunsExist(hitch') /\ \A d \in Drives : RunFits(hitch', drive[d])
    BY <2>1 DEF RegisterInv, AttemptRunsExist, RunFits, RunExists
  <2> QED
    BY <1>2, <2>2 DEF RegisterInv
<1>3. CASE UNCHANGED <<hitch, drive>>
  BY <1>3 DEF RegisterInv
<1> QED
  BY <1>1, <1>2, <1>3 DEF StepKind

RunStages(h) == [r \in Runs |-> StageIn(h, r)]

(* A run that exists has its own stage, another one none.                    *)
LEMMA StageIs ==
  ASSUME NEW h, RowsOK(h), NEW r \in Runs
  PROVE  /\ RunExists(h, r) /\ h.runs[r].status = "created" => StageIn(h, r) = "running"
         /\ RunExists(h, r) /\ h.runs[r].status # "created" => StageIn(h, r) = h.runs[r].status
         /\ ~RunExists(h, r) => StageIn(h, r) = "none"
<1>1. DOMAIN h.runs = 1..Len(h.runs)
  BY DEF RowsOK
<1> QED
  BY <1>1 DEF StageIn, RunExists

(* The stages after a status was written.                                    *)
LEMMA StagesMove ==
  ASSUME NEW h, NEW g, RowsOK(h), RowsOK(g), NEW r \in Runs, RunExists(h, r),
         NEW s \in RunStatuses \ {"created"}, Moved(h, g, r, s)
  PROVE  RunStages(g) = [RunStages(h) EXCEPT ![r] = s]
<1>1. DOMAIN h.runs = 1..Len(h.runs) /\ DOMAIN g.runs = DOMAIN h.runs
  BY DEF RowsOK, Moved
<1>2. StageIn(g, r) = s
  BY <1>1 DEF Moved, RunExists, StageIn
<1>3. \A x \in Runs : x # r => StageIn(g, x) = StageIn(h, x)
  BY <1>1 DEF Moved, StageIn
<1> QED
  BY <1>2, <1>3 DEF RunStages

(* The stages after a run row was inserted.                                  *)
LEMMA StagesInsert ==
  ASSUME NEW h, NEW g, RowsOK(h), NEW p,
         g.runs = Append(h.runs, [status |-> "created", parent |-> p]),
         NEW r \in Runs, r = Len(h.runs) + 1
  PROVE  RunStages(h)[r] = "none" /\ RunStages(g) = [RunStages(h) EXCEPT ![r] = "running"]
<1>1. h.runs \in Seq([status : RunStatuses, parent : 0..MaxRuns])
  BY DEF RowsOK
<1>2. /\ Len(g.runs) = Len(h.runs) + 1 /\ Len(h.runs) \in Nat
      /\ \A x \in 1..Len(h.runs) : g.runs[x] = h.runs[x]
      /\ g.runs[Len(h.runs) + 1] = [status |-> "created", parent |-> p]
      /\ DOMAIN h.runs = 1..Len(h.runs) /\ DOMAIN g.runs = 1..Len(g.runs)
  BY <1>1
<1>3. StageIn(h, r) = "none" /\ StageIn(g, r) = "running"
  BY <1>2 DEF StageIn
<1>4. \A x \in Runs : x # r => StageIn(g, x) = StageIn(h, x)
  BY <1>2 DEF StageIn
<1> QED
  BY <1>3, <1>4 DEF RunStages

(* The runs that are being written, before and after the step of one drive.  *)
LEMMA OpenAfter ==
  ASSUME TypeInv, RegisterInv, NEW d \in Drives, NEW m, drive' = [drive EXCEPT ![d] = m]
  PROVE  /\ OpenRuns = OpenRunsBut(d) \cup (IF Writes(drive[d]) THEN {drive[d].run} ELSE {})
         /\ OpenRuns' = OpenRunsBut(d) \cup (IF Writes(m) THEN {m.run} ELSE {})
         /\ Writes(drive[d]) => drive[d].run \notin OpenRunsBut(d)
<1>1. drive'[d] = m /\ \A e \in Drives : e # d => drive'[e] = drive[e]
  BY DEF TypeInv
<1>2. OpenRuns' = {drive'[e].run : e \in {x \in Drives : Writes(drive'[x])}}
  BY DEF OpenRuns, Writes
<1>3. Writes(drive[d]) => drive[d].run \notin OpenRunsBut(d)
  BY DEF RegisterInv, OpenRunsBut
<1>4. OpenRuns = OpenRunsBut(d) \cup (IF Writes(drive[d]) THEN {drive[d].run} ELSE {})
  BY DEF OpenRuns, OpenRunsBut
<1>5. OpenRuns' = OpenRunsBut(d) \cup (IF Writes(m) THEN {m.run} ELSE {})
  BY <1>1, <1>2 DEF OpenRunsBut
<1> QED
  BY <1>3, <1>4, <1>5

(* Only these things happen to the runs of the hitch.                        *)
StagesStep(St, Tt, Op, Pp) ==
  \/ Tt = St /\ Pp = Op
  \/ Tt = St /\ \E r \in Runs : Pp = Op \ {r}
  \/ \E r \in Runs : St[r] = "none" /\ Tt = [St EXCEPT ![r] = "running"] /\ Pp = Op \cup {r}
  \/ /\ Pp = Op
     /\ \E r \in Op : /\ r \in Runs /\ St[r] = "running"
                      /\ \E s \in {"needs_review", "failed"} : Tt = [St EXCEPT ![r] = s]
  \/ /\ Pp = Op
     /\ \E r \in Runs : /\ St[r] = "needs_review"
                        /\ \E s \in {"approved", "changes_requested"} : Tt = [St EXCEPT ![r] = s]

LEMMA StagesMoves ==
  ASSUME TypeInv, TypeInv', StepKind, RegisterInv
  PROVE  StagesStep(RunStages(hitch), RunStages(hitch'), OpenRuns, OpenRuns')
<1>0. RowsOK(hitch) /\ RowsOK(hitch')
  BY DEF TypeInv
<1>1. ASSUME NEW d \in Drives, DriveMoves(d)
      PROVE  StagesStep(RunStages(hitch), RunStages(hitch'), OpenRuns, OpenRuns')
  <2> DEFINE o == drive[d]
  <2>1. PICK m : MemoryOK(m) /\ drive' = [drive EXCEPT ![d] = m] /\ DriveKind(hitch, hitch', o, m)
    BY <1>1 DEF DriveMoves
  <2>2. /\ OpenRuns = OpenRunsBut(d) \cup (IF Writes(o) THEN {o.run} ELSE {})
        /\ OpenRuns' = OpenRunsBut(d) \cup (IF Writes(m) THEN {m.run} ELSE {})
        /\ Writes(o) => o.run \notin OpenRunsBut(d)
    BY <2>1, OpenAfter
  <2>3. AttemptRunsExist(hitch) /\ RunFits(hitch, o) /\ o.run \in 0..MaxRuns /\ m.run \in 0..MaxRuns
    BY <2>1 DEF RegisterInv, TypeInv, MemoryOK, Memories
  <2> HIDE DEF o
  <2>4. Writes(o) \/ Judging(o) => o.run \in Runs /\ RunExists(hitch, o.run)
    BY <2>3, OrchestratorAssumption DEF RunFits, RunExists, Runs
  <2>5. CASE RunsStay(hitch, hitch', o, m)
    <3>1. RunStages(hitch') = RunStages(hitch) /\ ~Writes(m)
      BY <2>5 DEF RunsStay, RunStages, StageIn
    <3>2. CASE Writes(o)
      <4>1. OpenRuns' = OpenRuns \ {o.run} /\ o.run \in Runs
        BY <2>2, <2>4, <3>1, <3>2
      <4> QED
        BY <3>1, <4>1 DEF StagesStep
    <3>3. CASE ~Writes(o)
      BY <2>2, <3>1, <3>3 DEF StagesStep
    <3> QED
      BY <3>2, <3>3
  <2>6. CASE RunMade(hitch, hitch', o, m)
    <3>1. PICK p : hitch'.runs = Append(hitch.runs, [status |-> "created", parent |-> p])
      BY <2>6 DEF RunMade
    <3>2. m.run = Len(hitch.runs) + 1 /\ Len(hitch.runs) \in Nat /\ Writes(m) /\ ~Writes(o)
      BY <1>0, <2>6 DEF RunMade, RowsOK, Writes
    <3>3. m.run \in Runs
      BY <2>3, <3>2, OrchestratorAssumption DEF Runs
    <3>4. /\ RunStages(hitch)[m.run] = "none"
          /\ RunStages(hitch') = [RunStages(hitch) EXCEPT ![m.run] = "running"]
      BY <1>0, <3>1, <3>2, <3>3, StagesInsert
    <3>5. OpenRuns' = OpenRuns \cup {m.run}
      BY <2>2, <3>2
    <3> QED
      BY <3>3, <3>4, <3>5 DEF StagesStep
  <2>7. CASE RunEnds(hitch, hitch', o, m)
    <3>1. PICK s \in {"needs_review", "failed", "created"} : Moved(hitch, hitch', o.run, s)
      BY <2>7 DEF RunEnds
    <3>2. Writes(o) /\ Writes(m) /\ m.run = o.run /\ o.pc = "coder_work"
      BY <2>7 DEF RunEnds, Writes
    <3>3. o.run \in Runs /\ RunExists(hitch, o.run) /\ hitch.runs[o.run].status = "created"
      BY <2>3, <2>4, <3>2 DEF RunFits
    <3>4. RunStages(hitch)[o.run] = "running"
      BY <1>0, <3>3, StageIs DEF RunStages
    <3>5. OpenRuns' = OpenRuns /\ o.run \in OpenRuns
      BY <2>2, <3>2
    <3>6. CASE s # "created"
      <4>1. RunStages(hitch') = [RunStages(hitch) EXCEPT ![o.run] = s]
        BY <1>0, <3>1, <3>3, <3>6, StagesMove DEF RunStatuses
      <4> QED
        BY <3>1, <3>3, <3>4, <3>5, <3>6, <4>1 DEF StagesStep
    <3>7. CASE s = "created"
      <4>1. \A x \in Runs : StageIn(hitch', x) = StageIn(hitch, x)
        BY <3>1, <3>3, <3>7 DEF Moved, RunExists, StageIn
      <4> QED
        BY <3>5, <4>1 DEF StagesStep, RunStages
    <3> QED
      BY <3>6, <3>7
  <2>8. CASE RunDecided(hitch, hitch', o, m)
    <3>1. PICK s \in {"approved", "changes_requested"} : Moved(hitch, hitch', o.run, s)
      BY <2>8 DEF RunDecided
    <3>2. ~Writes(o) /\ ~Writes(m) /\ Judging(o) /\ hitch.runs[o.run].status = "needs_review"
      BY <2>8 DEF RunDecided, Writes, Judging
    <3>3. o.run \in Runs /\ RunExists(hitch, o.run)
      BY <2>4, <3>2
    <3>4. RunStages(hitch)[o.run] = "needs_review"
      BY <1>0, <3>2, <3>3, StageIs DEF RunStages
    <3>5. RunStages(hitch') = [RunStages(hitch) EXCEPT ![o.run] = s]
      BY <1>0, <3>1, <3>3, StagesMove DEF RunStatuses
    <3>6. OpenRuns' = OpenRuns
      BY <2>2, <3>2
    <3> QED
      BY <3>3, <3>4, <3>5, <3>6 DEF StagesStep
  <2>9. RunsStay(hitch, hitch', o, m) \/ RunsMove(hitch, hitch', o, m)
    BY <1>0, <2>1, <2>3, RunsAfter
  <2> QED
    BY <2>5, <2>6, <2>7, <2>8, <2>9 DEF RunsMove
<1>2. CASE OperatorKind(hitch, hitch') /\ UNCHANGED drive
  <2>1. hitch'.runs = hitch.runs
    BY <1>2 DEF OperatorKind, Touches, HitchFields
  <2>2. RunStages(hitch') = RunStages(hitch) /\ OpenRuns' = OpenRuns
    BY <1>2, <2>1 DEF RunStages, StageIn, OpenRuns, Writes
  <2> QED
    BY <2>2 DEF StagesStep
<1>3. CASE UNCHANGED <<hitch, drive>>
  BY <1>3 DEF StagesStep, OpenRuns, Writes
<1> QED
  BY <1>1, <1>2, <1>3 DEF StepKind

(* For any number of drives, lost leases and deaths: the runs of a hitch     *)
(* move as RunRegister lets them, so a coder that lost its lease or died is  *)
(* for the review and the pull request what RunExecution makes of it         *)
(* (runDomainCoding, forceFailFinalize, applyReviewDecision).                *)
THEOREM HitchRunsImplementRegister == Spec => ImplementsRegister
<1> DEFINE St == RunStages(hitch)
           Op == OpenRuns
<1>1. Init => RegisterInv /\ Register!RegisterInit
  <2> SUFFICES ASSUME Init PROVE RegisterInv /\ Register!RegisterInit
    OBVIOUS
  <2>1. DOMAIN hitch.attempts = {} /\ DOMAIN hitch.runs = {} /\ \A d \in Drives : drive[d] = Idle
    BY DEF Init
  <2>2. ~Writes(Idle) /\ ~Judging(Idle) /\ Idle.pc = "idle"
    BY DEF Writes, Judging, Idle
  <2>3. RegisterInv
    BY <2>1, <2>2 DEF RegisterInv, AttemptRunsExist, RunFits
  <2>4. St = [r \in Runs |-> "none"] /\ Op = {}
    BY <2>1, <2>2 DEF RunStages, StageIn, OpenRuns
  <2>5. "none" \in Register!Stages
    BY DEF Register!Stages
  <2>6. St \in [Runs -> Register!Stages]
    BY <2>4, <2>5
  <2> QED
    BY <2>3, <2>4, <2>6 DEF Register!RegisterInit, RunStages, OpenRuns
<1>2. TypeInv /\ TypeInv' /\ RegisterInv /\ [Next]_vars => RegisterInv'
  BY StepKinds, RegisterInvStep
<1>3. TypeInv /\ TypeInv' /\ RegisterInv /\ [Next]_vars
        => [Register!RegisterNext]_(Register!registerVars)
  <2> SUFFICES ASSUME StagesStep(St, St', Op, Op')
               PROVE  [Register!RegisterNext]_(Register!registerVars)
    BY StepKinds, StagesMoves DEF RunStages
  <2>1. CASE St' = St /\ Op' = Op
    BY <2>1 DEF Register!registerVars, RunStages, OpenRuns
  <2>2. ASSUME NEW r \in Runs, St' = St, Op' = Op \ {r}
        PROVE  Register!Leave(r)
    BY <2>2 DEF Register!Leave, RunStages, OpenRuns
  <2>3. ASSUME NEW r \in Runs, St[r] = "none", St' = [St EXCEPT ![r] = "running"],
               Op' = Op \cup {r}
        PROVE  Register!Insert(r)
    BY <2>3 DEF Register!Insert, RunStages, OpenRuns
  <2>4. ASSUME NEW r \in Runs, Op' = Op, r \in Op, St[r] = "running",
               St' = [St EXCEPT ![r] = "needs_review"]
        PROVE  Register!Proceed(r, "needs_review")
    BY <2>4 DEF Register!Proceed, Register!Later, RunStages, OpenRuns
  <2>5. ASSUME NEW r \in Runs, Op' = Op, r \in Op, St' = [St EXCEPT ![r] = "failed"]
        PROVE  Register!FailRun(r)
    BY <2>5 DEF Register!FailRun, RunStages, OpenRuns
  <2>6. ASSUME NEW r \in Runs, Op' = Op, St[r] = "needs_review",
               NEW s \in {"approved", "changes_requested"}, St' = [St EXCEPT ![r] = s]
        PROVE  Register!Judge(r, s)
    BY <2>6 DEF Register!Judge, RunStages, OpenRuns
  <2>7. "needs_review" \in Register!Stages /\ {"approved", "changes_requested"} \subseteq Register!Verdicts
    BY DEF Register!Stages, Register!Verdicts
  <2> HIDE DEF St, Op
  <2> QED
    BY <2>1, <2>2, <2>3, <2>4, <2>5, <2>6, <2>7 DEF StagesStep, Register!RegisterNext
<1> QED
  BY HitchInvariant, <1>1, <1>2, <1>3, PTL DEF Spec, ImplementsRegister, Register!RegisterSpec

-----------------------------------------------------------------------------
(* The domain lock of the hitch is used as DomainLock lets its users.        *)

Held == lock # "none"

(* Only CoderLock takes the lock, and only with a new run; what frees it     *)
(* inserts none.                                                             *)
LockMoves ==
  \/ Held' = Held /\ Len(hitch'.runs) = Len(hitch.runs)
  \/ /\ ~Held /\ Held' /\ Len(hitch.runs) < MaxRuns
     /\ Len(hitch'.runs) = Len(hitch.runs) + 1
  \/ Held /\ ~Held' /\ Len(hitch'.runs) = Len(hitch.runs)

(* A held lock was taken for a run.                                          *)
HeldForRun == Held => Len(hitch.runs) # 0

(* What CoderLock does is one of the three moves: a drive whose run is not   *)
(* inserted leaves the lock alone.                                           *)
LEMMA LockTaken ==
  ASSUME TypeInv, NEW d \in Drives, CoderLock(d)
  PROVE  LockMoves
<1>0. d # "none"
  BY OrchestratorAssumption
<1>1. ASSUME lock' = lock, hitch'.runs = hitch.runs PROVE LockMoves
  BY <1>1 DEF LockMoves, Held
<1>2. CASE Return(d, DiscardAttempt(hitch, drive[d].att)) /\ UNCHANGED lock
  BY <1>1, <1>2 DEF Return, DiscardAttempt, TypeInv, RowsOK, HitchFields
<1>3. CASE Throw(d, CompleteAttempt(hitch, drive[d].att, "failed", 0)) /\ UNCHANGED lock
  <2> DEFINE g == CompleteAttempt(hitch, drive[d].att, "failed", 0)
  <2>0. RowsOK(hitch) /\ drive[d] \in Memories /\ 0 \in 0..MaxRuns
    BY OrchestratorAssumption DEF TypeInv
  <2>1. RowsOK(hitch) /\ drive[d].att \in Nat /\ 0 \in 0..MaxRuns
    BY <2>0 DEF Memories
  <2>2. RowsOK(g) /\ Touches(hitch, g, {"attempts", "checks"})
    BY <2>1, CompleteRows
  <2>3. hitch' = Escalated(g) /\ Touches(g, Escalated(g), {"status"})
    BY <1>3, <2>2, EscalatedRows DEF Throw, Return
  <2> HIDE DEF g
  <2>4. hitch'.runs = hitch.runs
    BY <2>2, <2>3 DEF Touches, HitchFields
  <2> QED
    BY <1>1, <1>3, <2>4
<1>4. CASE /\ lock = "none" /\ Len(hitch.runs) < MaxRuns
           /\ hitch' = [hitch EXCEPT !.runs =
                          Append(@, [status |-> "created", parent |-> drive[d].run])]
           /\ lock' = d
  <2>1. hitch'.runs = Append(hitch.runs, [status |-> "created", parent |-> drive[d].run])
    BY <1>4 DEF TypeInv, RowsOK, HitchFields
  <2>2. hitch.runs \in Seq([status : RunStatuses, parent : 0..MaxRuns])
    BY DEF TypeInv, RowsOK
  <2>3. Len(hitch'.runs) = Len(hitch.runs) + 1
    BY <2>1, <2>2
  <2> QED
    BY <1>0, <1>4, <2>3 DEF LockMoves, Held
<1> QED
  BY <1>2, <1>3, <1>4 DEF CoderLock

(* Every step of the hitch is one of the three moves.                        *)
LEMMA LockStep ==
  ASSUME TypeInv, TypeInv', [Next]_vars
  PROVE  LockMoves
<1>1. ASSUME lock' \in {lock, "none"}, Len(hitch'.runs) = Len(hitch.runs)
      PROVE  LockMoves
  BY <1>1 DEF LockMoves, Held
<1>2. ASSUME NEW d \in Drives, DriveStep(d), ~CoderLock(d)
      PROVE  LockMoves
  <2>1. lock' \in {lock, "none"}
    BY <1>2 DEF DriveStep, Evaluate, CoderGate, CoderCreate, CoderWork, CoderDone, CoderVoid,
       ReviewGate, ReviewPick, ReviewKnown, ReviewWork, ReviewImport, CheckPrep, CheckRecord,
       ClassifyRead, ClassifyApply, ClassifyStop, DeferRead, DeferOne, CloseEval, ClosePr, CloseDone
  <2>2. drive[d].pc # "coder_lock"
    BY <1>2 DEF DriveStep, Evaluate, CoderGate, CoderCreate, CoderWork, CoderDone, CoderVoid, At,
       ReviewGate, ReviewPick, ReviewKnown, ReviewWork, ReviewImport, CheckPrep, CheckRecord,
       ClassifyRead, ClassifyApply, ClassifyStop, DeferRead, DeferOne, CloseEval, ClosePr, CloseDone
  <2>3. PICK m : DriveKind(hitch, hitch', drive[d], m)
    BY <1>2, DriveSteps DEF DriveMoves
  <2>4. ~RunMade(hitch, hitch', drive[d], m)
    BY <2>2 DEF RunMade
  <2>5. Len(hitch'.runs) = Len(hitch.runs)
    <3>1. CASE RunEnds(hitch, hitch', drive[d], m) \/ RunDecided(hitch, hitch', drive[d], m)
      BY <3>1 DEF RunEnds, RunDecided, Moved
    <3>2. ASSUME ~RunEnds(hitch, hitch', drive[d], m), ~RunDecided(hitch, hitch', drive[d], m)
          PROVE  hitch'.runs = hitch.runs
      BY <2>3, <2>4, <3>2 DEF DriveKind, Rest, CoderPasses, AttemptMade, AttemptGone, AttemptEnds,
         ReviewPasses, RunPicked, ReviewStarts, ReviewRecalled, ReviewPends, ReviewEnds,
         CloseStarts, PrMade, Touches, HitchFields
    <3> QED
      BY <3>1, <3>2
  <2> QED
    BY <1>1, <2>1, <2>5
<1>3. ASSUME NEW d \in Drives, Crash(d) PROVE LockMoves
  <2>1. hitch' = hitch /\ lock' = (IF lock = d THEN "dead" ELSE lock) /\ d # "none"
    BY <1>3, OrchestratorAssumption DEF Crash
  <2> QED
    BY <2>1 DEF LockMoves, Held
<1>4. CASE LeaseExpires \/ \E d \in Drives : LeaseLost(d)
  BY <1>1, <1>4 DEF LeaseExpires, LeaseLost
<1>5. ASSUME NEW op \in OpKinds, Operate(op) PROVE LockMoves
  <2>1. op \in Commands /\ hitch' \in Outcomes(op, hitch) /\ lock' = lock
    BY <1>5, OrchestratorAssumption DEF Operate
  <2>2. OperatorKind(hitch, hitch')
    BY <2>1, OperatorSteps
  <2>3. hitch'.runs = hitch.runs
    BY <2>2 DEF OperatorKind, Touches, HitchFields
  <2> QED
    BY <1>1, <2>1, <2>3
<1>6. CASE UNCHANGED vars
  BY <1>1, <1>6 DEF vars
<1> QED
  BY <1>2, <1>3, <1>4, <1>5, <1>6, LockTaken DEF Next

(* For any number of drives, deaths and lost leases: what the drives do to   *)
(* the domain lock is what the lock that DomainLock implements allows, so a  *)
(* drive of the hitch may be put in the place of one of its clients          *)
(* (runDomainCoding, domainLocks.acquire and release).                       *)
THEOREM HitchUsesTheLock == Spec => UsesTheLock
<1> DEFINE Own == [n \in {"domain"} |-> Holder]
           Live == [n \in {"domain"} |-> Held]
<1>1. Init => Fenced!FenceInit
  <2> SUFFICES ASSUME Init PROVE Fenced!FenceInit
    OBVIOUS
  <2>1. lock = "none" /\ Len(hitch.runs) = 0
    BY DEF Init
  <2> QED
    BY <2>1 DEF Fenced!FenceInit, Holder
<1>2. Init => HeldForRun
  BY DEF Init, HeldForRun, Held
<1>3. TypeInv /\ TypeInv' /\ HeldForRun /\ [Next]_vars => HeldForRun'
  <2> SUFFICES ASSUME TypeInv, HeldForRun, LockMoves PROVE HeldForRun'
    BY LockStep
  <2>1. Len(hitch.runs) \in Nat
    BY DEF TypeInv, RowsOK
  <2> QED
    BY <2>1 DEF LockMoves, HeldForRun, Held
<1>4. TypeInv /\ TypeInv' /\ HeldForRun /\ [Next]_vars => [Fenced!FenceNext]_(Fenced!fenceVars)
  <2> SUFFICES ASSUME TypeInv, HeldForRun, LockMoves
               PROVE  [Fenced!FenceNext]_(Fenced!fenceVars)
    BY LockStep
  <2>0. Len(hitch.runs) \in Nat
    BY DEF TypeInv, RowsOK
  <2>1. CASE Held' = Held /\ Len(hitch'.runs) = Len(hitch.runs)
    BY <2>1 DEF Fenced!fenceVars, Holder, Held
  <2>2. CASE /\ ~Held /\ Held' /\ Len(hitch.runs) < MaxRuns
             /\ Len(hitch'.runs) = Len(hitch.runs) + 1
    <3> DEFINE r == Len(hitch.runs) + 1
    <3>1. r \in Runs
      BY <2>0, <2>2, OrchestratorAssumption DEF Runs
    <3>2. /\ Own["domain"] = 0 /\ Own' = [Own EXCEPT !["domain"] = r]
          /\ Live' = [Live EXCEPT !["domain"] = TRUE]
      BY <2>2 DEF Holder, Held
    <3>3. Fenced!Grant(r, "domain")
      BY <2>2, <3>2 DEF Fenced!Grant, Held
    <3> QED
      BY <3>1, <3>3 DEF Fenced!FenceNext
  <2>3. CASE Held /\ ~Held' /\ Len(hitch'.runs) = Len(hitch.runs)
    <3>1. /\ Own' = [Own EXCEPT !["domain"] = 0]
          /\ Live' = [Live EXCEPT !["domain"] = FALSE]
      BY <2>3 DEF Holder, Held
    <3>2. Own["domain"] # 0
      BY <2>3 DEF Holder, Held, HeldForRun
    <3>3. Fenced!End("domain")
      BY <2>3, <3>1, <3>2 DEF Fenced!End, Held
    <3> QED
      BY <3>3 DEF Fenced!FenceNext
  <2> QED
    BY <2>1, <2>2, <2>3 DEF LockMoves
<1> QED
  BY HitchInvariant, <1>1, <1>2, <1>3, <1>4, PTL DEF Spec, UsesTheLock, Fenced!FenceSpec

=============================================================================
