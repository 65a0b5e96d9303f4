---------------------------- MODULE ReviewProofs ----------------------------
(* Theorems about reviews: the verdict arithmetic over every ballot, and the  *)
(* commands that file, evaluate, override and promote.                        *)
(*                                                                            *)
(* The loop over the requirements of a rule is a recursive function.  The     *)
(* set of lengths for which such a function exists holds 0 and is closed      *)
(* under successor, so it is Nat (LoopExists); the same induction reads the   *)
(* value of the loop as a quantified statement about its requirements         *)
(* (BlockingStatusIs), and that is all the theorems about ballots need.       *)
(*                                                                            *)
(* The commands share no lock.  What holds them together is that a verdict    *)
(* is taken once: every step of theirs is one of six kinds of database step   *)
(* (WorldStep), and a process between two of its steps knows only what such   *)
(* steps leave true (Fits).                                                   *)
EXTENDS ReviewGovernance, ConsensusBallot, TLAPS, FiniteSetTheorems, SequenceTheorems

(* Induction over the naturals for sets.                                      *)

LEMMA LeastNatural ==
  ASSUME NEW T \in SUBSET Nat, T # {}
  PROVE  \E n \in T : \A m \in T : n =< m
PROOF
  <1>1. IsWellFoundedOn(OpToRel(<, Nat), Nat)
    BY NatLessThanWellFounded
  <1>2. PICK n \in T : \A m \in T : ~(<<m, n>> \in OpToRel(<, Nat))
    BY <1>1, WFMin
  <1>3. \A m \in T : ~(m < n)
    BY <1>2 DEF OpToRel
  <1> QED
    BY <1>3

LEMMA SetInduction ==
  ASSUME NEW T \in SUBSET Nat, 0 \in T, \A n \in T : n + 1 \in T
  PROVE  T = Nat
PROOF
  <1>1. SUFFICES ASSUME Nat \ T # {} PROVE FALSE
    OBVIOUS
  <1>2. PICK n \in Nat \ T : \A m \in Nat \ T : n =< m
    BY <1>1, LeastNatural
  <1>3. n # 0 /\ n - 1 \in Nat /\ n - 1 \in T
    BY <1>2
  <1> QED
    BY <1>2, <1>3

(* The recursive function of a loop over 1 .. n that combines a value with    *)
(* the next element exists, whatever the combination yields.                  *)
LEMMA LoopExists ==
  ASSUME NEW V, NEW v0 \in V, NEW N \in Nat,
         NEW S \in [1 .. N -> [V -> V]]
  PROVE  \E f \in [0 .. N -> V] :
           f = [n \in 0 .. N |-> IF n = 0 THEN v0 ELSE S[n][f[n - 1]]]
PROOF
  <1> DEFINE Loop(n, f) == /\ f \in [0 .. n -> V]
                           /\ f[0] = v0
                           /\ \A i \in 1 .. n : f[i] = S[i][f[i - 1]]
             T == {n \in Nat : n =< N => \E f : Loop(n, f)}
  <1>1. 0 \in T
    <2>1. Loop(0, [i \in 0 .. 0 |-> v0])
      OBVIOUS
    <2> QED
      BY <2>1
  <1>2. ASSUME NEW n \in T PROVE n + 1 \in T
    <2>1. SUFFICES ASSUME n + 1 =< N PROVE \E f : Loop(n + 1, f)
      OBVIOUS
    <2>2. PICK f : Loop(n, f)
      BY <2>1
    <2> DEFINE g == [i \in 0 .. n + 1 |-> IF i = n + 1 THEN S[n + 1][f[n]] ELSE f[i]]
    <2>3. f[n] \in V /\ S[n + 1][f[n]] \in V
      BY <2>1, <2>2
    <2>4. g \in [0 .. n + 1 -> V] /\ g[0] = v0
      BY <2>2, <2>3
    <2>5. ASSUME NEW i \in 1 .. n + 1 PROVE g[i] = S[i][g[i - 1]]
      <3>1. CASE i = n + 1
        BY <3>1
      <3>2. CASE i # n + 1
        <4>1. i \in 1 .. n /\ i - 1 \in 0 .. n + 1 /\ i - 1 # n + 1
          BY <3>2
        <4>2. g[i] = f[i] /\ g[i - 1] = f[i - 1]
          BY <3>2, <4>1
        <4> QED
          BY <2>2, <4>1, <4>2
      <3> QED
        BY <3>1, <3>2
    <2>6. Loop(n + 1, g)
      BY <2>4, <2>5
    <2> QED
      BY <2>6
  <1>3. T = Nat
    <2>1. T \in SUBSET Nat
      OBVIOUS
    <2> HIDE DEF T
    <2> QED
      BY <1>1, <1>2, <2>1, SetInduction
  <1>4. PICK f : Loop(N, f)
    BY <1>3
  <1>5. f = [n \in 0 .. N |-> IF n = 0 THEN v0 ELSE S[n][f[n - 1]]]
    <2>1. DOMAIN f = 0 .. N /\ f = [n \in 0 .. N |-> f[n]]
      BY <1>4
    <2>2. \A n \in 0 .. N : f[n] = IF n = 0 THEN v0 ELSE S[n][f[n - 1]]
      BY <1>4
    <2> QED
      BY <2>1, <2>2
  <1> QED
    BY <1>4, <1>5

Blockings == {"none", "changes_requested", "rejected"}

(* The loop over the requirements as a statement about them.                  *)
LEMMA BlockingStatusIs ==
  ASSUME NEW rl, NEW ps, NEW refuted, RuleIsCompiled(rl)
  PROVE  /\ BlockingStatus(rl, ps, refuted) \in Blockings
         /\ BlockingStatus(rl, ps, refuted) = "rejected" <=>
              \E i \in DOMAIN rl.requirements : BlockedByReject(rl.requirements[i], ps)
         /\ BlockingStatus(rl, ps, refuted) = "none" =>
              \A i \in DOMAIN rl.requirements :
                /\ ~BlockedByReject(rl.requirements[i], ps)
                /\ ~BlockedByChanges(rl.requirements[i], ps, refuted)
PROOF
  <1> DEFINE N == Len(rl.requirements)
             reqs == rl.requirements
             rej(i) == BlockedByReject(reqs[i], ps)
             chg(i) == BlockedByChanges(reqs[i], ps, refuted)
             next(v, i) == BlockStep(v, reqs[i], ps, refuted)
             after == CHOOSE f : f = [n \in 0 .. N |-> IF n = 0 THEN "none" ELSE next(f[n - 1], n)]
  <1>1. N \in Nat /\ DOMAIN reqs = 1 .. N
    BY DEF RuleIsCompiled
  <1>2. BlockingStatus(rl, ps, refuted) = after[N]
    BY DEF BlockingStatus
  <1>3. \A v \in Blockings, i \in 1 .. N : next(v, i) \in Blockings
    BY DEF BlockStep, Blockings
  <1>4. \E f : f = [n \in 0 .. N |-> IF n = 0 THEN "none" ELSE next(f[n - 1], n)]
    <2> DEFINE S == [i \in 1 .. N |-> [v \in Blockings |-> next(v, i)]]
    <2>1. S \in [1 .. N -> [Blockings -> Blockings]]
      BY <1>3
    <2> HIDE DEF next
    <2>2. PICK f \in [0 .. N -> Blockings] :
            f = [n \in 0 .. N |-> IF n = 0 THEN "none" ELSE S[n][f[n - 1]]]
      <3>1. "none" \in Blockings
        BY DEF Blockings
      <3> HIDE DEF N, S
      <3> QED
        BY ONLY <1>1, <2>1, <3>1, LoopExists
    <2>3. ASSUME NEW n \in 0 .. N, n # 0 PROVE S[n][f[n - 1]] = next(f[n - 1], n)
      <3>1. n \in 1 .. N /\ n - 1 \in 0 .. N
        BY <1>1, <2>3
      <3>2. f[n - 1] \in Blockings
        BY <2>2, <3>1
      <3> QED
        BY <3>1, <3>2
    <2>4. f = [n \in 0 .. N |-> IF n = 0 THEN "none" ELSE next(f[n - 1], n)]
      <3> HIDE DEF S
      <3> QED
        BY <2>2, <2>3
    <2> QED
      BY <2>4
  <1>5. after = [n \in 0 .. N |-> IF n = 0 THEN "none" ELSE next(after[n - 1], n)]
    BY <1>4
  <1> HIDE DEF after
  <1> DEFINE Reads(n) == /\ after[n] \in Blockings
                         /\ after[n] = "rejected" <=> \E i \in 1 .. n : rej(i)
                         /\ after[n] = "none" => \A i \in 1 .. n : ~rej(i) /\ ~chg(i)
             T == {n \in Nat : n =< N => Reads(n)}
  <1>6. 0 \in T
    BY <1>1, <1>5 DEF Blockings
  <1>7. ASSUME NEW n \in T PROVE n + 1 \in T
    <2>1. SUFFICES ASSUME n + 1 =< N PROVE Reads(n + 1)
      OBVIOUS
    <2>2. Reads(n) /\ n \in Nat
      BY <1>1, <2>1
    <2>3. after[n + 1] = next(after[n], n + 1)
      BY <1>1, <1>5, <2>1, <2>2
    <2>4. 1 .. n + 1 = (1 .. n) \cup {n + 1}
      BY <2>2
    <2>5. next(after[n], n + 1) =
            IF rej(n + 1) THEN "rejected"
            ELSE IF chg(n + 1) /\ after[n] \in {"none", "changes_requested"} THEN "changes_requested"
            ELSE after[n]
      BY DEF BlockStep
    <2> HIDE DEF rej, chg, next
    <2> QED
      BY <2>2, <2>3, <2>4, <2>5 DEF Blockings
  <1>8. T = Nat
    <2>1. T \in SUBSET Nat
      OBVIOUS
    <2> HIDE DEF T
    <2> QED
      BY <1>6, <1>7, <2>1, SetInduction
  <1>9. Reads(N)
    BY <1>1, <1>8
  <1> QED
    BY <1>1, <1>2, <1>9

----------------------------------------------------------------------------
(* The ballot.                                                                *)

(* Every row on the table carries its reviewer's group and is the reviewer's  *)
(* active one; the rule has passed the compiler.                              *)
BallotInv ==
  /\ rule \in Rules /\ RuleIsCoherent(rule)
  /\ \A p \in ballots : p.group = BallotGroup[p.reviewer] /\ ~p.superseded
  /\ \A v \in votes : v.group = BallotGroup[v.reviewer] /\ v.verdict \in {"uphold", "refute"}

(* Filing, voting and the passing of time keep it.                            *)
LEMMA BallotInvHolds == BallotSpec => []BallotInv
PROOF
  <1>1. BallotInit => BallotInv
    BY DEF BallotInit, BallotInv
  <1>2. BallotInv /\ [BallotNext]_ballotVars => BallotInv'
    <2>1. SUFFICES ASSUME BallotInv, [BallotNext]_ballotVars PROVE BallotInv'
      OBVIOUS
    <2>2. ASSUME NEW r \in Reviewers[rule], NEW d \in Verdicts, NEW cs \in SUBSET Changes,
                 FileProposal(r, d, cs)
          PROVE  BallotInv'
      BY <2>1, <2>2 DEF BallotInv, FileProposal
    <2>3. ASSUME NEW r \in DOMAIN BallotGroup, NEW c \in Changes, NEW v \in {"uphold", "refute"},
                 NEW q \in Prompts, NEW bound \in BOOLEAN, RecordRefuteVote(r, c, v, q, bound)
          PROVE  BallotInv'
      BY <2>1, <2>3 DEF BallotInv, RecordRefuteVote
    <2>4. CASE Elapse \/ UNCHANGED ballotVars
      BY <2>1, <2>4 DEF BallotInv, Elapse, ballotVars
    <2> QED
      BY <2>1, <2>2, <2>3, <2>4 DEF BallotNext
  <1> QED
    BY <1>1, <1>2, PTL DEF BallotSpec

(* Under a rule with requirements the verdict is what the requirements read.  *)
LEMMA ConsensusOutcome ==
  ASSUME NEW rl, NEW ps, NEW vs, NEW at, RuleIsCoherent(rl), rl.requirements # <<>>
  PROVE  LET fresh    == FilterStale(rl, ps, at)
             blocking == BlockingStatus(rl, fresh, RefutedTargets(rl, vs))
             outcome  == EvaluateConsensus(rl, ps, vs, "none", at)
         IN  /\ blocking # "none" => outcome.status = blocking
             /\ blocking = "none" =>
                  IF \A i \in DOMAIN rl.requirements : Satisfied(rl.requirements[i], fresh)
                  THEN outcome.status = "approved" ELSE outcome.status = "pending"
             /\ outcome.included = {p.id : p \in fresh}
PROOF
  <1>1. rl.mode # "latest-proposal"
    BY DEF RuleIsCoherent
  <1> QED
    BY <1>1 DEF EvaluateConsensus

(* A fresh row of a member of a requirement's electorate is counted for it.   *)
LEMMA ElectorateCounts ==
  ASSUME BallotInv, NEW i \in DOMAIN rule.requirements, NEW p \in ballots,
         p.reviewer \in Electorate(rule.requirements[i]), Fresh(p)
  PROVE  p \in InGroup(rule.requirements[i], FilterStale(rule, FrozenOnly(rule, ballots), now))
PROOF
  <1>1. p.group = rule.requirements[i].group /\ ~p.superseded
    BY DEF BallotInv, Electorate
  <1>2. p \in FrozenOnly(rule, ballots)
    <2>1. CASE FrozenReviewers(rule) = {}
      BY <2>1 DEF FrozenOnly
    <2>2. CASE FrozenReviewers(rule) # {}
      <3>1. rule.requirements[i].reviewerIds # {}
        BY <2>2 DEF BallotInv, RuleIsCoherent, FrozenReviewers
      <3>2. p.reviewer \in rule.requirements[i].reviewerIds
        BY <3>1 DEF Electorate
      <3> QED
        BY <2>2, <3>2 DEF FrozenReviewers, FrozenOnly
    <2> QED
      BY <2>1, <2>2
  <1>3. p \in FilterStale(rule, FrozenOnly(rule, ballots), now)
    BY <1>1, <1>2 DEF FilterStale, Fresh
  <1> QED
    BY <1>1, <1>3 DEF InGroup

(* The documented precedence: for any rule, any number of requirements in any *)
(* order, reviewers, votes and time, a fresh blocking rejection makes the     *)
(* verdict "rejected" (the loop of evaluateConsensus over the requirements).  *)
THEOREM RejectionsPrevail == BallotSpec => []RejectionPrevails
PROOF
  <1>1. BallotInv => RejectionPrevails
    <2>1. SUFFICES ASSUME BallotInv, NEW i \in DOMAIN rule.requirements, NEW p \in ballots,
                          p.reviewer \in Electorate(rule.requirements[i]), Fresh(p),
                          p.decision = "rejected", "rejected" \in rule.requirements[i].blocking
                   PROVE  Outcome.status = "rejected"
      BY DEF RejectionPrevails
    <2> DEFINE fresh == FilterStale(rule, FrozenOnly(rule, ballots), now)
               blocking == BlockingStatus(rule, fresh, RefutedTargets(rule, votes))
    <2>2. RuleIsCompiled(rule) /\ RuleIsCoherent(rule) /\ rule.requirements # <<>>
      BY <2>1, BallotAssumption DEF BallotInv
    <2>3. p \in InGroup(rule.requirements[i], fresh)
      BY <2>1, ElectorateCounts
    <2>4. BlockedByReject(rule.requirements[i], fresh)
      BY <2>1, <2>3 DEF BlockedByReject
    <2>5. blocking = "rejected"
      BY <2>1, <2>2, <2>4, BlockingStatusIs
    <2> QED
      BY <2>2, <2>5, ConsensusOutcome DEF Outcome
  <1> QED
    BY <1>1, BallotInvHolds, PTL

(* Refuters who each spoke once are as many as their votes.                   *)
LEMMA VotesAreVoters ==
  ASSUME NEW U, IsFiniteSet(U), NEW vs, \A v \in vs : v.reviewer \in U,
         \A v, w \in vs : v.reviewer = w.reviewer => v = w
  PROVE  Cardinality(vs) =< Cardinality({v.reviewer : v \in vs}) /\ Cardinality(vs) \in Nat
PROOF
  <1> DEFINE T == {v.reviewer : v \in vs}
             f == [v \in vs |-> v.reviewer]
  <1>1. IsFiniteSet(T)
    BY FS_Subset
  <1>2. f \in Injection(vs, T)
    BY DEF Injection, IsInjective
  <1> QED
    BY <1>1, <1>2, FS_Injection, FS_CardinalityType

(* A change evaluateConsensus takes for refuted is struck.                    *)
LEMMA RefutedIsStruck ==
  ASSUME BallotInv, RuleIsCompiled(rule), NEW c \in RefutedTargets(rule, votes)
  PROVE  Struck(c)
PROOF
  <1> DEFINE spoke(r) == {v \in votes : v.reviewer = r /\ v.target = c /\ v.valid}
             against == {r \in rule.refute.reviewerIds : \E v \in spoke(r) : v.verdict = "refute"}
             counted == Ballots(rule, votes, c)
             refusals == {v \in counted : v.verdict = "refute"}
  <1>1. /\ DuplicateReviewers(counted) = {}
        /\ 2 * Cardinality(refusals) > Cardinality(rule.refute.reviewerIds)
    BY DEF RefutedTargets, StrictMajorityMet
  <1>2. \A v, w \in counted : v.reviewer = w.reviewer => v = w
    BY <1>1 DEF DuplicateReviewers
  <1>3. ASSUME NEW r \in rule.refute.reviewerIds, BallotGroup[r] = rule.refute.group
        PROVE  Cardinality(spoke(r)) =< 1
    <2>1. spoke(r) \subseteq counted
      BY <1>3 DEF BallotInv, Ballots
    <2>2. \A v, w \in spoke(r) : v = w
      BY <1>2, <2>1
    <2>3. spoke(r) = {} \/ \E v \in spoke(r) : spoke(r) = {v}
      BY <2>2
    <2>4. ASSUME NEW V, V = {} \/ \E v \in V : V = {v} PROVE Cardinality(V) =< 1
      <3>1. CASE V = {}
        BY <3>1, FS_EmptySet
      <3>2. ASSUME NEW v \in V, V = {v} PROVE Cardinality(V) = 1
        BY <3>2, FS_Singleton
      <3> QED
        BY <2>4, <3>1, <3>2
    <2> QED
      BY <2>3, <2>4
  <1>4. 2 * Cardinality(against) > Cardinality(rule.refute.reviewerIds)
    <2> DEFINE speakers == {v.reviewer : v \in refusals}
    <2>1. IsFiniteSet(rule.refute.reviewerIds)
      BY DEF RuleIsCompiled
    <2>2. /\ \A v \in refusals : v.reviewer \in rule.refute.reviewerIds
          /\ \A v, w \in refusals : v.reviewer = w.reviewer => v = w
      BY <1>2 DEF Ballots
    <2>3. Cardinality(refusals) =< Cardinality(speakers) /\ Cardinality(refusals) \in Nat
      <3> HIDE DEF refusals
      <3> QED
        BY <2>1, <2>2, VotesAreVoters
    <2>4. speakers \subseteq against
      BY DEF Ballots
    <2>5. against \subseteq rule.refute.reviewerIds
      OBVIOUS
    <2> HIDE DEF speakers, against, refusals
    <2>6. IsFiniteSet(against) /\ Cardinality(against) \in Nat
      BY <2>1, <2>5, FS_Subset, FS_CardinalityType
    <2>7. Cardinality(speakers) =< Cardinality(against) /\ Cardinality(speakers) \in Nat
      BY <2>4, <2>6, FS_Subset, FS_CardinalityType
    <2>8. Cardinality(rule.refute.reviewerIds) \in Nat
      BY <2>1, FS_CardinalityType
    <2>9. 2 * Cardinality(refusals) > Cardinality(rule.refute.reviewerIds)
      BY <1>1 DEF refusals
    <2> QED
      BY <2>3, <2>6, <2>7, <2>8, <2>9
  <1> QED
    BY <1>3, <1>4 DEF Struck

(* For any rule, reviewers and votes: an approval leaves no fresh blocking    *)
(* verdict of any requirement's electorate standing, except requests for      *)
(* changes all of whose changes were struck (evaluateConsensus).              *)
THEOREM NoApprovalOverObjections == BallotSpec => []NoApprovalOverObjection
PROOF
  <1>1. BallotInv => NoApprovalOverObjection
    <2>1. SUFFICES ASSUME BallotInv, Outcome.status = "approved",
                          NEW i \in DOMAIN rule.requirements, NEW p \in ballots,
                          p.reviewer \in Electorate(rule.requirements[i]), Fresh(p),
                          p.decision \in rule.requirements[i].blocking
                   PROVE  p.decision = "changes_requested" /\ \A c \in p.changes : Struck(c)
      BY DEF NoApprovalOverObjection
    <2> DEFINE fresh == FilterStale(rule, FrozenOnly(rule, ballots), now)
               refuted == RefutedTargets(rule, votes)
               blocking == BlockingStatus(rule, fresh, refuted)
               req == rule.requirements[i]
    <2>2. RuleIsCompiled(rule) /\ RuleIsCoherent(rule) /\ rule.requirements # <<>>
      BY <2>1, BallotAssumption DEF BallotInv
    <2>3. blocking = "none"
      <3>1. blocking \in Blockings
        BY <2>2, BlockingStatusIs
      <3>2. blocking # "none" => Outcome.status = blocking
        BY <2>2, ConsensusOutcome DEF Outcome
      <3> HIDE DEF blocking
      <3> QED
        BY <2>1, <3>1, <3>2 DEF Blockings
    <2>4. ~BlockedByReject(req, fresh) /\ ~BlockedByChanges(req, fresh, refuted)
      BY <2>2, <2>3, BlockingStatusIs
    <2>5. p \in InGroup(req, fresh)
      BY <2>1, ElectorateCounts
    <2>6. p.decision \in {"changes_requested", "rejected"}
      BY <2>1, <2>2 DEF RuleIsCompiled
    <2>7. p.decision = "changes_requested"
      BY <2>1, <2>4, <2>5, <2>6 DEF BlockedByReject
    <2>8. p.changes \subseteq refuted
      BY <2>1, <2>4, <2>5, <2>7 DEF BlockedByChanges, ChangesRequestRefuted
    <2> QED
      BY <2>1, <2>2, <2>7, <2>8, RefutedIsStruck
  <1> QED
    BY <1>1, BallotInvHolds, PTL

----------------------------------------------------------------------------
(* The review commands.                                                       *)

IsTable(s) == Len(s) \in Nat /\ s = [i \in 1 .. Len(s) |-> s[i]]

RowFields == {"reviewer", "decision", "changes", "superseded", "processed", "lifecycle"}
RowOK(row) == /\ DOMAIN row = RowFields
              /\ row.decision \in Verdicts
              /\ row.superseded \in BOOLEAN /\ row.processed \in BOOLEAN

(* What no step does to a row that is there.                                  *)
RowKeeps(old, new) ==
  /\ new.reviewer = old.reviewer /\ new.decision = old.decision
  /\ Live(new) => Live(old)
  /\ Live(new) /\ new.lifecycle # "archived" => old.lifecycle # "archived"

RowsKeep(rows, new) ==
  /\ Len(rows) =< Len(new)
  /\ \A i \in 1 .. Len(rows) : RowKeeps(rows[i], new[i])

(* A reviewer holds at most one proposal that was not superseded.             *)
OneHeld ==
  \A i, j \in Ids : /\ proposals[i].reviewer = proposals[j].reviewer
                    /\ ~proposals[i].superseded /\ ~proposals[j].superseded
                    => i = j

(* What a process knows between two of its steps: the verdict it is about to  *)
(* promote is that of the row it picked, or one that a person wrote, into the *)
(* sidecar or as an override.                                                 *)
ProcFields == {"pc", "reviewer", "overwrite", "todo", "ask", "failed", "pick", "bound", "verdict", "cid"}

Fits(c, s, via, rows) ==
  /\ DOMAIN c = ProcFields
  /\ c.pc \in {"import", "gate", "apply", "override"} => c.verdict \in Verdicts
  /\ c.pc = "import" => c.pick = 0 /\ c.verdict \in s.hand
  /\ c.pc \in {"gate", "apply"} =>
       /\ c.pick \in 0 .. Len(rows)
       /\ c.pick # 0 => rows[c.pick].decision = c.verdict
       /\ c.pick = 0 => c.verdict \in s.hand
  /\ c.pc = "override" => c.verdict \in s.overrides
  /\ c.pc = "record" => via \in {"proposal", "file"}

TableInv == IsTable(proposals) /\ (\A i \in Ids : RowOK(proposals[i])) /\ OneHeld
SourceInv == VerdictHasItsSource /\ (decision.via = "none" => decision.ids = {})
DecidingInv == /\ IsTable(consensus)
               /\ decision.via = "consensus" => decision.cid \in DOMAIN consensus
               /\ DecidingRowStands
ProcsInv == /\ DOMAIN proc = Procs
            /\ \A p \in Procs : Fits(proc[p], setting, decision.via, proposals)

GovInv ==
  /\ setting \in Settings
  /\ sidecar \in {"none"} \cup setting.hand
  /\ TableInv /\ SourceInv /\ DecidingInv /\ ProcsInv

WorldInv == setting \in Settings /\ TableInv /\ SourceInv /\ DecidingInv

(* Appending to a table, and rewriting its rows in place.                     *)
LEMMA Appended ==
  ASSUME NEW s, IsTable(s), NEW x
  PROVE  /\ IsTable(Append(s, x))
         /\ Len(Append(s, x)) = Len(s) + 1
         /\ DOMAIN s = 1 .. Len(s) /\ DOMAIN Append(s, x) = 1 .. Len(s) + 1
         /\ \A i \in 1 .. Len(s) : Append(s, x)[i] = s[i]
         /\ Append(s, x)[Len(s) + 1] = x
PROOF
  <1> DEFINE n == Len(s)
             R == {s[i] : i \in 1 .. n} \cup {x}
  <1>1. n \in Nat /\ s = [i \in 1 .. n |-> s[i]]
    BY DEF IsTable
  <1>2. s \in Seq(R)
    <2> HIDE DEF n
    <2>1. \A i \in 1 .. n : s[i] \in R
      OBVIOUS
    <2> HIDE DEF R
    <2> QED
      BY <1>1, <2>1
  <1>3. x \in R
    OBVIOUS
  <1> HIDE DEF R
  <1>4. /\ Append(s, x) \in Seq(R) /\ Len(Append(s, x)) = n + 1
        /\ \A i \in 1 .. n : Append(s, x)[i] = s[i]
        /\ Append(s, x)[n + 1] = x
    BY <1>2, <1>3, AppendProperties
  <1>5. Append(s, x) \in [1 .. n + 1 -> R]
    <2> HIDE DEF n
    <2> QED
      BY <1>1, <1>4, LenProperties
  <1>6. IsTable(Append(s, x))
    <2> DEFINE a == Append(s, x)
    <2>1. a \in [1 .. n + 1 -> R] /\ Len(a) = n + 1 /\ n + 1 \in Nat
      BY <1>1, <1>4, <1>5
    <2> HIDE DEF a, n
    <2>2. a = [i \in 1 .. Len(a) |-> a[i]] /\ Len(a) \in Nat
      BY <2>1
    <2>3. IsTable(a)
      BY <2>2 DEF IsTable
    <2> QED
      BY <2>3 DEF a
  <1>7. DOMAIN s = 1 .. n /\ DOMAIN Append(s, x) = 1 .. n + 1
    <2> HIDE DEF n
    <2> QED
      BY <1>1, <1>5
  <1> QED
    BY <1>4, <1>6, <1>7

LEMMA Retabled ==
  ASSUME NEW n \in Nat, NEW f, f = [i \in 1 .. n |-> f[i]]
  PROVE  IsTable(f) /\ Len(f) = n
PROOF
  <1> DEFINE R == {f[i] : i \in 1 .. n}
  <1>1. \A i \in 1 .. n : f[i] \in R
    OBVIOUS
  <1> HIDE DEF R
  <1>2. f \in Seq(R) /\ Len(f) = n
    BY <1>1
  <1> QED
    BY <1>2 DEF IsTable

LEMMA SameRows ==
  ASSUME TableInv
  PROVE  RowsKeep(proposals, proposals)
PROOF
  BY DEF TableInv, IsTable, RowsKeep, RowKeeps, Live

(* The steps of the database, as far as rows and decisions are concerned.     *)
Quiet == UNCHANGED <<setting, status, decision, proposals, consensus>>

Notes == /\ UNCHANGED <<setting, status, decision, proposals>>
         /\ \E result, by : /\ InsertConsensus(result, by)
                            /\ decision.via = "consensus" => by \in {"hitch.review.pending", "override"}

Files == /\ UNCHANGED <<setting, status, decision, consensus>>
         /\ status = "needs_review"
         /\ \E r, cs : \E d \in Verdicts : InsertProposal(r, d, cs)

Settles == /\ UNCHANGED <<setting, status, decision, consensus>>
           /\ Len(proposals') = Len(proposals) /\ IsTable(proposals')
           /\ \A i \in Ids : /\ RowOK(proposals'[i]) /\ RowKeeps(proposals[i], proposals'[i])
                             /\ proposals'[i].processed = proposals[i].processed
                             /\ proposals[i].superseded => proposals'[i].superseded
                             /\ proposals[i].processed => proposals'[i].superseded = proposals[i].superseded

Falls == /\ UNCHANGED <<setting, decision, proposals, consensus>>
         /\ status = "needs_review" /\ status' = "failed-internal-error"

(* A verdict without a row is a person's.                                     *)
ByHand(d, ids, via) == /\ via = "file" => ids = {} /\ d \in setting.hand
                       /\ via = "override" => ids = {} /\ d \in setting.overrides

Decides(ids, via) ==
  /\ UNCHANGED setting
  /\ DecisionAccepted(ids) /\ ids \subseteq Ids
  /\ \E d \in Verdicts : \E cid :
       /\ ApplyReviewDecision(d, ids, via, cid)
       /\ via = "proposal" => \E i \in Ids : ids = {i} /\ proposals[i].decision = d
       /\ ByHand(d, ids, via)
       /\ IF via = "consensus"
          THEN LET result == Evaluate("none", ActiveRows)
               IN  /\ cid = Len(consensus) + 1 /\ Rule.mode = "consensus"
                   /\ d = result.status /\ ids = result.included
                   /\ InsertConsensus(result, "consensus")
          ELSE UNCHANGED consensus

WorldStep == \/ Quiet \/ Notes \/ Files \/ Settles \/ Falls
             \/ \E ids : \E via \in {"proposal", "file", "consensus", "override"} : Decides(ids, via)

(* Every such step leaves the rows what they are, and no step takes a         *)
(* decision back.                                                             *)
Onward == /\ RowsKeep(proposals, proposals')
          /\ UNCHANGED setting
          /\ decision.via \in {"proposal", "file"} => decision'.via \in {"proposal", "file"}

(* A new proposal supersedes its reviewer's earlier one; nobody has decided.  *)
LEMMA FilesKeeps ==
  ASSUME WorldInv, Files
  PROVE  WorldInv' /\ Onward
PROOF
  <1>0. PICK r, cs : \E d \in Verdicts : InsertProposal(r, d, cs)
    BY DEF Files
  <1>1. PICK d \in Verdicts : InsertProposal(r, d, cs)
    BY <1>0
  <1> DEFINE n == Len(proposals)
             kept == Supersede(proposals, Held(r))
             row == [reviewer |-> r, decision |-> d, changes |-> cs,
                     superseded |-> FALSE, processed |-> FALSE, lifecycle |-> "active"]
  <1>2. n \in Nat /\ DOMAIN proposals = 1 .. n
    BY DEF WorldInv, TableInv, IsTable
  <1>3. kept = [i \in 1 .. n |-> kept[i]]
    BY <1>2 DEF Supersede
  <1>4. IsTable(kept) /\ Len(kept) = n
    <2> HIDE DEF kept, n
    <2> QED
      BY <1>2, <1>3, Retabled
  <1>5. proposals' = Append(kept, row)
    BY <1>1 DEF InsertProposal
  <1>6. /\ IsTable(proposals') /\ Len(proposals') = n + 1
        /\ \A i \in 1 .. n : proposals'[i] = kept[i]
        /\ proposals'[n + 1] = row
    <2> HIDE DEF kept, n, row
    <2> QED
      BY <1>4, <1>5, Appended
  <1>7. ASSUME NEW i \in 1 .. n
        PROVE  /\ RowOK(kept[i]) /\ RowKeeps(proposals[i], kept[i])
               /\ kept[i].superseded = (proposals[i].superseded \/ i \in Held(r))
               /\ kept[i].processed = proposals[i].processed
    <2>1. RowOK(proposals[i])
      BY DEF WorldInv, TableInv, Ids
    <2>2. kept[i] = IF i \in Held(r) THEN [proposals[i] EXCEPT !.superseded = TRUE, !.lifecycle = "superseded"]
                    ELSE proposals[i]
      BY <1>2 DEF Supersede
    <2> HIDE DEF kept
    <2>3. CASE i \in Held(r)
      BY <2>1, <2>2, <2>3 DEF RowOK, RowFields, RowKeeps, Live
    <2>4. CASE i \notin Held(r)
      BY <2>1, <2>2, <2>4 DEF RowOK, RowFields, RowKeeps, Live
    <2> QED
      BY <2>3, <2>4
  <1>8. Ids' = (1 .. n) \cup {n + 1} /\ Ids = 1 .. n
    BY <1>2, <1>6 DEF Ids
  <1>9. RowOK(row)
    BY DEF RowOK, RowFields
  <1>10. Onward
    BY <1>2, <1>6, <1>7 DEF Onward, RowsKeep, Files
  <1>11. TableInv'
    <2>1. \A i \in Ids' : RowOK(proposals'[i])
      BY <1>6, <1>7, <1>8, <1>9
    <2>2. \A i \in 1 .. n : proposals'[i].reviewer = r => proposals'[i].superseded
      <3>1. SUFFICES ASSUME NEW i \in 1 .. n, proposals'[i].reviewer = r PROVE proposals'[i].superseded
        OBVIOUS
      <3>2. proposals[i].reviewer = r
        BY <1>6, <1>7, <3>1 DEF RowKeeps
      <3>3. proposals[i].superseded \/ i \in Held(r)
        BY <1>8, <3>2 DEF Held, WorldInv, TableInv, RowOK
      <3> QED
        BY <1>6, <1>7, <3>3
    <2>3. \A i, j \in 1 .. n : /\ proposals'[i].reviewer = proposals'[j].reviewer
                              /\ ~proposals'[i].superseded /\ ~proposals'[j].superseded => i = j
      <3> HIDE DEF kept
      <3>1. \A i \in 1 .. n : proposals'[i].reviewer = proposals[i].reviewer
        BY <1>6, <1>7 DEF RowKeeps
      <3>2. \A i \in 1 .. n : ~proposals'[i].superseded => ~proposals[i].superseded
        BY <1>6, <1>7
      <3>3. OneHeld
        BY DEF WorldInv, TableInv
      <3> QED
        BY <1>8, <3>1, <3>2, <3>3 DEF OneHeld
    <2>4. OneHeld'
      <3>1. proposals'[n + 1].reviewer = r
        BY <1>6
      <3> HIDE DEF kept, row, n
      <3> QED
        BY <1>8, <2>2, <2>3, <3>1 DEF OneHeld
    <2> QED
      BY <1>6, <2>1, <2>4 DEF TableInv
  <1>12. SourceInv'
    <2>1. decision.via = "none" /\ decision.ids = {} /\ \A i \in Ids : ~proposals[i].processed
      BY DEF WorldInv, SourceInv, VerdictHasItsSource, Files
    <2>2. \A i \in Ids' : ~proposals'[i].processed
      BY <1>6, <1>7, <1>8, <2>1
    <2> QED
      BY <2>1, <2>2 DEF SourceInv, VerdictHasItsSource, Files
  <1>13. DecidingInv'
    BY DEF WorldInv, DecidingInv, DecidingRowStands, Files
  <1> QED
    BY <1>10, <1>11, <1>12, <1>13 DEF WorldInv, Files

LEMMA SettlesKeeps ==
  ASSUME WorldInv, Settles
  PROVE  WorldInv' /\ Onward
PROOF
  <1>1. Ids' = Ids /\ Len(proposals) \in Nat
    BY DEF Settles, Ids, WorldInv, TableInv, IsTable
  <1>2. \A i \in Ids : /\ RowOK(proposals[i]) /\ RowOK(proposals'[i])
                       /\ RowKeeps(proposals[i], proposals'[i])
                       /\ proposals'[i].processed = proposals[i].processed
                       /\ proposals[i].superseded => proposals'[i].superseded
                       /\ proposals[i].processed => proposals'[i].superseded = proposals[i].superseded
    BY DEF Settles, WorldInv, TableInv
  <1>3. UNCHANGED <<setting, status, decision, consensus>>
    BY DEF Settles
  <1>4. Onward
    BY <1>1, <1>2, <1>3 DEF Onward, RowsKeep, Settles, Ids
  <1>5. TableInv'
    <2>1. OneHeld
      BY DEF WorldInv, TableInv
    <2>2. OneHeld'
      BY ONLY <1>1, <1>2, <2>1 DEF OneHeld, RowKeeps, RowOK
    <2> QED
      BY <1>1, <1>2, <2>2 DEF TableInv, Settles
  <1>6. SourceInv'
    <2>1. SourceInv
      BY DEF WorldInv
    <2>2. {i \in Ids' : proposals'[i].processed} = {i \in Ids : proposals[i].processed}
      BY <1>1, <1>2
    <2>3. \A i \in decision'.ids : ~proposals'[i].superseded
      BY <1>2, <1>3, <2>1 DEF SourceInv, VerdictHasItsSource
    <2>4. \A i \in decision.ids : i \in Ids /\ proposals'[i].decision = proposals[i].decision
      BY <1>2, <2>1 DEF SourceInv, VerdictHasItsSource, RowKeeps
    <2> QED
      BY <1>3, <2>1, <2>2, <2>3, <2>4 DEF SourceInv, VerdictHasItsSource
  <1>7. DecidingInv'
    BY <1>3 DEF WorldInv, DecidingInv, DecidingRowStands
  <1> QED
    BY <1>3, <1>4, <1>5, <1>6, <1>7 DEF WorldInv

LEMMA NotesKeeps ==
  ASSUME WorldInv, Notes
  PROVE  WorldInv' /\ Onward
PROOF
  <1>1. PICK result, by : /\ InsertConsensus(result, by)
                          /\ decision.via = "consensus" => by \in {"hitch.review.pending", "override"}
    BY DEF Notes
  <1> DEFINE row == [status |-> result.status, path |-> result.path, by |-> by]
  <1>2. consensus' = Append(consensus, row) /\ row.by = by
    BY <1>1 DEF InsertConsensus
  <1> HIDE DEF row
  <1>3. IsTable(consensus)
    BY DEF WorldInv, DecidingInv
  <1>4. /\ IsTable(consensus') /\ Len(consensus') = Len(consensus) + 1
        /\ DOMAIN consensus = 1 .. Len(consensus) /\ DOMAIN consensus' = 1 .. Len(consensus) + 1
        /\ \A i \in 1 .. Len(consensus) : consensus'[i] = consensus[i]
        /\ consensus'[Len(consensus) + 1] = row
    BY <1>2, <1>3, Appended
  <1>5. UNCHANGED <<setting, status, decision, proposals>>
    BY DEF Notes
  <1>6. DecidingInv'
    <2>1. SUFFICES ASSUME decision.via = "consensus"
                   PROVE  decision.cid \in DOMAIN consensus' /\ DecidingRowStands'
      BY <1>4, <1>5 DEF DecidingInv, DecidingRowStands
    <2>2. /\ decision.cid \in 1 .. Len(consensus) /\ Len(consensus) \in Nat
          /\ consensus[decision.cid].by = "consensus" /\ consensus[decision.cid].status = status
          /\ \A k \in decision.cid + 1 .. Len(consensus) :
               consensus[k].by \in {"hitch.review.pending", "override"}
      BY <1>3, <1>4, <2>1 DEF WorldInv, DecidingInv, DecidingRowStands, IsTable
    <2>3. \A k \in decision.cid + 1 .. Len(consensus') :
            consensus'[k].by \in {"hitch.review.pending", "override"}
      <3>1. SUFFICES ASSUME NEW k \in decision.cid + 1 .. Len(consensus')
                     PROVE  consensus'[k].by \in {"hitch.review.pending", "override"}
        OBVIOUS
      <3>2. CASE k = Len(consensus) + 1
        BY <1>1, <1>2, <1>4, <2>1, <3>2
      <3>3. CASE k # Len(consensus) + 1
        BY <1>4, <2>2, <3>3
      <3> QED
        BY <3>2, <3>3
    <2> QED
      BY <1>4, <1>5, <2>2, <2>3 DEF DecidingRowStands
  <1>7. TableInv' /\ SourceInv' /\ Onward
    <2>1. TableInv /\ SourceInv
      BY DEF WorldInv
    <2>2. RowsKeep(proposals, proposals)
      BY <2>1, SameRows
    <2> QED
      BY <1>5, <2>1, <2>2 DEF TableInv, SourceInv, VerdictHasItsSource, OneHeld, Ids, Onward
  <1> QED
    BY <1>5, <1>6, <1>7 DEF WorldInv

(* The one transaction that decides.                                          *)
LEMMA DecidesKeeps ==
  ASSUME WorldInv, NEW ids, NEW via \in {"proposal", "file", "consensus", "override"}, Decides(ids, via)
  PROVE  WorldInv' /\ Onward
PROOF
  <1>0. PICK d \in Verdicts : \E cid :
          /\ ApplyReviewDecision(d, ids, via, cid)
          /\ via = "proposal" => \E i \in Ids : ids = {i} /\ proposals[i].decision = d
          /\ ByHand(d, ids, via)
          /\ IF via = "consensus"
             THEN /\ cid = Len(consensus) + 1
                  /\ \E result : result.status = d /\ InsertConsensus(result, "consensus")
             ELSE UNCHANGED consensus
    BY DEF Decides
  <1>1. PICK cid :
          /\ ApplyReviewDecision(d, ids, via, cid)
          /\ via = "proposal" => \E i \in Ids : ids = {i} /\ proposals[i].decision = d
          /\ ByHand(d, ids, via)
          /\ IF via = "consensus"
             THEN /\ cid = Len(consensus) + 1
                  /\ \E result : result.status = d /\ InsertConsensus(result, "consensus")
             ELSE UNCHANGED consensus
    BY <1>0
  <1>2. /\ status = "needs_review" /\ ids \subseteq Ids /\ setting' = setting
        /\ \A i \in ids : Live(proposals[i])
    BY DEF Decides, DecisionAccepted
  <1>3. /\ status' = d /\ decision' = [via |-> via, cid |-> cid, ids |-> ids]
        /\ proposals' = MarkProcessed(ids)
    BY <1>1 DEF ApplyReviewDecision
  <1>4. decision'.via = via /\ decision'.cid = cid /\ decision'.ids = ids
    BY <1>3
  <1>5. d \notin {"needs_review", "failed-internal-error"}
    BY DEF Verdicts
  <1>6. decision.via = "none" /\ \A i \in Ids : ~proposals[i].processed
    BY <1>2 DEF WorldInv, SourceInv, VerdictHasItsSource
  <1> DEFINE n == Len(proposals)
  <1>7. n \in Nat /\ DOMAIN proposals = 1 .. n /\ Ids = 1 .. n
    BY DEF WorldInv, TableInv, IsTable, Ids
  <1>8. IsTable(proposals') /\ Len(proposals') = n /\ Ids' = Ids
    <2>1. proposals' = [i \in 1 .. n |-> proposals'[i]]
      BY <1>3, <1>7 DEF MarkProcessed
    <2> HIDE DEF n
    <2>2. IsTable(proposals') /\ Len(proposals') = n
      BY <1>7, <2>1, Retabled
    <2> QED
      BY <1>7, <2>2 DEF Ids
  <1>9. ASSUME NEW i \in Ids
        PROVE  /\ RowOK(proposals'[i]) /\ RowKeeps(proposals[i], proposals'[i])
               /\ proposals'[i].processed = (i \in ids)
               /\ proposals'[i].superseded = proposals[i].superseded
    <2>1. RowOK(proposals[i])
      BY DEF WorldInv, TableInv
    <2>2. proposals'[i] = IF i \in ids THEN [proposals[i] EXCEPT !.processed = TRUE, !.lifecycle = "processed"]
                          ELSE proposals[i]
      BY <1>3, <1>7 DEF MarkProcessed
    <2>3. CASE i \in ids
      BY <2>1, <2>2, <2>3 DEF RowOK, RowFields, RowKeeps, Live
    <2>4. CASE i \notin ids
      BY <1>6, <2>1, <2>2, <2>4 DEF RowOK, RowKeeps, Live
    <2> QED
      BY <2>3, <2>4
  <1>10. Onward
    BY <1>2, <1>3, <1>5, <1>6, <1>7, <1>8, <1>9 DEF Onward, RowsKeep
  <1>11. TableInv'
    <2>1. OneHeld
      BY DEF WorldInv, TableInv
    <2>2. OneHeld'
      BY ONLY <1>8, <1>9, <2>1 DEF OneHeld, RowKeeps
    <2> QED
      BY <1>8, <1>9, <2>2 DEF TableInv
  <1>12. SourceInv'
    <2>1. {i \in Ids' : proposals'[i].processed} = ids
      BY <1>2, <1>8, <1>9
    <2>2. \A i \in ids : ~proposals'[i].superseded
      BY <1>2, <1>9 DEF Live
    <2>3. via = "proposal" => \E i \in ids : ids = {i} /\ proposals'[i].decision = d
      BY <1>1, <1>2, <1>9 DEF RowKeeps
    <2> QED
      BY <1>1, <1>2, <1>3, <1>4, <1>5, <2>1, <2>2, <2>3 DEF SourceInv, VerdictHasItsSource, ByHand
  <1>13. DecidingInv'
    <2>1. IsTable(consensus)
      BY DEF WorldInv, DecidingInv
    <2>2. CASE via = "consensus"
      <3>1. PICK result : result.status = d /\ InsertConsensus(result, "consensus")
        BY <1>1, <2>2
      <3> DEFINE row == [status |-> result.status, path |-> result.path, by |-> "consensus"]
      <3>2. consensus' = Append(consensus, row) /\ row.by = "consensus" /\ row.status = d
        BY <3>1 DEF InsertConsensus
      <3> HIDE DEF row
      <3>3. /\ IsTable(consensus') /\ Len(consensus') = Len(consensus) + 1
            /\ DOMAIN consensus' = 1 .. Len(consensus) + 1
            /\ consensus'[Len(consensus) + 1] = row
        BY <2>1, <3>2, Appended
      <3>4. cid = Len(consensus) + 1
        BY <1>1, <2>2
      <3> QED
        BY <1>3, <1>4, <3>2, <3>3, <3>4 DEF DecidingInv, DecidingRowStands
    <2>3. CASE via # "consensus"
      BY <1>1, <1>4, <2>1, <2>3 DEF DecidingInv, DecidingRowStands
    <2> QED
      BY <2>2, <2>3
  <1> QED
    BY <1>2, <1>10, <1>11, <1>12, <1>13 DEF WorldInv

LEMMA WorldKeeps ==
  ASSUME WorldInv, WorldStep
  PROVE  WorldInv' /\ Onward
PROOF
  <1>1. RowsKeep(proposals, proposals)
    BY SameRows DEF WorldInv
  <1>2. CASE Quiet
    <2>1. WorldInv'
      BY <1>2 DEF Quiet, WorldInv, TableInv, SourceInv, DecidingInv, OneHeld, Ids,
         VerdictHasItsSource, DecidingRowStands
    <2> QED
      BY <1>1, <1>2, <2>1 DEF Quiet, Onward
  <1>3. CASE Falls
    <2>1. WorldInv'
      BY <1>3 DEF Falls, WorldInv, TableInv, SourceInv, DecidingInv, OneHeld, Ids,
         VerdictHasItsSource, DecidingRowStands
    <2> QED
      BY <1>1, <1>3, <2>1 DEF Falls, Onward
  <1> QED
    BY <1>2, <1>3, FilesKeeps, SettlesKeeps, NotesKeeps, DecidesKeeps DEF WorldStep

(* One process moves and the others keep what they know.                      *)
LEMMA FitsOn ==
  ASSUME NEW c, NEW s, NEW via, NEW via2, NEW rows, NEW rows2,
         Fits(c, s, via, rows), RowsKeep(rows, rows2), Len(rows) \in Nat, Len(rows2) \in Nat,
         via \in {"proposal", "file"} => via2 \in {"proposal", "file"}
  PROVE  Fits(c, s, via2, rows2)
PROOF
  <1>1. CASE c.pc \in {"gate", "apply"}
    BY <1>1 DEF Fits, RowsKeep, RowKeeps
  <1>2. CASE c.pc \notin {"gate", "apply"}
    BY <1>2 DEF Fits
  <1> QED
    BY <1>1, <1>2

(* A process in none of the places where it holds a verdict knows nothing.    *)
LEMMA NothingHeld ==
  ASSUME NEW c, NEW s, NEW via, NEW rows, DOMAIN c = ProcFields,
         c.pc \notin {"import", "gate", "apply", "override", "record"}
  PROVE  Fits(c, s, via, rows)
PROOF
  BY DEF Fits

(* The invariant holds on, and what happened is one of the steps above.       *)
Kept == GovInv' /\ WorldStep

LEMMA ProcMoves ==
  ASSUME GovInv, WorldStep, sidecar' \in {"none"} \cup setting.hand,
         NEW p \in Procs, NEW c, proc' = [proc EXCEPT ![p] = c],
         Fits(c, setting, decision'.via, proposals')
  PROVE  Kept
PROOF
  <1>1. WorldInv' /\ Onward
    BY WorldKeeps DEF GovInv, WorldInv
  <1>2. Len(proposals) \in Nat /\ Len(proposals') \in Nat
    BY <1>1 DEF GovInv, WorldInv, TableInv, IsTable
  <1>3. DOMAIN proc = Procs /\ \A q \in Procs : Fits(proc[q], setting, decision.via, proposals)
    BY DEF GovInv, ProcsInv
  <1>4. \A q \in Procs : q # p => Fits(proc[q], setting, decision'.via, proposals')
    BY <1>1, <1>2, <1>3, FitsOn DEF Onward
  <1>5. DOMAIN proc' = Procs /\ proc'[p] = c /\ \A q \in Procs : q # p => proc'[q] = proc[q]
    BY <1>3
  <1>6. ProcsInv'
    BY <1>1, <1>4, <1>5 DEF ProcsInv, Onward
  <1> QED
    BY <1>1, <1>6 DEF GovInv, WorldInv, Kept, Onward

LEMMA NobodyMoves ==
  ASSUME GovInv, WorldStep, sidecar' \in {"none"} \cup setting.hand, UNCHANGED proc
  PROVE  Kept
PROOF
  <1>1. WorldInv' /\ Onward
    BY WorldKeeps DEF GovInv, WorldInv
  <1>2. Len(proposals) \in Nat /\ Len(proposals') \in Nat
    BY <1>1 DEF GovInv, WorldInv, TableInv, IsTable
  <1>3. DOMAIN proc = Procs /\ \A q \in Procs : Fits(proc[q], setting, decision.via, proposals)
    BY DEF GovInv, ProcsInv
  <1>4. \A q \in Procs : Fits(proc[q], setting, decision'.via, proposals')
    BY <1>1, <1>2, <1>3, FitsOn DEF Onward
  <1>5. ProcsInv'
    BY <1>1, <1>3, <1>4 DEF ProcsInv, Onward
  <1> QED
    BY <1>1, <1>5 DEF GovInv, WorldInv, Kept, Onward

LEMMA EndFits ==
  ASSUME NEW s, NEW via, NEW rows
  PROVE  Fits([IdleProc EXCEPT !.pc = "done"], s, via, rows)
PROOF
  BY DEF Fits, IdleProc, ProcFields

LEMMA Ends ==
  ASSUME GovInv, WorldStep, sidecar' \in {"none"} \cup setting.hand, NEW p \in Procs, EndWith(p)
  PROVE  Kept
PROOF
  <1>1. proc' = [proc EXCEPT ![p] = [IdleProc EXCEPT !.pc = "done"]]
    BY DEF EndWith
  <1> QED
    BY <1>1, EndFits, ProcMoves

(* A process that goes where no verdict is held.                              *)
LEMMA GoesFree ==
  ASSUME GovInv, WorldStep, sidecar' \in {"none"} \cup setting.hand, NEW p \in Procs, NEW to,
         to \notin {"import", "gate", "apply", "override", "record"}, Goto(p, to)
  PROVE  Kept
PROOF
  <1> DEFINE c == [proc[p] EXCEPT !.pc = to]
  <1>1. DOMAIN proc[p] = ProcFields /\ proc' = [proc EXCEPT ![p] = c]
    BY DEF GovInv, ProcsInv, Fits, Goto
  <1>2. DOMAIN c = ProcFields /\ c.pc = to
    BY <1>1 DEF ProcFields
  <1> HIDE DEF c
  <1>3. Fits(c, setting, decision'.via, proposals')
    BY <1>2, NothingHeld
  <1> QED
    BY <1>1, <1>3, ProcMoves

(* The steps that leave the database alone and hold no verdict.               *)
LEMMA AutoStartKeeps ==
  ASSUME GovInv, NEW p \in Procs, NEW r, NEW o, AutoStart(p, r, o)
  PROVE  Kept
PROOF
  <1> DEFINE c == [proc[p] EXCEPT !.pc = "codex", !.reviewer = r, !.overwrite = o]
  <1>1. DOMAIN proc[p] = ProcFields /\ proc' = [proc EXCEPT ![p] = c]
    BY DEF GovInv, ProcsInv, Fits, AutoStart
  <1>2. DOMAIN c = ProcFields /\ c.pc = "codex"
    BY <1>1 DEF ProcFields
  <1>3. WorldStep /\ sidecar' = "none"
    BY DEF WorldStep, Quiet, AutoStart
  <1> HIDE DEF c
  <1> QED
    BY <1>1, <1>2, <1>3, NothingHeld, ProcMoves

LEMMA AutoFailKeeps ==
  ASSUME GovInv, NEW p \in Procs, AutoFail(p)
  PROVE  Kept
PROOF
  <1> DEFINE c == [proc[p] EXCEPT !.pc = AfterAuto(p), !.failed = @ \cup {proc[p].reviewer}]
  <1>1. DOMAIN proc[p] = ProcFields /\ proc' = [proc EXCEPT ![p] = c]
    BY DEF GovInv, ProcsInv, Fits, AutoFail
  <1>2. DOMAIN c = ProcFields /\ c.pc \in {"dispatch", "done"}
    BY <1>1 DEF ProcFields, AfterAuto
  <1>3. WorldStep /\ sidecar' = sidecar
    BY DEF WorldStep, Quiet, AutoFail
  <1>4. sidecar \in {"none"} \cup setting.hand
    BY DEF GovInv
  <1> HIDE DEF c
  <1> QED
    BY <1>1, <1>2, <1>3, <1>4, NothingHeld, ProcMoves

LEMMA AutoInsertKeeps ==
  ASSUME GovInv, NEW p \in Procs, NEW d \in Verdicts, NEW cs, AutoInsert(p, d, cs)
  PROVE  Kept
PROOF
  <1>1. sidecar' \in {"none"} \cup setting.hand
    BY DEF GovInv, AutoInsert
  <1>2. CASE ProposalAccepted(proc[p].reviewer, proc[p].overwrite)
    <2>1. Files
      BY <1>2 DEF AutoInsert, Files, ProposalAccepted
    <2>2. Goto(p, "reeval")
      BY <1>2 DEF AutoInsert
    <2> QED
      BY <1>1, <2>1, <2>2, GoesFree DEF WorldStep
  <1>3. CASE ~ProposalAccepted(proc[p].reviewer, proc[p].overwrite)
    <2>1. Quiet /\ EndWith(p)
      BY <1>3 DEF AutoInsert, Quiet
    <2> QED
      BY <1>1, <2>1, Ends DEF WorldStep
  <1> QED
    BY <1>2, <1>3

LEMMA RecordConsensusReEvaluationKeeps ==
  ASSUME GovInv, NEW p \in Procs, RecordConsensusReEvaluation(p)
  PROVE  Kept
PROOF
  <1>1. sidecar' = "none" /\ Goto(p, AfterAuto(p)) /\ AfterAuto(p) \in {"dispatch", "done"}
    BY DEF RecordConsensusReEvaluation, AfterAuto
  <1>2. UNCHANGED <<setting, status, decision, proposals>>
    BY DEF RecordConsensusReEvaluation
  <1>3. WorldStep
    <2>1. CASE ReEvaluates /\ InsertConsensus(Evaluate("none", ActiveRows), "review-auto")
      <3>1. decision.via # "consensus"
        BY <2>1 DEF ReEvaluates, GovInv, SourceInv, VerdictHasItsSource
      <3> QED
        BY <1>2, <2>1, <3>1 DEF WorldStep, Notes
    <2>2. CASE UNCHANGED consensus
      BY <1>2, <2>2 DEF WorldStep, Quiet
    <2> QED
      BY <2>1, <2>2 DEF RecordConsensusReEvaluation
  <1> QED
    BY <1>1, <1>3, GoesFree

LEMMA ProcessStartKeeps ==
  ASSUME GovInv, NEW p \in Procs, NEW b, ProcessStart(p, b)
  PROVE  Kept
PROOF
  <1> DEFINE c == [proc[p] EXCEPT !.pc = "process", !.bound = b]
  <1>1. DOMAIN proc[p] = ProcFields /\ proc' = [proc EXCEPT ![p] = c]
    BY DEF GovInv, ProcsInv, Fits, ProcessStart
  <1>2. DOMAIN c = ProcFields /\ c.pc = "process"
    BY <1>1 DEF ProcFields
  <1>3. WorldStep /\ sidecar' \in {"none"} \cup setting.hand
    BY DEF WorldStep, Quiet, ProcessStart, GovInv
  <1> HIDE DEF c
  <1> QED
    BY <1>1, <1>2, <1>3, NothingHeld, ProcMoves

LEMMA CheckProcessedKeeps ==
  ASSUME GovInv, NEW p \in Procs, CheckProcessed(p)
  PROVE  Kept
PROOF
  <1>1. WorldStep /\ sidecar' \in {"none"} \cup setting.hand
    BY DEF WorldStep, Quiet, CheckProcessed, GovInv
  <1>2. EndWith(p) \/ Goto(p, "read")
    BY DEF CheckProcessed
  <1> QED
    BY <1>1, <1>2, Ends, GoesFree

(* review process under latest-proposal.                                      *)
LEMMA ReadProposalKeeps ==
  ASSUME GovInv, NEW p \in Procs, ReadProposal(p)
  PROVE  Kept
PROOF
  <1> DEFINE i == IF proc[p].bound = 0 THEN LatestActive ELSE proc[p].bound
             v == IF i = 0 THEN sidecar ELSE proposals[i].decision
             to == IF i = 0 THEN "import" ELSE "gate"
             c == [proc[p] EXCEPT !.pc = to, !.pick = i, !.verdict = v]
  <1>1. WorldStep /\ sidecar' \in {"none"} \cup setting.hand /\ sidecar \in {"none"} \cup setting.hand
    BY DEF WorldStep, Quiet, ReadProposal, GovInv
  <1>2. CASE EndWith(p)
    BY <1>1, <1>2, Ends
  <1>3. CASE ~EndWith(p)
    <2>1. /\ i # 0 => i \in Ids
          /\ i = 0 => sidecar # "none"
          /\ proc' = [proc EXCEPT ![p] = c]
      BY <1>3 DEF ReadProposal
    <2>2. DOMAIN proc[p] = ProcFields
      BY DEF GovInv, ProcsInv, Fits
    <2> HIDE DEF i
    <2>3. v \in Verdicts /\ (i = 0 => v \in setting.hand)
      BY <1>1, <2>1, GovernanceAssumption DEF GovInv, TableInv, RowOK
    <2>4. i = 0 \/ i \in 1 .. Len(proposals)
      BY <2>1 DEF Ids
    <2>5. DOMAIN c = ProcFields /\ c.pc = to /\ c.pick = i /\ c.verdict = v
      BY <2>2 DEF ProcFields
    <2>6. UNCHANGED <<status, decision, proposals>> /\ Len(proposals) \in Nat
      BY DEF ReadProposal, GovInv, TableInv, IsTable
    <2> HIDE DEF c
    <2>7. Fits(c, setting, decision'.via, proposals')
      BY <2>3, <2>4, <2>5, <2>6 DEF Fits
    <2> QED
      BY <1>1, <2>1, <2>7, ProcMoves
  <1> QED
    BY <1>2, <1>3

LEMMA ImportSidecarKeeps ==
  ASSUME GovInv, NEW p \in Procs, ImportSidecar(p)
  PROVE  Kept
PROOF
  <1>1. /\ DOMAIN proc[p] = ProcFields /\ proc[p].verdict \in Verdicts /\ proc[p].pick = 0
        /\ proc[p].verdict \in setting.hand
        /\ sidecar' \in {"none"} \cup setting.hand
    BY DEF GovInv, ProcsInv, Fits, ImportSidecar
  <1>2. CASE /\ ProposalAccepted(Manual, TRUE) /\ InsertProposal(Manual, proc[p].verdict, {})
             /\ proc' = [proc EXCEPT ![p].pc = "gate", ![p].pick = Len(proposals) + 1]
    <2> DEFINE c == [proc[p] EXCEPT !.pc = "gate", !.pick = Len(proposals) + 1]
    <2>1. proc' = [proc EXCEPT ![p] = c]
      BY <1>2
    <2>2. Files /\ InsertProposal(Manual, proc[p].verdict, {})
      BY <1>1, <1>2 DEF ImportSidecar, Files, ProposalAccepted
    <2>3. Len(proposals') = Len(proposals) + 1 /\ Len(proposals) \in Nat
          /\ proposals'[Len(proposals) + 1].decision = proc[p].verdict
      <3> DEFINE n == Len(proposals)
                 kept == Supersede(proposals, Held(Manual))
                 row == [reviewer |-> Manual, decision |-> proc[p].verdict, changes |-> {},
                         superseded |-> FALSE, processed |-> FALSE, lifecycle |-> "active"]
      <3>1. n \in Nat /\ DOMAIN proposals = 1 .. n
        BY DEF GovInv, TableInv, IsTable
      <3>2. kept = [i \in 1 .. n |-> kept[i]]
        BY <3>1 DEF Supersede
      <3>3. proposals' = Append(kept, row)
        BY <2>2 DEF InsertProposal
      <3>4. row.decision = proc[p].verdict
        OBVIOUS
      <3> HIDE DEF kept, n, row
      <3>5. IsTable(kept) /\ Len(kept) = n
        BY <3>1, <3>2, Retabled
      <3>6. Len(proposals') = n + 1 /\ proposals'[n + 1] = row
        BY <3>3, <3>5, Appended
      <3> QED
        BY <3>1, <3>4, <3>6 DEF n
    <2>4. DOMAIN c = ProcFields /\ c.pc = "gate" /\ c.pick = Len(proposals) + 1
          /\ c.verdict = proc[p].verdict
      BY <1>1 DEF ProcFields
    <2> HIDE DEF c
    <2>5. Fits(c, setting, decision'.via, proposals')
      BY <1>1, <2>3, <2>4 DEF Fits
    <2> QED
      BY <1>1, <2>1, <2>2, <2>5, ProcMoves DEF WorldStep
  <1>3. CASE Goto(p, "gate") /\ UNCHANGED proposals
    <2> DEFINE c == [proc[p] EXCEPT !.pc = "gate"]
    <2>1. proc' = [proc EXCEPT ![p] = c] /\ Quiet
      BY <1>3 DEF ImportSidecar, Goto, Quiet
    <2>2. Len(proposals') \in Nat
      BY <1>3 DEF GovInv, TableInv, IsTable
    <2>3. DOMAIN c = ProcFields /\ c.pc = "gate" /\ c.pick = 0 /\ c.verdict = proc[p].verdict
      BY <1>1 DEF ProcFields
    <2> HIDE DEF c
    <2>4. Fits(c, setting, decision'.via, proposals')
      BY <1>1, <2>2, <2>3 DEF Fits
    <2> QED
      BY <1>1, <2>1, <2>4, ProcMoves DEF WorldStep
  <1> QED
    BY <1>2, <1>3 DEF ImportSidecar

LEMMA CheckStatusKeeps ==
  ASSUME GovInv, NEW p \in Procs, CheckStatus(p)
  PROVE  Kept
PROOF
  <1>1. WorldStep /\ sidecar' \in {"none"} \cup setting.hand
    BY DEF WorldStep, Quiet, CheckStatus, GovInv
  <1>2. CASE EndWith(p)
    BY <1>1, <1>2, Ends
  <1>3. CASE Goto(p, "apply")
    <2> DEFINE c == [proc[p] EXCEPT !.pc = "apply"]
    <2>1. proc' = [proc EXCEPT ![p] = c]
      BY <1>3 DEF Goto
    <2>2. Fits(proc[p], setting, decision.via, proposals) /\ proc[p].pc = "gate"
      BY DEF GovInv, ProcsInv, CheckStatus
    <2>3. /\ DOMAIN c = ProcFields /\ c.pc = "apply"
          /\ c.pick = proc[p].pick /\ c.verdict = proc[p].verdict
      BY <2>2 DEF Fits, ProcFields
    <2>4. UNCHANGED <<status, decision, proposals>>
      BY DEF CheckStatus
    <2> HIDE DEF c
    <2>5. Fits(c, setting, decision'.via, proposals')
      BY <2>2, <2>3, <2>4 DEF Fits
    <2> QED
      BY <1>1, <2>1, <2>5, ProcMoves
  <1> QED
    BY <1>2, <1>3 DEF CheckStatus

LEMMA PromoteKeeps ==
  ASSUME GovInv, NEW p \in Procs, Promote(p)
  PROVE  Kept
PROOF
  <1>1. sidecar' \in {"none"} \cup setting.hand
    BY DEF Promote, GovInv
  <1>2. CASE DecisionAccepted(Picked(p))
    <2> DEFINE i == proc[p].pick
               c == [proc[p] EXCEPT !.pc = "record"]
               via == IF Picked(p) = {} THEN "file" ELSE "proposal"
    <2>1. /\ DOMAIN proc[p] = ProcFields /\ proc[p].verdict \in Verdicts
          /\ i \in 0 .. Len(proposals)
          /\ i # 0 => proposals[i].decision = proc[p].verdict
          /\ i = 0 => proc[p].verdict \in setting.hand
      BY DEF GovInv, ProcsInv, Fits, Promote
    <2>2. /\ i = 0 => Picked(p) = {}
          /\ i # 0 => Picked(p) = {i} /\ i \in Ids
      BY <2>1 DEF Picked, Ids
    <2>3. /\ ApplyReviewDecision(proc[p].verdict, Picked(p), via, 0)
          /\ proc' = [proc EXCEPT ![p] = c]
          /\ UNCHANGED <<setting, consensus>>
      BY <1>2 DEF Promote, Goto
    <2>4. Decides(Picked(p), via)
      BY <1>2, <2>1, <2>2, <2>3 DEF Decides, ByHand
    <2>5. decision'.via \in {"proposal", "file"} /\ via \in {"proposal", "file"}
      BY <2>3 DEF ApplyReviewDecision
    <2>6. DOMAIN c = ProcFields /\ c.pc = "record"
      BY <2>1 DEF ProcFields
    <2> HIDE DEF c
    <2>7. Fits(c, setting, decision'.via, proposals')
      BY <2>5, <2>6 DEF Fits
    <2> QED
      BY <1>1, <2>3, <2>4, <2>7, ProcMoves DEF WorldStep
  <1>3. CASE ~DecisionAccepted(Picked(p))
    <2>1. Quiet /\ EndWith(p)
      BY <1>3 DEF Promote, Quiet
    <2> QED
      BY <1>1, <2>1, Ends DEF WorldStep
  <1> QED
    BY <1>2, <1>3

LEMMA RecordConsensusKeeps ==
  ASSUME GovInv, NEW p \in Procs, RecordConsensus(p)
  PROVE  Kept
PROOF
  <1>1. decision.via \in {"proposal", "file"}
    BY DEF GovInv, ProcsInv, Fits, RecordConsensus
  <1>2. (\E result : InsertConsensus(result, "review-process")) \/ UNCHANGED consensus
    BY DEF RecordConsensus
  <1>3. Notes \/ Quiet
    BY <1>1, <1>2 DEF Notes, Quiet, RecordConsensus
  <1>4. EndWith(p) /\ sidecar' \in {"none"} \cup setting.hand
    BY DEF RecordConsensus, GovInv
  <1> QED
    BY <1>3, <1>4, Ends DEF WorldStep

(* The row of the table that a live proposal makes.                           *)
BallotRow(i) ==
  [id |-> i, reviewer |-> proposals[i].reviewer, group |-> Group[proposals[i].reviewer],
   decision |-> proposals[i].decision, changes |-> proposals[i].changes,
   at |-> i, superseded |-> proposals[i].superseded]

OnTable ==
  {i \in Ids : /\ Live(proposals[i]) /\ proposals[i].lifecycle # "archived"
               /\ FrozenReviewers(Rule) # {} => proposals[i].reviewer \in FrozenReviewers(Rule)}

LEMMA ActiveAreOnTable == ActiveRows = {BallotRow(i) : i \in OnTable}
PROOF
  <1> DEFINE all == {BallotRow(i) : i \in {j \in Ids : Live(proposals[j]) /\ proposals[j].lifecycle # "archived"}}
  <1>1. ActiveRows = FrozenOnly(Rule, all)
    BY DEF ActiveRows, BallotRow
  <1>2. \A i : BallotRow(i).reviewer = proposals[i].reviewer
    BY DEF BallotRow
  <1> QED
    BY <1>1, <1>2 DEF FrozenOnly, OnTable

(* What one consensus transaction decides: by the rule's own reading of the   *)
(* rows on the table.                                                         *)
LEMMA ConsensusVerdict ==
  ASSUME GovInv, Rule.mode = "consensus", NEW result, result = Evaluate("none", ActiveRows),
         result.status # "pending"
  PROVE  /\ result.status \in Verdicts
         /\ result.included \subseteq OnTable
         /\ result.status = "approved" =>
              \A k \in DOMAIN Rule.requirements :
                Satisfied(Rule.requirements[k], FilterStale(Rule, ActiveRows, Len(proposals)))
         /\ result.included = {r.id : r \in FilterStale(Rule, ActiveRows, Len(proposals))}
PROOF
  <1> DEFINE fresh == FilterStale(Rule, ActiveRows, Len(proposals))
             blocking == BlockingStatus(Rule, fresh, RefutedTargets(Rule, refutes))
  <1>1. RuleIsCompiled(Rule) /\ RuleIsCoherent(Rule)
    BY GovernanceAssumption DEF GovInv, Rule
  <1>2. Rule.requirements # <<>>
    BY <1>1 DEF RuleIsCoherent
  <1>3. blocking \in Blockings
    BY <1>1, BlockingStatusIs
  <1>4. /\ blocking # "none" => result.status = blocking
        /\ blocking = "none" =>
             IF \A k \in DOMAIN Rule.requirements : Satisfied(Rule.requirements[k], fresh)
             THEN result.status = "approved" ELSE result.status = "pending"
        /\ result.included = {r.id : r \in fresh}
    BY <1>1, <1>2, ConsensusOutcome DEF Evaluate
  <1>5. fresh \subseteq {BallotRow(i) : i \in OnTable}
    BY ActiveAreOnTable DEF FilterStale
  <1>6. \A i : BallotRow(i).id = i
    BY DEF BallotRow
  <1>7. result.included \subseteq OnTable
    BY <1>4, <1>5, <1>6
  <1> HIDE DEF blocking, fresh
  <1>8. result.status \in Verdicts
    BY <1>3, <1>4 DEF Blockings, Verdicts
  <1>9. result.status = "approved" =>
          \A k \in DOMAIN Rule.requirements : Satisfied(Rule.requirements[k], fresh)
    BY <1>3, <1>4 DEF Blockings
  <1> QED
    BY <1>4, <1>7, <1>8, <1>9 DEF fresh

LEMMA ProcessConsensusModeKeeps ==
  ASSUME GovInv, NEW p \in Procs, ProcessConsensusMode(p)
  PROVE  Kept
PROOF
  <1> DEFINE result == Evaluate("none", ActiveRows)
             decisive == status = "needs_review" /\ ActiveRows # {} /\ result.status # "pending"
  <1>1. sidecar' \in {"none"} \cup setting.hand
    BY DEF ProcessConsensusMode, GovInv
  <1>2. CASE decisive /\ DecisionAccepted(result.included)
    <2>1. /\ InsertConsensus(result, "consensus")
          /\ ApplyReviewDecision(result.status, result.included, "consensus", Len(consensus) + 1)
          /\ EndWith(p) /\ Rule.mode = "consensus" /\ UNCHANGED setting
      BY <1>2 DEF ProcessConsensusMode
    <2>2. result.status \in Verdicts /\ result.included \subseteq OnTable
      BY <1>2, <2>1, ConsensusVerdict
    <2>3. result.included \subseteq Ids
      BY <2>2 DEF OnTable
    <2>4. Len(consensus) + 1 \in Nat
      BY DEF GovInv, DecidingInv, IsTable
    <2> HIDE DEF result
    <2>5. Decides(result.included, "consensus")
      BY <1>2, <2>1, <2>2, <2>3, <2>4 DEF Decides, ByHand, result
    <2> QED
      BY <1>1, <2>1, <2>5, Ends DEF WorldStep
  <1>3. CASE ~(decisive /\ DecisionAccepted(result.included))
    <2>1. Quiet /\ (Goto(p, "pending") \/ EndWith(p))
      BY <1>3 DEF ProcessConsensusMode, Quiet
    <2> QED
      BY <1>1, <2>1, Ends, GoesFree DEF WorldStep
  <1> QED
    BY <1>2, <1>3

LEMMA OverrideKeeps ==
  ASSUME GovInv, NEW p \in Procs,
         \/ \E d \in setting.overrides : OverrideConsensus(p, d)
         \/ OverrideApply(p) \/ OverrideAudit(p)
  PROVE  Kept
PROOF
  <1>1. sidecar' \in {"none"} \cup setting.hand
    BY DEF OverrideConsensus, OverrideApply, OverrideAudit, GovInv
  <1>2. DOMAIN proc[p] = ProcFields
    BY DEF GovInv, ProcsInv, Fits
  <1>3. ASSUME NEW d \in setting.overrides, OverrideConsensus(p, d) PROVE Kept
    <2> DEFINE c == [proc[p] EXCEPT !.pc = "override", !.verdict = d, !.cid = Len(consensus) + 1]
    <2>1. d \in Verdicts
      BY GovernanceAssumption DEF GovInv
    <2>2. proc' = [proc EXCEPT ![p] = c] /\ \E result : InsertConsensus(result, "override")
      BY <1>3 DEF OverrideConsensus
    <2>3. Notes
      BY <1>3, <2>2 DEF Notes, OverrideConsensus
    <2>4. DOMAIN c = ProcFields /\ c.pc = "override" /\ c.verdict = d
      BY <1>2 DEF ProcFields
    <2> HIDE DEF c
    <2>5. Fits(c, setting, decision'.via, proposals')
      BY <2>1, <2>4 DEF Fits
    <2> QED
      BY <1>1, <2>2, <2>3, <2>5, ProcMoves DEF WorldStep
  <1>4. CASE OverrideApply(p)
    <2>1. CASE DecisionAccepted({})
      <3>1. /\ ApplyReviewDecision(proc[p].verdict, {}, "override", proc[p].cid) /\ Goto(p, "audit")
            /\ UNCHANGED <<setting, consensus>>
        BY <1>4, <2>1 DEF OverrideApply
      <3>2. proc[p].verdict \in Verdicts /\ proc[p].verdict \in setting.overrides
        BY <1>4 DEF GovInv, ProcsInv, Fits, OverrideApply
      <3>3. Decides({}, "override")
        BY <2>1, <3>1, <3>2 DEF Decides, ByHand
      <3> QED
        BY <1>1, <3>1, <3>3, GoesFree DEF WorldStep
    <2>2. CASE ~DecisionAccepted({})
      <3>1. Quiet /\ EndWith(p)
        BY <1>4, <2>2 DEF OverrideApply, Quiet
      <3> QED
        BY <1>1, <3>1, Ends DEF WorldStep
    <2> QED
      BY <2>1, <2>2
  <1>5. CASE OverrideAudit(p)
    <2>1. Quiet /\ EndWith(p)
      BY <1>5 DEF OverrideAudit, Quiet
    <2> QED
      BY <1>1, <2>1, Ends DEF WorldStep
  <1> QED
    BY <1>3, <1>4, <1>5

(* The review step of a drive.                                                *)
LEMMA PlanKeeps ==
  ASSUME GovInv, NEW p \in Procs, NEW single, Plan(p, single)
  PROVE  Kept
PROOF
  <1>1. sidecar' \in {"none"} \cup setting.hand /\ DOMAIN proc[p] = ProcFields
    BY DEF Plan, GovInv, ProcsInv, Fits
  <1>2. CASE FrozenReviewers(Rule) # {}
    <2> DEFINE ids == {i \in Ids : Live(proposals[i]) /\ proposals[i].reviewer \in FrozenReviewers(Rule)}
               n == Len(proposals)
               c == [proc[p] EXCEPT !.pc = "dispatch", !.todo = FrozenReviewers(Rule), !.overwrite = TRUE]
    <2>1. proposals' = Supersede(proposals, ids) /\ proc' = [proc EXCEPT ![p] = c]
          /\ UNCHANGED <<setting, status, decision, consensus>>
      BY <1>2 DEF Plan
    <2>2. n \in Nat /\ DOMAIN proposals = 1 .. n /\ Ids = 1 .. n
      BY DEF GovInv, TableInv, IsTable, Ids
    <2>3. proposals' = [i \in 1 .. n |-> proposals'[i]]
      BY <2>1, <2>2 DEF Supersede
    <2>4. IsTable(proposals') /\ Len(proposals') = n
      <3> HIDE DEF n
      <3> QED
        BY <2>2, <2>3, Retabled
    <2>5. ASSUME NEW i \in Ids
          PROVE  /\ RowOK(proposals'[i]) /\ RowKeeps(proposals[i], proposals'[i])
                 /\ proposals'[i].processed = proposals[i].processed
                 /\ proposals[i].superseded => proposals'[i].superseded
                 /\ proposals[i].processed => proposals'[i].superseded = proposals[i].superseded
      <3>1. RowOK(proposals[i])
        BY DEF GovInv, TableInv
      <3>2. proposals'[i] = IF i \in ids THEN [proposals[i] EXCEPT !.superseded = TRUE, !.lifecycle = "superseded"]
                            ELSE proposals[i]
        BY <2>1, <2>2 DEF Supersede
      <3>3. CASE i \in ids
        <4>1. Live(proposals[i])
          BY <3>3
        <4> HIDE DEF ids
        <4> QED
          BY <3>1, <3>2, <3>3, <4>1 DEF RowOK, RowFields, RowKeeps, Live
      <3>4. CASE i \notin ids
        <4> HIDE DEF ids
        <4> QED
          BY <3>1, <3>2, <3>4 DEF RowOK, RowKeeps, Live
      <3> QED
        BY <3>3, <3>4
    <2>6. Settles
      BY <2>1, <2>4, <2>5 DEF Settles
    <2>7. DOMAIN c = ProcFields /\ c.pc = "dispatch"
      BY <1>1 DEF ProcFields
    <2> HIDE DEF c
    <2> QED
      BY <1>1, <2>1, <2>6, <2>7, NothingHeld, ProcMoves DEF WorldStep
  <1>3. CASE FrozenReviewers(Rule) = {}
    <2> DEFINE c == [proc[p] EXCEPT !.pc = "dispatch", !.todo = {single}]
    <2>1. proc' = [proc EXCEPT ![p] = c] /\ Quiet
      BY <1>3 DEF Plan, Quiet
    <2>2. DOMAIN c = ProcFields /\ c.pc = "dispatch"
      BY <1>1 DEF ProcFields
    <2> HIDE DEF c
    <2> QED
      BY <1>1, <2>1, <2>2, NothingHeld, ProcMoves DEF WorldStep
  <1> QED
    BY <1>2, <1>3

LEMMA DispatchKeeps ==
  ASSUME GovInv, NEW p \in Procs, Dispatch(p) \/ DispatchDone(p)
  PROVE  Kept
PROOF
  <1>1. sidecar' \in {"none"} \cup setting.hand /\ DOMAIN proc[p] = ProcFields /\ Quiet
    BY DEF Dispatch, DispatchDone, GovInv, ProcsInv, Fits, Quiet
  <1>2. CASE EndWith(p)
    BY <1>1, <1>2, Ends DEF WorldStep
  <1>3. CASE Dispatch(p) /\ ~EndWith(p)
    <2>1. PICK r \in proc[p].todo :
            proc' = [proc EXCEPT ![p].pc = "codex", ![p].reviewer = r, ![p].todo = @ \ {r}]
      BY <1>3 DEF Dispatch
    <2> DEFINE c == [proc[p] EXCEPT !.pc = "codex", !.reviewer = r, !.todo = @ \ {r}]
    <2>2. proc' = [proc EXCEPT ![p] = c]
      BY <2>1
    <2>3. DOMAIN c = ProcFields /\ c.pc = "codex"
      BY <1>1 DEF ProcFields
    <2> HIDE DEF c
    <2> QED
      BY <1>1, <2>2, <2>3, NothingHeld, ProcMoves DEF WorldStep
  <1>4. CASE DispatchDone(p) /\ ~EndWith(p)
    <2> DEFINE to == IF RefutePlan = {} THEN "process" ELSE "refute"
               c == [proc[p] EXCEPT !.pc = to, !.ask = RefutePlan]
    <2>1. proc' = [proc EXCEPT ![p] = c]
      BY <1>4 DEF DispatchDone
    <2>2. DOMAIN c = ProcFields /\ c.pc \in {"process", "refute"}
      BY <1>1 DEF ProcFields
    <2> HIDE DEF c
    <2> QED
      BY <1>1, <2>1, <2>2, NothingHeld, ProcMoves DEF WorldStep
  <1> QED
    BY <1>2, <1>3, <1>4

LEMMA RefuteVoteKeeps ==
  ASSUME GovInv, NEW p \in Procs, NEW v, RefuteVote(p, v)
  PROVE  Kept
PROOF
  <1>1. sidecar' \in {"none"} \cup setting.hand /\ DOMAIN proc[p] = ProcFields /\ Quiet
    BY DEF RefuteVote, GovInv, ProcsInv, Fits, Quiet
  <1>2. PICK q \in proc[p].ask :
          proc' = [proc EXCEPT ![p].ask = @ \ {q},
                               ![p].pc = IF proc[p].ask = {q} THEN "process" ELSE "refute"]
    BY DEF RefuteVote
  <1> DEFINE c == [proc[p] EXCEPT !.ask = @ \ {q},
                                  !.pc = IF proc[p].ask = {q} THEN "process" ELSE "refute"]
  <1>3. proc' = [proc EXCEPT ![p] = c]
    BY <1>2
  <1>4. DOMAIN c = ProcFields /\ c.pc \in {"process", "refute"}
    BY <1>1 DEF ProcFields
  <1> HIDE DEF c
  <1> QED
    BY <1>1, <1>3, <1>4, NothingHeld, ProcMoves DEF WorldStep

LEMMA RecordPendingConsensusKeeps ==
  ASSUME GovInv, NEW p \in Procs, RecordPendingConsensus(p)
  PROVE  Kept
PROOF
  <1>1. \E result : InsertConsensus(result, "hitch.review.pending")
    BY DEF RecordPendingConsensus
  <1>2. Notes
    BY <1>1 DEF Notes, RecordPendingConsensus
  <1>3. EndWith(p) /\ sidecar' \in {"none"} \cup setting.hand
    BY DEF RecordPendingConsensus, GovInv
  <1> QED
    BY <1>2, <1>3, Ends DEF WorldStep

LEMMA CrashKeeps ==
  ASSUME GovInv, NEW p \in Procs, Crash(p)
  PROVE  Kept
PROOF
  <1> DEFINE c == [IdleProc EXCEPT !.pc = "dead", !.cid = proc[p].cid]
  <1>1. proc' = [proc EXCEPT ![p] = c] /\ Quiet /\ sidecar' \in {"none"} \cup setting.hand
    BY DEF Crash, Quiet, GovInv
  <1>2. DOMAIN c = ProcFields /\ c.pc = "dead"
    BY DEF ProcFields, IdleProc
  <1> HIDE DEF c
  <1> QED
    BY <1>1, <1>2, NothingHeld, ProcMoves DEF WorldStep

(* Housekeeping only touches the lifecycle of rows.                           *)
LEMMA ArchiveKeeps ==
  ASSUME GovInv, (\E i : Archive(i)) \/ Vacuum
  PROVE  Kept
PROOF
  <1> DEFINE n == Len(proposals)
             away(i) == [proposals[i] EXCEPT !.lifecycle = "archived"]
  <1>1. n \in Nat /\ DOMAIN proposals = 1 .. n /\ Ids = 1 .. n /\ proposals = [i \in 1 .. n |-> proposals[i]]
    BY DEF GovInv, TableInv, IsTable, Ids
  <1>2. /\ proposals' = [i \in 1 .. n |-> proposals'[i]]
        /\ \A i \in 1 .. n : proposals'[i] \in {proposals[i], away(i)}
    <2>1. CASE Vacuum
      BY <1>1, <2>1 DEF Vacuum
    <2>2. ASSUME NEW i, Archive(i)
          PROVE /\ proposals' = [j \in 1 .. n |-> proposals'[j]]
                /\ \A j \in 1 .. n : proposals'[j] \in {proposals[j], away(j)}
      BY <1>1, <2>2 DEF Archive
    <2> QED
      BY <2>1, <2>2
  <1>3. IsTable(proposals') /\ Len(proposals') = n
    <2> HIDE DEF n
    <2> QED
      BY <1>1, <1>2, Retabled
  <1>4. ASSUME NEW i \in Ids
        PROVE  /\ RowOK(proposals'[i]) /\ RowKeeps(proposals[i], proposals'[i])
               /\ proposals'[i].processed = proposals[i].processed
               /\ proposals'[i].superseded = proposals[i].superseded
    <2>1. RowOK(proposals[i])
      BY DEF GovInv, TableInv
    <2>2. proposals'[i] = proposals[i] \/ proposals'[i] = away(i)
      BY <1>1, <1>2
    <2> QED
      BY <2>1, <2>2 DEF RowOK, RowFields, RowKeeps, Live
  <1>5. /\ UNCHANGED <<setting, status, decision, consensus, proc>>
        /\ sidecar' \in {"none"} \cup setting.hand
    BY DEF Archive, Vacuum, GovInv
  <1>6. Settles
    <2> HIDE DEF n
    <2> QED
      BY <1>3, <1>4, <1>5 DEF Settles, n
  <1> QED
    BY <1>5, <1>6, NobodyMoves DEF WorldStep

LEMMA GovStep == GovInv /\ [GovNext]_govVars => Kept
PROOF
  <1>1. SUFFICES ASSUME GovInv, [GovNext]_govVars PROVE Kept
    OBVIOUS
  <1>2. ASSUME NEW p \in Autos, NEW r \in setting.reviewers, NEW o \in BOOLEAN, AutoStart(p, r, o)
        PROVE  Kept
    BY <1>1, <1>2, AutoStartKeeps DEF Procs
  <1>3. ASSUME NEW p \in Processors, NEW b \in setting.bindings, ProcessStart(p, b) PROVE Kept
    BY <1>1, <1>3, ProcessStartKeeps DEF Procs
  <1>4. ASSUME NEW p \in Overriders, NEW d \in setting.overrides, OverrideConsensus(p, d) PROVE Kept
    BY <1>1, <1>4, OverrideKeeps DEF Procs
  <1>5. ASSUME NEW p \in Drives, NEW r \in setting.reviewers, Plan(p, r) PROVE Kept
    BY <1>1, <1>5, PlanKeeps DEF Procs
  <1>6. ASSUME NEW p \in Procs, ProcStep(p) PROVE Kept
    <2>1. ASSUME NEW d \in Verdicts, NEW cs \in SUBSET setting.changes, AutoInsert(p, d, cs) PROVE Kept
      BY <1>1, <2>1, AutoInsertKeeps
    <2>2. ASSUME NEW v \in {"uphold", "refute", "inconclusive"}, RefuteVote(p, v) PROVE Kept
      BY <1>1, <2>2, RefuteVoteKeeps
    <2> QED
      BY <1>1, <1>6, <2>1, <2>2, AutoFailKeeps, RecordConsensusReEvaluationKeeps, CheckProcessedKeeps,
         ReadProposalKeeps, ImportSidecarKeeps, CheckStatusKeeps, PromoteKeeps, RecordConsensusKeeps,
         ProcessConsensusModeKeeps, OverrideKeeps, DispatchKeeps, RecordPendingConsensusKeeps DEF ProcStep
  <1>7. ASSUME NEW p \in Procs, Crash(p) PROVE Kept
    BY <1>1, <1>7, CrashKeeps
  <1>8. ASSUME NEW v \in setting.hand, HandEdit(v) PROVE Kept
    <2>1. Quiet /\ sidecar' = v /\ UNCHANGED proc
      BY <1>8 DEF HandEdit, Quiet
    <2> QED
      BY <1>1, <1>8, <2>1, NobodyMoves DEF WorldStep
  <1>9. CASE ForceFail
    <2>1. Falls /\ UNCHANGED proc /\ sidecar' \in {"none"} \cup setting.hand
      BY <1>1, <1>9 DEF ForceFail, Falls, GovInv
    <2> QED
      BY <1>1, <2>1, NobodyMoves DEF WorldStep
  <1>10. CASE UNCHANGED govVars
    <2>1. Quiet /\ UNCHANGED proc /\ sidecar' \in {"none"} \cup setting.hand
      BY <1>1, <1>10 DEF govVars, Quiet, GovInv
    <2> QED
      BY <1>1, <2>1, NobodyMoves DEF WorldStep
  <1> QED
    BY <1>1, <1>2, <1>3, <1>4, <1>5, <1>6, <1>7, <1>8, <1>9, <1>10, ArchiveKeeps DEF GovNext

LEMMA GovStarts == GovInit => GovInv
PROOF
  <1>1. SUFFICES ASSUME GovInit PROVE GovInv
    OBVIOUS
  <1>2. IsTable(<<>>) /\ Len(<<>>) = 0
    BY DEF IsTable
  <1>3. Ids = {} /\ TableInv
    BY <1>1, <1>2 DEF GovInit, TableInv, Ids, OneHeld
  <1>4. decision.via = "none" /\ decision.ids = {}
    BY <1>1 DEF GovInit, Undecided
  <1>5. SourceInv /\ DecidingInv
    BY <1>1, <1>2, <1>3, <1>4 DEF GovInit, SourceInv, VerdictHasItsSource, DecidingInv, DecidingRowStands
  <1>6. ProcsInv
    <2>1. \A p \in Procs : proc[p] = IdleProc \/ proc[p] = [IdleProc EXCEPT !.pc = "done"]
      BY <1>1 DEF GovInit
    <2>2. Fits(IdleProc, setting, decision.via, proposals)
      BY DEF Fits, IdleProc, ProcFields
    <2>3. \A p \in Procs : Fits(proc[p], setting, decision.via, proposals)
      BY <2>1, <2>2, EndFits
    <2> QED
      BY <1>1, <2>3 DEF ProcsInv, GovInit
  <1> QED
    BY <1>1, <1>3, <1>5, <1>6 DEF GovInv, GovInit

(* The invariant of the review commands: the table, the source of the verdict,*)
(* the deciding consensus row and what every process knows.                   *)
THEOREM GovInvariant == GovSpec => []GovInv
PROOF
  <1>1. GovInv /\ [GovNext]_govVars => GovInv'
    BY GovStep DEF Kept
  <1> QED
    BY <1>1, GovStarts, PTL DEF GovSpec

(* For any rule, processes, reviewers and interleaving, with crashes: the     *)
(* rows marked processed are those the verdict was taken from, none of them   *)
(* superseded, and only what a person wrote decides without such a row        *)
(* (applyReviewDecision and insertProposal, each one transaction, and the     *)
(* best-effort import of the sidecar).                                        *)
THEOREM VerdictsHaveTheirSource == GovSpec => []VerdictHasItsSource
PROOF
  <1>1. GovInv => VerdictHasItsSource
    BY DEF GovInv, SourceInv
  <1> QED
    BY <1>1, GovInvariant, PTL

(* The consensus row that decided a run says what the run says, and only a    *)
(* drive that saw the table pending or a lost override may append after it.   *)
THEOREM DecidingRowsStand == GovSpec => []DecidingRowStands
PROOF
  <1>1. GovInv => DecidingRowStands
    BY DEF GovInv, DecidingInv
  <1> QED
    BY <1>1, GovInvariant, PTL

----------------------------------------------------------------------------
(* What a consensus verdict takes from the table.                             *)

Yes(k) ==
  {proposals[i].reviewer : i \in {j \in decision.ids :
     /\ proposals[j].decision = "approved"
     /\ Group[proposals[j].reviewer] = Rule.requirements[k].group}}

TakenInv ==
  decision.via = "consensus" =>
    /\ OnTable = {}
    /\ status = "approved" =>
         \A k \in DOMAIN Rule.requirements : Cardinality(Yes(k)) >= Rule.requirements[k].minApprovals

LEMMA TakenIsNothingLeft == GovInv /\ TakenInv => NoBallotLeftOut
PROOF
  BY ActiveAreOnTable DEF TakenInv, Yes, NoBallotLeftOut

(* Rows on the table are of different reviewers.                              *)
LEMMA BallotsAreReviewers ==
  ASSUME GovInv, NEW req, RuleIsCompiled(Rule), NEW fresh, fresh \subseteq ActiveRows,
         Satisfied(req, fresh), req.minApprovals \in Nat
  PROVE  LET approvals == {r \in InGroup(req, fresh) : r.decision = "approved"}
         IN  /\ Cardinality({r.reviewer : r \in approvals}) >= req.minApprovals
             /\ IsFiniteSet({r.reviewer : r \in approvals})
PROOF
  <1> DEFINE approvals == {r \in InGroup(req, fresh) : r.decision = "approved"}
             U == {proposals[i].reviewer : i \in Ids}
             f == [i \in Ids |-> proposals[i].reviewer]
  <1>1. Cardinality(approvals) >= req.minApprovals
    BY DEF Satisfied
  <1>2. \A r \in approvals : \E i \in OnTable : r = BallotRow(i)
    BY ActiveAreOnTable DEF InGroup
  <1>3. \A i \in OnTable : i \in Ids /\ ~proposals[i].superseded
    BY DEF OnTable, Live
  <1>4. \A i : BallotRow(i).reviewer = proposals[i].reviewer
    BY DEF BallotRow
  <1>5. \A r \in approvals : r.reviewer \in U
    BY <1>2, <1>3, <1>4
  <1>6. \A r, q \in approvals : r.reviewer = q.reviewer => r = q
    <2>1. OneHeld
      BY DEF GovInv, TableInv
    <2>2. SUFFICES ASSUME NEW r \in approvals, NEW q \in approvals, r.reviewer = q.reviewer PROVE r = q
      OBVIOUS
    <2> HIDE DEF approvals
    <2>3. PICK i \in OnTable : r = BallotRow(i)
      BY <1>2
    <2>4. PICK j \in OnTable : q = BallotRow(j)
      BY <1>2
    <2>5. i = j
      BY <1>3, <1>4, <2>1, <2>2, <2>3, <2>4 DEF OneHeld
    <2> QED
      BY <2>3, <2>4, <2>5
  <1>7. IsFiniteSet(U)
    <2>0. Len(proposals) \in Nat
      BY DEF GovInv, TableInv, IsTable
    <2>1. IsFiniteSet(Ids)
      BY <2>0, FS_Interval DEF Ids
    <2>2. f \in Surjection(Ids, U)
      BY DEF Surjection
    <2> HIDE DEF U, f
    <2> QED
      BY <2>1, <2>2, FS_Surjection
  <1> HIDE DEF U, approvals
  <1>8. /\ Cardinality(approvals) =< Cardinality({r.reviewer : r \in approvals})
        /\ Cardinality(approvals) \in Nat
    BY <1>5, <1>6, <1>7, VotesAreVoters
  <1>9. IsFiniteSet({r.reviewer : r \in approvals})
    <2>1. {r.reviewer : r \in approvals} \subseteq U
      BY <1>5
    <2> QED
      BY <1>7, <2>1, FS_Subset
  <1>10. Cardinality({r.reviewer : r \in approvals}) \in Nat
    BY <1>9, FS_CardinalityType
  <1> QED
    BY <1>1, <1>8, <1>9, <1>10 DEF approvals

(* Nothing comes back to the table once a verdict is taken.                   *)
LEMMA TakenStep ==
  ASSUME GovInv, WorldStep, GovInv', TakenInv, Rule.maxAge = NoAge
  PROVE  TakenInv'
PROOF
  <1>1. SUFFICES ASSUME decision'.via = "consensus" PROVE TakenInv'
    BY DEF TakenInv
  <1>2. Onward /\ setting' = setting
    BY WorldKeeps DEF GovInv, WorldInv, WorldStep, Quiet, Notes, Files, Settles, Falls, Decides
  <1>3. Len(proposals) \in Nat /\ Len(proposals') \in Nat
    BY DEF GovInv, TableInv, IsTable
  <1>4. CASE decision.via = "consensus"
    <2>1. status \notin {"needs_review", "failed-internal-error"}
      BY <1>4 DEF GovInv, SourceInv, VerdictHasItsSource
    <2>2. Quiet \/ Notes \/ Settles
      BY <2>1 DEF WorldStep, Files, Falls, Decides, DecisionAccepted
    <2>3. UNCHANGED <<setting, status, decision>> /\ Ids' = Ids
      BY <2>2 DEF Quiet, Notes, Settles, Ids
    <2>4. \A i \in Ids : RowKeeps(proposals[i], proposals'[i])
      BY <1>2 DEF Onward, RowsKeep, Ids
    <2>5. OnTable' \subseteq OnTable
      BY <2>3, <2>4 DEF OnTable, RowKeeps, Rule
    <2>6. decision.ids \subseteq Ids
      BY DEF GovInv, SourceInv, VerdictHasItsSource
    <2>7. \A k \in DOMAIN Rule.requirements : Yes(k)' = Yes(k)
      BY <2>3, <2>4, <2>6 DEF Yes, RowKeeps, Rule
    <2> QED
      BY <1>4, <2>3, <2>5, <2>7 DEF TakenInv, Rule
  <1>5. CASE decision.via # "consensus"
    <2>1. PICK ids : Decides(ids, "consensus")
      <3>1. decision' # decision
        BY <1>1, <1>5
      <3>0. PICK ids : \E via \in {"proposal", "file", "consensus", "override"} : Decides(ids, via)
        BY <3>1 DEF WorldStep, Quiet, Notes, Files, Settles, Falls
      <3>2. PICK via \in {"proposal", "file", "consensus", "override"} : Decides(ids, via)
        BY <3>0
      <3>3. decision'.via = via
        BY <3>2 DEF Decides, ApplyReviewDecision
      <3> QED
        BY <1>1, <3>2, <3>3
    <2> DEFINE result == Evaluate("none", ActiveRows)
               fresh == FilterStale(Rule, ActiveRows, Len(proposals))
    <2>2. /\ status' = result.status /\ decision'.ids = ids /\ ids = result.included
          /\ result.status \in Verdicts /\ Rule.mode = "consensus"
          /\ proposals' = MarkProcessed(ids) /\ ids \subseteq Ids
      BY <2>1 DEF Decides, ApplyReviewDecision
    <2>3. result.status # "pending"
      BY <2>2 DEF Verdicts
    <2>4. /\ ids = {r.id : r \in fresh}
          /\ status' = "approved" =>
               \A k \in DOMAIN Rule.requirements : Satisfied(Rule.requirements[k], fresh)
      <3> HIDE DEF result, fresh
      <3> QED
        BY <2>2, <2>3, ConsensusVerdict DEF result, fresh
    <2>5. \A i : BallotRow(i).id = i /\ BallotRow(i).superseded = proposals[i].superseded
                 /\ BallotRow(i).reviewer = proposals[i].reviewer
                 /\ BallotRow(i).decision = proposals[i].decision
                 /\ BallotRow(i).group = Group[proposals[i].reviewer]
      BY DEF BallotRow
    <2>6. fresh = ActiveRows
      <3>1. \A r \in ActiveRows : ~r.superseded
        BY <2>5, ActiveAreOnTable DEF OnTable, Live
      <3> QED
        BY <3>1 DEF FilterStale
    <2>7. ids = OnTable
      BY <2>4, <2>5, <2>6, ActiveAreOnTable
    <2>8. Ids' = Ids /\ \A i \in Ids : /\ RowKeeps(proposals[i], proposals'[i])
                                       /\ i \in ids => ~Live(proposals'[i])
      <3>1. DOMAIN proposals = Ids
        BY DEF GovInv, TableInv, IsTable, Ids
      <3>2. proposals' = [i \in Ids |-> proposals'[i]]
        BY <2>2, <3>1 DEF MarkProcessed
      <3>3. Len(proposals') = Len(proposals)
        BY <1>3, <3>2, Retabled DEF Ids
      <3>4. \A i \in Ids : RowKeeps(proposals[i], proposals'[i])
        BY <1>2 DEF Onward, RowsKeep, Ids
      <3>5. \A i \in ids : proposals'[i].processed
        BY <2>2, <3>1 DEF MarkProcessed, GovInv, TableInv, RowOK, RowFields
      <3> QED
        BY <3>3, <3>4, <3>5 DEF Ids, Live
    <2>9. OnTable' = {}
      <3>1. OnTable' \subseteq OnTable
        BY <1>2, <2>8 DEF OnTable, RowKeeps, Rule
      <3> QED
        BY <2>2, <2>7, <2>8, <3>1 DEF OnTable
    <2>10. ASSUME status' = "approved", NEW k \in DOMAIN Rule.requirements
           PROVE  Cardinality(Yes(k)') >= Rule.requirements[k].minApprovals
      <3> DEFINE req == Rule.requirements[k]
                 approvals == {r \in InGroup(req, fresh) : r.decision = "approved"}
      <3>1. RuleIsCompiled(Rule) /\ req.minApprovals \in Nat
        BY GovernanceAssumption DEF GovInv, Rule, RuleIsCompiled
      <3>2. Satisfied(req, fresh)
        BY <2>4, <2>10
      <3>3. Cardinality({r.reviewer : r \in approvals}) >= req.minApprovals
        <4> HIDE DEF fresh, req
        <4> QED
          BY <2>6, <3>1, <3>2, BallotsAreReviewers
      <3>4. {r.reviewer : r \in approvals} = Yes(k)'
        <4>1. {r.reviewer : r \in approvals} =
                {proposals[i].reviewer : i \in {j \in OnTable :
                   /\ proposals[j].decision = "approved"
                   /\ Group[proposals[j].reviewer] = req.group}}
          BY <2>5, <2>6, ActiveAreOnTable DEF InGroup
        <4>2. \A i \in OnTable : /\ proposals'[i].reviewer = proposals[i].reviewer
                                 /\ proposals'[i].decision = proposals[i].decision
          BY <2>8 DEF RowKeeps, OnTable
        <4>3. Yes(k)' = {proposals'[i].reviewer : i \in {j \in OnTable :
                           /\ proposals'[j].decision = "approved"
                           /\ Group[proposals'[j].reviewer] = req.group}}
          BY <1>2, <2>2, <2>7 DEF Yes, Rule
        <4> HIDE DEF req, approvals
        <4> QED
          BY ONLY <4>1, <4>2, <4>3
      <3> QED
        BY <3>3, <3>4
    <2> QED
      BY <1>2, <2>9, <2>10 DEF TakenInv, Rule
  <1> QED
    BY <1>4, <1>5

(* Under rules without a maximum age (older rows are left out on purpose), a  *)
(* consensus verdict leaves no live proposal of the electorate on the table,  *)
(* and an approval carries every requirement's approvals, of as many distinct *)
(* reviewers (the single transaction of processConsensusModePath).            *)
THEOREM NoBallotsLeftOut ==
  ASSUME \A s \in Settings : s.rule.maxAge = NoAge
  PROVE  GovSpec => []NoBallotLeftOut
PROOF
  <1>1. GovInit => TakenInv
    BY DEF GovInit, Undecided, TakenInv
  <1>2. GovInv /\ TakenInv /\ [GovNext]_govVars => TakenInv'
    <2>1. GovInv => Rule.maxAge = NoAge
      BY DEF GovInv, Rule
    <2> QED
      BY <2>1, GovStep, TakenStep DEF Kept
  <1>3. GovInv /\ TakenInv => NoBallotLeftOut
    BY TakenIsNothingLeft
  <1> QED
    BY <1>1, <1>2, <1>3, GovInvariant, PTL DEF GovSpec

----------------------------------------------------------------------------
(* The run's row implements RunRegister.                                      *)

LEMMA StageMoves ==
  ASSUME GovInv, WorldStep
  PROVE  \/ status' = status
         \/ status = "needs_review" /\ status' \in Verdicts \cup {"failed-internal-error"}
PROOF
  <1>1. CASE Quiet \/ Notes \/ Files \/ Settles
    BY <1>1 DEF Quiet, Notes, Files, Settles
  <1>2. CASE Falls
    BY <1>2 DEF Falls
  <1>3. ASSUME NEW ids, NEW via, Decides(ids, via)
        PROVE  status = "needs_review" /\ status' \in Verdicts
    BY <1>3 DEF Decides, DecisionAccepted, ApplyReviewDecision
  <1> QED
    BY <1>1, <1>2, <1>3 DEF WorldStep

(* For any processes, rules and crashes: a run waiting for its review is      *)
(* judged once or failed by its coder, and is judged by nobody later, as      *)
(* RunRegister promises (applyReviewDecision, forceFailFinalize).             *)
THEOREM ReviewsImplementRegister == GovSpec => ImplementsRegister
PROOF
  <1> DEFINE St == [r \in {"run"} |-> Stage]
  <1>1. GovInit => Register!RegisterInit
    <2> SUFFICES ASSUME GovInit PROVE Register!RegisterInit
      OBVIOUS
    <2>1. Stage = "needs_review"
      BY DEF GovInit, Stage
    <2>2. "needs_review" \in Register!Stages
      BY DEF Register!Stages
    <2>3. St \in [{"run"} -> Register!Stages] /\ {"run"} \in SUBSET {r \in {"run"} : St[r] # "none"}
      BY <2>1, <2>2
    <2> QED
      BY <2>3 DEF Register!RegisterInit
  <1>2. GovInv /\ [GovNext]_govVars => [Register!RegisterNext]_(Register!registerVars)
    <2> SUFFICES ASSUME GovInv, [GovNext]_govVars
                 PROVE  [Register!RegisterNext]_(Register!registerVars)
      OBVIOUS
    <2>1. \/ status' = status
          \/ status = "needs_review" /\ status' \in Verdicts \cup {"failed-internal-error"}
      BY GovStep, StageMoves DEF Kept
    <2>2. St["run"] = Stage /\ St' = [St EXCEPT !["run"] = Stage']
      OBVIOUS
    <2>3. CASE status' = status
      BY <2>3 DEF Register!registerVars, Stage
    <2>4. CASE status = "needs_review" /\ status' \in Verdicts
      <3>1. Stage = "needs_review" /\ Stage' = status' /\ status' \in Register!Verdicts
        BY <2>4 DEF Stage, Verdicts, Register!Verdicts
      <3>2. Register!Judge("run", status')
        BY <2>2, <3>1 DEF Register!Judge
      <3> QED
        BY <3>1, <3>2 DEF Register!RegisterNext
    <2>5. CASE status' = "failed-internal-error"
      <3>1. Stage' = "failed"
        BY <2>5 DEF Stage
      <3>2. Register!FailRun("run")
        BY <2>2, <3>1 DEF Register!FailRun
      <3> QED
        BY <3>2 DEF Register!RegisterNext
    <2> QED
      BY <2>1, <2>3, <2>4, <2>5
  <1> QED
    BY <1>1, <1>2, GovInvariant, PTL DEF GovSpec, ImplementsRegister, Register!RegisterSpec
=============================================================================
