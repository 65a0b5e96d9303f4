-------------------------- MODULE ReviewConsensus --------------------------
(* The verdict arithmetic of core/review-consensus.ts.  evaluateConsensus is *)
(* a pure function of a frozen review rule, the proposals of a run, the      *)
(* refute votes cast on the changes those proposals ask for, and an optional *)
(* human override.  Names of reviewers, groups and changes are opaque.       *)
(*                                                                           *)
(* A rule is a record                                                        *)
(*   mode             "latest-proposal" or "consensus"                       *)
(*   requirements     a sequence of [group, minApprovals, blocking, quorum,  *)
(*                    reviewerIds]; reviewerIds = {} means "not declared"    *)
(*   refute           NoRefute or [group, reviewerIds, minParticipants]      *)
(*   rejectSuperseded, maxAge (NoAge when undeclared), allowedReviewers      *)
(* A quorum has minParticipants (0: undeclared), rate in percent (NoRate:    *)
(* undeclared) and groupSize (0: undeclared).                                *)
EXTENDS Integers, Sequences, FiniteSets

NoAge == -1
NoRate == -1
NoRefute == [group |-> "none", reviewerIds |-> {}, minParticipants |-> 0]
NoQuorum == [minParticipants |-> 0, rate |-> NoRate, groupSize |-> 0]

Verdicts == {"approved", "changes_requested", "rejected"}
ConsensusStatuses == Verdicts \cup {"pending"}

(* filterStaleProposals / isOlderThan: superseded rows and rows older than   *)
(* the declared age do not count; a row dated after the evaluation is fresh. *)
FilterStale(rule, proposals, now) ==
  {p \in proposals :
     /\ ~(rule.rejectSuperseded /\ p.superseded)
     /\ rule.maxAge # NoAge => now - p.at =< rule.maxAge}

(* The votes evaluateRefuteSummary counts on one change.                     *)
Ballots(rule, votes, change) ==
  {v \in votes : /\ v.valid
                 /\ v.group = rule.refute.group
                 /\ v.reviewer \in rule.refute.reviewerIds
                 /\ v.verdict \in {"uphold", "refute"}
                 /\ v.target = change}

DuplicateReviewers(ballots) ==
  {v.reviewer : v \in {u \in ballots : \E w \in ballots : w # u /\ w.reviewer = u.reviewer}}

(* A change is refuted by a strict majority of the CONFIGURED reviewers; one *)
(* reviewer voting twice on it voids the ballot.                             *)
StrictMajorityMet(rule, votes, change) ==
  LET ballots == Ballots(rule, votes, change)
      unique  == IF DuplicateReviewers(ballots) = {} THEN ballots ELSE {}
      refutes == {v \in unique : v.verdict = "refute"}
      floor   == IF rule.refute.minParticipants = 0 THEN 1 ELSE rule.refute.minParticipants
  IN  /\ DuplicateReviewers(ballots) = {}
      /\ Cardinality(unique) >= floor
      /\ 2 * Cardinality(refutes) > Cardinality(rule.refute.reviewerIds)

(* evaluateRefuteSummary: no refute section, nothing can be refuted.         *)
RefutedTargets(rule, votes) ==
  IF rule.refute = NoRefute THEN {}
  ELSE {c \in {v.target : v \in votes} : StrictMajorityMet(rule, votes, c)}

(* Bug: one refuted change is enough. *)
AnyChangeRefuted(p, refuted) == p.changes \cap refuted # {}

(* isChangesRequestRefuted: every change asked for has been refuted.         *)
ChangesRequestRefuted(p, refuted) == p.changes # {} /\ p.changes \subseteq refuted

(* isQuorumMet, fail-closed on a rate without a group size.                  *)
QuorumMet(quorum, participants) ==
  /\ participants >= quorum.minParticipants
  /\ quorum.rate # NoRate => /\ quorum.groupSize > 0
                             /\ 100 * participants >= quorum.rate * quorum.groupSize

InGroup(req, proposals) == {p \in proposals : p.group = req.group}

BlockedByReject(req, proposals) ==
  /\ "rejected" \in req.blocking
  /\ \E p \in InGroup(req, proposals) : p.decision = "rejected"

BlockedByChanges(req, proposals, refuted) ==
  /\ "changes_requested" \in req.blocking
  /\ \E p \in InGroup(req, proposals) : /\ p.decision = "changes_requested"
                                        /\ ~ChangesRequestRefuted(p, refuted)

(* approvals counts rows, participants counts distinct reviewers.            *)
Satisfied(req, proposals) ==
  LET approvals    == {p \in InGroup(req, proposals) : p.decision = "approved"}
      participants == {p.reviewer : p \in {q \in InGroup(req, proposals) : q.decision # "pending"}}
  IN  /\ Cardinality(approvals) >= req.minApprovals
      /\ QuorumMet(req.quorum, Cardinality(participants))

(* Bug: a later request for changes replaces a rejection already met. *)
BlockStepLastWins(blocking, req, proposals, refuted) ==
  IF BlockedByReject(req, proposals) THEN "rejected"
  ELSE IF BlockedByChanges(req, proposals, refuted) THEN "changes_requested" ELSE blocking

(* The loop over the requirements: a rejection overrides, a request for      *)
(* changes is kept only while no rejection has been met.                     *)
BlockStep(blocking, req, proposals, refuted) ==
  IF BlockedByReject(req, proposals) THEN "rejected"
  ELSE IF BlockedByChanges(req, proposals, refuted) /\ blocking \in {"none", "changes_requested"}
       THEN "changes_requested"
       ELSE blocking

BlockingStatus(rule, proposals, refuted) ==
  LET after[n \in 0 .. Len(rule.requirements)] ==
        IF n = 0 THEN "none"
        ELSE BlockStep(after[n - 1], rule.requirements[n], proposals, refuted)
  IN  after[Len(rule.requirements)]

(* pickLatest: the newest row (no two rows carry the same reviewedAt here).  *)
PickLatest(proposals) == CHOOSE p \in proposals : \A q \in proposals : p.at >= q.at

EvaluateConsensus(rule, proposals, votes, override, now) ==
  LET fresh    == FilterStale(rule, proposals, now)
      refuted  == RefutedTargets(rule, votes)
      blocking == BlockingStatus(rule, fresh, refuted)
      result(status, path) == [status |-> status, path |-> path,
                               included |-> {p.id : p \in fresh}]
  IN  IF override # "none" THEN result(override, "override")
      ELSE IF rule.mode = "latest-proposal" \/ rule.requirements = <<>>
      THEN result(IF fresh = {} THEN "pending" ELSE PickLatest(fresh).decision, "latest-proposal")
      ELSE IF blocking # "none" THEN result(blocking, "blocking")
      ELSE IF \A i \in DOMAIN rule.requirements : Satisfied(rule.requirements[i], fresh)
      THEN result("approved", "requirements-met")
      ELSE result("pending", "requirements-pending")

(* frozenReviewerIdsForRule and the filter of activeProposalRows: with a     *)
(* declared reviewer set only its members' rows reach the evaluation.        *)
FrozenReviewers(rule) == UNION {rule.requirements[i].reviewerIds : i \in DOMAIN rule.requirements}

FrozenOnly(rule, proposals) ==
  IF FrozenReviewers(rule) = {} THEN proposals
  ELSE {p \in proposals : p.reviewer \in FrozenReviewers(rule)}

(* compileProfileReviewRule's checks of the single fields.                   *)
RuleIsCompiled(rule) ==
  /\ rule.mode \in {"latest-proposal", "consensus"}
  /\ rule.maxAge \in Int /\ IsFiniteSet(rule.refute.reviewerIds)
  /\ Len(rule.requirements) \in Nat /\ DOMAIN rule.requirements = 1 .. Len(rule.requirements)
  /\ \A i \in DOMAIN rule.requirements :
       /\ rule.requirements[i].blocking \subseteq {"changes_requested", "rejected"}
       /\ rule.requirements[i].minApprovals \in Nat

(* assertCompiledReviewRuleInvariants, the gates both boundaries share.      *)
RuleIsCoherent(rule) ==
  /\ rule.mode = "consensus" => rule.requirements # <<>>
  /\ rule.mode # "consensus" => rule.requirements = <<>> /\ rule.refute = NoRefute
  /\ \/ \A i \in DOMAIN rule.requirements : rule.requirements[i].reviewerIds = {}
     \/ \A i \in DOMAIN rule.requirements : rule.requirements[i].reviewerIds # {}
  /\ \A i \in DOMAIN rule.requirements :
       LET req == rule.requirements[i]
       IN  req.reviewerIds # {} => /\ Cardinality(req.reviewerIds) >= req.minApprovals
                                   /\ Cardinality(req.reviewerIds) >= req.quorum.minParticipants
  /\ Cardinality(rule.refute.reviewerIds) >= rule.refute.minParticipants

============================================================================
