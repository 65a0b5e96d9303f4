-------------------------- MODULE ConsensusBallot --------------------------
(* A run under consensus review, seen as a ballot: reviewers file or revise  *)
(* their proposal, refuters vote on the changes asked for, time passes, and  *)
(* the gate of processConsensusModePath may look at the table at any moment. *)
(* The reachable tables are the inputs evaluateConsensus can meet.           *)
EXTENDS ReviewConsensus

CONSTANTS Rules,      \* the rules a profile may hold
          Reviewers,  \* rule -> everyone who may file a proposal under it
          BallotGroup,      \* reviewer registry: reviewer -> group
          Changes,    \* the changes reviewers may ask for
          Prompts,    \* prompts a refuter may be asked with (one per dispatch)
          MaxNow,     \* bound on the clock
          MaxVotes    \* bound on the refute votes recorded

ASSUME BallotAssumption == \A r \in Rules : RuleIsCompiled(r)

VARIABLES rule,       \* the rule frozen for the run
          ballots,  \* the active rows, at most one per reviewer
          votes,      \* review_refute_votes rows
          now

ballotVars == <<rule, ballots, votes, now>>

(* compileProfileReviewRule lets only coherent rules through.                *)
BallotInit ==
  /\ rule \in {r \in Rules : RuleIsCoherent(r)}
  /\ ballots = {}
  /\ votes = {}
  /\ now = 0

(* insertProposal: the reviewer's previous active row is superseded.  A      *)
(* request for changes names at least one (buildDecision); the changes other *)
(* verdicts may carry play no part in the evaluation.                        *)
FileProposal(r, d, cs) ==
  /\ d = "changes_requested" <=> cs # {}
  /\ ballots' = {p \in ballots : p.reviewer # r} \cup
       {[id |-> <<r, now>>, reviewer |-> r, group |-> BallotGroup[r], decision |-> d,
         changes |-> cs, at |-> now, superseded |-> FALSE]}
  /\ UNCHANGED <<rule, votes, now>>

(* A configured refuter is asked about one change an active                  *)
(* changes_requested row names; verifyAndRecordRefuteBinding stores the      *)
(* answer as valid when it is bound to that change.  A second vote under the *)
(* same prompt is dropped by the unique index.                               *)
RecordRefuteVote(r, c, verdict, prompt, bound) ==
  /\ rule.refute # NoRefute /\ r \in rule.refute.reviewerIds
  /\ \E p \in ballots : p.decision = "changes_requested" /\ c \in p.changes
  /\ Cardinality(votes) < MaxVotes
  /\ ~\E v \in votes : v.reviewer = r /\ v.target = c /\ v.prompt = prompt
  /\ votes' = votes \cup
       {[reviewer |-> r, group |-> BallotGroup[r], target |-> c, verdict |-> verdict,
         prompt |-> prompt, valid |-> bound]}
  /\ UNCHANGED <<rule, ballots, now>>

(* Time matters to a rule with a maximum age only.                           *)
Elapse == rule.maxAge # NoAge /\ now < MaxNow /\ now' = now + 1 /\ UNCHANGED <<rule, ballots, votes>>

BallotNext ==
  \/ \E r \in Reviewers[rule], d \in Verdicts, cs \in SUBSET Changes : FileProposal(r, d, cs)
  \/ \E r \in DOMAIN BallotGroup, c \in Changes, v \in {"uphold", "refute"}, q \in Prompts,
        bound \in BOOLEAN : RecordRefuteVote(r, c, v, q, bound)
  \/ Elapse

BallotSpec == BallotInit /\ [][BallotNext]_ballotVars

Outcome == EvaluateConsensus(rule, FrozenOnly(rule, ballots), votes, "none", now)

----------------------------------------------------------------------------
BallotTypeOK ==
  /\ rule \in Rules
  /\ \A p \in ballots : p.reviewer \in Reviewers[rule] /\ p.decision \in Verdicts /\ p.at =< now
  /\ \A v \in votes : v.reviewer \in rule.refute.reviewerIds /\ v.target \in Changes
  /\ Outcome.status \in ConsensusStatuses

(* Those whose verdict a requirement is about: its declared reviewers, or    *)
(* else the members of its group.                                            *)
Electorate(req) ==
  {r \in Reviewers[rule] : /\ BallotGroup[r] = req.group
                           /\ req.reviewerIds # {} => r \in req.reviewerIds}

Fresh(p) == rule.maxAge # NoAge => now - p.at =< rule.maxAge

(* A change is struck when more than half of the configured refuters each    *)
(* spoke once on it and said refute.                                         *)
Struck(c) ==
  LET spoke(r) == {v \in votes : v.reviewer = r /\ v.target = c /\ v.valid}
      against  == {r \in rule.refute.reviewerIds : \E v \in spoke(r) : v.verdict = "refute"}
  IN  /\ \A r \in rule.refute.reviewerIds : BallotGroup[r] = rule.refute.group => Cardinality(spoke(r)) =< 1
      /\ 2 * Cardinality(against) > Cardinality(rule.refute.reviewerIds)

(* evaluateConsensus approves only when no member of any requirement's own   *)
(* electorate stands on a fresh blocking verdict, except a request for       *)
(* changes all of whose changes were struck (core/review-consensus.ts        *)
(* 196-275 with the filter of activeProposalRows).                           *)
NoApprovalOverObjection ==
  Outcome.status = "approved" =>
    \A i \in DOMAIN rule.requirements, p \in ballots :
      LET req == rule.requirements[i]
      IN  p.reviewer \in Electorate(req) /\ Fresh(p) /\ p.decision \in req.blocking =>
            /\ p.decision = "changes_requested"
            /\ \A c \in p.changes : Struck(c)

(* The documented precedence rejected > changes_requested > approved >       *)
(* pending: whatever the order of the requirements, a fresh blocking         *)
(* rejection of any electorate makes the verdict "rejected"                  *)
(* (core/review-consensus.ts, the loop over rule.requirements).              *)
RejectionPrevails ==
  (\E i \in DOMAIN rule.requirements, p \in ballots :
     /\ p.reviewer \in Electorate(rule.requirements[i])
     /\ Fresh(p)
     /\ p.decision = "rejected"
     /\ "rejected" \in rule.requirements[i].blocking)
  => Outcome.status = "rejected"

============================================================================
