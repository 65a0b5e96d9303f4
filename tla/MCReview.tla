------------------------------ MODULE MCReview ------------------------------
(* Instances of the two views of a review: the votes alone, as the consensus  *)
(* rules read them (ConsensusBallot), and the processes that file, evaluate,  *)
(* override and process them (ReviewGovernance).  The two share no variable:  *)
(* part says which of them moves.                                             *)
EXTENDS ReviewGovernance, ConsensusBallot, TLC

VARIABLE part

BothBlock == {"changes_requested", "rejected"}
MCGroup == [r \in {"codex", "lead", Manual} |-> "qa"] @@ [r \in {"s1", "s2", "s3"} |-> "sec"]

LatestRule ==
  [mode |-> "latest-proposal", requirements |-> <<>>, refute |-> NoRefute,
   rejectSuperseded |-> TRUE, maxAge |-> NoAge, allowedReviewers |-> {"lead"}]

Quorum(group, ids) ==
  [group |-> group, minApprovals |-> Cardinality(ids), blocking |-> BothBlock,
   quorum |-> NoQuorum, reviewerIds |-> ids]

FrozenRule ==
  [LatestRule EXCEPT !.mode = "consensus", !.requirements = <<Quorum("sec", {"s1", "s2"})>>]

RefuteRule ==
  [LatestRule EXCEPT !.mode = "consensus", !.requirements = <<Quorum("qa", {"codex"})>>,
                     !.refute = [group |-> "sec", reviewerIds |-> {"s1", "s2"}, minParticipants |-> 2]]

OpenRule ==
  [LatestRule EXCEPT !.mode = "consensus",
     !.requirements = <<[group |-> "qa", minApprovals |-> 1, blocking |-> BothBlock,
                         quorum |-> [minParticipants |-> 2, rate |-> NoRate, groupSize |-> 0],
                         reviewerIds |-> {}]>>]
Plain ==
  [rule |-> LatestRule, cast |-> Autos \cup Processors, reviewers |-> {"codex"}, changes |-> {},
   bindings |-> {0}, overrides |-> {}, hand |-> {}, housekeeping |-> {}, fail |-> FALSE,
   crash |-> FALSE, rows |-> 2]

\* Two reviewers and an overrider race a processor over proposals and a
\* hand-written verdict.
Latest ==
  [Plain EXCEPT !.cast = {"a1", "a2", "p1", "o1"}, !.reviewers = {"codex", "lead"},
                !.bindings = {0, 1}, !.overrides = {"approved"}, !.hand = {"changes_requested"},
                !.crash = TRUE]

\* Reviewers file while a drive and a processor evaluate the table.
Tabled ==
  [Plain EXCEPT !.rule = FrozenRule, !.cast = {"a1", "p1", "d1"}, !.reviewers = {"s1", "codex"},
                !.changes = {"c1"}, !.crash = TRUE, !.rows = 3]

\* Two drives dispatch reviewers and refuters over one another.
TwoDrives ==
  [Plain EXCEPT !.rule = RefuteRule, !.cast = {"p1", "d1", "d2"}, !.changes = {"c1"},
                !.housekeeping = {1}, !.fail = TRUE]

\* Two overriders race a processor and a drive.
TwoOverrides ==
  [Plain EXCEPT !.rule = OpenRule, !.cast = {"p1", "o1", "o2", "d1"}, !.reviewers = {"codex", "lead"},
                !.overrides = {"approved", "rejected"}, !.housekeeping = {1}, !.fail = TRUE]

AllSettings == {Latest, Tabled, TwoDrives, TwoOverrides}

\* The ballots.
Req(group, min, blocking, ids) ==
  [group |-> group, minApprovals |-> min, blocking |-> blocking,
   quorum |-> NoQuorum, reviewerIds |-> ids]

Consensus(reqs, refute) ==
  [mode |-> "consensus", requirements |-> reqs, refute |-> refute,
   rejectSuperseded |-> TRUE, maxAge |-> NoAge, allowedReviewers |-> {}]

Jury == [group |-> "sec", reviewerIds |-> {"s1", "s2", "s3"}, minParticipants |-> 2]
Sec  == Req("sec", 1, {"rejected"}, {})

MCBallotGroup == [r \in {"q1", "q2"} |-> "qa"] @@ [r \in {"s1", "s2", "s3"} |-> "sec"]

TwoGroups == Consensus(<<Req("qa", 2, BothBlock, {}), Sec>>, NoRefute)
Swapped   == Consensus(<<Sec, Req("qa", 1, BothBlock, {})>>, NoRefute)
Frozen    == Consensus(<<Req("qa", 1, BothBlock, {"q1"}), Req("sec", 1, BothBlock, {"s1"})>>, NoRefute)
Mixed     == Consensus(<<Req("qa", 1, BothBlock, {"q1"}), Req("sec", 1, BothBlock, {})>>, NoRefute)
Refutable == Consensus(<<Req("qa", 1, BothBlock, {})>>, Jury)
Aged      == [Swapped EXCEPT !.maxAge = 0]
Quorate   == Consensus(<<[Req("qa", 1, BothBlock, {}) EXCEPT
                            !.quorum = [minParticipants |-> 1, rate |-> 100, groupSize |-> 2]]>>, NoRefute)

MCRules == {TwoGroups, Swapped, Frozen, Mixed, Aged, Quorate, Refutable}
MCReviewers == [r \in MCRules |-> IF r = Refutable THEN {"q1", "q2"} ELSE {"q1", "q2", "s1"}]

\* Changes and prompts are compared for equality only.
BallotSymmetry == Permutations(Changes) \cup Permutations(Prompts)

ReviewInit ==
  /\ part \in {"governance", "ballot"}
  /\ GovInit /\ BallotInit
  /\ part # "governance" => setting = Latest
  /\ part # "ballot" => rule = TwoGroups

ReviewNext ==
  \/ part = "governance" /\ GovNext /\ UNCHANGED <<part, ballotVars>>
  \/ part = "ballot" /\ BallotNext /\ UNCHANGED <<part, govVars>>

ReviewSpec == ReviewInit /\ [][ReviewNext]_<<part, govVars, ballotVars>>
=============================================================================
